---------------------------- MODULE NativeProofs ----------------------------
(***************************************************************************)
(* Proofs about the iOS app's two controllers (NativeSession,               *)
(* NativeCoordination) and the app that joins them (NativeApp).             *)
(***************************************************************************)
EXTENDS NativeApp, SequenceTheorems, TLAPS

----------------------------------------------------------------------------
(* The coordination controller.  Every part of the screen that waits has a  *)
(* task of the part's present revision; tasks of earlier revisions are not  *)
(* wanted, whatever they bring back.                                        *)

Job == [n : Nat, kind : Loads \cup Mutations, context : Contexts \cup {NoContext},
        occurrence : Occurrences \cup {NoOccurrence}, revision : Nat, contextRevision : Nat,
        parent : Nat, at : {"wait", "back"}, reply : {"none", "ok", "failed", "unauthorized", "cancelled"},
        stamp : Nat, cancelled : BOOLEAN]

CoordinationTypes ==
  /\ jobs \subseteq Job /\ revision \in [Counters -> Nat] /\ uses \in Nat
  /\ context \in Contexts \cup {NoContext} /\ selected \in Occurrences \cup {NoOccurrence}
  /\ stamp \in Nat /\ ackedEvents \in 0 .. stamp /\ acked \in [Occurrences -> 0 .. stamp]

\* No task is ahead of the counter it compares itself with, nor of the server.
JobsAreBehind ==
  \A j \in jobs :
    /\ j.revision <= revision[Counter(j.kind)] /\ j.contextRevision <= revision["context"]
    /\ j.stamp <= stamp
    /\ j.kind \in {"detail", "change"} => j.occurrence \in Occurrences

\* What a wanted load brings back is no older than the changes shown as done.
WantedLoadsAreFresh ==
  \A j \in jobs :
    IsWanted(j) /\ j.at = "back" /\ j.reply = "ok" =>
      /\ j.kind = "schedule" => j.stamp >= ackedEvents
      /\ j.kind = "detail" => j.stamp >= acked[j.occurrence]

\* A loaded schedule has its parts.
LoadedIsWhole ==
  schedule.kind = "loaded" =>
    schedule = [kind |-> "loaded", of |-> schedule.of, stamp |-> schedule.stamp, counts |-> schedule.counts]

CoordinationInv ==
  /\ CoordinationTypes /\ LoadedIsWhole /\ JobsAreBehind /\ WantedLoadsAreFresh
  /\ SpinnersHaveWork /\ OwnChangesAreShown

\* Two records of one task, of which only the cancellation may differ.
IsSameTask(k, j) ==
  /\ k.n = j.n /\ k.kind = j.kind /\ k.context = j.context /\ k.occurrence = j.occurrence
  /\ k.revision = j.revision /\ k.contextRevision = j.contextRevision /\ k.parent = j.parent
  /\ k.at = j.at /\ k.reply = j.reply /\ k.stamp = j.stamp

LEMMA MarkedTask ==
  ASSUME NEW j \in Job, NEW doomed \in BOOLEAN
  PROVE  /\ [j EXCEPT !.cancelled = @ \/ doomed] \in Job
         /\ IsSameTask([j EXCEPT !.cancelled = @ \/ doomed], j)
BY DEF Job, IsSameTask

\* Which tasks are cancelled matters to no invariant.
Marks(marked, before) ==
  /\ \A k \in marked : k \in Job /\ \E j \in before : IsSameTask(k, j)
  /\ \A j \in before : \E k \in marked : IsSameTask(k, j)

LEMMA MarksAll ==
  ASSUME jobs \subseteq Job, NEW doomed \in [Job -> BOOLEAN]
  PROVE  Marks({[j EXCEPT !.cancelled = @ \/ doomed[j]] : j \in jobs}, jobs)
<1>1. \A j \in jobs : /\ [j EXCEPT !.cancelled = @ \/ doomed[j]] \in Job
                      /\ IsSameTask([j EXCEPT !.cancelled = @ \/ doomed[j]], j)
  BY MarkedTask
<1>. QED
  BY <1>1 DEF Marks

\* The markings there are.
LEMMA MarksThese ==
  ASSUME jobs \subseteq Job
  PROVE  /\ Marks(Without(LAMBDA j : TRUE), jobs)
         /\ Marks(Without(LAMBDA j : j.kind = "schedule"), jobs)
         /\ Marks(Without(LAMBDA j : j.kind = "detail"), jobs)
         /\ Marks(Without(LAMBDA j : j.kind = "detail" \/ IsCancellable(j)), jobs)
<1>1. Marks(Without(LAMBDA j : TRUE), jobs)
  <2> DEFINE doomed == [j \in Job |-> TRUE]
  <2>1. Without(LAMBDA j : TRUE) = {[j EXCEPT !.cancelled = @ \/ doomed[j]] : j \in jobs}
    BY DEF Without
  <2>2. doomed \in [Job -> BOOLEAN]
    BY DEF IsCancellable
  <2> HIDE DEF doomed
  <2>. QED
    BY <2>1, <2>2, MarksAll
<1>2. Marks(Without(LAMBDA j : j.kind = "schedule"), jobs)
  <2> DEFINE doomed == [j \in Job |-> j.kind = "schedule"]
  <2>1. Without(LAMBDA j : j.kind = "schedule") = {[j EXCEPT !.cancelled = @ \/ doomed[j]] : j \in jobs}
    BY DEF Without
  <2>2. doomed \in [Job -> BOOLEAN]
    BY DEF IsCancellable
  <2> HIDE DEF doomed
  <2>. QED
    BY <2>1, <2>2, MarksAll
<1>3. Marks(Without(LAMBDA j : j.kind = "detail"), jobs)
  <2> DEFINE doomed == [j \in Job |-> j.kind = "detail"]
  <2>1. Without(LAMBDA j : j.kind = "detail") = {[j EXCEPT !.cancelled = @ \/ doomed[j]] : j \in jobs}
    BY DEF Without
  <2>2. doomed \in [Job -> BOOLEAN]
    BY DEF IsCancellable
  <2> HIDE DEF doomed
  <2>. QED
    BY <2>1, <2>2, MarksAll
<1>4. Marks(Without(LAMBDA j : j.kind = "detail" \/ IsCancellable(j)), jobs)
  <2> DEFINE doomed == [j \in Job |-> j.kind = "detail" \/ IsCancellable(j)]
  <2>1. Without(LAMBDA j : j.kind = "detail" \/ IsCancellable(j)) = {[j EXCEPT !.cancelled = @ \/ doomed[j]] : j \in jobs}
    BY DEF Without
  <2>2. doomed \in [Job -> BOOLEAN]
    BY DEF IsCancellable
  <2> HIDE DEF doomed
  <2>. QED
    BY <2>1, <2>2, MarksAll
<1>. QED
  BY <1>1, <1>2, <1>3, <1>4

LEMMA CoordinationInitInv == CoordinationInit => CoordinationInv
BY DEF CoordinationInit, CoordinationInv, CoordinationTypes, JobsAreBehind, WantedLoadsAreFresh,
   SpinnersHaveWork, LoadedIsWhole, OwnChangesAreShown, IdlePart

\* A task made now is the newest of its counter, and waits.
IsNewJob(k) ==
  /\ k \in Job /\ k.at = "wait" /\ k.reply = "none" /\ k.stamp = 0
  /\ k.revision = revision'[Counter(k.kind)] /\ k.contextRevision = revision'["context"]

LEMMA NewJobs ==
  ASSUME NEW n \in Nat, NEW kind \in Loads \cup Mutations, NEW ctx \in Contexts \cup {NoContext},
         NEW occurrence \in Occurrences \cup {NoOccurrence}, NEW parent \in Nat,
         revision' \in [Counters -> Nat]
  PROVE  LET k == NewJob(n, kind, ctx, occurrence, parent)
         IN /\ IsNewJob(k) /\ k.kind = kind /\ k.context = ctx /\ k.occurrence = occurrence
BY DEF IsNewJob, NewJob, Job, Counter, Counters, Loads, Mutations

LEMMA Advanced ==
  ASSUME revision \in [Counters -> Nat], NEW counters \in SUBSET Counters, Advance(counters)
  PROVE  /\ revision' \in [Counters -> Nat]
         /\ \A c \in counters : revision'[c] = revision[c] + 1
         /\ \A c \in Counters \ counters : revision'[c] = revision[c]
         /\ \A c \in Counters : revision'[c] >= revision[c]
BY DEF Advance

LEMMA CountersAre == /\ "context" \in Counters /\ "schedule" \in Counters /\ "detail" \in Counters
                     /\ "mutation" \in Counters
                     /\ \A kind \in Loads \cup Mutations :
                          /\ kind = "schedule" => Counter(kind) = "schedule"
                          /\ kind = "detail" => Counter(kind) = "detail"
                          /\ kind \in {"create", "change"} => Counter(kind) = "mutation"
                          /\ Counter(kind) \in Counters
BY DEF Counters, Counter, Loads, Mutations

\* The tasks after a step are those before it, marked or not, and new ones.
LEMMA TasksStayBehind ==
  ASSUME CoordinationInv, revision' \in [Counters -> Nat], stamp' \in Nat, stamp' >= stamp,
         \A c \in Counters : revision'[c] >= revision[c],
         \A k \in jobs' :
           \/ k \in Job /\ \E j \in jobs : IsSameTask(k, j)
           \/ IsNewJob(k) /\ (k.kind \in {"detail", "change"} => k.occurrence \in Occurrences)
  PROVE  jobs' \subseteq Job /\ JobsAreBehind'
<1>1. jobs' \subseteq Job
  BY DEF IsNewJob
<1> SUFFICES ASSUME NEW k \in jobs'
             PROVE  /\ k.revision <= revision'[Counter(k.kind)]
                    /\ k.contextRevision <= revision'["context"] /\ k.stamp <= stamp'
                    /\ k.kind \in {"detail", "change"} => k.occurrence \in Occurrences
  BY <1>1 DEF JobsAreBehind, Counter
<1>2. k.kind \in Loads \cup Mutations /\ k.revision \in Nat /\ k.contextRevision \in Nat /\ k.stamp \in Nat
  BY <1>1 DEF Job
<1>3. Counter(k.kind) \in Counters /\ "context" \in Counters
  BY <1>2, CountersAre
<1>4. CASE IsNewJob(k) /\ (k.kind \in {"detail", "change"} => k.occurrence \in Occurrences)
  BY <1>3, <1>4 DEF IsNewJob
<1>5. ASSUME NEW j \in jobs, IsSameTask(k, j)
      PROVE  /\ k.revision <= revision'[Counter(k.kind)]
             /\ k.contextRevision <= revision'["context"] /\ k.stamp <= stamp'
             /\ k.kind \in {"detail", "change"} => k.occurrence \in Occurrences
  <2>1. /\ k.revision <= revision[Counter(k.kind)] /\ k.contextRevision <= revision["context"]
        /\ k.stamp <= stamp /\ (k.kind \in {"detail", "change"} => k.occurrence \in Occurrences)
    BY <1>5 DEF CoordinationInv, JobsAreBehind, IsSameTask
  <2>2. /\ revision[Counter(k.kind)] \in Nat /\ revision'[Counter(k.kind)] \in Nat
        /\ revision["context"] \in Nat /\ revision'["context"] \in Nat /\ stamp \in Nat
    BY <1>3 DEF CoordinationInv, CoordinationTypes
  <2>. QED
    BY <1>2, <1>3, <2>1, <2>2
<1>. QED
  BY <1>4, <1>5

\* Where the counter has advanced, tasks made before are wanted no more.
LEMMA OldTasksAreUnwanted ==
  ASSUME CoordinationInv, NEW k \in Job, NEW j \in jobs, IsSameTask(k, j), NEW c \in Counters,
         c = "context" \/ c = Counter(k.kind), revision'[c] = revision[c] + 1
  PROVE  ~IsWanted(k)'
<1>1. j.revision <= revision[Counter(j.kind)] /\ j.contextRevision <= revision["context"]
  BY DEF CoordinationInv, JobsAreBehind
<1>2. k.revision = j.revision /\ k.contextRevision = j.contextRevision /\ k.kind = j.kind
  BY DEF IsSameTask
<1>3. k.revision \in Nat /\ k.contextRevision \in Nat /\ revision[c] \in Nat
  BY DEF Job, CoordinationInv, CoordinationTypes
<1>. QED
  BY <1>1, <1>2, <1>3 DEF IsWanted, Counter

\* Where neither its counter nor the context has moved, a task is wanted as before.
LEMMA TasksStayWanted ==
  ASSUME NEW k, NEW j, IsSameTask(k, j), context' = context, revision'["context"] = revision["context"],
         revision'[Counter(j.kind)] = revision[Counter(j.kind)],
         selected' = selected \/ j.kind \notin {"detail", "change"}
  PROVE  IsWanted(k)' <=> IsWanted(j)
BY DEF IsWanted, IsSameTask, Counter

\* What a step that advances the counters C leaves: tasks of other counters are
\* wanted as before, and what wanted loads bring back is fresh.
LEMMA TasksMove ==
  ASSUME CoordinationInv, NEW C \in SUBSET Counters, revision' \in [Counters -> Nat],
         \A c \in C : revision'[c] = revision[c] + 1,
         \A c \in Counters \ C : revision'[c] = revision[c],
         context' = context \/ "context" \in C,
         selected' = selected \/ {"detail", "mutation"} \subseteq C,
         acked' = acked \/ "detail" \in C,
         ackedEvents' = ackedEvents \/ "schedule" \in C,
         stamp' = stamp,
         \A k \in jobs' :
           \/ k \in Job /\ \E j \in jobs : IsSameTask(k, j)
           \/ IsNewJob(k) /\ (k.kind \in {"detail", "change"} => k.occurrence \in Occurrences)
  PROVE  /\ jobs' \subseteq Job /\ JobsAreBehind' /\ WantedLoadsAreFresh'
         /\ \A k \in Job, j \in jobs :
              IsSameTask(k, j) /\ "context" \notin C /\ Counter(j.kind) \notin C =>
                (IsWanted(k)' <=> IsWanted(j))
<1>1. \A j \in jobs : Counter(j.kind) \in Counters /\ "context" \in Counters /\ j.kind \in Loads \cup Mutations
  BY CountersAre DEF CoordinationInv, CoordinationTypes, Job
<1>2. jobs' \subseteq Job /\ JobsAreBehind'
  BY TasksStayBehind DEF CoordinationInv, CoordinationTypes
<1>3. \A k \in Job, j \in jobs :
        IsSameTask(k, j) /\ "context" \notin C /\ Counter(j.kind) \notin C => (IsWanted(k)' <=> IsWanted(j))
  <2> SUFFICES ASSUME NEW k \in Job, NEW j \in jobs,
                      IsSameTask(k, j), "context" \notin C, Counter(j.kind) \notin C
               PROVE  IsWanted(k)' <=> IsWanted(j)
    OBVIOUS
  <2>1. selected' = selected \/ j.kind \notin {"detail", "change"}
    BY <1>1, CountersAre
  <2>2. /\ context' = context /\ revision'["context"] = revision["context"]
        /\ revision'[Counter(j.kind)] = revision[Counter(j.kind)]
    BY <1>1
  <2>. QED
    BY <2>1, <2>2, TasksStayWanted
<1>4. WantedLoadsAreFresh'
  <2> SUFFICES ASSUME NEW k \in jobs', IsWanted(k)', k.at = "back", k.reply = "ok"
               PROVE  /\ k.kind = "schedule" => k.stamp >= ackedEvents'
                      /\ k.kind = "detail" => k.stamp >= acked'[k.occurrence]
    BY DEF WantedLoadsAreFresh
  <2>1. PICK j \in jobs : IsSameTask(k, j) /\ k \in Job
    BY DEF IsNewJob
  <2>2. "context" \notin C /\ Counter(k.kind) \notin C
    BY <1>1, <2>1, OldTasksAreUnwanted DEF IsSameTask
  <2>3. IsWanted(j)
    BY <1>3, <2>1, <2>2 DEF IsSameTask
  <2>4. /\ j.kind = "schedule" => j.stamp >= ackedEvents
        /\ j.kind = "detail" => j.stamp >= acked[j.occurrence]
    BY <2>1, <2>3 DEF CoordinationInv, WantedLoadsAreFresh, IsSameTask
  <2>5. /\ k.kind = "schedule" => "schedule" \notin C
        /\ k.kind = "detail" => "detail" \notin C
    BY <2>2 DEF Counter, Loads
  <2>. QED
    BY <2>1, <2>4, <2>5 DEF IsSameTask
<1>. QED
  BY <1>2, <1>3, <1>4

\* Another season or none: nothing of before is wanted.
LEMMA AnewKeepsInv ==
  ASSUME CoordinationInv, Advance(Counters), context' \in Contexts \cup {NoContext},
         selected' = NoOccurrence, detail' = IdlePart, mutation' = "idle", ackedEvents' = 0,
         stamp' = stamp, acked' = acked, uses' \in Nat,
         \A k \in jobs' : \/ k \in Job /\ \E j \in jobs : IsSameTask(k, j)
                          \/ IsNewJob(k) /\ k.kind = "schedule",
         schedule'.kind # "loaded",
         schedule'.kind = "loading" =>
           \E k \in jobs' : IsNewJob(k) /\ k.kind = "schedule" /\ k.context = context'
  PROVE  CoordinationInv'
<1>1. /\ revision' \in [Counters -> Nat] /\ \A c \in Counters : revision'[c] = revision[c] + 1
  BY Advanced DEF CoordinationInv, CoordinationTypes
<1>2. jobs' \subseteq Job /\ JobsAreBehind' /\ WantedLoadsAreFresh'
  BY <1>1, TasksMove, CountersAre
<1>3. CoordinationTypes'
  BY <1>1, <1>2 DEF CoordinationInv, CoordinationTypes
<1>4. SpinnersHaveWork'
  BY DEF SpinnersHaveWork, IsWanted, IsNewJob, IdlePart
<1>5. OwnChangesAreShown' /\ LoadedIsWhole'
  BY DEF LoadedIsWhole, OwnChangesAreShown, IdlePart
<1>. QED
  BY <1>2, <1>3, <1>4, <1>5 DEF CoordinationInv

LEMMA SetContextKeepsInv ==
  ASSUME CoordinationInv, NEW ctx \in Contexts \cup {NoContext}, SetContext(ctx)
  PROVE  CoordinationInv'
<1>1. uses' \in Nat /\ NewNumber \in Nat
  BY DEF CoordinationInv, CoordinationTypes, SetContext, Use, NewNumber
<1>2. Marks(Without(LAMBDA j : TRUE), jobs)
  BY MarksThese DEF CoordinationInv, CoordinationTypes
<1>3. CASE ctx = NoContext
  <2>1. Renew(ctx, IdlePart, {})
    BY <1>3 DEF SetContext
  <2>. QED
    BY <1>1, <1>2, <2>1, AnewKeepsInv DEF Renew, SetContext, Marks, IdlePart
<1>4. CASE ctx # NoContext
  <2> DEFINE new == NewJob(NewNumber, "schedule", ctx, NoOccurrence, 0)
  <2>1. Renew(ctx, Loading, {new})
    BY <1>4 DEF SetContext
  <2>2. revision' \in [Counters -> Nat]
    BY <2>1, Advanced DEF Renew, CoordinationInv, CoordinationTypes
  <2>3. IsNewJob(new) /\ new.kind = "schedule" /\ new.context = ctx
    BY <1>1, <2>2, NewJobs DEF Loads
  <2> HIDE DEF new
  <2>. QED
    BY <1>1, <1>2, <2>1, <2>3, AnewKeepsInv DEF Renew, SetContext, Marks, Loading
<1>. QED
  BY <1>3, <1>4

LEMMA InvalidateKeepsInv ==
  ASSUME CoordinationInv, NEW j \in jobs, Invalidate(j), stamp' = stamp, uses' = uses
  PROVE  CoordinationInv'
<1>1. Marks(Without(LAMBDA k : TRUE), jobs) /\ uses' \in Nat
  BY MarksThese DEF CoordinationInv, CoordinationTypes
<1>2. \A k \in jobs' : k \in Job /\ \E i \in jobs : IsSameTask(k, i)
  BY <1>1 DEF Invalidate, Marks
<1>. QED
  BY <1>1, <1>2, AnewKeepsInv DEF Invalidate, Failed

LEMMA ReloadKeepsInv ==
  ASSUME CoordinationInv, ReloadSchedule
  PROVE  CoordinationInv'
<1>1. /\ uses' \in Nat /\ NewNumber \in Nat /\ context \in Contexts \cup {NoContext}
      /\ revision \in [Counters -> Nat] /\ jobs \subseteq Job
  BY DEF CoordinationInv, CoordinationTypes, ReloadSchedule, Use, NewNumber
<1>2. Marks(Without(LAMBDA j : j.kind = "schedule"), jobs)
  BY <1>1, MarksThese
<1>3. PICK new : new = NewJob(NewNumber, "schedule", context, NoOccurrence, 0)
  OBVIOUS
<1>4. /\ Advance({"schedule"}) /\ schedule' = Loading
      /\ jobs' = Without(LAMBDA j : j.kind = "schedule") \cup {new}
      /\ UNCHANGED <<context, selected, detail, mutation, canceller, stamp, acked, ackedEvents>>
  BY <1>3 DEF ReloadSchedule, LoadSchedule
<1>5. PICK C : C = {"schedule"}
  OBVIOUS
<1>6. /\ C \in SUBSET Counters /\ revision' \in [Counters -> Nat]
      /\ \A c \in C : revision'[c] = revision[c] + 1
      /\ \A c \in Counters \ C : revision'[c] = revision[c]
  BY <1>1, <1>4, <1>5, Advanced, CountersAre
<1>7. IsNewJob(new) /\ new.kind = "schedule" /\ new.context = context
  BY <1>1, <1>3, <1>6 DEF NewJob, IsNewJob, Job, Counter, Counters, Loads, Mutations
<1>8. \A k \in jobs' :
        \/ k \in Job /\ \E j \in jobs : IsSameTask(k, j)
        \/ IsNewJob(k) /\ (k.kind \in {"detail", "change"} => k.occurrence \in Occurrences)
  BY <1>2, <1>4, <1>7 DEF Marks
<1>9. /\ jobs' \subseteq Job /\ JobsAreBehind' /\ WantedLoadsAreFresh'
      /\ \A k \in Job, j \in jobs :
           IsSameTask(k, j) /\ "context" \notin C /\ Counter(j.kind) \notin C =>
             (IsWanted(k)' <=> IsWanted(j))
  BY <1>4, <1>5, <1>6, <1>8, TasksMove
<1>10. CoordinationTypes'
  BY <1>1, <1>4, <1>6, <1>9 DEF CoordinationInv, CoordinationTypes
<1>11. \A j \in jobs : IsWanted(j) /\ j.kind # "schedule" =>
         \E k \in jobs' : IsSameTask(k, j) /\ IsWanted(k)'
  BY <1>2, <1>4, <1>5, <1>9 DEF Marks, Counter
<1>12. SpinnersHaveWork'
  <2>1. IsWanted(new)' /\ new \in jobs'
    BY <1>4, <1>7 DEF IsWanted, IsNewJob
  <2>2. schedule'.kind = "loading" => \E k \in jobs' : k.kind = "schedule" /\ IsWanted(k)'
    BY <2>1, <1>7
  <2>3. detail'.kind = "loading" => \E k \in jobs' : k.kind = "detail" /\ IsWanted(k)'
    BY <1>4, <1>11 DEF SpinnersHaveWork, CoordinationInv, IsSameTask
  <2>4. mutation' = "saving" => \E k \in jobs' : k.kind \in Mutations /\ IsWanted(k)'
    BY <1>4, <1>11 DEF SpinnersHaveWork, CoordinationInv, IsSameTask, Mutations
  <2>. QED
    BY <2>2, <2>3, <2>4 DEF SpinnersHaveWork
<1>13. OwnChangesAreShown' /\ LoadedIsWhole'
  BY <1>4 DEF LoadedIsWhole, OwnChangesAreShown, CoordinationInv, Loading
<1>. QED
  BY <1>9, <1>10, <1>12, <1>13 DEF CoordinationInv

LEMMA OpenKeepsInv ==
  ASSUME CoordinationInv, NEW o \in Occurrences \cup {NoOccurrence}, OpenOccurrence(o)
  PROVE  CoordinationInv'
<1>1. /\ uses' \in Nat /\ NewNumber \in Nat /\ context \in Contexts \cup {NoContext}
      /\ revision \in [Counters -> Nat] /\ jobs \subseteq Job
      /\ selected' \in Occurrences \cup {NoOccurrence}
  BY DEF CoordinationInv, CoordinationTypes, OpenOccurrence, Use, NewNumber
<1>2. Marks(Without(LAMBDA j : j.kind = "detail" \/ IsCancellable(j)), jobs)
  BY <1>1, MarksThese
<1>3. PICK new : new = NewJob(NewNumber, "detail", context, selected', 0)
  OBVIOUS
<1>4. /\ Advance({"detail", "mutation"}) /\ mutation' = "idle"
      /\ detail' = IF selected' = NoOccurrence THEN IdlePart ELSE Loading
      /\ jobs' = Without(LAMBDA j : j.kind = "detail" \/ IsCancellable(j))
                   \cup (IF selected' = NoOccurrence THEN {} ELSE {new})
      /\ UNCHANGED <<context, schedule, stamp, acked, ackedEvents>>
  BY <1>3 DEF OpenOccurrence
<1>5. PICK C : C = {"detail", "mutation"}
  OBVIOUS
<1>6. /\ C \in SUBSET Counters /\ revision' \in [Counters -> Nat]
      /\ \A c \in C : revision'[c] = revision[c] + 1
      /\ \A c \in Counters \ C : revision'[c] = revision[c]
  BY <1>1, <1>4, <1>5, Advanced, CountersAre
<1>7. /\ IsNewJob(new) /\ new.kind = "detail" /\ new.context = context /\ new.occurrence = selected'
  BY <1>1, <1>3, <1>6 DEF NewJob, IsNewJob, Job, Counter, Counters, Loads, Mutations
<1>8. \A k \in jobs' :
        \/ k \in Job /\ \E j \in jobs : IsSameTask(k, j)
        \/ IsNewJob(k) /\ (k.kind \in {"detail", "change"} => k.occurrence \in Occurrences)
  BY <1>1, <1>2, <1>4, <1>7 DEF Marks
<1>9. /\ jobs' \subseteq Job /\ JobsAreBehind' /\ WantedLoadsAreFresh'
      /\ \A k \in Job, j \in jobs :
           IsSameTask(k, j) /\ "context" \notin C /\ Counter(j.kind) \notin C =>
             (IsWanted(k)' <=> IsWanted(j))
  BY <1>4, <1>5, <1>6, <1>8, TasksMove
<1>10. CoordinationTypes'
  BY <1>1, <1>4, <1>6, <1>9 DEF CoordinationInv, CoordinationTypes
<1>11. SpinnersHaveWork'
  <2>1. schedule'.kind = "loading" => \E k \in jobs' : k.kind = "schedule" /\ IsWanted(k)'
    <3> SUFFICES ASSUME schedule.kind = "loading"
                 PROVE  \E k \in jobs' : k.kind = "schedule" /\ IsWanted(k)'
      BY <1>4
    <3>1. PICK j \in jobs : j.kind = "schedule" /\ IsWanted(j)
      BY DEF CoordinationInv, SpinnersHaveWork
    <3>2. PICK k \in jobs' : k \in Job /\ IsSameTask(k, j)
      BY <1>2, <1>4 DEF Marks
    <3>. QED
      BY <1>5, <1>9, <3>1, <3>2 DEF Counter, Loads, IsSameTask
  <2>2. detail'.kind = "loading" => \E k \in jobs' : k.kind = "detail" /\ IsWanted(k)'
    BY <1>4, <1>7 DEF IsWanted, IsNewJob, IdlePart
  <2>. QED
    BY <1>4, <2>1, <2>2 DEF SpinnersHaveWork
<1>12. OwnChangesAreShown' /\ LoadedIsWhole'
  BY <1>4 DEF LoadedIsWhole, OwnChangesAreShown, CoordinationInv, Loading, IdlePart
<1>. QED
  BY <1>9, <1>10, <1>11, <1>12 DEF CoordinationInv

LEMMA MutateKeepsInv ==
  ASSUME CoordinationInv, NEW kind \in Mutations, Mutate(kind)
  PROVE  CoordinationInv'
<1>1. /\ uses' \in Nat /\ NewNumber \in Nat /\ context \in Contexts \cup {NoContext}
      /\ revision \in [Counters -> Nat] /\ jobs \subseteq Job
      /\ selected \in Occurrences \cup {NoOccurrence} /\ (kind = "change" => selected \in Occurrences)
  BY DEF CoordinationInv, CoordinationTypes, Mutate, Use, NewNumber
<1>2. PICK new : new = NewJob(NewNumber, kind, context, selected, 0)
  OBVIOUS
<1>3. /\ Advance({"mutation"}) /\ mutation' = "saving" /\ jobs' = jobs \cup {new}
      /\ UNCHANGED <<context, schedule, selected, detail, stamp, acked, ackedEvents>>
  BY <1>2 DEF Mutate
<1>4. PICK C : C = {"mutation"}
  OBVIOUS
<1>5. /\ C \in SUBSET Counters /\ revision' \in [Counters -> Nat]
      /\ \A c \in C : revision'[c] = revision[c] + 1
      /\ \A c \in Counters \ C : revision'[c] = revision[c]
  BY <1>1, <1>3, <1>4, Advanced, CountersAre
<1>6. IsNewJob(new) /\ new.kind = kind /\ new.context = context /\ new.occurrence = selected
  BY <1>1, <1>2, <1>5 DEF NewJob, IsNewJob, Job, Counter, Counters, Loads, Mutations
<1>7. \A k \in jobs : k \in Job /\ IsSameTask(k, k)
  BY <1>1 DEF IsSameTask
<1>8. \A k \in jobs' :
        \/ k \in Job /\ \E j \in jobs : IsSameTask(k, j)
        \/ IsNewJob(k) /\ (k.kind \in {"detail", "change"} => k.occurrence \in Occurrences)
  BY <1>1, <1>3, <1>6, <1>7 DEF Mutations
<1>9. /\ jobs' \subseteq Job /\ JobsAreBehind' /\ WantedLoadsAreFresh'
      /\ \A k \in Job, j \in jobs :
           IsSameTask(k, j) /\ "context" \notin C /\ Counter(j.kind) \notin C =>
             (IsWanted(k)' <=> IsWanted(j))
  BY <1>3, <1>4, <1>5, <1>8, TasksMove
<1>10. CoordinationTypes'
  BY <1>1, <1>3, <1>5, <1>9 DEF CoordinationInv, CoordinationTypes
<1>11. \A j \in jobs : j.kind \in Loads /\ IsWanted(j) => IsWanted(j)'
  BY <1>4, <1>7, <1>9 DEF Counter, Loads
<1>12. SpinnersHaveWork'
  <2>1. IsWanted(new)' /\ new \in jobs'
    BY <1>3, <1>6 DEF IsWanted, IsNewJob
  <2>2. mutation' = "saving" => \E k \in jobs' : k.kind \in Mutations /\ IsWanted(k)'
    BY <2>1, <1>6
  <2>3. /\ schedule'.kind = "loading" => \E k \in jobs' : k.kind = "schedule" /\ IsWanted(k)'
        /\ detail'.kind = "loading" => \E k \in jobs' : k.kind = "detail" /\ IsWanted(k)'
    BY <1>3, <1>11 DEF SpinnersHaveWork, CoordinationInv, Loads
  <2>. QED
    BY <2>2, <2>3 DEF SpinnersHaveWork
<1>13. OwnChangesAreShown' /\ LoadedIsWhole'
  BY <1>3 DEF LoadedIsWhole, OwnChangesAreShown, CoordinationInv
<1>. QED
  BY <1>9, <1>10, <1>12, <1>13 DEF CoordinationInv

LEMMA CancelKeepsInv ==
  ASSUME CoordinationInv, AbandonLoad
  PROVE  CoordinationInv'
<1>1. PICK j \in jobs : jobs' = Without(LAMBDA k : k = j)
  BY DEF AbandonLoad
<1>2. /\ revision \in [Counters -> Nat] /\ jobs \subseteq Job
      /\ UNCHANGED <<context, schedule, selected, detail, mutation, revision, stamp, acked, ackedEvents, uses>>
  BY DEF CoordinationInv, CoordinationTypes, AbandonLoad
<1>3. Marks(jobs', jobs)
  <2> DEFINE doomed == [k \in Job |-> k = j]
  <2>1. jobs' = {[k EXCEPT !.cancelled = @ \/ doomed[k]] : k \in jobs}
    BY <1>1, <1>2 DEF Without
  <2>2. doomed \in [Job -> BOOLEAN]
    OBVIOUS
  <2> HIDE DEF doomed
  <2>. QED
    BY <1>2, <2>1, <2>2, MarksAll
<1>4. PICK C \in SUBSET Counters : C = {}
  OBVIOUS
<1>5. /\ jobs' \subseteq Job /\ JobsAreBehind' /\ WantedLoadsAreFresh'
      /\ \A k \in Job, i \in jobs :
           IsSameTask(k, i) /\ "context" \notin C /\ Counter(i.kind) \notin C =>
             (IsWanted(k)' <=> IsWanted(i))
  <2>1. /\ revision' \in [Counters -> Nat]
        /\ \A c \in C : revision'[c] = revision[c] + 1
        /\ \A c \in Counters \ C : revision'[c] = revision[c]
        /\ context' = context /\ selected' = selected /\ acked' = acked /\ ackedEvents' = ackedEvents
        /\ stamp' = stamp
    BY <1>2, <1>4
  <2>2. \A k \in jobs' : k \in Job /\ \E i \in jobs : IsSameTask(k, i)
    BY <1>3 DEF Marks
  <2>. QED
    BY <2>1, <2>2, TasksMove
<1>6. CoordinationTypes'
  BY <1>2, <1>5 DEF CoordinationInv, CoordinationTypes
<1>7. \A i \in jobs : IsWanted(i) => \E k \in jobs' : k.kind = i.kind /\ IsWanted(k)'
  BY <1>3, <1>4, <1>5 DEF Marks, IsSameTask
<1>8. SpinnersHaveWork' /\ OwnChangesAreShown' /\ LoadedIsWhole'
  BY <1>2, <1>7 DEF LoadedIsWhole, SpinnersHaveWork, OwnChangesAreShown, CoordinationInv
<1>. QED
  BY <1>5, <1>6, <1>8 DEF CoordinationInv

LEMMA ServeKeepsInv ==
  ASSUME CoordinationInv, NEW j \in jobs, Serve(j)
  PROVE  CoordinationInv'
<1>1. /\ revision \in [Counters -> Nat] /\ jobs \subseteq Job /\ j \in Job /\ stamp \in Nat
      /\ UNCHANGED <<context, schedule, selected, detail, mutation, revision, acked, ackedEvents, uses>>
  BY DEF CoordinationInv, CoordinationTypes, Serve
<1>2. PICK reply \in {"ok", "failed", "unauthorized", "cancelled"}, commits \in BOOLEAN :
        /\ stamp' = stamp + (IF commits THEN 1 ELSE 0)
        /\ jobs' = (jobs \ {j}) \cup {[j EXCEPT !.at = "back", !.reply = reply, !.stamp = stamp']}
  BY DEF Serve
<1>3. stamp' \in Nat /\ stamp' >= stamp
  BY <1>1, <1>2
<1>4. PICK back : back = [j EXCEPT !.at = "back", !.reply = reply, !.stamp = stamp']
  OBVIOUS
<1>5. /\ back = [n |-> j.n, kind |-> j.kind, context |-> j.context, occurrence |-> j.occurrence,
                 revision |-> j.revision, contextRevision |-> j.contextRevision, parent |-> j.parent,
                 at |-> "back", reply |-> reply, stamp |-> stamp', cancelled |-> j.cancelled]
      /\ back \in Job
  BY <1>1, <1>3, <1>4 DEF Job
<1>6. /\ back.kind = j.kind /\ back.context = j.context /\ back.occurrence = j.occurrence
      /\ back.revision = j.revision /\ back.contextRevision = j.contextRevision
      /\ back.at = "back" /\ back.stamp = stamp'
  BY <1>5
<1>7. jobs' = (jobs \ {j}) \cup {back}
  BY <1>2, <1>4
<1>8. CoordinationTypes'
  BY <1>1, <1>3, <1>5, <1>7 DEF CoordinationInv, CoordinationTypes
<1>9. JobsAreBehind'
  BY <1>1, <1>3, <1>6, <1>7 DEF JobsAreBehind, CoordinationInv, Job, Counter
<1>10. /\ IsWanted(back)' <=> IsWanted(j)
       /\ \A k \in jobs : IsWanted(k)' <=> IsWanted(k)
  BY <1>1, <1>6 DEF IsWanted, Counter
<1>11. WantedLoadsAreFresh'
  BY <1>1, <1>3, <1>6, <1>7, <1>10
  DEF WantedLoadsAreFresh, CoordinationInv, CoordinationTypes, JobsAreBehind
<1>12. SpinnersHaveWork' /\ OwnChangesAreShown' /\ LoadedIsWhole'
  BY <1>1, <1>6, <1>7, <1>10 DEF LoadedIsWhole, SpinnersHaveWork, OwnChangesAreShown, CoordinationInv
<1>. QED
  BY <1>8, <1>9, <1>11, <1>12 DEF CoordinationInv

\* A task ends and the counters stay: the others are wanted as before.
LEMMA TaskEnds ==
  ASSUME CoordinationInv, NEW j \in jobs, jobs' = jobs \ {j},
         UNCHANGED <<context, selected, revision, acked, ackedEvents, stamp, uses>>
  PROVE  /\ CoordinationTypes' /\ JobsAreBehind' /\ WantedLoadsAreFresh'
         /\ \A k \in jobs : IsWanted(k) => k = j \/ (k \in jobs' /\ IsWanted(k)')
<1>1. \A k \in jobs : IsWanted(k)' <=> IsWanted(k)
  BY DEF IsWanted, Counter
<1>2. CoordinationTypes' /\ JobsAreBehind'
  BY DEF CoordinationInv, CoordinationTypes, JobsAreBehind, Counter
<1>3. WantedLoadsAreFresh'
  BY <1>1 DEF CoordinationInv, WantedLoadsAreFresh
<1>. QED
  BY <1>1, <1>2, <1>3

LEMMA LoadBackKeepsInv ==
  ASSUME CoordinationInv, NEW j \in jobs, j.at = "back", IsWanted(j), ScheduleBack(j) \/ DetailBack(j),
         stamp' = stamp, uses' = uses
  PROVE  CoordinationInv'
<1>1. /\ jobs' = jobs \ {j} /\ mutation' = mutation
      /\ UNCHANGED <<context, selected, revision, acked, ackedEvents, stamp, uses>>
  BY DEF ScheduleBack, DetailBack, Drop
<1>2. /\ CoordinationTypes' /\ JobsAreBehind' /\ WantedLoadsAreFresh'
      /\ \A k \in jobs : IsWanted(k) => k = j \/ (k \in jobs' /\ IsWanted(k)')
  BY <1>1, TaskEnds
<1>3. CASE ScheduleBack(j)
  <2>1. /\ j.kind = "schedule" /\ detail' = detail /\ j.context = context
        /\ \/ schedule' = IdlePart \/ schedule' = Failed
           \/ /\ j.reply = "ok"
              /\ schedule' = [kind |-> "loaded", of |-> j.context, stamp |-> j.stamp,
                              counts |-> [o \in Occurrences |-> j.stamp]]
    BY <1>3 DEF ScheduleBack, AfterCancel, WasCancelled, Arrived, IsWanted
  <2>2. SpinnersHaveWork'
    BY <1>1, <1>2, <2>1 DEF SpinnersHaveWork, CoordinationInv, IdlePart, Failed, Mutations
  <2>3. OwnChangesAreShown' /\ LoadedIsWhole'
    BY <1>1, <2>1 DEF LoadedIsWhole, OwnChangesAreShown, CoordinationInv, WantedLoadsAreFresh, IdlePart, Failed
  <2>. QED
    BY <1>2, <2>2, <2>3 DEF CoordinationInv
<1>4. CASE DetailBack(j)
  <2>1. /\ j.kind = "detail" /\ j.occurrence = selected
        /\ detail' = CASE WasCancelled(j) -> AfterCancel(detail)
                       [] Arrived(j) -> [kind |-> "loaded", of |-> j.occurrence, stamp |-> j.stamp]
                       [] OTHER -> Failed
        /\ schedule' = IF Arrived(j) /\ schedule.kind = "loaded"
                       THEN [schedule EXCEPT !.counts[j.occurrence] = j.stamp] ELSE schedule
    BY <1>4 DEF DetailBack, IsWanted
  <2>2. /\ j.kind = "detail" /\ j.occurrence = selected
        /\ \/ detail' = IdlePart \/ detail' = Failed
           \/ /\ j.reply = "ok"
              /\ detail' = [kind |-> "loaded", of |-> j.occurrence, stamp |-> j.stamp]
        /\ \/ schedule' = schedule
           \/ /\ schedule.kind = "loaded"
              /\ schedule' = [schedule EXCEPT !.counts[j.occurrence] = j.stamp]
    <3>1. ~(WasCancelled(j) /\ Arrived(j)) /\ (Arrived(j) => j.reply = "ok")
      BY DEF WasCancelled, Arrived
    <3>2. CASE WasCancelled(j)
      BY <2>1, <3>1, <3>2 DEF AfterCancel
    <3>3. CASE Arrived(j)
      BY <2>1, <3>1, <3>3
    <3>4. CASE ~WasCancelled(j) /\ ~Arrived(j)
      BY <2>1, <3>4
    <3>. QED
      BY <3>2, <3>3, <3>4
  <2>3. /\ schedule'.kind = schedule.kind /\ LoadedIsWhole'
        /\ schedule.kind = "loaded" => schedule'.of = schedule.of /\ schedule'.stamp = schedule.stamp
    <3>1. CASE schedule' = schedule
      BY <3>1 DEF CoordinationInv, LoadedIsWhole
    <3>2. CASE /\ schedule.kind = "loaded"
               /\ schedule' = [schedule EXCEPT !.counts[j.occurrence] = j.stamp]
      <4>1. schedule = [kind |-> "loaded", of |-> schedule.of, stamp |-> schedule.stamp,
                        counts |-> schedule.counts]
        BY <3>2 DEF CoordinationInv, LoadedIsWhole
      <4>2. schedule' = [kind |-> "loaded", of |-> schedule.of, stamp |-> schedule.stamp,
                         counts |-> [schedule.counts EXCEPT ![j.occurrence] = j.stamp]]
        BY <3>2, <4>1
      <4>. QED
        BY <3>2, <4>2 DEF LoadedIsWhole
    <3>. QED
      BY <2>2, <3>1, <3>2
  <2>4. SpinnersHaveWork'
    BY <1>1, <1>2, <2>2, <2>3 DEF SpinnersHaveWork, CoordinationInv, IdlePart, Failed, Mutations
  <2>5. OwnChangesAreShown'
    BY <1>1, <2>2, <2>3 DEF OwnChangesAreShown, CoordinationInv, WantedLoadsAreFresh, IdlePart, Failed
  <2>. QED
    BY <1>2, <2>3, <2>4, <2>5 DEF CoordinationInv
<1>. QED
  BY <1>3, <1>4

LEMMA UnshownKeepsInv ==
  ASSUME CoordinationInv, NEW j \in jobs, Ignored(j) \/ MutationFails(j), stamp' = stamp, uses' = uses
  PROVE  CoordinationInv'
<1>1. /\ jobs' = jobs \ {j}
      /\ UNCHANGED <<context, schedule, selected, detail, revision, acked, ackedEvents, stamp, uses>>
      /\ \/ ~IsWanted(j) /\ mutation' = mutation
         \/ j.kind \in Mutations /\ mutation' \in {"idle", "failed"}
  BY DEF Ignored, MutationFails, Drop
<1>2. /\ CoordinationTypes' /\ JobsAreBehind' /\ WantedLoadsAreFresh'
      /\ \A k \in jobs : IsWanted(k) => k = j \/ (k \in jobs' /\ IsWanted(k)')
  BY <1>1, TaskEnds
<1>3. SpinnersHaveWork' /\ OwnChangesAreShown' /\ LoadedIsWhole'
  BY <1>1, <1>2 DEF LoadedIsWhole, SpinnersHaveWork, OwnChangesAreShown, CoordinationInv, Mutations
<1>. QED
  BY <1>2, <1>3 DEF CoordinationInv

LEMMA CreateBackKeepsInv ==
  ASSUME CoordinationInv, NEW j \in jobs, j.at = "back", IsWanted(j), CreateBack(j),
         stamp' = stamp, uses' = uses
  PROVE  CoordinationInv'
<1>1. /\ context \in Contexts \cup {NoContext} /\ revision \in [Counters -> Nat]
      /\ jobs \subseteq Job /\ j \in Job /\ stamp \in Nat /\ j.stamp \in 0 .. stamp
      /\ j.n \in Nat /\ j.n + MaxUses \in Nat
  BY CoordinationAssumption DEF CoordinationInv, CoordinationTypes, JobsAreBehind, Job
<1>2. Marks(Without(LAMBDA k : k.kind = "schedule"), jobs)
  BY <1>1, MarksThese
<1>3. PICK new : new = NewJob(j.n + MaxUses, "schedule", context, NoOccurrence, j.n)
  OBVIOUS
<1>4. /\ Advance({"schedule"}) /\ schedule' = Loading /\ mutation' = "idle" /\ ackedEvents' = j.stamp
      /\ jobs' = (Without(LAMBDA k : k.kind = "schedule") \ {j}) \cup {new}
      /\ UNCHANGED <<context, selected, detail, stamp, acked, uses>> /\ j.kind = "create"
  BY <1>3 DEF CreateBack
<1>5. PICK C : C = {"schedule"}
  OBVIOUS
<1>6. /\ C \in SUBSET Counters /\ revision' \in [Counters -> Nat]
      /\ \A c \in C : revision'[c] = revision[c] + 1
      /\ \A c \in Counters \ C : revision'[c] = revision[c]
  BY <1>1, <1>4, <1>5, Advanced, CountersAre
<1>7. IsNewJob(new) /\ new.kind = "schedule" /\ new.context = context
  BY <1>1, <1>3, <1>6 DEF NewJob, IsNewJob, Job, Counter, Counters, Loads, Mutations
<1>8. \A k \in jobs' :
        \/ k \in Job /\ \E i \in jobs : IsSameTask(k, i)
        \/ IsNewJob(k) /\ (k.kind \in {"detail", "change"} => k.occurrence \in Occurrences)
  BY <1>2, <1>4, <1>7 DEF Marks
<1>9. /\ jobs' \subseteq Job /\ JobsAreBehind' /\ WantedLoadsAreFresh'
      /\ \A k \in Job, i \in jobs :
           IsSameTask(k, i) /\ "context" \notin C /\ Counter(i.kind) \notin C =>
             (IsWanted(k)' <=> IsWanted(i))
  BY <1>4, <1>5, <1>6, <1>8, TasksMove
<1>10. CoordinationTypes'
  BY <1>1, <1>4, <1>6, <1>9 DEF CoordinationInv, CoordinationTypes
<1>11. SpinnersHaveWork'
  <2>1. IsWanted(new)' /\ new \in jobs'
    BY <1>4, <1>7 DEF IsWanted, IsNewJob
  <2>2. detail'.kind = "loading" => \E k \in jobs' : k.kind = "detail" /\ IsWanted(k)'
    <3> SUFFICES ASSUME detail.kind = "loading"
                 PROVE  \E k \in jobs' : k.kind = "detail" /\ IsWanted(k)'
      BY <1>4
    <3>1. PICK i \in jobs : i.kind = "detail" /\ IsWanted(i)
      BY DEF CoordinationInv, SpinnersHaveWork
    <3>2. PICK k \in Without(LAMBDA x : x.kind = "schedule") : k \in Job /\ IsSameTask(k, i)
      BY <1>2, <3>1 DEF Marks
    <3>3. k \in jobs'
      BY <1>4, <3>1, <3>2 DEF IsSameTask
    <3>. QED
      BY <1>5, <1>9, <3>1, <3>2, <3>3 DEF Counter, Loads, IsSameTask
  <2>. QED
    BY <1>4, <1>7, <2>1, <2>2 DEF SpinnersHaveWork
<1>12. OwnChangesAreShown' /\ LoadedIsWhole'
  BY <1>4 DEF LoadedIsWhole, OwnChangesAreShown, CoordinationInv, Loading
<1>. QED
  BY <1>9, <1>10, <1>11, <1>12 DEF CoordinationInv

LEMMA ChangeBackKeepsInv ==
  ASSUME CoordinationInv, NEW j \in jobs, j.at = "back", IsWanted(j), ChangeBack(j),
         stamp' = stamp, uses' = uses
  PROVE  CoordinationInv'
<1>1. /\ context \in Contexts \cup {NoContext} /\ revision \in [Counters -> Nat]
      /\ jobs \subseteq Job /\ j \in Job /\ stamp \in Nat /\ j.stamp \in 0 .. stamp
      /\ j.n \in Nat /\ j.n + MaxUses \in Nat
  BY CoordinationAssumption DEF CoordinationInv, CoordinationTypes, JobsAreBehind, Job
<1>2. Marks(Without(LAMBDA k : k.kind = "detail"), jobs)
  BY <1>1, MarksThese
<1>3. PICK new : new = NewJob(j.n + MaxUses, "detail", context, j.occurrence, j.n)
  OBVIOUS
<1>4. /\ Advance({"detail"}) /\ detail' = Loading /\ mutation' = "idle"
      /\ acked' = [acked EXCEPT ![j.occurrence] = j.stamp]
      /\ jobs' = (Without(LAMBDA k : k.kind = "detail") \ {j}) \cup {new}
      /\ UNCHANGED <<context, schedule, selected, stamp, ackedEvents, uses>> /\ j.kind = "change"
  BY <1>3 DEF ChangeBack
<1>5. j.occurrence \in Occurrences /\ j.occurrence = selected
  BY <1>4 DEF CoordinationInv, JobsAreBehind, IsWanted
<1>6. PICK C : C = {"detail"}
  OBVIOUS
<1>7. /\ C \in SUBSET Counters /\ revision' \in [Counters -> Nat]
      /\ \A c \in C : revision'[c] = revision[c] + 1
      /\ \A c \in Counters \ C : revision'[c] = revision[c]
  BY <1>1, <1>4, <1>6, Advanced, CountersAre
<1>8. IsNewJob(new) /\ new.kind = "detail" /\ new.context = context /\ new.occurrence = selected
  BY <1>1, <1>3, <1>5, <1>7 DEF NewJob, IsNewJob, Job, Counter, Counters, Loads, Mutations
<1>9. \A k \in jobs' :
        \/ k \in Job /\ \E i \in jobs : IsSameTask(k, i)
        \/ IsNewJob(k) /\ (k.kind \in {"detail", "change"} => k.occurrence \in Occurrences)
  BY <1>2, <1>4, <1>5, <1>8 DEF Marks
<1>10. /\ jobs' \subseteq Job /\ JobsAreBehind' /\ WantedLoadsAreFresh'
       /\ \A k \in Job, i \in jobs :
            IsSameTask(k, i) /\ "context" \notin C /\ Counter(i.kind) \notin C =>
              (IsWanted(k)' <=> IsWanted(i))
  BY <1>4, <1>6, <1>7, <1>9, TasksMove
<1>11. CoordinationTypes'
  BY <1>1, <1>4, <1>5, <1>7, <1>10 DEF CoordinationInv, CoordinationTypes
<1>12. SpinnersHaveWork'
  <2>1. IsWanted(new)' /\ new \in jobs'
    BY <1>4, <1>8 DEF IsWanted, IsNewJob
  <2>2. schedule'.kind = "loading" => \E k \in jobs' : k.kind = "schedule" /\ IsWanted(k)'
    <3> SUFFICES ASSUME schedule.kind = "loading"
                 PROVE  \E k \in jobs' : k.kind = "schedule" /\ IsWanted(k)'
      BY <1>4
    <3>1. PICK i \in jobs : i.kind = "schedule" /\ IsWanted(i)
      BY DEF CoordinationInv, SpinnersHaveWork
    <3>2. PICK k \in Without(LAMBDA x : x.kind = "detail") : k \in Job /\ IsSameTask(k, i)
      BY <1>2, <3>1 DEF Marks
    <3>3. k \in jobs'
      BY <1>4, <3>1, <3>2 DEF IsSameTask
    <3>. QED
      BY <1>6, <1>10, <3>1, <3>2, <3>3 DEF Counter, Loads, IsSameTask
  <2>. QED
    BY <1>4, <1>8, <2>1, <2>2 DEF SpinnersHaveWork
<1>13. OwnChangesAreShown' /\ LoadedIsWhole'
  BY <1>4 DEF LoadedIsWhole, OwnChangesAreShown, CoordinationInv, Loading
<1>. QED
  BY <1>10, <1>11, <1>12, <1>13 DEF CoordinationInv

LEMMA CoordinationNextInv == CoordinationInv /\ [CoordinationNext]_coordinationVars => CoordinationInv'
<1> SUFFICES ASSUME CoordinationInv, [CoordinationNext]_coordinationVars PROVE CoordinationInv'
  OBVIOUS
<1>1. CASE UNCHANGED coordinationVars
  BY <1>1 DEF coordinationVars, CoordinationInv, CoordinationTypes, JobsAreBehind, WantedLoadsAreFresh,
     SpinnersHaveWork, LoadedIsWhole, OwnChangesAreShown, IsWanted, Counter
<1>2. ASSUME NEW j \in jobs, ResumeJob(j) PROVE CoordinationInv'
  BY <1>2, LoadBackKeepsInv, UnshownKeepsInv, CreateBackKeepsInv, ChangeBackKeepsInv, InvalidateKeepsInv
  DEF ResumeJob
<1>. QED
  BY <1>1, <1>2, SetContextKeepsInv, OpenKeepsInv, ReloadKeepsInv, CancelKeepsInv, MutateKeepsInv,
     ServeKeepsInv DEF CoordinationNext

\* SnackdayCoordinationController: nothing shown as loading or saving is stranded,
\* and what is loaded is of what is selected and no older than the user's changes.
THEOREM CoordinationKeepsItsPromises == CoordinationSpec => []SpinnersHaveWork /\ []OwnChangesAreShown
<1>1. CoordinationInv => SpinnersHaveWork /\ OwnChangesAreShown
  BY DEF CoordinationInv
<1>. QED
  BY <1>1, CoordinationInitInv, CoordinationNextInv, PTL DEF CoordinationSpec

----------------------------------------------------------------------------
(* The session controller.  A task older than the newest is cancelled, so   *)
(* it never shows what it brings back, and never leaves for the server once *)
(* a sign-out has fetched its credential.                                   *)

Sessions == [who : Adults, by : 0 .. MaxCalls]
Operations == {"restore", "retry", "select", "signOut", "signIn", "challenge"}
Calls == {"none", "session", "signIn", "teams", "roster", "signOut", "challenge",
          "emptyTeams", "emptySeasons", "choose", "ready", "signedOut"}

Task == [op : Operations, at : {"start", "send", "clear", "wait", "back", "stored", "over"},
         call : Calls, who : Adults \cup {Nobody}, team : Teams \cup {NoTeam},
         teams : SUBSET Teams, epoch : Nat, sent : Sessions \cup {NoCookie},
         reply : {"none", "kept", "ok", "failed", "unauthorized", "cancelled"}, cancelled : BOOLEAN]

\* What a task knows at each point of its body.
KnowsItsAdult(t) ==
  /\ t.at = "start" /\ t.op \in {"retry", "select", "signIn"} => t.who \in Adults
  /\ t.call \in {"signIn", "teams", "roster", "choose", "ready", "emptyTeams", "emptySeasons"} => t.who \in Adults
  /\ t.call = "session" /\ t.reply = "ok" => t.who \in Adults
KnowsItsTeam(t) ==
  /\ t.at = "start" /\ t.op = "select" => t.team \in Teams
  /\ t.call \in {"roster", "ready"} => t.team \in Teams
KnowsItsCall(t) ==
  /\ t.at = "start" => t.call = "none" /\ t.op # "challenge" /\ t.reply = "none"
  /\ t.call = "signIn" => t.op = "signIn"
  /\ t.op = "signOut" /\ t.at \notin {"start", "over"} => t.call = "signOut"
  /\ t.op = "challenge" => t.call \in {"challenge", "none"} /\ t.reply # "unauthorized"
  /\ t.call = "challenge" => t.op = "challenge"
  /\ t.call = "signOut" \/ t.at = "clear" => t.op = "signOut"

TaskOK(t) == t \in Task /\ KnowsItsAdult(t) /\ KnowsItsTeam(t) /\ KnowsItsCall(t)

SessionTypes ==
  /\ tasks \in Seq(Task) /\ Len(tasks) <= MaxCalls /\ \A g \in DOMAIN tasks : TaskOK(tasks[g])
  /\ identity \in Adults \cup {Nobody}
  /\ directory \in [teams : SUBSET Teams, chosen : Teams \cup {NoTeam}]
  /\ saved \in [Adults -> Teams \cup {NoTeam}]
  /\ cookie \in Sessions \cup {NoCookie} /\ live \subseteq Sessions /\ epoch \in Nat

\* Only a challenge, which its caller's task requests, outlives the next call.
OlderAreCancelled ==
  \A g \in DOMAIN tasks :
    /\ g < Len(tasks) /\ tasks[g].op # "challenge" => tasks[g].cancelled
    /\ g = Len(tasks) /\ tasks[g].op = "signOut" => ~tasks[g].cancelled

\* A session is of a sign-in that was answered, or of an earlier launch.
IsUnanswered(t) ==
  t.op = "signIn" /\ (t.at = "start" \/ (t.call = "signIn" /\ t.at \in {"send", "wait"}))
SessionsAreOfAnswers ==
  /\ \A g \in DOMAIN tasks : tasks[g].sent # NoCookie => tasks[g].sent.by <= Len(tasks)
  /\ \A s \in live \cup ({cookie} \ {NoCookie}) : s.by <= Len(tasks)
  /\ \A g \in DOMAIN tasks : IsUnanswered(tasks[g]) =>
       /\ \A s \in live \cup ({cookie} \ {NoCookie}) : s.by # g
       /\ \A h \in DOMAIN tasks : tasks[h].sent # NoCookie => tasks[h].sent.by # g

\* From the moment the newest call, a sign-out, has its credential.
SignOutProceeds ==
  \A g \in DOMAIN tasks :
    g = Len(tasks) /\ tasks[g].op = "signOut" =>
      /\ tasks[g].at # "start" => \A h \in DOMAIN tasks : tasks[h].at # "start"
      /\ tasks[g].at \notin {"start", "over"} => shown.kind = "signingOut"
      /\ tasks[g].at \in {"clear", "wait", "back"} \/ (tasks[g].at = "over" /\ shown.kind = "signedOut") =>
           /\ cookie \in {NoCookie, tasks[g].sent}
           /\ \A h \in DOMAIN tasks :
                tasks[h].call = "signIn" /\ tasks[h].at = "wait" => tasks[h].epoch < epoch
      /\ \/ tasks[g].at = "back" /\ tasks[g].reply = "ok"
         \/ tasks[g].at = "over" /\ shown.kind = "signedOut"
         => tasks[g].sent \notin live

EpochsArePast == \A g \in DOMAIN tasks : tasks[g].epoch <= epoch

ChallengesShowNothing ==
  \A g \in DOMAIN tasks : g = Len(tasks) /\ tasks[g].op = "challenge" => shown.kind # "ready"

SessionInv ==
  /\ SessionTypes /\ OlderAreCancelled /\ SessionsAreOfAnswers /\ SignOutProceeds /\ EpochsArePast
  /\ ChallengesShowNothing /\ ReadyIsTheNewestCalls

LEMMA TaskReplaced ==
  ASSUME SessionTypes, NEW g \in DOMAIN tasks, NEW t, TaskOK(t), tasks' = [tasks EXCEPT ![g] = t]
  PROVE  /\ tasks' \in Seq(Task) /\ Len(tasks') = Len(tasks) /\ DOMAIN tasks' = DOMAIN tasks
         /\ tasks'[g] = t /\ \A h \in DOMAIN tasks : h # g => tasks'[h] = tasks[h]
         /\ \A h \in DOMAIN tasks' : TaskOK(tasks'[h])
         /\ DOMAIN tasks = 1 .. Len(tasks) /\ Len(tasks) \in Nat
BY DEF SessionTypes, TaskOK

LEMMA TaskAppended ==
  ASSUME SessionTypes, Len(tasks) < MaxCalls, NEW before, before \in Seq(Task), Len(before) = Len(tasks),
         \A h \in DOMAIN before : TaskOK(before[h]),
         NEW t, TaskOK(t), tasks' = Append(before, t)
  PROVE  /\ tasks' \in Seq(Task) /\ Len(tasks') = Len(tasks) + 1 /\ DOMAIN tasks' = 1 .. Len(tasks) + 1
         /\ tasks'[Len(tasks) + 1] = t /\ \A h \in DOMAIN tasks : tasks'[h] = before[h]
         /\ \A h \in DOMAIN tasks' : TaskOK(tasks'[h])
         /\ DOMAIN tasks = 1 .. Len(tasks) /\ Len(tasks) \in Nat /\ Len(tasks') <= MaxCalls
<1>1. t \in Task /\ Len(tasks) \in Nat /\ MaxCalls \in Nat
  BY SessionAssumption DEF TaskOK, SessionTypes
<1>2. /\ tasks' \in Seq(Task) /\ Len(tasks') = Len(before) + 1 /\ tasks'[Len(before) + 1] = t
      /\ \A h \in 1 .. Len(before) : tasks'[h] = before[h]
  BY <1>1
<1>3. DOMAIN tasks' = 1 .. Len(tasks) + 1 /\ DOMAIN tasks = 1 .. Len(tasks) /\ DOMAIN before = 1 .. Len(tasks)
  BY <1>2 DEF SessionTypes
<1>. QED
  BY <1>1, <1>2, <1>3

LEMMA SessionInitInv == SessionInit => SessionInv
<1> SUFFICES ASSUME SessionInit PROVE SessionInv
  OBVIOUS
<1>1. tasks = <<>> /\ Len(tasks) = 0 /\ DOMAIN tasks = {} /\ tasks \in Seq(Task)
  <2>1. tasks = <<>>
    BY DEF SessionInit
  <2>2. tasks \in Seq(Task) /\ Len(tasks) = 0
    BY <2>1
  <2>. QED
    BY <2>1, <2>2
<1>2. (CHOOSE p \in Adults : TRUE) \in Adults
  BY SessionAssumption
<1>3. cookie \in Sessions /\ cookie.by = 0 /\ live = {cookie}
  BY <1>2, SessionAssumption DEF SessionInit, Session, Sessions
<1>4. SessionTypes
  <2>1. /\ identity = Nobody /\ directory = NoDirectory /\ saved = [p \in Adults |-> NoTeam] /\ epoch = 0
    BY DEF SessionInit
  <2>2. directory \in [teams : SUBSET Teams, chosen : Teams \cup {NoTeam}]
    BY <2>1 DEF NoDirectory
  <2>3. MaxCalls \in Nat
    BY SessionAssumption
  <2>. QED
    BY <1>1, <1>3, <2>1, <2>2, <2>3 DEF SessionTypes
<1>5. shown.kind = "launching"
  BY DEF SessionInit, Screen
<1>. QED
  BY <1>1, <1>3, <1>4, <1>5 DEF SessionInv, OlderAreCancelled, SessionsAreOfAnswers, SignOutProceeds,
     EpochsArePast, ChallengesShowNothing, ReadyIsTheNewestCalls

\* A step of a task on the main actor: it leaves the cookie and the sessions as
\* they are, and shows something only if it is current or starts.
LEMMA MainStepKeepsInv ==
  ASSUME SessionInv, NEW g \in DOMAIN tasks, NEW t, TaskOK(t), tasks' = [tasks EXCEPT ![g] = t],
         t.op = tasks[g].op, t.cancelled = tasks[g].cancelled, t.at \in {"send", "stored", "over"},
         \/ t.sent = tasks[g].sent /\ t.epoch = tasks[g].epoch
         \/ t.sent = NoCookie /\ t.epoch = 0 /\ (g = Len(tasks) => tasks[g].op # "signOut"),
         IsUnanswered(t) => IsUnanswered(tasks[g]),
         UNCHANGED <<cookie, epoch, live>>,
         identity' \in Adults \cup {Nobody},
         directory' \in [teams : SUBSET Teams, chosen : Teams \cup {NoTeam}],
         saved' \in [Adults -> Teams \cup {NoTeam}],
         \/ shown'.kind # "ready"
         \/ shown' = shown /\ (g = Len(tasks) => t.at # "over" \/ t.cancelled \/ t.op = "challenge")
         \/ /\ g = Len(tasks) /\ t.op # "challenge" /\ shown'.who = t.who /\ shown'.team = t.team
            /\ t.team \in Teams,
         shown' = shown \/ g = Len(tasks) \/ tasks[g].at = "start",
         g = Len(tasks) /\ t.op = "signOut" =>
           /\ \A h \in DOMAIN tasks : h # g => tasks[h].at # "start"
           /\ t.at # "over" => shown'.kind = "signingOut"
           /\ t.at = "over" /\ shown'.kind = "signedOut" => tasks[g].at = "back" /\ tasks[g].reply = "ok"
  PROVE  SessionInv'
<1>1. SessionTypes /\ OlderAreCancelled /\ SessionsAreOfAnswers /\ SignOutProceeds /\ EpochsArePast
      /\ ChallengesShowNothing /\ ReadyIsTheNewestCalls
  BY DEF SessionInv
<1>2. /\ tasks' \in Seq(Task) /\ Len(tasks') = Len(tasks) /\ DOMAIN tasks' = DOMAIN tasks
      /\ tasks'[g] = t /\ \A h \in DOMAIN tasks : h # g => tasks'[h] = tasks[h]
      /\ \A h \in DOMAIN tasks' : TaskOK(tasks'[h])
      /\ DOMAIN tasks = 1 .. Len(tasks) /\ Len(tasks) \in Nat
  BY <1>1, TaskReplaced
<1>3. SessionTypes'
  BY <1>1, <1>2 DEF SessionTypes
<1>4. OlderAreCancelled'
  BY <1>1, <1>2 DEF OlderAreCancelled
<1>5. SessionsAreOfAnswers'
  <2>1. \A h \in DOMAIN tasks : IsUnanswered(tasks'[h]) => IsUnanswered(tasks[h])
    BY <1>2
  <2>2. \A h \in DOMAIN tasks : tasks'[h].sent = tasks[h].sent \/ tasks'[h].sent = NoCookie
    BY <1>2
  <2>. QED
    BY <1>1, <1>2, <2>1, <2>2 DEF SessionsAreOfAnswers
<1>6. EpochsArePast'
  BY <1>1, <1>2 DEF EpochsArePast, SessionTypes
<1>7. ChallengesShowNothing'
  BY <1>1, <1>2 DEF ChallengesShowNothing
<1>8. ReadyIsTheNewestCalls'
  <2> SUFFICES ASSUME shown'.kind = "ready", NEW h \in DOMAIN tasks
               PROVE  /\ shown'.team \in Teams
                      /\ h = Len(tasks) /\ tasks'[h].at = "over" /\ ~tasks'[h].cancelled =>
                           tasks'[h].who = shown'.who /\ tasks'[h].team = shown'.team
    BY <1>2 DEF ReadyIsTheNewestCalls
  <2>1. CASE g = Len(tasks) /\ shown'.who = t.who /\ shown'.team = t.team /\ t.team \in Teams
    BY <1>2, <2>1
  <2>2. CASE shown' = shown /\ (g = Len(tasks) => t.at # "over" \/ t.cancelled \/ t.op = "challenge")
    <3>1. g = Len(tasks) => t.op # "challenge"
      BY <1>1, <2>2 DEF ChallengesShowNothing
    <3>. QED
      BY <1>1, <1>2, <2>2, <3>1 DEF ReadyIsTheNewestCalls
  <2>. QED
    BY <2>1, <2>2
<1>9. SignOutProceeds'
  <2> SUFFICES ASSUME NEW n \in DOMAIN tasks, n = Len(tasks), tasks'[n].op = "signOut"
               PROVE  /\ tasks'[n].at # "start" => \A h \in DOMAIN tasks : tasks'[h].at # "start"
                      /\ tasks'[n].at \notin {"start", "over"} => shown'.kind = "signingOut"
                      /\ tasks'[n].at \in {"clear", "wait", "back"}
                           \/ (tasks'[n].at = "over" /\ shown'.kind = "signedOut") =>
                           /\ cookie' \in {NoCookie, tasks'[n].sent}
                           /\ \A h \in DOMAIN tasks :
                                tasks'[h].call = "signIn" /\ tasks'[h].at = "wait" => tasks'[h].epoch < epoch'
                      /\ \/ tasks'[n].at = "back" /\ tasks'[n].reply = "ok"
                         \/ tasks'[n].at = "over" /\ shown'.kind = "signedOut"
                         => tasks'[n].sent \notin live'
    BY <1>2 DEF SignOutProceeds
  <2>1. \A h \in DOMAIN tasks :
          tasks'[h].call = "signIn" /\ tasks'[h].at = "wait" => tasks'[h] = tasks[h]
    BY <1>2
  <2>2. CASE n = g
    <3>1. /\ t.op = "signOut" /\ \A h \in DOMAIN tasks : h # g => tasks[h].at # "start"
          /\ t.at # "over" => shown'.kind = "signingOut"
          /\ t.at = "over" /\ shown'.kind = "signedOut" => tasks[g].at = "back" /\ tasks[g].reply = "ok"
          /\ t.sent = tasks[g].sent
      BY <1>2, <2>2
    <3>2. tasks[g].at = "back" /\ tasks[g].reply = "ok" =>
            /\ cookie \in {NoCookie, tasks[g].sent} /\ tasks[g].sent \notin live
            /\ \A h \in DOMAIN tasks :
                 tasks[h].call = "signIn" /\ tasks[h].at = "wait" => tasks[h].epoch < epoch
      BY <1>1, <2>2, <3>1 DEF SignOutProceeds
    <3>. QED
      BY <1>2, <2>1, <2>2, <3>1, <3>2
  <2>3. CASE n # g
    <3>1. /\ tasks'[n] = tasks[n] /\ tasks[n].op = "signOut"
          /\ tasks[n].at # "start" => shown' = shown
      BY <1>1, <1>2, <2>3 DEF SignOutProceeds
    <3>. QED
      BY <1>1, <1>2, <2>1, <2>3, <3>1 DEF SignOutProceeds
  <2>. QED
    BY <2>2, <2>3
<1>. QED
  BY <1>3, <1>4, <1>5, <1>6, <1>7, <1>8, <1>9 DEF SessionInv

\* A task that goes on with what it knows, but for its adult and team.
IsMoved(t, u, at, call, who, team) ==
  /\ t \in Task
  /\ t.op = u.op /\ t.at = at /\ t.call = call /\ t.who = who /\ t.team = team
  /\ t.teams = u.teams /\ t.epoch = u.epoch /\ t.sent = u.sent /\ t.reply = u.reply
  /\ t.cancelled = u.cancelled
Moves(g, at, call, who, team) ==
  \E t : tasks' = [tasks EXCEPT ![g] = t] /\ IsMoved(t, tasks[g], at, call, who, team)
Phases == {"start", "send", "clear", "wait", "back", "stored", "over"}

LEMMA GoingMoves ==
  ASSUME SessionTypes, NEW g \in DOMAIN tasks, NEW at \in Phases, NEW call \in Calls, TaskGoes(g, at, call)
  PROVE  Moves(g, at, call, tasks[g].who, tasks[g].team)
<1>1. tasks[g] \in Task
  BY DEF SessionTypes, TaskOK
<1>2. PICK t : t = [tasks[g] EXCEPT !.at = at, !.call = call]
  OBVIOUS
<1>3. IsMoved(t, tasks[g], at, call, tasks[g].who, tasks[g].team)
  BY <1>1, <1>2 DEF IsMoved, Task, Phases
<1>4. tasks' = [tasks EXCEPT ![g] = t]
  BY <1>1, <1>2 DEF TaskGoes, SessionTypes
<1>. QED
  BY <1>3, <1>4 DEF Moves

LEMMA DirectoryMoves ==
  ASSUME SessionTypes, NEW g \in DOMAIN tasks, NEW who \in Adults, LoadDirectory(g, who)
  PROVE  Moves(g, "send", "teams", who, tasks[g].team)
<1>1. tasks[g] \in Task
  BY DEF SessionTypes, TaskOK
<1>2. PICK t : t = [tasks[g] EXCEPT !.at = "send", !.call = "teams", !.who = who]
  OBVIOUS
<1>3. IsMoved(t, tasks[g], "send", "teams", who, tasks[g].team)
  BY <1>1, <1>2 DEF IsMoved, Task, Calls
<1>4. tasks' = [tasks EXCEPT ![g] = t]
  BY <1>1, <1>2 DEF LoadDirectory, SessionTypes
<1>. QED
  BY <1>3, <1>4 DEF Moves

LEMMA SelectionMoves ==
  ASSUME SessionTypes, NEW g \in DOMAIN tasks, NEW team \in Teams, NEW list, LoadSelection(g, team, list)
  PROVE  Moves(g, "send", "roster", tasks[g].who, team)
<1>1. tasks[g] \in Task
  BY DEF SessionTypes, TaskOK
<1>2. PICK t : t = [tasks[g] EXCEPT !.at = "send", !.call = "roster", !.team = team]
  OBVIOUS
<1>3. IsMoved(t, tasks[g], "send", "roster", tasks[g].who, team)
  BY <1>1, <1>2 DEF IsMoved, Task, Calls
<1>4. tasks' = [tasks EXCEPT ![g] = t]
  BY <1>1, <1>2 DEF LoadSelection, SessionTypes
<1>. QED
  BY <1>3, <1>4 DEF Moves

\* A task that returns without a word is not current, or a challenge.
LEMMA OverKeepsInv ==
  ASSUME SessionInv, NEW g \in DOMAIN tasks, Over(g), UNCHANGED <<cookie, epoch, live>>,
         ~IsCurrent(g) \/ tasks[g].op = "challenge"
  PROVE  SessionInv'
<1>1. SessionTypes /\ OlderAreCancelled
  BY DEF SessionInv
<1>2. tasks[g] \in Task
  BY <1>1 DEF SessionTypes, TaskOK
<1>3. PICK t : t = [NewTask(tasks[g].op, Nobody, NoTeam, {}, "over")
                      EXCEPT !.reply = tasks[g].reply, !.cancelled = tasks[g].cancelled]
  OBVIOUS
<1>4. /\ t \in Task /\ t.op = tasks[g].op /\ t.at = "over" /\ t.call = "none" /\ t.who = Nobody
      /\ t.team = NoTeam /\ t.epoch = 0 /\ t.sent = NoCookie /\ t.cancelled = tasks[g].cancelled
      /\ t.reply = tasks[g].reply
  BY <1>2, <1>3 DEF NewTask, Task, Calls
<1>5. tasks' = [tasks EXCEPT ![g] = t] /\ UNCHANGED <<shown, identity, directory, saved>>
  BY <1>3 DEF Over
<1>6. TaskOK(t)
  BY <1>1, <1>4 DEF SessionTypes, TaskOK, KnowsItsAdult, KnowsItsTeam, KnowsItsCall
<1>7. g = Len(tasks) => tasks[g].op # "signOut" /\ (tasks[g].cancelled \/ tasks[g].op = "challenge")
  BY <1>1 DEF OlderAreCancelled, IsCurrent
<1>8. ~IsUnanswered(t)
  BY <1>4 DEF IsUnanswered
<1>9. /\ identity \in Adults \cup {Nobody}
      /\ directory \in [teams : SUBSET Teams, chosen : Teams \cup {NoTeam}]
      /\ saved \in [Adults -> Teams \cup {NoTeam}]
  BY <1>1 DEF SessionTypes
<1>. QED
  BY <1>4, <1>5, <1>6, <1>7, <1>8, <1>9, MainStepKeepsInv

\* MainStepKeepsInv for a task that moves on, given what it knows there.
LEMMA MoveKeepsInv ==
  ASSUME SessionInv, NEW g \in DOMAIN tasks, NEW at \in {"send", "stored", "over"}, NEW call \in Calls,
         NEW who, NEW team, Moves(g, at, call, who, team),
         call \in {"signIn", "teams", "roster", "choose", "ready", "emptyTeams", "emptySeasons"} => who \in Adults,
         call \in {"roster", "ready"} => team \in Teams,
         call = "signIn" => tasks[g].op = "signIn" /\ tasks[g].at = "start",
         call = "session" => tasks[g].at = "start",
         call = "signOut" => tasks[g].op = "signOut",
         tasks[g].op = "signOut" /\ at # "over" => call = "signOut",
         tasks[g].op = "challenge" => call = "none", call # "challenge",
         UNCHANGED <<cookie, epoch, live>>,
         identity' \in Adults \cup {Nobody},
         directory' \in [teams : SUBSET Teams, chosen : Teams \cup {NoTeam}],
         saved' \in [Adults -> Teams \cup {NoTeam}],
         \/ shown'.kind # "ready"
         \/ shown' = shown /\ at # "over"
         \/ /\ g = Len(tasks) /\ tasks[g].op # "challenge" /\ shown'.who = who /\ shown'.team = team
            /\ team \in Teams,
         shown' = shown \/ g = Len(tasks) \/ tasks[g].at = "start",
         g = Len(tasks) /\ tasks[g].op = "signOut" =>
           /\ \A h \in DOMAIN tasks : h # g => tasks[h].at # "start"
           /\ at # "over" => shown'.kind = "signingOut"
           /\ at = "over" /\ shown'.kind = "signedOut" => tasks[g].at = "back" /\ tasks[g].reply = "ok"
  PROVE  SessionInv'
<1>1. PICK t : tasks' = [tasks EXCEPT ![g] = t] /\ IsMoved(t, tasks[g], at, call, who, team)
  BY DEF Moves
<1>2. /\ t \in Task /\ t.op = tasks[g].op /\ t.at = at /\ t.call = call /\ t.who = who /\ t.team = team
      /\ t.epoch = tasks[g].epoch /\ t.sent = tasks[g].sent /\ t.cancelled = tasks[g].cancelled
      /\ t.reply = tasks[g].reply
  BY <1>1 DEF IsMoved
<1>3. TaskOK(t)
  BY <1>2 DEF SessionInv, SessionTypes, TaskOK, KnowsItsAdult, KnowsItsTeam, KnowsItsCall
<1>4. IsUnanswered(t) => IsUnanswered(tasks[g])
  BY <1>2 DEF IsUnanswered
<1>. QED
  BY <1>1, <1>2, <1>3, <1>4, MainStepKeepsInv

LEMMA StartKeepsInv ==
  ASSUME SessionInv, NEW g \in DOMAIN tasks, Start(g)
  PROVE  SessionInv'
<1>1. SessionTypes
  BY DEF SessionInv
<1>2. /\ identity \in Adults \cup {Nobody}
      /\ directory \in [teams : SUBSET Teams, chosen : Teams \cup {NoTeam}]
      /\ saved \in [Adults -> Teams \cup {NoTeam}]
  BY <1>1 DEF SessionTypes
<1>3. /\ tasks[g].at = "start" /\ tasks[g].op # "challenge"
      /\ tasks[g].op \in {"retry", "select", "signIn"} => tasks[g].who \in Adults
      /\ tasks[g].op = "select" => tasks[g].team \in Teams
      /\ tasks[g].teams \in SUBSET Teams
  BY <1>1 DEF SessionTypes, TaskOK, Task, KnowsItsAdult, KnowsItsTeam, KnowsItsCall, Start
<1>4. UNCHANGED <<cookie, epoch, live>>
  BY DEF Start
<1>5. CASE tasks[g].op = "restore" /\ TaskGoes(g, "send", "session") /\ UNCHANGED <<shown, identity, directory, saved>>
  <2>1. Moves(g, "send", "session", tasks[g].who, tasks[g].team)
    BY <1>1, <1>5, GoingMoves DEF Phases, Calls
  <2>2. "session" \in Calls
    BY DEF Calls
  <2>. QED
    BY <1>2, <1>3, <1>4, <1>5, <2>1, <2>2, MoveKeepsInv
<1>6. CASE /\ tasks[g].op = "signIn" /\ TaskGoes(g, "send", "signIn")
           /\ shown' = Screen("authenticating", Nobody, NoTeam)
           /\ UNCHANGED <<identity, directory, saved>>
  <2>1. Moves(g, "send", "signIn", tasks[g].who, tasks[g].team)
    BY <1>1, <1>6, GoingMoves DEF Phases, Calls
  <2>2. "signIn" \in Calls /\ shown'.kind = "authenticating"
    BY <1>6 DEF Calls, Screen
  <2>. QED
    BY <1>2, <1>3, <1>4, <1>6, <2>1, <2>2, MoveKeepsInv
<1>7. CASE /\ tasks[g].op = "signOut"
           /\ identity' = Nobody /\ directory' = NoDirectory
           /\ shown' = Screen("signingOut", Nobody, NoTeam)
           /\ saved' = IF identity = Nobody THEN saved ELSE [saved EXCEPT ![identity] = NoTeam]
           /\ TaskGoes(g, "stored", "signOut")
  <2>1. Moves(g, "stored", "signOut", tasks[g].who, tasks[g].team)
    BY <1>1, <1>7, GoingMoves DEF Phases, Calls
  <2>2. "signOut" \in Calls /\ shown'.kind = "signingOut"
    BY <1>7 DEF Calls, Screen
  <2>3. saved' \in [Adults -> Teams \cup {NoTeam}]
    BY <1>2, <1>7
  <2>4. directory' \in [teams : SUBSET Teams, chosen : Teams \cup {NoTeam}]
    BY <1>7 DEF NoDirectory
  <2>5. g = Len(tasks) => \A h \in DOMAIN tasks : h # g => tasks[h].at # "start"
    <3>1. DOMAIN tasks = 1 .. Len(tasks) /\ Len(tasks) \in Nat
      BY <1>1 DEF SessionTypes
    <3>. QED
      BY <3>1 DEF Start
  <2>. QED
    BY <1>2, <1>3, <1>4, <1>7, <2>1, <2>2, <2>3, <2>4, <2>5, MoveKeepsInv
<1>8. CASE /\ tasks[g].op = "retry" /\ IsCurrent(g)
           /\ shown' = Screen("loading", tasks[g].who, directory.chosen)
           /\ TaskGoes(g, "send", "teams")
           /\ UNCHANGED <<identity, directory, saved>>
  <2>1. Moves(g, "send", "teams", tasks[g].who, tasks[g].team)
    BY <1>1, <1>8, GoingMoves DEF Phases, Calls
  <2>2. "teams" \in Calls /\ shown'.kind = "loading"
    BY <1>8 DEF Calls, Screen
  <2>. QED
    BY <1>2, <1>3, <1>4, <1>8, <2>1, <2>2, MoveKeepsInv
<1>9. CASE tasks[g].op = "select" /\ ClearsSelection(g, tasks[g].who, "emptySeasons")
  <2>1. Moves(g, "stored", "emptySeasons", tasks[g].who, tasks[g].team)
    BY <1>1, <1>9, GoingMoves DEF Phases, Calls, ClearsSelection
  <2>2. "emptySeasons" \in Calls /\ UNCHANGED <<shown, identity, directory>>
    BY <1>9 DEF Calls, ClearsSelection
  <2>3. saved' \in [Adults -> Teams \cup {NoTeam}]
    BY <1>2, <1>9 DEF ClearsSelection
  <2>. QED
    BY <1>2, <1>3, <1>4, <1>9, <2>1, <2>2, <2>3, MoveKeepsInv
<1>10. CASE tasks[g].op = "select" /\ LoadSelection(g, tasks[g].team, tasks[g].teams) /\ IsCurrent(g)
  <2>1. Moves(g, "send", "roster", tasks[g].who, tasks[g].team)
    BY <1>1, <1>3, <1>10, SelectionMoves
  <2>2. "roster" \in Calls /\ shown'.kind = "loading" /\ UNCHANGED <<identity, saved>>
    BY <1>10 DEF Calls, LoadSelection, Screen
  <2>3. directory' \in [teams : SUBSET Teams, chosen : Teams \cup {NoTeam}]
    BY <1>3, <1>10 DEF LoadSelection
  <2>4. g = Len(tasks)
    BY <1>10 DEF IsCurrent
  <2>. QED
    BY <1>2, <1>3, <1>4, <1>10, <2>1, <2>2, <2>3, <2>4, MoveKeepsInv
<1>11. CASE ~IsCurrent(g) /\ Over(g)
  BY <1>4, <1>11, OverKeepsInv
<1>. QED
  BY <1>5, <1>6, <1>7, <1>8, <1>9, <1>10, <1>11 DEF Start

LEMMA StoredKeepsInv ==
  ASSUME SessionInv, NEW g \in DOMAIN tasks, Stored(g)
  PROVE  SessionInv'
<1>1. SessionTypes
  BY DEF SessionInv
<1>2. /\ identity \in Adults \cup {Nobody}
      /\ directory \in [teams : SUBSET Teams, chosen : Teams \cup {NoTeam}]
      /\ saved \in [Adults -> Teams \cup {NoTeam}]
  BY <1>1 DEF SessionTypes
<1>3. /\ tasks[g].at = "stored"
      /\ tasks[g].call \in {"choose", "ready", "emptyTeams", "emptySeasons"} => tasks[g].who \in Adults
      /\ tasks[g].call = "ready" => tasks[g].team \in Teams
      /\ tasks[g].op = "signOut" <=> tasks[g].call = "signOut"
      /\ tasks[g].op = "challenge" => tasks[g].call \in {"challenge", "none"}
      /\ tasks[g].teams \in SUBSET Teams /\ tasks[g].team \in Teams \cup {NoTeam}
  BY <1>1 DEF SessionTypes, TaskOK, Task, KnowsItsAdult, KnowsItsTeam, KnowsItsCall, Stored
<1>4. UNCHANGED <<cookie, epoch, live>>
  BY DEF Stored
<1>5. CASE ~IsCurrent(g) /\ Over(g)
  BY <1>4, <1>5, OverKeepsInv
<1>6. ASSUME IsCurrent(g) PROVE g = Len(tasks) /\ DOMAIN tasks = 1 .. Len(tasks) /\ Len(tasks) \in Nat
  BY <1>1, <1>6 DEF IsCurrent, SessionTypes
<1>7. CASE /\ IsCurrent(g) /\ tasks[g].call = "signOut" /\ TaskGoes(g, "send", "signOut")
           /\ UNCHANGED <<shown, identity, directory, saved>>
  <2>1. Moves(g, "send", "signOut", tasks[g].who, tasks[g].team)
    BY <1>1, <1>7, GoingMoves DEF Phases, Calls
  <2>2. "signOut" \in Calls
    BY DEF Calls
  <2>3. shown.kind = "signingOut" /\ \A h \in DOMAIN tasks : tasks[h].at # "start"
    BY <1>3, <1>6, <1>7 DEF SessionInv, SignOutProceeds
  <2>. QED
    BY <1>2, <1>3, <1>4, <1>7, <2>1, <2>2, <2>3, MoveKeepsInv
<1>8. CASE /\ IsCurrent(g) /\ tasks[g].call = "emptyTeams" /\ directory' = NoDirectory
           /\ Shows(g, Screen("emptyTeams", tasks[g].who, NoTeam)) /\ UNCHANGED <<identity, saved>>
  <2>1. Moves(g, "over", "none", tasks[g].who, tasks[g].team)
    BY <1>1, <1>8, GoingMoves DEF Phases, Calls, Shows
  <2>2. "none" \in Calls /\ shown'.kind = "emptyTeams"
    BY <1>8 DEF Calls, Shows, Screen
  <2>3. directory' \in [teams : SUBSET Teams, chosen : Teams \cup {NoTeam}]
    BY <1>8 DEF NoDirectory
  <2>. QED
    BY <1>2, <1>3, <1>4, <1>6, <1>8, <2>1, <2>2, <2>3, MoveKeepsInv
<1>9. CASE /\ IsCurrent(g) /\ tasks[g].call = "emptySeasons"
           /\ directory' = [teams |-> tasks[g].teams, chosen |-> NoTeam]
           /\ Shows(g, Screen("emptySeasons", tasks[g].who, NoTeam)) /\ UNCHANGED <<identity, saved>>
  <2>1. Moves(g, "over", "none", tasks[g].who, tasks[g].team)
    BY <1>1, <1>9, GoingMoves DEF Phases, Calls, Shows
  <2>2. "none" \in Calls /\ shown'.kind = "emptySeasons"
    BY <1>9 DEF Calls, Shows, Screen
  <2>3. directory' \in [teams : SUBSET Teams, chosen : Teams \cup {NoTeam}]
    BY <1>3, <1>9
  <2>. QED
    BY <1>2, <1>3, <1>4, <1>6, <1>9, <2>1, <2>2, <2>3, MoveKeepsInv
<1>10. CASE IsCurrent(g) /\ tasks[g].call = "choose" /\ ClearsSelection(g, tasks[g].who, "emptySeasons")
  <2>1. Moves(g, "stored", "emptySeasons", tasks[g].who, tasks[g].team)
    BY <1>1, <1>10, GoingMoves DEF Phases, Calls, ClearsSelection
  <2>2. "emptySeasons" \in Calls /\ UNCHANGED <<shown, identity, directory>>
    BY <1>10 DEF Calls, ClearsSelection
  <2>3. saved' \in [Adults -> Teams \cup {NoTeam}]
    BY <1>2, <1>10 DEF ClearsSelection
  <2>. QED
    BY <1>2, <1>3, <1>4, <1>10, <2>1, <2>2, <2>3, MoveKeepsInv
<1>11. ASSUME NEW team, team = Preferred(tasks[g].team, tasks[g].teams), team # NoTeam,
              IsCurrent(g), tasks[g].call = "choose", LoadSelection(g, team, tasks[g].teams)
       PROVE  SessionInv'
  <2>0. team \in Teams
    BY <1>3, <1>11 DEF Preferred, DefaultSelection
  <2>1. Moves(g, "send", "roster", tasks[g].who, team)
    BY <1>1, <1>11, <2>0, SelectionMoves
  <2>2. "roster" \in Calls /\ shown'.kind = "loading" /\ UNCHANGED <<identity, saved>>
    BY <1>11 DEF Calls, LoadSelection, Screen
  <2>3. directory' \in [teams : SUBSET Teams, chosen : Teams \cup {NoTeam}]
    BY <1>3, <1>11, <2>0 DEF LoadSelection
  <2>. QED
    BY <1>2, <1>3, <1>4, <1>6, <1>11, <2>0, <2>1, <2>2, <2>3, MoveKeepsInv
<1>12. CASE /\ IsCurrent(g) /\ tasks[g].call = "ready"
            /\ Shows(g, Screen("ready", tasks[g].who, tasks[g].team))
            /\ UNCHANGED <<identity, directory, saved>>
  <2>1. Moves(g, "over", "none", tasks[g].who, tasks[g].team)
    BY <1>1, <1>12, GoingMoves DEF Phases, Calls, Shows
  <2>2. "none" \in Calls /\ shown'.kind = "ready" /\ shown'.who = tasks[g].who /\ shown'.team = tasks[g].team
    BY <1>12 DEF Calls, Shows, Screen
  <2>. QED
    BY <1>2, <1>3, <1>4, <1>6, <1>12, <2>1, <2>2, MoveKeepsInv
<1>13. CASE /\ IsCurrent(g) /\ tasks[g].call = "signedOut"
            /\ identity' = Nobody /\ directory' = NoDirectory
            /\ Shows(g, Screen("signedOut", Nobody, NoTeam)) /\ UNCHANGED saved
  <2>1. Moves(g, "over", "none", tasks[g].who, tasks[g].team)
    BY <1>1, <1>13, GoingMoves DEF Phases, Calls, Shows
  <2>2. "none" \in Calls /\ shown'.kind = "signedOut"
    BY <1>13 DEF Calls, Shows, Screen
  <2>3. directory' \in [teams : SUBSET Teams, chosen : Teams \cup {NoTeam}]
    BY <1>13 DEF NoDirectory
  <2>. QED
    BY <1>2, <1>3, <1>4, <1>6, <1>13, <2>1, <2>2, <2>3, MoveKeepsInv
<1>. QED
  BY <1>5, <1>7, <1>8, <1>9, <1>10, <1>11, <1>12, <1>13 DEF Stored

LEMMA ChoiceMoves ==
  ASSUME SessionTypes, NEW g \in DOMAIN tasks, NEW team \in Teams \cup {NoTeam},
         tasks' = [tasks EXCEPT ![g].at = "stored", ![g].call = "choose", ![g].team = team]
  PROVE  Moves(g, "stored", "choose", tasks[g].who, team)
<1>1. tasks[g] \in Task
  BY DEF SessionTypes, TaskOK
<1>2. PICK t : t = [tasks[g] EXCEPT !.at = "stored", !.call = "choose", !.team = team]
  OBVIOUS
<1>3. IsMoved(t, tasks[g], "stored", "choose", tasks[g].who, team)
  BY <1>1, <1>2 DEF IsMoved, Task, Calls
<1>4. tasks' = [tasks EXCEPT ![g] = t]
  BY <1>1, <1>2 DEF SessionTypes
<1>. QED
  BY <1>3, <1>4 DEF Moves

LEMMA ResumedKeepsInv ==
  ASSUME SessionInv, NEW g \in DOMAIN tasks, ResumeTask(g)
  PROVE  SessionInv'
<1>1. SessionTypes
  BY DEF SessionInv
<1>2. /\ identity \in Adults \cup {Nobody}
      /\ directory \in [teams : SUBSET Teams, chosen : Teams \cup {NoTeam}]
      /\ saved \in [Adults -> Teams \cup {NoTeam}]
  BY <1>1 DEF SessionTypes
<1>3. /\ tasks[g].at = "back"
      /\ tasks[g].call \in {"signIn", "teams", "roster"} => tasks[g].who \in Adults
      /\ tasks[g].call = "session" /\ tasks[g].reply = "ok" => tasks[g].who \in Adults
      /\ tasks[g].call = "roster" => tasks[g].team \in Teams
      /\ tasks[g].op = "signOut" <=> tasks[g].call = "signOut"
      /\ tasks[g].op = "challenge" => tasks[g].call \in {"challenge", "none"} /\ tasks[g].reply # "unauthorized"
      /\ tasks[g].call = "challenge" => tasks[g].op = "challenge"
  BY <1>1 DEF SessionTypes, TaskOK, Task, KnowsItsAdult, KnowsItsTeam, KnowsItsCall, ResumeTask
<1>4. UNCHANGED <<cookie, epoch, live>>
  BY DEF ResumeTask
<1>5. CASE ~IsCurrent(g) /\ Over(g)
  BY <1>4, <1>5, OverKeepsInv
<1>6. ASSUME IsCurrent(g), Answered(g)
      PROVE  SessionInv'
  <2>1. g = Len(tasks) /\ DOMAIN tasks = 1 .. Len(tasks) /\ Len(tasks) \in Nat
    BY <1>1, <1>6 DEF IsCurrent, SessionTypes
  <2>2. tasks[g].op = "signOut" => \A h \in DOMAIN tasks : tasks[h].at # "start"
    BY <1>3, <2>1 DEF SessionInv, SignOutProceeds
  <2>3. {"teams", "emptyTeams", "choose", "ready", "none", "signedOut"} \subseteq Calls
    BY DEF Calls
  <2>4. CASE /\ tasks[g].call \in {"session", "signIn"} /\ tasks[g].reply = "ok"
             /\ LoadDirectory(g, tasks[g].who)
    <3>1. Moves(g, "send", "teams", tasks[g].who, tasks[g].team)
      BY <1>1, <1>3, <2>4, DirectoryMoves
    <3>2. shown'.kind = "loading" /\ identity' = tasks[g].who /\ UNCHANGED <<directory, saved>>
      BY <2>4 DEF LoadDirectory, Screen
    <3>. QED
      BY <1>2, <1>3, <1>4, <2>1, <2>3, <2>4, <3>1, <3>2, MoveKeepsInv
  <2>5. CASE tasks[g].call = "teams" /\ ClearsSelection(g, tasks[g].who, "emptyTeams")
    <3>1. Moves(g, "stored", "emptyTeams", tasks[g].who, tasks[g].team)
      BY <1>1, <2>3, <2>5, GoingMoves DEF Phases, ClearsSelection
    <3>2. UNCHANGED <<shown, identity, directory>> /\ saved' \in [Adults -> Teams \cup {NoTeam}]
      BY <1>2, <2>5 DEF ClearsSelection
    <3>. QED
      BY <1>2, <1>3, <1>4, <2>1, <2>3, <2>5, <3>1, <3>2, MoveKeepsInv
  <2>6. CASE /\ tasks[g].call = "teams"
             /\ tasks' = [tasks EXCEPT ![g].at = "stored", ![g].call = "choose",
                                       ![g].team = saved[tasks[g].who]]
             /\ UNCHANGED <<shown, identity, directory, saved>>
    <3>0. PICK team \in Teams \cup {NoTeam} : team = saved[tasks[g].who]
      BY <1>2, <1>3, <2>6
    <3>1. Moves(g, "stored", "choose", tasks[g].who, team)
      BY <1>1, <2>6, <3>0, ChoiceMoves
    <3>. QED
      BY <1>2, <1>3, <1>4, <2>1, <2>3, <2>6, <3>1, MoveKeepsInv
  <2>7. CASE /\ tasks[g].call = "roster"
             /\ saved' = [saved EXCEPT ![tasks[g].who] = tasks[g].team]
             /\ TaskGoes(g, "stored", "ready") /\ UNCHANGED <<shown, identity, directory>>
    <3>1. Moves(g, "stored", "ready", tasks[g].who, tasks[g].team)
      BY <1>1, <2>3, <2>7, GoingMoves DEF Phases
    <3>2. saved' \in [Adults -> Teams \cup {NoTeam}]
      BY <1>2, <1>3, <2>7
    <3>. QED
      BY <1>2, <1>3, <1>4, <2>1, <2>3, <2>7, <3>1, <3>2, MoveKeepsInv
  <2>8. CASE /\ tasks[g].call = "signOut" /\ tasks[g].reply = "ok"
             /\ Shows(g, Screen("signedOut", Nobody, NoTeam))
             /\ UNCHANGED <<identity, directory, saved>>
    <3>1. Moves(g, "over", "none", tasks[g].who, tasks[g].team)
      BY <1>1, <2>3, <2>8, GoingMoves DEF Phases, Shows
    <3>2. shown'.kind = "signedOut"
      BY <2>8 DEF Shows, Screen
    <3>. QED
      BY <1>2, <1>3, <1>4, <2>1, <2>2, <2>3, <2>8, <3>1, <3>2, MoveKeepsInv
  <2>9. CASE tasks[g].call = "challenge" /\ Over(g)
    BY <1>3, <1>4, <2>9, OverKeepsInv
  <2>10. CASE /\ tasks[g].call \in {"signIn", "signOut"}
              /\ identity' = Nobody /\ directory' = NoDirectory
              /\ Shows(g, Screen("failed", Nobody, NoTeam)) /\ UNCHANGED saved
    <3>1. Moves(g, "over", "none", tasks[g].who, tasks[g].team)
      BY <1>1, <2>3, <2>10, GoingMoves DEF Phases, Shows
    <3>2. shown'.kind = "failed" /\ directory' \in [teams : SUBSET Teams, chosen : Teams \cup {NoTeam}]
      BY <2>10 DEF Shows, Screen, NoDirectory
    <3>. QED
      BY <1>2, <1>3, <1>4, <2>1, <2>2, <2>3, <2>10, <3>1, <3>2, MoveKeepsInv
  <2>11. CASE /\ tasks[g].call \notin {"signIn", "signOut"} /\ tasks[g].reply = "unauthorized"
              /\ ClearsSelection(g, identity, "signedOut")
    <3>1. Moves(g, "stored", "signedOut", tasks[g].who, tasks[g].team)
      BY <1>1, <2>3, <2>11, GoingMoves DEF Phases, ClearsSelection
    <3>2. UNCHANGED <<shown, identity, directory>> /\ saved' \in [Adults -> Teams \cup {NoTeam}]
      BY <1>2, <2>11 DEF ClearsSelection
    <3>. QED
      BY <1>2, <1>3, <1>4, <2>1, <2>3, <2>11, <3>1, <3>2, MoveKeepsInv
  <2>12. CASE /\ tasks[g].call \notin {"signIn", "signOut"}
              /\ Shows(g, Screen("failed", identity, directory.chosen))
              /\ UNCHANGED <<identity, directory, saved>>
    <3>1. Moves(g, "over", "none", tasks[g].who, tasks[g].team)
      BY <1>1, <2>3, <2>12, GoingMoves DEF Phases, Shows
    <3>2. shown'.kind = "failed"
      BY <2>12 DEF Shows, Screen
    <3>. QED
      BY <1>2, <1>3, <1>4, <2>1, <2>3, <2>12, <3>1, <3>2, MoveKeepsInv
  <2>. QED
    BY <1>6, <2>4, <2>5, <2>6, <2>7, <2>8, <2>9, <2>10, <2>11, <2>12 DEF Answered
<1>. QED
  BY <1>5, <1>6 DEF ResumeTask

LEMMA ReplacedTasks ==
  ASSUME SessionTypes, NEW before, before = Replaced
  PROVE  /\ before \in Seq(Task) /\ Len(before) = Len(tasks) /\ DOMAIN before = DOMAIN tasks
         /\ \A h \in DOMAIN tasks :
              /\ TaskOK(before[h])
              /\ before[h].op = tasks[h].op /\ before[h].at = tasks[h].at /\ before[h].call = tasks[h].call
              /\ before[h].epoch = tasks[h].epoch /\ before[h].sent = tasks[h].sent
              /\ before[h].reply = tasks[h].reply
              /\ before[h].cancelled <=> (tasks[h].cancelled \/ (h = Len(tasks) /\ tasks[h].op # "challenge"))
<1>1. /\ DOMAIN tasks = 1 .. Len(tasks) /\ Len(tasks) \in Nat
      /\ \A h \in DOMAIN tasks : TaskOK(tasks[h]) /\ tasks[h] \in Task
  BY DEF SessionTypes, TaskOK
<1>2. ASSUME NEW u \in Task, TaskOK(u), NEW v, v = [u EXCEPT !.cancelled = TRUE]
      PROVE  /\ v \in Task /\ TaskOK(v) /\ v.op = u.op /\ v.at = u.at /\ v.call = u.call
             /\ v.epoch = u.epoch /\ v.sent = u.sent /\ v.reply = u.reply /\ v.cancelled
  <2>1. /\ v \in Task /\ v.op = u.op /\ v.at = u.at /\ v.call = u.call /\ v.who = u.who /\ v.team = u.team
        /\ v.epoch = u.epoch /\ v.sent = u.sent /\ v.reply = u.reply /\ v.cancelled = TRUE
    BY <1>2 DEF Task
  <2>. QED
    BY <1>2, <2>1 DEF TaskOK, KnowsItsAdult, KnowsItsTeam, KnowsItsCall
<1>3. ASSUME NEW h \in DOMAIN tasks
      PROVE  /\ before[h] \in Task /\ TaskOK(before[h])
             /\ before[h].op = tasks[h].op /\ before[h].at = tasks[h].at /\ before[h].call = tasks[h].call
             /\ before[h].epoch = tasks[h].epoch /\ before[h].sent = tasks[h].sent
             /\ before[h].reply = tasks[h].reply
             /\ before[h].cancelled <=> (tasks[h].cancelled \/ (h = Len(tasks) /\ tasks[h].op # "challenge"))
  <2>1. CASE h = Len(tasks) /\ tasks[h].op # "challenge"
    <3>1. before[h] = [tasks[h] EXCEPT !.cancelled = TRUE]
      BY <2>1 DEF Replaced
    <3>2. before[h].cancelled \in BOOLEAN
      BY <1>1, <1>2, <3>1 DEF Task
    <3>. QED
      BY <1>1, <1>2, <2>1, <3>1, <3>2
  <2>2. CASE ~(h = Len(tasks) /\ tasks[h].op # "challenge")
    <3>1. before[h] = tasks[h]
      BY <2>2 DEF Replaced
    <3>2. tasks[h].cancelled \in BOOLEAN
      BY <1>1 DEF Task
    <3>. QED
      BY <1>1, <2>2, <3>1, <3>2
  <2>. QED
    BY <2>1, <2>2
<1>4. before = [h \in 1 .. Len(tasks) |-> before[h]]
  BY <1>1 DEF Replaced
<1>5. before \in Seq(Task) /\ Len(before) = Len(tasks)
  BY <1>1, <1>3, <1>4
<1>. QED
  BY <1>1, <1>3, <1>4, <1>5

\* A new call: the task before it is cancelled, its own has not left.
LEMMA CallKeepsInv ==
  ASSUME SessionInv, Len(tasks) < MaxCalls, NEW t, TaskOK(t), t.sent = NoCookie, t.epoch = 0,
         t.cancelled = FALSE, t.at = "start" \/ (t.at = "send" /\ t.op = "challenge" /\ shown'.kind # "ready"),
         tasks' = Append(Replaced, t), UNCHANGED <<saved, cookie, epoch, live>>,
         identity' \in Adults \cup {Nobody},
         directory' \in [teams : SUBSET Teams, chosen : Teams \cup {NoTeam}],
         shown' = shown \/ shown'.kind # "ready"
  PROVE  SessionInv'
<1>1. SessionTypes /\ OlderAreCancelled /\ SessionsAreOfAnswers /\ SignOutProceeds /\ EpochsArePast
      /\ ChallengesShowNothing /\ ReadyIsTheNewestCalls
  BY DEF SessionInv
<1>2. PICK before : before = Replaced
  OBVIOUS
<1>3. /\ before \in Seq(Task) /\ Len(before) = Len(tasks) /\ DOMAIN before = DOMAIN tasks
      /\ \A h \in DOMAIN tasks :
           /\ TaskOK(before[h])
           /\ before[h].op = tasks[h].op /\ before[h].at = tasks[h].at /\ before[h].call = tasks[h].call
           /\ before[h].epoch = tasks[h].epoch /\ before[h].sent = tasks[h].sent
           /\ before[h].cancelled <=> (tasks[h].cancelled \/ (h = Len(tasks) /\ tasks[h].op # "challenge"))
  BY <1>1, <1>2, ReplacedTasks
<1>4. PICK n : n = Len(tasks) + 1
  OBVIOUS
<1>5. /\ tasks' \in Seq(Task) /\ Len(tasks') = n /\ DOMAIN tasks' = 1 .. n
      /\ tasks'[n] = t /\ \A h \in DOMAIN tasks : tasks'[h] = before[h]
      /\ \A h \in DOMAIN tasks' : TaskOK(tasks'[h])
      /\ DOMAIN tasks = 1 .. Len(tasks) /\ Len(tasks) \in Nat /\ n \in Nat /\ n <= MaxCalls
  BY <1>1, <1>2, <1>3, <1>4, TaskAppended
<1>6. \A h \in DOMAIN tasks' : h = n \/ (h \in DOMAIN tasks /\ h < n)
  BY <1>4, <1>5
<1>7. SessionTypes'
  BY <1>1, <1>5 DEF SessionTypes
<1>8. OlderAreCancelled'
  <2> SUFFICES ASSUME NEW g \in DOMAIN tasks'
               PROVE  /\ g < n /\ tasks'[g].op # "challenge" => tasks'[g].cancelled
                      /\ g = n /\ tasks'[g].op = "signOut" => ~tasks'[g].cancelled
    BY <1>5 DEF OlderAreCancelled
  <2>1. CASE g = n
    BY <1>5, <2>1
  <2>2. CASE g \in DOMAIN tasks /\ g < n
    <3>1. g = Len(tasks) \/ g < Len(tasks)
      BY <1>4, <1>5, <2>2
    <3>. QED
      BY <1>1, <1>3, <1>5, <2>2, <3>1 DEF OlderAreCancelled
  <2>. QED
    BY <1>6, <2>1, <2>2
<1>9. SessionsAreOfAnswers'
  <2>1. \A h \in DOMAIN tasks' : tasks'[h].sent # NoCookie => tasks'[h].sent.by <= Len(tasks)
    BY <1>1, <1>3, <1>5, <1>6 DEF SessionsAreOfAnswers
  <2>2. \A s \in live \cup ({cookie} \ {NoCookie}) : s.by <= Len(tasks) /\ s.by \in Nat
    BY <1>1 DEF SessionsAreOfAnswers, SessionTypes, Sessions
  <2>3. \A h \in DOMAIN tasks' : tasks'[h].sent # NoCookie => tasks'[h].sent.by \in Nat
    BY <1>5 DEF TaskOK, Task, Sessions
  <2>4. \A h \in DOMAIN tasks : IsUnanswered(tasks'[h]) => IsUnanswered(tasks[h])
    BY <1>3, <1>5 DEF IsUnanswered
  <2>5. ASSUME NEW g \in DOMAIN tasks', IsUnanswered(tasks'[g])
        PROVE  /\ \A s \in live \cup ({cookie} \ {NoCookie}) : s.by # g
               /\ \A h \in DOMAIN tasks' : tasks'[h].sent # NoCookie => tasks'[h].sent.by # g
    <3>1. CASE g = n
      BY <1>4, <1>5, <2>1, <2>2, <2>3, <3>1
    <3>2. CASE g \in DOMAIN tasks
      <4>1. \A s \in live \cup ({cookie} \ {NoCookie}) : s.by # g
        BY <1>1, <2>4, <2>5, <3>2 DEF SessionsAreOfAnswers
      <4>2. \A h \in DOMAIN tasks : tasks[h].sent # NoCookie => tasks[h].sent.by # g
        BY <1>1, <2>4, <2>5, <3>2 DEF SessionsAreOfAnswers
      <4>. QED
        BY <1>3, <1>5, <1>6, <4>1, <4>2
    <3>. QED
      BY <1>6, <2>5, <3>1, <3>2
  <2>6. \A h \in DOMAIN tasks' : tasks'[h].sent # NoCookie => tasks'[h].sent.by <= n
    BY <1>4, <1>5, <2>1, <2>3
  <2>7. \A s \in live \cup ({cookie} \ {NoCookie}) : s.by <= n
    BY <1>4, <1>5, <2>2
  <2>. QED
    BY <1>5, <2>5, <2>6, <2>7 DEF SessionsAreOfAnswers
<1>10. SignOutProceeds'
  BY <1>5 DEF SignOutProceeds
<1>11. EpochsArePast'
  BY <1>1, <1>3, <1>5, <1>6 DEF EpochsArePast, SessionTypes
<1>12. ChallengesShowNothing'
  BY <1>5 DEF ChallengesShowNothing, TaskOK, KnowsItsCall
<1>13. ReadyIsTheNewestCalls'
  BY <1>1, <1>5 DEF ReadyIsTheNewestCalls
<1>. QED
  BY <1>7, <1>8, <1>9, <1>10, <1>11, <1>12, <1>13 DEF SessionInv

LEMMA NamedCallKeepsInv ==
  ASSUME SessionInv, NEW op \in {"restore", "retry", "select", "signOut", "signIn"},
         NEW who \in Adults \cup {Nobody}, NEW team \in Teams \cup {NoTeam}, Call(op, who, team),
         op \in {"retry", "select", "signIn"} => who \in Adults, op = "select" => team \in Teams
  PROVE  SessionInv'
<1>1. SessionTypes
  BY DEF SessionInv
<1>2. PICK t : t = NewTask(op, who, team, directory.teams, "start")
  OBVIOUS
<1>3. /\ t \in Task /\ t.op = op /\ t.at = "start" /\ t.call = "none" /\ t.who = who /\ t.team = team
      /\ t.epoch = 0 /\ t.sent = NoCookie /\ t.cancelled = FALSE /\ t.reply = "none"
  BY <1>1, <1>2 DEF NewTask, Task, Calls, Operations, SessionTypes
<1>4. TaskOK(t)
  BY <1>3 DEF TaskOK, KnowsItsAdult, KnowsItsTeam, KnowsItsCall
<1>5. /\ Len(tasks) < MaxCalls /\ tasks' = Append(Replaced, t)
      /\ UNCHANGED <<shown, identity, directory, saved, cookie, epoch, live>>
  BY <1>2 DEF Call
<1>6. identity \in Adults \cup {Nobody} /\ directory \in [teams : SUBSET Teams, chosen : Teams \cup {NoTeam}]
  BY <1>1 DEF SessionTypes
<1>. QED
  BY <1>3, <1>4, <1>5, <1>6, CallKeepsInv

LEMMA UserCallsKeepInv ==
  ASSUME SessionInv, Restore \/ Retry \/ SelectTeam \/ SelectSeason \/ SignOut \/ CompleteAppleSignIn
  PROVE  SessionInv'
<1>1. identity \in Adults \cup {Nobody} /\ directory \in [teams : SUBSET Teams, chosen : Teams \cup {NoTeam}]
  BY DEF SessionInv, SessionTypes
<1>2. CASE Restore
  BY <1>2, NamedCallKeepsInv DEF Restore
<1>3. CASE Retry
  BY <1>1, <1>3, NamedCallKeepsInv DEF Retry
<1>4. CASE SelectTeam
  BY <1>1, <1>4, NamedCallKeepsInv DEF SelectTeam
<1>5. CASE SelectSeason
  BY <1>1, <1>5, NamedCallKeepsInv DEF SelectSeason
<1>6. CASE SignOut
  BY <1>6, NamedCallKeepsInv DEF SignOut
<1>7. CASE CompleteAppleSignIn
  BY <1>7, NamedCallKeepsInv DEF CompleteAppleSignIn
<1>. QED
  BY <1>2, <1>3, <1>4, <1>5, <1>6, <1>7

LEMMA ChallengeKeepsInv ==
  ASSUME SessionInv, BeginAppleSignIn
  PROVE  SessionInv'
<1>1. SessionTypes
  BY DEF SessionInv
<1>2. PICK t : t = [NewTask("challenge", Nobody, NoTeam, {}, "send") EXCEPT !.call = "challenge"]
  OBVIOUS
<1>3. /\ t \in Task /\ t.op = "challenge" /\ t.at = "send" /\ t.call = "challenge" /\ t.who = Nobody
      /\ t.team = NoTeam /\ t.epoch = 0 /\ t.sent = NoCookie /\ t.cancelled = FALSE /\ t.reply = "none"
  BY <1>2 DEF NewTask, Task, Calls, Operations
<1>4. TaskOK(t)
  BY <1>3 DEF TaskOK, KnowsItsAdult, KnowsItsTeam, KnowsItsCall
<1>5. /\ Len(tasks) < MaxCalls /\ tasks' = Append(Replaced, t) /\ UNCHANGED <<saved, cookie, epoch, live>>
      /\ identity' = Nobody
  BY <1>2 DEF BeginAppleSignIn
<1>6. /\ directory' \in [teams : SUBSET Teams, chosen : Teams \cup {NoTeam}]
      /\ shown'.kind = "signedOut"
  BY DEF BeginAppleSignIn, NoDirectory, Screen
<1>. QED
  BY <1>3, <1>4, <1>5, <1>6, CallKeepsInv

LEMMA CancelCallerKeepsInv ==
  ASSUME SessionInv, CancelCaller
  PROVE  SessionInv'
<1>1. SessionTypes /\ OlderAreCancelled /\ SessionsAreOfAnswers /\ SignOutProceeds /\ EpochsArePast
      /\ ChallengesShowNothing /\ ReadyIsTheNewestCalls
  BY DEF SessionInv
<1>2. PICK g \in DOMAIN tasks :
        /\ tasks[g].op \in {"restore", "challenge"} /\ tasks[g].at # "over"
        /\ tasks' = [tasks EXCEPT ![g].cancelled = TRUE]
        /\ UNCHANGED <<shown, identity, directory, saved, cookie, epoch, live>>
  BY DEF CancelCaller
<1>3. PICK t : t = [tasks[g] EXCEPT !.cancelled = TRUE]
  OBVIOUS
<1>4. /\ t \in Task /\ t.op = tasks[g].op /\ t.at = tasks[g].at /\ t.call = tasks[g].call
      /\ t.who = tasks[g].who /\ t.team = tasks[g].team /\ t.epoch = tasks[g].epoch
      /\ t.sent = tasks[g].sent /\ t.reply = tasks[g].reply /\ t.cancelled = TRUE
  BY <1>1, <1>3 DEF SessionTypes, TaskOK, Task
<1>5. TaskOK(t)
  BY <1>1, <1>4 DEF SessionTypes, TaskOK, KnowsItsAdult, KnowsItsTeam, KnowsItsCall
<1>6. tasks' = [tasks EXCEPT ![g] = t]
  BY <1>1, <1>2, <1>3 DEF SessionTypes
<1>7. /\ tasks' \in Seq(Task) /\ Len(tasks') = Len(tasks) /\ DOMAIN tasks' = DOMAIN tasks
      /\ tasks'[g] = t /\ \A h \in DOMAIN tasks : h # g => tasks'[h] = tasks[h]
      /\ \A h \in DOMAIN tasks' : TaskOK(tasks'[h])
  BY <1>1, <1>5, <1>6, TaskReplaced
<1>8. \A h \in DOMAIN tasks :
        /\ tasks'[h].op = tasks[h].op /\ tasks'[h].at = tasks[h].at /\ tasks'[h].call = tasks[h].call
        /\ tasks'[h].epoch = tasks[h].epoch /\ tasks'[h].sent = tasks[h].sent
        /\ tasks'[h].reply = tasks[h].reply /\ tasks'[h].who = tasks[h].who /\ tasks'[h].team = tasks[h].team
        /\ tasks[h].cancelled => tasks'[h].cancelled
        /\ tasks[h].op = "signOut" => tasks'[h] = tasks[h]
        /\ tasks'[h].at = "over" => tasks'[h] = tasks[h]
  BY <1>2, <1>4, <1>7
<1>9. SessionTypes'
  BY <1>1, <1>2, <1>7 DEF SessionTypes
<1>10. OlderAreCancelled'
  BY <1>1, <1>7, <1>8 DEF OlderAreCancelled
<1>11. SessionsAreOfAnswers'
  BY <1>1, <1>2, <1>7, <1>8 DEF SessionsAreOfAnswers, IsUnanswered
<1>12. SignOutProceeds'
  BY <1>1, <1>2, <1>7, <1>8 DEF SignOutProceeds
<1>13. EpochsArePast' /\ ChallengesShowNothing'
  BY <1>1, <1>2, <1>7, <1>8 DEF EpochsArePast, ChallengesShowNothing
<1>14. ReadyIsTheNewestCalls'
  BY <1>1, <1>2, <1>7, <1>8 DEF ReadyIsTheNewestCalls
<1>. QED
  BY <1>9, <1>10, <1>11, <1>12, <1>13, <1>14 DEF SessionInv

LEMMA ExpireKeepsInv ==
  ASSUME SessionInv, Expire
  PROVE  SessionInv'
<1>1. SessionTypes /\ OlderAreCancelled /\ SessionsAreOfAnswers /\ SignOutProceeds /\ EpochsArePast
      /\ ChallengesShowNothing /\ ReadyIsTheNewestCalls
  BY DEF SessionInv
<1>2. live' \subseteq live /\ UNCHANGED <<shown, identity, directory, tasks, saved, cookie, epoch>>
  BY DEF Expire
<1>3. SessionTypes' /\ OlderAreCancelled' /\ EpochsArePast' /\ ChallengesShowNothing' /\ ReadyIsTheNewestCalls'
  BY <1>1, <1>2 DEF SessionTypes, OlderAreCancelled, EpochsArePast, ChallengesShowNothing, ReadyIsTheNewestCalls
<1>4. SessionsAreOfAnswers'
  BY <1>1, <1>2 DEF SessionsAreOfAnswers
<1>5. SignOutProceeds'
  BY <1>1, <1>2 DEF SignOutProceeds
<1>. QED
  BY <1>3, <1>4, <1>5 DEF SessionInv

\* A step of a task's call, off the main actor: of the HTTP client, the cookie
\* actor or the server.
LEMMA ServiceStepKeepsInv ==
  ASSUME SessionInv, NEW g \in DOMAIN tasks, NEW t, TaskOK(t), tasks' = [tasks EXCEPT ![g] = t],
         t.op = tasks[g].op, t.call = tasks[g].call, t.cancelled = tasks[g].cancelled,
         tasks[g].at \in {"send", "clear", "wait"}, t.at \in {"clear", "wait", "back"},
         UNCHANGED <<shown, identity, directory, saved>>,
         cookie' \in Sessions \cup {NoCookie}, live' \subseteq Sessions,
         epoch' \in Nat, epoch <= epoch', t.epoch <= epoch',
         t.sent = tasks[g].sent \/ t.sent = cookie,
         \A s \in live' \cup ({cookie'} \ {NoCookie}) :
           \/ s \in live \cup ({cookie} \ {NoCookie})
           \/ s.by = g /\ IsUnanswered(tasks[g]) /\ ~IsUnanswered(t),
         \A s \in live' : s \in live \/ (s.by = g /\ IsUnanswered(tasks[g])),
         \/ cookie' \in {NoCookie, cookie}
         \/ tasks[g].at = "wait" /\ tasks[g].call = "signIn" /\ tasks[g].epoch = epoch,
         IsUnanswered(t) => IsUnanswered(tasks[g]),
         t.at = "wait" /\ t.call = "signIn" => ~t.cancelled,
         tasks[g].op = "signOut" =>
           \/ tasks[g].at = "send" /\ t.at = "clear" /\ cookie' = t.sent /\ epoch < epoch'
           \/ /\ tasks[g].at \in {"clear", "wait"} /\ t.sent = tasks[g].sent /\ cookie' \in {NoCookie, cookie}
              /\ t.at = "back" /\ t.reply = "ok" => t.sent \notin live'
  PROVE  SessionInv'
<1>1. SessionTypes /\ OlderAreCancelled /\ SessionsAreOfAnswers /\ SignOutProceeds /\ EpochsArePast
      /\ ChallengesShowNothing /\ ReadyIsTheNewestCalls
  BY DEF SessionInv
<1>2. /\ tasks' \in Seq(Task) /\ Len(tasks') = Len(tasks) /\ DOMAIN tasks' = DOMAIN tasks
      /\ tasks'[g] = t /\ \A h \in DOMAIN tasks : h # g => tasks'[h] = tasks[h]
      /\ \A h \in DOMAIN tasks' : TaskOK(tasks'[h])
      /\ DOMAIN tasks = 1 .. Len(tasks) /\ Len(tasks) \in Nat
  BY <1>1, TaskReplaced
<1>3. \A h \in DOMAIN tasks : tasks[h] \in Task /\ tasks[h].epoch \in Nat /\ tasks[h].epoch <= epoch
  BY <1>1 DEF SessionTypes, TaskOK, Task, EpochsArePast
<1>4. SessionTypes'
  BY <1>1, <1>2 DEF SessionTypes
<1>5. OlderAreCancelled'
  BY <1>1, <1>2 DEF OlderAreCancelled
<1>6. SessionsAreOfAnswers'
  <2>1. \A s \in live \cup ({cookie} \ {NoCookie}) : s.by <= Len(tasks)
    BY <1>1 DEF SessionsAreOfAnswers
  <2>2. \A h \in DOMAIN tasks : tasks'[h].sent = tasks[h].sent \/ tasks'[h].sent = cookie
    BY <1>2
  <2>3. \A h \in DOMAIN tasks : IsUnanswered(tasks'[h]) => IsUnanswered(tasks[h])
    BY <1>2
  <2>4. \A s \in live' \cup ({cookie'} \ {NoCookie}) : s.by <= Len(tasks')
    BY <1>2, <2>1
  <2>5. \A h \in DOMAIN tasks : tasks'[h].sent # NoCookie => tasks'[h].sent.by <= Len(tasks)
    BY <1>1, <2>1, <2>2 DEF SessionsAreOfAnswers
  <2>6. ASSUME NEW h \in DOMAIN tasks, IsUnanswered(tasks'[h])
        PROVE  /\ \A s \in live' \cup ({cookie'} \ {NoCookie}) : s.by # h
               /\ \A k \in DOMAIN tasks : tasks'[k].sent # NoCookie => tasks'[k].sent.by # h
    <3>1. \A s \in live \cup ({cookie} \ {NoCookie}) : s.by # h
      BY <1>1, <2>3, <2>6 DEF SessionsAreOfAnswers
    <3>2. \A k \in DOMAIN tasks : tasks[k].sent # NoCookie => tasks[k].sent.by # h
      BY <1>1, <2>3, <2>6 DEF SessionsAreOfAnswers
    <3>3. h = g => IsUnanswered(t)
      BY <1>2, <2>6
    <3>. QED
      BY <2>2, <3>1, <3>2, <3>3
  <2>. QED
    BY <1>2, <2>4, <2>5, <2>6 DEF SessionsAreOfAnswers
<1>7. EpochsArePast'
  BY <1>2, <1>3, <1>1 DEF EpochsArePast, SessionTypes
<1>8. ChallengesShowNothing'
  BY <1>1, <1>2 DEF ChallengesShowNothing
<1>9. ReadyIsTheNewestCalls'
  BY <1>1, <1>2 DEF ReadyIsTheNewestCalls
<1>10. SignOutProceeds'
  <2> SUFFICES ASSUME NEW n \in DOMAIN tasks, n = Len(tasks), tasks'[n].op = "signOut"
               PROVE  /\ tasks'[n].at # "start" => \A h \in DOMAIN tasks : tasks'[h].at # "start"
                      /\ tasks'[n].at \notin {"start", "over"} => shown'.kind = "signingOut"
                      /\ tasks'[n].at \in {"clear", "wait", "back"}
                           \/ (tasks'[n].at = "over" /\ shown'.kind = "signedOut") =>
                           /\ cookie' \in {NoCookie, tasks'[n].sent}
                           /\ \A h \in DOMAIN tasks :
                                tasks'[h].call = "signIn" /\ tasks'[h].at = "wait" => tasks'[h].epoch < epoch'
                      /\ \/ tasks'[n].at = "back" /\ tasks'[n].reply = "ok"
                         \/ tasks'[n].at = "over" /\ shown'.kind = "signedOut"
                         => tasks'[n].sent \notin live'
    BY <1>2 DEF SignOutProceeds
  <2>1. tasks[n].op = "signOut" /\ (tasks'[n].at = "start" <=> tasks[n].at = "start")
    BY <1>2
  <2>2. tasks'[n].at # "start" => \A h \in DOMAIN tasks : tasks'[h].at # "start"
    BY <1>1, <1>2, <2>1 DEF SignOutProceeds
  <2>3. \A h \in DOMAIN tasks : tasks'[h].call = "signIn" /\ tasks'[h].at = "wait" => tasks'[h] = tasks[h]
    <3>1. t.call = "signIn" /\ t.at = "wait" => g # n /\ t.op = "signIn"
      BY <1>2, <2>1 DEF TaskOK, KnowsItsCall
    <3>2. g # n => g < Len(tasks)
      BY <1>2
    <3>3. ~(t.call = "signIn" /\ t.at = "wait")
      BY <1>1, <3>1, <3>2 DEF OlderAreCancelled
    <3>. QED
      BY <1>2, <3>3
  <2>4. CASE n = g
    <3>1. tasks[g].at # "start" /\ tasks[g].at # "over" /\ shown.kind = "signingOut"
      BY <1>1, <2>1, <2>4 DEF SignOutProceeds
    <3>2. CASE tasks[g].at = "send" /\ t.at = "clear" /\ cookie' = t.sent /\ epoch < epoch'
      <4>1. \A h \in DOMAIN tasks :
              tasks'[h].call = "signIn" /\ tasks'[h].at = "wait" => tasks'[h].epoch < epoch'
        BY <1>1, <1>3, <2>3, <3>2 DEF SessionTypes
      <4>. QED
        BY <1>2, <2>2, <2>4, <3>1, <3>2, <4>1
    <3>3. CASE /\ tasks[g].at \in {"clear", "wait"} /\ t.sent = tasks[g].sent /\ cookie' \in {NoCookie, cookie}
               /\ t.at = "back" /\ t.reply = "ok" => t.sent \notin live'
      <4>1. /\ cookie \in {NoCookie, tasks[g].sent}
            /\ \A h \in DOMAIN tasks :
                 tasks[h].call = "signIn" /\ tasks[h].at = "wait" => tasks[h].epoch < epoch
        BY <1>1, <2>1, <2>4, <3>3 DEF SignOutProceeds
      <4>2. \A h \in DOMAIN tasks :
              tasks'[h].call = "signIn" /\ tasks'[h].at = "wait" => tasks'[h].epoch < epoch'
        BY <1>1, <1>3, <2>3, <4>1 DEF SessionTypes
      <4>. QED
        BY <1>2, <2>2, <2>4, <3>1, <3>3, <4>1, <4>2
    <3>. QED
      BY <2>1, <2>4, <3>2, <3>3
  <2>5. CASE n # g
    <3>1. tasks'[n] = tasks[n] /\ shown' = shown
      BY <1>2, <2>5
    <3>2. ASSUME tasks[n].at \in {"clear", "wait", "back"} \/ (tasks[n].at = "over" /\ shown.kind = "signedOut")
          PROVE  /\ cookie' \in {NoCookie, tasks[n].sent}
                 /\ \A h \in DOMAIN tasks :
                      tasks'[h].call = "signIn" /\ tasks'[h].at = "wait" => tasks'[h].epoch < epoch'
      <4>1. /\ cookie \in {NoCookie, tasks[n].sent}
            /\ \A h \in DOMAIN tasks :
                 tasks[h].call = "signIn" /\ tasks[h].at = "wait" => tasks[h].epoch < epoch
        BY <1>1, <2>1, <3>2 DEF SignOutProceeds
      <4>2. cookie' \in {NoCookie, cookie}
        BY <1>1, <1>3, <4>1 DEF SessionTypes
      <4>. QED
        BY <1>1, <1>3, <2>3, <4>1, <4>2 DEF SessionTypes
    <3>3. ASSUME \/ tasks[n].at = "back" /\ tasks[n].reply = "ok"
                 \/ tasks[n].at = "over" /\ shown.kind = "signedOut"
          PROVE  tasks[n].sent \notin live'
      <4>1. tasks[n].sent \notin live
        BY <1>1, <2>1, <3>3 DEF SignOutProceeds
      <4>2. NoCookie \notin live'
        BY SessionAssumption DEF Sessions
      <4>3. IsUnanswered(tasks[g]) /\ tasks[n].sent # NoCookie => tasks[n].sent.by # g
        BY <1>1 DEF SessionsAreOfAnswers
      <4>. QED
        BY <4>1, <4>2, <4>3
    <3>. QED
      BY <1>1, <2>1, <2>2, <3>1, <3>2, <3>3 DEF SignOutProceeds
  <2>. QED
    BY <2>4, <2>5
<1>. QED
  BY <1>4, <1>5, <1>6, <1>7, <1>8, <1>9, <1>10 DEF SessionInv

LEMMA SendKeepsInv ==
  ASSUME SessionInv, NEW g \in DOMAIN tasks, Send(g)
  PROVE  SessionInv'
<1>1. SessionTypes
  BY DEF SessionInv
<1>2. /\ tasks[g] \in Task /\ TaskOK(tasks[g]) /\ tasks[g].at = "send" /\ tasks \in Seq(Task)
      /\ epoch \in Nat /\ cookie \in Sessions \cup {NoCookie} /\ live \subseteq Sessions
  BY <1>1 DEF SessionTypes, TaskOK, Send
<1>3. PICK e : e = IF tasks[g].call \in {"signIn", "signOut"} THEN epoch + 1 ELSE epoch
  OBVIOUS
<1>4. PICK at : at = IF tasks[g].call = "signOut" THEN "clear" ELSE Leaves(g)
  OBVIOUS
<1>5. e \in Nat /\ epoch <= e /\ (tasks[g].call = "signOut" => epoch < e)
  BY <1>2, <1>3
<1>6. /\ at \in {"clear", "wait", "back"} /\ (tasks[g].call = "signOut" => at = "clear")
      /\ at = "clear" => tasks[g].call = "signOut"
      /\ at = "wait" => ~tasks[g].cancelled
  BY <1>4 DEF Leaves
<1>7. PICK t : t = [tasks[g] EXCEPT !.at = at, !.epoch = e, !.sent = cookie]
  OBVIOUS
<1>8. /\ t \in Task /\ t.op = tasks[g].op /\ t.at = at /\ t.call = tasks[g].call
      /\ t.who = tasks[g].who /\ t.team = tasks[g].team /\ t.epoch = e
      /\ t.sent = cookie /\ t.reply = tasks[g].reply /\ t.cancelled = tasks[g].cancelled
  BY <1>2, <1>5, <1>6, <1>7 DEF Task
<1>9. TaskOK(t)
  BY <1>2, <1>6, <1>8 DEF TaskOK, KnowsItsAdult, KnowsItsTeam, KnowsItsCall
<1>10. epoch' = e /\ tasks' = [tasks EXCEPT ![g] = t]
       /\ UNCHANGED <<shown, identity, directory, saved, cookie, live>>
  BY <1>2, <1>3, <1>4, <1>7 DEF Send
<1>11. IsUnanswered(t) => IsUnanswered(tasks[g])
  BY <1>2, <1>6, <1>8 DEF IsUnanswered
<1>12. tasks[g].op = "signOut" => tasks[g].call = "signOut"
  BY <1>2 DEF TaskOK, KnowsItsCall
<1>13. tasks[g].op = "signOut" => tasks[g].at = "send" /\ t.at = "clear" /\ cookie' = t.sent /\ epoch < epoch'
  BY <1>2, <1>5, <1>6, <1>8, <1>10, <1>12
<1>14. /\ cookie' \in Sessions \cup {NoCookie} /\ live' \subseteq Sessions /\ cookie' \in {NoCookie, cookie}
       /\ \A s \in live' \cup ({cookie'} \ {NoCookie}) : s \in live \cup ({cookie} \ {NoCookie})
       /\ \A s \in live' : s \in live
  BY <1>2, <1>10
<1>15. /\ epoch' \in Nat /\ epoch <= epoch' /\ t.epoch <= epoch'
       /\ t.at = "wait" /\ t.call = "signIn" => ~t.cancelled
  BY <1>2, <1>5, <1>6, <1>8, <1>10
<1>. QED
  BY <1>2, <1>6, <1>8, <1>9, <1>10, <1>11, <1>13, <1>14, <1>15, ServiceStepKeepsInv

LEMMA ClearKeepsTypes ==
  ASSUME SessionTypes, NEW at, Clear(at)
  PROVE  epoch' \in Nat /\ epoch <= epoch' /\ cookie' \in {NoCookie, cookie}
BY DEF SessionTypes, Clear

LEMMA ClearLocallyKeepsInv ==
  ASSUME SessionInv, NEW g \in DOMAIN tasks, ClearLocally(g)
  PROVE  SessionInv'
<1>1. SessionTypes /\ EpochsArePast
  BY DEF SessionInv
<1>2. /\ tasks[g] \in Task /\ TaskOK(tasks[g]) /\ tasks[g].at = "clear" /\ tasks \in Seq(Task)
      /\ epoch \in Nat /\ cookie \in Sessions \cup {NoCookie} /\ live \subseteq Sessions
      /\ tasks[g].epoch \in Nat /\ tasks[g].epoch <= epoch
  BY <1>1 DEF SessionTypes, TaskOK, Task, ClearLocally, EpochsArePast
<1>3. tasks[g].op = "signOut" /\ tasks[g].call = "signOut"
  BY <1>2 DEF TaskOK, KnowsItsCall
<1>4. PICK reply \in {"kept", "none"} :
        reply = IF epoch' # epoch /\ cookie' # NoCookie THEN "kept" ELSE "none"
  OBVIOUS
<1>5. PICK at \in {"wait", "back"} : at = Leaves(g)
  BY DEF Leaves
<1>6. epoch' \in Nat /\ epoch <= epoch' /\ cookie' \in {NoCookie, cookie}
  BY <1>1, ClearKeepsTypes DEF ClearLocally
<1>7. PICK t : t = [tasks[g] EXCEPT !.at = at, !.reply = reply]
  OBVIOUS
<1>8. /\ t \in Task /\ t.op = tasks[g].op /\ t.at = at /\ t.call = tasks[g].call
      /\ t.who = tasks[g].who /\ t.team = tasks[g].team /\ t.epoch = tasks[g].epoch
      /\ t.sent = tasks[g].sent /\ t.reply = reply /\ t.cancelled = tasks[g].cancelled
  BY <1>2, <1>7 DEF Task
<1>9. TaskOK(t)
  BY <1>2, <1>3, <1>8 DEF TaskOK, KnowsItsAdult, KnowsItsTeam, KnowsItsCall
<1>10. tasks' = [tasks EXCEPT ![g] = t] /\ UNCHANGED <<shown, identity, directory, saved, live>>
  BY <1>2, <1>4, <1>5, <1>7 DEF ClearLocally
<1>11. ~IsUnanswered(t)
  BY <1>3, <1>8 DEF IsUnanswered
<1>12. t.epoch <= epoch'
  BY <1>2, <1>6, <1>8
<1>. QED
  BY <1>2, <1>3, <1>6, <1>8, <1>9, <1>10, <1>11, <1>12, ServiceStepKeepsInv

LEMMA RepliedTask ==
  ASSUME SessionTypes, NEW g \in DOMAIN tasks, NEW who \in Adults \cup {Nobody}, NEW list \in SUBSET Teams,
         NEW reply \in {"ok", "failed", "unauthorized", "cancelled"}, TaskReply(g, reply, who, list),
         tasks[g].at = "wait",
         tasks[g].call \in {"session", "signIn", "teams", "roster"} => who \in Adults \/ reply # "ok",
         who # tasks[g].who => tasks[g].call = "session",
         reply = "unauthorized" => tasks[g].op # "challenge"
  PROVE  \E t : /\ TaskOK(t) /\ tasks' = [tasks EXCEPT ![g] = t]
                /\ t.op = tasks[g].op /\ t.at = "back" /\ t.call = tasks[g].call
                /\ t.epoch = tasks[g].epoch /\ t.sent = tasks[g].sent /\ t.reply = reply
                /\ t.cancelled = tasks[g].cancelled
<1>1. tasks[g] \in Task /\ TaskOK(tasks[g]) /\ tasks \in Seq(Task)
  BY DEF SessionTypes, TaskOK
<1>2. PICK t : t = [tasks[g] EXCEPT !.at = "back", !.reply = reply, !.who = who, !.teams = list]
  OBVIOUS
<1>3. /\ t \in Task /\ t.op = tasks[g].op /\ t.at = "back" /\ t.call = tasks[g].call
      /\ t.who = who /\ t.team = tasks[g].team /\ t.epoch = tasks[g].epoch
      /\ t.sent = tasks[g].sent /\ t.reply = reply /\ t.cancelled = tasks[g].cancelled
  BY <1>1, <1>2 DEF Task
<1>4. TaskOK(t)
  BY <1>1, <1>3 DEF TaskOK, KnowsItsAdult, KnowsItsTeam, KnowsItsCall
<1>5. tasks' = [tasks EXCEPT ![g] = t]
  BY <1>1, <1>2 DEF TaskReply
<1>. QED
  BY <1>3, <1>4, <1>5

\* An answer that brings no new session.
LEMMA PlainAnswerKeepsInv ==
  ASSUME SessionInv, NEW g \in DOMAIN tasks, tasks[g].at = "wait", NEW who \in Adults \cup {Nobody},
         NEW list \in SUBSET Teams, NEW reply \in {"ok", "failed", "unauthorized", "cancelled"},
         TaskReply(g, reply, who, list),
         tasks[g].call \in {"session", "signIn", "teams", "roster"} => who \in Adults \/ reply # "ok",
         who # tasks[g].who => tasks[g].call = "session",
         reply = "unauthorized" => tasks[g].op # "challenge",
         UNCHANGED <<shown, identity, directory, saved>>,
         epoch' \in Nat, epoch <= epoch', cookie' \in {NoCookie, cookie}, live' \subseteq live,
         tasks[g].call = "signOut" /\ reply = "ok" => tasks[g].sent \notin live'
  PROVE  SessionInv'
<1>1. SessionTypes /\ EpochsArePast
  BY DEF SessionInv
<1>2. PICK t : /\ TaskOK(t) /\ tasks' = [tasks EXCEPT ![g] = t]
               /\ t.op = tasks[g].op /\ t.at = "back" /\ t.call = tasks[g].call
               /\ t.epoch = tasks[g].epoch /\ t.sent = tasks[g].sent /\ t.reply = reply
               /\ t.cancelled = tasks[g].cancelled
  BY <1>1, RepliedTask
<1>3. /\ TaskOK(tasks[g]) /\ tasks[g].epoch \in Nat /\ tasks[g].epoch <= epoch /\ epoch \in Nat
      /\ cookie \in Sessions \cup {NoCookie} /\ live \subseteq Sessions
  BY <1>1 DEF SessionTypes, TaskOK, Task, EpochsArePast
<1>4. ~IsUnanswered(t)
  BY <1>2 DEF IsUnanswered
<1>5. tasks[g].op = "signOut" => tasks[g].call = "signOut"
  BY <1>3 DEF TaskOK, KnowsItsCall
<1>6. t.epoch <= epoch'
  BY <1>2, <1>3
<1>. QED
  BY <1>2, <1>3, <1>4, <1>5, <1>6, ServiceStepKeepsInv

LEMMA SignInAnswerKeepsInv ==
  ASSUME SessionInv, NEW g \in DOMAIN tasks, tasks[g].at = "wait", tasks[g].call = "signIn",
         live' = live \cup {Session(tasks[g].who, g)},
         cookie' = Persisted(Session(tasks[g].who, g), tasks[g].epoch),
         TaskReply(g, "ok", tasks[g].who, tasks[g].teams),
         UNCHANGED <<shown, identity, directory, saved, epoch>>
  PROVE  SessionInv'
<1>1. SessionTypes /\ EpochsArePast
  BY DEF SessionInv
<1>2. /\ TaskOK(tasks[g]) /\ tasks[g].epoch \in Nat /\ tasks[g].epoch <= epoch /\ epoch \in Nat
      /\ tasks[g].op = "signIn" /\ tasks[g].who \in Adults /\ tasks[g].teams \in SUBSET Teams
      /\ cookie \in Sessions \cup {NoCookie} /\ live \subseteq Sessions
      /\ g \in 0 .. MaxCalls
  BY <1>1, SessionAssumption DEF SessionTypes, TaskOK, Task, EpochsArePast, KnowsItsAdult, KnowsItsCall
<1>3. PICK t : /\ TaskOK(t) /\ tasks' = [tasks EXCEPT ![g] = t]
               /\ t.op = tasks[g].op /\ t.at = "back" /\ t.call = tasks[g].call
               /\ t.epoch = tasks[g].epoch /\ t.sent = tasks[g].sent /\ t.reply = "ok"
               /\ t.cancelled = tasks[g].cancelled
  BY <1>1, <1>2, RepliedTask
<1>4. PICK new \in Sessions : new = Session(tasks[g].who, g) /\ new.by = g
  BY <1>2 DEF Session, Sessions
<1>5. live' = live \cup {new} /\ (cookie' = cookie \/ (cookie' = new /\ tasks[g].epoch = epoch))
  BY <1>4 DEF Persisted
<1>6. IsUnanswered(tasks[g]) /\ ~IsUnanswered(t)
  BY <1>2, <1>3 DEF IsUnanswered
<1>7. \A s \in live' \cup ({cookie'} \ {NoCookie}) :
        s \in live \cup ({cookie} \ {NoCookie}) \/ s.by = g
  BY <1>4, <1>5
<1>8. \A s \in live' : s \in live \/ s.by = g
  BY <1>4, <1>5
<1>9. cookie' \in Sessions \cup {NoCookie} /\ live' \subseteq Sessions
  BY <1>2, <1>5
<1>10. epoch' \in Nat /\ epoch <= epoch' /\ t.epoch <= epoch'
  BY <1>2, <1>3
<1>. QED
  BY <1>2, <1>3, <1>5, <1>6, <1>7, <1>8, <1>9, <1>10, ServiceStepKeepsInv

LEMMA AnswerKeepsInv ==
  ASSUME SessionInv, NEW g \in DOMAIN tasks, Answer(g)
  PROVE  SessionInv'
<1>1. SessionTypes
  BY DEF SessionInv
<1>2. /\ TaskOK(tasks[g]) /\ tasks[g].at = "wait" /\ epoch \in Nat /\ live \subseteq Sessions
      /\ tasks[g].who \in Adults \cup {Nobody} /\ tasks[g].teams \in SUBSET Teams
      /\ tasks[g].call \in {"signIn", "teams", "roster"} => tasks[g].who \in Adults
      /\ tasks[g].op = "challenge" => tasks[g].call \in {"challenge", "none"}
  BY <1>1 DEF SessionTypes, TaskOK, Task, KnowsItsAdult, KnowsItsCall, Answer
<1>3. UNCHANGED <<shown, identity, directory, saved>>
  BY DEF Answer
<1>4. CASE /\ tasks[g].call = "signIn"
           /\ LET new == Session(tasks[g].who, g)
              IN live' = live \cup {new} /\ cookie' = Persisted(new, tasks[g].epoch)
           /\ TaskReply(g, "ok", tasks[g].who, tasks[g].teams) /\ UNCHANGED epoch
  BY <1>2, <1>3, <1>4, SignInAnswerKeepsInv
<1>5. CASE /\ tasks[g].call = "signOut"
           /\ live' = live \ {tasks[g].sent} /\ Clear(tasks[g].epoch)
           /\ TaskReply(g, IF tasks[g].reply = "kept" THEN "failed" ELSE "ok", tasks[g].who, tasks[g].teams)
  <2>1. PICK reply \in {"ok", "failed"} : reply = IF tasks[g].reply = "kept" THEN "failed" ELSE "ok"
    OBVIOUS
  <2>2. TaskReply(g, reply, tasks[g].who, tasks[g].teams)
    BY <1>5, <2>1
  <2>3. epoch' \in Nat /\ epoch <= epoch' /\ cookie' \in {NoCookie, cookie}
    BY <1>1, <1>5, ClearKeepsTypes
  <2>. QED
    BY <1>2, <1>3, <1>5, <2>2, <2>3, PlainAnswerKeepsInv
<1>6. CASE /\ tasks[g].call = "challenge" /\ TaskReply(g, "ok", tasks[g].who, {})
           /\ UNCHANGED <<live, cookie, epoch>>
  BY <1>2, <1>3, <1>6, PlainAnswerKeepsInv
<1>7. CASE /\ tasks[g].call \in {"session", "teams", "roster"} /\ tasks[g].sent \in live
           /\ \E list \in IF tasks[g].call = "teams" THEN Listings ELSE {tasks[g].teams} :
                TaskReply(g, "ok", IF tasks[g].call = "session" THEN tasks[g].sent.who
                                                            ELSE tasks[g].who, list)
           /\ UNCHANGED <<live, cookie, epoch>>
  <2>1. tasks[g].sent.who \in Adults
    BY <1>2, <1>7 DEF Sessions
  <2>2. PICK who \in Adults : who = IF tasks[g].call = "session" THEN tasks[g].sent.who ELSE tasks[g].who
    BY <1>2, <1>7, <2>1
  <2>3. PICK list \in SUBSET Teams : TaskReply(g, "ok", who, list)
    BY <1>2, <1>7, <2>2, SessionAssumption
  <2>. QED
    BY <1>2, <1>3, <1>7, <2>2, <2>3, PlainAnswerKeepsInv
<1>8. CASE Rejected(g)
  <2>1. /\ tasks[g].call \in {"signIn", "session", "teams", "roster"}
        /\ TaskReply(g, "unauthorized", tasks[g].who, tasks[g].teams) /\ live' = live
    BY <1>8 DEF Rejected
  <2>2. epoch' \in Nat /\ epoch <= epoch' /\ cookie' \in {NoCookie, cookie}
    BY <1>1, <1>8, ClearKeepsTypes DEF Rejected
  <2>. QED
    BY <1>2, <1>3, <2>1, <2>2, PlainAnswerKeepsInv
<1>9. CASE Fails(g)
  <2>1. /\ TaskReply(g, "failed", tasks[g].who, tasks[g].teams) /\ live' \subseteq live
        /\ UNCHANGED <<cookie, epoch>>
    BY <1>9 DEF Fails
  <2>. QED
    BY <1>2, <1>3, <2>1, PlainAnswerKeepsInv
<1>10. CASE CallCancelled(g)
  <2>1. /\ TaskReply(g, "cancelled", tasks[g].who, tasks[g].teams) /\ live' \subseteq live
        /\ UNCHANGED <<cookie, epoch>>
    BY <1>10 DEF CallCancelled
  <2>. QED
    BY <1>2, <1>3, <2>1, PlainAnswerKeepsInv
<1>. QED
  BY <1>4, <1>5, <1>6, <1>7, <1>8, <1>9, <1>10 DEF Answer, Succeeds

LEMMA SessionNextInv == SessionInv /\ [SessionNext]_sessionVars => SessionInv'
<1> SUFFICES ASSUME SessionInv, [SessionNext]_sessionVars PROVE SessionInv'
  OBVIOUS
<1>1. CASE Restore \/ Retry \/ SelectTeam \/ SelectSeason \/ SignOut \/ CompleteAppleSignIn
  BY <1>1, UserCallsKeepInv
<1>2. CASE BeginAppleSignIn
  BY <1>2, ChallengeKeepsInv
<1>3. CASE CancelCaller
  BY <1>3, CancelCallerKeepsInv
<1>4. CASE Expire
  BY <1>4, ExpireKeepsInv
<1>5. ASSUME NEW g \in DOMAIN tasks, Start(g) PROVE SessionInv'
  BY <1>5, StartKeepsInv
<1>6. ASSUME NEW g \in DOMAIN tasks, Stored(g) PROVE SessionInv'
  BY <1>6, StoredKeepsInv
<1>7. ASSUME NEW g \in DOMAIN tasks, ResumeTask(g) PROVE SessionInv'
  BY <1>7, ResumedKeepsInv
<1>8. ASSUME NEW g \in DOMAIN tasks, Send(g) PROVE SessionInv'
  BY <1>8, SendKeepsInv
<1>9. ASSUME NEW g \in DOMAIN tasks, ClearLocally(g) PROVE SessionInv'
  BY <1>9, ClearLocallyKeepsInv
<1>10. ASSUME NEW g \in DOMAIN tasks, Answer(g) PROVE SessionInv'
  BY <1>10, AnswerKeepsInv
<1>11. CASE UNCHANGED sessionVars
  BY <1>11 DEF sessionVars, SessionInv, SessionTypes, OlderAreCancelled, SessionsAreOfAnswers,
     SignOutProceeds, EpochsArePast, ChallengesShowNothing, ReadyIsTheNewestCalls
<1>. QED
  BY <1>1, <1>2, <1>3, <1>4, <1>5, <1>6, <1>7, <1>8, <1>9, <1>10, <1>11 DEF SessionNext

LEMMA SessionInvHolds == SessionSpec => []SessionInv
BY SessionInitInv, SessionNextInv, PTL DEF SessionSpec

\* When the newest call was a sign-out and the app has returned to the sign-in
\* form, the session left on the device, if any, is none the server accepts;
\* and a "ready" screen is of the newest call (SnackdayApplicationController,
\* SnackdayAPIClient, SessionCookieCoordinator).
THEOREM SessionsKeepTheirPromises ==
  SessionSpec => []SignedOutMeansNoSession /\ []ReadyIsTheNewestCalls
<1>1. SessionInv => SignedOutMeansNoSession /\ ReadyIsTheNewestCalls
  <2> SUFFICES ASSUME SessionInv, NEW g \in DOMAIN tasks, g = Len(tasks), tasks[g].op = "signOut",
                      shown.kind = "signedOut", tasks[g].at = "over"
               PROVE  cookie \notin live
    BY DEF SessionInv, SignedOutMeansNoSession
  <2>1. cookie \in {NoCookie, tasks[g].sent} /\ tasks[g].sent \notin live
    BY DEF SessionInv, SignOutProceeds
  <2>2. NoCookie \notin live
    BY SessionAssumption DEF SessionInv, SessionTypes, Sessions
  <2>. QED
    BY <2>1, <2>2
<1>. QED
  BY <1>1, SessionInvHolds, PTL

----------------------------------------------------------------------------
(* The app: each controller goes on while the other stands still.           *)

\* The app's behaviours are behaviours of its controllers (NativeAppViewModel).
THEOREM NativeIsItsControllers == NativeSpec => SessionSpec /\ CoordinationSpec
<1>1. NativeInit => SessionInit /\ CoordinationInit
  BY DEF NativeInit
<1>2. [NativeNext]_nativeVars => [SessionNext]_sessionVars /\ [CoordinationNext]_coordinationVars
  <2> SUFFICES ASSUME [NativeNext]_nativeVars
               PROVE  [SessionNext]_sessionVars /\ [CoordinationNext]_coordinationVars
    OBVIOUS
  <2>1. CASE UNCHANGED nativeVars
    BY <2>1 DEF nativeVars
  <2>2. CASE SessionNext /\ UNCHANGED <<coordinationVars, screen>>
    BY <2>2
  <2>3. CASE CoordinationNext /\ UNCHANGED <<sessionVars, screen>>
    BY <2>3
  <2>. QED
    BY <2>1, <2>2, <2>3 DEF NativeNext
<1>. QED
  BY <1>1, <1>2, PTL DEF NativeSpec, SessionSpec, CoordinationSpec

\* What the app shows is of the newest call of the user, each spinner has work
\* behind it, and a finished sign-out has left no session that is still good.
THEOREM NativeKeepsItsPromises ==
  NativeSpec => []NewestCallsAreShown /\ []SpinnersHaveWork /\ []SignedOutMeansNoSession
<1>1. ReadyIsTheNewestCalls /\ OwnChangesAreShown => NewestCallsAreShown
  BY DEF NewestCallsAreShown
<1>. QED
  BY <1>1, NativeIsItsControllers, SessionsKeepTheirPromises, CoordinationKeepsItsPromises, PTL
=============================================================================
