-------------------------- MODULE NativeCoordination --------------------------
(***************************************************************************)
(* The iOS app's schedule, event detail and edits                          *)
(* (SnackdayCoordinationController).  Loads and mutations are tasks that    *)
(* await the server and come back to the main actor whenever it answers.   *)
(* Four revisions tell a task whether what it was started for is still      *)
(* wanted; a task that is not wanted changes nothing, a wanted load that was *)
(* cancelled leaves its part of the state idle, or failed if it failed.      *)
(*                                                                          *)
(* The server's data are a stamp that every commit advances: what a load    *)
(* shows is the stamp at which the server read.                             *)
(***************************************************************************)
EXTENDS Naturals, FiniteSets

CONSTANTS Contexts, Occurrences, NoContext, NoOccurrence,
          MaxUses    \* bound on what the user does

ASSUME CoordinationAssumption == MaxUses \in Nat

VARIABLES context, schedule, selected, detail, mutation,
          revision,    \* of context, schedule, detail and mutation
          jobs,        \* the tasks that await the server or the main actor
          canceller,   \* the mutation cancelMutation would cancel, 0 if none
          stamp,       \* the server's commits
          acked,       \* for each occurrence, the last own change shown as done
          ackedEvents, \* the last own event shown as created in this context
          uses

coordinationVars == <<context, schedule, selected, detail, mutation, revision, jobs,
                      canceller, stamp, acked, ackedEvents, uses>>

IdlePart == [kind |-> "idle"]
Loading == [kind |-> "loading"]
Failed == [kind |-> "failed"]

\* What a cancelled load leaves of its part of the state.
AfterCancelBug(part) == part
AfterCancel(part) == IdlePart

Loads == {"schedule", "detail"}
Mutations == {"create", "change"}
Counters == Loads \cup {"context", "mutation"}
\* The revision a task compares itself with.
Counter(kind) == IF kind \in Loads THEN kind ELSE "mutation"

\* scheduleIsCurrent, detailIsCurrent and mutationIsCurrent.
IsWanted(j) ==
  /\ j.contextRevision = revision["context"] /\ j.context = context
  /\ j.revision = revision[Counter(j.kind)]
  /\ j.kind \in {"detail", "change"} => j.occurrence = selected

\* Every task has a number: a load that mutation n starts is n + MaxUses.
NewNumber == uses + 1
NewJob(n, kind, ctx, occurrence, parent) ==
  [n |-> n, kind |-> kind, context |-> ctx, occurrence |-> occurrence,
   revision |-> revision'[Counter(kind)], contextRevision |-> revision'["context"],
   parent |-> parent, at |-> "wait", reply |-> "none", stamp |-> 0, cancelled |-> FALSE]

Advance(counters) ==
  revision' = [c \in Counters |-> revision[c] + IF c \in counters THEN 1 ELSE 0]
\* A cancelled mutation passes its cancellation on to the load it awaits.
Without(doomed(_)) == {[j EXCEPT !.cancelled = @ \/ doomed(j)] : j \in jobs}
IsCancellable(j) == canceller # 0 /\ (j.n = canceller \/ j.parent = canceller)

Use == uses < MaxUses /\ uses' = uses + 1

----------------------------------------------------------------------------
(* What the user does.                                                      *)

\* cancelAllWork, and the state starts anew in another season or signed out.
Renew(ctx, newSchedule, newJobs) ==
  /\ Advance(Counters) /\ context' = ctx /\ schedule' = newSchedule
  /\ jobs' = Without(LAMBDA j : TRUE) \cup newJobs
  /\ selected' = NoOccurrence /\ detail' = IdlePart /\ mutation' = "idle"
  /\ canceller' = 0 /\ ackedEvents' = 0

SetContext(ctx) ==
  /\ Use /\ (ctx # context \/ ctx = NoContext)
  /\ IF ctx = NoContext THEN Renew(ctx, IdlePart, {})
     ELSE Renew(ctx, Loading, {NewJob(NewNumber, "schedule", ctx, NoOccurrence, 0)})
  /\ UNCHANGED <<stamp, acked>>

\* reloadSchedule up to its await.
LoadSchedule(n, parent) ==
  /\ Advance({"schedule"}) /\ schedule' = Loading
  /\ jobs' = Without(LAMBDA j : j.kind = "schedule")
               \cup {NewJob(n, "schedule", context, NoOccurrence, parent)}

ReloadSchedule ==
  /\ Use /\ context # NoContext /\ LoadSchedule(NewNumber, 0)
  /\ UNCHANGED <<context, selected, detail, mutation, canceller, stamp, acked, ackedEvents>>

\* An occurrence is opened, or with NoOccurrence closed.
OpenOccurrence(o) ==
  /\ Use /\ Advance({"detail", "mutation"})
  /\ selected' = IF context = NoContext THEN NoOccurrence ELSE o
  /\ mutation' = "idle" /\ canceller' = 0
  /\ detail' = IF selected' = NoOccurrence THEN IdlePart ELSE Loading
  /\ jobs' = Without(LAMBDA j : j.kind = "detail" \/ IsCancellable(j))
               \cup {NewJob(NewNumber, "detail", context, x, 0) : x \in {selected'} \ {NoOccurrence}}
  /\ UNCHANGED <<context, schedule, stamp, acked, ackedEvents>>

\* createEvent ("create"), and recordAttendance and claimDuty ("change").
Mutate(kind) ==
  /\ Use /\ context # NoContext /\ mutation # "saving"
  /\ kind = "change" => selected # NoOccurrence
  /\ Advance({"mutation"}) /\ mutation' = "saving" /\ canceller' = NewNumber
  /\ jobs' = jobs \cup {NewJob(NewNumber, kind, context, selected, 0)}
  /\ UNCHANGED <<context, schedule, selected, detail, stamp, acked, ackedEvents>>

\* The view that awaits a load disappears.  The views' mutations run in tasks of
\* their own, which no disappearing view cancels.
AbandonLoad ==
  /\ \E j \in jobs :
       /\ j.kind \in Loads /\ j.parent = 0 /\ ~j.cancelled
       /\ jobs' = Without(LAMBDA k : k = j)
  /\ UNCHANGED <<context, schedule, selected, detail, mutation, revision, canceller,
                 stamp, acked, ackedEvents, uses>>

----------------------------------------------------------------------------
(* The server.                                                              *)

\* A mutation commits, a load reads; the answer may be lost, be a refusal of
\* the session, or meet a task cancelled meanwhile.
Serve(j) ==
  /\ j.at = "wait"
  /\ \E reply \in {"ok", "failed", "unauthorized"} \cup (IF j.cancelled THEN {"cancelled"} ELSE {}) :
     \E commits \in BOOLEAN :
       /\ commits => j.kind \in Mutations /\ reply # "unauthorized"
       /\ (reply = "ok" /\ j.kind \in Mutations) => commits
       /\ stamp' = stamp + (IF commits THEN 1 ELSE 0)
       /\ jobs' = (jobs \ {j}) \cup {[j EXCEPT !.at = "back", !.reply = reply, !.stamp = stamp']}
  /\ UNCHANGED <<context, schedule, selected, detail, mutation, revision, canceller,
                 acked, ackedEvents, uses>>

----------------------------------------------------------------------------
(* The tasks, back on the main actor.                                       *)

Drop(j) == jobs' = jobs \ {j}

\* A task nobody wants any more; a created event is reported to its caller all
\* the same.
Ignored(j) ==
  /\ ~IsWanted(j) /\ Drop(j)
  /\ UNCHANGED <<context, schedule, selected, detail, mutation, revision, canceller,
                 acked, ackedEvents>>

\* The task's own request was cut off, or answered after the task was cancelled; a
\* failure that is not a cancellation is shown, of a cancelled task too.
WasCancelled(j) == j.reply = "cancelled" \/ (j.reply = "ok" /\ j.cancelled)
Arrived(j) == j.reply = "ok" /\ ~j.cancelled

ScheduleBack(j) ==
  /\ j.kind = "schedule" /\ j.reply # "unauthorized" /\ Drop(j)
  /\ schedule' = CASE WasCancelled(j) -> AfterCancel(schedule)
                   [] Arrived(j) ->
                        [kind |-> "loaded", of |-> j.context, stamp |-> j.stamp,
                         counts |-> [o \in Occurrences |-> j.stamp]]
                   [] OTHER -> Failed
  /\ UNCHANGED <<context, selected, detail, mutation, revision, canceller, acked, ackedEvents>>

\* A loaded detail also corrects the counts of a loaded schedule.
DetailBack(j) ==
  /\ j.kind = "detail" /\ j.reply # "unauthorized" /\ Drop(j)
  /\ detail' = CASE WasCancelled(j) -> AfterCancel(detail)
                 [] Arrived(j) -> [kind |-> "loaded", of |-> j.occurrence, stamp |-> j.stamp]
                 [] OTHER -> Failed
  /\ schedule' = IF Arrived(j) /\ schedule.kind = "loaded"
                 THEN [schedule EXCEPT !.counts[j.occurrence] = j.stamp] ELSE schedule
  /\ UNCHANGED <<context, selected, mutation, revision, canceller, acked, ackedEvents>>

CreateBack(j) ==
  /\ j.kind = "create" /\ j.reply = "ok"
  /\ mutation' = "idle" /\ ackedEvents' = j.stamp
  /\ Advance({"schedule"}) /\ schedule' = Loading
  /\ jobs' = (Without(LAMBDA k : k.kind = "schedule") \ {j})
               \cup {NewJob(j.n + MaxUses, "schedule", context, NoOccurrence, j.n)}
  /\ UNCHANGED <<context, selected, detail, canceller, acked>>

ChangeBack(j) ==
  /\ j.kind = "change" /\ j.reply = "ok"
  /\ mutation' = "idle" /\ acked' = [acked EXCEPT ![j.occurrence] = j.stamp]
  /\ Advance({"detail"}) /\ detail' = Loading
  /\ jobs' = (Without(LAMBDA k : k.kind = "detail") \ {j})
               \cup {NewJob(j.n + MaxUses, "detail", context, j.occurrence, j.n)}
  /\ UNCHANGED <<context, schedule, selected, canceller, ackedEvents>>

MutationFails(j) ==
  /\ j.kind \in Mutations /\ j.reply \in {"failed", "cancelled"} /\ Drop(j)
  /\ mutation' = IF j.reply = "cancelled" THEN "idle" ELSE "failed"
  /\ UNCHANGED <<context, schedule, selected, detail, revision, canceller, acked, ackedEvents>>

\* invalidateForUnauthorized
Invalidate(j) ==
  /\ j.reply = "unauthorized"
  /\ Advance(Counters) /\ jobs' = Without(LAMBDA k : TRUE) \ {j}
  /\ context' = NoContext /\ schedule' = Failed /\ selected' = NoOccurrence
  /\ detail' = IdlePart /\ mutation' = "idle" /\ canceller' = 0 /\ ackedEvents' = 0
  /\ UNCHANGED acked

ResumeJob(j) ==
  /\ j.at = "back"
  /\ \/ Ignored(j)
     \/ IsWanted(j) /\ (\/ ScheduleBack(j) \/ DetailBack(j) \/ CreateBack(j) \/ ChangeBack(j)
                        \/ MutationFails(j) \/ Invalidate(j))
  /\ UNCHANGED <<stamp, uses>>

----------------------------------------------------------------------------
CoordinationInit ==
  /\ context = NoContext /\ schedule = IdlePart /\ selected = NoOccurrence /\ detail = IdlePart
  /\ mutation = "idle" /\ revision = [c \in Counters |-> 0] /\ jobs = {} /\ canceller = 0
  /\ stamp = 0 /\ acked = [o \in Occurrences |-> 0] /\ ackedEvents = 0 /\ uses = 0

CoordinationNext ==
  \/ \E ctx \in Contexts \cup {NoContext} : SetContext(ctx)
  \/ \E o \in Occurrences \cup {NoOccurrence} : OpenOccurrence(o)
  \/ ReloadSchedule \/ AbandonLoad
  \/ \E kind \in Mutations : Mutate(kind)
  \/ \E j \in jobs : Serve(j) \/ ResumeJob(j)

CoordinationSpec == CoordinationInit /\ [][CoordinationNext]_coordinationVars

----------------------------------------------------------------------------
\* What is loaded is of the selected season and the open occurrence, and is no
\* older than the user's own changes to them that the app reported as done:
\* late answers to replaced loads are never shown.
OwnChangesAreShown ==
  /\ schedule.kind = "loaded" => schedule.of = context /\ schedule.stamp >= ackedEvents
  /\ detail.kind = "loaded" => detail.of = selected /\ detail.stamp >= acked[selected]

\* Whatever is shown as loading or saving has a task under way that will end
\* it: no path through errors, cancellations and replaced tasks strands it.
SpinnersHaveWork ==
  /\ schedule.kind = "loading" => \E j \in jobs : j.kind = "schedule" /\ IsWanted(j)
  /\ detail.kind = "loading" => \E j \in jobs : j.kind = "detail" /\ IsWanted(j)
  /\ mutation = "saving" => \E j \in jobs : j.kind \in Mutations /\ IsWanted(j)
=============================================================================
