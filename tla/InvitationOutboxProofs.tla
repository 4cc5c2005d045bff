----------------------- MODULE InvitationOutboxProofs -----------------------
(***************************************************************************)
(* The outbox, for any number of invitations, passes, workers, crashes and *)
(* attempts: what its rows say is true, and with one worker the newest     *)
(* message about an invitation carries the working link.                   *)
(***************************************************************************)
EXTENDS InvitationOutbox, TLAPS

----------------------------------------------------------------------------
(* The inductive invariant *)

\* A job has attempts left while it may be run, and a finished one counts anew.
Counted ==
  \A j \in Jobs :
    /\ job[j] = "ready" => tries[j] < MaxAttempts
    /\ job[j] \in Finished => tries[j] = 0

\* A worker runs one running job, and no two run the same.
Claimed ==
  /\ \A w \in Workers : workAt[w] # "idle" => workOn[w] \in Jobs /\ job[workOn[w]] = "running"
  /\ \A w \in Workers : workAt[w] = "idle" => workOn[w] = None
  /\ \A v, w \in Workers : workAt[v] # "idle" /\ workOn[v] = workOn[w] => v = w

\* Nothing is known of a token that was never issued.
Known ==
  \A t \in Tokens \ issued :
    /\ box[t] = "none" /\ ~queued[t]
    /\ \A c \in Copies : job[<<t, c>>] = "none"
    /\ \A p \in Passes : t \notin todo[p] /\ enqueued[p] # t

\* A row's marks, and a pass's and a worker's marks under way, are true.
HasJob(t) == \E c \in Copies : job[<<t, c>>] # "none"
Marked ==
  /\ \A t \in Tokens : queued[t] /\ box[t] = "pending" => HasJob(t)
  /\ \A p \in Passes, t \in Tokens : enqueued[p] = t /\ box[t] = "pending" => HasJob(t)
  /\ \A t \in Tokens : box[t] = "delivered" => t \in sent
  /\ \A w \in Workers : workAt[w] = "mark" => RowAt(w) \in sent

OutboxInv == TypeOK /\ Counted /\ Claimed /\ Known /\ Marked

LEMMA JobParts ==
  ASSUME NEW j \in Jobs
  PROVE  /\ RowOfJob(j) \in Tokens
         /\ \E c \in Copies : j = <<RowOfJob(j), c>>
BY DEF Jobs, RowOfJob

LEMMA JobsAre ==
  ASSUME NEW t \in Tokens, NEW c \in Copies
  PROVE  <<t, c>> \in Jobs /\ RowOfJob(<<t, c>>) = t
BY DEF Jobs, RowOfJob

LEMMA NoJobIsNone == None \notin Jobs /\ None \notin Tokens
BY OutboxConstantsOK DEF Jobs

\* The marks only look at whether a row has a job.
LEMMA HasJobIs ==
  ASSUME TypeOK, NEW t \in Tokens
  PROVE  HasJob(t) <=> JobStates(t) \cap {"ready", "running", "dead"} # {}
<1>1. ASSUME NEW j \in Jobs PROVE job[j] \in {"none", "ready", "running", "dead"}
  BY DEF TypeOK
<1>2. \A c \in Copies : job[<<t, c>>] \in {"none", "ready", "running", "dead"}
  BY <1>1, JobsAre
<1>3. JobStates(t) \cap {"ready", "running", "dead"} # {} <=>
        \E c \in Copies : job[<<t, c>>] \in {"ready", "running", "dead"}
  BY DEF JobStates
<1>. QED  BY <1>2, <1>3 DEF HasJob

LEMMA InitInv == OutboxInit => OutboxInv
<1> SUFFICES ASSUME OutboxInit PROVE OutboxInv
  OBVIOUS
<1>1. TypeOK
  <2>1. RowsOK
    BY DEF OutboxInit, Init, RowsOK, Statuses
  <2>2. rowOf \in [Tokens -> Invites]
    BY DEF OutboxInit
  <2>3. 0 \in 0..MaxAttempts /\ 0 \in 0..MaxCrashes
    BY OutboxConstantsOK
  <2>. QED
    BY <2>1, <2>2, <2>3 DEF OutboxInit, TypeOK
<1>2. Counted
  BY OutboxConstantsOK DEF OutboxInit, Counted
<1>3. Claimed
  BY DEF OutboxInit, Claimed
<1>4. Known
  BY JobsAre, NoJobIsNone DEF OutboxInit, Known
<1>5. Marked
  BY DEF OutboxInit, Marked
<1>. QED  BY <1>1, <1>2, <1>3, <1>4, <1>5 DEF OutboxInv

----------------------------------------------------------------------------
(* Requests *)

LEMMA StoreTyped ==
  ASSUME RowsOK, NEW i \in Invites, NEW t \in Tokens, Open(i, t) \/ Rotate(i, t)
  PROVE  /\ RowsOK'
         /\ t \notin issued /\ issued' = issued \cup {t}
         /\ token' = [token EXCEPT ![i] = t] /\ live' = [live EXCEPT ![i] = TRUE]
<1>1. /\ t \notin issued /\ issued' = issued \cup {t}
      /\ token' = [token EXCEPT ![i] = t] /\ live' = [live EXCEPT ![i] = TRUE]
      /\ acceptedBy' = acceptedBy
  BY DEF Open, Rotate, Store
<1>2. status' \in [Invites -> Statuses]
  BY DEF RowsOK, Open, Rotate, Statuses
<1>3. token' \in [Invites -> Tokens \cup {NoToken}] /\ live' \in [Invites -> BOOLEAN]
  BY <1>1 DEF RowsOK
<1>. QED
  BY <1>1, <1>2, <1>3 DEF RowsOK

LEMMA PersistIs ==
  ASSUME TypeOK, NEW i \in Invites, Persist(i)
  PROVE  \E t \in Tokens \ issued :
           /\ Open(i, t) \/ Rotate(i, t)
           /\ box' = [box EXCEPT ![t] = "pending"]
           /\ rowOf' = [rowOf EXCEPT ![t] = i]
<1>1. \E t \in Tokens : t \notin issued
  BY DEF Persist, TypeOK, RowsOK
<1>. QED  BY <1>1 DEF Persist

LEMMA PersistInv ==
  ASSUME OutboxInv, NEW i \in Invites, Persist(i)
  PROVE  OutboxInv'
<1>1. PICK t \in Tokens \ issued :
        /\ Open(i, t) \/ Rotate(i, t)
        /\ box' = [box EXCEPT ![t] = "pending"]
        /\ rowOf' = [rowOf EXCEPT ![t] = i]
  BY PersistIs DEF OutboxInv
<1>2. RowsOK' /\ issued' = issued \cup {t}
  BY <1>1, StoreTyped DEF OutboxInv, TypeOK
<1>3. /\ UNCHANGED <<queued, queue, provider, todo, enqueued, stalled, workers, process>>
      /\ owed' = TRUE
  BY DEF Persist
<1>4. TypeOK'
  BY <1>1, <1>2, <1>3 DEF OutboxInv, TypeOK, queue, provider, workers, process
<1>5. Counted' /\ Claimed'
  BY <1>3 DEF OutboxInv, Counted, Claimed, queue, workers
<1>6. Known'
  BY <1>1, <1>2, <1>3 DEF OutboxInv, Known, TypeOK, queue
<1>7. Marked'
  BY <1>1, <1>2, <1>3 DEF OutboxInv, Marked, Known, HasJob, TypeOK, RowAt, queue, provider, workers
<1>. QED  BY <1>4, <1>5, <1>6, <1>7 DEF OutboxInv

LEMMA SettleRows ==
  ASSUME RowsOK, NEW i \in Invites, Settle(i)
  PROVE  RowsOK' /\ issued' = issued /\ token' = token
<1>1. CASE Revoke(i)
  BY <1>1 DEF Revoke, RowsOK, Statuses
<1>2. CASE Expire(i)
  BY <1>2 DEF Expire, RowsOK
<1>3. ASSUME NEW p \in Adults, Accept(i, p) PROVE RowsOK' /\ issued' = issued /\ token' = token
  BY <1>3 DEF Accept, RowsOK, Statuses
<1>. QED  BY <1>1, <1>2, <1>3 DEF Settle

LEMMA SettleInv ==
  ASSUME OutboxInv, NEW i \in Invites, Settle(i)
  PROVE  OutboxInv'
<1>1. RowsOK' /\ issued' = issued
  BY SettleRows DEF OutboxInv, TypeOK
<1>2. UNCHANGED <<rows, queue, provider, scheduler, workers, process>>
  BY DEF Settle
<1>. QED
  BY <1>1, <1>2 DEF OutboxInv, TypeOK, Counted, Claimed, Known, Marked, HasJob, RowAt,
     rows, queue, provider, scheduler, workers, process

----------------------------------------------------------------------------
(* Scheduling passes *)

LEMMA StartPassInv ==
  ASSUME OutboxInv, NEW p \in Passes, StartPass(p)
  PROVE  OutboxInv'
<1>1. /\ todo' = [todo EXCEPT ![p] = Unqueued] /\ owed' = FALSE /\ stalled' = FALSE
      /\ UNCHANGED <<invitationRows, rows, queue, provider, enqueued, workers, process>>
  BY DEF StartPass
<1>2. Unqueued \subseteq Tokens /\ \A t \in Tokens \ issued : t \notin Unqueued
  BY DEF Unqueued, OutboxInv, Known
<1>3. todo' \in [Passes -> SUBSET Tokens]
  BY <1>1, <1>2 DEF OutboxInv, TypeOK
<1>4. TypeOK'
  BY <1>1, <1>3 DEF OutboxInv, TypeOK, RowsOK, invitationRows, rows, queue, provider,
     workers, process
<1>5. Known'
  BY <1>1, <1>2 DEF OutboxInv, Known, TypeOK, invitationRows, rows, queue
<1>6. Counted' /\ Claimed' /\ Marked'
  BY <1>1 DEF OutboxInv, Counted, Claimed, Marked, HasJob, RowAt, rows, queue, provider, workers
<1>. QED  BY <1>4, <1>5, <1>6 DEF OutboxInv

LEMMA PlaceIs ==
  ASSUME NEW t \in Tokens
  PROVE  Place(t) \in Copies
<1>1. CASE \E c \in Copies : job[<<t, c>>] \in Finished
  BY <1>1 DEF Place
<1>2. CASE ~\E c \in Copies : job[<<t, c>>] \in Finished
  BY <1>2, OutboxConstantsOK DEF Place
<1>. QED  BY <1>1, <1>2

LEMMA EnqueueInv ==
  ASSUME OutboxInv, NEW p \in Passes, Enqueue(p)
  PROVE  OutboxInv'
<1>1. PICK t \in todo[p] :
        /\ job[<<t, Place(t)>>] \in Finished
        /\ todo' = [todo EXCEPT ![p] = @ \ {t}]
        /\ enqueued' = [enqueued EXCEPT ![p] = t]
        /\ job' = [job EXCEPT ![<<t, Place(t)>>] = "ready"]
  BY DEF Enqueue
<1>2. UNCHANGED <<invitationRows, rows, tries, provider, owed, stalled, workers, process>>
  BY DEF Enqueue
<1>3. t \in Tokens /\ t \in issued
  BY DEF OutboxInv, TypeOK, Known
<1>4. PICK c \in Copies : c = Place(t)
  BY <1>3, PlaceIs
<1> DEFINE j == <<t, c>>
<1>5. j \in Jobs /\ RowOfJob(j) = t
  BY <1>3, JobsAre
<1>6. /\ job' \in [Jobs -> {"none", "ready", "running", "dead"}]
      /\ job[j] \in Finished /\ job'[j] = "ready"
      /\ \A k \in Jobs \ {j} : job'[k] = job[k]
  <2>. HIDE DEF j
  <2>1. job[j] \in Finished /\ job' = [job EXCEPT ![j] = "ready"]
    BY <1>1, <1>4 DEF j
  <2>. QED  BY <1>5, <2>1 DEF OutboxInv, TypeOK
<1>7. /\ todo' \in [Passes -> SUBSET Tokens] /\ enqueued' \in [Passes -> Tokens \cup {None}]
      /\ \A q \in Passes : todo'[q] \subseteq todo[q]
      /\ \A q \in Passes \ {p} : enqueued'[q] = enqueued[q]
      /\ enqueued'[p] = t
  BY <1>1, <1>3 DEF OutboxInv, TypeOK
<1>8. TypeOK'
  <2>. HIDE DEF j
  <2>. QED
    BY <1>2, <1>6, <1>7 DEF OutboxInv, TypeOK, RowsOK, invitationRows, rows, provider,
       workers, process
<1>9. Counted'
  <2>. HIDE DEF j
  <2>. QED
    BY <1>2, <1>5, <1>6, OutboxConstantsOK DEF OutboxInv, Counted, Finished
<1>10. Claimed'
  <2>. HIDE DEF j
  <2>. QED
    BY <1>2, <1>6 DEF OutboxInv, Claimed, Finished, workers
<1>11. \A u \in Tokens, d \in Copies :
         job'[<<u, d>>] = job[<<u, d>>] \/ (u = t /\ job'[<<u, d>>] # "none")
  <2> SUFFICES ASSUME NEW u \in Tokens, NEW d \in Copies
               PROVE  job'[<<u, d>>] = job[<<u, d>>] \/ (u = t /\ job'[<<u, d>>] # "none")
    OBVIOUS
  <2>1. CASE u = t /\ d = c
    BY <1>6, <2>1
  <2>2. CASE ~(u = t /\ d = c)
    BY <1>6, <2>2, JobsAre
  <2>. QED  BY <2>1, <2>2
<1>12. HasJob(t)' /\ \A u \in Tokens : HasJob(u) => HasJob(u)'
  BY <1>6, <1>11 DEF HasJob
<1>. HIDE DEF j
<1>13. Known'
  BY <1>2, <1>3, <1>7, <1>11 DEF OutboxInv, Known, invitationRows, rows
<1>14. Marked'
  BY <1>2, <1>7, <1>12 DEF OutboxInv, Marked, RowAt, rows, provider, workers
<1>. QED  BY <1>8, <1>9, <1>10, <1>13, <1>14 DEF OutboxInv

LEMMA MarkQueuedInv ==
  ASSUME OutboxInv, NEW p \in Passes, MarkQueued(p)
  PROVE  OutboxInv'
<1>1. /\ enqueued[p] # None
      /\ queued' = [queued EXCEPT ![enqueued[p]] = TRUE]
      /\ enqueued' = [enqueued EXCEPT ![p] = None]
      /\ UNCHANGED <<invitationRows, box, rowOf, queue, provider, todo, owed, stalled,
                     workers, process>>
  BY DEF MarkQueued
<1>2. enqueued[p] \in Tokens /\ enqueued[p] \in issued
  BY <1>1 DEF OutboxInv, TypeOK, Known
<1>3. TypeOK'
  BY <1>1, <1>2 DEF OutboxInv, TypeOK, RowsOK, invitationRows, queue, provider, workers, process
<1>4. Counted' /\ Claimed'
  BY <1>1 DEF OutboxInv, Counted, Claimed, queue, workers
<1>5. Known'
  BY <1>1, <1>2, NoJobIsNone DEF OutboxInv, Known, TypeOK, invitationRows, queue
<1>6. Marked'
  <2>1. (\A t \in Tokens : HasJob(t)' <=> HasJob(t)) /\ (\A w \in Workers : RowAt(w)' = RowAt(w))
    BY <1>1 DEF HasJob, RowAt, queue, workers
  <2>2. \A q \in Passes, t \in Tokens : enqueued'[q] = t => enqueued[q] = t
    BY <1>1, NoJobIsNone DEF OutboxInv, TypeOK
  <2>3. \A t \in Tokens : queued'[t] => queued[t] \/ enqueued[p] = t
    BY <1>1 DEF OutboxInv, TypeOK
  <2>4. UNCHANGED <<box, sent, workAt>>
    BY <1>1 DEF provider, workers
  <2>. QED
    BY <2>1, <2>2, <2>3, <2>4 DEF OutboxInv, Marked
<1>. QED  BY <1>3, <1>4, <1>5, <1>6 DEF OutboxInv

LEMMA FailPassInv ==
  ASSUME OutboxInv, NEW p \in Passes, FailPass(p)
  PROVE  OutboxInv'
<1>1. /\ todo' = [todo EXCEPT ![p] = {}] /\ enqueued' = [enqueued EXCEPT ![p] = None]
      /\ stalled' = TRUE
      /\ UNCHANGED <<invitationRows, rows, queue, provider, owed, workers, process>>
  BY DEF FailPass
<1>2. TypeOK'
  BY <1>1 DEF OutboxInv, TypeOK, RowsOK, invitationRows, rows, queue, provider, workers, process
<1>3. Counted' /\ Claimed'
  BY <1>1 DEF OutboxInv, Counted, Claimed, queue, workers
<1>4. Known'
  BY <1>1, NoJobIsNone DEF OutboxInv, Known, TypeOK, invitationRows, rows, queue
<1>5. Marked'
  <2>1. (\A t \in Tokens : HasJob(t)' <=> HasJob(t)) /\ (\A w \in Workers : RowAt(w)' = RowAt(w))
    BY <1>1 DEF HasJob, RowAt, queue, workers
  <2>2. \A q \in Passes, t \in Tokens : enqueued'[q] = t => enqueued[q] = t
    BY <1>1, NoJobIsNone DEF OutboxInv, TypeOK
  <2>3. UNCHANGED <<box, queued, sent, workAt>>
    BY <1>1 DEF rows, provider, workers
  <2>. QED
    BY <2>1, <2>2, <2>3 DEF OutboxInv, Marked
<1>. QED  BY <1>2, <1>3, <1>4, <1>5 DEF OutboxInv

----------------------------------------------------------------------------
(* The queue and its workers *)

LEMMA ClaimInv ==
  ASSUME OutboxInv, NEW w \in Workers, Claim(w)
  PROVE  OutboxInv'
<1>1. PICK j \in Jobs :
        /\ job[j] = "ready"
        /\ job' = [job EXCEPT ![j] = "running"]
        /\ tries' = [tries EXCEPT ![j] = tries[j] + 1]
        /\ workOn' = [workOn EXCEPT ![w] = j]
  BY DEF Claim
<1>2. /\ workAt[w] = "idle" /\ workAt' = [workAt EXCEPT ![w] = "row"]
      /\ UNCHANGED <<invitationRows, rows, provider, scheduler, process>>
  BY DEF Claim
<1>3. tries[j] \in 0..MaxAttempts /\ tries[j] < MaxAttempts /\ MaxAttempts \in Nat
  BY <1>1, OutboxConstantsOK DEF OutboxInv, TypeOK, Counted
<1>4. tries[j] + 1 \in 0..MaxAttempts
  BY <1>3
<1>5. /\ job' \in [Jobs -> {"none", "ready", "running", "dead"}]
      /\ job'[j] = "running" /\ \A k \in Jobs \ {j} : job'[k] = job[k]
      /\ tries' \in [Jobs -> 0..MaxAttempts]
      /\ \A k \in Jobs \ {j} : tries'[k] = tries[k]
      /\ workOn' \in [Workers -> Jobs \cup {None}]
      /\ workOn'[w] = j /\ \A v \in Workers \ {w} : workOn'[v] = workOn[v]
      /\ workAt' \in [Workers -> {"idle", "row", "invitation", "send", "mark"}]
      /\ workAt'[w] = "row" /\ \A v \in Workers \ {w} : workAt'[v] = workAt[v]
  BY <1>1, <1>2, <1>4 DEF OutboxInv, TypeOK
<1>6. TypeOK'
  BY <1>2, <1>5 DEF OutboxInv, TypeOK, RowsOK, invitationRows, rows, provider, scheduler, process
<1>7. Counted'
  BY <1>5 DEF OutboxInv, Counted, Finished
<1>8. Claimed'
  BY <1>1, <1>2, <1>5, NoJobIsNone DEF OutboxInv, Claimed
<1>9. \A t \in Tokens, c \in Copies : job'[<<t, c>>] = "none" <=> job[<<t, c>>] = "none"
  <2>1. \A k \in Jobs : job'[k] = "none" <=> job[k] = "none"
    BY <1>1, <1>5
  <2>. QED  BY <2>1, JobsAre
<1>10. Known'
  BY <1>2, <1>9 DEF OutboxInv, Known, invitationRows, rows, scheduler
<1>11. Marked'
  BY <1>2, <1>5, <1>9 DEF OutboxInv, Marked, HasJob, RowAt, rows, provider, scheduler
<1>. QED  BY <1>6, <1>7, <1>8, <1>10, <1>11 DEF OutboxInv

\* A worker that runs a job runs one of an issued row.
LEMMA WorkingOn ==
  ASSUME OutboxInv, NEW w \in Workers, workAt[w] # "idle"
  PROVE  /\ workOn[w] \in Jobs /\ job[workOn[w]] = "running"
         /\ RowAt(w) \in Tokens /\ RowAt(w) \in issued
         /\ \E c \in Copies : workOn[w] = <<RowAt(w), c>>
<1>1. workOn[w] \in Jobs /\ job[workOn[w]] = "running"
  BY DEF OutboxInv, Claimed
<1>2. RowAt(w) \in Tokens /\ \E c \in Copies : workOn[w] = <<RowAt(w), c>>
  BY <1>1, JobParts DEF RowAt
<1>3. RowAt(w) \in issued
  BY <1>1, <1>2 DEF OutboxInv, Known
<1>. QED  BY <1>1, <1>2, <1>3

\* Reading on changes where the worker stands and nothing else of the queue.
LEMMA GoOnInv ==
  ASSUME OutboxInv, NEW w \in Workers, workAt[w] # "idle",
         NEW place \in {"invitation", "send", "mark"}, GoOn(w, place),
         UNCHANGED <<invitationRows, rows, scheduler, process>>,
         sent \subseteq sent', sent' \subseteq Tokens,
         newest' \in [Invites -> Tokens \cup {None}],
         place = "mark" => RowAt(w) \in sent'
  PROVE  OutboxInv'
<1>1. /\ workAt' = [workAt EXCEPT ![w] = place]
      /\ UNCHANGED <<workOn, queue>>
  BY DEF GoOn
<1>2. /\ workAt' \in [Workers -> {"idle", "row", "invitation", "send", "mark"}]
      /\ workAt'[w] = place /\ \A v \in Workers \ {w} : workAt'[v] = workAt[v]
  BY <1>1 DEF OutboxInv, TypeOK
<1>3. TypeOK'
  BY <1>1, <1>2 DEF OutboxInv, TypeOK, RowsOK, invitationRows, rows, queue, scheduler, process
<1>4. Counted'
  BY <1>1 DEF OutboxInv, Counted, queue
<1>5. Claimed'
  BY <1>1, <1>2 DEF OutboxInv, Claimed, queue
<1>6. Known'
  BY <1>1 DEF OutboxInv, Known, invitationRows, rows, queue, scheduler
<1>7. Marked'
  BY <1>1, <1>2 DEF OutboxInv, Marked, HasJob, RowAt, rows, queue, scheduler
<1>. QED  BY <1>3, <1>4, <1>5, <1>6, <1>7 DEF OutboxInv

LEMMA AfterFailureIs ==
  ASSUME TypeOK, NEW j \in Jobs, NEW permanent \in BOOLEAN
  PROVE  /\ AfterFailure(j, permanent) \in {"ready", "dead"}
         /\ AfterFailure(j, permanent) = "ready" => tries[j] < MaxAttempts
<1>1. tries[j] \in Nat /\ MaxAttempts \in Nat
  BY OutboxConstantsOK DEF TypeOK
<1>. QED  BY <1>1 DEF AfterFailure

\* What leaving does to the queue: the job is in its new state, and counts
\* anew when that is a final one.
LEMMA LeaveIs ==
  ASSUME OutboxInv, NEW w \in Workers, workAt[w] # "idle",
         NEW state \in {"none", "ready", "dead"}, Leave(w, state),
         state = "ready" => tries[workOn[w]] < MaxAttempts
  PROVE  /\ job' \in [Jobs -> {"none", "ready", "running", "dead"}]
         /\ tries' \in [Jobs -> 0..MaxAttempts]
         /\ workAt' \in [Workers -> {"idle", "row", "invitation", "send", "mark"}]
         /\ workOn' \in [Workers -> Jobs \cup {None}]
         /\ job'[workOn[w]] = state
         /\ \A k \in Jobs \ {workOn[w]} : job'[k] = job[k]
         /\ workAt'[w] = "idle" /\ \A v \in Workers \ {w} : workAt'[v] = workAt[v]
         /\ workOn'[w] = None /\ \A v \in Workers \ {w} : workOn'[v] = workOn[v]
         /\ Counted' /\ Claimed'
<1>1. PICK j \in Jobs : j = workOn[w]
  BY WorkingOn
<1>2. /\ job' = [job EXCEPT ![j] = state]
      /\ tries' = [tries EXCEPT ![j] = IF state \in Finished THEN 0 ELSE tries[j]]
      /\ workAt' = [workAt EXCEPT ![w] = "idle"]
      /\ workOn' = [workOn EXCEPT ![w] = None]
  BY <1>1 DEF Leave
<1>3. tries[j] \in 0..MaxAttempts /\ 0 \in 0..MaxAttempts
  BY OutboxConstantsOK DEF OutboxInv, TypeOK
<1>4. /\ job' \in [Jobs -> {"none", "ready", "running", "dead"}]
      /\ job'[j] = state /\ \A k \in Jobs \ {j} : job'[k] = job[k]
      /\ tries' \in [Jobs -> 0..MaxAttempts]
      /\ tries'[j] = (IF state \in Finished THEN 0 ELSE tries[j])
      /\ \A k \in Jobs \ {j} : tries'[k] = tries[k]
  BY <1>2, <1>3 DEF OutboxInv, TypeOK
<1>5. /\ workAt' \in [Workers -> {"idle", "row", "invitation", "send", "mark"}]
      /\ workAt'[w] = "idle" /\ \A v \in Workers \ {w} : workAt'[v] = workAt[v]
      /\ workOn' \in [Workers -> Jobs \cup {None}]
      /\ workOn'[w] = None /\ \A v \in Workers \ {w} : workOn'[v] = workOn[v]
  BY <1>2 DEF OutboxInv, TypeOK
<1>6. Counted'
  BY <1>1, <1>4 DEF OutboxInv, Counted, Finished
<1>7. Claimed'
  <2>1. \A v \in Workers : workAt'[v] # "idle" =>
          /\ v # w /\ workAt[v] # "idle" /\ workOn'[v] = workOn[v] /\ workOn[v] # j
          /\ workOn[v] \in Jobs /\ job'[workOn[v]] = "running"
    BY <1>1, <1>4, <1>5 DEF OutboxInv, Claimed
  <2>2. \A v \in Workers : workAt'[v] = "idle" => workOn'[v] = None
    BY <1>5 DEF OutboxInv, Claimed
  <2>3. \A v, u \in Workers : workAt'[v] # "idle" /\ workOn'[v] = workOn'[u] => v = u
    BY <1>5, <2>1, NoJobIsNone DEF OutboxInv, Claimed
  <2>. QED  BY <2>1, <2>2, <2>3 DEF Claimed
<1>. QED  BY <1>1, <1>4, <1>5, <1>6, <1>7

\* A worker may leave a row without a job only once it is not pending.
LEMMA LeaveInv ==
  ASSUME OutboxInv, NEW w \in Workers, workAt[w] # "idle",
         NEW state \in {"none", "ready", "dead"}, Leave(w, state),
         state = "ready" => tries[workOn[w]] < MaxAttempts,
         UNCHANGED <<invitationRows, queued, rowOf, scheduler, process>>,
         box' \in [Tokens -> {"none", "pending", "cancelled", "delivered"}],
         \A t \in Tokens : box'[t] # box[t] => t = RowAt(w) /\ box'[t] # "pending",
         box'[RowAt(w)] = "delivered" => RowAt(w) \in sent',
         state = "none" => box'[RowAt(w)] # "pending",
         sent \subseteq sent', sent' \subseteq Tokens,
         newest' \in [Invites -> Tokens \cup {None}]
  PROVE  OutboxInv'
<1>1. /\ job' \in [Jobs -> {"none", "ready", "running", "dead"}]
      /\ tries' \in [Jobs -> 0..MaxAttempts]
      /\ workAt' \in [Workers -> {"idle", "row", "invitation", "send", "mark"}]
      /\ workOn' \in [Workers -> Jobs \cup {None}]
      /\ job'[workOn[w]] = state
      /\ \A k \in Jobs \ {workOn[w]} : job'[k] = job[k]
      /\ workAt'[w] = "idle" /\ \A v \in Workers \ {w} : workAt'[v] = workAt[v]
      /\ workOn'[w] = None /\ \A v \in Workers \ {w} : workOn'[v] = workOn[v]
      /\ Counted' /\ Claimed'
  BY LeaveIs
<1>2. TypeOK'
  BY <1>1 DEF OutboxInv, TypeOK, RowsOK, invitationRows, scheduler, process
<1>3. RowAt(w) \in Tokens /\ RowAt(w) \in issued
  BY WorkingOn
<1>4. \A t \in Tokens \ {RowAt(w)}, c \in Copies : job'[<<t, c>>] = job[<<t, c>>]
  <2> SUFFICES ASSUME NEW t \in Tokens \ {RowAt(w)}, NEW c \in Copies
               PROVE  job'[<<t, c>>] = job[<<t, c>>]
    OBVIOUS
  <2>1. <<t, c>> \in Jobs /\ RowOfJob(<<t, c>>) = t
    BY JobsAre
  <2>2. <<t, c>> # workOn[w]
    BY <2>1 DEF RowAt
  <2>. QED  BY <1>1, <2>1, <2>2
<1>5. PICK t \in Tokens : t = RowAt(w)
  BY <1>3
<1>6. state # "none" => HasJob(t)'
  <2>1. PICK c \in Copies : workOn[w] = <<t, c>>
    BY <1>5, WorkingOn
  <2>. QED  BY <1>1, <2>1 DEF HasJob
<1>7. \A u \in Tokens \ {t} : HasJob(u) => HasJob(u)'
  BY <1>4, <1>5 DEF HasJob
<1>8. Known'
  BY <1>3, <1>4 DEF OutboxInv, Known, invitationRows, scheduler
<1>9. \A u \in Tokens : HasJob(u) /\ box'[u] = "pending" => HasJob(u)'
  BY <1>1, <1>5, <1>6, <1>7
<1>10. \A u \in Tokens : box'[u] = "pending" => box[u] = "pending"
  OBVIOUS
<1>11. \A u \in Tokens : box'[u] = "delivered" => u \in sent'
  BY <1>5 DEF OutboxInv, Marked
<1>12. \A v \in Workers : workAt'[v] = "mark" => RowOfJob(workOn'[v]) \in sent'
  BY <1>1 DEF OutboxInv, Marked, RowAt
<1>13. Marked'
  BY <1>9, <1>10, <1>11, <1>12 DEF OutboxInv, Marked, RowAt, scheduler
<1>. QED  BY <1>1, <1>2, <1>8, <1>13 DEF OutboxInv

LEMMA ReadRowInv ==
  ASSUME OutboxInv, NEW w \in Workers, ReadRow(w)
  PROVE  OutboxInv'
<1>1. workAt[w] # "idle" /\ UNCHANGED <<invitationRows, rows, provider, scheduler, process>>
  BY DEF ReadRow, At
<1>2. /\ sent \subseteq sent' /\ sent' \subseteq Tokens
      /\ newest' \in [Invites -> Tokens \cup {None}]
      /\ box' = box /\ box \in [Tokens -> {"none", "pending", "cancelled", "delivered"}]
  BY <1>1 DEF rows, provider, OutboxInv, TypeOK
<1>3. CASE box[RowAt(w)] = "pending"
  BY <1>1, <1>2, <1>3, GoOnInv DEF ReadRow
<1>4. CASE box[RowAt(w)] # "pending"
  <2>1. Leave(w, "none")
    BY <1>4 DEF ReadRow
  <2>2. box'[RowAt(w)] = "delivered" => RowAt(w) \in sent'
    BY <1>1, <1>2, WorkingOn DEF OutboxInv, Marked
  <2>3. box'[RowAt(w)] # "pending"
    BY <1>2, <1>4
  <2>4. UNCHANGED <<invitationRows, queued, rowOf, scheduler, process>>
    BY <1>1 DEF rows
  <2>. QED
    BY <1>1, <1>2, <2>1, <2>2, <2>3, <2>4, LeaveInv
<1>. QED  BY <1>3, <1>4

LEMMA ReadInvitationInv ==
  ASSUME OutboxInv, NEW w \in Workers, ReadInvitation(w)
  PROVE  OutboxInv'
<1>1. workAt[w] # "idle" /\ UNCHANGED <<invitationRows, queued, rowOf, provider, scheduler, process>>
  BY DEF ReadInvitation, At
<1>2. /\ sent \subseteq sent' /\ sent' \subseteq Tokens
      /\ newest' \in [Invites -> Tokens \cup {None}]
      /\ box \in [Tokens -> {"none", "pending", "cancelled", "delivered"}]
  BY <1>1 DEF provider, OutboxInv, TypeOK
<1>3. CASE IsCurrent(RowAt(w))
  <2>1. GoOn(w, "send") /\ UNCHANGED <<invitationRows, rows, scheduler, process>>
    BY <1>1, <1>3 DEF ReadInvitation, rows
  <2>. QED  BY <1>1, <1>2, <2>1, GoOnInv
<1>4. CASE ~IsCurrent(RowAt(w))
  <2>1. Leave(w, "none") /\ box' = [box EXCEPT ![RowAt(w)] = "cancelled"]
    BY <1>4 DEF ReadInvitation
  <2>2. RowAt(w) \in Tokens
    BY <1>1, WorkingOn
  <2>3. /\ box' \in [Tokens -> {"none", "pending", "cancelled", "delivered"}]
        /\ box'[RowAt(w)] = "cancelled"
        /\ \A t \in Tokens : box'[t] # box[t] => t = RowAt(w) /\ box'[t] # "pending"
    BY <1>2, <2>1, <2>2
  <2>. QED
    BY <1>1, <1>2, <2>1, <2>3, LeaveInv
<1>. QED  BY <1>3, <1>4

\* The provider serves a key of a row there is.
LEMMA ServeIs ==
  ASSUME TypeOK, NEW t \in Tokens, Serve(t)
  PROVE  /\ sent' = sent \cup {t} /\ sent' \subseteq Tokens
         /\ newest' \in [Invites -> Tokens \cup {None}]
         /\ t \in sent => newest' = newest
         /\ t \notin sent => newest' = [newest EXCEPT ![rowOf[t]] = t]
BY DEF TypeOK, Serve

LEMMA SendInv ==
  ASSUME OutboxInv, NEW w \in Workers, Send(w)
  PROVE  OutboxInv'
<1>1. /\ workAt[w] # "idle" /\ UNCHANGED <<invitationRows, rows, scheduler, process>>
      /\ UNCHANGED <<queued, rowOf>>
  BY DEF Send, At, rows
<1>2. /\ box' = box /\ box \in [Tokens -> {"none", "pending", "cancelled", "delivered"}]
      /\ workOn[w] \in Jobs /\ RowAt(w) \in Tokens
  BY <1>1, WorkingOn DEF rows, OutboxInv, TypeOK
<1>3. CASE Serve(RowAt(w)) /\ GoOn(w, "mark")
  BY <1>1, <1>2, <1>3, ServeIs, GoOnInv DEF OutboxInv
<1>4. ASSUME NEW permanent \in BOOLEAN, Leave(w, AfterFailure(workOn[w], permanent)),
             sent \subseteq sent', sent' \subseteq Tokens,
             newest' \in [Invites -> Tokens \cup {None}]
      PROVE  OutboxInv'
  <2>1. PICK state \in {"ready", "dead"} :
          /\ state = AfterFailure(workOn[w], permanent)
          /\ state = "ready" => tries[workOn[w]] < MaxAttempts
    BY <1>2, AfterFailureIs DEF OutboxInv
  <2>2. Leave(w, state)
    BY <1>4, <2>1
  <2>3. box'[RowAt(w)] = "delivered" => RowAt(w) \in sent'
    BY <1>2, <1>4 DEF OutboxInv, Marked
  <2>. QED
    BY <1>1, <1>2, <1>4, <2>1, <2>2, <2>3, LeaveInv
<1>5. CASE Serve(RowAt(w)) /\ Leave(w, AfterFailure(workOn[w], FALSE))
  BY <1>2, <1>4, <1>5, ServeIs DEF OutboxInv
<1>6. CASE /\ \E permanent \in BOOLEAN : Leave(w, AfterFailure(workOn[w], permanent))
           /\ UNCHANGED provider
  <2>1. sent' = sent /\ newest' = newest
    BY <1>6 DEF provider
  <2>. QED  BY <1>4, <1>6, <2>1 DEF OutboxInv, TypeOK
<1>. QED  BY <1>3, <1>5, <1>6 DEF Send

LEMMA MarkDeliveredInv ==
  ASSUME OutboxInv, NEW w \in Workers, MarkDelivered(w)
  PROVE  OutboxInv'
<1>1. /\ workAt[w] = "mark" /\ Leave(w, "none")
      /\ box' = [box EXCEPT ![RowAt(w)] = "delivered"]
      /\ UNCHANGED <<invitationRows, queued, rowOf, provider, scheduler, process>>
  BY DEF MarkDelivered, At
<1>2. RowAt(w) \in Tokens /\ RowAt(w) \in sent /\ workAt[w] # "idle"
  BY <1>1, WorkingOn DEF OutboxInv, Marked
<1>3. /\ box' \in [Tokens -> {"none", "pending", "cancelled", "delivered"}]
      /\ box'[RowAt(w)] = "delivered"
      /\ \A t \in Tokens : box'[t] # box[t] => t = RowAt(w) /\ box'[t] # "pending"
  BY <1>1, <1>2 DEF OutboxInv, TypeOK
<1>4. /\ sent' = sent /\ newest' = newest /\ sent \subseteq Tokens
      /\ newest \in [Invites -> Tokens \cup {None}]
  BY <1>1 DEF provider, OutboxInv, TypeOK
<1>. QED
  BY <1>1, <1>2, <1>3, <1>4, LeaveInv

LEMMA ReclaimInv ==
  ASSUME OutboxInv, NEW j \in Jobs, Reclaim(j)
  PROVE  OutboxInv'
<1>1. PICK state \in {"ready", "dead"} :
        /\ state = AfterFailure(j, FALSE)
        /\ state = "ready" => tries[j] < MaxAttempts
  BY AfterFailureIs DEF OutboxInv
<1>2. /\ job[j] = "running" /\ job' = [job EXCEPT ![j] = state]
      /\ tries' = [tries EXCEPT ![j] = IF job'[j] \in Finished THEN 0 ELSE tries[j]]
      /\ \A w \in Workers : workOn[w] # j
      /\ UNCHANGED <<invitationRows, rows, provider, scheduler, workers, process>>
  BY <1>1 DEF Reclaim
<1>3. tries[j] \in 0..MaxAttempts /\ 0 \in 0..MaxAttempts
  BY OutboxConstantsOK DEF OutboxInv, TypeOK
<1>4. /\ job' \in [Jobs -> {"none", "ready", "running", "dead"}]
      /\ job'[j] = state /\ \A k \in Jobs \ {j} : job'[k] = job[k]
      /\ tries' \in [Jobs -> 0..MaxAttempts]
      /\ tries'[j] = (IF state \in Finished THEN 0 ELSE tries[j])
      /\ \A k \in Jobs \ {j} : tries'[k] = tries[k]
  BY <1>2, <1>3 DEF OutboxInv, TypeOK
<1>5. TypeOK'
  BY <1>2, <1>4 DEF OutboxInv, TypeOK, RowsOK, invitationRows, rows, provider, scheduler,
     workers, process
<1>6. Counted'
  BY <1>1, <1>4 DEF OutboxInv, Counted, Finished
<1>7. Claimed'
  BY <1>2, <1>4 DEF OutboxInv, Claimed, workers
<1>8. \A t \in Tokens, c \in Copies : job'[<<t, c>>] = "none" <=> job[<<t, c>>] = "none"
  <2>1. \A k \in Jobs : job'[k] = "none" <=> job[k] = "none"
    BY <1>2, <1>4
  <2>. QED  BY <2>1, JobsAre
<1>9. Known'
  BY <1>2, <1>8 DEF OutboxInv, Known, invitationRows, rows, scheduler
<1>10. Marked'
  BY <1>2, <1>8 DEF OutboxInv, Marked, HasJob, RowAt, rows, provider, scheduler, workers
<1>. QED  BY <1>5, <1>6, <1>7, <1>9, <1>10 DEF OutboxInv

----------------------------------------------------------------------------
(* The process *)

LEMMA ProcessInv ==
  ASSUME OutboxInv, Crash \/ Restart
  PROVE  OutboxInv'
<1>1. UNCHANGED <<invitationRows, rows, queue, provider>>
  BY DEF Crash, Restart
<1>2. CASE Crash
  <2>1. /\ todo' = [p \in Passes |-> {}] /\ enqueued' = [p \in Passes |-> None]
        /\ workAt' = [w \in Workers |-> "idle"] /\ workOn' = [w \in Workers |-> None]
        /\ owed' = FALSE /\ stalled' = FALSE /\ up' = FALSE
        /\ crashes < MaxCrashes /\ crashes' = crashes + 1
    BY <1>2 DEF Crash
  <2>2. crashes' \in 0..MaxCrashes
    BY <2>1, OutboxConstantsOK DEF OutboxInv, TypeOK
  <2>3. TypeOK'
    BY <1>1, <2>1, <2>2 DEF OutboxInv, TypeOK, RowsOK, invitationRows, rows, queue, provider
  <2>4. Counted' /\ Claimed'
    BY <1>1, <2>1 DEF OutboxInv, Counted, Claimed, queue
  <2>5. Known' /\ Marked'
    BY <1>1, <2>1, NoJobIsNone DEF OutboxInv, Known, Marked, HasJob, invitationRows, rows,
       queue, provider
  <2>. QED  BY <2>3, <2>4, <2>5 DEF OutboxInv
<1>3. CASE Restart
  BY <1>1, <1>3 DEF Restart, OutboxInv, TypeOK, RowsOK, Counted, Claimed, Known, Marked, HasJob,
     RowAt, invitationRows, rows, queue, provider, workers
<1>. QED  BY <1>2, <1>3

LEMMA NextInv == OutboxInv /\ [OutboxNext]_vars => OutboxInv'
<1> SUFFICES ASSUME OutboxInv, [OutboxNext]_vars PROVE OutboxInv'
  OBVIOUS
<1>1. CASE UNCHANGED vars
  BY <1>1 DEF vars, OutboxInv, TypeOK, RowsOK, Counted, Claimed, Known, Marked, HasJob, RowAt
<1>2. ASSUME NEW p \in Passes, Schedule(p) PROVE OutboxInv'
  BY <1>2, StartPassInv, EnqueueInv, MarkQueuedInv DEF Schedule
<1>3. ASSUME NEW w \in Workers, Work(w) PROVE OutboxInv'
  BY <1>3, ClaimInv, ReadRowInv, ReadInvitationInv, SendInv, MarkDeliveredInv DEF Work
<1>. QED
  BY <1>1, <1>2, <1>3, PersistInv, SettleInv, FailPassInv, ReclaimInv, ProcessInv DEF OutboxNext

LEMMA OutboxInvariant == OutboxSpec => []OutboxInv
BY InitInv, NextInv, PTL DEF OutboxSpec

----------------------------------------------------------------------------
(* Theorems of the rows *)

\* Every variable keeps its type; in particular no job is attempted more often
\* than MaxAttempts, which invitation-outbox.ts passes to queue.enqueue.
THEOREM OutboxTypeCorrect == OutboxSpec => []TypeOK
<1>1. OutboxInv => TypeOK
  BY DEF OutboxInv
<1>. QED  BY <1>1, OutboxInvariant, PTL

\* schedulePending enqueues before it marks, and the job's handler sends before
\* it marks: wherever the process stopped or a statement failed, a queued row
\* that is pending has its job and a delivered one was served.
THEOREM MarksStayTrue == OutboxSpec => []MarksAreTrue
<1>1. OutboxInv => MarksAreTrue
  BY HasJobIs DEF OutboxInv, Marked, MarksAreTrue
<1>. QED  BY <1>1, OutboxInvariant, PTL

----------------------------------------------------------------------------
(* One worker *)

\* The code starts one worker (startInvitationOutboxWorker).
OneWorker == \A v, w \in Workers : v = w

Working(i) == status[i] = "pending"

\* A pending invitation's link is one of its own rows; what the provider served
\* was issued; a served working link is the newest message; and a worker about
\* to send a link that was rotated in the meantime comes before any delivery of
\* the new one, which waits for that worker.
NewestInv ==
  /\ \A i \in Invites : Working(i) => token[i] \in issued /\ rowOf[token[i]] = i
  /\ sent \subseteq issued
  /\ \A i \in Invites : Working(i) /\ token[i] \in sent => newest[i] = token[i]
  /\ \A w \in Workers, i \in Invites :
       /\ workAt[w] = "send" /\ Working(i)
       /\ rowOf[RowAt(w)] = i /\ token[i] # RowAt(w)
       => token[i] \notin sent

LEMMA NewestInit == OutboxInit => NewestInv
BY DEF OutboxInit, Init, NewestInv, Working

LEMMA NewestPersist ==
  ASSUME OutboxInv, NewestInv, NEW i \in Invites, Persist(i)
  PROVE  NewestInv'
<1>1. PICK t \in Tokens \ issued :
        /\ Open(i, t) \/ Rotate(i, t)
        /\ box' = [box EXCEPT ![t] = "pending"]
        /\ rowOf' = [rowOf EXCEPT ![t] = i]
  BY PersistIs DEF OutboxInv
<1>2. issued' = issued \cup {t} /\ token' = [token EXCEPT ![i] = t]
  BY <1>1, StoreTyped DEF OutboxInv, TypeOK
<1>3. UNCHANGED <<provider, workers>>
  BY DEF Persist
<1>4. /\ token'[i] = t /\ \A k \in Invites \ {i} : token'[k] = token[k]
      /\ rowOf'[t] = i /\ \A u \in Tokens \ {t} : rowOf'[u] = rowOf[u]
      /\ \A k \in Invites \ {i} : status'[k] = status[k]
  BY <1>1, <1>2 DEF OutboxInv, TypeOK, RowsOK, Open, Rotate
<1>5. t \notin sent /\ issued \subseteq Tokens
  BY DEF NewestInv, OutboxInv, TypeOK, RowsOK
<1>6. \A k \in Invites : Working(k)' => token'[k] \in issued' /\ rowOf'[token'[k]] = k
  BY <1>2, <1>4, <1>5 DEF NewestInv, Working
<1>7. \A k \in Invites : Working(k)' /\ token'[k] \in sent => newest[k] = token'[k]
  BY <1>4, <1>5 DEF NewestInv, Working
<1>8. \A w \in Workers : workAt[w] = "send" => RowAt(w) \in Tokens \ {t}
  BY <1>1, WorkingOn
<1>9. ASSUME NEW w \in Workers, NEW k \in Invites, workAt[w] = "send", Working(k)',
             rowOf'[RowAt(w)] = k, token'[k] # RowAt(w)
      PROVE  token'[k] \notin sent
  BY <1>4, <1>5, <1>8, <1>9 DEF NewestInv, Working
<1>10. \A w \in Workers : RowAt(w)' = RowAt(w) /\ workAt' = workAt
  BY <1>3 DEF workers, RowAt
<1>. QED
  BY <1>2, <1>3, <1>6, <1>7, <1>9, <1>10 DEF NewestInv, provider, RowAt, workers

\* No step but a request's changes invitations, tokens or what they name; and a
\* worker that is not at "send" after a step obliges nothing.
LEMMA NewestStays ==
  ASSUME OutboxInv, NewestInv,
         \A i \in Invites : Working(i)' => Working(i),
         token' = token, issued' = issued, rowOf' = rowOf, UNCHANGED provider,
         \A w \in Workers : workAt'[w] = "send" =>
           /\ workOn'[w] = workOn[w]
           /\ workAt[w] = "send" \/ IsCurrent(RowAt(w))
  PROVE  NewestInv'
<1>1. \A w \in Workers : workAt'[w] = "send" => RowOfJob(workOn'[w]) = RowAt(w)
  BY DEF RowAt
<1>2. ASSUME NEW w \in Workers, NEW i \in Invites, workAt'[w] = "send", Working(i)',
             rowOf[RowAt(w)] = i, token[i] # RowAt(w)
      PROVE  token[i] \notin sent
  <2>1. ~IsCurrent(RowAt(w))
    BY <1>2 DEF IsCurrent
  <2>. QED  BY <1>2, <2>1 DEF NewestInv
<1>. QED
  BY <1>1, <1>2 DEF NewestInv, Working, provider, RowAt

LEMMA NewestSend ==
  ASSUME OneWorker, OutboxInv, NewestInv, NEW w \in Workers, Send(w)
  PROVE  NewestInv'
<1>1. /\ workAt[w] = "send" /\ RowAt(w) \in Tokens /\ RowAt(w) \in issued
      /\ UNCHANGED <<invitationRows, rows>>
  BY WorkingOn DEF Send, At
<1>2. \A v \in Workers : workAt'[v] # "send"
  <2>1. workAt'[w] # "send"
    BY DEF Send, Leave, GoOn, OutboxInv, TypeOK
  <2>. QED  BY <2>1 DEF OneWorker
<1>3. CASE UNCHANGED provider
  BY <1>1, <1>2, <1>3, NewestStays DEF invitationRows, rows, Working
<1>4. CASE Serve(RowAt(w))
  <2> DEFINE t == RowAt(w)
  <2>1. /\ sent' = sent \cup {t}
        /\ t \in sent => newest' = newest
        /\ t \notin sent => newest' = [newest EXCEPT ![rowOf[t]] = t]
    BY <1>1, <1>4, ServeIs DEF OutboxInv
  <2>2. rowOf[t] \in Invites
    BY <1>1 DEF OutboxInv, TypeOK
  <2>. HIDE DEF t
  <2>3. ASSUME NEW i \in Invites, Working(i), token[i] \in sent'
        PROVE  newest'[i] = token[i]
    <3>1. token[i] \in issued /\ rowOf[token[i]] = i
      BY <2>3 DEF NewestInv
    <3>2. CASE token[i] = t
      BY <2>1, <2>2, <2>3, <3>1, <3>2 DEF NewestInv, OutboxInv, TypeOK
    <3>3. CASE token[i] # t
      <4>1. token[i] \in sent /\ newest[i] = token[i]
        BY <2>1, <2>3, <3>3 DEF NewestInv
      <4>2. rowOf[t] # i
        BY <1>1, <2>3, <3>3, <4>1 DEF NewestInv, t
      <4>. QED
        BY <2>1, <2>2, <4>1, <4>2 DEF OutboxInv, TypeOK
    <3>. QED  BY <3>2, <3>3
  <2>4. t \in issued
    BY <1>1 DEF t
  <2>. QED
    BY <1>1, <1>2, <2>1, <2>3, <2>4 DEF NewestInv, Working, invitationRows, rows
<1>. QED  BY <1>3, <1>4 DEF Send

LEMMA NewestNext ==
  ASSUME OneWorker
  PROVE  OutboxInv /\ NewestInv /\ [OutboxNext]_vars => NewestInv'
<1> SUFFICES ASSUME OutboxInv, NewestInv, [OutboxNext]_vars PROVE NewestInv'
  OBVIOUS
<1>1. ASSUME NEW i \in Invites, Settle(i) PROVE NewestInv'
  <2>1. issued' = issued /\ token' = token /\ UNCHANGED <<rows, provider, workers>>
    BY <1>1, SettleRows DEF OutboxInv, TypeOK, Settle
  <2>2. \A k \in Invites : Working(k)' => Working(k)
    BY <1>1 DEF Settle, Working, Accept, Revoke, Expire, OutboxInv, TypeOK, RowsOK
  <2>. QED  BY <2>1, <2>2, NewestStays DEF rows, workers
<1>2. ASSUME NEW p \in Passes, Schedule(p) \/ FailPass(p) PROVE NewestInv'
  <2>1. UNCHANGED <<invitationRows, rowOf, provider, workers>>
    BY <1>2 DEF Schedule, FailPass, StartPass, Enqueue, MarkQueued, rows
  <2>. QED  BY <2>1, NewestStays DEF invitationRows, workers, Working
<1>3. ASSUME NEW j \in Jobs, Reclaim(j) PROVE NewestInv'
  <2>1. UNCHANGED <<invitationRows, rowOf, provider, workers>>
    BY <1>3 DEF Reclaim, rows
  <2>. QED  BY <2>1, NewestStays DEF invitationRows, workers, Working
<1>4. ASSUME Crash \/ Restart PROVE NewestInv'
  <2>1. /\ UNCHANGED <<invitationRows, rowOf, provider>>
        /\ \A w \in Workers : workAt'[w] = "send" => workAt[w] = "send" /\ workOn'[w] = workOn[w]
    BY <1>4 DEF Crash, Restart, rows, workers
  <2>. QED  BY <2>1, NewestStays DEF invitationRows, Working
<1>5. ASSUME NEW w \in Workers, Claim(w) \/ ReadRow(w) \/ ReadInvitation(w) \/ MarkDelivered(w)
      PROVE  NewestInv'
  <2>1. UNCHANGED <<invitationRows, rowOf, provider>>
    BY <1>5 DEF Claim, ReadRow, ReadInvitation, MarkDelivered, rows
  <2>2. \A v \in Workers : v = w
    BY DEF OneWorker
  <2>3. workAt'[w] = "send" => workOn'[w] = workOn[w] /\ IsCurrent(RowAt(w))
    BY <1>5 DEF Claim, ReadRow, ReadInvitation, MarkDelivered, Leave, GoOn, OutboxInv, TypeOK
  <2>. QED  BY <2>1, <2>2, <2>3, NewestStays DEF invitationRows, Working
<1>6. CASE UNCHANGED vars
  BY <1>6, NewestStays DEF vars, Working, provider
<1>. QED
  BY <1>1, <1>2, <1>3, <1>4, <1>5, <1>6, NewestPersist, NewestSend DEF OutboxNext, Work

\* With the one worker the code starts, a delivered working link is the newest
\* message about its invitation, however its rotation raced the deliveries,
\* their retries and the crashes.
THEOREM NewestLinkWorks ==
  ASSUME OneWorker
  PROVE  OutboxSpec => []NewestMessageWorks
<1>1. OutboxInv /\ NewestInv => NewestMessageWorks
  BY DEF OutboxInv, Marked, NewestInv, Working, NewestMessageWorks, TypeOK, RowsOK
<1>2. OutboxInit => NewestInv
  BY NewestInit
<1>3. OutboxInv /\ NewestInv /\ [OutboxNext]_vars => NewestInv'
  BY NewestNext
<1>. QED  BY <1>1, <1>2, <1>3, OutboxInvariant, PTL DEF OutboxSpec
=============================================================================
