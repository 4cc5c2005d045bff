-------------------------- MODULE InvitationOutbox --------------------------
(***************************************************************************)
(* The durable delivery of invitation links                                *)
(* (apps/web/app/lib/server/invitation-outbox.ts), composed with the       *)
(* invitations of InvitationLifecycle.                                     *)
(*                                                                         *)
(* Opening or rotating an invitation stores an outbox row in the same      *)
(* transaction, named here by its token.  After the commit a scheduling    *)
(* pass turns pending rows into queue jobs; a worker runs the jobs.  A row *)
(* is read, checked, sent and marked in separate statements without a      *)
(* transaction around them, while requests keep changing invitations, the  *)
(* provider fails or loses its answer, and the process crashes and is      *)
(* restarted by its supervisor (infra/ami/snackday.service).               *)
(*                                                                         *)
(* The queue and the provider are libraries and services outside the       *)
(* repository: a job is run by one worker at a time, is retried until its  *)
(* attempts are spent, and a job whose worker died is offered again; the   *)
(* provider ignores an idempotency key it has already served.              *)
(***************************************************************************)
EXTENDS InvitationLifecycle, Naturals, FiniteSets

CONSTANTS
  Copies,       \* bounds the jobs the queue holds for one row at a time
  Passes,       \* scheduling passes that may be running at once
  Workers,      \* workers draining the queue
  MaxAttempts,  \* 8 in the code
  MaxCrashes,   \* bounds the crashes
  None          \* no row, no job, no message

ASSUME OutboxConstantsOK ==
  /\ MaxAttempts \in Nat \ {0}
  /\ MaxCrashes \in Nat
  /\ Copies # {}
  /\ None \notin Tokens \cup (Tokens \X Copies)

VARIABLES
  box,         \* the outbox row of each token: its status, "none" without a row
  queued,      \* queuedAt is set
  rowOf,       \* the invitation the row names
  job,         \* the state of each job; a job names its outbox row
  tries,       \* how often it was attempted
  sent,        \* the keys the provider has served
  newest,      \* the newest message about each invitation
  todo,        \* what a pass has still to do of the rows it listed
  enqueued,    \* the row a pass has enqueued and not yet marked
  workAt,      \* where a worker stands in the job's handler
  workOn,      \* the job it runs
  owed,        \* a commit has not yet been followed by its pass
  stalled,     \* a pass failed and none was started since
  up,          \* the process is running
  crashes      \* how often it has crashed

rows == <<box, queued, rowOf>>
queue == <<job, tries>>
provider == <<sent, newest>>
scheduler == <<todo, enqueued, owed, stalled>>
workers == <<workAt, workOn>>
process == <<up, crashes>>
vars == <<status, token, live, acceptedBy, issued, box, queued, rowOf, job,
          tries, sent, newest, todo, enqueued, workAt, workOn, owed, stalled, up, crashes>>

\* A definition that carries the word Bug in its name is the bug its neighbour
\* could have had; no specification uses it.

Jobs == Tokens \X Copies
RowOfJob(j) == j[1]
Finished == {"none", "dead"}
JobStates(t) == {job[<<t, c>>] : c \in Copies}

OutboxInit ==
  /\ Init
  /\ box = [t \in Tokens |-> "none"]
  /\ queued = [t \in Tokens |-> FALSE]
  /\ rowOf \in {[t \in Tokens |-> i] : i \in Invites}
  /\ job = [j \in Jobs |-> "none"]
  /\ tries = [j \in Jobs |-> 0]
  /\ sent = {}
  /\ newest = [i \in Invites |-> None]
  /\ todo = [p \in Passes |-> {}]
  /\ enqueued = [p \in Passes |-> None]
  /\ workAt = [w \in Workers |-> "idle"]
  /\ workOn = [w \in Workers |-> None]
  /\ owed = FALSE
  /\ stalled = FALSE
  /\ up = TRUE
  /\ crashes = 0

----------------------------------------------------------------------------
(* Requests *)

\* createInvitation and resendInvitation: persist, inside their transaction.
\* Tokens are random: which of the fresh ones is taken makes no difference.
Persist(i) == LET t == CHOOSE t \in Tokens : t \notin issued IN
  /\ up /\ issued # Tokens
  /\ Open(i, t) \/ Rotate(i, t)
  /\ box' = [box EXCEPT ![t] = "pending"]
  /\ rowOf' = [rowOf EXCEPT ![t] = i]
  /\ owed' = TRUE
  /\ UNCHANGED <<queued, queue, provider, todo, enqueued, stalled, workers, process>>

\* The end of an invitation, which the outbox only finds out when it looks.
Settle(i) ==
  /\ \/ up /\ live[i] /\ \E p \in Adults : Accept(i, p)
     \/ up /\ Revoke(i)
     \/ Expire(i)
  /\ UNCHANGED <<rows, queue, provider, scheduler, workers, process>>

----------------------------------------------------------------------------
(* schedulePending *)

Idle(p) == todo[p] = {} /\ enqueued[p] = None
Unqueued == {t \in Tokens : box[t] = "pending" /\ ~queued[t]}

\* After a commit, and when the process starts, the pending rows are listed.
StartPass(p) ==
  /\ up /\ owed /\ Idle(p)
  /\ todo' = [todo EXCEPT ![p] = Unqueued]
  /\ owed' = FALSE
  /\ stalled' = FALSE
  /\ UNCHANGED <<invitationRows, rows, queue, provider, enqueued, workers, process>>

\* Bug: the row is marked first and enqueued afterwards.
EnqueueBug(p) ==
  /\ up /\ enqueued[p] = None
  /\ \E t \in todo[p] :
       /\ todo' = [todo EXCEPT ![p] = @ \ {t}]
       /\ enqueued' = [enqueued EXCEPT ![p] = t]
       /\ queued' = [queued EXCEPT ![t] = TRUE]
  /\ UNCHANGED <<invitationRows, box, rowOf, queue, provider, owed, stalled, workers, process>>

\* Where a new job of a row goes.
Place(t) ==
  IF \E c \in Copies : job[<<t, c>>] \in Finished
    THEN CHOOSE c \in Copies : job[<<t, c>>] \in Finished
    ELSE CHOOSE c \in Copies : TRUE

\* The next row gets a job; the place of a finished one is used again.
Enqueue(p) ==
  /\ up /\ enqueued[p] = None
  /\ \E t \in todo[p] : LET c == Place(t) IN
       /\ job[<<t, c>>] \in Finished
       /\ todo' = [todo EXCEPT ![p] = @ \ {t}]
       /\ enqueued' = [enqueued EXCEPT ![p] = t]
       /\ job' = [job EXCEPT ![<<t, c>>] = "ready"]
  /\ UNCHANGED <<invitationRows, rows, tries, provider, owed, stalled, workers, process>>

MarkQueued(p) ==
  /\ up /\ enqueued[p] # None
  /\ queued' = [queued EXCEPT ![enqueued[p]] = TRUE]
  /\ enqueued' = [enqueued EXCEPT ![p] = None]
  /\ UNCHANGED <<invitationRows, box, rowOf, queue, provider, todo, owed, stalled,
                 workers, process>>

\* A statement of the pass fails; requestSchedule reports it and carries on.
FailPass(p) ==
  /\ up /\ ~Idle(p)
  /\ todo' = [todo EXCEPT ![p] = {}]
  /\ enqueued' = [enqueued EXCEPT ![p] = None]
  /\ stalled' = TRUE
  /\ UNCHANGED <<invitationRows, rows, queue, provider, owed, workers, process>>

----------------------------------------------------------------------------
(* The queue and its worker *)

Claim(w) ==
  /\ up /\ workAt[w] = "idle"
  /\ \E j \in Jobs :
       /\ job[j] = "ready"
       /\ job' = [job EXCEPT ![j] = "running"]
       /\ tries' = [tries EXCEPT ![j] = @ + 1]
       /\ workOn' = [workOn EXCEPT ![w] = j]
  /\ workAt' = [workAt EXCEPT ![w] = "row"]
  /\ UNCHANGED <<invitationRows, rows, provider, scheduler, process>>

At(w, place) == up /\ workAt[w] = place
RowAt(w) == RowOfJob(workOn[w])

GoOn(w, place) ==
  /\ workAt' = [workAt EXCEPT ![w] = place]
  /\ UNCHANGED <<workOn, queue>>

\* Bug: one attempt too many.
AfterFailureBug(j, permanent) ==
  IF permanent \/ tries[j] > MaxAttempts THEN "dead" ELSE "ready"

\* A failed attempt is retried while attempts are left.
AfterFailure(j, permanent) ==
  IF permanent \/ tries[j] >= MaxAttempts THEN "dead" ELSE "ready"

\* The worker is done with the job: it is finished, or to be tried again.
Leave(w, state) ==
  /\ job' = [job EXCEPT ![workOn[w]] = state]
  /\ tries' = [tries EXCEPT ![workOn[w]] = IF state \in Finished THEN 0 ELSE @]
  /\ workAt' = [workAt EXCEPT ![w] = "idle"]
  /\ workOn' = [workOn EXCEPT ![w] = None]

ReadRow(w) ==
  /\ At(w, "row")
  /\ \/ /\ box[RowAt(w)] = "pending"
        /\ GoOn(w, "invitation")
     \/ /\ box[RowAt(w)] # "pending"
        /\ Leave(w, "none")
  /\ UNCHANGED <<invitationRows, rows, provider, scheduler, process>>

\* Bug: the token of the row is not compared with the invitation's.
IsCurrentBug(t) == status[rowOf[t]] = "pending" /\ live[rowOf[t]]

\* The row still carries the working link of its invitation.  What else the
\* handler compares (the team, the inviter, the role, the recipient) no code
\* changes while an invitation is pending.
IsCurrent(t) ==
  status[rowOf[t]] = "pending" /\ live[rowOf[t]] /\ token[rowOf[t]] = t

ReadInvitation(w) ==
  /\ At(w, "invitation")
  /\ \/ /\ IsCurrent(RowAt(w))
        /\ GoOn(w, "send")
        /\ UNCHANGED box
     \/ /\ ~IsCurrent(RowAt(w))
        /\ box' = [box EXCEPT ![RowAt(w)] = "cancelled"]
        /\ Leave(w, "none")
  /\ UNCHANGED <<invitationRows, queued, rowOf, provider, scheduler, process>>

\* The provider serves the key, unless it has already.
Serve(t) ==
  /\ sent' = sent \cup {t}
  /\ newest' = IF t \in sent THEN newest ELSE [newest EXCEPT ![rowOf[t]] = t]

\* It answers; or its answer is lost; or it fails, for now or for good, as a
\* payload that cannot be decrypted does.
Send(w) ==
  /\ At(w, "send")
  /\ \/ /\ Serve(RowAt(w))
        /\ GoOn(w, "mark")
     \/ /\ Serve(RowAt(w))
        /\ Leave(w, AfterFailure(workOn[w], FALSE))
     \/ /\ \E permanent \in BOOLEAN : Leave(w, AfterFailure(workOn[w], permanent))
        /\ UNCHANGED provider
  /\ UNCHANGED <<invitationRows, rows, scheduler, process>>

MarkDelivered(w) ==
  /\ At(w, "mark")
  /\ box' = [box EXCEPT ![RowAt(w)] = "delivered"]
  /\ Leave(w, "none")
  /\ UNCHANGED <<invitationRows, queued, rowOf, provider, scheduler, process>>

\* The queue offers a job again whose worker died.
Reclaim(j) ==
  /\ up /\ job[j] = "running"
  /\ \A w \in Workers : workOn[w] # j
  /\ job' = [job EXCEPT ![j] = AfterFailure(j, FALSE)]
  /\ tries' = [tries EXCEPT ![j] = IF job'[j] \in Finished THEN 0 ELSE @]
  /\ UNCHANGED <<invitationRows, rows, provider, scheduler, workers, process>>

----------------------------------------------------------------------------
(* The process *)

\* Everything in memory is gone.
Crash ==
  /\ up /\ crashes < MaxCrashes
  /\ up' = FALSE
  /\ crashes' = crashes + 1
  /\ todo' = [p \in Passes |-> {}]
  /\ enqueued' = [p \in Passes |-> None]
  /\ workAt' = [w \in Workers |-> "idle"]
  /\ workOn' = [w \in Workers |-> None]
  /\ owed' = FALSE
  /\ stalled' = FALSE
  /\ UNCHANGED <<invitationRows, rows, queue, provider>>

\* Bug: the worker starts on the queue alone.
RestartBug ==
  /\ ~up
  /\ up' = TRUE
  /\ UNCHANGED <<invitationRows, rows, queue, provider, scheduler, workers, crashes>>

\* startRuntimeServer: the worker begins with a scheduling pass.
Restart ==
  /\ ~up
  /\ up' = TRUE
  /\ owed' = TRUE
  /\ UNCHANGED <<invitationRows, rows, queue, provider, todo, enqueued, stalled,
                 workers, crashes>>

Schedule(p) == StartPass(p) \/ Enqueue(p) \/ MarkQueued(p)
Work(w) ==
  Claim(w) \/ ReadRow(w) \/ ReadInvitation(w) \/ Send(w) \/ MarkDelivered(w)

OutboxNext ==
  \/ \E i \in Invites : Persist(i) \/ Settle(i)
  \/ \E p \in Passes : Schedule(p) \/ FailPass(p)
  \/ \E w \in Workers : Work(w)
  \/ \E j \in Jobs : Reclaim(j)
  \/ Crash \/ Restart

\* The event loop runs what was started, the queue loses no job, and the
\* supervisor restarts the process.  Nothing makes requests arrive, and nothing
\* keeps a pass or the provider from failing.
Fairness ==
  /\ \A p \in Passes : WF_vars(Schedule(p))
  /\ \A w \in Workers : WF_vars(Work(w))
  /\ \A j \in Jobs : WF_vars(Reclaim(j))
  /\ WF_vars(Restart)

OutboxSpec == OutboxInit /\ [][OutboxNext]_vars /\ Fairness

----------------------------------------------------------------------------
(* Properties *)

\* Every variable keeps its type.
TypeOK ==
  /\ RowsOK
  /\ box \in [Tokens -> {"none", "pending", "cancelled", "delivered"}]
  /\ queued \in [Tokens -> BOOLEAN]
  /\ rowOf \in [Tokens -> Invites]
  /\ job \in [Jobs -> {"none", "ready", "running", "dead"}]
  /\ tries \in [Jobs -> 0..MaxAttempts]
  /\ sent \subseteq Tokens
  /\ newest \in [Invites -> Tokens \cup {None}]
  /\ todo \in [Passes -> SUBSET Tokens]
  /\ enqueued \in [Passes -> Tokens \cup {None}]
  /\ workAt \in [Workers -> {"idle", "row", "invitation", "send", "mark"}]
  /\ workOn \in [Workers -> Jobs \cup {None}]
  /\ owed \in BOOLEAN /\ stalled \in BOOLEAN /\ up \in BOOLEAN
  /\ crashes \in 0..MaxCrashes

\* A row that says it was queued, or delivered, was: wherever the process
\* stopped, the queue has a job for a queued row that is still pending, and the
\* provider has served a delivered one.
MarksAreTrue ==
  \A t \in Tokens :
    /\ queued[t] /\ box[t] = "pending" => JobStates(t) \cap {"ready", "running", "dead"} # {}
    /\ box[t] = "delivered" => t \in sent

\* With one worker, the newest message about an invitation is the one with the
\* working link, however its rotation raced the deliveries and their retries:
\* if the working link was delivered, no older link was sent after it.
NewestMessageWorks ==
  \A i \in Invites :
    /\ status[i] = "pending"
    /\ live[i]
    /\ box[token[i]] = "delivered"
    => newest[i] = token[i]

\* Every persisted intent is settled in the end: it is delivered or cancelled,
\* or its job has spent its attempts; or its scheduling failed, and then it
\* waits for the next request or restart.
IntentsAreSettled ==
  \A t \in Tokens :
    box[t] = "pending" ~>
      \/ box[t] \in {"cancelled", "delivered"}
      \/ "dead" \in JobStates(t)
      \/ stalled /\ ~queued[t]
============================================================================
