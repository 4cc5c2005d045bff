--------------------------- MODULE EventCreation ---------------------------
(***************************************************************************)
(* Creating an event, and creating it again: the client repeats a request  *)
(* whose answer it never saw, and the receipt a creation leaves makes the  *)
(* repetition answer with the event there is                               *)
(* (createEvent in apps/web/app/lib/server/events.ts).                     *)
(*                                                                         *)
(* An attempt is one run of the handler, in one transaction.  An attempt   *)
(* that carries a request id first locks its team's row, so on PostgreSQL  *)
(* the attempts of one team follow each other from there to their commit;  *)
(* SQLite runs one writing transaction at a time.  The statements between  *)
(* the look at the receipts and the commit insert rows no other transaction*)
(* sees before the commit, which is therefore one step.                    *)
(***************************************************************************)
EXTENDS Naturals, FiniteSets

CONSTANTS
  Attempts,      \* runs of the handler
  Accounts,      \* the adults who create events, all of them managers
  RequestIds,    \* what a client puts on a request to make it repeatable
  Inputs,        \* what is asked for: the hash of the canonical input
  NoId,          \* a request without a request id
  Snack,         \* the inputs that ask for a snack duty too
  NoDuty, NoSeries, NoAttempt

ASSUME CreationConstantsOK ==
  /\ NoId \notin RequestIds
  /\ Snack \subseteq Inputs
  /\ NoAttempt \notin Attempts /\ NoDuty \notin Attempts

VARIABLES
  started,     \* the inputs whose first date the clock has reached
  created,     \* event_series: attempt -> the input it was created from
  duties,      \* the series that have a duty slot on their first occurrence
  receipts,    \* event_creation_receipts
  teamLock,    \* the attempt that holds the team's row
  attempt,     \* where each attempt stands and what it was asked
  told         \* what each attempt answered

creationVars == <<started, created, duties, receipts, teamLock, attempt, told>>

----------------------------------------------------------------------------
\* A series is named by the attempt that created it.
Asks == [by : Accounts, id : RequestIds \cup {NoId}, input : Inputs]
Stages == {"begun", "locked", "absent", "done"}
Receipt == [by : Accounts, id : RequestIds, input : Inputs, series : Attempts,
            duty : Attempts \cup {NoDuty}]
Answers == [code : {"none", "created", "replayed", "conflict", "unavailable",
                    "lost", "failed"},
            series : Attempts \cup {NoSeries}]

Said(code, s) == [code |-> code, series |-> s]
SeriesExists(s) == s \in DOMAIN created
ReceiptsOf(q) == {r \in receipts : r.by = q.by /\ r.id = q.id}

CreationInit ==
  /\ started = {}
  /\ created = [s \in {} |-> 0]
  /\ duties = {}
  /\ receipts = {}
  /\ teamLock = NoAttempt
  /\ attempt = [a \in Attempts |-> [stage |-> "new"]]
  /\ told = [a \in Attempts |-> Said("none", NoSeries)]

At(a, stage) == attempt[a].stage = stage
GoTo(a, stage) == attempt' = [attempt EXCEPT ![a].stage = stage]
Running == {a \in Attempts : ~At(a, "new") /\ ~At(a, "done")}

Finish(a, code, s) ==
  /\ GoTo(a, "done")
  /\ told' = [told EXCEPT ![a] = Said(code, s)]
  /\ teamLock' = IF teamLock = a THEN NoAttempt ELSE teamLock

\* A request arrives: a first one, or one a client sends again because the
\* answer of another attempt is late or lost.  It is the same handler either way.
Arrive(a) ==
  /\ At(a, "new")
  /\ \E q \in Asks :
       attempt' = [attempt EXCEPT ![a] =
         [stage |-> "begun", by |-> q.by, id |-> q.id, input |-> q.input]]
  /\ UNCHANGED <<started, created, duties, receipts, teamLock, told>>

\* lockTeamEventCreation.
MayLockBug(a) == TRUE
MayLock(a) == teamLock = NoAttempt

LockTeam(a) ==
  /\ At(a, "begun")
  /\ attempt[a].id # NoId
  /\ MayLock(a)
  /\ teamLock' = a
  /\ GoTo(a, "locked")
  /\ UNCHANGED <<started, created, duties, receipts, told>>

\* eventCreationReceipt found nothing.
NoReceipt(a) ==
  /\ \/ At(a, "begun") /\ attempt[a].id = NoId
     \/ At(a, "locked") /\ ReceiptsOf(attempt[a]) = {}
  /\ GoTo(a, "absent")
  /\ UNCHANGED <<started, created, duties, receipts, teamLock, told>>

\* The receipt answers for the event there is; its hash must be this input's.
SameRequest(r, q) == r.input = q.input

Replay(a) ==
  /\ At(a, "locked")
  /\ \E r \in ReceiptsOf(attempt[a]) :
       IF SameRequest(r, attempt[a])
         THEN IF SeriesExists(r.series) /\ (r.duty # NoDuty => r.duty \in duties)
                THEN Finish(a, "replayed", r.series)
                ELSE Finish(a, "failed", NoSeries)
         ELSE Finish(a, "conflict", NoSeries)
  /\ UNCHANGED <<started, created, duties, receipts>>

\* A snack duty is only created for an event that is still ahead.
RefuseStarted(a) ==
  /\ At(a, "absent")
  /\ attempt[a].input \in Snack \cap started
  /\ Finish(a, "unavailable", NoSeries)
  /\ UNCHANGED <<started, created, duties, receipts>>

\* What a creation that carries a request id leaves behind.
LeavesReceipt(q) == q.id # NoId

\* The series, its occurrences, its duty and its receipt are committed
\* together.  The unique index on receipts fails a second one.
Create(a) ==
  /\ At(a, "absent")
  /\ attempt[a].input \notin Snack \cap started
  /\ UNCHANGED started
  /\ LET q == attempt[a] IN
     IF q.id # NoId /\ ReceiptsOf(q) # {}
       THEN /\ Finish(a, "failed", NoSeries)
            /\ UNCHANGED <<created, duties, receipts>>
       ELSE /\ created' = [s \in DOMAIN created \cup {a} |->
                             IF s = a THEN q.input ELSE created[s]]
            /\ duties' = IF q.input \in Snack THEN duties \cup {a} ELSE duties
            /\ receipts' = IF LeavesReceipt(q)
                 THEN receipts \cup {[by |-> q.by, id |-> q.id, input |-> q.input, series |-> a,
                        duty |-> IF q.input \in Snack THEN a ELSE NoDuty]}
                 ELSE receipts
            \* The client may never see the answer.
            /\ \E code \in {"created", "lost"} : Finish(a, code, a)

\* A statement fails, or the server stops: the transaction rolls back.
AbortCreation(a) ==
  /\ a \in Running
  /\ Finish(a, "failed", NoSeries)
  /\ UNCHANGED <<started, created, duties, receipts>>

TimePasses ==
  /\ \E i \in Inputs \ started : started' = started \cup {i}
  /\ UNCHANGED <<created, duties, receipts, teamLock, attempt, told>>

CreationNext ==
  \/ TimePasses
  \/ \E a \in Attempts :
       \/ Arrive(a)
       \/ LockTeam(a)
       \/ NoReceipt(a)
       \/ Replay(a)
       \/ RefuseStarted(a)
       \/ Create(a)
       \/ AbortCreation(a)

CreationSpec == CreationInit /\ [][CreationNext]_creationVars

----------------------------------------------------------------------------
CreationTypeOK ==
  /\ started \subseteq Inputs
  /\ DOMAIN created \subseteq Attempts
  /\ \A s \in DOMAIN created : created[s] \in Inputs
  /\ duties \subseteq Attempts
  /\ receipts \subseteq Receipt
  /\ teamLock \in Attempts \cup {NoAttempt}
  /\ attempt \in [Attempts ->
       [stage : {"new"}]
         \cup [stage : Stages, by : Accounts, id : RequestIds \cup {NoId}, input : Inputs]]
  /\ told \in [Attempts -> Answers]

Succeeded(a) == told[a].code \in {"created", "replayed", "lost"}
SameId(a, b) == /\ attempt[a].by = attempt[b].by
                /\ attempt[a].id = attempt[b].id
                /\ attempt[a].id # NoId

\* However often a client repeats a request, whatever answers are lost and
\* whatever the attempts overlap with, one event is created, and every answer
\* that names an event names that one and is to what was asked for.
AnswersNameOneEvent ==
  \A a, b \in Attempts :
    Succeeded(a) /\ Succeeded(b) /\ SameId(a, b) =>
      /\ told[a].series = told[b].series
      /\ attempt[a].input = attempt[b].input

\* A repetition is never turned away by the bookkeeping that is there to answer
\* it: no attempt finds a receipt whose event or duty is missing, or fails on
\* the receipts' unique index.
ReceiptsAreWhole ==
  /\ \A r \in receipts :
       /\ SeriesExists(r.series) /\ created[r.series] = r.input
       /\ r.duty # NoDuty <=> r.input \in Snack
       /\ r.duty # NoDuty => r.duty \in duties
  /\ \A a \in Attempts :
       At(a, "absent") /\ attempt[a].id # NoId => ReceiptsOf(attempt[a]) = {}

\* Both: a request is one event, and its receipt is there to say so.
OneEventPerRequest == AnswersNameOneEvent /\ ReceiptsAreWhole
============================================================================
