----------------------------- MODULE DutySlots -----------------------------
(***************************************************************************)
(* The duty slots of one event occurrence                                  *)
(* (apps/web/app/lib/server/duties.ts).                                    *)
(*                                                                         *)
(* A request is one HTTP handler running one database transaction.  The    *)
(* SQL statements whose rows another transaction can change are steps of   *)
(* their own.  The application opens either of two databases               *)
(* (apps/web/runtime/database.ts):                                         *)
(*                                                                         *)
(*   - SQLite, where transactions run one at a time (Serialized = TRUE);   *)
(*   - PostgreSQL at its default READ COMMITTED level, where each statement*)
(*     sees the rows committed before it and an UPDATE locks the rows it   *)
(*     matches until its transaction ends; an UPDATE that waited for a lock*)
(*     evaluates its WHERE clause again (Serialized = FALSE).              *)
(***************************************************************************)
CONSTANTS
  Slots,       \* primary keys of duty_slots rows
  Adults,      \* people.id
  Requests,    \* handlers that may be running at once
  Nobody,      \* SQL NULL in an assignee column
  NoRequest,   \* nobody holds a lock
  Serialized   \* TRUE on SQLite, FALSE on PostgreSQL

ASSUME ConstantsOK ==
  /\ Nobody \notin Adults
  /\ NoRequest \notin Requests
  /\ Serialized \in BOOLEAN

VARIABLES
  created,     \* the slots whose row exists
  row,         \* committed assignment columns of each slot
  occurrence,  \* the committed event_occurrences row and the clock
  access,      \* what teamAccess grants each adult
  rowLock,     \* the transaction that holds each slot's row lock
  writer,      \* SQLite only: the one transaction that is running
  at,          \* where each handler stands
  ask,         \* what it was called with
  scheduled,   \* the occurrence status it read
  seen,        \* the assignee it read
  wrote,       \* its UPDATE changed the row
  answer       \* what it last told its caller

tables  == <<created, row, rowLock>>
others  == <<occurrence, access>>
locals  == <<scheduled, seen, wrote>>
vars == <<created, row, occurrence, access, rowLock, writer,
          at, ask, scheduled, seen, wrote, answer>>

----------------------------------------------------------------------------
(* Values.  A definition that carries the word Bug in its name is the bug   *)
(* its neighbour could have had; no specification uses it.                  *)

\* assigneePersonId and assignedByPersonId.
Row == [assignee : Adults \cup {Nobody}, by : Adults \cup {Nobody}]
FreeRow == [assignee |-> Nobody, by |-> Nobody]

Occurrence == [scheduled : BOOLEAN, started : BOOLEAN]
Levels == {"none", "read", "manage"}
Refusals == {"not-found", "taken", "unavailable", "no-adult", "changed"}

\* A call of one of the four routes; only assign has a target.
Ops == {"create", "claim", "release", "assign"}
Ask == [op : Ops, actor : Adults, slot : Slots, target : Adults \cup {Nobody}]

\* Each place names the statement the handler runs next.
Places == {"idle", "begin", "insert", "slot", "adult", "update", "reread"}

\* Bug: claim and release forget to resolve the team for the caller.
MayCallBug(q) == q.op \in {"claim", "release"} \/ access[q.actor] = "manage"

\* manageableActiveTeam for create and assign, readableActiveTeam otherwise.
MayCall(q) ==
  access[q.actor] \in
    IF q.op \in {"create", "assign"} THEN {"manage"} ELSE {"read", "manage"}

\* Bug: only the clock is looked at.
AcceptsNewAssignmentBug(r) == r \in Requests /\ ~occurrence.started

\* occurrenceAcceptsNewAssignment, on the status read earlier and the clock.
AcceptsNewAssignment(r) == scheduled[r] /\ ~occurrence.started

\* The assignee a request writes, and the row it writes.
Goal(q) == CASE q.op = "claim"   -> q.actor
             [] q.op = "release" -> Nobody
             [] OTHER            -> q.target

\* Bug: one of the two columns is left out of the SET clause.
NewRowBug(q) == [assignee |-> Goal(q)]

NewRow(q) == [assignee |-> Goal(q),
              by |-> IF Goal(q) = Nobody THEN Nobody ELSE q.actor]

\* Whose slot an operation may move: nobody's, the caller's own, anybody's.
MayMove(q, held) == CASE q.op = "claim"   -> held = Nobody
                      [] q.op = "release" -> held = q.actor
                      [] OTHER            -> TRUE

\* Bug: the WHERE clause names the row only by its key.
ExpectedBug(r) == row[ask[r].slot].assignee

\* The WHERE clause of the UPDATE: the assignee the row must still have.
Expected(r) == CASE ask[r].op = "claim"   -> Nobody
                 [] ask[r].op = "release" -> ask[r].actor
                 [] OTHER                 -> seen[r]

Matches(r) == row[ask[r].slot].assignee = Expected(r)

\* The row as the transaction itself sees it: its own write included.
OwnView(r) == IF wrote[r] THEN NewRow(ask[r]) ELSE row[ask[r].slot]

----------------------------------------------------------------------------
(* The routes *)

GoTo(r, place) == at' = [at EXCEPT ![r] = place]

\* The transaction ends, the caller is told, and what was read is forgotten.
Close(r, said) ==
  /\ GoTo(r, "idle")
  /\ answer' = [answer EXCEPT ![r] = said]
  /\ scheduled' = [scheduled EXCEPT ![r] = FALSE]
  /\ seen' = [seen EXCEPT ![r] = Nobody]
  /\ wrote' = [wrote EXCEPT ![r] = FALSE]
  /\ writer' = NoRequest
  /\ UNCHANGED <<ask, others>>

Init ==
  /\ created = {}
  /\ row = [s \in Slots |-> FreeRow]
  /\ occurrence = [scheduled |-> TRUE, started |-> FALSE]
  /\ access \in [Adults -> Levels]
  /\ rowLock = [s \in Slots |-> NoRequest]
  /\ writer = NoRequest
  /\ at = [r \in Requests |-> "idle"]
  /\ \E q \in Ask : ask = [r \in Requests |-> q]
  /\ scheduled = [r \in Requests |-> FALSE]
  /\ seen = [r \in Requests |-> Nobody]
  /\ wrote = [r \in Requests |-> FALSE]
  /\ answer = [r \in Requests |-> "none"]

\* A signed-in adult calls a route.
Submit(r) ==
  /\ at[r] = "idle"
  /\ \E q \in Ask :
       /\ q.op # "assign" => q.target = Nobody
       /\ ask' = [ask EXCEPT ![r] = q]
  /\ GoTo(r, "begin")
  /\ answer' = [answer EXCEPT ![r] = "none"]
  /\ UNCHANGED <<tables, others, locals, writer>>

\* Open the transaction; resolve the team, then the occurrence.
Refuse(r) ==
  /\ at[r] = "begin"
  /\ writer = NoRequest
  /\ ~MayCall(ask[r])
  /\ Close(r, "not-found")
  /\ UNCHANGED tables

Begin(r) ==
  /\ at[r] = "begin"
  /\ writer = NoRequest
  /\ MayCall(ask[r])
  /\ ask[r].op = "create" => created # Slots \* bound: Slots caps the rows
  /\ writer' = IF Serialized THEN r ELSE NoRequest
  /\ scheduled' = [scheduled EXCEPT ![r] = occurrence.scheduled]
  /\ GoTo(r, IF ask[r].op = "create" THEN "insert" ELSE "slot")
  /\ UNCHANGED <<tables, others, ask, seen, wrote, answer>>

\* createDutySlot: a fresh, free row for an occurrence that is still ahead.
Insert(r) ==
  /\ at[r] = "insert"
  /\ \/ /\ ~AcceptsNewAssignment(r)
        /\ Close(r, "unavailable")
        /\ UNCHANGED created
     \/ /\ AcceptsNewAssignment(r)
        /\ \E s \in Slots \ created : created' = created \cup {s}
        /\ Close(r, "ok")
  /\ UNCHANGED <<row, rowLock>>

\* The checks on the row as it is read, in their order.
Verdict(r, held) ==
  LET q == ask[r] IN
  IF q.slot \notin created THEN "not-found"
  ELSE IF held = Goal(q) THEN "ok"
  ELSE IF ~MayMove(q, held) THEN "taken"
  ELSE IF ~AcceptsNewAssignment(r) THEN "unavailable"
  ELSE "go"

ReadSlot(r) ==
  LET q == ask[r]
      held == row[q.slot].assignee
  IN
  /\ at[r] = "slot"
  /\ \/ /\ Verdict(r, held) # "go"
        /\ Close(r, Verdict(r, held))
     \/ /\ Verdict(r, held) = "go"
        /\ seen' = [seen EXCEPT ![r] = held]
        /\ GoTo(r, IF q.op = "assign" /\ q.target # Nobody THEN "adult" ELSE "update")
        /\ UNCHANGED <<others, ask, scheduled, wrote, answer, writer>>
  /\ UNCHANGED tables

\* activeTeamAdult: the person being assigned belongs to the team.
CheckAdult(r) ==
  /\ at[r] = "adult"
  /\ \/ /\ access[ask[r].target] = "none"
        /\ Close(r, "no-adult")
     \/ /\ access[ask[r].target] # "none"
        /\ GoTo(r, "update")
        /\ UNCHANGED <<others, locals, ask, answer, writer>>
  /\ UNCHANGED tables

\* The conditional UPDATE.  A matching row whose lock another transaction
\* holds makes the statement wait, so it is simply not enabled.
Update(r) ==
  /\ at[r] = "update"
  /\ \/ /\ Matches(r)
        /\ rowLock[ask[r].slot] = NoRequest
        /\ rowLock' = [rowLock EXCEPT ![ask[r].slot] = r]
        /\ wrote' = [wrote EXCEPT ![r] = TRUE]
     \/ /\ ~Matches(r)
        /\ UNCHANGED <<rowLock, wrote>>
  /\ GoTo(r, "reread")
  /\ UNCHANGED <<created, row, others, ask, scheduled, seen, answer, writer>>

\* Bug: the number of changed rows is not looked at.
OutcomeBug(r) == IF r \in Requests THEN "ok" ELSE "changed"

\* What a handler says after reading the row back.
Outcome(r) ==
  IF wrote[r] \/ OwnView(r).assignee = Goal(ask[r]) THEN "ok"
  ELSE IF ask[r].op = "claim" THEN "taken" ELSE "changed"

\* Read the row back, commit, answer.
Commit(r) ==
  LET s == ask[r].slot IN
  /\ at[r] = "reread"
  /\ Close(r, Outcome(r))
  /\ row' = [row EXCEPT ![s] = OwnView(r)]
  /\ rowLock' = [rowLock EXCEPT ![s] = IF wrote[r] THEN NoRequest ELSE @]
  /\ UNCHANGED created

----------------------------------------------------------------------------
(* What other parts of the program do to the rows a handler reads *)

handlers == <<tables, writer, at, ask, locals, answer>>

\* Cancelling an occurrence, or reinstating one that is still ahead by an edit
\* of its schedule (events.ts).
ChangeStatus ==
  /\ writer = NoRequest
  /\ occurrence.scheduled \/ ~occurrence.started
  /\ occurrence' = [occurrence EXCEPT !.scheduled = ~@]
  /\ UNCHANGED <<handlers, access>>

\* The start of the occurrence passes.
Start ==
  /\ ~occurrence.started
  /\ occurrence' = [occurrence EXCEPT !.started = TRUE]
  /\ UNCHANGED <<handlers, access>>

\* An accepted invitation or a co-coach edit (invitations.ts, teams.ts).  No
\* operation of the program takes a team's adult away from it.
ChangeAccess ==
  /\ writer = NoRequest
  /\ \E a \in Adults, level \in {"read", "manage"} :
       access' = [access EXCEPT ![a] = level]
  /\ UNCHANGED <<handlers, occurrence>>

Handle(r) ==
  \/ Refuse(r) \/ Begin(r) \/ Insert(r) \/ ReadSlot(r)
  \/ CheckAdult(r) \/ Update(r) \/ Commit(r)

Next ==
  \/ \E r \in Requests : Submit(r) \/ Handle(r)
  \/ ChangeStatus
  \/ Start
  \/ ChangeAccess

Spec == Init /\ [][Next]_vars

----------------------------------------------------------------------------
(* Properties *)

\* Every variable keeps its type.
TypeOK ==
  /\ created \subseteq Slots
  /\ row \in [Slots -> Row]
  /\ occurrence \in Occurrence
  /\ access \in [Adults -> Levels]
  /\ rowLock \in [Slots -> Requests \cup {NoRequest}]
  /\ writer \in Requests \cup {NoRequest}
  /\ at \in [Requests -> Places]
  /\ ask \in [Requests -> Ask]
  /\ scheduled \in [Requests -> BOOLEAN]
  /\ seen \in [Requests -> Adults \cup {Nobody}]
  /\ wrote \in [Requests -> BOOLEAN]
  /\ answer \in [Requests -> Refusals \cup {"none", "ok"}]

\* An UPDATE that changed its row stays valid until the commit: the row is
\* locked and still holds the assignee the WHERE clause asked for, so the
\* commit cannot overwrite somebody else's assignment.
WritesAreGuarded ==
  \A r \in Requests :
    wrote[r] => /\ at[r] = "reread"
                /\ rowLock[ask[r].slot] = r
                /\ Matches(r)

\* A request past its read will displace only the assignee it read, and one
\* that is about to give somebody a slot has found them on the team.
ChecksStillHold ==
  \A r \in Requests :
    LET q == ask[r] IN
    /\ at[r] \in {"slot", "adult", "update", "reread"} => q.op # "create"
    /\ at[r] = "insert" => q.op = "create"
    /\ at[r] = "adult" => q.op = "assign"
    /\ at[r] \in {"update", "reread"} => Expected(r) = seen[r]
    /\ (at[r] \in {"slot", "update", "reread"} /\ q.op = "claim") =>
         access[q.actor] # "none"
    /\ (at[r] \in {"update", "reread"} /\ q.op = "assign" /\ q.target # Nobody) =>
         access[q.target] # "none"

\* Whoever holds a slot belongs to its team, whichever route put them there.
HoldersAreTeamAdults ==
  \A s \in Slots :
    row[s].assignee # Nobody => access[row[s].assignee] # "none"

\* Nobody's assignment is overwritten blindly: a step that moves a slot
\* displaces exactly the adult its own request had read (the claim's IS NULL,
\* the release's own person, the manager's compare-and-set).
NoBlindOverwrite ==
  [][\A s \in Slots :
       row'[s].assignee # row[s].assignee =>
         \E r \in Requests :
           /\ ask[r].slot = s
           /\ at[r] = "reread" /\ at'[r] = "idle"
           /\ seen[r] = row[s].assignee]_vars

\* The duty history of a cancelled occurrence is never edited.  It holds on
\* SQLite; on PostgreSQL the status was read before the UPDATE, from a row the
\* transaction does not lock.
CancelledHistoryIsKept ==
  [][row' # row => occurrence.scheduled]_vars

\* Seen from outside, every request takes effect at once and its answer is
\* true: the slots implement the one-step board of DutyBoard.
Board == INSTANCE DutyBoard WITH
  holder <- [s \in Slots |-> row[s].assignee],
  phase  <- [r \in Requests |-> IF at[r] = "idle" THEN "idle" ELSE "waiting"]

ImplementsBoard == Board!Spec
============================================================================
