----------------------------- MODULE Attendance -----------------------------
(***************************************************************************)
(* Who comes to one occurrence: recording a child's answer and reading the *)
(* answers (apps/web/app/lib/server/attendance.ts), beside cancellations   *)
(* and reinstatements of the occurrence (events.ts) and children joining   *)
(* the roster (roster.ts).                                                 *)
(*                                                                         *)
(* recordAttendance reads the occurrence and checks the caller's rights,   *)
(* then looks for an existing row, then inserts or updates it and commits. *)
(* readAttendance selects the rows, counts them with a second SELECT, and  *)
(* only then checks which entries the caller may see.                      *)
(***************************************************************************)
EXTENDS Naturals, FiniteSets, Database

CONSTANTS
  Family,        \* children
  Grownups,      \* adults with access to the team
  Managers,      \* its owners and coaches
  Guards(_),     \* the children whose active guardian edge an adult holds
  Replies        \* yes, no, maybe

VARIABLES
  onCalendar,    \* the occurrence is scheduled
  squad,         \* the children on the season's roster
  attendance,    \* committed event_attendance rows
  call,          \* what each adult's handler was asked and has read
  shown          \* what readAttendance last answered each adult

attendanceVars == <<database, onCalendar, squad, attendance, call, shown>>

----------------------------------------------------------------------------
\* One handler per adult.
AnswerRow == [child : Family, reply : Replies, by : Grownups]
NothingShown == [entries |-> {}, count |-> 0]

\* authorizeTeamOperation(participant.manage and participant.read): a rostered
\* child, for a manager or for its guardian.
MaySpeakFor(p, k) == k \in squad /\ (p \in Managers \/ k \in Guards(p))

RowsOf(k) == {r \in attendance : r.child = k}
TakeCall(p, c) == call' = [call EXCEPT ![p] = c]

AttendanceInit ==
  /\ database \in Databases
  /\ onCalendar = TRUE
  /\ squad = {}
  /\ attendance = {}
  /\ call = [p \in Grownups |-> Idle]
  /\ shown = [p \in Grownups |-> NothingShown]

\* The occurrence must not be cancelled and the caller must speak for a
\* rostered child; otherwise the handler answers and nothing changes.
CheckAnswer(p) ==
  /\ call[p] = Idle
  /\ TransactionMayBegin(call)
  /\ onCalendar
  /\ \E k \in Family, reply \in Replies :
       /\ MaySpeakFor(p, k)
       /\ TakeCall(p, [op |-> "answer", child |-> k, reply |-> reply])
  /\ UNCHANGED <<database, onCalendar, squad, attendance, shown>>

FindAnswer(p) ==
  /\ call[p].op = "answer"
  /\ TakeCall(p, [op |-> IF RowsOf(call[p].child) = {} THEN "insert" ELSE "update",
              child |-> call[p].child, reply |-> call[p].reply])
  /\ UNCHANGED <<database, onCalendar, squad, attendance, shown>>

\* The unique index on (occurrence, participant) fails the later first answer.
UniqueIndexAllowsBug(k) == TRUE
UniqueIndexAllows(k) == RowsOf(k) = {}

WriteAnswer(p) ==
  LET c == call[p]
      row == [child |-> c.child, reply |-> c.reply, by |-> p] IN
  /\ \/ c.op = "insert" /\ UniqueIndexAllows(c.child)
     \/ c.op = "update"
  /\ attendance' = IF c.op = "insert" THEN attendance \cup {row}
                   ELSE {IF r.child = c.child THEN row ELSE r : r \in attendance}
  /\ TakeCall(p, Idle)
  /\ UNCHANGED <<database, onCalendar, squad, shown>>

FailAnswer(p) ==
  /\ call[p].op \in {"answer", "insert", "update"}
  /\ TakeCall(p, Idle)
  /\ UNCHANGED <<database, onCalendar, squad, attendance, shown>>

SelectAnswers(p) ==
  /\ call[p] = Idle
  /\ TransactionMayBegin(call)
  /\ TakeCall(p, [op |-> "read", rows |-> attendance])
  /\ UNCHANGED <<database, onCalendar, squad, attendance, shown>>

\* attendanceCountsByOccurrence and the policy filter over the rows read.
Visible(p, rows) == {r \in rows : MaySpeakFor(p, r.child)}

CountAnswers(p) ==
  /\ call[p].op = "read"
  /\ shown' = [shown EXCEPT ![p] = [entries |-> Visible(p, call[p].rows),
                                    count |-> Cardinality(attendance)]]
  /\ TakeCall(p, Idle)
  /\ UNCHANGED <<database, onCalendar, squad, attendance>>

\* cancelOccurrence and updateSeries, which wait on SQLite for a transaction.
ChangeCalendar ==
  /\ TransactionMayBegin(call)
  /\ onCalendar' = ~onCalendar
  /\ UNCHANGED <<database, squad, attendance, call, shown>>

JoinRoster ==
  /\ TransactionMayBegin(call)
  /\ \E k \in Family \ squad : squad' = squad \cup {k}
  /\ UNCHANGED <<database, onCalendar, attendance, call, shown>>

AttendanceNext ==
  \/ ChangeCalendar
  \/ JoinRoster
  \/ \E p \in Grownups :
       \/ CheckAnswer(p)
       \/ FindAnswer(p)
       \/ WriteAnswer(p)
       \/ FailAnswer(p)
       \/ SelectAnswers(p)
       \/ CountAnswers(p)

AttendanceSpec == AttendanceInit /\ [][AttendanceNext]_attendanceVars

----------------------------------------------------------------------------
\* A child has one answer, however first answers overlap, from an adult who
\* may speak for the child; and nobody but a manager is shown the entry of a
\* child that is not their own.
AnswersAreOneEach ==
  /\ attendance \subseteq AnswerRow
  /\ \A k \in Family : Cardinality(RowsOf(k)) <= 1
  /\ \A r \in attendance : r.by \in Managers \/ r.child \in Guards(r.by)
  /\ \A p \in Grownups \ Managers : \A r \in shown[p].entries : r.child \in Guards(p)

\* Where transactions run one at a time, the answers to a cancelled occurrence
\* are history: they do not change until it is on the calendar again.
CancelledAnswersAreKept ==
  [][database = "sqlite" /\ ~onCalendar => attendance' = attendance]_attendanceVars
=============================================================================
