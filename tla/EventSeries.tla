---------------------------- MODULE EventSeries ----------------------------
(***************************************************************************)
(* One event series, its materialized occurrences, and the two operations  *)
(* that change them: the schedule edit, which reconciles the occurrences by*)
(* local date, and the cancellation of one occurrence                      *)
(* (apps/web/app/lib/server/events.ts).                                    *)
(*                                                                         *)
(* Each is one transaction that reads and then writes.  An edit first      *)
(* updates the series' own row, so two edits of one series exclude each    *)
(* other from that statement to their commit on PostgreSQL too; it takes   *)
(* the clock before.  Its UPDATEs and the cancellation's name a row by its *)
(* key alone and set whole columns to values decided earlier, so an edit's *)
(* writes are one step at its commit: a cancellation it overlaps is        *)
(* ordered before or after it, row by row, as if the commit were atomic.   *)
(***************************************************************************)
EXTENDS Naturals, FiniteSets, Database

CONSTANTS
  Clients,        \* handlers that may be running at once
  Dates,          \* local dates
  Times,          \* wall times of day
  Reasons,        \* what people write when they cancel
  Reschedule,     \* RESCHEDULE_CANCEL_REASON
  NoReason,       \* SQL NULL in cancelled_reason
  NoClient,
  LastInstant,    \* bound on the clock
  InstantFromWallTime(_, _)   \* the instant of a date and a time of day

ASSUME SeriesConstantsOK ==
  /\ Reschedule \notin Reasons
  /\ NoReason \notin Reasons \cup {Reschedule}
  /\ NoClient \notin Clients
  /\ LastInstant \in Nat
  /\ \A d \in Dates, t \in Times : InstantFromWallTime(d, t) \in Nat

VARIABLES
  now,        \* the clock
  series,     \* the dates and time its definition names, and when it was edited
  rows,       \* the committed event_occurrences row of each date
  editor,     \* the transaction that holds the series' row lock
  request     \* what each handler was asked and has read

seriesVars == <<database, now, series, rows, editor, request>>

----------------------------------------------------------------------------
Schedules == [dates : (SUBSET Dates) \ {{}}, time : Times]
OccurrenceRow == [startsAt : Nat, status : {"scheduled", "cancelled"},
        reason : Reasons \cup {Reschedule, NoReason}]
NoRow == [startsAt |-> 0, status |-> "absent", reason |-> NoReason]

NotCreated == [dates |-> {}, time |-> CHOOSE t \in Times : TRUE, editedAt |-> 0]

HasRow(r) == r # NoRow
ByMachine(r) == r.status = "cancelled" /\ r.reason = Reschedule
ByHuman(r) == r.status = "cancelled" /\ r.reason # Reschedule

AskedToEdit == [op : {"edit", "editing"}, schedule : Schedules, now : Nat,
                seen : [Dates -> OccurrenceRow \cup {NoRow}]]
AskedToCancel == [op : {"cancel"}, date : Dates, reason : Reasons]

TakeOn(c, r) == request' = [request EXCEPT ![c] = r]

----------------------------------------------------------------------------
\* insertOccurrence.
ScheduledAt(d, t) == [startsAt |-> InstantFromWallTime(d, t), status |-> "scheduled",
                reason |-> NoReason]

\* The machine's own cancellation is reversed while the instant the row moves
\* to is ahead.
ReinstatesOnReturnBug(r, startsAt, at) == ByMachine(r) /\ r.startsAt > at
ReinstatesOnReturn(r, startsAt, at) == ByMachine(r) /\ startsAt > at

\* A date the schedule names: `was` is the row the edit read, `is` the row its
\* UPDATE finds.
KeepBug(was, is, d, t, at) ==
  IF ReinstatesOnReturn(was, InstantFromWallTime(d, t), at) THEN ScheduledAt(d, t)
  ELSE [is EXCEPT !.startsAt = InstantFromWallTime(d, t)]
Keep(was, is, d, t, at) ==
  LET startsAt == InstantFromWallTime(d, t) IN
  IF ~HasRow(was) THEN ScheduledAt(d, t)
  ELSE IF ReinstatesOnReturn(was, startsAt, at) THEN ScheduledAt(d, t)
  ELSE [is EXCEPT !.startsAt = startsAt]

\* A date the schedule dropped: only a future, scheduled row is cancelled.
DropBug(was, is, at) ==
  IF HasRow(was) /\ was.startsAt > at
    THEN [is EXCEPT !.status = "cancelled", !.reason = Reschedule]
    ELSE is
Drop(was, is, at) ==
  IF HasRow(was) /\ was.status = "scheduled" /\ was.startsAt > at
    THEN [is EXCEPT !.status = "cancelled", !.reason = Reschedule]
    ELSE is

Reconciled(q) ==
  [d \in Dates |->
     IF d \in q.schedule.dates
       THEN Keep(q.seen[d], rows[d], d, q.schedule.time, q.now)
       ELSE Drop(q.seen[d], rows[d], q.now)]

----------------------------------------------------------------------------
SeriesInit ==
  /\ database \in Databases
  /\ now = 0
  /\ series = NotCreated
  /\ rows = [d \in Dates |-> NoRow]
  /\ editor = NoClient
  /\ request = [c \in Clients |-> Idle]

\* createSeries materializes every date the definition names, past ones too.
CreateSeries ==
  /\ series = NotCreated
  /\ \E s \in Schedules :
       /\ series' = [dates |-> s.dates, time |-> s.time, editedAt |-> now]
       /\ rows' = [d \in Dates |-> IF d \in s.dates THEN ScheduledAt(d, s.time) ELSE NoRow]
  /\ UNCHANGED <<database, now, editor, request>>

\* updateSeries: the edit has passed its access checks and read the clock.  A
\* schedule that names no date, or too many, is refused before this.
BeginEdit(c) ==
  /\ request[c] = Idle /\ series # NotCreated
  /\ TransactionMayBegin(request)
  /\ \E s \in Schedules :
       TakeOn(c, [op |-> "edit", schedule |-> s, now |-> now,
                seen |-> [d \in Dates |-> NoRow]])
  /\ UNCHANGED <<database, now, series, rows, editor>>

\* It updates the series' row, which it locks, and reads every occurrence.
SeriesIsFree == editor = NoClient

ReadOccurrences(c) ==
  /\ request[c].op = "edit"
  /\ SeriesIsFree
  /\ editor' = c
  /\ TakeOn(c, [request[c] EXCEPT !.op = "editing", !.seen = rows])
  /\ UNCHANGED <<database, now, series, rows>>

ReconcileOccurrences(c) ==
  /\ request[c].op = "editing"
  /\ rows' = Reconciled(request[c])
  /\ series' = [dates |-> request[c].schedule.dates,
                time |-> request[c].schedule.time, editedAt |-> request[c].now]
  /\ editor' = NoClient
  /\ TakeOn(c, Idle)
  /\ UNCHANGED <<database, now>>

\* cancelOccurrence: the reserved reason is refused, and so is nothing else
\* here: an occurrence a human already cancelled answers as it stands.
BeginCancel(c) ==
  /\ request[c] = Idle
  /\ TransactionMayBegin(request)
  /\ \E d \in Dates, why \in Reasons :
       /\ rows[d].status = "scheduled" \/ ByMachine(rows[d])
       /\ TakeOn(c, [op |-> "cancel", date |-> d, reason |-> why])
  /\ UNCHANGED <<database, now, series, rows, editor>>

Cancelled(r, why) == [r EXCEPT !.status = "cancelled", !.reason = why]

WriteCancel(c) ==
  /\ request[c].op = "cancel"
  /\ rows' = [rows EXCEPT ![request[c].date] = Cancelled(@, request[c].reason)]
  /\ TakeOn(c, Idle)
  /\ UNCHANGED <<database, now, series, editor>>

\* A statement of the transaction fails: it rolls back.
AbortSeries(c) ==
  /\ request[c].op \in {"edit", "editing", "cancel"}
  /\ editor' = IF editor = c THEN NoClient ELSE editor
  /\ TakeOn(c, Idle)
  /\ UNCHANGED <<database, now, series, rows>>

Tick ==
  /\ now < LastInstant
  /\ now' = now + 1
  /\ UNCHANGED <<database, series, rows, editor, request>>

SeriesNext ==
  \/ Tick
  \/ CreateSeries
  \/ \E c \in Clients :
       \/ BeginEdit(c)
       \/ ReadOccurrences(c)
       \/ ReconcileOccurrences(c)
       \/ BeginCancel(c)
       \/ WriteCancel(c)
       \/ AbortSeries(c)

SeriesSpec == SeriesInit /\ [][SeriesNext]_seriesVars

----------------------------------------------------------------------------
SeriesTypeOK ==
  /\ database \in Databases
  /\ now \in Nat
  /\ \/ series = NotCreated
     \/ series \in [dates : (SUBSET Dates) \ {{}}, time : Times, editedAt : Nat]
  /\ rows \in [Dates -> OccurrenceRow \cup {NoRow}]
  /\ editor \in Clients \cup {NoClient}
  /\ request \in [Clients -> {Idle} \cup AskedToEdit \cup AskedToCancel]

\* The occurrences are those of the series' last edit: every date it names has
\* a row that starts when the schedule says, and a date it dropped that was
\* still ahead is not on the calendar.  The lock an edit takes on the series'
\* row is what keeps two edits from mixing their dates.
RowsFollowTheSchedule ==
  \A d \in Dates :
    /\ d \in series.dates =>
         /\ HasRow(rows[d])
         /\ rows[d].startsAt = InstantFromWallTime(d, series.time)
    /\ d \notin series.dates =>
         ~(rows[d].status = "scheduled" /\ rows[d].startsAt > series.editedAt)

\* The reserved reason says "this date left the schedule": no date of the
\* schedule that was ahead at the edit carries it, so an edit that drops dates
\* and one that restores them are a round trip.
MachineCancellationsAreTrue ==
  \A d \in series.dates : ByMachine(rows[d]) => rows[d].startsAt <= series.editedAt

\* Both: the calendar, and why a date is off it, are what the last edit said.
ScheduleIsReflected == RowsFollowTheSchedule /\ MachineCancellationsAreTrue

\* A cancellation by a human is never reversed and keeps its first reason.
HumanCancellationStands ==
  [][\A d \in Dates :
       ByHuman(rows[d]) => ByHuman(rows'[d]) /\ rows'[d].reason = rows[d].reason]_rows

\* The same where transactions run one at a time.
HumanCancellationStandsOnSQLite ==
  [][database = "sqlite" =>
       \A d \in Dates :
         ByHuman(rows[d]) => ByHuman(rows'[d]) /\ rows'[d].reason = rows[d].reason]_seriesVars
============================================================================
