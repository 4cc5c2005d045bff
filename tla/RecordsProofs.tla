--------------------------- MODULE RecordsProofs ---------------------------
(***************************************************************************)
(* For any number of teams, adults, children, events, feeds, files and     *)
(* requests: what holds of each of the records beside duties and           *)
(* invitations, and of all of them together: on SQLite and on PostgreSQL   *)
(* the calendar is what the last schedule edit said, and where transactions*)
(* run one at a time a human cancellation stands; and what each of the     *)
(* other records promises.  The proofs about sign-in have their own module.*)
(***************************************************************************)
EXTENDS Records, AuthenticationProofs, FiniteSetTheorems,
        SequenceTheorems, TLAPS

----------------------------------------------------------------------------
(* Event series and their occurrences: the inductive invariant *)

Active(c) == request[c] # Idle

\* Nobody can ask anything of a series before it is created.
NothingBefore ==
  series = NotCreated =>
    /\ \A c \in Clients : request[c] = Idle
    /\ \A d \in Dates : rows[d] = NoRow

\* The series' row lock is held by exactly the edit that has read occurrences.
Locked ==
  /\ \A c \in Clients : request[c].op = "editing" <=> editor = c
  /\ \A c \in Clients : request[c].op = "cancel" => HasRow(rows[request[c].date])

\* What an edit read and what is there differ at most by human cancellations:
\* no other edit commits while it holds the lock.
Since(was, is) ==
  /\ HasRow(was) <=> HasRow(is)
  /\ was.startsAt = is.startsAt
  /\ is.status = "scheduled" => was.status = "scheduled"
  /\ ByMachine(is) => ByMachine(was)

SeenSince ==
  \A c \in Clients : request[c].op = "editing" =>
    \A d \in Dates : Since(request[c].seen[d], rows[d])

\* On SQLite one handler is in a transaction and what it read still stands.
OneSeriesTransaction ==
  database = "sqlite" =>
    /\ \A b, c \in Clients : Active(b) /\ Active(c) => b = c
    /\ \A c \in Clients : request[c].op = "editing" => request[c].seen = rows
    /\ \A c \in Clients : request[c].op = "cancel" => ~ByHuman(rows[request[c].date])

SeriesInv ==
  /\ SeriesTypeOK
  /\ database \in {"sqlite", "postgres"}
  /\ NothingBefore /\ Locked /\ SeenSince /\ OneSeriesTransaction
  /\ ScheduleIsReflected

----------------------------------------------------------------------------
(* Rows *)

Row == OccurrenceRow \cup {NoRow}

LEMMA ScheduledIs ==
  ASSUME NEW d \in Dates, NEW t \in Times
  PROVE  /\ ScheduledAt(d, t) \in OccurrenceRow
         /\ HasRow(ScheduledAt(d, t)) /\ ScheduledAt(d, t).status = "scheduled"
         /\ ScheduledAt(d, t).startsAt = InstantFromWallTime(d, t)
         /\ ~ByMachine(ScheduledAt(d, t))
BY SeriesConstantsOK DEF ScheduledAt, OccurrenceRow, HasRow, NoRow, ByMachine

LEMMA NoRowIs == /\ ~HasRow(NoRow) /\ ~ByMachine(NoRow) /\ ~ByHuman(NoRow)
                 /\ NoRow.status = "absent" /\ NoRow.startsAt = 0
BY DEF HasRow, NoRow, ByMachine, ByHuman

LEMMA RowIs ==
  ASSUME NEW r \in Row
  PROVE  /\ HasRow(r) <=> r \in OccurrenceRow
         /\ HasRow(r) <=> r.status # "absent"
         /\ r.startsAt \in Nat
BY DEF Row, OccurrenceRow, HasRow, NoRow

LEMMA MovedIs ==
  ASSUME NEW r \in OccurrenceRow, NEW n \in Nat
  PROVE  /\ [r EXCEPT !.startsAt = n] \in OccurrenceRow
         /\ [r EXCEPT !.startsAt = n].startsAt = n
         /\ [r EXCEPT !.startsAt = n].status = r.status
         /\ [r EXCEPT !.startsAt = n].reason = r.reason
BY DEF OccurrenceRow

LEMMA CancelledIs ==
  ASSUME NEW r \in OccurrenceRow, NEW why \in Reasons \cup {Reschedule}
  PROVE  /\ [r EXCEPT !.status = "cancelled", !.reason = why] \in OccurrenceRow
         /\ [r EXCEPT !.status = "cancelled", !.reason = why].startsAt = r.startsAt
         /\ [r EXCEPT !.status = "cancelled", !.reason = why].status = "cancelled"
         /\ [r EXCEPT !.status = "cancelled", !.reason = why].reason = why
BY DEF OccurrenceRow

\* A date the schedule names ends up with a row at its new instant, which the
\* machine's cancellation leaves off only when that instant is past.
LEMMA KeepIs ==
  ASSUME NEW was \in Row, NEW is \in Row, Since(was, is),
         NEW d \in Dates, NEW t \in Times, NEW at \in Nat
  PROVE  LET r == Keep(was, is, d, t, at) IN
         /\ r \in OccurrenceRow
         /\ r.startsAt = InstantFromWallTime(d, t)
         /\ ByMachine(r) => r.startsAt <= at
         /\ was = is /\ ByHuman(is) => ByHuman(r) /\ r.reason = is.reason
<1> DEFINE n == InstantFromWallTime(d, t)
<1>1. n \in Nat
  BY SeriesConstantsOK
<1>2. CASE ~HasRow(was)
  BY <1>2, ScheduledIs, RowIs, NoRowIs DEF Keep, HasRow
<1>3. CASE HasRow(was) /\ ReinstatesOnReturn(was, n, at)
  BY <1>3, ScheduledIs DEF Keep, ReinstatesOnReturn, ByMachine, ByHuman
<1>4. CASE HasRow(was) /\ ~ReinstatesOnReturn(was, n, at)
  <2>1. is \in OccurrenceRow
    BY <1>4, RowIs DEF Since
  <2>2. Keep(was, is, d, t, at) = [is EXCEPT !.startsAt = n]
    BY <1>4 DEF Keep
  <2>. HIDE DEF n
  <2>3. ByMachine(is) => n <= at
    BY <1>1, <1>4 DEF ReinstatesOnReturn, Since
  <2>4. Keep(was, is, d, t, at).startsAt = n
    BY <1>1, <2>1, <2>2, MovedIs
  <2>. QED
    BY <1>1, <2>1, <2>2, <2>3, <2>4, MovedIs DEF ByMachine, ByHuman, n
<1>. QED  BY <1>2, <1>3, <1>4

\* A date the schedule dropped is not on the calendar when it is still ahead.
LEMMA DropIs ==
  ASSUME NEW was \in Row, NEW is \in Row, Since(was, is), NEW at \in Nat
  PROVE  LET r == Drop(was, is, at) IN
         /\ r \in Row
         /\ ~(r.status = "scheduled" /\ r.startsAt > at)
         /\ HasRow(is) => HasRow(r)
         /\ was = is /\ ByHuman(is) => r = is
<1>1. CASE HasRow(was) /\ was.status = "scheduled" /\ was.startsAt > at
  <2>1. is \in OccurrenceRow
    BY <1>1, RowIs DEF Since
  <2>2. Drop(was, is, at) = [is EXCEPT !.status = "cancelled", !.reason = Reschedule]
    BY <1>1 DEF Drop
  <2>3. Drop(was, is, at) \in OccurrenceRow /\ Drop(was, is, at).status = "cancelled"
    <3>1. /\ [is EXCEPT !.status = "cancelled", !.reason = Reschedule] \in OccurrenceRow
          /\ [is EXCEPT !.status = "cancelled", !.reason = Reschedule].status = "cancelled"
      BY <2>1 DEF OccurrenceRow
    <3>. QED  BY <2>2, <3>1
  <2>. QED
    BY <1>1, <2>3, RowIs DEF Row, ByHuman
<1>2. CASE ~(HasRow(was) /\ was.status = "scheduled" /\ was.startsAt > at)
  <2>1. Drop(was, is, at) = is
    BY <1>2 DEF Drop
  <2>2. ~(is.status = "scheduled" /\ is.startsAt > at)
    <3> SUFFICES ASSUME is.status = "scheduled" PROVE ~(is.startsAt > at)
      OBVIOUS
    <3>1. was.status = "scheduled" /\ was.startsAt = is.startsAt
      BY DEF Since
    <3>2. HasRow(was)
      BY <3>1, RowIs
    <3>. QED  BY <1>2, <3>1, <3>2
  <2>. QED
    BY <2>1, <2>2
<1>. QED  BY <1>1, <1>2

----------------------------------------------------------------------------
(* Steps *)

Requests == {Idle} \cup AskedToEdit \cup AskedToCancel

LEMMA IdleIs == Idle.op = "idle"
BY DEF Idle

LEMMA SeriesInitInv == SeriesInit => SeriesInv
<1> SUFFICES ASSUME SeriesInit PROVE SeriesInv
  OBVIOUS
<1>1. \A c \in Clients : request[c] = Idle
  BY DEF SeriesInit
<1>2. editor = NoClient /\ series = NotCreated /\ now = 0 /\ database \in Databases
  BY DEF SeriesInit
<1>3. SeriesTypeOK
  BY <1>2 DEF SeriesInit, SeriesTypeOK
<1>4. NothingBefore /\ SeenSince /\ OneSeriesTransaction
  BY <1>1, <1>2, IdleIs DEF SeriesInit, NothingBefore, SeenSince, OneSeriesTransaction, Active
<1>5. Locked
  BY <1>1, <1>2, IdleIs, SeriesConstantsOK DEF Locked
<1>6. ScheduleIsReflected
  <2>1. series.dates = {} /\ \A d \in Dates : rows[d] = NoRow
    BY DEF SeriesInit, NotCreated
  <2>. QED
    BY <2>1, NoRowIs DEF ScheduleIsReflected, RowsFollowTheSchedule, MachineCancellationsAreTrue
<1>. QED
  BY <1>2, <1>3, <1>4, <1>5, <1>6, DatabasesOK DEF SeriesInv

LEMMA Takes ==
  ASSUME SeriesInv, NEW c \in Clients, NEW r \in Requests, TakeOn(c, r)
  PROVE  /\ request' \in [Clients -> Requests]
         /\ request'[c] = r
         /\ \A b \in Clients \ {c} : request'[b] = request[b]
BY DEF SeriesInv, SeriesTypeOK, Requests, TakeOn

LEMMA SeriesMayBegin ==
  ASSUME SeriesInv, TransactionMayBegin(request), database = "sqlite"
  PROVE  \A c \in Clients : request[c] = Idle
BY DEF SeriesInv, SeriesTypeOK, TransactionMayBegin

\* Once there is a request there is a series.
LEMMA CreatedWhenAsked ==
  ASSUME SeriesInv, NEW c \in Clients, request[c] # Idle
  PROVE  series # NotCreated
BY DEF SeriesInv, NothingBefore

LEMMA TickInv ==
  ASSUME SeriesInv, Tick
  PROVE  SeriesInv'
<1>1. now' \in Nat /\ UNCHANGED <<database, series, rows, editor, request>>
  BY DEF Tick, SeriesInv, SeriesTypeOK
<1>. QED
  BY <1>1 DEF SeriesInv, SeriesTypeOK, NothingBefore, Locked, SeenSince, OneSeriesTransaction, Active,
     ScheduleIsReflected, RowsFollowTheSchedule, MachineCancellationsAreTrue

LEMMA CreateSeriesInv ==
  ASSUME SeriesInv, CreateSeries
  PROVE  SeriesInv'
<1>1. PICK s \in Schedules :
        /\ series' = [dates |-> s.dates, time |-> s.time, editedAt |-> now]
        /\ rows' = [d \in Dates |-> IF d \in s.dates THEN ScheduledAt(d, s.time) ELSE NoRow]
  BY DEF CreateSeries
<1>2. /\ \A c \in Clients : request[c] = Idle
      /\ UNCHANGED <<database, now, editor, request>>
  BY DEF CreateSeries, SeriesInv, NothingBefore
<1>3. /\ s.dates \in (SUBSET Dates) \ {{}} /\ s.time \in Times /\ now \in Nat
  BY DEF Schedules, SeriesInv, SeriesTypeOK
<1>4. /\ series' \in [dates : (SUBSET Dates) \ {{}}, time : Times, editedAt : Nat]
      /\ series'.dates = s.dates /\ series'.time = s.time
  BY <1>1, <1>3
<1>5. series' # NotCreated
  <2>1. NotCreated.dates = {} /\ s.dates # {}
    BY <1>3 DEF NotCreated
  <2>. QED  BY <1>4, <2>1
<1>6. /\ rows' \in [Dates -> Row]
      /\ \A d \in s.dates : rows'[d] = ScheduledAt(d, s.time)
      /\ \A d \in Dates \ s.dates : rows'[d] = NoRow
  BY <1>1, <1>3, ScheduledIs DEF Row
<1>7. SeriesTypeOK'
  BY <1>2, <1>4, <1>6 DEF SeriesInv, SeriesTypeOK, Row
<1>8. NothingBefore' /\ SeenSince' /\ Locked' /\ OneSeriesTransaction'
  BY <1>2, <1>5, IdleIs DEF SeriesInv, NothingBefore, SeenSince, Locked, OneSeriesTransaction, Active
<1>9. ScheduleIsReflected'
  <2>1. \A d \in Dates : d \in s.dates =>
          /\ HasRow(rows'[d]) /\ rows'[d].startsAt = InstantFromWallTime(d, s.time)
          /\ ~ByMachine(rows'[d])
    BY <1>3, <1>6, ScheduledIs
  <2>2. \A d \in Dates : d \notin s.dates => rows'[d].status # "scheduled"
    BY <1>6, NoRowIs
  <2>. QED
    BY <1>3, <1>4, <2>1, <2>2 DEF ScheduleIsReflected, RowsFollowTheSchedule,
       MachineCancellationsAreTrue
<1>. QED  BY <1>2, <1>7, <1>8, <1>9 DEF SeriesInv

LEMMA BeginEditInv ==
  ASSUME SeriesInv, NEW c \in Clients, BeginEdit(c)
  PROVE  SeriesInv'
<1>1. PICK s \in Schedules :
        TakeOn(c, [op |-> "edit", schedule |-> s, now |-> now, seen |-> [d \in Dates |-> NoRow]])
  BY DEF BeginEdit
<1> DEFINE r == [op |-> "edit", schedule |-> s, now |-> now, seen |-> [d \in Dates |-> NoRow]]
<1>2. r \in Requests /\ r.op = "edit"
  <2>1. [d \in Dates |-> NoRow] \in [Dates -> OccurrenceRow \cup {NoRow}] /\ now \in Nat
    BY DEF SeriesInv, SeriesTypeOK
  <2>. QED  BY <2>1 DEF Requests, AskedToEdit
<1>. HIDE DEF r
<1>3. /\ request' \in [Clients -> Requests] /\ request'[c] = r
      /\ \A b \in Clients \ {c} : request'[b] = request[b]
  BY <1>1, <1>2, Takes DEF r
<1>4. /\ request[c] = Idle /\ series # NotCreated /\ TransactionMayBegin(request)
      /\ UNCHANGED <<database, now, series, rows, editor>>
  BY DEF BeginEdit
<1>5. SeriesTypeOK' /\ ScheduleIsReflected'
  BY <1>3, <1>4 DEF SeriesInv, SeriesTypeOK, Requests, ScheduleIsReflected,
     RowsFollowTheSchedule, MachineCancellationsAreTrue
<1>6. NothingBefore' /\ Locked' /\ SeenSince'
  BY <1>2, <1>3, <1>4, IdleIs DEF SeriesInv, NothingBefore, Locked, SeenSince
<1>7. ASSUME database = "sqlite" PROVE OneSeriesTransaction'
  <2>1. \A b \in Clients : b # c => request'[b] = Idle
    BY <1>3, <1>4, <1>7, SeriesMayBegin
  <2>. QED  BY <1>2, <1>3, <2>1, IdleIs DEF OneSeriesTransaction, Active
<1>8. OneSeriesTransaction'
  BY <1>4, <1>7 DEF OneSeriesTransaction
<1>. QED  BY <1>4, <1>5, <1>6, <1>8 DEF SeriesInv

LEMMA ReadOccurrencesInv ==
  ASSUME SeriesInv, NEW c \in Clients, ReadOccurrences(c)
  PROVE  SeriesInv'
<1> DEFINE r == [request[c] EXCEPT !.op = "editing", !.seen = rows]
<1>1. /\ request[c].op = "edit" /\ editor = NoClient /\ editor' = c /\ TakeOn(c, r)
      /\ UNCHANGED <<database, now, series, rows>>
  BY DEF ReadOccurrences, SeriesIsFree
<1>2. request[c] \in AskedToEdit /\ request[c] # Idle /\ rows \in [Dates -> OccurrenceRow \cup {NoRow}]
  BY <1>1, IdleIs DEF SeriesInv, SeriesTypeOK, AskedToCancel
<1>3. ASSUME NEW q \in AskedToEdit, NEW seen \in [Dates -> OccurrenceRow \cup {NoRow}]
      PROVE  /\ [q EXCEPT !.op = "editing", !.seen = seen] \in AskedToEdit
             /\ [q EXCEPT !.op = "editing", !.seen = seen].op = "editing"
             /\ [q EXCEPT !.op = "editing", !.seen = seen].seen = seen
  BY DEF AskedToEdit
<1>4. r \in Requests /\ r.op = "editing" /\ r.seen = rows
  BY <1>2, <1>3 DEF Requests
<1>5. /\ request' \in [Clients -> Requests] /\ request'[c] = r
      /\ \A b \in Clients \ {c} : request'[b] = request[b]
  <2>. HIDE DEF r
  <2>. QED  BY <1>1, <1>4, Takes
<1>. HIDE DEF r
<1>6. SeriesTypeOK' /\ ScheduleIsReflected'
  BY <1>1, <1>5 DEF SeriesInv, SeriesTypeOK, Requests, ScheduleIsReflected,
     RowsFollowTheSchedule, MachineCancellationsAreTrue
<1>7. NothingBefore'
  BY <1>1, <1>2 DEF SeriesInv, NothingBefore
<1>8. Locked'
  BY <1>1, <1>4, <1>5, SeriesConstantsOK DEF SeriesInv, Locked
<1>9. SeenSince'
  <2>1. \A d \in Dates : Since(rows[d], rows[d])
    BY DEF Since
  <2>. QED  BY <1>1, <1>4, <1>5, <2>1 DEF SeriesInv, SeenSince
<1>10. OneSeriesTransaction'
  BY <1>1, <1>2, <1>4, <1>5 DEF SeriesInv, OneSeriesTransaction, Active
<1>. QED  BY <1>1, <1>6, <1>7, <1>8, <1>9, <1>10 DEF SeriesInv

\* What the commit of an edit does to the row of a date.
LEMMA ReconcileRows ==
  ASSUME SeriesInv, NEW c \in Clients, ReconcileOccurrences(c)
  PROVE  /\ request[c] \in AskedToEdit /\ request[c].op = "editing" /\ editor = c
         /\ request[c].schedule \in Schedules /\ request[c].now \in Nat
         /\ rows' \in [Dates -> Row]
         /\ \A d \in Dates :
              IF d \in request[c].schedule.dates
                THEN /\ rows'[d] \in OccurrenceRow
                     /\ rows'[d].startsAt = InstantFromWallTime(d, request[c].schedule.time)
                     /\ ByMachine(rows'[d]) => rows'[d].startsAt <= request[c].now
                ELSE ~(rows'[d].status = "scheduled" /\ rows'[d].startsAt > request[c].now)
         /\ \A d \in Dates : HasRow(rows[d]) => HasRow(rows'[d])
         /\ \A d \in Dates : request[c].seen = rows /\ ByHuman(rows[d]) =>
              ByHuman(rows'[d]) /\ rows'[d].reason = rows[d].reason
<1>1. request[c] \in AskedToEdit /\ request[c].op = "editing" /\ editor = c
  BY IdleIs DEF ReconcileOccurrences, SeriesInv, SeriesTypeOK, AskedToCancel, Locked
<1>2. /\ request[c].schedule \in Schedules /\ request[c].now \in Nat
      /\ request[c].schedule.time \in Times
      /\ request[c].seen \in [Dates -> Row]
  BY <1>1 DEF AskedToEdit, Schedules, Row
<1>3. rows \in [Dates -> Row]
  BY DEF SeriesInv, SeriesTypeOK, Row
<1>4. rows' = Reconciled(request[c])
  BY DEF ReconcileOccurrences
<1>5. ASSUME NEW d \in Dates
      PROVE  /\ rows'[d] \in Row
             /\ IF d \in request[c].schedule.dates
                  THEN /\ rows'[d] \in OccurrenceRow
                       /\ rows'[d].startsAt = InstantFromWallTime(d, request[c].schedule.time)
                       /\ ByMachine(rows'[d]) => rows'[d].startsAt <= request[c].now
                  ELSE ~(rows'[d].status = "scheduled" /\ rows'[d].startsAt > request[c].now)
             /\ HasRow(rows[d]) => HasRow(rows'[d])
             /\ request[c].seen = rows /\ ByHuman(rows[d]) =>
                  ByHuman(rows'[d]) /\ rows'[d].reason = rows[d].reason
  <2> DEFINE was == request[c].seen[d]
             is == rows[d]
             t == request[c].schedule.time
             at == request[c].now
  <2>1. /\ was \in Row /\ is \in Row /\ Since(was, is) /\ t \in Times /\ at \in Nat
        /\ request[c].seen = rows => was = is
    BY <1>1, <1>2, <1>3 DEF SeriesInv, SeenSince
  <2>2. rows'[d] = IF d \in request[c].schedule.dates
                     THEN Keep(was, is, d, t, at) ELSE Drop(was, is, at)
    BY <1>4 DEF Reconciled
  <2>. HIDE DEF was, is, t, at
  <2>3. CASE d \in request[c].schedule.dates
    <3>1. /\ rows'[d] \in OccurrenceRow
          /\ rows'[d].startsAt = InstantFromWallTime(d, t)
          /\ ByMachine(rows'[d]) => rows'[d].startsAt <= at
          /\ was = is /\ ByHuman(is) => ByHuman(rows'[d]) /\ rows'[d].reason = is.reason
      BY <2>1, <2>2, <2>3, KeepIs
    <3>2. rows'[d] \in Row /\ HasRow(rows'[d])
      BY <3>1, RowIs DEF Row
    <3>. QED  BY <2>1, <2>3, <3>1, <3>2 DEF is, t, at
  <2>4. CASE d \notin request[c].schedule.dates
    <3>1. /\ rows'[d] \in Row
          /\ ~(rows'[d].status = "scheduled" /\ rows'[d].startsAt > at)
          /\ HasRow(is) => HasRow(rows'[d])
          /\ was = is /\ ByHuman(is) => rows'[d] = is
      BY <2>1, <2>2, <2>4, DropIs
    <3>. QED  BY <2>1, <2>4, <3>1 DEF is, at
  <2>. QED  BY <2>3, <2>4
<1>6. rows' \in [Dates -> Row]
  BY <1>4, <1>5 DEF Reconciled
<1>. QED
  BY <1>1, <1>2, <1>5, <1>6

LEMMA ReconcileOccurrencesInv ==
  ASSUME SeriesInv, NEW c \in Clients, ReconcileOccurrences(c)
  PROVE  SeriesInv'
<1>1. /\ request[c] \in AskedToEdit /\ request[c].op = "editing" /\ editor = c
      /\ request[c].schedule \in Schedules /\ request[c].now \in Nat
      /\ rows' \in [Dates -> Row]
      /\ \A d \in Dates :
           IF d \in request[c].schedule.dates
             THEN /\ rows'[d] \in OccurrenceRow
                  /\ rows'[d].startsAt = InstantFromWallTime(d, request[c].schedule.time)
                  /\ ByMachine(rows'[d]) => rows'[d].startsAt <= request[c].now
             ELSE ~(rows'[d].status = "scheduled" /\ rows'[d].startsAt > request[c].now)
      /\ \A d \in Dates : HasRow(rows[d]) => HasRow(rows'[d])
  BY ReconcileRows
<1>2. /\ series' = [dates |-> request[c].schedule.dates,
                    time |-> request[c].schedule.time, editedAt |-> request[c].now]
      /\ editor' = NoClient /\ TakeOn(c, Idle) /\ UNCHANGED <<database, now>>
  BY DEF ReconcileOccurrences
<1>3. /\ request' \in [Clients -> Requests] /\ request'[c] = Idle
      /\ \A b \in Clients \ {c} : request'[b] = request[b]
  BY <1>2, Takes DEF Requests
<1>4. /\ request[c].schedule.dates \in (SUBSET Dates) \ {{}} /\ request[c].schedule.time \in Times
  BY <1>1 DEF Schedules
<1>5. /\ series' \in [dates : (SUBSET Dates) \ {{}}, time : Times, editedAt : Nat]
      /\ series'.dates = request[c].schedule.dates /\ series'.time = request[c].schedule.time
      /\ series'.editedAt = request[c].now
  BY <1>1, <1>2, <1>4
<1>6. series' # NotCreated
  <2>1. NotCreated.dates = {} /\ series'.dates # {}
    BY <1>4, <1>5 DEF NotCreated
  <2>. QED  BY <2>1
<1>7. SeriesTypeOK'
  BY <1>1, <1>2, <1>3, <1>5 DEF SeriesInv, SeriesTypeOK, Requests, Row
<1>8. \A b \in Clients : request'[b].op # "editing"
  BY <1>1, <1>3, IdleIs DEF SeriesInv, Locked
<1>9. NothingBefore' /\ SeenSince'
  BY <1>6, <1>8 DEF NothingBefore, SeenSince
<1>10. Locked'
  <2>1. \A b \in Clients : request'[b].op = "cancel" =>
          b # c /\ request[b].op = "cancel" /\ request[b].date \in Dates
            /\ request'[b] = request[b]
    BY <1>3, IdleIs DEF SeriesInv, SeriesTypeOK, AskedToEdit, AskedToCancel
  <2>. QED
    BY <1>1, <1>2, <1>8, <2>1, SeriesConstantsOK DEF SeriesInv, Locked
<1>11. ASSUME database = "sqlite" PROVE OneSeriesTransaction'
  <2>1. \A b \in Clients : request'[b] = Idle
    BY <1>1, <1>3, <1>11, IdleIs DEF SeriesInv, OneSeriesTransaction, Active
  <2>. QED  BY <2>1, IdleIs DEF OneSeriesTransaction, Active
<1>12. OneSeriesTransaction'
  BY <1>2, <1>11 DEF OneSeriesTransaction
<1>13. ScheduleIsReflected'
  <2>1. \A d \in Dates : rows'[d] \in OccurrenceRow => HasRow(rows'[d])
    BY RowIs DEF Row
  <2>. QED
    BY <1>1, <1>4, <1>5, <2>1 DEF ScheduleIsReflected, RowsFollowTheSchedule,
       MachineCancellationsAreTrue
<1>. QED
  BY <1>2, <1>7, <1>9, <1>10, <1>12, <1>13 DEF SeriesInv

LEMMA BeginCancelInv ==
  ASSUME SeriesInv, NEW c \in Clients, BeginCancel(c)
  PROVE  SeriesInv'
<1>1. PICK d \in Dates, why \in Reasons :
        /\ rows[d].status = "scheduled" \/ ByMachine(rows[d])
        /\ TakeOn(c, [op |-> "cancel", date |-> d, reason |-> why])
  BY DEF BeginCancel
<1> DEFINE r == [op |-> "cancel", date |-> d, reason |-> why]
<1>2. r \in Requests /\ r.op = "cancel" /\ r.date = d
  BY DEF Requests, AskedToCancel
<1>. HIDE DEF r
<1>3. /\ request' \in [Clients -> Requests] /\ request'[c] = r
      /\ \A b \in Clients \ {c} : request'[b] = request[b]
  BY <1>1, <1>2, Takes DEF r
<1>4. /\ request[c] = Idle /\ TransactionMayBegin(request)
      /\ UNCHANGED <<database, now, series, rows, editor>>
  BY DEF BeginCancel
<1>5. /\ HasRow(rows[d]) /\ ~ByHuman(rows[d])
  BY <1>1, NoRowIs DEF HasRow, ByMachine, ByHuman
<1>6. SeriesTypeOK' /\ ScheduleIsReflected'
  BY <1>3, <1>4 DEF SeriesInv, SeriesTypeOK, Requests, ScheduleIsReflected,
     RowsFollowTheSchedule, MachineCancellationsAreTrue
<1>7. NothingBefore'
  BY <1>4, <1>5, NoRowIs DEF SeriesInv, NothingBefore
<1>8. Locked' /\ SeenSince'
  BY <1>2, <1>3, <1>4, <1>5, IdleIs DEF SeriesInv, Locked, SeenSince
<1>9. ASSUME database = "sqlite" PROVE OneSeriesTransaction'
  <2>1. \A b \in Clients : b # c => request'[b] = Idle
    BY <1>3, <1>4, <1>9, SeriesMayBegin
  <2>. QED  BY <1>2, <1>3, <1>4, <1>5, <2>1, IdleIs DEF OneSeriesTransaction, Active
<1>10. OneSeriesTransaction'
  BY <1>4, <1>9 DEF OneSeriesTransaction
<1>. QED  BY <1>4, <1>6, <1>7, <1>8, <1>10 DEF SeriesInv

\* A cancellation by a human: the date is off the calendar, at the same instant
\* and not by the machine.
LEMMA CancelRows ==
  ASSUME SeriesInv, NEW c \in Clients, WriteCancel(c)
  PROVE  /\ request[c].date \in Dates /\ request[c].op = "cancel"
         /\ rows' \in [Dates -> Row]
         /\ \A d \in Dates \ {request[c].date} : rows'[d] = rows[d]
         /\ HasRow(rows'[request[c].date])
         /\ rows'[request[c].date].startsAt = rows[request[c].date].startsAt
         /\ rows'[request[c].date].status = "cancelled"
         /\ ~ByMachine(rows'[request[c].date])
<1>1. request[c] \in AskedToCancel /\ request[c].op = "cancel"
  BY IdleIs DEF WriteCancel, SeriesInv, SeriesTypeOK, AskedToEdit
<1> DEFINE d == request[c].date
           why == request[c].reason
           is == rows[d]
           n == Cancelled(is, why)
<1>2. d \in Dates /\ why \in Reasons
  BY <1>1 DEF AskedToCancel
<1>3. rows \in [Dates -> Row] /\ is \in OccurrenceRow
  BY <1>1, <1>2, RowIs DEF SeriesInv, SeriesTypeOK, Locked, Row
<1>4. rows' = [rows EXCEPT ![d] = n]
  BY DEF WriteCancel
<1>. HIDE DEF d, why, is
<1>5. n \in OccurrenceRow /\ n.startsAt = is.startsAt /\ n.status = "cancelled" /\ n.reason = why
  BY <1>2, <1>3 DEF Cancelled, OccurrenceRow
<1>. HIDE DEF n
<1>6. HasRow(n) /\ ~ByMachine(n) /\ n \in Row
  BY <1>2, <1>5, RowIs, SeriesConstantsOK DEF Row, ByMachine
<1>7. rows' \in [Dates -> Row] /\ rows'[d] = n /\ \A e \in Dates \ {d} : rows'[e] = rows[e]
  BY <1>2, <1>3, <1>4, <1>6
<1>. QED
  BY <1>1, <1>2, <1>5, <1>6, <1>7 DEF d, is

LEMMA WriteCancelInv ==
  ASSUME SeriesInv, NEW c \in Clients, WriteCancel(c)
  PROVE  SeriesInv'
<1>1. PICK d \in Dates :
        /\ d = request[c].date /\ request[c].op = "cancel"
        /\ rows' \in [Dates -> Row]
        /\ \A e \in Dates \ {d} : rows'[e] = rows[e]
        /\ HasRow(rows'[d]) /\ HasRow(rows[d])
        /\ rows'[d].startsAt = rows[d].startsAt
        /\ rows'[d].status = "cancelled" /\ ~ByMachine(rows'[d])
  BY CancelRows DEF SeriesInv, Locked
<1>2. TakeOn(c, Idle) /\ UNCHANGED <<database, now, series, editor>>
  BY DEF WriteCancel
<1>3. /\ request' \in [Clients -> Requests] /\ request'[c] = Idle
      /\ \A b \in Clients \ {c} : request'[b] = request[b]
  BY <1>2, Takes DEF Requests
<1>4. series # NotCreated
  BY <1>1, CreatedWhenAsked, IdleIs
<1>5. SeriesTypeOK' /\ NothingBefore'
  BY <1>1, <1>2, <1>3, <1>4 DEF SeriesInv, SeriesTypeOK, Requests, Row, NothingBefore
<1>6. Locked'
  BY <1>1, <1>2, <1>3, IdleIs DEF SeriesInv, SeriesTypeOK, AskedToCancel, AskedToEdit, Locked
<1>7. SeenSince'
  BY <1>1, <1>3, IdleIs DEF SeriesInv, SeenSince, Since
<1>8. ASSUME database = "sqlite" PROVE OneSeriesTransaction'
  <2>1. \A b \in Clients : request'[b] = Idle
    BY <1>1, <1>3, <1>8, IdleIs DEF SeriesInv, OneSeriesTransaction, Active
  <2>. QED  BY <2>1, IdleIs DEF OneSeriesTransaction, Active
<1>9. OneSeriesTransaction'
  BY <1>2, <1>8 DEF OneSeriesTransaction
<1>10. ScheduleIsReflected'
  <2>1. \A e \in Dates :
          /\ HasRow(rows[e]) => HasRow(rows'[e])
          /\ rows'[e].startsAt = rows[e].startsAt
          /\ rows'[e].status = "scheduled" => rows[e].status = "scheduled"
          /\ ByMachine(rows'[e]) => ByMachine(rows[e])
    BY <1>1
  <2>2. series.dates \subseteq Dates
    BY <1>4 DEF SeriesInv, SeriesTypeOK
  <2>3. RowsFollowTheSchedule'
    BY <1>2, <2>1 DEF SeriesInv, ScheduleIsReflected, RowsFollowTheSchedule
  <2>4. MachineCancellationsAreTrue'
    BY <1>2, <2>1, <2>2 DEF SeriesInv, ScheduleIsReflected, MachineCancellationsAreTrue
  <2>. QED  BY <2>3, <2>4 DEF ScheduleIsReflected
<1>. QED  BY <1>2, <1>5, <1>6, <1>7, <1>9, <1>10 DEF SeriesInv

LEMMA AbortSeriesInv ==
  ASSUME SeriesInv, NEW c \in Clients, AbortSeries(c)
  PROVE  SeriesInv'
<1>1. /\ request[c].op \in {"edit", "editing", "cancel"}
      /\ editor' = IF editor = c THEN NoClient ELSE editor
      /\ TakeOn(c, Idle) /\ UNCHANGED <<database, now, series, rows>>
  BY DEF AbortSeries
<1>2. /\ request' \in [Clients -> Requests] /\ request'[c] = Idle
      /\ \A b \in Clients \ {c} : request'[b] = request[b]
  BY <1>1, Takes DEF Requests
<1>3. series # NotCreated
  BY <1>1, CreatedWhenAsked, IdleIs
<1>4. SeriesTypeOK' /\ NothingBefore' /\ ScheduleIsReflected'
  BY <1>1, <1>2, <1>3 DEF SeriesInv, SeriesTypeOK, Requests, NothingBefore, ScheduleIsReflected,
     RowsFollowTheSchedule, MachineCancellationsAreTrue
<1>5. Locked' /\ SeenSince'
  BY <1>1, <1>2, IdleIs, SeriesConstantsOK DEF SeriesInv, Locked, SeenSince
<1>6. OneSeriesTransaction'
  BY <1>1, <1>2, IdleIs DEF SeriesInv, OneSeriesTransaction, Active
<1>. QED  BY <1>1, <1>4, <1>5, <1>6 DEF SeriesInv

LEMMA SeriesNextInv == SeriesInv /\ [SeriesNext]_seriesVars => SeriesInv'
<1> SUFFICES ASSUME SeriesInv, [SeriesNext]_seriesVars PROVE SeriesInv'
  OBVIOUS
<1>1. CASE UNCHANGED seriesVars
  BY <1>1 DEF seriesVars, SeriesInv, SeriesTypeOK, NothingBefore, Locked, SeenSince, OneSeriesTransaction,
     Active, ScheduleIsReflected, RowsFollowTheSchedule, MachineCancellationsAreTrue
<1>. QED
  BY <1>1, TickInv, CreateSeriesInv, BeginEditInv, ReadOccurrencesInv, ReconcileOccurrencesInv,
     BeginCancelInv, WriteCancelInv, AbortSeriesInv DEF SeriesNext

LEMMA SeriesInvariant == SeriesSpec => []SeriesInv
BY SeriesInitInv, SeriesNextInv, PTL DEF SeriesSpec

----------------------------------------------------------------------------
(* The theorems *)

\* Every variable of the series keeps its type.
THEOREM SeriesTypeCorrect == SeriesSpec => []SeriesTypeOK
<1>1. SeriesInv => SeriesTypeOK
  BY DEF SeriesInv
<1>. QED  BY <1>1, SeriesInvariant, PTL

\* updateSeries reconciles by date under the lock of the series' row: whatever
\* cancellations and other edits overlap it, the calendar is what the last edit
\* said, and the reserved reason is on no date that edit named ahead of time.
THEOREM CalendarIsTheSchedule == SeriesSpec => []ScheduleIsReflected
<1>1. SeriesInv => ScheduleIsReflected
  BY DEF SeriesInv
<1>. QED  BY <1>1, SeriesInvariant, PTL

\* cancelOccurrence and updateSeries on SQLite: a cancellation by a human is
\* never reversed and keeps its first reason.
THEOREM HumanCancellationsStand == SeriesSpec => HumanCancellationStandsOnSQLite
<1>1. ASSUME SeriesInv, [SeriesNext]_seriesVars, database = "sqlite",
             NEW d \in Dates, ByHuman(rows[d])
      PROVE  ByHuman(rows'[d]) /\ rows'[d].reason = rows[d].reason
  <2>1. CASE rows' = rows
    BY <1>1, <2>1
  <2>2. CASE CreateSeries
    BY <1>1, <2>2, NoRowIs DEF CreateSeries, SeriesInv, NothingBefore
  <2>3. ASSUME NEW c \in Clients, ReconcileOccurrences(c)
        PROVE  ByHuman(rows'[d]) /\ rows'[d].reason = rows[d].reason
    <3>1. request[c].seen = rows
      BY <1>1, <2>3 DEF SeriesInv, OneSeriesTransaction, ReconcileOccurrences
    <3>. QED  BY <1>1, <2>3, <3>1, ReconcileRows
  <2>4. ASSUME NEW c \in Clients, WriteCancel(c)
        PROVE  ByHuman(rows'[d]) /\ rows'[d].reason = rows[d].reason
    <3>1. d # request[c].date
      BY <1>1, <2>4 DEF SeriesInv, OneSeriesTransaction, WriteCancel
    <3>. QED  BY <1>1, <2>4, <3>1, CancelRows
  <2>. QED
    BY <1>1, <2>1, <2>2, <2>3, <2>4 DEF SeriesNext, seriesVars, Tick, BeginEdit, ReadOccurrences,
       BeginCancel, AbortSeries
<1>2. SeriesInv /\ [SeriesNext]_seriesVars =>
        (database = "sqlite" =>
           \A d \in Dates :
             ByHuman(rows[d]) => ByHuman(rows'[d]) /\ rows'[d].reason = rows[d].reason)
  BY <1>1
<1>. QED
  BY <1>2, SeriesInvariant, PTL DEF SeriesSpec, HumanCancellationStandsOnSQLite

----------------------------------------------------------------------------
(* What the policy computes *)

\* strongestTeamRole (policies.ts) is one of the roles held, and "owner" when
\* that is among them.
LEMMA StrongestRole ==
  ASSUME NEW roles \in SUBSET Roles, roles # {}
  PROVE  /\ Strongest(roles) \in roles
         /\ "owner" \in roles => Strongest(roles) = "owner"
<1>1. RoleRank["owner"] = 3 /\ RoleRank["coach"] = 2 /\ RoleRank["adult"] = 1
  BY DEF RoleRank
<1>2. \A q \in roles : q = "owner" \/ q = "coach" \/ q = "adult"
  BY DEF Roles
<1>3. \E r \in roles : \A q \in roles : RoleRank[q] <= RoleRank[r]
  <2>1. CASE "owner" \in roles
    <3>1. \A q \in roles : RoleRank[q] <= RoleRank["owner"]
      BY <1>1, <1>2
    <3>. QED  BY <2>1, <3>1
  <2>2. CASE "owner" \notin roles /\ "coach" \in roles
    <3>1. \A q \in roles : RoleRank[q] <= RoleRank["coach"]
      BY <1>1, <1>2, <2>2
    <3>. QED  BY <2>2, <3>1
  <2>3. CASE "owner" \notin roles /\ "coach" \notin roles
    <3>1. \A q \in roles : q = "adult"
      BY <1>2, <2>3
    <3>2. \A q \in roles : RoleRank[q] <= RoleRank["adult"]
      BY <1>1, <3>1
    <3>. QED  BY <3>1, <3>2
  <2>. QED  BY <2>1, <2>2, <2>3
<1>4. /\ Strongest(roles) \in roles
      /\ \A q \in roles : RoleRank[q] <= RoleRank[Strongest(roles)]
  BY <1>3 DEF Strongest
<1>. QED
  BY <1>1, <1>2, <1>4

LEMMA HeldRolesAreRoles ==
  ASSUME AccessTypeOK, NEW p \in People, NEW t \in Teams
  PROVE  HeldRoles(p, t) \subseteq Roles
BY DEF AccessTypeOK, HeldRoles, Roles

\* teamAccess and ownedActiveTeam (teams.ts): an adult may delegate exactly
\* with an active account and the owner's role, by creation or by grant.
LEMMA DelegatesOwn ==
  ASSUME AccessTypeOK, NEW p \in People, NEW t \in Teams
  PROVE  MayDelegate(p, t) <=>
           /\ p \in active /\ creator[t] # Nobody
           /\ "owner" \in HeldRoles(p, t)
<1>1. HeldRoles(p, t) \subseteq Roles
  BY HeldRolesAreRoles
<1>2. ASSUME HeldRoles(p, t) # {}
      PROVE  /\ Strongest(HeldRoles(p, t)) \in HeldRoles(p, t)
             /\ "owner" \in HeldRoles(p, t) => Strongest(HeldRoles(p, t)) = "owner"
  BY <1>1, <1>2, StrongestRole
<1>3. InScope(t, NoSeason, NoChild) <=> creator[t] # Nobody
  BY DEF InScope
<1>4. ~GuardianPermits(p, "memberships.manage", NoChild)
  BY DEF GuardianPermits
<1>5. ASSUME NEW role
      PROVE  /\ RolePermits(role, "team.read")
             /\ RolePermits(role, "memberships.manage") <=> role = "owner"
  BY DEF RolePermits, Reads, Operates, Delegates
<1>. QED
  BY <1>2, <1>3, <1>4, <1>5 DEF MayDelegate, MayRead, Allowed

----------------------------------------------------------------------------
(* Types *)

\* Every row of teams, seasons, grants, rosters and edges keeps its type.
THEOREM AccessTypeCorrect == AccessSpec => []AccessTypeOK
<1>1. AccessInit => AccessTypeOK
  BY DEF AccessInit, AccessTypeOK
<1>2. AccessTypeOK /\ [AccessNext]_accessVars => AccessTypeOK'
  <2>. SUFFICES ASSUME AccessTypeOK, [AccessNext]_accessVars
                PROVE  AccessTypeOK'
    OBVIOUS
  <2>. USE DEF AccessTypeOK
  <2>1. CASE UNCHANGED accessVars
    BY <2>1 DEF accessVars
  <2>2. ASSUME NEW p \in People, NEW t \in Teams,
               RegisterAdult(p) \/ DisableAdult(p) \/ CreateTeam(p, t)
        PROVE  AccessTypeOK'
    BY <2>2 DEF RegisterAdult, DisableAdult, CreateTeam
  <2>3. ASSUME NEW p \in People, NEW t \in Teams, NEW q \in People,
               NEW role \in {"coach", "adult"}, SetCoCoachRole(p, t, q, role)
        PROVE  AccessTypeOK'
    <3>1. grants' \subseteq [team : Teams, person : People, role : Roles]
      BY <2>3 DEF SetCoCoachRole, Roles
    <3>. QED  BY <2>3, <3>1 DEF SetCoCoachRole
  <2>4. ASSUME NEW p \in People, NEW t \in Teams, NEW role \in Roles, AcceptGrant(p, t, role)
        PROVE  AccessTypeOK'
    BY <2>4 DEF AcceptGrant
  <2>5. ASSUME NEW p \in People, NEW t \in Teams, NEW s \in Seasons,
               CreateSeason(p, t, s) \/ SetAgeBand(p, t, s)
        PROVE  AccessTypeOK'
    BY <2>5 DEF CreateSeason, SetAgeBand
  <2>6. ASSUME NEW p \in People, NEW t \in Teams, NEW s \in Seasons, NEW k \in Children,
               AddChild(p, t, s, k)
        PROVE  AccessTypeOK'
    BY <2>6 DEF AddChild
  <2>7. ASSUME NEW p \in People, NEW t \in Teams, NEW s \in Seasons, NEW k \in Children,
               NEW perms \in SUBSET EdgePermissions, BindGuardian(p, t, s, k, perms)
        PROVE  AccessTypeOK'
    BY <2>7 DEF BindGuardian
  <2>. QED
    BY <2>1, <2>2, <2>3, <2>4, <2>5, <2>6, <2>7 DEF AccessNext
<1>. QED  BY <1>1, <1>2, PTL DEF AccessSpec

----------------------------------------------------------------------------
(* Authority *)

\* A state in which the rows have their types has no authority across teams.
LEMMA PolicyStaysInTheTeam == AccessTypeOK => AuthorityStaysInTheTeam
<1>. SUFFICES ASSUME AccessTypeOK, NEW p \in active, NEW t \in Teams
              PROVE  /\ creator[t] # p /\ (~\E g \in grants : g.team = t /\ g.person = p) =>
                          \A perm \in Permissions, s \in Seasons \cup {NoSeason},
                             k \in Children \cup {NoChild} : ~Allowed(p, perm, t, s, k)
                     /\ \A s \in Seasons \cup {NoSeason}, k \in Children, perm \in EdgePermissions :
                          Allowed(p, perm, t, s, k) =>
                            /\ \E r \in rostered : r.child = k /\ seasonOf[r.season] = t
                            /\ \/ MayManage(p, t)
                               \/ \E e \in edges : e.guardian = p /\ e.child = k /\ perm \in e.permissions
  BY DEF AuthorityStaysInTheTeam
<1>0. p \in People /\ HeldRoles(p, t) \subseteq Roles
  BY HeldRolesAreRoles DEF AccessTypeOK
<1>1. ASSUME creator[t] # p, ~\E g \in grants : g.team = t /\ g.person = p
      PROVE  HeldRoles(p, t) = {}
  BY <1>1 DEF HeldRoles
<1>2. ASSUME NEW s \in Seasons \cup {NoSeason}, NEW k \in Children, NEW perm \in EdgePermissions,
             Allowed(p, perm, t, s, k)
      PROVE  /\ \E r \in rostered : r.child = k /\ seasonOf[r.season] = t
             /\ \/ MayManage(p, t)
                \/ \E e \in edges : e.guardian = p /\ e.child = k /\ perm \in e.permissions
  <2>1. k # NoChild
    BY AccessConstantsOK
  <2>2. s # NoSeason /\ seasonOf[s] = t /\ [season |-> s, child |-> k] \in rostered
    BY <1>2, <2>1 DEF Allowed, InScope, OnRoster
  <2>3. CASE GuardianPermits(p, perm, k)
    BY <2>2, <2>3 DEF GuardianPermits, EdgePermissions
  <2>4. CASE RolePermits(Strongest(HeldRoles(p, t)), perm)
    <3>1. Strongest(HeldRoles(p, t)) \in {"owner", "coach"}
      BY <2>4 DEF RolePermits, EdgePermissions, Reads, Operates, Delegates
    <3>2. /\ RolePermits(Strongest(HeldRoles(p, t)), "team.read")
          /\ RolePermits(Strongest(HeldRoles(p, t)), "team.operations.manage")
      BY <3>1 DEF RolePermits, Reads, Operates
    <3>3. InScope(t, NoSeason, NoChild)
      BY <1>2 DEF Allowed, InScope
    <3>4. MayManage(p, t)
      BY <1>2, <3>2, <3>3 DEF MayManage, MayRead, Allowed
    <3>. QED  BY <2>2, <3>4
  <2>. QED  BY <1>2, <2>3, <2>4 DEF Allowed
<1>. QED  BY <1>1, <1>2 DEF Allowed

\* evaluatePolicy (policies.ts) with the evidence of authorization.ts: what an
\* adult holds in another team, or about a child who plays elsewhere, opens
\* nothing in this one.
THEOREM AuthorityIsLocal == AccessSpec => []AuthorityStaysInTheTeam
BY AccessTypeCorrect, PolicyStaysInTheTeam, PTL

\* No step takes an owner's role: setCoCoachRole (teams.ts) refuses owners, an
\* acceptance only raises, and a team keeps its creator.
LEMMA OwnersStay ==
  ASSUME AccessTypeOK, [AccessNext]_accessVars, NEW q \in People, NEW u \in Teams,
         creator[u] # Nobody, "owner" \in HeldRoles(q, u)
  PROVE  creator'[u] # Nobody /\ "owner" \in HeldRoles(q, u)'
<1>0. \/ creator[u] = q
      \/ \E g \in grants : g.team = u /\ g.person = q /\ g.role = "owner"
  BY DEF HeldRoles
<1>1. SUFFICES /\ creator'[u] = creator[u]
               /\ \A g \in grants : g.team = u /\ g.person = q /\ g.role = "owner" => g \in grants'
                                      \/ creator[u] = q
  BY <1>0, <1>1 DEF HeldRoles
<1>2. CASE creator' = creator /\ grants' = grants
  BY <1>2
<1>3. ASSUME NEW p \in People, NEW t \in Teams, CreateTeam(p, t)
      PROVE  creator'[u] = creator[u] /\ grants' = grants
  BY <1>3 DEF CreateTeam, AccessTypeOK
<1>4. ASSUME NEW p \in People, NEW t \in Teams, NEW r \in People,
             NEW role \in {"coach", "adult"}, SetCoCoachRole(p, t, r, role)
      PROVE  /\ creator' = creator
             /\ \A g \in grants : g.team = u /\ g.person = q /\ g.role = "owner" => g \in grants'
  <2>1. ASSUME NEW g \in grants, g.team = u, g.person = q, g.role = "owner"
        PROVE  ~(g.team = t /\ g.person = r)
    BY <1>4, <2>1 DEF SetCoCoachRole, KeepsRole, HeldRoles
  <2>. QED  BY <1>4, <2>1 DEF SetCoCoachRole
<1>5. ASSUME NEW p \in People, NEW t \in Teams, NEW role \in Roles, AcceptGrant(p, t, role)
      PROVE  /\ creator' = creator
             /\ \A g \in grants : g.team = u /\ g.person = q /\ g.role = "owner" => g \in grants'
  <2>1. ASSUME NEW g \in grants, g.team = u, g.person = q, g.role = "owner"
        PROVE  ~(g.team = t /\ g.person = p)
    BY <1>5, <2>1 DEF AcceptGrant, Roles, RoleRank
  <2>. QED  BY <1>5, <2>1 DEF AcceptGrant
<1>. QED
  BY <1>2, <1>3, <1>4, <1>5 DEF AccessNext, accessVars, RegisterAdult, DisableAdult,
     CreateSeason, SetAgeBand, AddChild, BindGuardian

\* A team is never left without an adult who may delegate: co-coach edits and
\* acceptances demote no owner (teams.ts, invitations.ts).
THEOREM OwnersDelegate == AccessSpec => DelegatesAreNeverDemoted
<1>1. AccessTypeOK /\ AccessTypeOK' /\ [AccessNext]_accessVars =>
        [\A p \in People, t \in Teams :
           MayDelegate(p, t) /\ p \in active' => MayDelegate(p, t)']_accessVars
  <2>. SUFFICES ASSUME AccessTypeOK, AccessTypeOK', [AccessNext]_accessVars,
                       NEW p \in People, NEW t \in Teams, MayDelegate(p, t), p \in active'
                PROVE  MayDelegate(p, t)'
    OBVIOUS
  <2>1. creator[t] # Nobody /\ "owner" \in HeldRoles(p, t)
    BY DelegatesOwn
  <2>2. creator'[t] # Nobody /\ "owner" \in HeldRoles(p, t)'
    BY <2>1, OwnersStay
  <2>3. MayDelegate(p, t)' <=> (p \in active' /\ creator'[t] # Nobody /\ "owner" \in HeldRoles(p, t)')
    <3>1. (AccessTypeOK => (MayDelegate(p, t) <=>
             p \in active /\ creator[t] # Nobody /\ "owner" \in HeldRoles(p, t)))'
      BY DelegatesOwn, PTL
    <3>. QED  BY <3>1
  <2>. QED  BY <2>2, <2>3
<1>. QED  BY <1>1, AccessTypeCorrect, PTL DEF AccessSpec, DelegatesAreNeverDemoted

----------------------------------------------------------------------------
(* The inductive invariant *)

Answering == {"answer", "insert", "update"}
Calls == {Idle}
           \cup [op : Answering, child : Family, reply : Replies]
           \cup [op : {"read"}, rows : SUBSET AnswerRow]

\* What each handler carries is well formed, and an answer under way is its
\* adult's to give: edges are fixed, and the roster only grows.
CallsHold ==
  /\ database \in {"sqlite", "postgres"}
  /\ call \in [Grownups -> Calls]
  /\ \A p \in Grownups :
       call[p].op \in Answering => p \in Managers \/ call[p].child \in Guards(p)

\* AnswersAreOneEach without a cardinality, and with the type of shown.
RowsHold ==
  /\ attendance \subseteq AnswerRow
  /\ \A r1, r2 \in attendance : r1.child = r2.child => r1 = r2
  /\ \A r \in attendance : r.by \in Managers \/ r.child \in Guards(r.by)

ShownHolds ==
  /\ shown = [p \in Grownups |-> shown[p]]
  /\ \A p \in Grownups \ Managers : \A r \in shown[p].entries : r.child \in Guards(p)

\* On SQLite at most one handler is in a transaction, and what it checked of
\* the occurrence still holds.
OneAnswerTransaction ==
  database = "sqlite" =>
    /\ \A p, q \in Grownups : call[p] # Idle /\ call[q] # Idle => p = q
    /\ \A p \in Grownups : call[p].op \in Answering => onCalendar

AttendanceInv == CallsHold /\ RowsHold /\ ShownHolds /\ OneAnswerTransaction

LEMMA AttendanceInitInv == AttendanceInit => AttendanceInv
<1> SUFFICES ASSUME AttendanceInit PROVE AttendanceInv
  OBVIOUS
<1>1. \A p \in Grownups : call[p] = Idle /\ call[p].op \notin Answering
  BY DEF AttendanceInit, Idle, Answering
<1>2. CallsHold
  BY <1>1, DatabasesOK DEF AttendanceInit, CallsHold, Calls
<1>3. RowsHold /\ ShownHolds
  BY DEF AttendanceInit, RowsHold, ShownHolds, NothingShown
<1>4. OneAnswerTransaction
  BY <1>1 DEF OneAnswerTransaction
<1>. QED
  BY <1>2, <1>3, <1>4 DEF AttendanceInv

\* Taking a call, idle or not, changes one handler.
LEMMA TakeCallTyped ==
  ASSUME AttendanceInv, NEW p \in Grownups, NEW c \in Calls, TakeCall(p, c)
  PROVE  /\ call' \in [Grownups -> Calls]
         /\ call'[p] = c
         /\ \A q \in Grownups \ {p} : call'[q] = call[q]
BY DEF AttendanceInv, CallsHold, TakeCall

\* A handler that is idle answers nothing.
LEMMA IdleAnswersNothing ==
  ASSUME NEW c, c.op \in Answering
  PROVE  c # Idle
BY DEF Answering, Idle

----------------------------------------------------------------------------
(* One lemma for each kind of step *)

LEMMA CheckAnswerInv ==
  ASSUME AttendanceInv, NEW p \in Grownups, CheckAnswer(p)
  PROVE  AttendanceInv'
<1>1. PICK k \in Family, reply \in Replies :
        /\ MaySpeakFor(p, k)
        /\ TakeCall(p, [op |-> "answer", child |-> k, reply |-> reply])
  BY DEF CheckAnswer
<1> DEFINE c == [op |-> "answer", child |-> k, reply |-> reply]
<1>2. c \in Calls /\ c.op = "answer" /\ c.child = k
  BY DEF Calls, Answering
<1>3. /\ call' \in [Grownups -> Calls] /\ call'[p] = c
      /\ \A q \in Grownups \ {p} : call'[q] = call[q]
  <2>. HIDE DEF c
  <2>. QED  BY <1>1, <1>2, TakeCallTyped DEF c
<1>4. CallsHold'
  BY <1>1, <1>2, <1>3 DEF CheckAnswer, AttendanceInv, CallsHold, MaySpeakFor
<1>5. database = "sqlite" => \A q \in Grownups : call[q] = Idle
  BY DEF CheckAnswer, TransactionMayBegin, AttendanceInv, CallsHold
<1>6. OneAnswerTransaction'
  <2> SUFFICES ASSUME database = "sqlite" PROVE OneAnswerTransaction'
    BY DEF OneAnswerTransaction, CheckAnswer
  <2>1. \A q \in Grownups : call'[q] # Idle => q = p
    BY <1>3, <1>5
  <2>2. onCalendar'
    BY DEF CheckAnswer
  <2>. QED  BY <2>1, <2>2 DEF OneAnswerTransaction
<1>7. RowsHold' /\ ShownHolds'
  BY DEF CheckAnswer, AttendanceInv, RowsHold, ShownHolds
<1>. QED  BY <1>4, <1>6, <1>7 DEF AttendanceInv

LEMMA FindAnswerInv ==
  ASSUME AttendanceInv, NEW p \in Grownups, FindAnswer(p)
  PROVE  AttendanceInv'
<1> DEFINE c == [op |-> IF RowsOf(call[p].child) = {} THEN "insert" ELSE "update",
                 child |-> call[p].child, reply |-> call[p].reply]
<1>1. call[p] \in [op : Answering, child : Family, reply : Replies]
  BY DEF FindAnswer, AttendanceInv, CallsHold, Calls, Idle
<1>2. c \in Calls /\ c.op \in Answering /\ c.child = call[p].child
  BY <1>1 DEF Calls, Answering
<1>3. /\ call' \in [Grownups -> Calls] /\ call'[p] = c
      /\ \A q \in Grownups \ {p} : call'[q] = call[q]
  <2>1. TakeCall(p, c)
    BY DEF FindAnswer
  <2>. HIDE DEF c
  <2>. QED  BY <1>2, <2>1, TakeCallTyped
<1>4. call[p].op \in Answering /\ call[p] # Idle
  BY DEF FindAnswer, Answering, Idle
<1>. HIDE DEF c
<1>5. CallsHold'
  BY <1>2, <1>3, <1>4 DEF FindAnswer, AttendanceInv, CallsHold
<1>6. OneAnswerTransaction'
  <2>1. \A q \in Grownups : call'[q] # Idle => call[q] # Idle
    BY <1>3, <1>4
  <2>. QED
    BY <1>3, <1>4, <2>1 DEF FindAnswer, AttendanceInv, OneAnswerTransaction
<1>7. RowsHold' /\ ShownHolds'
  BY DEF FindAnswer, AttendanceInv, RowsHold, ShownHolds
<1>. QED  BY <1>5, <1>6, <1>7 DEF AttendanceInv

\* A handler ends: whatever held of the calls and of SQLite's order still does.
LEMMA EndCallInv ==
  ASSUME AttendanceInv, NEW p \in Grownups, TakeCall(p, Idle),
         database' = database, onCalendar' = onCalendar
  PROVE  CallsHold' /\ OneAnswerTransaction'
<1>1. Idle \in Calls /\ Idle.op \notin Answering
  BY DEF Calls, Idle, Answering
<1>2. /\ call' \in [Grownups -> Calls] /\ call'[p] = Idle
      /\ \A q \in Grownups \ {p} : call'[q] = call[q]
  BY <1>1, TakeCallTyped
<1>3. CallsHold'
  BY <1>1, <1>2 DEF AttendanceInv, CallsHold
<1>4. OneAnswerTransaction'
  BY <1>1, <1>2 DEF AttendanceInv, OneAnswerTransaction
<1>. QED  BY <1>3, <1>4

LEMMA WriteAnswerInv ==
  ASSUME AttendanceInv, NEW p \in Grownups, WriteAnswer(p)
  PROVE  AttendanceInv'
<1> DEFINE row == [child |-> call[p].child, reply |-> call[p].reply, by |-> p]
<1>1. call[p] \in [op : Answering, child : Family, reply : Replies]
  BY DEF WriteAnswer, AttendanceInv, CallsHold, Calls, Idle
<1>2. /\ row \in AnswerRow /\ row.child = call[p].child
      /\ row.by \in Managers \/ row.child \in Guards(row.by)
  BY <1>1 DEF AnswerRow, AttendanceInv, CallsHold
<1>3. RowsHold'
  <2>1. CASE call[p].op = "insert"
    <3>1. attendance' = attendance \cup {row}
      BY <2>1 DEF WriteAnswer
    <3>2. \A r \in attendance : r.child # row.child
      BY <1>2, <2>1 DEF WriteAnswer, UniqueIndexAllows, RowsOf
    <3>. HIDE DEF row
    <3>. QED
      BY <1>2, <3>1, <3>2 DEF AttendanceInv, RowsHold
  <2>2. CASE call[p].op = "update"
    <3>1. attendance' = {IF r.child = row.child THEN row ELSE r : r \in attendance}
      BY <1>2, <2>2 DEF WriteAnswer
    <3>2. \A r \in attendance' : r = row \/ (r \in attendance /\ r.child # row.child)
      BY <3>1
    <3>. HIDE DEF row
    <3>. QED
      BY <1>2, <3>2 DEF AttendanceInv, RowsHold
  <2>. QED  BY <2>1, <2>2 DEF WriteAnswer
<1>4. CallsHold' /\ OneAnswerTransaction'
  BY EndCallInv DEF WriteAnswer
<1>5. ShownHolds'
  BY DEF WriteAnswer, AttendanceInv, ShownHolds
<1>. QED  BY <1>3, <1>4, <1>5 DEF AttendanceInv

LEMMA SelectAnswersInv ==
  ASSUME AttendanceInv, NEW p \in Grownups, SelectAnswers(p)
  PROVE  AttendanceInv'
<1> DEFINE c == [op |-> "read", rows |-> attendance]
<1>1. c \in Calls /\ c.op \notin Answering
  BY DEF Calls, AttendanceInv, RowsHold, Answering
<1>2. /\ call' \in [Grownups -> Calls] /\ call'[p] = c
      /\ \A q \in Grownups \ {p} : call'[q] = call[q]
  <2>1. TakeCall(p, c)
    BY DEF SelectAnswers
  <2>. HIDE DEF c
  <2>. QED  BY <1>1, <2>1, TakeCallTyped
<1>. HIDE DEF c
<1>3. CallsHold'
  BY <1>1, <1>2 DEF SelectAnswers, AttendanceInv, CallsHold
<1>4. database = "sqlite" => \A q \in Grownups : call[q] = Idle
  BY DEF SelectAnswers, TransactionMayBegin, AttendanceInv, CallsHold
<1>5. OneAnswerTransaction'
  <2> SUFFICES ASSUME database = "sqlite" PROVE OneAnswerTransaction'
    BY DEF OneAnswerTransaction, SelectAnswers
  <2>1. \A q \in Grownups : call'[q] # Idle => q = p
    BY <1>2, <1>4
  <2>2. \A q \in Grownups : call'[q].op \notin Answering
    BY <1>1, <1>2, <1>4 DEF Idle, Answering
  <2>. QED  BY <2>1, <2>2 DEF OneAnswerTransaction
<1>6. RowsHold' /\ ShownHolds'
  BY DEF SelectAnswers, AttendanceInv, RowsHold, ShownHolds
<1>. QED  BY <1>3, <1>5, <1>6 DEF AttendanceInv

LEMMA CountAnswersInv ==
  ASSUME AttendanceInv, NEW p \in Grownups, CountAnswers(p)
  PROVE  AttendanceInv'
<1>1. CallsHold' /\ OneAnswerTransaction'
  BY EndCallInv DEF CountAnswers
<1>2. p \notin Managers => \A r \in Visible(p, call[p].rows) : r.child \in Guards(p)
  BY DEF Visible, MaySpeakFor
<1>3. ShownHolds'
  BY <1>2 DEF CountAnswers, AttendanceInv, ShownHolds
<1>4. RowsHold'
  BY DEF CountAnswers, AttendanceInv, RowsHold
<1>. QED  BY <1>1, <1>3, <1>4 DEF AttendanceInv

LEMMA AttendanceNextInv == AttendanceInv /\ [AttendanceNext]_attendanceVars => AttendanceInv'
<1> SUFFICES ASSUME AttendanceInv, [AttendanceNext]_attendanceVars PROVE AttendanceInv'
  OBVIOUS
<1>1. CASE ChangeCalendar \/ JoinRoster
  <2>1. database = "sqlite" => \A q \in Grownups : call[q] = Idle
    BY <1>1 DEF ChangeCalendar, JoinRoster, TransactionMayBegin, AttendanceInv, CallsHold
  <2>2. /\ call' = call /\ database' = database
        /\ attendance' = attendance /\ shown' = shown
    BY <1>1 DEF ChangeCalendar, JoinRoster
  <2>3. OneAnswerTransaction'
    BY <2>1, <2>2 DEF OneAnswerTransaction, Idle, Answering
  <2>. QED
    BY <2>2, <2>3 DEF AttendanceInv, CallsHold, RowsHold, ShownHolds
<1>2. ASSUME NEW p \in Grownups, FailAnswer(p) PROVE AttendanceInv'
  BY <1>2, EndCallInv DEF FailAnswer, AttendanceInv, RowsHold, ShownHolds
<1>3. CASE UNCHANGED attendanceVars
  BY <1>3 DEF attendanceVars, AttendanceInv, CallsHold, RowsHold, ShownHolds, OneAnswerTransaction
<1>. QED
  BY <1>1, <1>2, <1>3, CheckAnswerInv, FindAnswerInv, WriteAnswerInv, SelectAnswersInv,
     CountAnswersInv DEF AttendanceNext

LEMMA AttendanceInvariant == AttendanceSpec => []AttendanceInv
BY AttendanceInitInv, AttendanceNextInv, PTL DEF AttendanceSpec

----------------------------------------------------------------------------
(* The theorems *)

\* A child's rows are none or one: they have no two elements.
LEMMA OneRow ==
  ASSUME RowsHold, NEW k \in Family
  PROVE  Cardinality(RowsOf(k)) <= 1
<1>1. CASE RowsOf(k) = {}
  BY <1>1, FS_EmptySet
<1>2. CASE RowsOf(k) # {}
  <2>1. PICK r : r \in RowsOf(k)
    BY <1>2
  <2>2. RowsOf(k) = {r}
    BY <2>1 DEF RowsOf, RowsHold
  <2>. QED  BY <2>2, FS_Singleton
<1>. QED  BY <1>1, <1>2

\* recordAttendance and readAttendance: a child has one answer, however first
\* answers overlap, from an adult who may speak for the child, and nobody but a
\* manager is shown the entry of a child that is not their own.
THEOREM OneAnswerEach == AttendanceSpec => []AnswersAreOneEach
<1>1. AttendanceInv => AnswersAreOneEach
  BY OneRow DEF AttendanceInv, RowsHold, ShownHolds, AnswersAreOneEach
<1>. QED  BY <1>1, AttendanceInvariant, PTL

\* recordAttendance checks the occurrence first: on SQLite, where no
\* cancellation commits in between, no step changes the answers to an
\* occurrence that is cancelled.
THEOREM CancelledAnswersStand == AttendanceSpec => CancelledAnswersAreKept
<1>1. ASSUME AttendanceInv, [AttendanceNext]_attendanceVars,
             database = "sqlite", ~onCalendar
      PROVE  attendance' = attendance
  <2>1. \A p \in Grownups : ~WriteAnswer(p)
    BY <1>1 DEF AttendanceInv, OneAnswerTransaction, WriteAnswer, Answering
  <2>. QED
    BY <1>1, <2>1 DEF AttendanceNext, attendanceVars, ChangeCalendar, JoinRoster,
       CheckAnswer, FindAnswer, FailAnswer, SelectAnswers, CountAnswers
<1>. QED
  BY <1>1, AttendanceInvariant, PTL DEF AttendanceSpec, CancelledAnswersAreKept

----------------------------------------------------------------------------
(* The inductive invariant *)

Mints == [op : {"mint"}, url : Urls, row : Feeds \cup {NoFeed}]
Revokes == [op : {"revoke"}, row : Feeds]

FeedsTyped ==
  /\ database \in {"sqlite", "postgres"}
  /\ FeedRows \subseteq Feeds
  /\ feeds \in [FeedRows -> [url : Urls, active : BOOLEAN]]
  /\ visit \in [Visits -> {Idle} \cup Mints \cup Revokes]

\* What a handler found is a row still: rows are never deleted.
RowsExist ==
  /\ \A v \in Visits : visit[v].op = "mint" => visit[v].row \in FeedRows \cup {NoFeed}
  /\ \A v \in Visits : visit[v].op = "revoke" => visit[v].row \in FeedRows

\* A URL being minted has not been answered, and no other mint has it.
PendingIsFresh ==
  /\ \A v \in Visits : visit[v].op = "mint" => visit[v].url \notin issued
  /\ \A v, w \in Visits :
       visit[v].op = "mint" /\ visit[w].op = "mint" /\ visit[v].url = visit[w].url => v = w

\* On SQLite one handler runs, there is one live row at most and it holds the
\* URL minted last, and a mint found exactly what is live.
OneFeedTransaction ==
  database = "sqlite" =>
    /\ \A v, w \in Visits : visit[v] # Idle /\ visit[w] # Idle => v = w
    /\ \A f, g \in LiveFeeds : f = g
    /\ \A f \in LiveFeeds : feeds[f].url = newest
    /\ \A v \in Visits : visit[v].op = "mint" =>
         IF visit[v].row = NoFeed THEN LiveFeeds = {} ELSE visit[v].row \in LiveFeeds

FeedsInv == FeedsTyped /\ RowsExist /\ PendingIsFresh /\ OneFeedTransaction

LEMMA IdleDoesNothing == Idle.op # "mint" /\ Idle.op # "revoke"
BY DEF Idle

LEMMA FeedsInitInv == FeedsInit => FeedsInv
<1> SUFFICES ASSUME FeedsInit PROVE FeedsInv
  OBVIOUS
<1>1. FeedRows = {} /\ LiveFeeds = {}
  BY DEF FeedsInit, FeedRows, LiveFeeds
<1>2. \A v \in Visits : visit[v] = Idle
  BY DEF FeedsInit
<1>3. FeedsTyped
  BY <1>1, DatabasesOK DEF FeedsInit, FeedsTyped
<1>4. RowsExist /\ PendingIsFresh /\ OneFeedTransaction
  BY <1>1, <1>2, IdleDoesNothing DEF RowsExist, PendingIsFresh, OneFeedTransaction
<1>. QED  BY <1>3, <1>4 DEF FeedsInv

\* A handler begins: it may in SQLite when no other runs.
LEMMA VisitChanges ==
  ASSUME FeedsInv, NEW v \in Visits, NEW c \in {Idle} \cup Mints \cup Revokes, Visiting(v, c)
  PROVE  /\ visit' \in [Visits -> {Idle} \cup Mints \cup Revokes]
         /\ visit'[v] = c
         /\ \A w \in Visits \ {v} : visit'[w] = visit[w]
BY DEF FeedsInv, FeedsTyped, Visiting

LEMMA FeedMayBegin ==
  ASSUME FeedsInv, TransactionMayBegin(visit), database = "sqlite"
  PROVE  \A v \in Visits : visit[v] = Idle
BY DEF FeedsInv, FeedsTyped, TransactionMayBegin

----------------------------------------------------------------------------
(* What the writes do to the rows *)

\* An INSERT of a live row, or an UPDATE of the hash of the row that was read.
LEMMA MintWrites ==
  ASSUME FeedsInv, NEW v \in Visits, WriteMint(v)
  PROVE  \E f \in Feeds :
           /\ visit[v].row = NoFeed => f \notin FeedRows
           /\ visit[v].row # NoFeed => f = visit[v].row /\ f \in FeedRows
           /\ FeedRows' = FeedRows \cup {f}
           /\ feeds'[f] = [url |-> visit[v].url,
                           active |-> visit[v].row = NoFeed \/ feeds[f].active]
           /\ \A g \in FeedRows \ {f} : feeds'[g] = feeds[g]
           /\ feeds' \in [FeedRows' -> [url : Urls, active : BOOLEAN]]
<1>1. visit[v] \in Mints
  BY DEF WriteMint, FeedsInv, FeedsTyped, Idle, Revokes
<1>2. CASE visit[v].row = NoFeed
  <2>1. PICK f \in Feeds \ FeedRows :
          feeds' = [g \in FeedRows \cup {f} |->
                      IF g = f THEN [url |-> visit[v].url, active |-> TRUE] ELSE feeds[g]]
    BY <1>2 DEF WriteMint
  <2>2. FeedRows' = FeedRows \cup {f}
    BY <2>1 DEF FeedRows
  <2>3. [url |-> visit[v].url, active |-> TRUE] \in [url : Urls, active : BOOLEAN]
    BY <1>1 DEF Mints
  <2>4. \A g \in FeedRows : feeds[g] \in [url : Urls, active : BOOLEAN]
    BY DEF FeedsInv, FeedsTyped
  <2>5. feeds' \in [FeedRows' -> [url : Urls, active : BOOLEAN]]
    BY <2>1, <2>2, <2>3, <2>4
  <2>6. feeds'[f] = [url |-> visit[v].url, active |-> TRUE]
    BY <2>1
  <2>7. \A g \in FeedRows \ {f} : feeds'[g] = feeds[g]
    BY <2>1
  <2>. QED  BY <1>2, <2>2, <2>5, <2>6, <2>7
<1>3. CASE visit[v].row # NoFeed
  <2> DEFINE f == visit[v].row
  <2>1. f \in FeedRows /\ f \in Feeds
    BY <1>1, <1>3 DEF FeedsInv, RowsExist, Mints
  <2>2. feeds' = [feeds EXCEPT ![f] = Rotated(feeds[f], visit[v].url)]
    BY <1>3 DEF WriteMint
  <2>3. feeds[f] \in [url : Urls, active : BOOLEAN]
    BY <2>1 DEF FeedsInv, FeedsTyped
  <2>4. /\ Rotated(feeds[f], visit[v].url) = [url |-> visit[v].url, active |-> feeds[f].active]
        /\ Rotated(feeds[f], visit[v].url) \in [url : Urls, active : BOOLEAN]
    BY <1>1, <2>3 DEF Rotated, Mints
  <2>5. FeedRows' = FeedRows
    BY <2>2 DEF FeedRows
  <2>6. /\ feeds' \in [FeedRows -> [url : Urls, active : BOOLEAN]]
        /\ feeds'[f] = Rotated(feeds[f], visit[v].url)
        /\ \A g \in FeedRows \ {f} : feeds'[g] = feeds[g]
    BY <2>1, <2>2, <2>4 DEF FeedsInv, FeedsTyped
  <2>7. FeedRows' = FeedRows \cup {f}
    BY <2>1, <2>5
  <2>8. feeds'[f] = [url |-> visit[v].url,
                     active |-> visit[v].row = NoFeed \/ feeds[f].active]
    BY <1>3, <2>4, <2>6
  <2>9. feeds' \in [FeedRows' -> [url : Urls, active : BOOLEAN]]
    BY <2>5, <2>6
  <2>10. f = visit[v].row
    OBVIOUS
  <2>. HIDE DEF f
  <2>. QED  BY <1>3, <2>1, <2>6, <2>7, <2>8, <2>9, <2>10
<1>. QED  BY <1>2, <1>3

\* A revocation makes one row inactive and touches no URL.
LEMMA RevokeWrites ==
  ASSUME FeedsInv, NEW v \in Visits, WriteRevoke(v)
  PROVE  /\ FeedRows' = FeedRows
         /\ feeds' \in [FeedRows' -> [url : Urls, active : BOOLEAN]]
         /\ \A g \in FeedRows : feeds'[g].url = feeds[g].url
         /\ LiveFeeds' = LiveFeeds \ {visit[v].row}
<1> DEFINE f == visit[v].row
<1>1. f \in FeedRows
  BY DEF WriteRevoke, FeedsInv, RowsExist
<1>2. feeds' = [feeds EXCEPT ![f] = [feeds[f] EXCEPT !.active = FALSE]]
  BY DEF WriteRevoke
<1>3. \A g \in FeedRows : feeds[g] \in [url : Urls, active : BOOLEAN]
  BY DEF FeedsInv, FeedsTyped
<1>4. /\ [feeds[f] EXCEPT !.active = FALSE].url = feeds[f].url
      /\ [feeds[f] EXCEPT !.active = FALSE].active = FALSE
      /\ [feeds[f] EXCEPT !.active = FALSE] \in [url : Urls, active : BOOLEAN]
  <2>1. feeds[f] \in [url : Urls, active : BOOLEAN]
    BY <1>1, <1>3
  <2>. HIDE DEF f
  <2>. QED  BY <2>1
<1>5. FeedRows' = FeedRows
  BY <1>2 DEF FeedRows
<1>6. /\ feeds'[f].url = feeds[f].url /\ feeds'[f].active = FALSE
      /\ \A g \in FeedRows \ {f} : feeds'[g] = feeds[g]
      /\ feeds' \in [FeedRows -> [url : Urls, active : BOOLEAN]]
  BY <1>1, <1>2, <1>3, <1>4 DEF FeedsInv, FeedsTyped
<1>. QED  BY <1>1, <1>5, <1>6 DEF LiveFeeds

\* Only the URL being minted can begin to answer, and it is a fresh one.
LEMMA WhatAnswers ==
  ASSUME FeedsInv, FeedsNext, NEW f \in LiveFeeds'
  PROVE  \/ f \in LiveFeeds /\ feeds'[f].url = feeds[f].url
         \/ \E v \in Visits : WriteMint(v) /\ feeds'[f].url = visit[v].url
<1>1. f \in FeedRows'
  BY DEF LiveFeeds
<1>2. CASE feeds' = feeds
  BY <1>2 DEF LiveFeeds, FeedRows
<1>3. ASSUME NEW v \in Visits, WriteMint(v)
      PROVE  \/ f \in LiveFeeds /\ feeds'[f].url = feeds[f].url
             \/ feeds'[f].url = visit[v].url
  <2>1. PICK g \in Feeds :
           /\ FeedRows' = FeedRows \cup {g}
           /\ feeds'[g] = [url |-> visit[v].url,
                           active |-> visit[v].row = NoFeed \/ feeds[g].active]
           /\ \A h \in FeedRows \ {g} : feeds'[h] = feeds[h]
    BY <1>3, MintWrites
  <2>2. CASE f = g
    BY <2>1, <2>2
  <2>3. CASE f # g
    BY <1>1, <2>1, <2>3 DEF LiveFeeds
  <2>. QED  BY <2>2, <2>3
<1>4. ASSUME NEW v \in Visits, WriteRevoke(v)
      PROVE  f \in LiveFeeds /\ feeds'[f].url = feeds[f].url
  BY <1>4, <1>1, RevokeWrites DEF LiveFeeds
<1>5. CASE ChangeFeedAccess \/ \E v \in Visits : BeginMint(v) \/ BeginRevoke(v)
  <2>1. feeds' = feeds
    BY <1>5 DEF ChangeFeedAccess, BeginMint, BeginRevoke
  <2>. QED  BY <1>2, <2>1
<1>. QED  BY <1>3, <1>4, <1>5 DEF FeedsNext

----------------------------------------------------------------------------
(* The steps keep the invariant *)

LEMMA BeginMintInv ==
  ASSUME FeedsInv, NEW v \in Visits, BeginMint(v)
  PROVE  FeedsInv'
<1>1. PICK url \in UnusedUrls, f \in FoundFeeds :
        Visiting(v, [op |-> "mint", url |-> url, row |-> f])
  BY DEF BeginMint
<1> DEFINE c == [op |-> "mint", url |-> url, row |-> f]
<1>2. /\ (f = NoFeed /\ LiveFeeds = {}) \/ f \in LiveFeeds
      /\ f \in FeedRows \cup {NoFeed} /\ f \in Feeds \cup {NoFeed}
  BY DEF FoundFeeds, LiveFeeds, FeedsInv, FeedsTyped
<1>3. /\ url \in Urls /\ url \notin issued
      /\ \A w \in Visits : visit[w].op = "mint" => visit[w].url # url
  BY DEF UnusedUrls, PendingUrls
<1>4. c \in Mints
  BY <1>2, <1>3 DEF Mints
<1>5. c.op = "mint" /\ c.url = url /\ c.row = f
  OBVIOUS
<1>. HIDE DEF c
<1>6. /\ visit' \in [Visits -> {Idle} \cup Mints \cup Revokes]
      /\ visit'[v] = c
      /\ \A w \in Visits \ {v} : visit'[w] = visit[w]
  BY <1>1, <1>4, VisitChanges DEF c
<1>7. /\ feeds' = feeds /\ issued' = issued /\ newest' = newest /\ database' = database
      /\ FeedRows' = FeedRows /\ LiveFeeds' = LiveFeeds
  BY DEF BeginMint, FeedRows, LiveFeeds
<1>8. FeedsTyped' /\ RowsExist' /\ PendingIsFresh'
  BY <1>2, <1>3, <1>5, <1>6, <1>7 DEF FeedsInv, FeedsTyped, RowsExist, PendingIsFresh
<1>9. ASSUME database = "sqlite" PROVE OneFeedTransaction'
  <2>1. \A w \in Visits : visit[w] = Idle
    BY <1>9, FeedMayBegin DEF BeginMint
  <2>2. \A w \in Visits : visit'[w] # Idle \/ visit'[w].op = "mint" => w = v
    BY <1>6, <2>1, IdleDoesNothing
  <2>3. f = NoFeed => LiveFeeds = {}
    BY <1>2, FeedConstantsOK DEF LiveFeeds, FeedsInv, FeedsTyped
  <2>. QED
    BY <1>2, <1>5, <1>6, <1>7, <1>9, <2>2, <2>3 DEF OneFeedTransaction, FeedsInv
<1>10. OneFeedTransaction'
  BY <1>7, <1>9 DEF OneFeedTransaction
<1>. QED  BY <1>8, <1>10 DEF FeedsInv

LEMMA BeginRevokeInv ==
  ASSUME FeedsInv, NEW v \in Visits, BeginRevoke(v)
  PROVE  FeedsInv'
<1>1. PICK f \in LiveFeeds : Visiting(v, [op |-> "revoke", row |-> f])
  BY DEF BeginRevoke
<1> DEFINE c == [op |-> "revoke", row |-> f]
<1>2. c \in Revokes /\ f \in FeedRows
  BY DEF Revokes, LiveFeeds, FeedsInv, FeedsTyped
<1>3. c.op = "revoke" /\ c.row = f
  OBVIOUS
<1>. HIDE DEF c
<1>4. /\ visit' \in [Visits -> {Idle} \cup Mints \cup Revokes]
      /\ visit'[v] = c
      /\ \A w \in Visits \ {v} : visit'[w] = visit[w]
  BY <1>1, <1>2, VisitChanges DEF c
<1>5. /\ feeds' = feeds /\ issued' = issued /\ newest' = newest /\ database' = database
      /\ FeedRows' = FeedRows /\ LiveFeeds' = LiveFeeds
  BY DEF BeginRevoke, FeedRows, LiveFeeds
<1>6. FeedsTyped' /\ RowsExist' /\ PendingIsFresh'
  BY <1>2, <1>3, <1>4, <1>5 DEF FeedsInv, FeedsTyped, RowsExist, PendingIsFresh
<1>7. ASSUME database = "sqlite" PROVE OneFeedTransaction'
  <2>1. \A w \in Visits : visit[w] = Idle
    BY <1>7, FeedMayBegin DEF BeginRevoke
  <2>2. \A w \in Visits : /\ visit'[w] # Idle => w = v
                          /\ visit'[w].op # "mint"
    BY <1>3, <1>4, <2>1, IdleDoesNothing
  <2>. QED
    BY <1>5, <2>2 DEF OneFeedTransaction, FeedsInv
<1>8. OneFeedTransaction'
  BY <1>5, <1>7 DEF OneFeedTransaction
<1>. QED  BY <1>6, <1>8 DEF FeedsInv

LEMMA WriteMintInv ==
  ASSUME FeedsInv, NEW v \in Visits, WriteMint(v)
  PROVE  FeedsInv'
<1>1. visit[v] \in Mints /\ visit[v].op = "mint" /\ visit[v] # Idle
  BY IdleDoesNothing DEF WriteMint, FeedsInv, FeedsTyped, Revokes
<1>2. /\ visit' \in [Visits -> {Idle} \cup Mints \cup Revokes]
      /\ visit'[v] = Idle
      /\ \A w \in Visits \ {v} : visit'[w] = visit[w]
  BY VisitChanges DEF WriteMint
<1>3. /\ issued' = issued \cup {visit[v].url} /\ newest' = visit[v].url
      /\ database' = database
  BY DEF WriteMint
<1>4. PICK f \in Feeds :
        /\ visit[v].row = NoFeed => f \notin FeedRows
        /\ visit[v].row # NoFeed => f = visit[v].row /\ f \in FeedRows
        /\ FeedRows' = FeedRows \cup {f}
        /\ feeds'[f] = [url |-> visit[v].url,
                        active |-> visit[v].row = NoFeed \/ feeds[f].active]
        /\ \A g \in FeedRows \ {f} : feeds'[g] = feeds[g]
        /\ feeds' \in [FeedRows' -> [url : Urls, active : BOOLEAN]]
  BY MintWrites
<1>5. FeedsTyped'
  BY <1>2, <1>3, <1>4 DEF FeedsInv, FeedsTyped
<1>6. RowsExist' /\ PendingIsFresh'
  BY <1>1, <1>2, <1>3, <1>4, IdleDoesNothing DEF FeedsInv, RowsExist, PendingIsFresh
<1>7. ASSUME database = "sqlite" PROVE OneFeedTransaction'
  <2>1. \A w \in Visits : visit'[w] = Idle
    BY <1>1, <1>2, <1>7 DEF FeedsInv, OneFeedTransaction
  <2>2. LiveFeeds' \subseteq {f}
    <3> SUFFICES ASSUME NEW g \in LiveFeeds', g # f PROVE FALSE
      OBVIOUS
    <3>1. g \in LiveFeeds
      BY <1>4 DEF LiveFeeds
    <3>. QED
      BY <1>1, <1>4, <1>7, <3>1 DEF FeedsInv, OneFeedTransaction
  <2>3. \A g \in LiveFeeds' : feeds'[g].url = newest'
    BY <1>3, <1>4, <2>2
  <2>. QED
    BY <2>1, <2>2, <2>3, IdleDoesNothing DEF OneFeedTransaction
<1>8. OneFeedTransaction'
  BY <1>3, <1>7 DEF OneFeedTransaction
<1>. QED  BY <1>5, <1>6, <1>8 DEF FeedsInv

LEMMA WriteRevokeInv ==
  ASSUME FeedsInv, NEW v \in Visits, WriteRevoke(v)
  PROVE  FeedsInv'
<1>1. visit[v].op = "revoke" /\ visit[v] # Idle
  BY IdleDoesNothing DEF WriteRevoke
<1>2. /\ visit' \in [Visits -> {Idle} \cup Mints \cup Revokes]
      /\ visit'[v] = Idle
      /\ \A w \in Visits \ {v} : visit'[w] = visit[w]
  BY VisitChanges DEF WriteRevoke
<1>3. issued' = issued /\ newest' = newest /\ database' = database
  BY DEF WriteRevoke
<1>4. /\ FeedRows' = FeedRows
      /\ feeds' \in [FeedRows' -> [url : Urls, active : BOOLEAN]]
      /\ \A g \in FeedRows : feeds'[g].url = feeds[g].url
      /\ LiveFeeds' = LiveFeeds \ {visit[v].row}
  BY RevokeWrites
<1>5. FeedsTyped' /\ RowsExist' /\ PendingIsFresh'
  BY <1>2, <1>3, <1>4, IdleDoesNothing DEF FeedsInv, FeedsTyped, RowsExist, PendingIsFresh
<1>6. ASSUME database = "sqlite" PROVE OneFeedTransaction'
  <2>1. \A w \in Visits : visit'[w] = Idle
    BY <1>1, <1>2, <1>6 DEF FeedsInv, OneFeedTransaction
  <2>2. \A g \in LiveFeeds' : g \in LiveFeeds /\ g \in FeedRows
    BY <1>4 DEF LiveFeeds
  <2>. QED
    BY <1>3, <1>4, <1>6, <2>1, <2>2, IdleDoesNothing DEF FeedsInv, OneFeedTransaction
<1>7. OneFeedTransaction'
  BY <1>3, <1>6 DEF OneFeedTransaction
<1>. QED  BY <1>5, <1>7 DEF FeedsInv

LEMMA FeedsNextInv == FeedsInv /\ [FeedsNext]_feedVars => FeedsInv'
<1> SUFFICES ASSUME FeedsInv, [FeedsNext]_feedVars PROVE FeedsInv'
  OBVIOUS
<1>1. CASE ChangeFeedAccess \/ UNCHANGED feedVars
  <2>1. /\ feeds' = feeds /\ visit' = visit /\ issued' = issued
        /\ newest' = newest /\ database' = database
    BY <1>1 DEF ChangeFeedAccess, feedVars
  <2>. QED
    BY <2>1 DEF FeedsInv, FeedsTyped, RowsExist, PendingIsFresh, OneFeedTransaction, FeedRows, LiveFeeds
<1>. QED
  BY <1>1, BeginMintInv, BeginRevokeInv, WriteMintInv, WriteRevokeInv DEF FeedsNext

LEMMA FeedsInvariant == FeedsSpec => []FeedsInv
BY FeedsInitInv, FeedsNextInv, PTL DEF FeedsSpec

----------------------------------------------------------------------------
(* The theorem *)

LEMMA NewestAnswers == FeedsInv => OnlyTheNewestUrlAnswers
BY DEF FeedsInv, OneFeedTransaction, OnlyTheNewestUrlAnswers, UrlAnswers

\* mintCalendarFeed, revokeCalendarFeed and serveCalendarFeed: a URL that
\* stopped answering while its adult kept access is dead for good, and on
\* SQLite none answers but the one minted last.
THEOREM DeadUrls == FeedsSpec => DeadUrlsStayDead
<1>1. ASSUME FeedsInv, FeedsInv', FeedsNext
      PROVE  /\ OnlyTheNewestUrlAnswers'
             /\ \A url \in issued :
                  reads /\ reads' /\ ~UrlAnswers(url) => ~UrlAnswers(url)'
  <2>1. OnlyTheNewestUrlAnswers'
    <3>. (FeedsInv => OnlyTheNewestUrlAnswers)'
      BY NewestAnswers, PTL
    <3>. QED  BY <1>1
  <2>2. ASSUME NEW url \in issued, reads, reads', ~UrlAnswers(url), UrlAnswers(url)'
        PROVE  FALSE
    <3>1. PICK f \in LiveFeeds' : feeds'[f].url = url
      BY <2>2 DEF UrlAnswers
    <3>2. CASE f \in LiveFeeds /\ feeds'[f].url = feeds[f].url
      BY <2>2, <3>1, <3>2 DEF UrlAnswers
    <3>3. ASSUME NEW v \in Visits, WriteMint(v), feeds'[f].url = visit[v].url
          PROVE  FALSE
      BY <1>1, <2>2, <3>1, <3>3 DEF WriteMint, FeedsInv, PendingIsFresh
    <3>. QED
      BY <1>1, <3>2, <3>3, WhatAnswers
  <2>. QED  BY <2>1, <2>2
<1>. QED
  BY <1>1, FeedsInvariant, PTL DEF FeedsSpec, DeadUrlsStayDead

----------------------------------------------------------------------------
(* Event creation: the inductive invariant *)

\* An attempt with a request id holds the team's row from its lock to its end.
TeamIsLocked ==
  \A a \in Attempts :
    \/ At(a, "locked")
    \/ At(a, "absent") /\ attempt[a].id # NoId
    => teamLock = a

\* A series and an answer are those of attempts that ended.
OnlyDoneLeaveTraces ==
  /\ \A s \in DOMAIN created : At(s, "done")
  /\ \A a \in Attempts : Succeeded(a) => At(a, "done")

\* The unique index on receipts.
OneReceiptEach ==
  \A r, s \in receipts : r.by = s.by /\ r.id = s.id => r = s

\* An answer to a request with an id is what its receipt says.
AnswersHaveReceipts ==
  \A a \in Attempts :
    Succeeded(a) /\ attempt[a].id # NoId =>
      \E r \in ReceiptsOf(attempt[a]) :
        r.series = told[a].series /\ r.input = attempt[a].input

CreationInv ==
  /\ CreationTypeOK
  /\ TeamIsLocked /\ OnlyDoneLeaveTraces /\ OneReceiptEach
  /\ AnswersHaveReceipts /\ ReceiptsAreWhole

AttemptRecord == [stage : Stages, by : Accounts, id : RequestIds \cup {NoId}, input : Inputs]

LEMMA CreationInitInv == CreationInit => CreationInv
<1> SUFFICES ASSUME CreationInit PROVE CreationInv
  OBVIOUS
<1>1. \A a \in Attempts : ~Succeeded(a) /\ At(a, "new") /\ attempt[a] = [stage |-> "new"]
  BY DEF CreationInit, Succeeded, Said, At
<1>2. CreationTypeOK
  BY <1>1 DEF CreationInit, CreationTypeOK, Answers, Said
<1>3. TeamIsLocked /\ ReceiptsAreWhole
  BY <1>1 DEF CreationInit, TeamIsLocked, ReceiptsAreWhole, At
<1>. QED
  BY <1>1, <1>2, <1>3 DEF CreationInit, CreationInv, OnlyDoneLeaveTraces, OneReceiptEach,
     AnswersHaveReceipts

\* GoTo moves one attempt, which keeps what it was asked.
LEMMA GoToIs ==
  ASSUME CreationTypeOK, NEW a \in Attempts, attempt[a].stage # "new",
         NEW stage \in Stages, GoTo(a, stage)
  PROVE  /\ attempt[a] \in AttemptRecord
         /\ attempt'[a] \in AttemptRecord
         /\ attempt'[a].stage = stage
         /\ attempt'[a].by = attempt[a].by /\ attempt'[a].id = attempt[a].id
         /\ attempt'[a].input = attempt[a].input
         /\ \A b \in Attempts : b # a => attempt'[b] = attempt[b]
         /\ \A b \in Attempts : ReceiptsOf(attempt'[b]) = ReceiptsOf(attempt[b])
         /\ attempt' \in [Attempts -> [stage : {"new"}] \cup AttemptRecord]
<1>1. attempt \in [Attempts -> [stage : {"new"}] \cup AttemptRecord]
  BY DEF CreationTypeOK, AttemptRecord
<1>2. attempt[a] \in AttemptRecord
  BY <1>1
<1>3. attempt' = [attempt EXCEPT ![a] = [attempt[a] EXCEPT !.stage = stage]]
  BY <1>1 DEF GoTo
<1>4. attempt'[a] = [attempt[a] EXCEPT !.stage = stage]
  BY <1>1, <1>3
<1>5. attempt'[a] \in AttemptRecord
  BY <1>2, <1>4 DEF AttemptRecord
<1>6. /\ attempt'[a].stage = stage
      /\ attempt'[a].by = attempt[a].by /\ attempt'[a].id = attempt[a].id
      /\ attempt'[a].input = attempt[a].input
  BY <1>2, <1>4 DEF AttemptRecord
<1>7. \A b \in Attempts : b # a => attempt'[b] = attempt[b]
  BY <1>1, <1>3
<1>8. \A b \in Attempts : ReceiptsOf(attempt'[b]) = ReceiptsOf(attempt[b])
  BY <1>6, <1>7 DEF ReceiptsOf
<1>9. attempt' \in [Attempts -> [stage : {"new"}] \cup AttemptRecord]
  BY <1>1, <1>3, <1>5
<1>. QED
  BY <1>2, <1>5, <1>6, <1>7, <1>8, <1>9

\* Finish ends one attempt and lets go of its team.
LEMMA FinishIs ==
  ASSUME CreationTypeOK, NEW a \in Attempts, attempt[a].stage # "new",
         NEW code, NEW s \in Attempts \cup {NoSeries}, Finish(a, code, s),
         code \in {"created", "replayed", "conflict", "unavailable", "lost", "failed"}
  PROVE  /\ GoTo(a, "done")
         /\ told' \in [Attempts -> Answers]
         /\ told'[a].code = code /\ told'[a].series = s
         /\ \A b \in Attempts : b # a => told'[b] = told[b]
         /\ teamLock' \in Attempts \cup {NoAttempt}
         /\ \A b \in Attempts : b # a /\ teamLock = b => teamLock' = b
<1>1. told \in [Attempts -> Answers] /\ teamLock \in Attempts \cup {NoAttempt}
  BY DEF CreationTypeOK
<1>2. Said(code, s) \in Answers
  BY DEF Said, Answers
<1>. QED
  BY <1>1, <1>2 DEF Finish, Said

\* A step that changes no record, and moves one attempt that has not begun or
\* does not answer with an event.
LEMMA UnchangedRecords ==
  ASSUME CreationInv, NEW a \in Attempts, ~Succeeded(a), a \notin DOMAIN created,
         UNCHANGED <<created, duties, receipts>>,
         CreationTypeOK', TeamIsLocked',
         \A b \in Attempts : b # a => attempt'[b] = attempt[b] /\ told'[b] = told[b],
         ~Succeeded(a)',
         At(a, "absent")' /\ attempt'[a].id # NoId => ReceiptsOf(attempt'[a]) = {}
  PROVE  CreationInv'
<1>1. OnlyDoneLeaveTraces'
  <2>1. \A b \in Attempts : b # a => (Succeeded(b)' <=> Succeeded(b)) /\ (At(b, "done")' <=> At(b, "done"))
    BY DEF Succeeded, At
  <2>. QED
    BY <2>1 DEF CreationInv, CreationTypeOK, OnlyDoneLeaveTraces
<1>2. OneReceiptEach'
  BY DEF CreationInv, OneReceiptEach
<1>3. AnswersHaveReceipts'
  BY DEF CreationInv, AnswersHaveReceipts, Succeeded, ReceiptsOf
<1>4. ReceiptsAreWhole'
  <2>1. \A r \in receipts' :
          /\ SeriesExists(r.series)' /\ created'[r.series] = r.input
          /\ r.duty # NoDuty <=> r.input \in Snack
          /\ r.duty # NoDuty => r.duty \in duties'
    BY DEF CreationInv, ReceiptsAreWhole, SeriesExists
  <2>2. \A b \in Attempts : At(b, "absent")' /\ attempt'[b].id # NoId => ReceiptsOf(attempt[b])' = {}
    <3> SUFFICES ASSUME NEW b \in Attempts, At(b, "absent")', attempt'[b].id # NoId
                 PROVE  ReceiptsOf(attempt[b])' = {}
      OBVIOUS
    <3>1. CASE b = a
      BY <3>1 DEF ReceiptsOf
    <3>2. CASE b # a
      BY <3>2 DEF ReceiptsOf, CreationInv, ReceiptsAreWhole, At
    <3>. QED
      BY <3>1, <3>2
  <2>. QED
    BY <2>1, <2>2 DEF ReceiptsAreWhole
<1>. QED
  BY <1>1, <1>2, <1>3, <1>4 DEF CreationInv

LEMMA ArriveInv == ASSUME CreationInv, NEW a \in Attempts, Arrive(a) PROVE CreationInv'
<1>1. PICK q \in Asks : attempt' = [attempt EXCEPT ![a] =
         [stage |-> "begun", by |-> q.by, id |-> q.id, input |-> q.input]]
  BY DEF Arrive
<1>2. attempt \in [Attempts -> [stage : {"new"}] \cup AttemptRecord]
  BY DEF CreationInv, CreationTypeOK, AttemptRecord
<1>3. [stage |-> "begun", by |-> q.by, id |-> q.id, input |-> q.input] \in AttemptRecord
  BY <1>1 DEF Asks, AttemptRecord, Stages
<1>4. /\ attempt' \in [Attempts -> [stage : {"new"}] \cup AttemptRecord]
      /\ attempt'[a].stage = "begun"
      /\ \A b \in Attempts : b # a => attempt'[b] = attempt[b]
  BY <1>1, <1>2, <1>3
<1>5. CreationTypeOK'
  BY <1>4 DEF Arrive, CreationInv, CreationTypeOK, AttemptRecord
<1>6. TeamIsLocked'
  BY <1>4 DEF Arrive, CreationInv, TeamIsLocked, At
<1>7. ~Succeeded(a) /\ a \notin DOMAIN created
  BY DEF Arrive, At, CreationInv, OnlyDoneLeaveTraces
<1>. QED
  BY <1>4, <1>5, <1>6, <1>7, UnchangedRecords DEF Arrive, Succeeded, At

LEMMA LockTeamInv == ASSUME CreationInv, NEW a \in Attempts, LockTeam(a) PROVE CreationInv'
<1>1. CreationTypeOK /\ At(a, "begun") /\ GoTo(a, "locked") /\ "locked" \in Stages
  BY DEF LockTeam, CreationInv, Stages
<1>2. /\ attempt' \in [Attempts -> [stage : {"new"}] \cup AttemptRecord]
      /\ attempt'[a].stage = "locked"
      /\ \A b \in Attempts : b # a => attempt'[b] = attempt[b]
  BY <1>1, GoToIs DEF At
<1>3. CreationTypeOK'
  BY <1>2 DEF LockTeam, CreationInv, CreationTypeOK, AttemptRecord
<1>4. TeamIsLocked'
  BY <1>2, CreationConstantsOK DEF LockTeam, MayLock, CreationInv, TeamIsLocked, At
<1>5. ~Succeeded(a) /\ a \notin DOMAIN created
  BY DEF LockTeam, At, CreationInv, OnlyDoneLeaveTraces
<1>. QED
  BY <1>2, <1>3, <1>4, <1>5, UnchangedRecords DEF LockTeam, Succeeded, At

LEMMA NoReceiptInv == ASSUME CreationInv, NEW a \in Attempts, NoReceipt(a) PROVE CreationInv'
<1>1. CreationTypeOK /\ attempt[a].stage # "new" /\ GoTo(a, "absent") /\ "absent" \in Stages
  BY DEF NoReceipt, CreationInv, Stages, At
<1>2. /\ attempt' \in [Attempts -> [stage : {"new"}] \cup AttemptRecord]
      /\ attempt'[a].stage = "absent" /\ attempt'[a].id = attempt[a].id
      /\ ReceiptsOf(attempt'[a]) = ReceiptsOf(attempt[a])
      /\ \A b \in Attempts : b # a => attempt'[b] = attempt[b]
  BY <1>1, GoToIs
<1>3. CreationTypeOK'
  BY <1>2 DEF NoReceipt, CreationInv, CreationTypeOK, AttemptRecord
<1>4. TeamIsLocked'
  BY <1>2 DEF NoReceipt, CreationInv, TeamIsLocked, At
<1>5. ~Succeeded(a) /\ a \notin DOMAIN created
  BY DEF NoReceipt, At, CreationInv, OnlyDoneLeaveTraces
<1>. QED
  BY <1>2, <1>3, <1>4, <1>5, UnchangedRecords DEF NoReceipt, Succeeded, At

\* What ending an attempt does to the locks and the types.
LEMMA FinishInv ==
  ASSUME CreationInv, NEW a \in Attempts, attempt[a].stage # "new",
         NEW code \in {"created", "replayed", "conflict", "unavailable", "lost", "failed"},
         NEW s \in Attempts \cup {NoSeries}, Finish(a, code, s)
  PROVE  /\ TeamIsLocked'
         /\ attempt'[a].stage = "done" /\ attempt'[a].by = attempt[a].by
         /\ attempt'[a].id = attempt[a].id /\ attempt'[a].input = attempt[a].input
         /\ told'[a].code = code /\ told'[a].series = s
         /\ \A b \in Attempts : b # a => attempt'[b] = attempt[b] /\ told'[b] = told[b]
         /\ attempt[a] \in AttemptRecord
         /\ attempt' \in [Attempts -> [stage : {"new"}] \cup AttemptRecord]
         /\ told' \in [Attempts -> Answers]
         /\ teamLock' \in Attempts \cup {NoAttempt}
<1>1. CreationTypeOK /\ "done" \in Stages
  BY DEF CreationInv, Stages
<1>2. /\ GoTo(a, "done")
      /\ told' \in [Attempts -> Answers]
      /\ told'[a].code = code /\ told'[a].series = s
      /\ \A b \in Attempts : b # a => told'[b] = told[b]
      /\ teamLock' \in Attempts \cup {NoAttempt}
      /\ \A b \in Attempts : b # a /\ teamLock = b => teamLock' = b
  BY <1>1, FinishIs
<1>3. /\ attempt'[a].stage = "done" /\ attempt'[a].by = attempt[a].by
      /\ attempt'[a].id = attempt[a].id /\ attempt'[a].input = attempt[a].input
      /\ \A b \in Attempts : b # a => attempt'[b] = attempt[b]
      /\ attempt[a] \in AttemptRecord
      /\ attempt' \in [Attempts -> [stage : {"new"}] \cup AttemptRecord]
  BY <1>1, <1>2, GoToIs
<1>4. TeamIsLocked'
  BY <1>2, <1>3 DEF CreationInv, TeamIsLocked, At
<1>. QED
  BY <1>2, <1>3, <1>4

\* An attempt that ends without an event changes no record.
LEMMA RefusedInv ==
  ASSUME CreationInv, NEW a \in Attempts, a \in Running,
         NEW code \in {"conflict", "unavailable", "failed"}, Finish(a, code, NoSeries),
         UNCHANGED <<started, created, duties, receipts>>
  PROVE  CreationInv'
<1>1. attempt[a].stage # "new" /\ ~Succeeded(a) /\ a \notin DOMAIN created
  BY DEF Running, At, CreationInv, OnlyDoneLeaveTraces
<1>2. /\ TeamIsLocked'
      /\ attempt'[a].stage = "done" /\ told'[a].code = code
      /\ \A b \in Attempts : b # a => attempt'[b] = attempt[b] /\ told'[b] = told[b]
      /\ attempt' \in [Attempts -> [stage : {"new"}] \cup AttemptRecord]
      /\ told' \in [Attempts -> Answers]
      /\ teamLock' \in Attempts \cup {NoAttempt}
  BY <1>1, FinishInv
<1>3. CreationTypeOK'
  BY <1>2 DEF CreationInv, CreationTypeOK, AttemptRecord
<1>4. ~Succeeded(a)' /\ ~At(a, "absent")'
  BY <1>2 DEF Succeeded, At
<1>. QED
  BY <1>1, <1>2, <1>3, <1>4, UnchangedRecords

LEMMA ReplayInv == ASSUME CreationInv, NEW a \in Attempts, Replay(a) PROVE CreationInv'
<1>1. /\ At(a, "locked") /\ a \in Running
      /\ UNCHANGED <<started, created, duties, receipts>>
      /\ attempt[a].stage # "new"
  BY DEF Replay, Running, At
<1>2. PICK r \in ReceiptsOf(attempt[a]) :
       IF SameRequest(r, attempt[a])
         THEN IF SeriesExists(r.series) /\ (r.duty # NoDuty => r.duty \in duties)
                THEN Finish(a, "replayed", r.series)
                ELSE Finish(a, "failed", NoSeries)
         ELSE Finish(a, "conflict", NoSeries)
  BY DEF Replay
<1>3. CASE Finish(a, "failed", NoSeries) \/ Finish(a, "conflict", NoSeries)
  BY <1>1, <1>3, RefusedInv
<1>4. CASE Finish(a, "replayed", r.series) /\ SameRequest(r, attempt[a])
  <2>1. r \in receipts /\ r.series \in Attempts /\ r.input = attempt[a].input
        /\ r.by = attempt[a].by /\ r.id = attempt[a].id
    BY <1>4 DEF CreationInv, CreationTypeOK, ReceiptsOf, Receipt, SameRequest
  <2>2. /\ TeamIsLocked'
        /\ attempt'[a].stage = "done" /\ attempt'[a].by = attempt[a].by
        /\ attempt'[a].id = attempt[a].id /\ attempt'[a].input = attempt[a].input
        /\ told'[a].code = "replayed" /\ told'[a].series = r.series
        /\ \A b \in Attempts : b # a => attempt'[b] = attempt[b] /\ told'[b] = told[b]
        /\ attempt' \in [Attempts -> [stage : {"new"}] \cup AttemptRecord]
        /\ told' \in [Attempts -> Answers]
        /\ teamLock' \in Attempts \cup {NoAttempt}
    BY <1>1, <1>4, <2>1, FinishInv
  <2>3. CreationTypeOK'
    BY <1>1, <2>2 DEF CreationInv, CreationTypeOK, AttemptRecord
  <2>4. OnlyDoneLeaveTraces'
    BY <1>1, <2>2 DEF CreationInv, OnlyDoneLeaveTraces, CreationTypeOK, At, Succeeded
  <2>5. OneReceiptEach'
    BY <1>1 DEF CreationInv, OneReceiptEach
  <2>6. AnswersHaveReceipts'
    <3> SUFFICES ASSUME NEW b \in Attempts, Succeeded(b)', attempt'[b].id # NoId
                 PROVE  \E x \in ReceiptsOf(attempt[b])' :
                          x.series = told'[b].series /\ x.input = attempt'[b].input
      BY DEF AnswersHaveReceipts
    <3>1. CASE b = a
      BY <1>1, <2>1, <2>2, <3>1 DEF ReceiptsOf
    <3>2. CASE b # a
      BY <1>1, <2>2, <3>2 DEF CreationInv, AnswersHaveReceipts, ReceiptsOf, Succeeded
    <3>. QED
      BY <3>1, <3>2
  <2>7. ReceiptsAreWhole'
    BY <1>1, <2>2 DEF CreationInv, ReceiptsAreWhole, SeriesExists, ReceiptsOf, At
  <2>. QED
    BY <2>2, <2>3, <2>4, <2>5, <2>6, <2>7 DEF CreationInv
<1>. QED
  BY <1>2, <1>3, <1>4

\* A creation commits its series, duty and receipt and answers with them.
LEMMA CreatedInv ==
  ASSUME CreationInv, NEW a \in Attempts, At(a, "absent"),
         attempt[a].id # NoId => ReceiptsOf(attempt[a]) = {},
         UNCHANGED started,
         created' = [s \in DOMAIN created \cup {a} |->
                       IF s = a THEN attempt[a].input ELSE created[s]],
         duties' = IF attempt[a].input \in Snack THEN duties \cup {a} ELSE duties,
         receipts' = IF LeavesReceipt(attempt[a])
           THEN receipts \cup {[by |-> attempt[a].by, id |-> attempt[a].id,
                  input |-> attempt[a].input, series |-> a,
                  duty |-> IF attempt[a].input \in Snack THEN a ELSE NoDuty]}
           ELSE receipts,
         NEW code \in {"created", "lost"}, Finish(a, code, a)
  PROVE  CreationInv'
<1> DEFINE new == [by |-> attempt[a].by, id |-> attempt[a].id,
                   input |-> attempt[a].input, series |-> a,
                   duty |-> IF attempt[a].input \in Snack THEN a ELSE NoDuty]
<1>1. /\ TeamIsLocked'
      /\ attempt'[a].stage = "done" /\ attempt'[a].by = attempt[a].by
      /\ attempt'[a].id = attempt[a].id /\ attempt'[a].input = attempt[a].input
      /\ told'[a].code = code /\ told'[a].series = a
      /\ \A b \in Attempts : b # a => attempt'[b] = attempt[b] /\ told'[b] = told[b]
      /\ attempt[a] \in AttemptRecord
      /\ attempt' \in [Attempts -> [stage : {"new"}] \cup AttemptRecord]
      /\ told' \in [Attempts -> Answers]
      /\ teamLock' \in Attempts \cup {NoAttempt}
  BY FinishInv DEF At
<1>2. /\ attempt[a].by \in Accounts /\ attempt[a].input \in Inputs
      /\ attempt[a].id \in RequestIds \cup {NoId}
  BY <1>1 DEF AttemptRecord
<1>3. a \notin DOMAIN created
  BY DEF CreationInv, OnlyDoneLeaveTraces, At
<1>4. /\ DOMAIN created' = DOMAIN created \cup {a}
      /\ created'[a] = attempt[a].input
      /\ \A s \in DOMAIN created : s # a /\ created'[s] = created[s]
  BY <1>3
<1>5. \/ receipts' = receipts /\ attempt[a].id = NoId
      \/ receipts' = receipts \cup {new} /\ attempt[a].id # NoId
  BY DEF LeavesReceipt
<1>6. attempt[a].id # NoId => new \in Receipt
  BY <1>2 DEF Receipt
<1>7. duties \subseteq duties' /\ duties' \subseteq Attempts
      /\ (attempt[a].input \in Snack => a \in duties')
  BY DEF CreationInv, CreationTypeOK
<1>8. \A b \in Attempts : At(b, "absent") /\ attempt[b].id # NoId /\ attempt[a].id # NoId => b = a
  BY CreationConstantsOK DEF CreationInv, TeamIsLocked
<1>9. CreationTypeOK'
  <2>1. receipts' \subseteq Receipt
    BY <1>5, <1>6 DEF CreationInv, CreationTypeOK
  <2>2. DOMAIN created' \subseteq Attempts /\ \A s \in DOMAIN created' : created'[s] \in Inputs
    BY <1>2, <1>4 DEF CreationInv, CreationTypeOK
  <2>3. started' \subseteq Inputs
    BY DEF CreationInv, CreationTypeOK
  <2>. QED
    BY <1>1, <1>7, <2>1, <2>2, <2>3 DEF CreationTypeOK, AttemptRecord
<1>10. OnlyDoneLeaveTraces'
  <2>1. At(a, "done")' /\ \A b \in Attempts : b # a /\ At(b, "done") => At(b, "done")'
    BY <1>1 DEF At
  <2>2. \A s \in DOMAIN created' : At(s, "done")'
    BY <1>4, <2>1 DEF CreationInv, CreationTypeOK, OnlyDoneLeaveTraces
  <2>3. \A b \in Attempts : b # a => (Succeeded(b)' <=> Succeeded(b))
    BY <1>1 DEF Succeeded
  <2>. QED
    BY <2>1, <2>2, <2>3 DEF CreationInv, OnlyDoneLeaveTraces
<1>11. OneReceiptEach'
  <2>1. CASE receipts' = receipts
    BY <2>1 DEF CreationInv, OneReceiptEach
  <2>2. CASE receipts' = receipts \cup {new} /\ attempt[a].id # NoId
    <3>1. \A r \in receipts : ~(r.by = new.by /\ r.id = new.id)
      BY <2>2 DEF ReceiptsOf
    <3>. QED
      BY <2>2, <3>1 DEF CreationInv, OneReceiptEach
  <2>. QED
    BY <1>5, <2>1, <2>2
<1>12. AnswersHaveReceipts'
  <2> SUFFICES ASSUME NEW b \in Attempts, Succeeded(b)', attempt'[b].id # NoId
               PROVE  \E x \in receipts' : /\ x.by = attempt'[b].by /\ x.id = attempt'[b].id
                        /\ x.series = told'[b].series /\ x.input = attempt'[b].input
    BY DEF AnswersHaveReceipts, ReceiptsOf
  <2>1. CASE b = a
    <3>1. new \in receipts'
      BY <1>1, <1>5, <2>1
    <3>. QED
      BY <1>1, <2>1, <3>1
  <2>2. CASE b # a
    <3>1. PICK x \in ReceiptsOf(attempt[b]) : x.series = told[b].series /\ x.input = attempt[b].input
      BY <1>1, <2>2 DEF CreationInv, AnswersHaveReceipts, Succeeded
    <3>. QED
      BY <1>1, <1>5, <2>2, <3>1 DEF ReceiptsOf
  <2>. QED
    BY <2>1, <2>2
<1>13. ReceiptsAreWhole'
  <2>1. \A r \in receipts :
          /\ r.series \in DOMAIN created /\ created[r.series] = r.input
          /\ r.duty # NoDuty <=> r.input \in Snack
          /\ r.duty # NoDuty => r.duty \in duties
    BY DEF CreationInv, ReceiptsAreWhole, SeriesExists
  <2>2. new.duty # NoDuty <=> new.input \in Snack
    BY CreationConstantsOK
  <2>3. \A r \in receipts' :
          /\ r.series \in DOMAIN created' /\ created'[r.series] = r.input
          /\ r.duty # NoDuty <=> r.input \in Snack
          /\ r.duty # NoDuty => r.duty \in duties'
    <3> SUFFICES ASSUME NEW r \in receipts'
                 PROVE  /\ r.series \in DOMAIN created' /\ created'[r.series] = r.input
                        /\ r.duty # NoDuty <=> r.input \in Snack
                        /\ r.duty # NoDuty => r.duty \in duties'
      OBVIOUS
    <3>1. CASE r \in receipts
      BY <1>4, <1>7, <2>1, <3>1
    <3>2. CASE r = new
      BY <1>4, <1>7, <2>2, <3>2
    <3>. QED
      BY <1>5, <3>1, <3>2
  <2>4. \A b \in Attempts : At(b, "absent")' /\ attempt'[b].id # NoId => ReceiptsOf(attempt[b])' = {}
    <3> SUFFICES ASSUME NEW b \in Attempts, At(b, "absent")', attempt'[b].id # NoId
                 PROVE  ReceiptsOf(attempt[b])' = {}
      OBVIOUS
    <3>1. b # a /\ At(b, "absent") /\ attempt[b].id # NoId /\ attempt'[b] = attempt[b]
      BY <1>1 DEF At
    <3>2. receipts' = receipts
      BY <1>5, <1>8, <3>1
    <3>. QED
      BY <3>1, <3>2 DEF CreationInv, ReceiptsAreWhole, ReceiptsOf
  <2>. QED
    BY <2>3, <2>4 DEF ReceiptsAreWhole, SeriesExists
<1>. QED
  BY <1>1, <1>9, <1>10, <1>11, <1>12, <1>13 DEF CreationInv

LEMMA CreateInv == ASSUME CreationInv, NEW a \in Attempts, Create(a) PROVE CreationInv'
<1>1. a \in Running /\ At(a, "absent")
  BY DEF Create, Running, At
<1>2. CASE attempt[a].id # NoId /\ ReceiptsOf(attempt[a]) # {}
  <2>1. Finish(a, "failed", NoSeries) /\ UNCHANGED <<started, created, duties, receipts>>
    BY <1>2 DEF Create
  <2>. QED
    BY <1>1, <2>1, RefusedInv
<1>3. CASE ~(attempt[a].id # NoId /\ ReceiptsOf(attempt[a]) # {})
  BY <1>1, <1>3, CreatedInv DEF Create
<1>. QED
  BY <1>2, <1>3

LEMMA CreationNextInv == CreationInv /\ [CreationNext]_creationVars => CreationInv'
<1> SUFFICES ASSUME CreationInv, [CreationNext]_creationVars PROVE CreationInv'
  OBVIOUS
<1>1. CASE UNCHANGED creationVars
  <2>1. \A b \in Attempts : ReceiptsOf(attempt[b])' = ReceiptsOf(attempt[b])
    BY <1>1 DEF creationVars, ReceiptsOf
  <2>. QED
    BY <1>1, <2>1 DEF creationVars, CreationInv, CreationTypeOK, TeamIsLocked, OnlyDoneLeaveTraces,
       OneReceiptEach, AnswersHaveReceipts, ReceiptsAreWhole, At, Succeeded, SeriesExists
<1>2. CASE TimePasses
  <2>1. \A b \in Attempts : ReceiptsOf(attempt[b])' = ReceiptsOf(attempt[b])
    BY <1>2 DEF TimePasses, ReceiptsOf
  <2>. QED
    BY <1>2, <2>1 DEF TimePasses, CreationInv, CreationTypeOK, TeamIsLocked, OnlyDoneLeaveTraces,
       OneReceiptEach, AnswersHaveReceipts, ReceiptsAreWhole, At, Succeeded, SeriesExists
<1>3. ASSUME NEW a \in Attempts, Arrive(a) \/ LockTeam(a) \/ NoReceipt(a) \/ Replay(a) \/ Create(a)
      PROVE  CreationInv'
  BY <1>3, ArriveInv, LockTeamInv, NoReceiptInv, ReplayInv, CreateInv
<1>4. ASSUME NEW a \in Attempts, RefuseStarted(a) PROVE CreationInv'
  <2>1. a \in Running
    BY <1>4 DEF RefuseStarted, Running, At
  <2>. QED
    BY <1>4, <2>1, RefusedInv DEF RefuseStarted
<1>5. ASSUME NEW a \in Attempts, AbortCreation(a) PROVE CreationInv'
  BY <1>5, RefusedInv DEF AbortCreation
<1>. QED
  BY <1>1, <1>2, <1>3, <1>4, <1>5 DEF CreationNext

LEMMA CreationInvariant == CreationSpec => []CreationInv
BY CreationInitInv, CreationNextInv, PTL DEF CreationSpec

\* Every series, receipt, lock and attempt keeps its type.
THEOREM CreationTypeCorrect == CreationSpec => []CreationTypeOK
<1>1. CreationInv => CreationTypeOK
  BY DEF CreationInv
<1>. QED
  BY <1>1, CreationInvariant, PTL

\* createEvent: however often a request is repeated, one event is created and
\* every answer names it; its receipt, event and duty are there together.
THEOREM RequestsAreOneEvent == CreationSpec => []OneEventPerRequest
<1>1. CreationInv => AnswersNameOneEvent
  <2> SUFFICES ASSUME CreationInv, NEW a \in Attempts, NEW b \in Attempts,
                      Succeeded(a), Succeeded(b), SameId(a, b)
               PROVE  told[a].series = told[b].series /\ attempt[a].input = attempt[b].input
    BY DEF AnswersNameOneEvent
  <2>1. PICK r \in ReceiptsOf(attempt[a]) : r.series = told[a].series /\ r.input = attempt[a].input
    BY DEF CreationInv, AnswersHaveReceipts, SameId
  <2>2. PICK s \in ReceiptsOf(attempt[b]) : s.series = told[b].series /\ s.input = attempt[b].input
    BY DEF CreationInv, AnswersHaveReceipts, SameId
  <2>3. r = s
    BY DEF CreationInv, OneReceiptEach, ReceiptsOf, SameId
  <2>. QED
    BY <2>1, <2>2, <2>3
<1>2. CreationInv => OneEventPerRequest
  BY <1>1 DEF CreationInv, OneEventPerRequest
<1>. QED
  BY <1>2, CreationInvariant, PTL

----------------------------------------------------------------------------
(* The roster and its import: the inductive invariant *)

\* A handler whose transaction has begun.
InRosterTransaction(s) == server[s].op \in {"attach", "create"}

OneRosterTransaction ==
  database = "sqlite" =>
    \A s, r \in Servers : InRosterTransaction(s) /\ InRosterTransaction(r) => s = r

\* What a handler read before it inserts is still so on SQLite.
ReadsStayTrue ==
  \A s \in Servers :
    /\ server[s].op = "attach" =>
         /\ server[s].child \in DOMAIN children
         /\ database = "sqlite" => children[server[s].child].guardians[server[s].guardian] = 0
    /\ server[s].op = "create" /\ database = "sqlite" => server[s].keys = SeasonKeys

\* A form that waits for a preview asked about a file.
FilesAreAsked == \A f \in Forms : form[f].waits = "preview" => form[f].asked \in Files

RosterInv ==
  /\ RosterTypeOK
  /\ OneRosterTransaction /\ ReadsStayTrue /\ FilesAreAsked
  /\ ChildrenAreImportedOnce /\ GuardiansAreAttachedOnce

AttachRecord == [op : {"attach"}, child : Nat, guardian : Guardians]
CommitRecord == [op : {"commit"}, rows : Seq(FileRow), by : Forms]
CreateRecord == [op : {"create"}, rows : Seq(FileRow), by : Forms, keys : SUBSET Keys]

----------------------------------------------------------------------------
(* What the operators of an import return *)

\* Positions of a sequence can be put in order, and their order is a sequence.
LEMMA InOrderIs ==
  ASSUME NEW n \in Nat, NEW S \in SUBSET (1..n), NEW o \in InOrder(S)
  PROVE  /\ Cardinality(S) \in Nat
         /\ DOMAIN o = 1..Cardinality(S)
         /\ \A i \in DOMAIN o : o[i] \in S
         /\ \A i, j \in DOMAIN o : i < j => o[i] < o[j]
<1>1. IsFiniteSet(S)
  <2>1. IsFiniteSet(1..n)
    BY FS_Interval
  <2>. QED
    BY <2>1, FS_Subset
<1>2. Cardinality(S) \in Nat
  BY <1>1, FS_CardinalityType
<1>. QED
  BY <1>2 DEF InOrder

\* committableRows (roster-actions.ts): rows of the file.
LEMMA CommittableAreRows ==
  ASSUME NEW file \in Seq(FileRow), NEW verdicts, NEW listed \in Committable(file, verdicts)
  PROVE  listed \in Seq(FileRow)
<1> DEFINE S == {i \in DOMAIN file : verdicts[i] = "valid"}
<1>1. PICK o \in InOrder(S) : listed = [n \in DOMAIN o |-> file[o[n]]]
  BY DEF Committable
<1>2. Len(file) \in Nat /\ S \in SUBSET (1..Len(file)) /\ DOMAIN file = 1..Len(file)
  OBVIOUS
<1>3. Cardinality(S) \in Nat /\ DOMAIN o = 1..Cardinality(S) /\ \A i \in DOMAIN o : o[i] \in S
  BY <1>1, <1>2, InOrderIs
<1>4. \A i \in DOMAIN o : file[o[i]] \in FileRow
  BY <1>2, <1>3
<1>5. /\ DOMAIN listed = 1..Cardinality(S)
      /\ \A i \in 1..Cardinality(S) : listed[i] \in FileRow
  BY <1>1, <1>3, <1>4
<1>6. listed = [i \in 1..Cardinality(S) |-> listed[i]]
  BY <1>1, <1>3
<1>7. listed \in [1..Cardinality(S) -> FileRow]
  BY <1>5, <1>6
<1>. QED
  BY <1>3, <1>7, SeqDef

\* commitRosterImport: the children it creates are imported, with at most one
\* edge to a guardian, and bear keys that the roster it read does not, each once.
LEMMA NewChildrenAreNew ==
  ASSUME NEW listed \in Seq(FileRow), NEW keys, NEW new \in NewChildren(listed, keys)
  PROVE  /\ new \in Seq(Child)
         /\ \A i \in DOMAIN new :
              /\ new[i].key \notin keys
              /\ \A g \in Guardians : new[i].guardians[g] <= 1
              /\ \A j \in 1..(i - 1) : new[j].key # new[i].key
<1> DEFINE S == {i \in DOMAIN listed : Creates(listed, i, keys)}
<1>1. PICK o \in InOrder(S) : new = [n \in DOMAIN o |-> Imported(listed[o[n]])]
  BY DEF NewChildren
<1>2. Len(listed) \in Nat /\ S \in SUBSET (1..Len(listed)) /\ DOMAIN listed = 1..Len(listed)
  OBVIOUS
<1>3. /\ Cardinality(S) \in Nat /\ DOMAIN o = 1..Cardinality(S)
      /\ \A i \in DOMAIN o : o[i] \in S
      /\ \A i, j \in DOMAIN o : i < j => o[i] < o[j]
  BY <1>1, <1>2, InOrderIs
<1>4. \A i \in DOMAIN o :
        /\ listed[o[i]] \in FileRow
        /\ listed[o[i]].key \notin keys
        /\ \A j \in 1..(o[i] - 1) : listed[j].key # listed[o[i]].key
  BY <1>2, <1>3 DEF Creates
<1>5. \A row \in FileRow : /\ Imported(row) \in Child /\ Imported(row).key = row.key
                           /\ \A g \in Guardians : Imported(row).guardians[g] <= 1
  BY DEF Imported, Child, FileRow, AttachedFrom
<1>6. new \in Seq(Child)
  <2>1. \A i \in 1..Cardinality(S) : new[i] \in Child
    BY <1>1, <1>3, <1>4, <1>5
  <2>2. new = [i \in 1..Cardinality(S) |-> new[i]]
    BY <1>1, <1>3
  <2>3. new \in [1..Cardinality(S) -> Child]
    BY <2>1, <2>2
  <2>. QED
    BY <1>3, <2>3, SeqDef
<1>7. \A i \in DOMAIN new : new[i].key = listed[o[i]].key /\ \A g \in Guardians : new[i].guardians[g] <= 1
  BY <1>1, <1>4, <1>5
<1>8. ASSUME NEW i \in DOMAIN new, NEW j \in 1..(i - 1)
      PROVE  new[j].key # new[i].key
  <2>1. i \in DOMAIN o /\ j \in DOMAIN o /\ j < i /\ DOMAIN o = DOMAIN new
    BY <1>1, <1>3
  <2>2. o[j] \in 1..Len(listed) /\ o[i] \in 1..Len(listed) /\ o[j] < o[i]
    BY <1>2, <1>3, <2>1
  <2>3. listed[o[j]].key # listed[o[i]].key
    BY <1>4, <2>1, <2>2
  <2>. QED
    BY <1>7, <2>1, <2>3
<1>9. \A i \in DOMAIN new : new[i].key \notin keys
  BY <1>1, <1>4, <1>7
<1>. QED
  BY <1>6, <1>7, <1>8, <1>9

\* previewImport says something of every row.
LEMMA VerdictsAreTyped ==
  ASSUME NEW file \in Seq(FileRow), NEW keys
  PROVE  RowVerdicts(file, keys) \in Seq(Verdicts)
<1>1. \A i \in DOMAIN file : Verdict(file, i, keys) \in Verdicts
  BY DEF Verdict, Verdicts
<1>. QED
  BY <1>1 DEF RowVerdicts

LEMMA IdleServes == Idle.op = "idle" /\ ~(Idle.op \in {"attach", "create", "commit"})
BY DEF Idle

\* A handler is idle or a record of what it runs.
LEMMA RosterHandlersAre ==
  ASSUME NEW h \in RosterHandlers
  PROVE  /\ h.op = "attach" => h \in AttachRecord
         /\ h.op = "commit" => h \in CommitRecord
         /\ h.op = "create" => h \in CreateRecord
         /\ h.op \in {"idle", "attach", "commit", "create"}
         /\ h.op = "idle" => h = Idle
BY DEF RosterHandlers, AttachRecord, CommitRecord, CreateRecord, Idle

LEMMA RosterInitInv == RosterInit => RosterInv
<1> SUFFICES ASSUME RosterInit PROVE RosterInv
  OBVIOUS
<1>1. \A s \in Servers : server[s].op = "idle" /\ server[s] \in RosterHandlers
  BY DEF RosterInit, Idle, RosterHandlers
<1>2. RosterTypeOK
  BY <1>1, RosterConstantsOK DEF RosterInit, RosterTypeOK, RosterHandlers, NewForm, ImportForm
<1>. QED
  BY <1>1, <1>2 DEF RosterInit, RosterInv, OneRosterTransaction, InRosterTransaction, ReadsStayTrue,
     FilesAreAsked, NewForm, ChildrenAreImportedOnce, GuardiansAreAttachedOnce

\* On SQLite no other handler is in its transaction when one begins.
LEMMA NoneIsInTransaction ==
  ASSUME RosterInv, TransactionMayBegin(InTransaction), database = "sqlite", NEW s \in Servers
  PROVE  ~InRosterTransaction(s)
<1>1. InTransaction[s] = Idle
  BY DEF TransactionMayBegin, InTransaction
<1>. QED
  BY <1>1, IdleServes DEF InTransaction, InRosterTransaction

\* A step of one form that leaves the roster and the handlers alone.
LEMMA FormMoves ==
  ASSUME RosterInv, NEW f \in Forms, NEW v \in ImportForm, form' = [form EXCEPT ![f] = v],
         v.waits = "preview" => v.asked \in Files,
         UNCHANGED <<database, children, server>>
  PROVE  RosterInv'
<1>1. form \in [Forms -> ImportForm]
  BY DEF RosterInv, RosterTypeOK
<1>2. form' \in [Forms -> ImportForm] /\ form'[f] = v /\ \A g \in Forms : g # f => form'[g] = form[g]
  BY <1>1
<1>3. FilesAreAsked'
  BY <1>2 DEF RosterInv, FilesAreAsked
<1>. QED
  BY <1>2, <1>3 DEF RosterInv, RosterTypeOK, OneRosterTransaction, InRosterTransaction, ReadsStayTrue,
     SeasonKeys, ChildrenAreImportedOnce, GuardiansAreAttachedOnce

\* A handler that takes a step without writing the roster.
LEMMA HandlerMoves ==
  ASSUME RosterInv, NEW s \in Servers, NEW v \in RosterHandlers,
         server' = [server EXCEPT ![s] = v],
         v.op \in {"attach", "create"} /\ database = "sqlite" =>
           \A r \in Servers : r # s => ~InRosterTransaction(r),
         v.op = "attach" =>
           /\ v.child \in DOMAIN children
           /\ database = "sqlite" => children[v.child].guardians[v.guardian] = 0,
         v.op = "create" /\ database = "sqlite" => v.keys = SeasonKeys,
         form' \in [Forms -> ImportForm], FilesAreAsked',
         UNCHANGED <<database, children>>
  PROVE  RosterInv'
<1>1. server \in [Servers -> RosterHandlers]
  BY DEF RosterInv, RosterTypeOK
<1>2. /\ server' \in [Servers -> RosterHandlers]
      /\ server'[s] = v
      /\ \A r \in Servers : r # s => server'[r] = server[r]
  BY <1>1
<1>3. OneRosterTransaction'
  BY <1>2 DEF RosterInv, OneRosterTransaction, InRosterTransaction
<1>4. SeasonKeys' = SeasonKeys
  BY DEF SeasonKeys
<1>5. ReadsStayTrue'
  BY <1>2, <1>4 DEF RosterInv, ReadsStayTrue
<1>. QED
  BY <1>2, <1>3, <1>5 DEF RosterInv, RosterTypeOK, ChildrenAreImportedOnce, GuardiansAreAttachedOnce

LEMMA KeysAreTyped == ASSUME RosterInv PROVE SeasonKeys \subseteq Keys
<1>1. \A i \in DOMAIN children : children[i] \in Child
  BY DEF RosterInv, RosterTypeOK
<1>. QED
  BY <1>1 DEF SeasonKeys, Child

\* Children are added behind the ones there are, while on SQLite no other
\* transaction runs.
LEMMA RosterGrows ==
  ASSUME RosterInv, NEW new \in Seq(Child), children' = children \o new,
         Len(children) + Len(new) <= RosterBound,
         \A i \in DOMAIN new :
           /\ \A g \in Guardians : new[i].guardians[g] <= 1
           /\ new[i].by = "import" /\ database = "sqlite" =>
                /\ new[i].key \notin SeasonKeys
                /\ \A j \in 1..(i - 1) : new[j].key # new[i].key,
         database' = database,
         server' \in [Servers -> RosterHandlers],
         \A r \in Servers : server'[r] = server[r] \/ server'[r] = Idle,
         database = "sqlite" => \A r \in Servers : ~InRosterTransaction(r)',
         form' \in [Forms -> ImportForm], FilesAreAsked'
  PROVE  RosterInv'
<1>1. children \in Seq(Child) /\ \A i \in DOMAIN children : children[i] \in Child
  BY DEF RosterInv, RosterTypeOK
<1>2. /\ children' \in Seq(Child)
      /\ Len(children') = Len(children) + Len(new)
      /\ \A i \in 1..(Len(children) + Len(new)) :
           children'[i] = IF i <= Len(children) THEN children[i] ELSE new[i - Len(children)]
  BY <1>1, ConcatProperties
<1>3. /\ DOMAIN children = 1..Len(children) /\ Len(children) \in Nat
      /\ DOMAIN new = 1..Len(new) /\ Len(new) \in Nat
      /\ DOMAIN children' = 1..(Len(children) + Len(new))
  BY <1>1, <1>2
<1>4. RosterTypeOK'
  BY <1>2 DEF RosterInv, RosterTypeOK
<1>5. \A i \in DOMAIN children : i \in DOMAIN children' /\ children'[i] = children[i]
  BY <1>2, <1>3
<1>6. ASSUME NEW i \in DOMAIN children', i \notin DOMAIN children
      PROVE  /\ i - Len(children) \in DOMAIN new /\ children'[i] = new[i - Len(children)]
             /\ i > Len(children)
  BY <1>2, <1>3, <1>6
<1>7. ReadsStayTrue'
  <2> SUFFICES ASSUME NEW r \in Servers, server'[r].op \in {"attach", "create"}
               PROVE  /\ server'[r].op = "attach" =>
                           /\ server'[r].child \in DOMAIN children'
                           /\ database' = "sqlite" => children'[server'[r].child].guardians[server'[r].guardian] = 0
                      /\ server'[r].op = "create" /\ database' = "sqlite" => server'[r].keys = SeasonKeys'
    BY DEF ReadsStayTrue
  <2>1. server'[r] = server[r]
    BY IdleServes
  <2>2. database # "sqlite"
    BY <2>1 DEF InRosterTransaction
  <2>. QED
    BY <1>5, <2>1, <2>2 DEF RosterInv, ReadsStayTrue
<1>8. OneRosterTransaction'
  <2> SUFFICES ASSUME database = "sqlite" PROVE OneRosterTransaction'
    BY <1>5, IdleServes DEF RosterInv, OneRosterTransaction, InRosterTransaction
  <2>. QED
    BY DEF OneRosterTransaction
<1>9. ChildrenAreImportedOnce'
  <2> SUFFICES ASSUME database = "sqlite", NEW i \in DOMAIN children', children'[i].by = "import",
                      NEW j \in 1..(i - 1)
               PROVE  children'[j].key # children'[i].key
    BY DEF ChildrenAreImportedOnce
  <2>1. CASE i \in DOMAIN children
    <3>1. j \in DOMAIN children /\ children'[j] = children[j] /\ children'[i] = children[i]
      BY <1>3, <1>5, <2>1
    <3>. QED
      BY <2>1, <3>1 DEF RosterInv, ChildrenAreImportedOnce
  <2>2. CASE i \notin DOMAIN children
    <3>1. /\ i - Len(children) \in DOMAIN new /\ children'[i] = new[i - Len(children)]
          /\ i > Len(children) /\ i \in 1..(Len(children) + Len(new))
      BY <1>3, <1>6, <2>2
    <3>2. children'[i].key \notin SeasonKeys
      BY <3>1
    <3>3. CASE j \in DOMAIN children
      BY <1>5, <3>2, <3>3 DEF SeasonKeys
    <3>4. CASE j \notin DOMAIN children
      <4>1. /\ j \in DOMAIN children' /\ j - Len(children) \in 1..((i - Len(children)) - 1)
        BY <1>3, <3>1, <3>4
      <4>2. children'[j] = new[j - Len(children)]
        BY <1>6, <3>4, <4>1
      <4>3. new[j - Len(children)].key # new[i - Len(children)].key
        BY <3>1, <4>1
      <4>. QED
        BY <3>1, <4>2, <4>3
    <3>. QED
      BY <3>3, <3>4
  <2>. QED
    BY <2>1, <2>2
<1>10. GuardiansAreAttachedOnce'
  <2> SUFFICES ASSUME database = "sqlite", NEW i \in DOMAIN children', NEW g \in Guardians
               PROVE  children'[i].guardians[g] <= 1
    BY DEF GuardiansAreAttachedOnce
  <2>1. CASE i \in DOMAIN children
    BY <1>5, <2>1 DEF RosterInv, GuardiansAreAttachedOnce
  <2>2. CASE i \notin DOMAIN children
    BY <1>6, <2>2
  <2>. QED
    BY <2>1, <2>2
<1>. QED
  BY <1>4, <1>7, <1>8, <1>9, <1>10 DEF RosterInv

LEMMA AddParticipantInv == ASSUME RosterInv, AddParticipant PROVE RosterInv'
<1>1. PICK k \in Keys : children' = Append(children, [key |-> k, by |-> "add",
                                     guardians |-> [g \in Guardians |-> 0]])
  BY DEF AddParticipant
<1> DEFINE child == [key |-> k, by |-> "add", guardians |-> [g \in Guardians |-> 0]]
<1>2. child \in Child /\ child.by = "add" /\ \A g \in Guardians : child.guardians[g] <= 1
  BY DEF Child
<1>3. children \in Seq(Child) /\ <<child>> \in Seq(Child) /\ Len(<<child>>) = 1
      /\ DOMAIN <<child>> = {1} /\ <<child>>[1] = child
  BY <1>2 DEF RosterInv, RosterTypeOK
<1>4. children' = children \o <<child>>
  BY <1>1, <1>3
<1>5. Len(children) + 1 <= RosterBound
  BY <1>3, RosterConstantsOK DEF AddParticipant
<1>6. UNCHANGED <<database, form, server>> /\ TransactionMayBegin(InTransaction)
  BY DEF AddParticipant
<1>7. database = "sqlite" => \A r \in Servers : ~InRosterTransaction(r)'
  BY <1>6, NoneIsInTransaction DEF InRosterTransaction
<1>8. /\ server' \in [Servers -> RosterHandlers] /\ form' \in [Forms -> ImportForm]
      /\ FilesAreAsked'
  BY <1>6 DEF RosterInv, RosterTypeOK, FilesAreAsked
<1> HIDE DEF child
<1>. QED
  BY <1>2, <1>3, <1>4, <1>5, <1>6, <1>7, <1>8, RosterGrows

LEMMA CheckGuardianInv == ASSUME RosterInv, NEW s \in Servers, CheckGuardian(s) PROVE RosterInv'
<1>1. PICK i \in DOMAIN children, g \in Guardians :
        /\ children[i].guardians[g] = 0
        /\ server' = [server EXCEPT ![s] = [op |-> "attach", child |-> i, guardian |-> g]]
  BY DEF CheckGuardian, Runs
<1>2. i \in Nat
  BY DEF RosterInv, RosterTypeOK
<1>3. [op |-> "attach", child |-> i, guardian |-> g] \in RosterHandlers
  BY <1>2 DEF RosterHandlers
<1>4. database = "sqlite" => \A r \in Servers : ~InRosterTransaction(r)
  BY NoneIsInTransaction DEF CheckGuardian
<1>5. /\ UNCHANGED <<database, children, form>> /\ form' \in [Forms -> ImportForm]
      /\ FilesAreAsked'
  BY DEF CheckGuardian, RosterInv, RosterTypeOK, FilesAreAsked
<1>. QED
  BY <1>1, <1>3, <1>4, <1>5, HandlerMoves

LEMMA AttachGuardianEdgeInv ==
  ASSUME RosterInv, NEW s \in Servers, AttachGuardianEdge(s) PROVE RosterInv'
<1> DEFINE c == server[s].child
           g == server[s].guardian
<1>1. server[s] \in AttachRecord
  BY RosterHandlersAre DEF AttachGuardianEdge, RosterInv, RosterTypeOK
<1>2. g \in Guardians
  BY <1>1 DEF AttachRecord
<1>3. /\ c \in DOMAIN children
      /\ database = "sqlite" => children[c].guardians[g] = 0
  BY DEF AttachGuardianEdge, RosterInv, ReadsStayTrue
<1> DEFINE held == [children[c].guardians EXCEPT ![g] = children[c].guardians[g] + 1]
<1>4. /\ children' = [children EXCEPT ![c] = [children[c] EXCEPT !.guardians = held]]
      /\ server' = [server EXCEPT ![s] = Idle]
      /\ UNCHANGED <<database, form>>
  BY DEF AttachGuardianEdge, Runs
<1>5. /\ children \in Seq(Child) /\ children[c] \in Child
      /\ server \in [Servers -> RosterHandlers]
  BY <1>3 DEF RosterInv, RosterTypeOK
<1>6. /\ children[c].guardians \in [Guardians -> Nat]
       /\ held \in [Guardians -> Nat] /\ held[g] = children[c].guardians[g] + 1
       /\ \A o \in Guardians : o # g => held[o] = children[c].guardians[o]
  <2>1. children[c].guardians \in [Guardians -> Nat]
    BY <1>5 DEF Child
  <2>. QED
    BY <1>2, <2>1
<1> HIDE DEF held
<1> DEFINE child == [children[c] EXCEPT !.guardians = held]
<1>7. child \in Child /\ child.key = children[c].key /\ child.by = children[c].by
       /\ child.guardians = held
  BY <1>5, <1>6 DEF Child
<1>8. /\ child \in Child /\ child.key = children[c].key /\ child.by = children[c].by
      /\ child.guardians[g] = children[c].guardians[g] + 1
      /\ \A o \in Guardians : o # g => child.guardians[o] = children[c].guardians[o]
      /\ children[c].guardians \in [Guardians -> Nat]
  BY <1>6, <1>7
<1>9. children' = [children EXCEPT ![c] = child]
  BY <1>4
<1> HIDE DEF child
<1>10. /\ children' \in Seq(Child) /\ Len(children') = Len(children)
      /\ DOMAIN children' = DOMAIN children /\ children'[c] = child
      /\ \A i \in DOMAIN children : i # c => children'[i] = children[i]
  BY <1>3, <1>5, <1>8, <1>9
<1>11. /\ server' \in [Servers -> RosterHandlers] /\ server'[s] = Idle
      /\ \A r \in Servers : r # s => server'[r] = server[r]
  BY <1>4, <1>5 DEF RosterHandlers
<1>12. RosterTypeOK'
  BY <1>4, <1>10, <1>11 DEF RosterInv, RosterTypeOK
<1>13. \A i \in DOMAIN children : children'[i].key = children[i].key /\ children'[i].by = children[i].by
  BY <1>8, <1>10
<1>14. database = "sqlite" => \A r \in Servers : ~InRosterTransaction(r)'
  BY <1>11, IdleServes DEF AttachGuardianEdge, RosterInv, OneRosterTransaction, InRosterTransaction
<1>15. OneRosterTransaction'
  BY <1>4, <1>11, IdleServes DEF RosterInv, OneRosterTransaction, InRosterTransaction
<1>16. ReadsStayTrue'
  <2> SUFFICES ASSUME NEW r \in Servers, server'[r].op \in {"attach", "create"}
               PROVE  /\ server'[r].op = "attach" =>
                           /\ server'[r].child \in DOMAIN children'
                           /\ database' = "sqlite" => children'[server'[r].child].guardians[server'[r].guardian] = 0
                      /\ server'[r].op = "create" /\ database' = "sqlite" => server'[r].keys = SeasonKeys'
    BY DEF ReadsStayTrue
  <2>1. r # s /\ server'[r] = server[r]
    BY <1>11, IdleServes
  <2>2. database # "sqlite"
    BY <1>14 DEF InRosterTransaction
  <2>. QED
    BY <1>4, <1>10, <2>1, <2>2 DEF RosterInv, ReadsStayTrue
<1>17. ChildrenAreImportedOnce'
  <2> SUFFICES ASSUME database = "sqlite", NEW i \in DOMAIN children', children'[i].by = "import",
                      NEW j \in 1..(i - 1)
               PROVE  children'[j].key # children'[i].key
    BY <1>4 DEF ChildrenAreImportedOnce
  <2>1. i \in DOMAIN children /\ j \in DOMAIN children
    BY <1>5, <1>10
  <2>. QED
    BY <1>13, <2>1 DEF RosterInv, ChildrenAreImportedOnce
<1>18. GuardiansAreAttachedOnce'
  <2> SUFFICES ASSUME database = "sqlite", NEW i \in DOMAIN children', NEW o \in Guardians
               PROVE  children'[i].guardians[o] <= 1
    BY <1>4 DEF GuardiansAreAttachedOnce
  <2>1. children[i].guardians[o] <= 1
    BY <1>10 DEF RosterInv, GuardiansAreAttachedOnce
  <2>2. CASE i = c /\ o = g
    BY <1>3, <1>8, <1>10, <2>2
  <2>3. CASE ~(i = c /\ o = g)
    BY <1>8, <1>10, <2>1, <2>3
  <2>. QED
    BY <2>2, <2>3
<1>19. FilesAreAsked'
  BY <1>4 DEF RosterInv, FilesAreAsked
<1>. QED
  BY <1>12, <1>15, <1>16, <1>17, <1>18, <1>19 DEF RosterInv

\* The steps of a form.
LEMMA FormInv ==
  ASSUME RosterInv, NEW f \in Forms,
         ChangeCsv(f) \/ RunPreview(f) \/ AnswerPreview(f) \/ LosePreview(f) \/ LoseAnswer(f)
  PROVE  RosterInv'
<1>1. form[f] \in ImportForm /\ (form[f].waits = "preview" => form[f].asked \in Files)
  BY DEF RosterInv, RosterTypeOK, FilesAreAsked
<1>2. CASE ChangeCsv(f)
  <2>1. PICK file \in Files : form' = [form EXCEPT ![f] = [form[f] EXCEPT !.csv = file, !.preview = NoPreview]]
    BY <1>2 DEF ChangeCsv, Holds
  <2>2. /\ [form[f] EXCEPT !.csv = file, !.preview = NoPreview] \in ImportForm
        /\ [form[f] EXCEPT !.csv = file, !.preview = NoPreview].waits = form[f].waits
        /\ [form[f] EXCEPT !.csv = file, !.preview = NoPreview].asked = form[f].asked
    BY <1>1 DEF ImportForm
  <2>. QED
    BY <1>1, <1>2, <2>1, <2>2, FormMoves DEF ChangeCsv
<1>3. CASE RunPreview(f)
  <2>1. /\ [form[f] EXCEPT !.waits = "preview", !.asked = form[f].csv] \in ImportForm
        /\ [form[f] EXCEPT !.waits = "preview", !.asked = form[f].csv].asked = form[f].csv
        /\ form[f].csv \in Files
    BY <1>1, <1>3 DEF ImportForm, RunPreview
  <2>. QED
    BY <1>3, <2>1, FormMoves DEF RunPreview, Holds
<1>4. CASE AnswerPreview(f)
  <2> DEFINE p == [file |-> form[f].asked, verdicts |-> RowVerdicts(form[f].asked, SeasonKeys)]
  <2>1. form[f].asked \in Files /\ form[f].asked \in Seq(FileRow)
    BY <1>1, <1>4, RosterConstantsOK DEF AnswerPreview
  <2>2. p \in Previews
    BY <2>1, VerdictsAreTyped DEF Previews
  <2>3. form' = [form EXCEPT ![f] = [form[f] EXCEPT !.waits = "no", !.preview = p]]
    BY <1>4 DEF AnswerPreview, Holds
  <2> HIDE DEF p
  <2>4. /\ [form[f] EXCEPT !.waits = "no", !.preview = p] \in ImportForm
        /\ [form[f] EXCEPT !.waits = "no", !.preview = p].waits = "no"
    BY <1>1, <2>2 DEF ImportForm
  <2>. QED
    BY <1>4, <2>3, <2>4, FormMoves DEF AnswerPreview
<1>5. CASE LosePreview(f)
  <2>1. /\ [form[f] EXCEPT !.waits = "no", !.preview = NoPreview] \in ImportForm
        /\ [form[f] EXCEPT !.waits = "no", !.preview = NoPreview].waits = "no"
    BY <1>1 DEF ImportForm
  <2>. QED
    BY <1>5, <2>1, FormMoves DEF LosePreview, Holds
<1>6. CASE LoseAnswer(f)
  <2>1. [form[f] EXCEPT !.waits = "no"] \in ImportForm /\ [form[f] EXCEPT !.waits = "no"].waits = "no"
    BY <1>1 DEF ImportForm
  <2>. QED
    BY <1>6, <2>1, FormMoves DEF LoseAnswer, Holds
<1>. QED
  BY <1>2, <1>3, <1>4, <1>5, <1>6

LEMMA ConfirmInv ==
  ASSUME RosterInv, NEW f \in Forms, NEW s \in Servers, Confirm(f, s) PROVE RosterInv'
<1>1. PICK listed \in Committable(form[f].preview.file, form[f].preview.verdicts) :
        server' = [server EXCEPT ![s] = [op |-> "commit", rows |-> listed, by |-> f]]
  BY DEF Confirm, Runs
<1>2. form[f] \in ImportForm
  BY DEF RosterInv, RosterTypeOK
<1>3. form[f].preview.file \in Seq(FileRow)
  BY <1>2, RosterConstantsOK DEF Confirm, ImportForm, Previews
<1>4. listed \in Seq(FileRow)
  BY <1>3, CommittableAreRows
<1>5. [op |-> "commit", rows |-> listed, by |-> f] \in RosterHandlers
  BY <1>4 DEF RosterHandlers
<1>6. /\ [form[f] EXCEPT !.waits = "commit"] \in ImportForm
      /\ [form[f] EXCEPT !.waits = "commit"].waits = "commit"
  BY <1>2 DEF ImportForm
<1>7. form' = [form EXCEPT ![f] = [form[f] EXCEPT !.waits = "commit"]] /\ form \in [Forms -> ImportForm]
  BY DEF Confirm, Holds, RosterInv, RosterTypeOK
<1>8. /\ form' \in [Forms -> ImportForm] /\ FilesAreAsked'
      /\ UNCHANGED <<database, children>>
  BY <1>6, <1>7 DEF Confirm, RosterInv, FilesAreAsked
<1>. QED
  BY <1>1, <1>5, <1>8, HandlerMoves

LEMMA ReadRosterInv == ASSUME RosterInv, NEW s \in Servers, ReadRoster(s) PROVE RosterInv'
<1>1. server[s] \in CommitRecord
  BY RosterHandlersAre DEF ReadRoster, RosterInv, RosterTypeOK
<1> DEFINE v == [op |-> "create", rows |-> server[s].rows, by |-> server[s].by, keys |-> SeasonKeys]
<1>2. v \in RosterHandlers
  BY <1>1, KeysAreTyped DEF CommitRecord, RosterHandlers
<1>3. server' = [server EXCEPT ![s] = v]
  BY DEF ReadRoster, Runs
<1>4. database = "sqlite" => \A r \in Servers : ~InRosterTransaction(r)
  BY NoneIsInTransaction DEF ReadRoster
<1>5. /\ UNCHANGED <<database, children, form>> /\ form' \in [Forms -> ImportForm]
      /\ FilesAreAsked'
  BY DEF ReadRoster, RosterInv, RosterTypeOK, FilesAreAsked
<1>. QED
  BY <1>2, <1>3, <1>4, <1>5, HandlerMoves

LEMMA CreateRowsInv == ASSUME RosterInv, NEW s \in Servers, CreateRows(s) PROVE RosterInv'
<1>1. server[s] \in CreateRecord /\ server \in [Servers -> RosterHandlers]
  BY RosterHandlersAre DEF CreateRows, RosterInv, RosterTypeOK
<1>2. PICK new \in NewChildren(server[s].rows, server[s].keys) :
        /\ Len(children) + Len(new) <= RosterBound
        /\ children' = children \o new
  BY DEF CreateRows
<1>3. server[s].rows \in Seq(FileRow) /\ server[s].by \in Forms
  BY <1>1 DEF CreateRecord
<1>4. /\ new \in Seq(Child)
      /\ \A i \in DOMAIN new :
           /\ new[i].key \notin server[s].keys
           /\ \A g \in Guardians : new[i].guardians[g] <= 1
           /\ \A j \in 1..(i - 1) : new[j].key # new[i].key
  BY <1>2, <1>3, NewChildrenAreNew
<1>5. database = "sqlite" => server[s].keys = SeasonKeys
  BY DEF CreateRows, RosterInv, ReadsStayTrue
<1>6. server' = [server EXCEPT ![s] = Idle] /\ database' = database
  BY DEF CreateRows, Runs
<1>7. /\ server' \in [Servers -> RosterHandlers] /\ server'[s] = Idle
      /\ \A r \in Servers : r # s => server'[r] = server[r]
  BY <1>1, <1>6 DEF RosterHandlers
<1>8. database = "sqlite" => \A r \in Servers : ~InRosterTransaction(r)'
  BY <1>7, IdleServes DEF CreateRows, RosterInv, OneRosterTransaction, InRosterTransaction
<1>9. NewForm \in ImportForm /\ NewForm.waits = "no"
  BY DEF NewForm, ImportForm
<1>10. form' \in [Forms -> ImportForm] /\ FilesAreAsked'
  <2>1. form \in [Forms -> ImportForm] /\ FilesAreAsked
    BY DEF RosterInv, RosterTypeOK
  <2>2. form' = form \/ form' = [form EXCEPT ![server[s].by] = NewForm]
    BY DEF CreateRows, Holds
  <2>. QED
    BY <1>3, <1>9, <2>1, <2>2 DEF FilesAreAsked
<1>. QED
  BY <1>2, <1>4, <1>5, <1>6, <1>7, <1>8, <1>10, RosterGrows

LEMMA FailCommitInv == ASSUME RosterInv, NEW s \in Servers, FailCommit(s) PROVE RosterInv'
<1>1. Idle \in RosterHandlers /\ server' = [server EXCEPT ![s] = Idle]
  BY DEF FailCommit, Runs, RosterHandlers
<1>2. \A f \in Forms : form[f] \in ImportForm
  BY DEF RosterInv, RosterTypeOK
<1>3. \A f \in Forms : /\ form'[f] \in ImportForm
                       /\ form'[f] = form[f] \/ form'[f].waits = "no"
  <2> SUFFICES ASSUME NEW f \in Forms
               PROVE  form'[f] \in ImportForm /\ (form'[f] = form[f] \/ form'[f].waits = "no")
    OBVIOUS
  <2>1. form'[f] = form[f] \/ form'[f] = [form[f] EXCEPT !.waits = "no"]
    BY DEF FailCommit
  <2>2. [form[f] EXCEPT !.waits = "no"] \in ImportForm /\ [form[f] EXCEPT !.waits = "no"].waits = "no"
    BY <1>2 DEF ImportForm
  <2>. QED
    BY <1>2, <2>1, <2>2
<1>4. DOMAIN form' = Forms /\ form' = [f \in Forms |-> form'[f]]
  BY DEF FailCommit
<1>5. /\ form' \in [Forms -> ImportForm] /\ FilesAreAsked'
      /\ UNCHANGED <<database, children>>
  BY <1>3, <1>4 DEF FailCommit, RosterInv, FilesAreAsked
<1>. QED
  BY <1>1, <1>5, HandlerMoves, IdleServes

LEMMA RosterNextInv == RosterInv /\ [RosterNext]_rosterVars => RosterInv'
<1> SUFFICES ASSUME RosterInv, [RosterNext]_rosterVars PROVE RosterInv'
  OBVIOUS
<1>1. CASE UNCHANGED rosterVars
  BY <1>1 DEF rosterVars, RosterInv, RosterTypeOK, OneRosterTransaction, InRosterTransaction,
     ReadsStayTrue, SeasonKeys, FilesAreAsked, ChildrenAreImportedOnce, GuardiansAreAttachedOnce
<1>2. CASE AddParticipant
  BY <1>2, AddParticipantInv
<1>3. ASSUME NEW f \in Forms,
             ChangeCsv(f) \/ RunPreview(f) \/ AnswerPreview(f) \/ LosePreview(f) \/ LoseAnswer(f)
      PROVE  RosterInv'
  BY <1>3, FormInv
<1>4. ASSUME NEW f \in Forms, NEW s \in Servers, Confirm(f, s) PROVE RosterInv'
  BY <1>4, ConfirmInv
<1>5. ASSUME NEW s \in Servers, CheckGuardian(s) \/ AttachGuardianEdge(s) \/ ReadRoster(s)
                                  \/ CreateRows(s) \/ FailCommit(s)
      PROVE  RosterInv'
  BY <1>5, CheckGuardianInv, AttachGuardianEdgeInv, ReadRosterInv, CreateRowsInv, FailCommitInv
<1>. QED
  BY <1>1, <1>2, <1>3, <1>4, <1>5 DEF RosterNext

LEMMA RosterInvariant == RosterSpec => []RosterInv
BY RosterInitInv, RosterNextInv, PTL DEF RosterSpec

\* The roster, every form and every handler keep their types.
THEOREM RosterTypeCorrect == RosterSpec => []RosterTypeOK
<1>1. RosterInv => RosterTypeOK
  BY DEF RosterInv
<1>. QED
  BY <1>1, RosterInvariant, PTL

\* commitRosterImport and attachGuardian: on SQLite no import creates a child
\* the roster has, and no path attaches one guardian twice to one child.
THEOREM ImportsAreNew == RosterSpec => []ImportsNeverDuplicate
<1>1. RosterInv => ImportsNeverDuplicate
  BY DEF RosterInv, ImportsNeverDuplicate
<1>. QED
  BY <1>1, RosterInvariant, PTL

----------------------------------------------------------------------------
(* All of the records together *)

\* What the other components share with the one that runs, they leave alone:
\* a step of the whole is a step of each component or none at all.
LEMMA EachOnItsOwn ==
  ASSUME [RecordsNext]_recordsVars
  PROVE  /\ [SeriesNext]_seriesVars /\ [CreationNext]_creationVars
         /\ [AccessNext]_accessVars /\ [AttendanceNext]_attendanceVars
         /\ [FeedsNext]_feedVars /\ [RosterNext]_rosterVars /\ [AuthNext]_authVars
         /\ scene' = scene
<1>1. CASE UNCHANGED recordsVars
  BY <1>1 DEF recordsVars
<1>2. CASE RecordsNext
  BY <1>2 DEF RecordsNext
<1>. QED
  BY <1>1, <1>2

\* A behaviour of the whole is a behaviour of every component: one that runs
\* beside the others keeps all that it promises alone.
THEOREM RecordsAreTheirComponents ==
  RecordsSpec => /\ SeriesSpec /\ CreationSpec /\ AccessSpec /\ AttendanceSpec
                 /\ FeedsSpec /\ RosterSpec /\ AuthSpec
<1>1. RecordsInit => /\ SeriesInit /\ CreationInit /\ AccessInit /\ AttendanceInit
                     /\ FeedsInit /\ RosterInit /\ AuthInit
  BY DEF RecordsInit
<1>2. [RecordsNext]_recordsVars =>
        /\ [SeriesNext]_seriesVars /\ [CreationNext]_creationVars
        /\ [AccessNext]_accessVars /\ [AttendanceNext]_attendanceVars
        /\ [FeedsNext]_feedVars /\ [RosterNext]_rosterVars /\ [AuthNext]_authVars
  BY EachOnItsOwn
<1>. QED
  BY <1>1, <1>2, PTL DEF RecordsSpec, SeriesSpec, CreationSpec, AccessSpec, AttendanceSpec,
     FeedsSpec, RosterSpec, AuthSpec

\* Every table and every handler of the records keeps its type.
THEOREM RecordsTypeCorrect == RecordsSpec => []RecordsTypeOK
<1>1. SeriesTypeOK /\ CreationTypeOK /\ AccessTypeOK /\ RosterTypeOK /\ AuthTypeOK
        => RecordsTypeOK
  BY DEF RecordsTypeOK
<1>. QED
  BY <1>1, RecordsAreTheirComponents, SeriesTypeCorrect, CreationTypeCorrect, AccessTypeCorrect,
     RosterTypeCorrect, AuthTypeCorrect, PTL

\* What holds of each component alone holds of the whole.
THEOREM RecordsKeepTheirPromises ==
  RecordsSpec => /\ [](/\ ScheduleIsReflected /\ OneEventPerRequest
                       /\ AuthorityStaysInTheTeam /\ AnswersAreOneEach
                       /\ ImportsNeverDuplicate
                       /\ ChallengeSignsInOnce /\ OneAccountPerIdentity)
                 /\ HumanCancellationStandsOnSQLite /\ DelegatesAreNeverDemoted
                 /\ CancelledAnswersAreKept /\ DeadUrlsStayDead
<1>1. RecordsSpec => /\ []ScheduleIsReflected /\ []OneEventPerRequest
                     /\ []AuthorityStaysInTheTeam /\ []AnswersAreOneEach
                     /\ []ImportsNeverDuplicate
                     /\ []ChallengeSignsInOnce /\ []OneAccountPerIdentity
  BY RecordsAreTheirComponents, CalendarIsTheSchedule, RequestsAreOneEvent, AuthorityIsLocal,
     OneAnswerEach, ImportsAreNew, ChallengesAdmitOnce, IdentitiesAreOneAccount
<1>2. RecordsSpec => /\ HumanCancellationStandsOnSQLite /\ DelegatesAreNeverDemoted
                     /\ CancelledAnswersAreKept /\ DeadUrlsStayDead
  BY RecordsAreTheirComponents, HumanCancellationsStand, OwnersDelegate, CancelledAnswersStand,
     DeadUrls
<1>. QED
  BY <1>1, <1>2, PTL
=============================================================================
