----------------------------- MODULE WallTime -----------------------------
(***************************************************************************)
(* The dates a schedule names and the instants its wall time means on them  *)
(* (event-time.ts and materializableDates of events.ts).  A civil date is   *)
(* its epoch day, which may be negative; a wall time and an instant count   *)
(* hours; a zone has one transition, from one offset to another.            *)
(***************************************************************************)
EXTENDS Integers, Sequences, FiniteSets

CONSTANTS
  Schedules,        \* [frequency, byWeekday, start, until]
  Zones,            \* [before, after, at]: offsets around the instant `at`
  UnknownZone,      \* a name Intl refuses
  MaxOccurrences    \* MAX_SERIES_OCCURRENCES

\* eventScheduleSchema (packages/domain/src/events.ts); a schedule without
\* weekdays names no day.
ASSUME WallAssumption ==
  /\ MaxOccurrences \in Nat /\ Schedules # {}
  /\ \A s \in Schedules :
       /\ s.frequency \in {"once", "weekly"} /\ s.byWeekday \subseteq 0 .. 6
       /\ s.start \in Int /\ s.until \in Int
  /\ \A z \in Zones : z.before \in Int /\ z.after \in Int /\ z.at \in Int

VARIABLE walk       \* [schedule, zone, cursor, dates, verdict]

MidWalk == "walking"

----------------------------------------------------------------------------
\* Instants.
Offset(zone, utc) == IF utc < zone.at THEN zone.before ELSE zone.after

WallClock(zone, utc) == utc + Offset(zone, utc)

\* Two passes: take the wall time for an instant, correct by what it shows, and
\* correct once more.
InstantOf(zone, wall) ==
  LET candidate == wall - (WallClock(zone, wall) - wall)
  IN candidate + (wall - WallClock(zone, candidate))

\* The remainder of JavaScript takes the sign of the dividend.
Remainder(a, b) == IF a >= 0 THEN a % b ELSE -((-a) % b)

Weekday(epochDay) == Remainder(Remainder(epochDay + 4, 7) + 7, 7)

----------------------------------------------------------------------------
WalkOf(s, z) ==
  [schedule |-> s, zone |-> z, cursor |-> s.start, dates |-> <<>>, verdict |-> MidWalk]

WallInit == \E s \in Schedules, z \in Zones \cup {UnknownZone} : walk = WalkOf(s, z)

\* Callers ask for one date more than a series may hold.
EmitCap == MaxOccurrences + 1

Walks ==
  walk.zone # UnknownZone /\ walk.schedule.frequency = "weekly" /\ walk.schedule.byWeekday # {}
MoreDays == Walks /\ walk.cursor <= walk.schedule.until /\ Len(walk.dates) < EmitCap

VerdictOn(dates) ==
  CASE walk.zone = UnknownZone -> "unknown_time_zone"
    [] walk.zone # UnknownZone /\ dates = <<>> -> "no_occurrences"
    [] walk.zone # UnknownZone /\ Len(dates) > MaxOccurrences -> "too_many_occurrences"
    [] OTHER -> "ok"

WalkDay ==
  /\ walk.verdict = MidWalk /\ MoreDays
  /\ walk' = [walk EXCEPT
       !.cursor = @ + 1,
       !.dates = IF Weekday(walk.cursor) \in walk.schedule.byWeekday
                 THEN Append(@, walk.cursor) ELSE @]

FinishWalk ==
  /\ walk.verdict = MidWalk /\ ~MoreDays
  /\ LET dates == IF walk.schedule.frequency = "once" THEN <<walk.schedule.start>>
                  ELSE walk.dates
     IN walk' = [walk EXCEPT !.dates = dates, !.verdict = VerdictOn(dates)]

WallNext == WalkDay \/ FinishWalk
WallSpec == WallInit /\ [][WallNext]_walk

----------------------------------------------------------------------------
\* The days a schedule names, by a calendar in which day 0 is a Thursday and a
\* week later is the same weekday.
NamedDays(s) ==
  IF s.frequency = "once" THEN {s.start}
  ELSE {d \in s.start .. s.until : \E w \in s.byWeekday : (d - (w - 4)) % 7 = 0}

IsAscending(dates, days) ==
  /\ {dates[i] : i \in DOMAIN dates} = days
  /\ Len(dates) = Cardinality(days)
  /\ \A i, j \in DOMAIN dates : i < j => dates[i] < dates[j]

\* event-time.ts and events.ts: a schedule is materialized exactly when it names
\* between one and MaxOccurrences days, then on all of them in order, and the
\* walk never takes more than seven steps for a date it emits.
SchedulesAreNamedExactly ==
  LET n == Cardinality(NamedDays(walk.schedule))
  IN /\ walk.verdict = "ok" => IsAscending(walk.dates, NamedDays(walk.schedule))
     /\ walk.verdict = "no_occurrences" => n = 0
     /\ walk.verdict = "too_many_occurrences" => n > MaxOccurrences
     /\ walk.cursor - walk.schedule.start <= 7 * (Len(walk.dates) + 1)

\* event-time.ts: whatever instants show a wall time, the derived one is among
\* them; a wall time the transition skips lands on one that shows a time off by
\* no more than what is skipped.
WallTimesAreKept ==
  walk.verdict = "ok" =>
    \A i \in DOMAIN walk.dates, hour \in 0 .. 23 :
      LET zone == walk.zone
          wall == 24 * walk.dates[i] + hour
          shown == WallClock(zone, InstantOf(zone, wall))
          exists == \E o \in {zone.before, zone.after} : WallClock(zone, wall - o) = wall
      IN IF exists THEN shown = wall
         ELSE shown - wall \in -(zone.after - zone.before) .. (zone.after - zone.before)
=============================================================================
