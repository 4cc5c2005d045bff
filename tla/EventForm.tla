------------------------------ MODULE EventForm ------------------------------
(***************************************************************************)
(* The fields of the web's event form (schedule/event-form.tsx), what it     *)
(* makes of them (schedule-actions.ts, format.ts), and what it is opened on: *)
(* a blank event, or a stored series.  EventDrafts says how often a draft is *)
(* sent; here is what one holds.                                             *)
(*                                                                           *)
(* A time of day counts minutes and a date counts days; Blank is an emptied  *)
(* input.  Of a text only its being blank matters, since inputs cap it at    *)
(* the length the server takes; location and notes may be blank.             *)
(***************************************************************************)
EXTENDS Integers

CONSTANTS
  TimesOfDay,    \* what a time input may hold
  CalendarDays,  \* what a date input may hold
  Blank,
  StoredEvents,  \* the schedules an edit may be opened on
  NewEvent,      \* the date and times a new event starts with
  MaxTouches     \* bound on the changes of one form

VARIABLES
  opened,        \* the schedule the form was opened on, or NoEvent
  fields,        \* EventFormValues
  errors,        \* the fields marked wrong
  sending,       \* the input under way, or NotSent
  touches        \* how often a field was changed

eventFormVars == <<opened, fields, errors, sending, touches>>

MinutesPerDay == 1440
NoEvent == Blank
NotSent == Blank
WeekdayNumbers == 0 .. 6

\* weekdayOfDate: day 0 is a Thursday, Monday is 0.
WeekdayOf(day) == (day + 3) % 7

----------------------------------------------------------------------------
\* An event that ends when it starts, or before, has no duration.
DurationBetween(start, end, nextDay) ==
  LET minutes == end + (IF nextDay THEN MinutesPerDay ELSE 0) - start IN
  IF start = Blank \/ end = Blank THEN Blank
  ELSE IF minutes > 0 THEN minutes ELSE Blank

EndAfter(start, duration) ==
  [end |-> (start + duration) % MinutesPerDay, nextDay |-> start + duration >= MinutesPerDay]

\* What the server takes: eventScheduleSchema and createEventInputSchema.
IsSchedule(s) ==
  /\ s.localTime # Blank /\ s.startDate # Blank
  /\ s.durationMinutes \in 5 .. MinutesPerDay
  /\ s.weekly <=> s.byWeekday # {}
  /\ s.weekly <=> s.untilDate # Blank
  /\ s.untilDate # Blank => s.startDate <= s.untilDate

EventSchedules ==
  {s \in [localTime : TimesOfDay, durationMinutes : 5 .. MinutesPerDay, weekly : BOOLEAN,
          byWeekday : SUBSET WeekdayNumbers, startDate : CalendarDays,
          untilDate : CalendarDays \cup {Blank}] : IsSchedule(s)}

ServerTakes(input) ==
  /\ input.title = "text"
  /\ IsSchedule(input.schedule)
  /\ input.snackDuty # "none" => ~input.schedule.weekly /\ input.snackDuty = "text"

ASSUME EventFormAssumption ==
  /\ TimesOfDay \subseteq 0 .. (MinutesPerDay - 1)
  /\ CalendarDays \subseteq Int
  /\ Blank \notin Int \cup EventSchedules
  /\ StoredEvents \subseteq EventSchedules
  /\ NewEvent \in [date : CalendarDays, start : TimesOfDay, end : TimesOfDay]

----------------------------------------------------------------------------
\* seriesFormValues, and the initial values of schedule/new/page.tsx.
FieldsOf(s) ==
  [title |-> "text", date |-> s.startDate, start |-> s.localTime,
   end |-> EndAfter(s.localTime, s.durationMinutes).end,
   nextDay |-> EndAfter(s.localTime, s.durationMinutes).nextDay,
   stored |-> s.durationMinutes, weekly |-> s.weekly, weekdays |-> s.byWeekday,
   until |-> s.untilDate, snackDuty |-> FALSE, snackLabel |-> "blank"]

FieldsOfNew ==
  [title |-> "blank", date |-> NewEvent.date, start |-> NewEvent.start, end |-> NewEvent.end,
   nextDay |-> FALSE, stored |-> Blank, weekly |-> FALSE, weekdays |-> {},
   until |-> Blank, snackDuty |-> TRUE, snackLabel |-> "text"]

Editing == opened # NoEvent
EventFormInit ==
  /\ opened \in StoredEvents \cup {NoEvent}
  /\ fields = IF Editing THEN FieldsOf(opened) ELSE FieldsOfNew
  /\ errors = {} /\ sending = NotSent /\ touches = 0

\* The fields are disabled while the form is being sent.
Touch(values) ==
  /\ sending = NotSent /\ touches < MaxTouches
  /\ fields' = values /\ touches' = touches + 1
  /\ UNCHANGED <<opened, errors, sending>>

UpdateField ==
  \/ \E text \in {"blank", "text"} : Touch([fields EXCEPT !.title = text])
  \/ \E day \in CalendarDays \cup {Blank} : Touch([fields EXCEPT !.date = day])
  \/ fields.weekly /\ \E day \in CalendarDays \cup {Blank} : Touch([fields EXCEPT !.until = day])
  \/ ~Editing /\ ~fields.weekly /\ \E b \in BOOLEAN : Touch([fields EXCEPT !.snackDuty = b])
  \/ /\ ~Editing /\ ~fields.weekly /\ fields.snackDuty
     /\ \E text \in {"blank", "text"} : Touch([fields EXCEPT !.snackLabel = text])

\* updateTime: whoever changes a time means the duration the times now show.
WithTimesChanged(values) == [values EXCEPT !.stored = Blank]

UpdateTime ==
  \/ \E t \in TimesOfDay \cup {Blank} : Touch([WithTimesChanged(fields) EXCEPT !.start = t])
  \/ \E t \in TimesOfDay \cup {Blank} : Touch([WithTimesChanged(fields) EXCEPT !.end = t])
  \/ \E b \in BOOLEAN : Touch([WithTimesChanged(fields) EXCEPT !.nextDay = b])

SetRepeat ==
  \E weekly \in BOOLEAN :
    Touch([fields EXCEPT !.weekly = weekly,
      !.weekdays = IF weekly /\ @ = {} /\ fields.date # Blank THEN {WeekdayOf(fields.date)} ELSE @])

ToggleWeekday ==
  /\ fields.weekly
  /\ \E day \in WeekdayNumbers, checked \in BOOLEAN :
       Touch([fields EXCEPT !.weekdays = IF checked THEN @ \cup {day} ELSE @ \ {day}])

----------------------------------------------------------------------------
Duration ==
  IF fields.stored # Blank THEN fields.stored
  ELSE DurationBetween(fields.start, fields.end, fields.nextDay)

WithSnack == ~Editing /\ ~fields.weekly /\ fields.snackDuty

\* buildEventInput: every field that is wrong, and the input when none is.
WrongFields ==
  {field \in {"title", "date", "endTime", "weekdays", "untilDate", "snackLabel"} :
     CASE field = "title" -> fields.title = "blank"
       [] field = "date" -> fields.date = Blank
       [] field = "endTime" -> Duration \notin 5 .. MinutesPerDay
       [] field = "weekdays" -> fields.weekly /\ fields.weekdays = {}
       [] field = "untilDate" ->
            fields.weekly /\ (\/ fields.until = Blank
                              \/ fields.date # Blank /\ fields.until < fields.date)
       [] field = "snackLabel" -> WithSnack /\ fields.snackLabel = "blank"}

EventInput ==
  [title |-> fields.title,
   schedule |->
     [localTime |-> fields.start, durationMinutes |-> Duration, weekly |-> fields.weekly,
      byWeekday |-> IF fields.weekly THEN fields.weekdays ELSE {},
      startDate |-> fields.date,
      untilDate |-> IF fields.weekly THEN fields.until ELSE Blank],
   snackDuty |-> IF WithSnack THEN fields.snackLabel ELSE "none"]

SubmitForm ==
  /\ sending = NotSent
  /\ errors' = WrongFields
  /\ sending' = IF WrongFields = {} THEN EventInput ELSE NotSent
  /\ UNCHANGED <<opened, fields, touches>>

\* createEvent or updateSeries has answered, or failed: the form may be changed
\* and sent again until the page is left.
AnswerForm ==
  /\ sending # NotSent /\ sending' = NotSent
  /\ UNCHANGED <<opened, fields, errors, touches>>

EventFormNext == UpdateField \/ UpdateTime \/ SetRepeat \/ ToggleWeekday \/ SubmitForm \/ AnswerForm
EventFormSpec == EventFormInit /\ [][EventFormNext]_eventFormVars

----------------------------------------------------------------------------
\* schedule-actions.ts and the server's schemas (packages/domain) agree, and so
\* do the form and what it sends: nothing leaves the form that the server's
\* schemas refuse; the event that is sent lasts as long as the times on the
\* screen say, though a stored duration may stand for them; and an edit in which
\* nothing was touched sends the series as it is stored.
SendsWhatItShows ==
  sending # NotSent =>
    /\ ServerTakes(sending)
    /\ DurationBetween(fields.start, fields.end, fields.nextDay) = sending.schedule.durationMinutes
    /\ Editing /\ touches = 0 => sending.schedule = opened
=============================================================================
