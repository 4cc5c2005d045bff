# Snackday, verified

TLA+ models of Snackday: its server, its clients, the algorithms they share and
the machinery that runs them, checked with TLC and proved with TLAPS: every
property a passing run checks is also a theorem, but for the one that is liveness.

Snackday helps the adults of a youth team share its duties. A Node process
(`apps/web/runtime/server.ts`) serves an HTTP API and pages over one SQL database;
the iOS app and the islands on the pages are its clients. Each handler in
`apps/web/app/lib/server` runs one database transaction and answers, and handlers
share nothing in memory. What makes the system hard is that transactions meet in
the database, and that every answer reaches its client late, out of order or not
at all.

## The two databases

`apps/web/runtime/database.ts` opens either of two databases, and the difference
matters to every server module here:

- **SQLite** runs one transaction at a time;
- **PostgreSQL** runs them together at READ COMMITTED: each statement sees what was
  committed before it, an UPDATE holds the locks of the rows it matched until its
  transaction ends, an UPDATE that waited for a lock evaluates its WHERE clause
  again, and a unique index fails the later of two equal keys.

`DutySlots` and `Invitations` take the database as the constant `Serialized`. The
later modules extend `Database`, whose variable `database` is chosen in the initial
state and never changes, so one run and one theorem cover both;
`TransactionMayBegin` is what SQLite adds: no transaction begins while another runs.

A handler's statements are separate actions wherever another transaction may commit
between them and be noticed. Where it cannot be noticed (rows nobody sees before
the commit, writes by key of values decided earlier) they are one action at the
commit, and the module's header says why.

## Inventory

| Component | State | Operations | What makes it correct | Modules |
| --- | --- | --- | --- | --- |
| Duty slots (`duties.ts`) | `duty_slots` | create, claim, release, assign, list | no assignment is overwritten unread; answers are true; holders belong to the team; history of cancelled occurrences is kept | `DutyBoard`, `DutySlots` |
| Invitations (`invitations.ts`) | `invitations`, memberships, guardian edges | create, resend, revoke, accept | a token works once, for the right person, never after rotation or revocation; roles only grow; one edge per child and adult | `InvitationLifecycle`, `Invitations` |
| Outbox (`invitation-outbox.ts`, `invite-delivery.ts`) | outbox rows, the queue's jobs | persist, schedule, run a job | no committed intent is forgotten; the newest message carries the working link | `InvitationOutbox` |
| Team access (`teams.ts`, `authorization.ts`, `policies.ts`) | teams, seasons, memberships, edges | create team and season, age band, co-coach role; the policy | authority stays in its team; owners stay owners | `TeamAccess`, `Invitations` |
| Event series (`events.ts`, `event-time.ts`) | `event_series`, `event_occurrences` | create, edit, cancel | the calendar is what the last edit said; a human's cancellation stands; dates and instants are those of the schedule | `EventSeries`, `WallTime` |
| Event receipts (`event-creation-receipts.ts`) | receipts by request id | create, replay | a repeated request makes one event and is answered | `EventCreation`, `EventDrafts` |
| Attendance (`attendance.ts`) | `event_attendance` | record, read | one answer per child, from who may give it | `Attendance` |
| Calendar feeds (`calendar-feeds.ts`) | `calendar_feed_tokens` | mint, rotate, revoke, serve | a URL that is dead stays dead | `CalendarFeeds` |
| Roster and import (`roster.ts`, `roster-import.ts`, `csv.ts`) | people, participants, edges; the form | add, attach, preview, commit | a repeated import adds nobody twice; a file is read as it was written | `RosterImport`, `CsvReader` |
| Authentication (`authentication.ts`) | challenges, links, verified e-mails, consents, sessions | challenge, sign in, sign out | a challenge admits once; an identity is one account for ever | `Authentication` |
| Team reads (`team-reads.ts`) | none; several statements | list teams, load a roster | nothing is shown to who was never entitled to it | `TeamReads` |
| Lessons and skills (`lessons.ts`, `skill-events.ts`) | `lesson_answers`, `skill_events`; pages | answer, grade, refresh a card, seed | a correct answer has its one event; cards never go back | `Lessons` |
| Skill engine (`packages/skill-engine`) | none | streaks, ratings | the algorithms agree with their definitions | `SkillRating` |
| Web islands | the page's copy, fields, requests under way | fill in, act, refresh, submit, import | nothing shown goes back in time; what is said to be saved is shown; an attempt is one event, as the form showed it | `WebDuties`, `WebPanels`, `EventForm`, `EventDrafts`, `RosterImport`, `Lessons` |
| iOS controllers | screen, tasks, cookie, epochs, revisions | sign in and out, load, mutate, join | the newest call wins; no spinner without work; signed out means no session | `NativeSession`, `NativeCoordination`, `JoinTeam`, `EventDrafts` |
| Runtime (`apps/web/runtime`, `infra/ami`) | process, unit, database, files | boot, serve, drain, close; back up, restore | the configured release runs on an open database; a file under its final name is whole | `RuntimeLifecycle`, `SqliteBackups` |
| Staging gate (`scripts/runtime`) | none; reads the cloud | preflight | what passes is what every request meets | `StagingPreflight` |
| Platform manifest (`packages/platform-manifest`) | two files | generate, verify | a manifest that passes is true | `PlatformManifest` |

Components meet in four ways: through rows (a cancellation changes what a duty or
an attendance handler may do; a co-coach edit changes what an acceptance answers;
a lesson's answer is a row the skill engine rates), through the outbox (an
invitation's transaction stores the row a job later reads), through answers (every
client keeps a copy that the server has already left behind) and through the
process (a restart begins with a scheduling pass). `PROJECT.json` lists under
`hazards` every behaviour that is hard to test, at its line; each names the
properties that would catch it.

## Modules: the server's records

### `DutyBoard`, `DutySlots`

`DutyBoard` is the promise: slots with one holder each, and requests whose whole
effect happens in one step between the call and the answer. It has no database.
`DutySlots` is `duties.ts`. A request (`Requests`) is one handler in one
transaction, and `at[r]` is the statement it runs next:

| `at` | statement |
| --- | --- |
| `begin` | resolve the team and read the occurrence (`Refuse`, `Begin`) |
| `insert` | `createDutySlot`'s insert (`Insert`) |
| `slot` | read the slot and decide (`ReadSlot`, `Verdict`) |
| `adult` | `activeTeamAdult`, for an assignment (`CheckAdult`) |
| `update` | the conditional UPDATE (`Update`); a matching row locked by another transaction makes it wait |
| `reread` | read the row back, commit, answer (`Commit`, `Outcome`) |

What other handlers do to the rows it reads are environment actions:
`ChangeStatus`, `Start` (the clock passes the start) and `ChangeAccess` (no code
revokes a membership). `ImplementsBoard` is the refinement; the linearisation point
is the commit.

### `InvitationLifecycle`, `Invitations`

`InvitationLifecycle` is the promise: the life of an invitation's row (open, rotate,
accept, revoke, expire), with tokens stored once that never come back. Expiry writes
nothing: `live` compares `expires_at` with the clock. `Invitations` is
`invitations.ts` and, because it writes the same memberships, `setCoCoachRole` of
`teams.ts`. Each decision first writes the team's row (`Lock`), then reads and
checks (`CheckDecision`, `CheckAcceptance`), then writes (`Write...`). Acceptance
takes its statements one at a time because a co-coach edit, which takes no such
lock, may commit between them: `Find`, `Lock`, `CheckAcceptance`, `Consume`,
`ReadMemberships`, `WriteAcceptance`. The team has one child, whose edges are
placeholders' (`Edges`) and those acceptance inserts (`inserted`).

### `InvitationOutbox`

The outbox row of each token (`box`, `queued`), composed with the lifecycle: the
transaction that opens or rotates an invitation stores the row (`Persist`). A pass
lists the pending rows and for each enqueues a job and then marks it (`StartPass`,
`Enqueue`, `MarkQueued`); any statement may fail (`FailPass`). A worker runs the
job's handler one statement at a time (`Claim`, `ReadRow`, `ReadInvitation`,
`Send`, `MarkDelivered`). The provider may answer, serve and lose the answer, or
fail, for now or for good. `Crash` forgets what is in memory; `Restart` begins with
a pass. The queue (`@lesto/queue`) and the provider are not in the repository: they
are modelled from how the code uses them and marked external in the map.

### `EventSeries`

One series and the row of each date. `BeginEdit` is `updateSeries` after its checks,
with the clock it took; `ReadOccurrences` updates the series' row, which locks it
(`editor`), and reads every occurrence; `ReconcileOccurrences` writes them by local
date and commits. `BeginCancel` and `WriteCancel` are `cancelOccurrence`'s read and
its UPDATE, which names the row by its id alone and takes no lock an edit waits for.
`AbortSeries` is a statement that fails.

### `EventCreation`

An attempt is one run of `createEvent`: `Arrive`, then, if it carries a request id,
`LockTeam`, the look at the receipts (`NoReceipt`, `Replay`), the refusal of a duty
on an event that has begun (`RefuseStarted`), and `Create`, which commits the
series, its duty and its receipt together. Any attempt may be a repetition of
another whose answer is late or lost.

### `TeamAccess`

Teams, seasons, grants, rosters and edges, and `Allows`, which is `evaluatePolicy`
over what `authorizationContext` loads. Each operation is one transaction and its
guard is the policy itself, so that the properties are about what the policy and
the operations do together.

### `Attendance`

`recordAttendance` reads the occurrence and the rights (`CheckAnswer`), looks for a
row (`FindAnswer`), and inserts or updates it (`WriteAnswer`), unless the unique
index refuses it (`FailAnswer`). `readAttendance` selects the rows
(`SelectAnswers`) and counts them with a second SELECT before it filters
(`CountAnswers`). Cancellations and roster changes are the environment.

### `CalendarFeeds`

Minting and revoking are each a read (`BeginMint`, `BeginRevoke`) and a write by
key (`WriteMint`, `WriteRevoke`); serving is the state function `UrlAnswers`. No
unique index covers team and person, so two first mints may leave two rows.

### `RosterImport`

The roster, the import form, and the handlers: `RunPreview` reads outside any
transaction, `ReadRoster` and `CreateRows` are the commit. The form (`ChangeCsv`,
`AnswerPreview`, `Confirm`) may have its answers lost (`LosePreview`, `LoseAnswer`)
while the server still runs what it asked for. `CheckGuardian` and
`AttachGuardianEdge` are `attachGuardian`.

### `Authentication`

`ReadChallenge` reads the challenge outside any transaction, `Verify` is the
verifier's answer, and the transaction is `ReadLiveChallenge`, `ConsumeChallenge`
(the UPDATE that locks the row), `ResolveIdentity`, `CommitIdentity` (the link,
address and consent, unless a unique index refuses them) and then `CreateSession`.
`AbortSignIn` rolls back the consumption too. An account is named by the sign-in
that made it.

### `Records`

The composition of these seven. They meet only through what each takes as its
surroundings (an occurrence's status, the roster, an adult's access), which each
lets change at any time; so every behaviour of the whole is, on one component's
variables, one of that component. `scene` names the component that runs while the
others stand still, which keeps the run a sum of state spaces and not a product.

## Modules: the iOS app

`NativeSession` is `SnackdayApplicationController` with its HTTP client and
`SessionCookieCoordinator`. Each call of the controller creates a task (`tasks`,
numbered by `generation`); a task is at `start`, `send`, `clear`, `wait`, `back`,
`stored` or `over`, and looks after each await whether it is still current. A
replaced task runs on to its next such look, and the cookie actor still serves it:
that is what the epoch is for. Tasks start in the order they were created and the
actors serve in order; the server answers when it likes.

`NativeCoordination` is `SnackdayCoordinationController`: four revisions (context,
schedule, detail, mutation), tasks that load or change (`jobs`), and cancellations
that a mutation passes on to the load it awaits. The server's data are a stamp that
every commit advances, so "older" has a meaning. `NativeApp` composes the two; they
meet only in the context the view model sets, which is an environment action of
the second.

## Modules: the surroundings

| Module | Code | Actions |
| --- | --- | --- |
| `Lessons` | `lessons.ts`, `skill-events.ts`, `lesson-answers.tsx`, `player-card-updates.ts`, `dev/skill-events.ts` | the page's `Choose`, `Receive`, `ShowCard`; the server's `ReadPrevious`, `Grade`, `SortBatch`, `InsertBatch`; replies that are lost |
| `WebDuties` | `duties-board.tsx`, `duties-model.ts` | one action at a time, its reply merged into what it started from, the list read again after a refusal |
| `WebPanels` | `attendance-panel.tsx`, `team-invitations-panel.tsx`, `team-members.tsx`, `team-calendar-feed.tsx`, `cancel-occurrence.tsx`, `team-season-form.tsx` | `Press`; the request served, refused, cut off, or served after the page gave up; what others commit; merging the reply and reading the list again, each in the panel's own way |
| `EventForm` | `event-form.tsx`, `schedule-actions.ts`, `format.ts` | opened on a blank event or a stored series; fields, times, repetition and weekdays; submitting, and the answer |
| `EventDrafts` | `CreateEventFormModel`, `event-form.tsx`, the receipts of `events.ts` | editing, sending under the last draft's id, late and doubled deliveries |
| `JoinTeam` | `JoinTeamModel`, `JoinTeamView`, `invite-landing.tsx` | taps, each a task that cancels the one before, and their comebacks |
| `SkillRating` | `packages/skill-engine` | events and voids appended to a log; streaks and cards as functions of it, a rating by the points each one takes (`Logarithms`) |
| `WallTime` | `event-time.ts`, `materializableDates` | the walk over a schedule's days, and wall time to instant |
| `CsvReader` | `csv.ts`, header of `roster-import.ts` | the scanner, one field or record to a step; the columns' meaning |
| `RuntimeLifecycle` | `boot.py`, `server.ts`, `snackday.service` | install, launch, verify, drop root, open, listen, drain, close, die |
| `SqliteBackups` | `backup.ts` | check, write, verify, rename, and dying or failing at each |
| `TeamReads` | `team-reads.ts` | the statements of the two projections, and grants that change between them |
| `StagingPreflight` | `aws-staging-preflight.ts`, `probe-remote.ts` | descriptions, probes, route and release |
| `PlatformManifest` | `packages/platform-manifest` | facts collected one git process at a time while people commit, push and edit; the two writes; the verifier |

No two of them share state. `Surroundings` composes them with a `scene`, as
`Records` does. Several hold a reference definition beside the algorithm: streaks
without a timeline (`SkillRating`), the days of a schedule by a calendar
(`WallTime`), the text of a table by every way of writing it (`CsvReader`).

## Runs

| Run | Question | Result |
| --- | --- | --- |
| `duty_postgres` | is every assignment made on what the caller had read, and every answer true? | holds |
| `duty_sqlite` | is the history of a cancelled occurrence kept on SQLite? | holds |
| `duty_race` | and on PostgreSQL? | violated |
| `invitations_postgres` | lifecycle, grants, guardians, answers, with statements that interleave | holds |
| `invitations_sqlite` | does an acceptance ever report more than the membership grants? | never |
| `invitations_race` | and on PostgreSQL? | violated |
| `outbox_overlap` | are the marks true, and is the last message the working link? | holds |
| `outbox_settles` | is every intent settled? | holds |
| `records` | the seven components of `Records`, both databases | holds |
| `schedule_race` | does a human's cancellation stand on PostgreSQL? | violated |
| `native` | the iOS controllers with answers late, out of order, cancelled or unauthorised | holds |
| `surroundings` | the fourteen components of `Surroundings` | holds |

What the last three passing runs ask:

| Property | What it says |
| --- | --- |
| `ScheduleIsReflected` | the calendar, and why a date is off it, are what the last edit said, whatever overlapped |
| `HumanCancellationStandsOnSQLite` | a human's cancellation is never reversed and keeps its first reason |
| `OneEventPerRequest` | one event per request id, every answer names it, and no bookkeeping turns a repetition away |
| `AuthorityStaysInTheTeam` | what an adult holds in another team, or over a child elsewhere, opens nothing here |
| `DelegatesAreNeverDemoted` | who may delegate keeps that while the account is active |
| `AnswersAreOneEach` | one answer per child, from who may give it; a guardian is shown no other child's |
| `CancelledAnswersAreKept` | on SQLite the answers to a cancelled occurrence do not change |
| `DeadUrlsStayDead` | a URL that stopped answering never answers again; on SQLite only the newest answers |
| `ImportsNeverDuplicate` | on SQLite no import repeats a child and no path repeats an edge |
| `ChallengeSignsInOnce` | of all who read a challenge as pending, one is admitted |
| `OneAccountPerIdentity` | an identity is one consented account; on SQLite with one active address |
| `SignedOutMeansNoSession` | after a sign-out that ended with the sign-in form, no session the server still accepts is stored on the device |
| `NewestCallsAreShown` | what is shown is of the newest call, and no older than the user's own changes |
| `SpinnersHaveWork` | what is shown as loading or saving has a task that will end it |
| `CorrectAnswersAreCredited` | a correct answer has its one event; a page says "correct" only of what is stored so |
| `PagesNeverGoBack` | no slot, entry of a panel, answer or card is replaced by what it was before |
| `DraftsBecomeTheirEvents` | however often a draft is sent before another one is, through edits undone and answers lost, it makes one event, and no event's id stands for another draft (`OneEventPerDraft`); an event lasts as long as its form showed, is one the server's schemas take, and an edit that touched nothing sends what was stored (`SendsWhatItShows`) |
| `PagesTellTheTruth` | an invitation is accepted under its own preview, the sheet says a team was joined only of one that was accepted, and progress it shows has a task that will end it (`JoinsAsShown`); a panel that says something was saved shows it (`SavedIsShown`); a link on display works unless somebody replaced it meanwhile (`LinksWork`) |
| `CalculationsAgree` | streaks, ratings, dates, instants and records agree with their reference definitions |
| `ProjectionsAreEntitled` | what the team list and the roster show was allowed at some moment of the request |
| `MachineIsAsPlanned` | the configured release, whole files, a gate and a manifest that pass only when true |

### Bounds

*Duties:* one slot, two adults, two callers. Each conflict is between a request's
read and one other commit; a third request repeats such pairs. *Invitations:* two
invitations, three tokens, two adults, one edge, two requests: every order of a
create, a rotation and a second create under one label, and an edge claimed twice;
the SQLite run and the race use two plain offers. *Outbox:* two tokens for one
rotation, two passes for duplicate jobs, one crash, two attempts (a retry that
succeeds and one that does not); `Copies` bounds the jobs of a row, and a finished
job's place is used again.

*Records* (about 1.05 million states): two handlers in series, feeds and roster, so
that one commit falls between another's read and write; two dates at two times and
clock instants to 3, so that a date is ahead, at and behind an edit; three attempts
(a first, a repetition and one of another input) for one request id; two teams,
two people, one season and one child, so that somebody always holds something
elsewhere; three grown-ups of whom one guards a child, one manages and one does
neither; three URLs on two rows (a rotation, and a second row); a file naming one
child twice with a guardian twice and one naming another; three sign-ins on two
challenges by one subject with two addresses, so that a replay and an address that
changes back both happen.

*Native* (about 5.9 million states): three calls of the session controller, which
give every pair of replaced and newer call with a third that interrupts; three
teams, one without a season; four uses of the coordination controller over two
contexts and two occurrences.

*Surroundings* (about 1.1 million states): three posts and two batches over two
questions, one mapped to a skill; three clicks and four commits; two presses and
three commits over two entries, so that a late request and another's commit both
fall on the one under way; three changes of a form opened on a blank event or on
events that end the same day, at midnight and the next day; three submissions of two
drafts (a draft sent, another one, and the first again; or one sent thrice); seven
taps on two invitations, enough to preview, accept and retry one while the tasks of
the other come back; ten practice days with a rest
window of six and events appended at, before and after the last; schedules that start before day 0, never end or name nothing,
in zones that move either way; tables of up to two records of two fields with every
special character, and one over each limit, under headers of up to three columns;
releases that differ in one file, link or device from what is configured; backups
of absent, empty, damaged and whole sources with four attempts; every cloud that
differs from a good one in at most two respects; histories of four commits with two
moves of the people during the commands.

The duty runs but the race, `invitations_*` and `outbox_overlap` use the symmetry of names,
`records`, `native` and `surroundings` that of the handlers (in `native`, of
contexts and occurrences);
`invitations_postgres` has a VIEW that leaves out what callers were told, which no
guard reads. The liveness run uses neither.

**Deadlock** is checked in the duty and invitation runs, where a handler may always
begin. The other runs switch the check off, because their names are used up (tokens,
attempts, taps, crashes) and everything may then rest, which the system may too.

### Fairness

The outbox alone states fairness. The event loop runs a started pass to its end or
failure; the queue's worker takes and finishes jobs; the queue offers a lost job
again; `infra/ami/snackday.service` restarts a failed process. Each is a weak
fairness on that action alone. Requests, failures, crashes and the passage of time
are not fair. The unit stops restarting after five failures in 300 seconds; the
run's crashes stay below that. Clients have no such justification (a server may
never answer), so what they promise is stated as safety: `SpinnersHaveWork` and
`JoinsAsShown` (in `PagesTellTheTruth`) say that whatever waits has a task whose end would end the waiting.

## What the violations show

- `duty_race`: `assignDutySlot` and `releaseDutySlot` decide on the status of an
  occurrence row they do not lock, and their UPDATE does not name it. On PostgreSQL
  a cancellation that commits in between is not seen, and the duty history of a
  cancelled occurrence is edited. `docs/launch-backlog.json` counts the protection
  of that history among what was delivered.
- `invitations_race`: an acceptance of a weaker invitation reads that the adult is a
  coach; a co-coach edit, which does not take the invitations' lock, demotes them
  and commits; the acceptance then answers "coach". The comment in
  `acceptInvitation` says that the answer can never outrun the grant. Only the
  answer is wrong, and only on PostgreSQL.
- `schedule_race`: a schedule edit, or a second cancellation, that read an occurrence
  before a human's cancellation committed replaces its reason, on PostgreSQL. The
  header of `events.ts` says that re-cancelling keeps the original reason and that a
  schedule edit never reverses a human's cancellation; with the machine's reason on
  the row, a later edit does.

Each holds on SQLite (`duty_sqlite`, `invitations_sqlite`, `records`).

## Proofs

Eight modules hold theorems, for every value of the constants: any number of rows,
people, handlers, dates, challenges, jobs, calls or pages. A theorem about a
component is about the component's own specification (`Spec`, `SeriesSpec`,
`FeedsSpec`...); `RecordsAreTheirComponents`, `NativeIsItsControllers` and
`SurroundingsAreTheirParts` show that a behaviour of a composition is one of each
component, so that what is proved of a component holds of the whole. Theorems cover
both databases unless they say SQLite.

The assumptions are those the modules name in `ASSUME`, and TLC evaluates them in
the runs. Most say that null values (`NoFeed`, `NoChild`, `Blank`...) are none of the
real ones and that a bound is a natural number. The others are about what the
environment supplies: owners ask for well-formed offers (`OffersOK`), an uploaded
file is a finite sequence of rows (`RosterConstantsOK`), times of day lie within a
day and stored events passed the server's schema (`EventFormAssumption`), schedules
have the shape of theirs (`WallAssumption`), the taxonomy is finite and its tiers are the
four, whatever points a rating takes (`SkillAssumption`), an exported table is rows of at least one value and its
characters are what they are called (`CsvAssumption`), and what AWS describes is finite
(`CloudsOK`). Three theorems assume more, and say so:
`CancelledHistoryStands` and `AnswersDoNotOutrun` that transactions run one at a time
(`Serialized`), `NewestLinkWorks` that there is one worker (`OneWorker`).

**`DutySlotsProofs`**: `TypeCorrect`, `Guarded`, `NothingOverwrittenBlindly`,
`TeamAdultsOnly`, and `Implementation` (`DutySlots` implements `DutyBoard`). The
invariant is `TypeOK`, `WritesAreGuarded`, `ChecksStillHold` and
`HoldersAreTeamAdults`: the row an UPDATE changed is locked until its transaction
ends, so that what it read is still true at the commit, and what was checked of an
adult stays true because no code takes a membership away.
`CancelledHistoryStands` is the half of `duty_race` that holds: on SQLite no other
transaction runs beside one that has begun (`RunsAlone`), so the status it read is
the status it writes under.

**`InvitationsProofs`**: `TypeCorrect`, `Implementation` (`InvitationLifecycle` is
implemented), `PlaceholdersOnly`, `OneLiveInvitation`, `TrueAnswers`, `Granted`,
`Invited`, `OneEdge`, and `AnswersDoNotOutrun`, which assumes `Serialized`. The
inductive invariant `IInv` is

| conjunct | why it is needed |
| --- | --- |
| `TypeOK` | the types of rows and handlers |
| `AsksFit` | which operations run at which place, so that a step reads only the fields its request has |
| `LockIsHeld` | a request past `Lock` holds the team's row, so at most one decides |
| `RowsAreFilled` | a row that exists has an offer and a token of its own, so a token names one invitation |
| `ChecksStillHold` | what was checked under the lock is still true at the write; of the memberships, which the lock does not cover, only that nobody entered, left, or became or ceased to be an owner |

`LockExcludes` says that the lock keeps every other request from writing;
`CoEditKeepsChecks`, that a co-coach edit moves an adult between adult and coach
only; `RowsChange`, what one step does to the rows with the handlers left out.

**`InvitationOutboxProofs`**: `OutboxTypeCorrect`, `MarksStayTrue`, and
`NewestLinkWorks`, which assumes `OneWorker`. `OutboxInv` adds to the types that
attempts are counted (`Counted`), that a worker runs one running job and no two the same
(`Claimed`), that nothing is known of a token never issued (`Known`), and that a
mark, and one about to be made, says what happened (`Marked`). `NewestInv` adds that
once the working link was sent nobody is left about to send an older one.

**`RecordsProofs`** proves the components of `Records`, all but sign-in, and then the
whole.

- *Event series* (`SeriesTypeCorrect`, `CalendarIsTheSchedule`,
  `HumanCancellationsStand`): `ScheduleIsReflected` is not inductive. One must know
  that an edit that has read holds the series' row (`Locked`), that what it read
  differs from what is there at most by human cancellations (`SeenSince`), that there
  are no rows before there is a series (`NothingBefore`), and on SQLite that only one
  transaction runs (`OneSeriesTransaction`).
- *Team access* (`AccessTypeCorrect`, `AuthorityIsLocal`, `OwnersDelegate`): locality
  follows from the policy for every state of the right type (`PolicyStaysInTheTeam`);
  the strongest of a set of roles is characterised once (`StrongestRole`), and
  `OwnersStay` goes through the operations.
- *Attendance* (`OneAnswerEach`, `CancelledAnswersStand`): the invariant says what
  each call has checked (`CallsHold`), that rows are unique and by who may answer
  (`RowsHold`), that what was shown was filtered (`ShownHolds`), and that on SQLite
  one transaction runs (`OneAnswerTransaction`).
- *Calendar feeds* (`DeadUrls`): by `WhatAnswers`, the only URL that can begin to
  answer is one a pending mint holds, and that one was never answered before
  (`PendingIsFresh`); a row a handler read still exists (`RowsExist`).
- *Event creation* (`CreationTypeCorrect`, `RequestsAreOneEvent`): an attempt with a
  request id holds the team's row from its lock to its end (`TeamIsLocked`), so that
  no receipt of its id appears between its look and its commit; receipts are
  unique (`OneReceiptEach`) and every answer is what its receipt says
  (`AnswersHaveReceipts`).
- *Roster* (`RosterTypeCorrect`, `ImportsAreNew`): the lemmas `InOrderIs`,
  `CommittableAreRows` and `NewChildrenAreNew` say what the operators of an import
  return for any file; the children it creates bear keys it did not read, each once.
  On SQLite what it read is what is there when it writes (`ReadsStayTrue`,
  `OneRosterTransaction`).
- *The whole* (`RecordsAreTheirComponents`, `RecordsTypeCorrect`,
  `RecordsKeepTheirPromises`): every safety property of the run `records`.

**`NativeProofs`** proves what the run `native` checks.

- `CoordinationKeepsItsPromises` (`SpinnersHaveWork`, `OwnChangesAreShown`). The
  conjunct that carries the proof is `WantedLoadsAreFresh`: a load that is still
  wanted and has its answer is no older than the changes that were shown as done.
  `JobsAreBehind` says that no task is ahead of the counter it compares itself with,
  so that advancing a counter disowns every older task.
- `SessionsKeepTheirPromises` (`SignedOutMeansNoSession`, `ReadyIsTheNewestCalls`):
  `OlderAreCancelled`; `SessionsAreOfAnswers` (a session is of a sign-in that was
  answered); and `SignOutProceeds`, which follows a sign-out that is the newest call:
  once it has cleared the cookie, every sign-in whose answer is still to come carries
  an older epoch, and once its answer came the session it sent is dead.
  `ChallengesShowNothing` is there because a challenge alone outlives the next call.
- `NativeIsItsControllers`, `NativeKeepsItsPromises`: the composition.

**`SurroundingsProofs`** proves what the run `surroundings` checks, part by part.

| theorems | the argument |
| --- | --- |
| `BoardOnlyAdvances` | one action pends (`OneActionPends`), and what it brings back is no older than what the page shows (`RepliesAreRecent`) |
| `PanelsTellTheTruth`, `PanelsOnlyAdvance` | the same for the panels (`AnswersAreRecent`), and a request's own commit is its entry's newest unless somebody meddled (`NewestIsAnswered`) |
| `DraftsMakeOneEvent` | what was sent last goes on being sent under its id (`LastAttemptIsKept`), so that one attempt has one id (`OneIdPerAttempt`); no id is used for two drafts (`OneDraftPerId`); and the server makes one event of an id (`OneEventPerId`) |
| `FormsSendWhatTheyShow` | `endAfter` and `durationBetween` are inverse over a day (`TimesShowTheDuration`), so a stored duration is kept only while the times show it (`StoredIsShown`) |
| `SheetsJoinAsShown` | a request still wanted is the sheet's only one and not cancelled (`TasksHold`); progress shown is being made (`ProgressHolds`) |
| `AnswersAreCredited`, `LearningStands` | the grade a transaction read stands until it writes (`PostsHold`), a correct grade has its event (`Credited`), and a refresh that will be shown is of no fewer rows than the card it replaces (`CardsHold`) |
| `DisclosuresAreEntitled` | what was gathered was seen by someone who at that moment was entitled (`GatheredIsEntitled`) |
| `ServersRunTheirRelease`, `WorkIsOnADatabase`, `TargetsAreWhole` | a release changes only while no process runs, so what was verified stays so (`ReleaseHolds`); the database is open from before the listener until after it (`ServerHolds`) |
| `DatesAreTheSchedules` | the dates are the named days the walk has passed, in order, and a named day is never more than a week behind (`WalkHolds`), since of seven days in a row one is named (`WeeksNameADay`); `TwoPassesFindTheInstant` is the arithmetic of zones |
| `PassedIsServed` | each check that passed stands, and the target group is that of the one listener (`ChecksHold`, `GroupHolds`) |
| `PassedManifestsHold` | commits keep their contents (`HistoryOK`); what was noted was witnessed at some moment (`NotesWereSeen`), which is all that a verifier can say of heads and upstreams while people push; and while nothing moves the files follow from what git answers (`QuietFiles`), so that the manifest passes and is right about everything in it |
| `PagesOnlyAdvance`, `PagesAreTruthful`, `SurroundingsKeepTheirPromises`, `MachinesStayAsPlanned`, `ComputedAsWritten` | the run's properties, of the composition, by `SurroundingsAreTheirParts` |

**`CalculationsProofs`** proves the calculations of `SkillRating` and `CsvReader`. The
state is little (a log, a reader's position); the work is in what the recursive
functions and folds they are defined by give for every input. The library's
induction theorems cannot be instantiated, so each such lemma is proved by a smallest
counterexample: of the sets, or the lengths, the definition would get wrong there is a
least one (`SmallestSet`, `FirstDay`, `FirstMissing`), and with one element less it is
right.

- `TimelineIsTheRule`: the rule of the rested days has one solution
  (`RestedDaysRule`), and which days are rested up to a day does not depend on what
  is trained later (`RestedLocally`, `RunsAreLocal`). So the entry the rule gives a
  day of training is the one `Advance` makes of the day of training before
  (`NextEntry`), and the only timeline whose entries follow one another so is the
  rule's (`TimelineHoldsStreaks`).
- `RatingsNeverDecay`: `MapThenSumSet` counts the units of its summands (`SumOf`), so
  sums are compared as sets are. Without its latest event a log counts the same other
  events and trains at most one day less, its last (`LogsGrow`); so no streak, no
  multiplier and no event's points are more (`EventPointsGrow`), nor what is computed
  from them (`RatingsGrow`, `AreasGrow`, `OverallGrows`). The invariant is that the log
  is finite and rates skills there are (`SkillInv`).
- `TablesAreReadBack`: the inductive invariant `CsvInv` says what lies in the file from
  the reader's index on: what is left to write of the table after the records, the
  fields and the characters already read, in some line break and some quoting,
  possibly short of a last line break or a lost quote (`StandsIn`, `Lies`). A table,
  a row and a value are concatenations of pieces, and `LeftOver` peels off the
  first; `QuotedCharacter`, `ClosingQuote`, `PlainCharacter`, `NextValue` and
  `NextRow` say which symbol a reader meets in each place, so that every step of the
  scanner takes exactly one piece (`StepKeeps`). The line is one more than the line
  breaks in what was read (`LinesAre`, `NextStart`).
- `ColumnsAreUnderstood`: the mapping folded over the columns is, for every set of
  first columns, the first of each kind before an address (`MappingGrows`,
  `MappingIs`).

**`AuthenticationProofs`**: `AuthTypeCorrect`, `ChallengesAdmitOnce`,
`IdentitiesAreOneAccount`. From the challenge's UPDATE on a sign-in is the only one
with that challenge, and once it is admitted the challenge is spent
(`OneThrough`); a subject has one link, made by a sign-in that committed, and
whoever was admitted was admitted to its account (`Linked`).

**Only model-checked.** `IntentsAreSettled` is liveness under fairness, and the
prover has no ENABLED: `outbox_settles` checks it.
The three properties that fail on PostgreSQL are theorems where they hold
(`CancelledHistoryStands`, `AnswersDoNotOutrun`, `HumanCancellationsStand`).

## Observations

Met while modelling; the properties are stated so as to hold beside them.

- *A second outbox worker.* `NewestMessageWorks` fails with two: one may send the
  old link it checked before a rotation, after the other delivered the new one. The
  runtime starts one worker; the development server drains the queue at the end of
  each request and so may run two.
- *PostgreSQL only.* Two first mints of a feed leave two working URLs, although
  "Minting again ROTATES"; two sign-ins of one subject with different addresses may
  leave both active; two commits of one import may both read the roster's keys before
  either writes, and then both create its children (the comment in
  `commitRosterImport` that a replay sees what the first pass wrote is true of
  SQLite). `DeadUrlsStayDead`, `OneAccountPerIdentity` and `ImportsNeverDuplicate`
  claim these parts for SQLite only.
- *iOS session.* `signOut` followed by `selectTeam` before the sign-out task starts
  shows "ready" with no identity; of two overlapping sign-ins the replaced one may
  advance the epoch last, so that the newer one's cookie is refused; a late start of
  `completeAppleSignIn` shows "authenticating" after a newer `beginAppleSignIn`.
- *iOS schedule.* A nested reload cancelled by `openOccurrence`, or the refresh of a
  list that a spinner replaces, leaves the schedule idle with nobody to reload it;
  `createEvent` reports success without a reload when it was superseded; counts are
  not corrected while the schedule loads.
- *Web islands.* `lesson-answers.tsx` has one `pending` for all questions, so a
  question whose call is under way can be pressed again, and replies out of order
  may leave "try again" beside a stored correct answer; a duty action whose answer is
  lost says "did not save" whether or not it committed. A panel that lost an answer
  offers the button again, and the server may still serve the first request after
  the second: `LinksWork` therefore speaks of a link only until another commit, be it
  the page's own late one. `team-season-form.tsx` sends no request id, so a retry
  after a lost answer meets the server as a second season.
- *Ratings.* A drill reported for an earlier day, or a void, may lower a later
  streak: the tests' "never lowers" is about events that come last.
- *Forms.* A form that creates an event remembers its last attempt only: a draft sent,
  another one sent, and the first sent again make two events of the first.
- *Files.* A `.partial` left by a crash blocks later attempts until it is removed;
  two operators with one target race. `roster-import.ts` does not report guardian
  columns beyond the fourth slot among those it ignores.
- *Release and manifest.* `verify_release` does not compare directories. A manifest
  generated while a commit lands may name contracts of another commit than its head:
  only the verifier notices; and its success means that each fact was true at some
  moment of the verification, not all of them at one.

## Not modelled

- **Views and pages, HTTP and JSON, wording and layout, log redaction, the payload
  cipher, ICS text.** They keep no state that actors share. Where a conversion
  matters to a property it is modelled by what it does (`CsvReader`, `WallTime`,
  `InstantFromWallTime`, identity keys).
- **`packages/domain` schemas and whole-aggregate validation.** No route calls them;
  the policies among them are `TeamAccess`.
- **Verification of a provider's token** appears as its outcome; **the development
  sign-in** is left out.
- **The manifest:** two of its four repositories, which behave like the two modelled;
  its schema and canonical form beyond "a torn file is refused" (exits 2 and 3), the
  checks of unknown facts and of the ledger, and drifting branches and tags. They
  refuse more, never less. The claimed commits are looked up at the judgement; commits
  never vanish.
- **Native:** a 401 of a coordination or invitation request clears the cookie and the
  epoch, and a keychain that fails to store ends a sign-in: both only remove sessions.
  Views run mutations in tasks of their own, so that no disappearing view cancels one.
- **Panels:** between a reply and the reload of the page, `cancel-occurrence.tsx` has
  its button back; the model leaves the page in one step. The clearing of a "keep this
  date" that fails is left out.
- **Inputs that are refused first:** `validate` and unknown skills in `rate.ts`, the
  byte-order mark and `csv_too_large` in `csv.ts`.
- **The mail provider** serves a request while its worker waits for the answer or not
  at all; the start limit of the unit is the bound on crashes.
- **Backups:** a process may die and a call may fail at every step; the loss of power,
  which may lose what was written and not synced, is left out.
- **The preflight:** of each kind of identifier one stands for the rest, the target
  group's VPC, health path and balancers are not compared, and the cloud does not
  change while the checks run.
- **The forms of a single child or guardian**, which reload the page, and schemas of
  the skill content modules.
- **`infra/alchemy`, CI boot, end-to-end tests and `scripts/acceptance.ts`**:
  declarative infrastructure and programs that drive a running server from outside.
- **Deletion of accounts and revocation of memberships** do not exist in the code, so
  nothing models them.
