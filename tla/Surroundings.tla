---------------------------- MODULE Surroundings ----------------------------
(***************************************************************************)
(* What stands around the server's records: the lessons and the card rated  *)
(* from them, the pages and screens that wait for the server's answers, the *)
(* pure readers of files, dates and events, and the machine that runs it    *)
(* all.  No two of these modules share state, so a scene lets one of them   *)
(* run and holds the others still, where they start.                        *)
(***************************************************************************)
EXTENDS Lessons, WebDuties, WebPanels, EventDrafts, EventForm, JoinTeam, SkillRating, WallTime, CsvReader,
        RuntimeLifecycle, SqliteBackups, TeamReads, StagingPreflight, PlatformManifest

VARIABLE scene   \* the component that runs

surroundingsVars ==
  <<lessonVars, boardVars, panelVars, draftVars, eventFormVars, joinVars, skillEvents,
    walk, csvVars, runtimeVars, backupVars, readVars, preflightVars,
    manifestVars, scene>>

\* A component that does not run waits in one of its initial states.
SomeDatabase == CHOOSE d \in Databases : TRUE
SomeDraft == CHOOSE d \in Drafts : TRUE
SomeEvent == CHOOSE e \in StoredEvents \cup {NoEvent} : TRUE
SomePanel == CHOOSE p \in Panels : TRUE
SomeWalk == WalkOf(CHOOSE s \in Schedules : TRUE, UnknownZone)
SomeUpload == CHOOSE u \in Uploads : TRUE
SomeHost == CHOOSE h \in Hosts : TRUE
SomeCloud == CHOOSE c \in Clouds : TRUE

SurroundingsInit ==
  /\ scene \in {"lessons", "duties", "panel", "new event", "event form", "joining", "skills", "dates", "file",
               "host", "backup", "roster", "preflight", "manifest"}
  /\ LessonsInit /\ (scene # "lessons" => database = SomeDatabase)
  /\ BoardInit
  /\ DraftsInit /\ (scene # "new event" => draft = SomeDraft)
  /\ PanelsInit /\ (scene # "panel" => panel = SomePanel)
  /\ EventFormInit /\ (scene # "event form" => opened = SomeEvent)
  /\ JoinInit /\ ManifestInit
  /\ BackupsInit /\ (scene # "backup" => files.source = "whole")
  /\ RuntimeInit /\ (scene # "host" => host = SomeHost)
  /\ ReadsInit /\ (scene # "roster" => roles = [t \in Clubs |-> "none"] /\ guards = {})
  /\ PreflightInit /\ (scene # "preflight" => cloud = SomeCloud)
  /\ IF scene = "skills" THEN SkillInit ELSE skillEvents = {}
  /\ IF scene = "dates" THEN WallInit ELSE walk = SomeWalk
  /\ IF scene = "file" THEN CsvInit ELSE OpensFile(SomeUpload, <<LF>>, FALSE, TRUE, FALSE)

SurroundingsNext ==
  \/ /\ scene = "lessons" /\ LessonsNext
     /\ UNCHANGED <<boardVars, panelVars, draftVars, eventFormVars, joinVars, skillEvents, walk,
                    csvVars, runtimeVars, backupVars, readVars, preflightVars,
                    manifestVars, scene>>
  \/ /\ scene = "duties" /\ BoardNext
     /\ UNCHANGED <<lessonVars, panelVars, draftVars, eventFormVars, joinVars, skillEvents, walk,
                    csvVars, runtimeVars, backupVars, readVars, preflightVars,
                    manifestVars, scene>>
  \/ /\ scene = "panel" /\ PanelsNext
     /\ UNCHANGED <<lessonVars, boardVars, draftVars, eventFormVars, joinVars,
                    skillEvents, walk, csvVars, runtimeVars, backupVars, readVars,
                    preflightVars, manifestVars, scene>>
  \/ /\ scene = "event form" /\ EventFormNext
     /\ UNCHANGED <<lessonVars, boardVars, panelVars, draftVars, joinVars,
                    skillEvents, walk, csvVars, runtimeVars, backupVars, readVars,
                    preflightVars, manifestVars, scene>>
  \/ /\ scene = "new event" /\ DraftsNext
     /\ UNCHANGED <<lessonVars, boardVars, panelVars, eventFormVars, joinVars, skillEvents, walk,
                    csvVars, runtimeVars, backupVars, readVars, preflightVars,
                    manifestVars, scene>>
  \/ /\ scene = "joining" /\ JoinNext
     /\ UNCHANGED <<lessonVars, boardVars, panelVars, draftVars, eventFormVars, skillEvents,
                    walk, csvVars, runtimeVars, backupVars, readVars, preflightVars,
                    manifestVars, scene>>
  \/ /\ scene = "skills" /\ SkillNext
     /\ UNCHANGED <<lessonVars, boardVars, panelVars, draftVars, eventFormVars, joinVars, walk,
                    csvVars, runtimeVars, backupVars, readVars, preflightVars,
                    manifestVars, scene>>
  \/ /\ scene = "dates" /\ WallNext
     /\ UNCHANGED <<lessonVars, boardVars, panelVars, draftVars, eventFormVars, joinVars, skillEvents,
                    csvVars, runtimeVars, backupVars, readVars, preflightVars,
                    manifestVars, scene>>
  \/ /\ scene = "file" /\ CsvNext
     /\ UNCHANGED <<lessonVars, boardVars, panelVars, draftVars, eventFormVars, joinVars, skillEvents,
                    walk, runtimeVars, backupVars, readVars, preflightVars,
                    manifestVars, scene>>
  \/ /\ scene = "host" /\ RuntimeNext
     /\ UNCHANGED <<lessonVars, boardVars, panelVars, draftVars, eventFormVars, joinVars, skillEvents,
                    walk, csvVars, backupVars, readVars, preflightVars,
                    manifestVars, scene>>
  \/ /\ scene = "backup" /\ BackupsNext
     /\ UNCHANGED <<lessonVars, boardVars, panelVars, draftVars, eventFormVars, joinVars, skillEvents,
                    walk, csvVars, runtimeVars, readVars, preflightVars,
                    manifestVars, scene>>
  \/ /\ scene = "roster" /\ ReadsNext
     /\ UNCHANGED <<lessonVars, boardVars, panelVars, draftVars, eventFormVars, joinVars, skillEvents,
                    walk, csvVars, runtimeVars, backupVars, preflightVars,
                    manifestVars, scene>>
  \/ /\ scene = "preflight" /\ PreflightNext
     /\ UNCHANGED <<lessonVars, boardVars, panelVars, draftVars, eventFormVars, joinVars, skillEvents,
                    walk, csvVars, runtimeVars, backupVars, readVars, manifestVars,
                    scene>>
  \/ /\ scene = "manifest" /\ ManifestNext
     /\ UNCHANGED <<lessonVars, boardVars, panelVars, draftVars, eventFormVars, joinVars, skillEvents,
                    walk, csvVars, runtimeVars, backupVars, readVars, preflightVars,
                    scene>>

SurroundingsSpec == SurroundingsInit /\ [][SurroundingsNext]_surroundingsVars

----------------------------------------------------------------------------
\* Pages never go back: neither a slot of the duties board, an entry of a panel,
\* nor an answer or a card of the lessons page is replaced by what it was before
\* (duties-model.ts, attendance-panel.tsx, team-invitations-panel.tsx,
\* player-card-updates.ts, lessons.ts).
PagesNeverGoBack == BoardNeverGoesBack /\ PanelsNeverGoBack /\ LearningIsKept

\* The event form sends what it shows and the server takes it, and a draft
\* becomes one event however often it is sent before another one is (event-form.tsx,
\* CreateEventView.swift).
DraftsBecomeTheirEvents == SendsWhatItShows /\ OneEventPerDraft

\* Pages act on what they show and show what was done: an invitation is
\* accepted under its own preview (invite-landing.tsx, JoinTeamView.swift), and a
\* panel that says something was saved, or displays a link, shows it as it is.
PagesTellTheTruth == JoinsAsShown /\ SavedIsShown /\ LinksWork

\* What is computed agrees with what people and spreadsheets wrote: streaks with
\* the days of training (streak.ts) and ratings with what was done last (rate.ts),
\* dates and instants with a schedule and its wall time (event-time.ts), records
\* and columns with the exported table (csv.ts, roster-import.ts).
CalculationsAgree ==
  /\ StreaksAreRuns /\ RatingNeverDecays
  /\ SchedulesAreNamedExactly /\ WallTimesAreKept
  /\ FilesAreReadBack /\ HeadersAreUnderstood

\* The machine runs what was planned: boot.py the configured release, server.ts
\* on an open database; backup.ts leaves whole files; the preflight passes only
\* what every request will meet (aws-staging-preflight.ts); and a platform
\* manifest that passes is true (verify.ts).
MachineIsAsPlanned ==
  /\ RunsTheReleaseUnprivileged /\ WorkHasADatabase
  /\ BackupsAreWhole
  /\ PassedMeansServed
  /\ PassedManifestsAreTrue /\ QuietManifestsPass
=============================================================================
