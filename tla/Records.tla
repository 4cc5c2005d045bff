------------------------------ MODULE Records ------------------------------
(***************************************************************************)
(* The application's records beside duties and invitations, each modelled  *)
(* by a module of its own.  They meet only through what those modules take *)
(* as their surroundings -- an occurrence's status, the roster, an adult's *)
(* access -- which each of them lets change at any time, so a behaviour of *)
(* the whole is one of each component and the components may be explored   *)
(* one at a time: a scene lets one of them run and holds the others still. *)
(***************************************************************************)
EXTENDS EventSeries, EventCreation, TeamAccess, Attendance, CalendarFeeds,
        RosterImport, Authentication

VARIABLE scene   \* the component that runs

recordsVars == <<seriesVars, creationVars, accessVars, attendanceVars, feedVars,
                 rosterVars, authVars, scene>>

RecordsInit ==
  /\ scene \in {"series", "creation", "access", "attendance", "feeds", "roster", "sign-in"}
  /\ SeriesInit /\ CreationInit /\ AccessInit /\ AttendanceInit /\ FeedsInit
  /\ RosterInit /\ AuthInit

RecordsNext ==
  \/ /\ scene = "series" /\ SeriesNext
     /\ UNCHANGED <<creationVars, accessVars, attendanceVars, feedVars, rosterVars,
                    authVars, scene>>
  \/ /\ scene = "creation" /\ CreationNext
     /\ UNCHANGED <<seriesVars, accessVars, attendanceVars, feedVars, rosterVars,
                    authVars, scene>>
  \/ /\ scene = "access" /\ AccessNext
     /\ UNCHANGED <<seriesVars, creationVars, attendanceVars, feedVars, rosterVars,
                    authVars, scene>>
  \/ /\ scene = "attendance" /\ AttendanceNext
     /\ UNCHANGED <<seriesVars, creationVars, accessVars, feedVars, rosterVars,
                    authVars, scene>>
  \/ /\ scene = "feeds" /\ FeedsNext
     /\ UNCHANGED <<seriesVars, creationVars, accessVars, attendanceVars, rosterVars,
                    authVars, scene>>
  \/ /\ scene = "roster" /\ RosterNext
     /\ UNCHANGED <<seriesVars, creationVars, accessVars, attendanceVars, feedVars,
                    authVars, scene>>
  \/ /\ scene = "sign-in" /\ AuthNext
     /\ UNCHANGED <<seriesVars, creationVars, accessVars, attendanceVars, feedVars,
                    rosterVars, scene>>

RecordsSpec == RecordsInit /\ [][RecordsNext]_recordsVars

----------------------------------------------------------------------------
\* Types: the running component's variables stay within what its module
\* declares (the others do not change).
RecordsTypeOK ==
  /\ scene = "series" => SeriesTypeOK
  /\ scene = "creation" => CreationTypeOK
  /\ scene = "access" => AccessTypeOK
  /\ scene = "roster" => RosterTypeOK
  /\ scene = "sign-in" => AuthTypeOK
=============================================================================
