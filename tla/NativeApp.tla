------------------------------ MODULE NativeApp ------------------------------
(***************************************************************************)
(* The two controllers of the iOS app.  They meet in NativeAppViewModel,    *)
(* which sets the coordination context to the season of a "ready" session   *)
(* and to none otherwise: to the coordination controller that is a context  *)
(* that may change at any time, so the two may be explored one at a time.   *)
(***************************************************************************)
EXTENDS NativeSession, NativeCoordination

VARIABLE screen   \* the controller that runs

nativeVars == <<sessionVars, coordinationVars, screen>>

NativeInit == screen \in {"session", "coordination"} /\ SessionInit /\ CoordinationInit

NativeNext ==
  \/ screen = "session" /\ SessionNext /\ UNCHANGED <<coordinationVars, screen>>
  \/ screen = "coordination" /\ CoordinationNext /\ UNCHANGED <<sessionVars, screen>>

NativeSpec == NativeInit /\ [][NativeNext]_nativeVars

----------------------------------------------------------------------------
\* Neither controller shows what a replaced call asked for: a "ready" screen is
\* of the newest call's adult and team, a loaded schedule or detail of the
\* season and occurrence now selected and no older than the user's own changes.
NewestCallsAreShown == ReadyIsTheNewestCalls /\ OwnChangesAreShown
=============================================================================
