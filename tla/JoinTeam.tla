------------------------------- MODULE JoinTeam -------------------------------
(***************************************************************************)
(* Joining a team by invitation on a device: the iOS sheet (JoinTeamModel   *)
(* and JoinTeamView), which previews an invitation and then accepts it.     *)
(* Each tap starts a task and cancels the one before it; a task begins when *)
(* the main actor is free, awaits the server and comes back.  A generation  *)
(* tells a task whether what it asked for is still wanted.                  *)
(*                                                                          *)
(* The web page (invite-landing.tsx) has one token for its life: it is the  *)
(* case of one invitation.                                                  *)
(***************************************************************************)
EXTENDS Naturals, FiniteSets

CONSTANTS
  Invitations,   \* links the user may paste
  NoInvitation,
  MaxTaps        \* bound on what the user does

VARIABLES
  phase,         \* what the sheet shows, and the invitation it shows
  pasted,        \* the text field
  token, preview,
  asked,         \* the model's generation
  operations,    \* the tasks the taps started
  members,       \* the server: invitations that were accepted
  taps

joinVars == <<phase, pasted, token, preview, asked, operations, members, taps>>

Show(kind, i) == [kind |-> kind, of |-> i, retry |-> "none"]
Entry == Show("entry", NoInvitation)
FailedWith(retry) == [kind |-> "failed", of |-> NoInvitation, retry |-> retry]

Tap == taps < MaxTaps /\ taps' = taps + 1

----------------------------------------------------------------------------
(* The user's taps: replaceOperation cancels the task before.               *)

CancelAll(ops) == {[o EXCEPT !.cancelled = TRUE] : o \in ops}
ReplaceOperation(what) ==
  operations' = CancelAll(operations) \cup
    {[n |-> taps', does |-> what, at |-> "start", cancelled |-> FALSE, of |-> NoInvitation,
      asked |-> 0, reply |-> "none"]}

Paste ==
  /\ Tap /\ phase.kind = "entry" /\ \E i \in Invitations : pasted' = i
  /\ UNCHANGED <<phase, token, preview, asked, operations, members>>

TapPreview ==
  /\ Tap /\ phase.kind = "entry" /\ pasted # NoInvitation /\ ReplaceOperation("preview")
  /\ UNCHANGED <<phase, pasted, token, preview, asked, members>>

TapAccept ==
  /\ Tap /\ phase.kind = "preview" /\ ReplaceOperation("accept")
  /\ UNCHANGED <<phase, pasted, token, preview, asked, members>>

TapRetry ==
  /\ Tap /\ phase.kind = "failed" /\ phase.retry # "none" /\ ReplaceOperation("retry")
  /\ UNCHANGED <<phase, pasted, token, preview, asked, members>>

\* beginRefreshingExistingMembership: the invitation was accepted before.
TapContinue ==
  /\ Tap /\ phase.kind = "member"
  /\ asked' = asked + 1 /\ token' = NoInvitation /\ preview' = NoInvitation
  /\ phase' = Show("refreshing", phase.of)
  /\ ReplaceOperation("refresh")
  /\ UNCHANGED <<pasted, members>>

\* reset, from any phase; leaving the sheet does the same.
TapCancel ==
  /\ Tap /\ asked' = asked + 1
  /\ operations' = CancelAll(operations)
  /\ token' = NoInvitation /\ preview' = NoInvitation /\ pasted' = NoInvitation
  /\ phase' = Entry
  /\ UNCHANGED members

----------------------------------------------------------------------------
(* The tasks.                                                               *)

OperationGoes(o, to) == operations' = (operations \ {o}) \cup {to}
EndsTask(o) == operations' = operations \ {o}

\* A task that was cancelled before it began sends nothing.
Ask(o, does, i, screen) ==
  /\ asked' = asked + 1 /\ phase' = screen
  /\ OperationGoes(o, [o EXCEPT !.does = does, !.of = i, !.asked = asked + 1,
                       !.at = IF o.cancelled THEN "back" ELSE "wait",
                       !.reply = IF o.cancelled THEN "cancelled" ELSE "none"])

RequestPreview(o, i) == Ask(o, "preview", i, Show("previewing", i))

StartPreview(o) ==
  /\ o.does = "preview" /\ pasted' = NoInvitation
  /\ IF pasted = NoInvitation
     THEN /\ token' = NoInvitation /\ preview' = NoInvitation
          /\ phase' = FailedWith("none") /\ EndsTask(o) /\ UNCHANGED asked
     ELSE token' = pasted /\ UNCHANGED preview /\ RequestPreview(o, pasted)

\* acceptInvitation sends the token and shows the preview it has.
Accept(o) ==
  IF token = NoInvitation \/ preview = NoInvitation
  THEN EndsTask(o) /\ UNCHANGED <<phase, asked>>
  ELSE Ask(o, "accept", token, Show("accepting", preview))

StartRetry(o) ==
  IF phase.kind # "failed" \/ phase.retry = "none" \/ token = NoInvitation
  THEN EndsTask(o) /\ UNCHANGED <<phase, asked>>
  ELSE IF phase.retry = "preview" THEN RequestPreview(o, token) ELSE Accept(o)

Begin(o) ==
  /\ o.at = "start"
  /\ \/ StartPreview(o)
     \/ /\ \/ o.does = "accept" /\ Accept(o)
           \/ o.does = "retry" /\ StartRetry(o)
           \/ o.does = "refresh" /\ OperationGoes(o, [o EXCEPT !.at = "refresh"]) /\ UNCHANGED <<phase, asked>>
        /\ UNCHANGED <<pasted, token, preview>>
  /\ UNCHANGED <<members, taps>>

\* The server's answer, a failure worth a retry or not, or the cancellation of
\* the request; an accepted invitation is accepted even if nobody hears of it.
InvitationReply(o) ==
  /\ o.at = "wait"
  /\ \E reply \in {IF o.does = "preview" /\ o.of \in members THEN "member" ELSE "ok",
                   "again", "refused"} \cup (IF o.cancelled THEN {"cancelled"} ELSE {}) :
       /\ OperationGoes(o, [o EXCEPT !.at = "back", !.reply = reply])
       /\ \/ members' = members \cup IF o.does = "accept" THEN {o.of} ELSE {}
          \/ (o.does # "accept" \/ reply # "ok") /\ members' = members
  /\ UNCHANGED <<phase, pasted, token, preview, asked, taps>>

IsAnswer(o) == o.reply \in {"ok", "member"}

\* The guards after each await.
IsWantedReplyBug(o) == TRUE
IsWantedReply(o) == o.asked = asked /\ ~(IsAnswer(o) /\ o.cancelled)

ClearCredential == token' = NoInvitation /\ preview' = NoInvitation

Comeback(o) ==
  /\ o.at = "back"
  /\ CASE ~IsWantedReply(o) -> EndsTask(o) /\ UNCHANGED <<phase, token, preview>>
       [] OTHER ->
            \/ /\ IsAnswer(o) /\ o.does = "preview" /\ EndsTask(o)
               /\ preview' = o.of /\ UNCHANGED token
               /\ phase' = Show(IF o.reply = "member" THEN "member" ELSE "preview", o.of)
            \/ /\ o.reply = "ok" /\ o.does = "accept" /\ OperationGoes(o, [o EXCEPT !.at = "refresh"])
               /\ ClearCredential /\ phase' = Show("joined", o.of)
            \/ /\ o.reply = "cancelled" /\ EndsTask(o) /\ ClearCredential /\ phase' = Entry
            \/ /\ o.reply = "again" /\ EndsTask(o) /\ phase' = FailedWith(o.does)
               /\ UNCHANGED <<token, preview>>
            \/ /\ o.reply = "refused" /\ EndsTask(o) /\ ClearCredential
               /\ phase' = FailedWith("none")
  /\ UNCHANGED <<pasted, asked, members, taps>>

\* refreshAndDismiss: the refresh outlives the sheet, which then goes away
\* unless it was cancelled.
Refreshed(o) ==
  /\ o.at = "refresh" /\ EndsTask(o)
  /\ IF o.cancelled THEN UNCHANGED <<phase, asked, token, preview, pasted>>
     ELSE /\ asked' = asked + 1 /\ ClearCredential /\ pasted' = NoInvitation /\ phase' = Entry
  /\ UNCHANGED <<members, taps>>

JoinInit ==
  /\ phase = Entry /\ pasted = NoInvitation /\ token = NoInvitation /\ preview = NoInvitation
  /\ asked = 0 /\ operations = {} /\ members = {} /\ taps = 0

JoinNext ==
  \/ Paste
  \/ TapPreview
  \/ TapAccept
  \/ TapRetry
  \/ TapContinue
  \/ TapCancel
  \/ \E o \in operations :
       \/ Begin(o)
       \/ InvitationReply(o)
       \/ Comeback(o)
       \/ Refreshed(o)

JoinSpec == JoinInit /\ [][JoinNext]_joinVars

----------------------------------------------------------------------------
\* What is accepted is what the sheet showed when the user agreed: an invitation
\* is sent for acceptance only under its own preview, and the sheet says that
\* a team was joined only of one that was.
AcceptsWhatWasShown ==
  /\ phase.kind = "accepting" =>
       \E o \in operations : o.does = "accept" /\ o.asked = asked /\ o.of = phase.of
  /\ phase.kind = "joined" => phase.of \in members

\* A sheet that shows progress has a task that will end it.
ProgressHasATask ==
  phase.kind \in {"previewing", "accepting", "joined", "refreshing"} =>
    \E o \in operations : \/ o.at \in {"start", "refresh"}
                          \/ o.asked = asked /\ ~(IsAnswer(o) /\ o.cancelled)

\* Both: the sheet accepts what it showed and always comes to an end.
JoinsAsShown == AcceptsWhatWasShown /\ ProgressHasATask
=============================================================================
