------------------------------ MODULE WebPanels ------------------------------
(***************************************************************************)
(* The panels of the event and team pages that send one request and wait    *)
(* for its answer: attendance-panel.tsx reads everything again after a      *)
(* success; team-invitations-panel.tsx puts the reply into its list and     *)
(* then reads the list; team-members.tsx and team-calendar-feed.tsx only    *)
(* use the reply; cancel-occurrence.tsx and team-season-form.tsx leave for  *)
(* a page that is read anew (schedule-actions.ts, team-actions.ts).         *)
(*                                                                          *)
(* The content of an entry (a child's answer, an invitation, a member, the  *)
(* feed) is the number of the server's commit that wrote it, and so is a    *)
(* link: the commit that minted it.                                         *)
(***************************************************************************)
EXTENDS Naturals

CONSTANTS
  Entries,       \* what a panel lists
  TheFeed,       \* the one entry of the calendar feed's panel
  MaxPresses,    \* bound on the requests of one page
  MaxSaves       \* bound on the server's commits

ASSUME PanelsAssumption == TheFeed \in Entries

VARIABLES
  panel,         \* which of them this is
  entryAt,       \* the server: the commit that wrote each entry
  saves,         \* the server's commits so far
  late,          \* requests the page gave up on and the server may still serve
  meddled,       \* a commit that is not the current request's came after it
  viewAt,        \* the page: the commit each entry is shown as of
  listStale,     \* the page says that its list may be out of date
  link,          \* the feed link on display, 0 if there is none
  ask,           \* the request under way
  told,          \* what the page says of the last one
  presses

panelVars ==
  <<panel, entryAt, saves, late, meddled, viewAt, listStale, link, ask, told, presses>>

Panels == {"attendance", "invitations", "members", "feed", "cancel", "season"}

Buttons ==
  [attendance |-> {"record"}, invitations |-> {"send", "resend", "revoke"},
   members |-> {"grant", "revoke"}, feed |-> {"create", "revoke"},
   cancel |-> {"cancel"}, season |-> {"create"}]

AsOf == [Entries -> Nat]
NoAsk == [op |-> "none", entry |-> TheFeed, at |-> "idle", saved |-> 0, list |-> [e \in Entries |-> 0]]
NothingTold == [kind |-> "none", op |-> "none", entry |-> TheFeed, saved |-> 0,
                list |-> [e \in Entries |-> 0]]

----------------------------------------------------------------------------
\* The buttons are disabled while a request is pending; pressing one takes the
\* last message away, but not the feed link.
Press ==
  /\ ask = NoAsk /\ presses < MaxPresses /\ presses' = presses + 1
  /\ \E e \in IF panel = "feed" THEN {TheFeed} ELSE Entries, op \in Buttons[panel] :
       ask' = [NoAsk EXCEPT !.op = op, !.entry = e, !.at = "sent"]
  /\ told' = NothingTold
  /\ UNCHANGED <<panel, entryAt, saves, late, meddled, viewAt, listStale, link>>

Save(e) == /\ saves < MaxSaves /\ saves' = saves + 1
           /\ entryAt' = [entryAt EXCEPT ![e] = saves']

PageWaits == UNCHANGED <<panel, viewAt, listStale, link, told, presses>>

\* The server serves the request: the page reads its reply, or cannot; or it
\* refuses.
ServeAsk ==
  /\ ask.at = "sent"
  /\ \/ /\ Save(ask.entry) /\ meddled' = FALSE
        /\ \/ ask' = [ask EXCEPT !.at = "replied", !.saved = saves', !.list = entryAt']
           \/ ask' = [ask EXCEPT !.at = "failed"]
     \/ /\ ask' = [ask EXCEPT !.at = "failed"]
        /\ UNCHANGED <<entryAt, saves, meddled>>
  /\ UNCHANGED late /\ PageWaits

\* fetch throws: the request may be lost, or still on its way.
Disconnect ==
  /\ ask.at = "sent" /\ ask' = [ask EXCEPT !.at = "failed"]
  /\ late' = late \cup {[entry |-> ask.entry, op |-> ask.op]}
  /\ UNCHANGED <<entryAt, saves, meddled>> /\ PageWaits

ServeLate ==
  /\ \E r \in late : late' = late \ {r} /\ Save(r.entry)
  /\ meddled' = TRUE
  /\ UNCHANGED ask /\ PageWaits

\* Another page, another adult or the server's own jobs.
OthersSave ==
  /\ \E e \in Entries : Save(e)
  /\ meddled' = TRUE
  /\ UNCHANGED <<ask, late>> /\ PageWaits

ServerRests == UNCHANGED <<panel, entryAt, saves, late, meddled, presses>>

----------------------------------------------------------------------------
\* readAttendance and listInvitations, after a reply.
ReadBack ==
  /\ \/ panel = "attendance" /\ ask.at = "replied"
     \/ panel = "invitations" /\ ask.at = "merged"
  /\ ask' = [ask EXCEPT !.at = "listed", !.list = entryAt]
  /\ ServerRests /\ UNCHANGED <<viewAt, listStale, link, told>>

ReadBackFails ==
  /\ \/ panel = "attendance" /\ ask.at = "replied" /\ ask' = [ask EXCEPT !.at = "failed"]
     \/ panel = "invitations" /\ ask.at = "merged" /\ ask' = [ask EXCEPT !.at = "unlisted"]
  /\ ServerRests /\ UNCHANGED <<viewAt, listStale, link, told>>

TellOf(kind) == told' = [kind |-> kind, op |-> ask.op, entry |-> ask.entry, saved |-> ask.saved,
                       list |-> ask.list]

Merged == [viewAt EXCEPT ![ask.entry] = ask.saved]

\* choose: what was read replaces what is shown.
ShowAttendance ==
  /\ panel = "attendance" /\ ask.at = "listed"
  /\ viewAt' = ask.list /\ TellOf("ok") /\ ask' = NoAsk
  /\ ServerRests /\ UNCHANGED <<listStale, link>>

\* applyAndRefresh: withInvitation first, then the list or a warning.
ShowInvitation ==
  /\ panel = "invitations" /\ ask.at = "replied"
  /\ viewAt' = Merged /\ ask' = [ask EXCEPT !.at = "merged"]
  /\ ServerRests /\ UNCHANGED <<listStale, link, told>>

ShowInvitations ==
  /\ panel = "invitations" /\ ask.at \in {"listed", "unlisted"}
  /\ viewAt' = IF ask.at = "listed" THEN ask.list ELSE viewAt
  /\ listStale' = (ask.at = "unlisted")
  /\ TellOf("ok") /\ ask' = NoAsk
  /\ ServerRests /\ UNCHANGED link

ShowMember ==
  /\ panel = "members" /\ ask.at = "replied"
  /\ viewAt' = Merged /\ TellOf("ok") /\ ask' = NoAsk
  /\ ServerRests /\ UNCHANGED <<listStale, link>>

ShowFeed ==
  /\ panel = "feed" /\ ask.at = "replied"
  /\ viewAt' = Merged
  /\ link' = IF ask.op = "create" THEN ask.saved ELSE 0
  /\ told' = NothingTold /\ ask' = NoAsk
  /\ ServerRests /\ UNCHANGED listStale

\* The page is left for one that is read from the server.
LeavePage ==
  /\ panel \in {"cancel", "season"} /\ ask.at = "replied"
  /\ viewAt' = entryAt /\ told' = NothingTold /\ ask' = NoAsk
  /\ ServerRests /\ UNCHANGED <<listStale, link>>

ShowFailure ==
  /\ ask.at = "failed"
  /\ TellOf("error") /\ ask' = NoAsk
  /\ ServerRests /\ UNCHANGED <<viewAt, listStale, link>>

----------------------------------------------------------------------------
PanelsInit ==
  /\ panel \in Panels
  /\ entryAt = [e \in Entries |-> 0] /\ saves = 0 /\ late = {} /\ meddled = FALSE
  /\ viewAt = entryAt /\ listStale = FALSE /\ link = 0
  /\ ask = NoAsk /\ told = NothingTold /\ presses = 0

PanelsNext ==
  \/ Press
  \/ ServeAsk
  \/ Disconnect
  \/ ServeLate
  \/ OthersSave
  \/ ReadBack
  \/ ReadBackFails
  \/ ShowAttendance
  \/ ShowInvitation
  \/ ShowInvitations
  \/ ShowMember
  \/ ShowFeed
  \/ LeavePage
  \/ ShowFailure

PanelsSpec == PanelsInit /\ [][PanelsNext]_panelVars

----------------------------------------------------------------------------
\* attendance-panel.tsx, team-invitations-panel.tsx, team-members.tsx: beside a
\* message that something was saved the page shows it, or something newer; and a
\* list that was read again is as of then or newer throughout, or says that it
\* may be out of date.
SavedIsShown ==
  told.kind = "ok" =>
    /\ viewAt[told.entry] >= told.saved
    /\ panel \in {"attendance", "invitations"} =>
         listStale \/ \A e \in Entries : viewAt[e] >= told.list[e]

\* team-calendar-feed.tsx, team-invitations-panel.tsx: a link on display that no
\* error stands beside is the newest and works, unless somebody else, or a
\* request the page gave up on, came after it.
LinksWork ==
  ~meddled =>
    /\ panel = "feed" /\ link # 0 /\ ask = NoAsk /\ told.kind # "error" =>
         entryAt[TheFeed] = link
    /\ panel = "invitations" /\ told.kind = "ok" /\ told.op # "revoke" =>
         entryAt[told.entry] = told.saved

\* No answer takes an entry back to what it was before it was last shown.
PanelsNeverGoBack == [][\A e \in Entries : viewAt'[e] >= viewAt[e]]_panelVars
=============================================================================
