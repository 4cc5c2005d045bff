------------------------------ MODULE WebDuties ------------------------------
(***************************************************************************)
(* The duties page's island (apps/web/app/duties/duties-board.tsx and       *)
(* duties-model.ts): one action at a time is sent, its reply carries the    *)
(* slot as it now is, and a refusal that says somebody else was faster is   *)
(* followed by a read of the whole list.  Any of those may be lost.         *)
(*                                                                          *)
(* A slot's content is the number of the commit that wrote it: DutySlots    *)
(* says which commits the server makes, this module what the page shows.    *)
(***************************************************************************)
EXTENDS Naturals

CONSTANTS
  Slots,
  MaxClicks,     \* bound on the actions a behaviour sends
  MaxCommits     \* bound on the server's commits

VARIABLES
  slotAt,        \* the server: the commit that wrote each slot, 0 if none did
  commits,
  boardAt,       \* the page: the commit each slot is shown as of
  action,        \* the actions under way, with the slots they started from
  notice,        \* what the last action told the user
  clicks

boardVars == <<slotAt, commits, boardAt, action, notice, clicks>>

NoNotice == [ok |-> TRUE, stale |-> FALSE, at |-> slotAt]

----------------------------------------------------------------------------
\* run: nothing is sent while an action is pending.
MayRunBug == TRUE
MayRun == action = {}

\* performDutyAction's request, with the slots it will merge the reply into.
RunAction ==
  /\ MayRun /\ clicks < MaxClicks /\ clicks' = clicks + 1
  /\ \E s \in Slots :
       action' = action \cup {[n |-> clicks', slot |-> s, from |-> boardAt, at |-> "sent",
                               row |-> 0]}
  /\ UNCHANGED <<slotAt, commits, boardAt, notice>>

Becomes(a, b) == action' = (action \ {a}) \cup {b}

Write(s) == /\ commits < MaxCommits /\ commits' = commits + 1
            /\ slotAt' = [slotAt EXCEPT ![s] = commits']

\* The server's handlers: the write and its reply, whose body may not arrive
\* whole; a 404 or 409; another refusal, or an answer that never comes, whether
\* or not the write took place.
ServeAction(a) ==
  /\ a.at = "sent"
  /\ \/ /\ Write(a.slot)
        /\ \/ Becomes(a, [a EXCEPT !.at = "row", !.row = commits'])
           \/ Becomes(a, [a EXCEPT !.at = "done"])
           \/ Becomes(a, [a EXCEPT !.at = "lost"])
     \/ /\ UNCHANGED <<slotAt, commits>>
        /\ \/ Becomes(a, [a EXCEPT !.at = "raced"])
           \/ Becomes(a, [a EXCEPT !.at = "lost"])
  /\ UNCHANGED <<boardAt, notice, clicks>>

\* Another adult, the schedule or the server's own jobs write a slot.
OthersWrite ==
  /\ \E s \in Slots : Write(s)
  /\ UNCHANGED <<boardAt, action, notice, clicks>>

Tell(ok, stale) == notice' = [ok |-> ok, stale |-> stale, at |-> boardAt']
Finish(a) == action' = action \ {a}

\* mergeDutySlot: the returned slot replaces or joins the ones started from.
ShowRow(a) ==
  /\ a.at = "row" /\ Finish(a)
  /\ boardAt' = [a.from EXCEPT ![a.slot] = a.row]
  /\ Tell(TRUE, FALSE)
  /\ UNCHANGED <<slotAt, commits, clicks>>

\* refreshDutySlots, after a reply without a slot or one that was raced.
ReadList(a) ==
  /\ a.at \in {"done", "raced"}
  /\ Becomes(a, [a EXCEPT !.at = IF a.at = "done" THEN "listed" ELSE "relisted", !.from = slotAt])
  /\ UNCHANGED <<slotAt, commits, boardAt, notice, clicks>>

ShowList(a) ==
  /\ a.at \in {"listed", "relisted"} /\ Finish(a)
  /\ boardAt' = a.from
  /\ Tell(a.at = "listed", FALSE)
  /\ UNCHANGED <<slotAt, commits, clicks>>

ListFails(a) ==
  /\ a.at \in {"done", "raced", "listed", "relisted"} /\ Finish(a)
  /\ boardAt' = boardAt
  /\ Tell(a.at \in {"done", "listed"}, TRUE)
  /\ UNCHANGED <<slotAt, commits, clicks>>

NothingArrives(a) ==
  /\ a.at = "lost" /\ Finish(a)
  /\ boardAt' = boardAt
  /\ Tell(FALSE, FALSE)
  /\ UNCHANGED <<slotAt, commits, clicks>>

BoardInit ==
  /\ slotAt = [s \in Slots |-> 0] /\ commits = 0
  /\ boardAt = slotAt /\ action = {} /\ notice = NoNotice /\ clicks = 0

BoardNext ==
  \/ RunAction
  \/ OthersWrite
  \/ \E a \in action :
       \/ ServeAction(a)
       \/ ShowRow(a)
       \/ ReadList(a)
       \/ ShowList(a)
       \/ ListFails(a)
       \/ NothingArrives(a)

BoardSpec == BoardInit /\ [][BoardNext]_boardVars

----------------------------------------------------------------------------
\* The page never shows a slot as it was before what it already showed: no reply
\* undoes on the screen what an earlier one, or a refresh, brought.
BoardNeverGoesBack == [][\A s \in Slots : boardAt'[s] >= boardAt[s]]_boardVars
=============================================================================
