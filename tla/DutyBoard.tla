----------------------------- MODULE DutyBoard -----------------------------
(***************************************************************************)
(* What duty slots promise a team, with the database left out: each slot   *)
(* has at most one holder, every request is answered once for each time it *)
(* is sent, and its whole effect happens in one indivisible step between   *)
(* its arrival and its answer.                                             *)
(*                                                                         *)
(*   create   opens a new, free slot                                       *)
(*   claim    takes a free slot for the caller                             *)
(*   release  gives up the caller's own slot                               *)
(*   assign   moves a slot to a target (or to nobody), whoever held it     *)
(*                                                                         *)
(* An answer of "ok" says the slot now is as the request wanted it; any    *)
(* other answer says the request changed nothing.                          *)
(***************************************************************************)
CONSTANTS
  Slots,      \* duty slots
  Adults,     \* people who may hold one
  Requests,   \* concurrent callers
  Nobody      \* the assignee of a free slot

VARIABLES
  holder,     \* [Slots -> Adults \cup {Nobody}]
  phase,      \* [Requests -> {"idle", "waiting"}]
  ask,        \* what each caller last asked for
  answer      \* what each caller was last told

vars == <<holder, phase, ask, answer>>

Refusals == {"not-found", "taken", "unavailable", "no-adult", "changed"}

Ask == [op : {"create", "claim", "release", "assign"}, actor : Adults,
        slot : Slots, target : Adults \cup {Nobody}]

\* The holder an answer of "ok" promises.
Goal(a) == CASE a.op = "claim"   -> a.actor
             [] a.op = "release" -> Nobody
             [] OTHER            -> a.target

\* The holders a request may displace to reach its goal.
Displaces(a) == CASE a.op = "claim"   -> {Nobody}
                  [] a.op = "release" -> {a.actor}
                  [] OTHER            -> Adults \cup {Nobody}

Init ==
  /\ holder = [s \in Slots |-> Nobody]
  /\ phase = [r \in Requests |-> "idle"]
  /\ ask \in [Requests -> Ask]
  /\ answer = [r \in Requests |-> "none"]

Submit(r) ==
  /\ phase[r] = "idle"
  /\ phase' = [phase EXCEPT ![r] = "waiting"]
  /\ \E a \in Ask : ask' = [ask EXCEPT ![r] = a]
  /\ answer' = [answer EXCEPT ![r] = "none"]
  /\ UNCHANGED holder

Respond(r, said) ==
  /\ phase[r] = "waiting"
  /\ phase' = [phase EXCEPT ![r] = "idle"]
  /\ answer' = [answer EXCEPT ![r] = said]
  /\ UNCHANGED ask

\* A new slot is free, which is how every unused slot already looks here.
Create(r) ==
  /\ ask[r].op = "create"
  /\ Respond(r, "ok")
  /\ UNCHANGED holder

\* The request has its effect.
Grant(r) ==
  /\ ask[r].op # "create"
  /\ holder[ask[r].slot] \in Displaces(ask[r])
  /\ holder' = [holder EXCEPT ![ask[r].slot] = Goal(ask[r])]
  /\ Respond(r, "ok")

\* The slot already is as the request wants it.
Confirm(r) ==
  /\ ask[r].op # "create"
  /\ holder[ask[r].slot] = Goal(ask[r])
  /\ Respond(r, "ok")
  /\ UNCHANGED holder

Refuse(r) ==
  /\ \E said \in Refusals : Respond(r, said)
  /\ UNCHANGED holder

Next ==
  \E r \in Requests :
    Submit(r) \/ Create(r) \/ Grant(r) \/ Confirm(r) \/ Refuse(r)

Spec == Init /\ [][Next]_vars
============================================================================
