-------------------------- MODULE DutySlotsProofs --------------------------
(***************************************************************************)
(* Duty slots, for any number of slots, adults and callers, on SQLite and  *)
(* on PostgreSQL: a committed assignment never overwrites one the request  *)
(* had not read, holders belong to the team, and DutySlots implements      *)
(* DutyBoard.                                                              *)
(***************************************************************************)
EXTENDS DutySlots, TLAPS

----------------------------------------------------------------------------
(* Typing *)

LEMMA InitTypeOK == Init => TypeOK
BY DEF Init, TypeOK, FreeRow, Row, Occurrence, Places

LEMMA NewRowTyped ==
  ASSUME NEW q \in Ask
  PROVE  /\ Goal(q) \in Adults \cup {Nobody}
         /\ NewRow(q) \in Row
<1>1. Goal(q) \in Adults \cup {Nobody}
  BY DEF Goal, Ask
<1>2. QED
  BY <1>1 DEF NewRow, Row, Ask

LEMMA CloseTyped ==
  ASSUME TypeOK, NEW r \in Requests, NEW said \in Refusals \cup {"ok"},
         Close(r, said)
  PROVE  /\ at' \in [Requests -> Places]
         /\ ask' \in [Requests -> Ask]
         /\ scheduled' \in [Requests -> BOOLEAN]
         /\ seen' \in [Requests -> Adults \cup {Nobody}]
         /\ wrote' \in [Requests -> BOOLEAN]
         /\ answer' \in [Requests -> Refusals \cup {"none", "ok"}]
         /\ writer' \in Requests \cup {NoRequest}
         /\ occurrence' \in Occurrence
         /\ access' \in [Adults -> Levels]
BY DEF TypeOK, Close, GoTo, Places, others

LEMMA NextTypeOK == TypeOK /\ [Next]_vars => TypeOK'
<1> SUFFICES ASSUME TypeOK, [Next]_vars PROVE TypeOK'
  OBVIOUS
<1> USE DEF tables, others, locals, handlers
<1>1. ASSUME NEW r \in Requests, Submit(r) PROVE TypeOK'
  BY <1>1 DEF Submit, GoTo, TypeOK, Places
<1>2. ASSUME NEW r \in Requests, Refuse(r) PROVE TypeOK'
  BY <1>2, CloseTyped DEF Refuse, TypeOK, Refusals
<1>3. ASSUME NEW r \in Requests, Begin(r) PROVE TypeOK'
  BY <1>3 DEF Begin, GoTo, TypeOK, Places, Occurrence
<1>4. ASSUME NEW r \in Requests, Insert(r) PROVE TypeOK'
  BY <1>4, CloseTyped DEF Insert, TypeOK, Refusals
<1>5. ASSUME NEW r \in Requests, ReadSlot(r) PROVE TypeOK'
  <2> DEFINE held == row[ask[r].slot].assignee
  <2>1. held \in Adults \cup {Nobody}
    BY DEF TypeOK, Ask, Row
  <2>2. CASE Verdict(r, held) # "go"
    <3>1. Verdict(r, held) \in Refusals \cup {"ok"}
      BY <2>2 DEF Verdict, Refusals
    <3>2. QED
      BY <1>5, <2>2, <3>1, CloseTyped DEF ReadSlot, TypeOK
  <2>3. CASE Verdict(r, held) = "go"
    BY <1>5, <2>1, <2>3 DEF ReadSlot, GoTo, TypeOK, Places
  <2>4. QED
    BY <2>2, <2>3
<1>6. ASSUME NEW r \in Requests, CheckAdult(r) PROVE TypeOK'
  <2>1. CASE Close(r, "no-adult")
    BY <1>6, <2>1, CloseTyped DEF CheckAdult, TypeOK, Refusals
  <2>2. CASE ~Close(r, "no-adult")
    BY <1>6, <2>2 DEF CheckAdult, GoTo, TypeOK, Places
  <2>3. QED
    BY <2>1, <2>2
<1>7. ASSUME NEW r \in Requests, Update(r) PROVE TypeOK'
  <2>1. rowLock' \in [Slots -> Requests \cup {NoRequest}]
    BY <1>7 DEF Update, TypeOK
  <2>2. wrote' \in [Requests -> BOOLEAN]
    BY <1>7 DEF Update, TypeOK
  <2>3. at' \in [Requests -> Places]
    BY <1>7 DEF Update, GoTo, TypeOK, Places
  <2>4. QED
    BY <1>7, <2>1, <2>2, <2>3 DEF Update, TypeOK
<1>8. ASSUME NEW r \in Requests, Commit(r) PROVE TypeOK'
  <2>1. Outcome(r) \in Refusals \cup {"ok"}
    BY DEF Outcome, Refusals
  <2>2. OwnView(r) \in Row
    BY NewRowTyped DEF OwnView, TypeOK, Ask
  <2>3. /\ row' \in [Slots -> Row]
        /\ rowLock' \in [Slots -> Requests \cup {NoRequest}]
    BY <1>8, <2>2 DEF Commit, TypeOK
  <2>4. QED
    BY <1>8, <2>1, <2>3, CloseTyped DEF Commit, TypeOK
<1>9. CASE ChangeStatus
  BY <1>9 DEF ChangeStatus, TypeOK, Occurrence
<1>10. CASE Start
  BY <1>10 DEF Start, TypeOK, Occurrence
<1>11. CASE ChangeAccess
  BY <1>11 DEF ChangeAccess, TypeOK, Levels
<1>12. CASE UNCHANGED vars
  BY <1>12 DEF vars, TypeOK
<1>13. QED
  BY <1>1, <1>2, <1>3, <1>4, <1>5, <1>6, <1>7, <1>8, <1>9, <1>10, <1>11, <1>12
     DEF Next, Handle

\* Every row, handler and lock keeps its type.
THEOREM TypeCorrect == Spec => []TypeOK
BY InitTypeOK, NextTypeOK, PTL DEF Spec

----------------------------------------------------------------------------
(* The inductive invariant *)

IInv == TypeOK /\ WritesAreGuarded /\ ChecksStillHold /\ HoldersAreTeamAdults

\* A handler that closes writes nothing more; the others keep their footing.
LEMMA CloseKeepsGuards ==
  ASSUME TypeOK, WritesAreGuarded, ChecksStillHold,
         NEW r \in Requests, NEW said, Close(r, said), UNCHANGED tables
  PROVE  WritesAreGuarded' /\ ChecksStillHold'
<1> USE DEF tables, others
<1>1. WritesAreGuarded'
  BY DEF Close, GoTo, TypeOK, WritesAreGuarded, Matches, Expected
<1>2. ChecksStillHold'
  BY DEF Close, GoTo, TypeOK, ChecksStillHold, Expected
<1>3. QED
  BY <1>1, <1>2

LEMMA GuardsStep == IInv /\ [Next]_vars => WritesAreGuarded' /\ ChecksStillHold'
<1> SUFFICES ASSUME TypeOK, WritesAreGuarded, ChecksStillHold, [Next]_vars
             PROVE  WritesAreGuarded' /\ ChecksStillHold'
  BY DEF IInv
<1> USE DEF tables, others, locals, handlers
<1>1. ASSUME NEW r \in Requests, Submit(r)
      PROVE  WritesAreGuarded' /\ ChecksStillHold'
  <2>1. WritesAreGuarded'
    BY <1>1 DEF Submit, GoTo, TypeOK, WritesAreGuarded, Matches, Expected
  <2>2. ChecksStillHold'
    BY <1>1 DEF Submit, GoTo, TypeOK, ChecksStillHold, Expected
  <2>3. QED
    BY <2>1, <2>2
<1>2. ASSUME NEW r \in Requests, Refuse(r)
      PROVE  WritesAreGuarded' /\ ChecksStillHold'
  BY <1>2, CloseKeepsGuards DEF Refuse
<1>3. ASSUME NEW r \in Requests, Begin(r)
      PROVE  WritesAreGuarded' /\ ChecksStillHold'
  <2>1. WritesAreGuarded'
    BY <1>3 DEF Begin, GoTo, TypeOK, WritesAreGuarded, Matches, Expected
  <2>2. ChecksStillHold'
    BY <1>3 DEF Begin, GoTo, TypeOK, ChecksStillHold, Expected, MayCall
  <2>3. QED
    BY <2>1, <2>2
<1>4. ASSUME NEW r \in Requests, Insert(r)
      PROVE  WritesAreGuarded' /\ ChecksStillHold'
  <2> PICK said : Close(r, said)
    BY <1>4 DEF Insert
  <2>1. WritesAreGuarded'
    BY <1>4 DEF Insert, Close, GoTo, TypeOK, WritesAreGuarded, Matches, Expected
  <2>2. ChecksStillHold'
    BY <1>4 DEF Insert, Close, GoTo, TypeOK, ChecksStillHold, Expected
  <2>3. QED
    BY <2>1, <2>2
<1>5. ASSUME NEW r \in Requests, ReadSlot(r)
      PROVE  WritesAreGuarded' /\ ChecksStillHold'
  <2> DEFINE held == row[ask[r].slot].assignee
  <2>1. CASE Verdict(r, held) # "go"
    BY <1>5, <2>1, CloseKeepsGuards DEF ReadSlot
  <2>2. CASE Verdict(r, held) = "go"
    <3>1. WritesAreGuarded'
      BY <1>5, <2>2 DEF ReadSlot, GoTo, TypeOK, WritesAreGuarded, Matches, Expected
    <3>2. MayMove(ask[r], held)
      BY <2>2 DEF Verdict
    <3>3. ask[r] \in Ask /\ at[r] = "slot"
      BY <1>5 DEF ReadSlot, TypeOK
    <3>4. ChecksStillHold'
      BY <1>5, <2>2, <3>2, <3>3
         DEF ReadSlot, GoTo, TypeOK, ChecksStillHold, Expected, MayMove, Ask, Ops
    <3>5. QED
      BY <3>1, <3>4
  <2>3. QED
    BY <2>1, <2>2
<1>6. ASSUME NEW r \in Requests, CheckAdult(r)
      PROVE  WritesAreGuarded' /\ ChecksStillHold'
  <2>1. CASE Close(r, "no-adult")
    BY <1>6, <2>1, CloseKeepsGuards DEF CheckAdult
  <2>2. CASE ~Close(r, "no-adult")
    <3>1. WritesAreGuarded'
      BY <1>6, <2>2
         DEF CheckAdult, GoTo, TypeOK, WritesAreGuarded, Matches, Expected
    <3>2. ChecksStillHold'
      BY <1>6, <2>2 DEF CheckAdult, GoTo, TypeOK, ChecksStillHold, Expected
    <3>3. QED
      BY <3>1, <3>2
  <2>3. QED
    BY <2>1, <2>2
<1>7. ASSUME NEW r \in Requests, Update(r)
      PROVE  WritesAreGuarded' /\ ChecksStillHold'
  <2>1. /\ at[r] = "update"
        /\ at' = [at EXCEPT ![r] = "reread"]
        /\ UNCHANGED <<row, ask, seen, access>>
    BY <1>7 DEF Update, GoTo
  <2>2. ChecksStillHold'
    BY <2>1 DEF TypeOK, ChecksStillHold, Expected
  <2>3. CASE Matches(r) /\ rowLock[ask[r].slot] = NoRequest
                        /\ rowLock' = [rowLock EXCEPT ![ask[r].slot] = r]
                        /\ wrote' = [wrote EXCEPT ![r] = TRUE]
    <3>1. ASSUME NEW o \in Requests, wrote'[o]
          PROVE  at'[o] = "reread" /\ rowLock'[ask'[o].slot] = o /\ Matches(o)'
      <4>1. CASE o = r
        <5>1. at'[r] = "reread" /\ rowLock'[ask[r].slot] = r
          BY <2>1, <2>3 DEF TypeOK, Ask
        <5>2. Matches(r)'
          BY <2>1, <2>3 DEF Matches, Expected
        <5>3. QED
          BY <2>1, <4>1, <5>1, <5>2
      <4>2. CASE o # r
        <5>1. wrote[o] /\ at[o] = "reread" /\ rowLock[ask[o].slot] = o /\ Matches(o)
          BY <2>3, <3>1, <4>2 DEF WritesAreGuarded, TypeOK
        <5>2. ask[o].slot # ask[r].slot
          BY <2>3, <5>1, ConstantsOK
        <5>3. at'[o] = "reread" /\ rowLock'[ask[o].slot] = o
          BY <2>1, <2>3, <4>2, <5>1, <5>2 DEF TypeOK, Ask
        <5>4. Matches(o)'
          BY <2>1, <5>1 DEF Matches, Expected
        <5>5. QED
          BY <2>1, <5>3, <5>4
      <4>3. QED
        BY <4>1, <4>2
    <3>2. QED
      BY <2>2, <3>1 DEF WritesAreGuarded
  <2>4. CASE UNCHANGED <<rowLock, wrote>>
    <3>1. WritesAreGuarded'
      BY <2>1, <2>4 DEF TypeOK, WritesAreGuarded, Matches, Expected
    <3>2. QED
      BY <2>2, <3>1
  <2>5. QED
    BY <1>7, <2>3, <2>4 DEF Update
<1>8. ASSUME NEW r \in Requests, Commit(r)
      PROVE  WritesAreGuarded' /\ ChecksStillHold'
  <2>1. ChecksStillHold'
    <3>1. PICK said : Close(r, said)
      BY <1>8 DEF Commit
    <3>2. QED
      BY <3>1 DEF Close, GoTo, TypeOK, ChecksStillHold, Expected
  <2>2. ASSUME NEW o \in Requests, wrote'[o]
        PROVE  at'[o] = "reread" /\ rowLock'[ask'[o].slot] = o /\ Matches(o)'
    <3>1. o # r /\ wrote[o] /\ UNCHANGED <<ask>> /\ at'[o] = at[o] /\ seen'[o] = seen[o]
      BY <1>8, <2>2 DEF Commit, Close, GoTo, TypeOK
    <3>2. at[o] = "reread" /\ rowLock[ask[o].slot] = o /\ Matches(o)
      BY <3>1 DEF WritesAreGuarded
    <3>3. /\ row'[ask[o].slot] = row[ask[o].slot]
          /\ rowLock'[ask[o].slot] = rowLock[ask[o].slot]
      <4>1. CASE ask[o].slot = ask[r].slot
        <5>1. ~wrote[r]
          BY <3>1, <3>2, <4>1 DEF WritesAreGuarded
        <5>2. QED
          BY <1>8, <4>1, <5>1 DEF Commit, OwnView, TypeOK, Ask
      <4>2. CASE ask[o].slot # ask[r].slot
        BY <1>8, <4>2 DEF Commit, TypeOK, Ask
      <4>3. QED
        BY <4>1, <4>2
    <3>4. QED
      BY <3>1, <3>2, <3>3 DEF Matches, Expected
  <2>3. QED
    BY <2>1, <2>2 DEF WritesAreGuarded
<1>9. CASE ChangeStatus
  BY <1>9 DEF ChangeStatus, WritesAreGuarded, ChecksStillHold, Matches, Expected
<1>10. CASE Start
  BY <1>10 DEF Start, WritesAreGuarded, ChecksStillHold, Matches, Expected
<1>11. CASE ChangeAccess
  <2>1. \A a \in Adults : access[a] # "none" => access'[a] # "none"
    BY <1>11 DEF ChangeAccess, TypeOK
  <2>2. WritesAreGuarded'
    BY <1>11 DEF ChangeAccess, WritesAreGuarded, Matches, Expected
  <2>3. \A r \in Requests : ask[r] \in Ask
    BY DEF TypeOK
  <2>4. ChecksStillHold'
    BY <1>11, <2>1, <2>3 DEF ChangeAccess, ChecksStillHold, Expected, Ask
  <2>5. QED
    BY <2>2, <2>4
<1>12. CASE UNCHANGED vars
  BY <1>12 DEF vars, WritesAreGuarded, ChecksStillHold, Matches, Expected
<1>13. QED
  BY <1>1, <1>2, <1>3, <1>4, <1>5, <1>6, <1>7, <1>8, <1>9, <1>10, <1>11, <1>12
     DEF Next, Handle

\* Commit is the only step that writes a row.
LEMMA OnlyCommitWrites ==
  ASSUME TypeOK, [Next]_vars, ~ \E r \in Requests : Commit(r)
  PROVE  UNCHANGED row
BY DEF Next, Handle, Submit, Refuse, Begin, Insert, ReadSlot, CheckAdult, Update,
       ChangeStatus, Start, ChangeAccess, tables, others, handlers, vars

\* A commit that changes the assignee puts the request's goal there.
LEMMA CommitWritesGoal ==
  ASSUME IInv, NEW r \in Requests, Commit(r), NEW s \in Slots,
         row'[s].assignee # row[s].assignee
  PROVE  /\ s = ask[r].slot /\ wrote[r] /\ at[r] = "reread" /\ at'[r] = "idle"
         /\ row'[s].assignee = Goal(ask[r])
         /\ row[s].assignee = seen[r]
<1>1. s = ask[r].slot /\ row' = [row EXCEPT ![s] = OwnView(r)]
  BY DEF Commit, IInv, TypeOK, Ask
<1>2. wrote[r] /\ row'[s].assignee = Goal(ask[r])
  BY <1>1 DEF OwnView, NewRow, IInv, TypeOK
<1>3. at[r] = "reread" /\ at'[r] = "idle"
  BY DEF Commit, Close, GoTo, IInv, TypeOK
<1>4. row[s].assignee = seen[r]
  BY <1>1, <1>2, <1>3 DEF IInv, WritesAreGuarded, ChecksStillHold, Matches
<1>5. QED
  BY <1>1, <1>2, <1>3, <1>4

LEMMA HoldersStep == IInv /\ [Next]_vars => HoldersAreTeamAdults'
<1> SUFFICES ASSUME IInv, [Next]_vars, NEW s \in Slots, row'[s].assignee # Nobody
             PROVE  access'[row'[s].assignee] # "none"
  BY DEF HoldersAreTeamAdults
<1>1. \A a \in Adults : access[a] # "none" => access'[a] # "none"
  BY DEF IInv, TypeOK, Next, Handle, Submit, Refuse, Begin, Insert, ReadSlot,
         CheckAdult, Update, Commit, Close, ChangeStatus, Start, ChangeAccess,
         tables, others, handlers, vars
<1>2. CASE row'[s].assignee = row[s].assignee
  <2>1. row[s].assignee \in Adults /\ access[row[s].assignee] # "none"
    BY <1>2 DEF IInv, HoldersAreTeamAdults, TypeOK, Row
  <2>2. QED
    BY <1>1, <1>2, <2>1
<1>3. CASE row'[s].assignee # row[s].assignee
  <2>1. PICK r \in Requests : Commit(r)
    BY <1>3, OnlyCommitWrites DEF IInv
  <2>2. /\ at[r] = "reread"
        /\ row'[s].assignee = Goal(ask[r])
    BY <1>3, <2>1, CommitWritesGoal
  <2>3. ask[r] \in Ask
    BY DEF IInv, TypeOK
  <2>4. Goal(ask[r]) \in Adults /\ access[Goal(ask[r])] # "none"
    BY <2>2, <2>3 DEF IInv, ChecksStillHold, Goal, Ask, Ops
  <2>5. QED
    BY <1>1, <2>2, <2>4
<1>4. QED
  BY <1>2, <1>3

LEMMA Invariance == Spec => []IInv
<1>1. Init => IInv
  <2>1. Init => WritesAreGuarded /\ ChecksStillHold /\ HoldersAreTeamAdults
    BY DEF Init, WritesAreGuarded, ChecksStillHold, HoldersAreTeamAdults, FreeRow
  <2>2. QED
    BY <2>1, InitTypeOK DEF IInv
<1>2. IInv /\ [Next]_vars => IInv'
  BY NextTypeOK, GuardsStep, HoldersStep DEF IInv
<1>3. QED
  BY <1>1, <1>2, PTL DEF Spec

\* A locked row keeps the value its transaction is about to replace.
THEOREM Guarded == Spec => []WritesAreGuarded
BY Invariance, PTL DEF IInv

\* Every holder belongs to the team.
THEOREM TeamAdultsOnly == Spec => []HoldersAreTeamAdults
BY Invariance, PTL DEF IInv

\* No assignment is overwritten by a request that had not read it.
THEOREM NothingOverwrittenBlindly == Spec => NoBlindOverwrite
<1> DEFINE Careful ==
      \A s \in Slots :
        row'[s].assignee # row[s].assignee =>
          \E r \in Requests :
            /\ ask[r].slot = s
            /\ at[r] = "reread" /\ at'[r] = "idle"
            /\ seen[r] = row[s].assignee
<1>1. IInv /\ [Next]_vars => Careful
  <2> SUFFICES ASSUME IInv, [Next]_vars, NEW s \in Slots,
                      row'[s].assignee # row[s].assignee
               PROVE  \E r \in Requests :
                        /\ ask[r].slot = s
                        /\ at[r] = "reread" /\ at'[r] = "idle"
                        /\ seen[r] = row[s].assignee
    OBVIOUS
  <2>1. PICK r \in Requests : Commit(r)
    BY OnlyCommitWrites DEF IInv
  <2>2. QED
    BY <2>1, CommitWritesGoal
<1>2. IInv /\ [Next]_vars => [Careful]_vars
  BY <1>1
<1>3. QED
  BY <1>2, Invariance, PTL DEF Spec, NoBlindOverwrite

----------------------------------------------------------------------------
(* On SQLite *)

\* The one running transaction read the status that the occurrence still has,
\* and one that has decided to write had read "scheduled".
RunsAlone ==
  \A r \in Requests :
    /\ Serialized /\ at[r] \notin {"idle", "begin"} =>
         writer = r /\ scheduled[r] = occurrence.scheduled
    /\ at[r] \in {"adult", "update", "reread"} => scheduled[r]

\* A handler that closes leaves every other one as it was.
LEMMA CloseLeavesAlone ==
  ASSUME TypeOK, RunsAlone, NEW r \in Requests, NEW said, Close(r, said),
         Serialized => writer \in {r, NoRequest}
  PROVE  RunsAlone'
<1> SUFFICES ASSUME NEW o \in Requests
             PROVE  /\ Serialized /\ at'[o] \notin {"idle", "begin"} =>
                         writer' = o /\ scheduled'[o] = occurrence'.scheduled
                    /\ at'[o] \in {"adult", "update", "reread"} => scheduled'[o]
  BY DEF RunsAlone
<1>1. CASE o = r
  BY <1>1 DEF Close, GoTo, TypeOK
<1>2. CASE o # r
  <2>1. at'[o] = at[o] /\ scheduled'[o] = scheduled[o]
    BY <1>2 DEF Close, GoTo, TypeOK
  <2>2. ~(Serialized /\ at[o] \notin {"idle", "begin"})
    BY <1>2, ConstantsOK DEF RunsAlone
  <2>3. QED
    BY <2>1, <2>2 DEF RunsAlone
<1>3. QED
  BY <1>1, <1>2

\* A handler past its first statement goes on to its next one.
LEMMA GoOnLeavesAlone ==
  ASSUME TypeOK, RunsAlone, NEW r \in Requests, NEW place, GoTo(r, place),
         at[r] \notin {"idle", "begin"}, UNCHANGED <<scheduled, writer, occurrence>>,
         place \in {"adult", "update", "reread"} => scheduled[r]
  PROVE  RunsAlone'
BY DEF GoTo, TypeOK, RunsAlone

LEMMA RunsAloneStep == IInv /\ RunsAlone /\ [Next]_vars => RunsAlone'
<1> SUFFICES ASSUME TypeOK, RunsAlone, [Next]_vars PROVE RunsAlone'
  BY DEF IInv
<1> USE DEF others, locals, handlers
<1>1. ASSUME NEW r \in Requests, Submit(r) PROVE RunsAlone'
  BY <1>1 DEF Submit, GoTo, TypeOK, RunsAlone
<1>2. ASSUME NEW r \in Requests, Refuse(r) PROVE RunsAlone'
  BY <1>2, CloseLeavesAlone DEF Refuse
<1>3. ASSUME NEW r \in Requests, Begin(r) PROVE RunsAlone'
  <2>1. \A o \in Requests : ~(Serialized /\ at[o] \notin {"idle", "begin"})
    BY <1>3, ConstantsOK DEF Begin, RunsAlone
  <2>2. QED
    BY <1>3, <2>1 DEF Begin, GoTo, TypeOK, RunsAlone
<1>4. ASSUME NEW r \in Requests, Insert(r) PROVE RunsAlone'
  <2>1. (\E said : Close(r, said)) /\ (Serialized => writer = r)
    BY <1>4 DEF Insert, RunsAlone
  <2>2. QED
    BY <2>1, CloseLeavesAlone
<1>5. ASSUME NEW r \in Requests, ReadSlot(r) PROVE RunsAlone'
  <2> DEFINE held == row[ask[r].slot].assignee
  <2>0. at[r] = "slot" /\ (Serialized => writer = r)
    BY <1>5 DEF ReadSlot, RunsAlone
  <2>1. CASE Verdict(r, held) # "go"
    BY <1>5, <2>0, <2>1, CloseLeavesAlone DEF ReadSlot
  <2>2. CASE Verdict(r, held) = "go"
    <3>1. scheduled[r]
      BY <2>2 DEF Verdict, AcceptsNewAssignment
    <3>2. (\E place : GoTo(r, place)) /\ UNCHANGED <<scheduled, writer, occurrence>>
      BY <1>5, <2>2 DEF ReadSlot
    <3>3. QED
      BY <2>0, <3>1, <3>2, GoOnLeavesAlone
  <2>3. QED
    BY <2>1, <2>2
<1>6. ASSUME NEW r \in Requests, CheckAdult(r) PROVE RunsAlone'
  <2>0. at[r] = "adult" /\ (Serialized => writer = r) /\ scheduled[r]
    BY <1>6 DEF CheckAdult, RunsAlone
  <2>1. QED
    BY <1>6, <2>0, CloseLeavesAlone, GoOnLeavesAlone DEF CheckAdult
<1>7. ASSUME NEW r \in Requests, Update(r) PROVE RunsAlone'
  <2>1. at[r] = "update" /\ scheduled[r]
    BY <1>7 DEF Update, RunsAlone
  <2>2. QED
    BY <1>7, <2>1, GoOnLeavesAlone DEF Update
<1>8. ASSUME NEW r \in Requests, Commit(r) PROVE RunsAlone'
  <2>1. Close(r, Outcome(r)) /\ (Serialized => writer = r)
    BY <1>8 DEF Commit, RunsAlone
  <2>2. QED
    BY <2>1, CloseLeavesAlone
<1>9. CASE ChangeStatus
  <2>1. \A o \in Requests : ~(Serialized /\ at[o] \notin {"idle", "begin"})
    BY <1>9, ConstantsOK DEF ChangeStatus, RunsAlone
  <2>2. QED
    BY <1>9, <2>1 DEF ChangeStatus, RunsAlone
<1>10. CASE Start
  <2>1. occurrence'.scheduled = occurrence.scheduled
    BY <1>10 DEF Start, TypeOK, Occurrence
  <2>2. QED
    BY <1>10, <2>1 DEF Start, RunsAlone
<1>11. CASE ChangeAccess \/ UNCHANGED vars
  BY <1>11 DEF ChangeAccess, vars, RunsAlone
<1>12. QED
  BY <1>1, <1>2, <1>3, <1>4, <1>5, <1>6, <1>7, <1>8, <1>9, <1>10, <1>11
     DEF Next, Handle

\* On SQLite no assignment is written while its occurrence is cancelled: no
\* cancellation commits between the status a handler read and its own commit.
THEOREM CancelledHistoryStands ==
  ASSUME Serialized
  PROVE  Spec => CancelledHistoryIsKept
<1>1. Init => RunsAlone
  BY DEF Init, RunsAlone
<1>2. IInv /\ RunsAlone /\ [Next]_vars => [row' # row => occurrence.scheduled]_vars
  <2> SUFFICES ASSUME IInv, RunsAlone, [Next]_vars, row' # row
               PROVE  occurrence.scheduled
    OBVIOUS
  <2>1. PICK r \in Requests : Commit(r)
    BY OnlyCommitWrites DEF IInv
  <2>2. at[r] = "reread"
    BY <2>1 DEF Commit
  <2>3. QED
    BY <2>2 DEF RunsAlone
<1>3. QED
  BY <1>1, <1>2, RunsAloneStep, Invariance, PTL DEF Spec, CancelledHistoryIsKept

----------------------------------------------------------------------------
(* DutySlots implements DutyBoard *)

holderNow == [s \in Slots |-> row[s].assignee]
phaseNow  == [r \in Requests |-> IF at[r] = "idle" THEN "idle" ELSE "waiting"]

LEMMA InitImplements == Init => Board!Init
<1> SUFFICES ASSUME Init PROVE Board!Init
  OBVIOUS
<1>1. holderNow = [s \in Slots |-> Nobody]
  BY DEF Init, holderNow, FreeRow
<1>2. phaseNow = [r \in Requests |-> "idle"]
  BY DEF Init, phaseNow
<1>3. ask \in [Requests -> Board!Ask] /\ answer = [r \in Requests |-> "none"]
  BY DEF Init, Ask, Ops, Board!Ask
<1>4. QED
  BY <1>1, <1>2, <1>3 DEF Board!Init, holderNow, phaseNow

\* A handler that closes is answered on the board.
LEMMA CloseResponds ==
  ASSUME TypeOK, NEW r \in Requests, at[r] # "idle", NEW said, Close(r, said)
  PROVE  Board!Respond(r, said)
<1>1. phaseNow[r] = "waiting"
  BY DEF phaseNow
<1>2. phaseNow' = [phaseNow EXCEPT ![r] = "idle"]
  BY DEF phaseNow, Close, GoTo, TypeOK
<1>3. QED
  BY <1>1, <1>2 DEF Close, Board!Respond, phaseNow

LEMMA CloseRefuses ==
  ASSUME TypeOK, NEW r \in Requests, at[r] # "idle", NEW said \in Refusals,
         Close(r, said), UNCHANGED row
  PROVE  Board!Refuse(r)
BY CloseResponds DEF Board!Refuse, Board!Refusals, Refusals

LEMMA CloseConfirms ==
  ASSUME TypeOK, NEW r \in Requests, at[r] # "idle", ask[r].op # "create",
         row[ask[r].slot].assignee = Goal(ask[r]),
         Close(r, "ok"), UNCHANGED row
  PROVE  Board!Confirm(r)
<1>1. Board!Goal(ask[r]) = Goal(ask[r])
  BY DEF Board!Goal, Goal
<1>2. holderNow[ask[r].slot] = Goal(ask[r])
  BY DEF holderNow, TypeOK, Ask
<1>3. QED
  BY <1>1, <1>2, CloseResponds DEF Board!Confirm, holderNow

\* A handler that moves without closing is still waiting.
LEMMA MovingStutters ==
  ASSUME TypeOK, NEW r \in Requests, NEW place, place # "idle", at[r] # "idle",
         GoTo(r, place), UNCHANGED <<row, ask, answer>>
  PROVE  UNCHANGED Board!vars
<1>1. phaseNow' = phaseNow
  BY DEF GoTo, phaseNow, TypeOK
<1>2. QED
  BY <1>1 DEF Board!vars, phaseNow

LEMMA CommitImplements ==
  ASSUME IInv, NEW r \in Requests, Commit(r)
  PROVE  Board!Grant(r) \/ Board!Confirm(r) \/ Board!Refuse(r)
<1> USE DEF IInv
<1>1. /\ TypeOK /\ at[r] = "reread" /\ ask[r] \in Ask /\ ask[r].op # "create"
      /\ Close(r, Outcome(r))
      /\ row' = [row EXCEPT ![ask[r].slot] = OwnView(r)]
  BY DEF Commit, TypeOK, ChecksStillHold
<1>2. CASE wrote[r]
  <2>1. Outcome(r) = "ok" /\ OwnView(r).assignee = Goal(ask[r])
    BY <1>2 DEF Outcome, OwnView, NewRow
  <2>2. holderNow' = [holderNow EXCEPT ![ask[r].slot] = Goal(ask[r])]
    BY <1>1, <2>1 DEF holderNow, TypeOK, Ask
  <2>3. row[ask[r].slot].assignee = Expected(r) /\ ask[r].slot \in Slots
    BY <1>1, <1>2 DEF WritesAreGuarded, Matches, Ask
  <2>4. row[ask[r].slot].assignee \in Board!Displaces(ask[r])
    BY <1>1, <2>3 DEF Board!Displaces, Expected, Ask, Ops, TypeOK, Row
  <2>5. holderNow[ask[r].slot] = row[ask[r].slot].assignee
    BY <2>3 DEF holderNow
  <2>6. Board!Goal(ask[r]) = Goal(ask[r])
    BY DEF Board!Goal, Goal
  <2>7. Board!Respond(r, "ok")
    BY <1>1, <2>1, CloseResponds
  <2>8. Board!Grant(r)
    BY <1>1, <2>2, <2>4, <2>5, <2>6, <2>7 DEF Board!Grant, holderNow
  <2>9. QED
    BY <2>8
<1>3. CASE ~wrote[r]
  <2>1. OwnView(r) = row[ask[r].slot] /\ UNCHANGED row
    BY <1>1, <1>3 DEF OwnView, TypeOK, Ask
  <2>2. CASE row[ask[r].slot].assignee = Goal(ask[r])
    BY <1>1, <2>1, <2>2, CloseConfirms DEF Outcome
  <2>3. CASE row[ask[r].slot].assignee # Goal(ask[r])
    <3>1. Outcome(r) \in Refusals
      BY <1>3, <2>1, <2>3 DEF Outcome, Refusals
    <3>2. QED
      BY <1>1, <2>1, <3>1, CloseRefuses
  <2>4. QED
    BY <2>2, <2>3
<1>4. QED
  BY <1>2, <1>3

LEMMA StepImplements == IInv /\ [Next]_vars => [Board!Next]_(Board!vars)
<1> SUFFICES ASSUME IInv, [Next]_vars PROVE Board!Next \/ UNCHANGED Board!vars
  OBVIOUS
<1> USE DEF IInv, tables, others, locals, handlers
<1>1. ASSUME NEW r \in Requests, Submit(r) PROVE Board!Submit(r)
  <2>1. phaseNow[r] = "idle" /\ phaseNow' = [phaseNow EXCEPT ![r] = "waiting"]
    BY <1>1 DEF Submit, GoTo, phaseNow, TypeOK
  <2>2. \E a \in Board!Ask : ask' = [ask EXCEPT ![r] = a]
    BY <1>1 DEF Submit, Ask, Ops, Board!Ask
  <2>3. QED
    BY <1>1, <2>1, <2>2 DEF Submit, Board!Submit, phaseNow
<1>2. ASSUME NEW r \in Requests, Refuse(r) PROVE Board!Refuse(r)
  BY <1>2, CloseRefuses DEF Refuse, Refusals
<1>3. ASSUME NEW r \in Requests, Begin(r) PROVE UNCHANGED Board!vars
  BY <1>3, MovingStutters DEF Begin
<1>4. ASSUME NEW r \in Requests, Insert(r)
      PROVE  Board!Create(r) \/ Board!Refuse(r)
  <2>1. CASE Close(r, "unavailable")
    BY <1>4, <2>1, CloseRefuses DEF Insert, Refusals
  <2>2. CASE Close(r, "ok")
    <3>1. at[r] = "insert" /\ UNCHANGED row
      BY <1>4 DEF Insert
    <3>2. ask[r].op = "create"
      BY <3>1 DEF ChecksStillHold
    <3>3. Board!Respond(r, "ok")
      BY <2>2, <3>1, CloseResponds
    <3>4. QED
      BY <3>1, <3>2, <3>3 DEF Board!Create
  <2>3. QED
    BY <1>4, <2>1, <2>2 DEF Insert
<1>5. ASSUME NEW r \in Requests, ReadSlot(r)
      PROVE  Board!Confirm(r) \/ Board!Refuse(r) \/ UNCHANGED Board!vars
  <2> DEFINE held == row[ask[r].slot].assignee
  <2>1. at[r] = "slot" /\ ask[r].op # "create" /\ UNCHANGED row
    BY <1>5 DEF ReadSlot, ChecksStillHold
  <2>2. CASE Verdict(r, held) = "go"
    <3>1. \E place \in {"adult", "update"} : GoTo(r, place)
      BY <1>5, <2>2 DEF ReadSlot
    <3>2. UNCHANGED <<row, ask, answer>>
      BY <1>5, <2>2 DEF ReadSlot
    <3>3. QED
      BY <2>1, <3>1, <3>2, MovingStutters
  <2>3. CASE Verdict(r, held) # "go"
    <3>1. Close(r, Verdict(r, held))
      BY <1>5, <2>3 DEF ReadSlot
    <3>2. CASE Verdict(r, held) = "ok"
      <4>1. held = Goal(ask[r])
        BY <3>2 DEF Verdict
      <4>2. QED
        BY <2>1, <3>1, <3>2, <4>1, CloseConfirms
    <3>3. CASE Verdict(r, held) # "ok"
      <4>1. Verdict(r, held) \in Refusals
        BY <2>3, <3>3 DEF Verdict, Refusals
      <4>2. QED
        BY <2>1, <3>1, <4>1, CloseRefuses
    <3>4. QED
      BY <3>2, <3>3
  <2>4. QED
    BY <2>2, <2>3
<1>6. ASSUME NEW r \in Requests, CheckAdult(r)
      PROVE  Board!Refuse(r) \/ UNCHANGED Board!vars
  <2>1. CASE Close(r, "no-adult")
    BY <1>6, <2>1, CloseRefuses DEF CheckAdult, Refusals
  <2>2. CASE ~Close(r, "no-adult")
    BY <1>6, <2>2, MovingStutters DEF CheckAdult
  <2>3. QED
    BY <2>1, <2>2
<1>7. ASSUME NEW r \in Requests, Update(r) PROVE UNCHANGED Board!vars
  BY <1>7, MovingStutters DEF Update
<1>8. ASSUME NEW r \in Requests, Commit(r)
      PROVE  Board!Grant(r) \/ Board!Confirm(r) \/ Board!Refuse(r)
  BY <1>8, CommitImplements
<1>9. CASE ChangeStatus \/ Start \/ ChangeAccess
  BY <1>9 DEF ChangeStatus, Start, ChangeAccess, Board!vars
<1>10. CASE UNCHANGED vars
  BY <1>10 DEF vars, Board!vars
<1>11. QED
  BY <1>1, <1>2, <1>3, <1>4, <1>5, <1>6, <1>7, <1>8, <1>9, <1>10
     DEF Next, Handle, Board!Next

\* Every behaviour of the routes and their transactions, interleaved in any
\* way either database allows, is a behaviour of the one-step board.
THEOREM Implementation == Spec => ImplementsBoard
<1>1. Spec => Board!Init
  BY InitImplements DEF Spec
<1>2. QED
  BY <1>1, StepImplements, Invariance, PTL DEF Spec, ImplementsBoard, Board!Spec
============================================================================
