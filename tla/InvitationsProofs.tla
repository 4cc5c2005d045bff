------------------------- MODULE InvitationsProofs -------------------------
(***************************************************************************)
(* Invitations, for any number of invitations, tokens, adults, guardian    *)
(* edges and requests, on SQLite and on PostgreSQL.                        *)
(***************************************************************************)
EXTENDS Invitations, TLAPS

----------------------------------------------------------------------------
(* Typing *)

AnyAsk == OwnerAsk \cup AcceptAsk \cup CoachAsk \cup {NoAsk}

LEMMA InitTypeOK == InvitationsInit => TypeOK
BY ConstantsOK, LifecycleConstantsOK
   DEF InvitationsInit, Init, TypeOK, RowsOK, Statuses, Roles, Places

\* What an operation asks for has the fields its handler reads.
LEMMA AskFields ==
  ASSUME NEW q \in AnyAsk
  PROVE  /\ q # NoAsk => q.actor \in Adults
         /\ q.op = "create" => q.offer \in Offer
         /\ q.op = "resend" => q.invite \in Invites /\ q.offer \in Offer
         /\ q.op = "revoke" => q.invite \in Invites
         /\ q.op = "accept" => q.token \in Tokens
         /\ q.op \in {"coach", "adult"} => q.who \in Adults
         /\ q \in OwnerAsk <=> q.op \in {"create", "resend", "revoke"}
         /\ q \in AcceptAsk <=> q.op = "accept"
         /\ q \in CoachAsk <=> q.op \in {"coach", "adult"}
         /\ q = NoAsk <=> q.op = "none"
BY OffersOK DEF AnyAsk, OwnerAsk, AcceptAsk, CoachAsk, NoAsk

LEMMA CloseTyped ==
  ASSUME TypeOK, NEW r \in Requests, NEW from, NEW said \in {"ok", "refused"},
         NEW role \in Roles, Close(r, from, said, role)
  PROVE  /\ at' \in [Requests -> Places]
         /\ writer' \in Requests \cup {NoRequest}
         /\ lock' \in Requests \cup {NoRequest}
         /\ ask' \in [Requests -> AnyAsk]
         /\ heldThen' \in [Requests -> Roles]
         /\ answer' \in [Requests -> {"none", "ok", "refused"}]
         /\ toldRole' \in [Requests -> Roles]
BY DEF TypeOK, Close, Places, Roles, AnyAsk

LEMMA StatementTyped ==
  ASSUME TypeOK, NEW r \in Requests, NEW from, NEW to \in Places,
         Statement(r, from, to)
  PROVE  /\ at' \in [Requests -> Places]
         /\ writer' \in Requests \cup {NoRequest}
BY DEF TypeOK, Statement

\* A refused request changes no row.
LEMMA RefuseTyped ==
  ASSUME TypeOK, NEW r \in Requests, NEW from, Refuse(r, from)
  PROVE  TypeOK'
<1>1. Close(r, from, "refused", "none") /\ UNCHANGED <<invitationRows, team>>
  BY DEF Refuse
<1>2. "none" \in Roles
  BY DEF Roles
<1>3. QED
  BY <1>1, <1>2, CloseTyped DEF TypeOK, RowsOK, invitationRows, team, AnyAsk

\* Storing a token keeps the rows' types.
LEMMA StoreTyped ==
  ASSUME TypeOK, NEW i \in Invites, NEW t, Store(i, t)
  PROVE  /\ token' \in [Invites -> Tokens \cup {NoToken}]
         /\ live' \in [Invites -> BOOLEAN]
         /\ issued' \subseteq Tokens
BY DEF TypeOK, RowsOK, Store

LEMMA ReboundTyped ==
  ASSUME NEW old \in Offer, NEW new \in Offer, new.replaces # NoEdge => old.child
  PROVE  Rebound(old, new) \in Offer
BY DEF Offer, Rebound

LEMMA NoneIsNoOffer == NoOffer \notin Offer
<1>1. ASSUME NoOffer \in Offer PROVE FALSE
  <2>1. NoOffer.role \in InvitedRoles
    BY <1>1 DEF Offer
  <2>2. NoOffer.role = "none"
    BY DEF NoOffer
  <2>3. QED
    BY <2>1, <2>2 DEF InvitedRoles
<1>2. QED
  BY <1>1

----------------------------------------------------------------------------
(* Steps *)

IInv == TypeOK /\ AsksFit /\ LockIsHeld /\ RowsAreFilled /\ ChecksStillHold

rows == <<invitationRows, team>>

\* The steps that write no row.
Reads(r) ==
  \/ Submit(r) \/ Lock(r) \/ CheckDecision(r) \/ Find(r) \/ CheckAcceptance(r)
  \/ Consume(r) \/ ReadMemberships(r) \/ ReadMember(r)

LEMMA ReadsKeepRows == ASSUME NEW r \in Requests, Reads(r) PROVE UNCHANGED rows
BY DEF Reads, rows, Submit, Lock, CheckDecision, Find, CheckAcceptance, Consume,
       ReadMemberships, ReadMember, Refuse

LEMMA NextSplits ==
  ASSUME [InvitationsNext]_vars
  PROVE  \/ \E r \in Requests :
               \/ Reads(r) \/ WriteCreate(r) \/ WriteResend(r) \/ WriteRevoke(r)
               \/ WriteAcceptance(r) \/ WriteMember(r)
         \/ Lapse
         \/ UNCHANGED vars
BY DEF InvitationsNext, Reads, Decide, AcceptToken, SetCoCoachRole

LEMMA CloseEffect ==
  ASSUME TypeOK, NEW r \in Requests, NEW from, NEW said, NEW role,
         Close(r, from, said, role)
  PROVE  /\ at[r] = from
         /\ at'[r] = "idle" /\ ask'[r] = NoAsk /\ answer'[r] = said /\ toldRole'[r] = role
         /\ lock' = IF lock = r THEN NoRequest ELSE lock
         /\ \A o \in Requests \ {r} :
              /\ at'[o] = at[o] /\ ask'[o] = ask[o]
              /\ heldThen'[o] = heldThen[o] /\ answer'[o] = answer[o]
BY DEF TypeOK, Close

LEMMA StatementEffect ==
  ASSUME TypeOK, NEW r \in Requests, NEW from, NEW to, Statement(r, from, to)
  PROVE  /\ at[r] = from /\ at'[r] = to
         /\ \A o \in Requests \ {r} : at'[o] = at[o]
BY DEF TypeOK, Statement

----------------------------------------------------------------------------
(* Typing of the steps *)

\* The steps that write no row, place by place.
LEMMA ReadsTyped == ASSUME TypeOK, AsksFit, NEW r \in Requests, Reads(r) PROVE TypeOK'
<1> USE DEF handlers, team, invitationRows
<1>1. CASE Submit(r)
  <2>1. PICK q \in OwnerAsk \cup AcceptAsk \cup CoachAsk :
          /\ ask' = [ask EXCEPT ![r] = q]
          /\ at' = [at EXCEPT ![r] = Begins(q)]
    BY <1>1 DEF Submit
  <2>2. Begins(q) \in Places
    BY DEF Begins, Places
  <2>3. /\ ask' \in [Requests -> AnyAsk]
        /\ at' \in [Requests -> Places]
    BY <2>1, <2>2 DEF TypeOK, AnyAsk
  <2>4. QED
    BY <1>1, <2>3 DEF Submit, TypeOK, RowsOK, AnyAsk, Roles
<1>2. CASE Lock(r)
  BY <1>2, StatementTyped DEF Lock, TypeOK, RowsOK, Places
<1>3. CASE CheckDecision(r)
  <2>1. CASE Refuse(r, "check")
    BY <2>1, RefuseTyped
  <2>2. CASE ~Refuse(r, "check")
    BY <1>3, <2>2, StatementTyped DEF CheckDecision, TypeOK, RowsOK, Places
  <2>3. QED
    BY <2>1, <2>2
<1>4. CASE Find(r)
  <2>1. CASE Refuse(r, "find")
    BY <2>1, RefuseTyped
  <2>2. CASE ~Refuse(r, "find")
    BY <1>4, <2>2, StatementTyped DEF Find, TypeOK, RowsOK, Places
  <2>3. QED
    BY <2>1, <2>2
<1>5. CASE CheckAcceptance(r)
  <2>1. CASE Refuse(r, "check")
    BY <2>1, RefuseTyped
  <2>2. CASE Close(r, "check", "ok", held[ask[r].actor])
    <3>1. held[ask[r].actor] \in Roles
      <4>1. ask[r] \in AnyAsk /\ ask[r].op = "accept"
        BY <1>5 DEF CheckAcceptance, TypeOK, AnyAsk
      <4>2. ask[r].actor \in Adults
        BY <4>1, AskFields
      <4>3. QED
        BY <4>2 DEF TypeOK
    <3>2. UNCHANGED rows
      BY <1>5, ReadsKeepRows DEF Reads
    <3>3. QED
      BY <2>2, <3>1, <3>2, CloseTyped DEF TypeOK, RowsOK, rows, AnyAsk
  <2>3. CASE /\ Statement(r, "check", "consume")
             /\ UNCHANGED <<invitationRows, team, handlers, lock>>
    BY <2>3, StatementTyped DEF TypeOK, RowsOK, Places
  <2>4. QED
    BY <1>5, <2>1, <2>2, <2>3 DEF CheckAcceptance
<1>6. CASE Consume(r)
  <2>1. CASE Refuse(r, "consume")
    BY <2>1, RefuseTyped
  <2>2. CASE ~Refuse(r, "consume")
    BY <1>6, <2>2, StatementTyped DEF Consume, TypeOK, RowsOK, Places
  <2>3. QED
    BY <2>1, <2>2
<1>7. CASE ReadMemberships(r)
  <2>1. heldThen' \in [Requests -> Roles]
    <3>1. at[r] = "members"
      BY <1>7 DEF ReadMemberships, Statement
    <3>2. ask[r] \in AcceptAsk
      BY <3>1 DEF AsksFit
    <3>3. ask[r].actor \in Adults
      BY <3>2 DEF AcceptAsk
    <3>4. QED
      BY <1>7, <3>3 DEF ReadMemberships, TypeOK
  <2>2. QED
    BY <1>7, <2>1, StatementTyped DEF ReadMemberships, TypeOK, RowsOK, Places
<1>8. CASE ReadMember(r)
  <2>1. CASE Refuse(r, "member")
    BY <2>1, RefuseTyped
  <2>2. CASE ~Refuse(r, "member")
    BY <1>8, <2>2, StatementTyped DEF ReadMember, TypeOK, RowsOK, Places
  <2>3. QED
    BY <2>1, <2>2
<1>9. QED
  BY <1>1, <1>2, <1>3, <1>4, <1>5, <1>6, <1>7, <1>8 DEF Reads

\* What an acceptance that is about to write knows of its invitation.
LEMMA AcceptanceKnows ==
  ASSUME IInv, NEW r \in Requests, at[r] = "write", ask[r].op = "accept",
         NEW i \in Presented(r)
  PROVE  /\ i \in Invites /\ ask[r] \in AcceptAsk /\ ask[r].actor \in Adults
         /\ lock = r
         /\ status[i] = "pending" /\ offer[i] \in Offer /\ offer[i].to = ask[r].actor
         /\ offer[i].replaces # NoEdge => guardian[offer[i].replaces] = Placeholder
         /\ offer[i].role \in {"adult", "owner"}
         /\ heldThen[r] \in Roles /\ held[ask[r].actor] \in Roles
         /\ heldThen[r] = "none" <=> held[ask[r].actor] = "none"
         /\ heldThen[r] = "owner" <=> held[ask[r].actor] = "owner"
<1>1. i \in Invites
  BY DEF Presented
<1>2. ask[r] \in AnyAsk
  BY DEF IInv, TypeOK, AnyAsk
<1>3. ask[r] \in AcceptAsk /\ ask[r].actor \in Adults
  BY <1>2, AskFields DEF NoAsk
<1>4. lock = r
  BY <1>3 DEF IInv, LockIsHeld, Deciding
<1>5. /\ status[i] = "pending" /\ offer[i].to = ask[r].actor
      /\ offer[i].replaces # NoEdge => guardian[offer[i].replaces] = Placeholder
      /\ heldThen[r] = "none" <=> held[ask[r].actor] = "none"
      /\ heldThen[r] = "owner" <=> held[ask[r].actor] = "owner"
  BY DEF IInv, ChecksStillHold, ReplacementIsEligible
<1>6. offer[i] \in Offer
  BY <1>1, <1>5 DEF IInv, RowsAreFilled
<1>7. offer[i].role \in {"adult", "owner"}
  BY <1>6 DEF Offer, InvitedRoles
<1>8. heldThen[r] \in Roles /\ held[ask[r].actor] \in Roles
  BY <1>3 DEF IInv, TypeOK
<1>9. QED
  BY <1>1, <1>3, <1>4, <1>5, <1>6, <1>7, <1>8

\* A decision that is about to write, likewise.
LEMMA DecisionKnows ==
  ASSUME IInv, NEW r \in Requests, at[r] = "write",
         ask[r].op \in {"create", "resend", "revoke"}
  PROVE  /\ lock = r
         /\ ask[r] \in OwnerAsk
         /\ ask[r].op \in {"create", "resend"} => ask[r].offer \in Offer
         /\ ask[r].op \in {"resend", "revoke"} => ask[r].invite \in Invites
         /\ ask[r].op = "create" =>
              \A i \in Invites : Live(i) => offer[i].label # ask[r].offer.label
         /\ ask[r].op = "resend" =>
              /\ status[ask[r].invite] = "pending"
              /\ offer[ask[r].invite] \in Offer
              /\ Rebound(offer[ask[r].invite], ask[r].offer) \in Offer
         /\ ask[r].op = "revoke" => status[ask[r].invite] \in {"pending", "revoked"}
<1>1. ask[r] \in AnyAsk
  BY DEF IInv, TypeOK, AnyAsk
<1>2. /\ ask[r] \in OwnerAsk
      /\ ask[r].op \in {"create", "resend"} => ask[r].offer \in Offer
      /\ ask[r].op \in {"resend", "revoke"} => ask[r].invite \in Invites
  BY <1>1, AskFields
<1>3. lock = r
  BY <1>2 DEF IInv, LockIsHeld, Deciding
<1>4. /\ ask[r].op = "create" =>
           \A i \in Invites : Live(i) => offer[i].label # ask[r].offer.label
      /\ ask[r].op = "resend" =>
           /\ status[ask[r].invite] = "pending"
           /\ ask[r].offer.replaces # NoEdge => offer[ask[r].invite].child
      /\ ask[r].op = "revoke" => status[ask[r].invite] \in {"pending", "revoked"}
  BY DEF IInv, ChecksStillHold
<1>5. ASSUME ask[r].op = "resend"
      PROVE  /\ offer[ask[r].invite] \in Offer
             /\ Rebound(offer[ask[r].invite], ask[r].offer) \in Offer
  <2>1. offer[ask[r].invite] \in Offer
    BY <1>2, <1>4, <1>5 DEF IInv, RowsAreFilled
  <2>2. QED
    BY <1>2, <1>4, <1>5, <2>1, ReboundTyped
<1>6. QED
  BY <1>2, <1>3, <1>4, <1>5

\* The role an acceptance reports is the invited one or the one it read.
LEMMA GrantedRoleTyped ==
  ASSUME IInv, NEW r \in Requests, at[r] = "write", ask[r].op = "accept",
         NEW i \in Presented(r)
  PROVE  GrantedRole(r, i) \in Roles
BY AcceptanceKnows DEF GrantedRole, Roles

LEMMA WriteTyped ==
  ASSUME IInv, NEW r \in Requests,
         \/ WriteCreate(r) \/ WriteResend(r) \/ WriteRevoke(r)
         \/ WriteAcceptance(r) \/ WriteMember(r)
  PROVE  TypeOK'
<1> USE DEF team, invitationRows
<1>0. TypeOK /\ "none" \in Roles
  BY DEF IInv, Roles
<1>1. CASE WriteCreate(r)
  <2>1. PICK i \in Invites, t \in Tokens :
          Open(i, t) /\ offer' = [offer EXCEPT ![i] = ask[r].offer]
    BY <1>1 DEF WriteCreate
  <2>2. ask[r].offer \in Offer
    BY <1>1, DecisionKnows DEF WriteCreate
  <2>3. offer' \in [Invites -> Offer \cup {NoOffer}]
    BY <1>0, <2>1, <2>2 DEF TypeOK
  <2>4. RowsOK'
    BY <1>0, <2>1, StoreTyped DEF TypeOK, RowsOK, Open, Statuses
  <2>5. QED
    BY <1>0, <1>1, <2>3, <2>4, CloseTyped DEF WriteCreate, TypeOK, AnyAsk
<1>2. CASE WriteResend(r)
  <2>1. PICK t \in Tokens : Store(ask[r].invite, t)
    BY <1>2 DEF WriteResend
  <2>2. /\ ask[r].invite \in Invites
        /\ Rebound(offer[ask[r].invite], ask[r].offer) \in Offer
    BY <1>2, DecisionKnows DEF WriteResend
  <2>3. offer' \in [Invites -> Offer \cup {NoOffer}]
    BY <1>0, <1>2, <2>2 DEF WriteResend, TypeOK
  <2>4. RowsOK'
    BY <1>0, <1>2, <2>1, <2>2, StoreTyped DEF WriteResend, TypeOK, RowsOK
  <2>5. QED
    BY <1>0, <1>2, <2>3, <2>4, CloseTyped DEF WriteResend, TypeOK, AnyAsk
<1>3. CASE WriteRevoke(r)
  <2>1. RowsOK'
    BY <1>0, <1>3 DEF WriteRevoke, TypeOK, RowsOK, Statuses
  <2>2. QED
    BY <1>0, <1>3, <2>1, CloseTyped DEF WriteRevoke, TypeOK, AnyAsk
<1>4. CASE WriteAcceptance(r)
  <2>1. at[r] = "write" /\ ask[r].op = "accept"
    BY <1>4 DEF WriteAcceptance
  <2>2. PICK i \in Presented(r) :
          /\ status' = [status EXCEPT ![i] = "accepted"]
          /\ acceptedBy' = [acceptedBy EXCEPT ![i] = ask[r].actor]
          /\ WriteMembership(r, i)
          /\ BindGuardian(ask[r].actor, offer[i])
          /\ Close(r, "write", "ok", GrantedRole(r, i))
    BY <1>4 DEF WriteAcceptance
  <2>3. /\ i \in Invites /\ ask[r].actor \in Adults /\ offer[i] \in Offer
        /\ offer[i].role \in {"adult", "owner"}
    BY <2>1, AcceptanceKnows
  <2>4. RowsOK'
    BY <1>0, <1>4, <2>2, <2>3 DEF WriteAcceptance, TypeOK, RowsOK, Statuses
  <2>5. held' \in [Adults -> Roles]
    BY <1>0, <2>2, <2>3 DEF WriteMembership, TypeOK, Roles
  <2>6. /\ guardian' \in [Edges -> Adults \cup {Placeholder, Nobody}]
        /\ inserted' \in [Adults -> Nat]
    <3>1. offer[i].replaces \in Edges \cup {NoEdge}
      BY <2>3 DEF Offer
    <3>2. guardian' \in [Edges -> Adults \cup {Placeholder, Nobody}]
      BY <1>0, <2>2, <2>3, <3>1 DEF BindGuardian, TypeOK
    <3>3. inserted' \in [Adults -> Nat]
      <4>1. inserted \in [Adults -> Nat]
        BY <1>0 DEF TypeOK
      <4>2. inserted[ask[r].actor] + 1 \in Nat
        BY <2>3, <4>1
      <4>3. \/ inserted' = inserted
            \/ inserted' = [inserted EXCEPT ![ask[r].actor] = inserted[ask[r].actor] + 1]
        BY <2>2 DEF BindGuardian
      <4>4. QED
        BY <4>1, <4>2, <4>3
    <3>4. QED
      BY <3>2, <3>3
  <2>7. QED
    BY <1>0, <1>4, <2>1, <2>2, <2>4, <2>5, <2>6, GrantedRoleTyped, CloseTyped
       DEF WriteAcceptance, TypeOK, AnyAsk
<1>5. CASE WriteMember(r)
  <2>1. /\ held' = [held EXCEPT ![ask[r].who] = NewRole(@, ask[r].op)]
        /\ ask[r].op \in {"coach", "adult"}
        /\ Close(r, "write", "ok", ask[r].op)
        /\ UNCHANGED <<invitationRows, offer, guardian, inserted>>
    BY <1>5 DEF WriteMember
  <2>2. held' \in [Adults -> Roles]
    BY <1>0, <2>1 DEF NewRole, TypeOK, Roles
  <2>3. ask[r].op \in Roles
    BY <2>1 DEF Roles
  <2>4. QED
    BY <1>0, <2>1, <2>2, <2>3, CloseTyped DEF TypeOK, RowsOK, AnyAsk
<1>6. QED
  BY <1>1, <1>2, <1>3, <1>4, <1>5

LEMMA TypeStep == IInv /\ [InvitationsNext]_vars => TypeOK'
<1> SUFFICES ASSUME IInv, [InvitationsNext]_vars PROVE TypeOK'
  OBVIOUS
<1>1. CASE Lapse
  BY <1>1 DEF Lapse, Expire, IInv, TypeOK, RowsOK, team, handlers
<1>2. CASE UNCHANGED vars
  BY <1>2 DEF vars, IInv, TypeOK, RowsOK
<1>3. QED
  BY <1>1, <1>2, NextSplits, ReadsTyped, WriteTyped DEF IInv

----------------------------------------------------------------------------
(* The lock *)

Writes(r) ==
  \/ WriteCreate(r) \/ WriteResend(r) \/ WriteRevoke(r)
  \/ WriteAcceptance(r) \/ WriteMember(r)

\* What a step of r leaves to the other requests.
Local(r) ==
  \A o \in Requests \ {r} :
    /\ at'[o] = at[o] /\ ask'[o] = ask[o]
    /\ heldThen'[o] = heldThen[o] /\ answer'[o] = answer[o]
    /\ lock = o => lock' = o

LEMMA CloseIsLocal ==
  ASSUME TypeOK, NEW r \in Requests, NEW from, NEW said, NEW role,
         Close(r, from, said, role)
  PROVE  Local(r)
BY CloseEffect DEF Local

LEMMA StatementIsLocal ==
  ASSUME TypeOK, NEW r \in Requests, NEW from, NEW to, Statement(r, from, to),
         UNCHANGED <<handlers, lock>>
  PROVE  Local(r)
BY StatementEffect DEF Local, handlers

\* A write ends its request.
LEMMA WritesClose ==
  ASSUME TypeOK, NEW r \in Requests, Writes(r)
  PROVE  /\ Local(r)
         /\ at[r] = "write"
         /\ at'[r] = "idle" /\ ask'[r] = NoAsk
<1>1. PICK role : Close(r, "write", "ok", role)
  BY DEF Writes, WriteCreate, WriteResend, WriteRevoke, WriteAcceptance, WriteMember
<1>2. QED
  BY <1>1, CloseEffect, CloseIsLocal

\* What a request that takes a step without writing is ready for after it.
Fits(r) ==
  /\ at'[r] \in {"lock", "check"} => ask'[r] \in OwnerAsk \cup AcceptAsk
  /\ at'[r] \in {"find", "consume", "members"} => ask'[r] \in AcceptAsk
  /\ at'[r] = "member" => ask'[r] \in CoachAsk
  /\ at'[r] = "write" => ask'[r] # NoAsk
  /\ at'[r] # "idle" => answer'[r] = "none"
  /\ Deciding(r)' => lock' = r

LEMMA ClosedFits ==
  ASSUME TypeOK, NEW r \in Requests, NEW from, NEW said, NEW role,
         Close(r, from, said, role)
  PROVE  Local(r) /\ Fits(r)
BY CloseEffect, CloseIsLocal DEF Fits, Deciding

LEMMA RefuseFits ==
  ASSUME TypeOK, NEW r \in Requests, NEW from, Refuse(r, from)
  PROVE  Local(r) /\ Fits(r)
BY ClosedFits DEF Refuse

LEMMA ReadsFit ==
  ASSUME IInv, NEW r \in Requests, Reads(r)
  PROVE  Local(r) /\ Fits(r)
<1>0. /\ TypeOK /\ AsksFit /\ LockIsHeld
      /\ ask[r] \in AnyAsk
  BY DEF IInv, TypeOK, AnyAsk
<1>1. CASE Submit(r)
  <2>1. PICK q \in OwnerAsk \cup AcceptAsk \cup CoachAsk :
          /\ ask' = [ask EXCEPT ![r] = q]
          /\ at' = [at EXCEPT ![r] = Begins(q)]
    BY <1>1 DEF Submit
  <2>2. /\ ask'[r] = q /\ at'[r] = Begins(q) /\ answer'[r] = "none"
        /\ Local(r)
    BY <1>0, <1>1, <2>1 DEF Submit, Local, TypeOK
  <2>3. /\ q \in OwnerAsk => Begins(q) = "lock"
        /\ q \in AcceptAsk => Begins(q) = "find"
        /\ q \in CoachAsk => Begins(q) = "member"
    BY DEF Begins, OwnerAsk, AcceptAsk, CoachAsk
  <2>4. QED
    BY <2>1, <2>2, <2>3 DEF Fits, Deciding
<1>2. CASE Lock(r)
  <2>1. at[r] = "lock" /\ at'[r] = "check"
    BY <1>0, <1>2, StatementEffect DEF Lock
  <2>2. ask'[r] = ask[r] /\ answer'[r] = answer[r] /\ lock' = r
    BY <1>2 DEF Lock, handlers
  <2>3. Local(r)
    BY <1>0, <1>2, StatementEffect, ConstantsOK DEF Lock, Local, handlers
  <2>4. QED
    BY <1>0, <2>1, <2>2, <2>3 DEF Fits, Deciding, AsksFit
<1>3. CASE CheckDecision(r)
  <2>1. CASE Refuse(r, "check")
    BY <1>0, <2>1, RefuseFits
  <2>2. CASE Statement(r, "check", "write") /\ UNCHANGED <<handlers, lock>>
    <3>1. at[r] = "check" /\ at'[r] = "write" /\ Local(r)
      BY <1>0, <2>2, StatementEffect, StatementIsLocal
    <3>2. ask'[r] = ask[r] /\ answer'[r] = answer[r] /\ lock' = lock
      BY <2>2 DEF handlers
    <3>3. ask[r] # NoAsk
      BY <1>3 DEF CheckDecision, NoAsk
    <3>4. QED
      BY <1>0, <3>1, <3>2, <3>3 DEF Fits, Deciding, AsksFit, LockIsHeld
  <2>3. QED
    BY <1>3, <2>1, <2>2 DEF CheckDecision
<1>4. CASE Find(r)
  <2>1. CASE Refuse(r, "find")
    BY <1>0, <2>1, RefuseFits
  <2>2. CASE Statement(r, "find", "lock") /\ UNCHANGED <<handlers, lock>>
    <3>1. at[r] = "find" /\ at'[r] = "lock" /\ Local(r)
      BY <1>0, <2>2, StatementEffect, StatementIsLocal
    <3>2. ask'[r] = ask[r] /\ answer'[r] = answer[r]
      BY <2>2 DEF handlers
    <3>3. QED
      BY <1>0, <3>1, <3>2 DEF Fits, Deciding, AsksFit
  <2>3. QED
    BY <1>4, <2>1, <2>2 DEF Find
<1>5. CASE CheckAcceptance(r)
  <2>1. CASE Refuse(r, "check")
    BY <1>0, <2>1, RefuseFits
  <2>2. CASE Close(r, "check", "ok", held[ask[r].actor])
    BY <1>0, <2>2, ClosedFits
  <2>3. CASE Statement(r, "check", "consume") /\ UNCHANGED <<handlers, lock>>
    <3>1. at[r] = "check" /\ at'[r] = "consume" /\ Local(r)
      BY <1>0, <2>3, StatementEffect, StatementIsLocal
    <3>2. ask'[r] = ask[r] /\ answer'[r] = answer[r] /\ lock' = lock
      BY <2>3 DEF handlers
    <3>3. ask[r] \in AcceptAsk
      BY <1>0, <1>5, AskFields DEF CheckAcceptance
    <3>4. QED
      BY <1>0, <3>1, <3>2, <3>3 DEF Fits, Deciding, AsksFit, LockIsHeld
  <2>4. QED
    BY <1>5, <2>1, <2>2, <2>3 DEF CheckAcceptance
<1>6. CASE Consume(r)
  <2>1. CASE Refuse(r, "consume")
    BY <1>0, <2>1, RefuseFits
  <2>2. CASE Statement(r, "consume", "members") /\ UNCHANGED <<handlers, lock>>
    <3>1. at[r] = "consume" /\ at'[r] = "members" /\ Local(r)
      BY <1>0, <2>2, StatementEffect, StatementIsLocal
    <3>2. ask'[r] = ask[r] /\ answer'[r] = answer[r] /\ lock' = lock
      BY <2>2 DEF handlers
    <3>3. QED
      BY <1>0, <3>1, <3>2 DEF Fits, Deciding, AsksFit, LockIsHeld
  <2>3. QED
    BY <1>6, <2>1, <2>2 DEF Consume
<1>7. CASE ReadMemberships(r)
  <2>1. at[r] = "members" /\ at'[r] = "write"
    BY <1>0, <1>7, StatementEffect DEF ReadMemberships
  <2>2. ask'[r] = ask[r] /\ answer'[r] = answer[r] /\ lock' = lock
    BY <1>7 DEF ReadMemberships
  <2>3. Local(r)
    BY <1>0, <1>7, StatementEffect DEF ReadMemberships, Local, TypeOK
  <2>4. ask[r] \in AcceptAsk
    BY <1>0, <2>1 DEF AsksFit
  <2>5. ask[r] # NoAsk
    BY <2>4 DEF AcceptAsk, NoAsk
  <2>6. QED
    BY <1>0, <2>1, <2>2, <2>3, <2>5 DEF Fits, Deciding, AsksFit, LockIsHeld
<1>8. CASE ReadMember(r)
  <2>1. CASE Refuse(r, "member")
    BY <1>0, <2>1, RefuseFits
  <2>2. CASE Statement(r, "member", "write") /\ UNCHANGED <<handlers, lock>>
    <3>1. at[r] = "member" /\ at'[r] = "write" /\ Local(r)
      BY <1>0, <2>2, StatementEffect, StatementIsLocal
    <3>2. ask'[r] = ask[r] /\ answer'[r] = answer[r]
      BY <2>2 DEF handlers
    <3>3. ask[r] \in CoachAsk
      BY <1>0, <3>1 DEF AsksFit
    <3>4. ask[r] # NoAsk /\ ask[r] \notin OwnerAsk \cup AcceptAsk
      BY <3>3 DEF CoachAsk, OwnerAsk, AcceptAsk, NoAsk
    <3>5. QED
      BY <1>0, <3>1, <3>2, <3>4 DEF Fits, Deciding, AsksFit
  <2>3. QED
    BY <1>8, <2>1, <2>2 DEF ReadMember
<1>9. QED
  BY <1>1, <1>2, <1>3, <1>4, <1>5, <1>6, <1>7, <1>8 DEF Reads

LEMMA WritesFit ==
  ASSUME TypeOK, NEW r \in Requests, Writes(r)
  PROVE  Local(r) /\ Fits(r)
BY WritesClose DEF Fits, Deciding

\* What fits its request, and leaves the others alone, keeps the lock's rules.
LEMMA FitStep ==
  ASSUME IInv, NEW r \in Requests, Local(r), Fits(r)
  PROVE  AsksFit' /\ LockIsHeld'
<1>1. AsksFit'
  BY DEF IInv, AsksFit, Local, Fits
<1>2. ASSUME NEW o \in Requests \ {r}, Deciding(o)'
      PROVE  lock' = o
  <2>1. at'[o] = at[o] /\ ask'[o] = ask[o]
    BY DEF Local
  <2>2. Deciding(o)
    BY <1>2, <2>1 DEF Deciding
  <2>3. QED
    BY <2>2 DEF Local, IInv, LockIsHeld
<1>3. LockIsHeld'
  BY <1>2 DEF LockIsHeld, Fits
<1>4. QED
  BY <1>1, <1>3

LEMMA LockStep == IInv /\ [InvitationsNext]_vars => AsksFit' /\ LockIsHeld'
<1> SUFFICES ASSUME IInv, [InvitationsNext]_vars PROVE AsksFit' /\ LockIsHeld'
  OBVIOUS
<1>1. CASE Lapse
  BY <1>1 DEF Lapse, handlers, IInv, AsksFit, LockIsHeld, Deciding
<1>2. CASE UNCHANGED vars
  BY <1>2 DEF vars, IInv, AsksFit, LockIsHeld, Deciding
<1>3. ASSUME NEW r \in Requests, Reads(r) \/ Writes(r)
      PROVE  AsksFit' /\ LockIsHeld'
  BY <1>3, ReadsFit, WritesFit, FitStep DEF IInv
<1>4. QED
  BY <1>1, <1>2, <1>3, NextSplits DEF Writes

----------------------------------------------------------------------------
(* The rows *)

\* A row whose token is fresh, or is left as it was, keeps every token apart.
LEMMA StoreKeepsTokensApart ==
  ASSUME TypeOK, RowsAreFilled, NEW i \in Invites, NEW t \in Tokens, Store(i, t)
  PROVE  /\ token'[i] = t /\ t \in issued' /\ issued \subseteq issued'
         /\ \A j \in Invites \ {i} : token'[j] = token[j] /\ token[j] # t
         /\ \A j, k \in Invites : token'[j] = token'[k] /\ token'[j] # NoToken => j = k
<1>1. /\ token'[i] = t /\ t \in issued' /\ issued \subseteq issued'
      /\ \A j \in Invites \ {i} : token'[j] = token[j]
  BY DEF Store, TypeOK, RowsOK
<1>2. t \notin issued /\ t # NoToken
  BY LifecycleConstantsOK DEF Store
<1>3. \A j \in Invites : token[j] # t
  BY <1>2 DEF RowsAreFilled, TypeOK, RowsOK, Statuses
<1>4. QED
  BY <1>1, <1>3 DEF RowsAreFilled

LEMMA RowsStep == IInv /\ [InvitationsNext]_vars => RowsAreFilled'
<1> SUFFICES ASSUME IInv, [InvitationsNext]_vars PROVE RowsAreFilled'
  OBVIOUS
<1>0. TypeOK /\ RowsAreFilled
  BY DEF IInv
<1>1. ASSUME UNCHANGED <<status, token, acceptedBy, issued, offer>> PROVE RowsAreFilled'
  BY <1>0, <1>1 DEF RowsAreFilled
<1>2. CASE Lapse
  BY <1>1, <1>2 DEF Lapse, Expire, team
<1>3. CASE UNCHANGED vars
  BY <1>1, <1>3 DEF vars
<1>4. ASSUME NEW r \in Requests, Reads(r) PROVE RowsAreFilled'
  BY <1>1, <1>4, ReadsKeepRows DEF rows, invitationRows, team
<1>5. ASSUME NEW r \in Requests, WriteCreate(r) PROVE RowsAreFilled'
  <2>1. PICK i \in Invites, t \in Tokens :
          Open(i, t) /\ offer' = [offer EXCEPT ![i] = ask[r].offer]
    BY <1>5 DEF WriteCreate
  <2>2. ask[r].offer \in Offer
    BY <1>5, DecisionKnows DEF WriteCreate
  <2>3. /\ status[i] = "none" /\ status'[i] = "pending" /\ acceptedBy' = acceptedBy
        /\ offer'[i] = ask[r].offer
        /\ \A j \in Invites \ {i} : status'[j] = status[j] /\ offer'[j] = offer[j]
    BY <1>0, <2>1 DEF Open, TypeOK, RowsOK
  <2>4. QED
    BY <1>0, <2>1, <2>2, <2>3, StoreKeepsTokensApart DEF Open, RowsAreFilled
<1>6. ASSUME NEW r \in Requests, WriteResend(r) PROVE RowsAreFilled'
  <2>1. PICK t \in Tokens : Store(ask[r].invite, t)
    BY <1>6 DEF WriteResend
  <2>2. /\ ask[r].invite \in Invites /\ status[ask[r].invite] = "pending"
        /\ Rebound(offer[ask[r].invite], ask[r].offer) \in Offer
    BY <1>6, DecisionKnows DEF WriteResend
  <2>3. /\ status' = status /\ acceptedBy' = acceptedBy
        /\ offer'[ask[r].invite] \in Offer
        /\ \A j \in Invites \ {ask[r].invite} : offer'[j] = offer[j]
    BY <1>0, <1>6, <2>2 DEF WriteResend, TypeOK
  <2>4. QED
    BY <1>0, <2>1, <2>2, <2>3, StoreKeepsTokensApart DEF RowsAreFilled
<1>7. ASSUME NEW r \in Requests, WriteRevoke(r) PROVE RowsAreFilled'
  <2>1. /\ ask[r].invite \in Invites
        /\ status[ask[r].invite] \in {"pending", "revoked"}
    BY <1>7, DecisionKnows DEF WriteRevoke
  <2>2. /\ status'[ask[r].invite] = "revoked"
        /\ \A j \in Invites \ {ask[r].invite} : status'[j] = status[j]
        /\ UNCHANGED <<token, acceptedBy, issued, offer>>
    BY <1>0, <1>7, <2>1 DEF WriteRevoke, TypeOK, RowsOK, team
  <2>3. QED
    BY <1>0, <2>1, <2>2 DEF RowsAreFilled
<1>8. ASSUME NEW r \in Requests, WriteAcceptance(r) PROVE RowsAreFilled'
  <2>1. PICK i \in Presented(r) :
          /\ status' = [status EXCEPT ![i] = "accepted"]
          /\ acceptedBy' = [acceptedBy EXCEPT ![i] = ask[r].actor]
    BY <1>8 DEF WriteAcceptance
  <2>2. /\ i \in Invites /\ status[i] = "pending" /\ ask[r].actor \in Adults
    BY <1>8, AcceptanceKnows DEF WriteAcceptance
  <2>3. /\ status'[i] = "accepted" /\ acceptedBy'[i] # Nobody
        /\ \A j \in Invites \ {i} : status'[j] = status[j] /\ acceptedBy'[j] = acceptedBy[j]
        /\ UNCHANGED <<token, issued, offer>>
    BY <1>0, <1>8, <2>1, <2>2, LifecycleConstantsOK DEF WriteAcceptance, TypeOK, RowsOK
  <2>4. QED
    BY <1>0, <2>2, <2>3 DEF RowsAreFilled
<1>9. ASSUME NEW r \in Requests, WriteMember(r) PROVE RowsAreFilled'
  BY <1>1, <1>9 DEF WriteMember, invitationRows
<1>10. QED
  BY <1>2, <1>3, <1>4, <1>5, <1>6, <1>7, <1>8, <1>9, NextSplits

----------------------------------------------------------------------------
(* The checks *)

\* What ChecksStillHold says of one request.
Checked(r) ==
  LET q == ask[r] IN
  /\ at[r] = "write" /\ q.op = "create" =>
       \A i \in Invites : Live(i) => offer[i].label # q.offer.label
  /\ at[r] = "write" /\ q.op = "resend" =>
       /\ status[q.invite] = "pending"
       /\ q.offer.replaces # NoEdge => offer[q.invite].child
  /\ at[r] = "write" /\ q.op = "revoke" => status[q.invite] \in {"pending", "revoked"}
  /\ at[r] \in {"consume", "members", "write"} /\ q.op = "accept" =>
       \A i \in Presented(r) :
         /\ status[i] = "pending"
         /\ offer[i].to = q.actor
         /\ offer[i].replaces # NoEdge => ReplacementIsEligible(offer[i].replaces)
  /\ at[r] = "write" /\ q.op = "accept" =>
       /\ heldThen[r] = "none" <=> held[q.actor] = "none"
       /\ heldThen[r] = "owner" <=> held[q.actor] = "owner"

LEMMA EachIsChecked == ChecksStillHold <=> \A r \in Requests : Checked(r)
BY DEF ChecksStillHold, Checked

\* The token belongs to one invitation.
LEMMA PresentedIsOne ==
  ASSUME IInv, NEW r \in Requests, ask[r].op = "accept",
         NEW i \in Presented(r), NEW j \in Presented(r)
  PROVE  i = j
<1>1. ask[r].token \in Tokens
  BY AskFields DEF IInv, TypeOK, AnyAsk
<1>2. QED
  BY <1>1, LifecycleConstantsOK DEF IInv, RowsAreFilled, Presented

\* A request that is left alone, while no row it read changes, stays checked.
LEMMA UntouchedIsChecked ==
  ASSUME NEW r \in Requests, Checked(r), UNCHANGED rows,
         at'[r] = at[r], ask'[r] = ask[r], heldThen'[r] = heldThen[r]
  PROVE  Checked(r)'
BY DEF Checked, rows, invitationRows, team, Live, Presented, ReplacementIsEligible

\* Away from the writing places there is nothing to keep.
LEMMA ElsewhereIsChecked ==
  ASSUME NEW r \in Requests, at'[r] \notin {"consume", "members", "write"}
  PROVE  Checked(r)'
BY DEF Checked

LEMMA CoachIsChecked ==
  ASSUME NEW r \in Requests, ask'[r].op \notin {"create", "resend", "revoke", "accept"}
  PROVE  Checked(r)'
BY DEF Checked

\* A step that reads leaves its own request checked.
LEMMA ReadsCheck ==
  ASSUME IInv, NEW r \in Requests, Reads(r)
  PROVE  Checked(r)'
<1>0. /\ TypeOK /\ AsksFit /\ Checked(r) /\ UNCHANGED rows /\ ask[r] \in AnyAsk
  BY ReadsKeepRows, EachIsChecked DEF IInv, TypeOK, AnyAsk
<1>1. CASE Submit(r)
  <2>1. PICK q \in OwnerAsk \cup AcceptAsk \cup CoachAsk :
          at' = [at EXCEPT ![r] = Begins(q)]
    BY <1>1 DEF Submit
  <2>2. at'[r] \in {"lock", "find", "member"}
    BY <1>0, <2>1 DEF Begins, TypeOK
  <2>3. QED
    BY <2>2, ElsewhereIsChecked
<1>2. CASE Lock(r)
  BY <1>0, <1>2, StatementEffect, ElsewhereIsChecked DEF Lock
<1>3. CASE CheckDecision(r)
  <2>1. CASE Refuse(r, "check")
    BY <1>0, <2>1, CloseEffect, ElsewhereIsChecked DEF Refuse
  <2>2. CASE MayDecide(ask[r]) /\ Statement(r, "check", "write") /\ UNCHANGED handlers
    <3>1. ask'[r] = ask[r] /\ ask[r].op \in {"create", "resend", "revoke"}
      BY <1>3, <2>2 DEF CheckDecision, handlers
    <3>2. QED
      BY <1>0, <2>2, <3>1 DEF MayDecide, MayCreate, MayResend, MayRevoke, Checked,
         rows, invitationRows, team, Live
  <2>3. QED
    BY <1>3, <2>1, <2>2 DEF CheckDecision
<1>4. CASE Find(r)
  BY <1>0, <1>4, StatementEffect, CloseEffect, ElsewhereIsChecked DEF Find, Refuse
<1>5. CASE CheckAcceptance(r)
  <2>1. CASE at'[r] = "idle"
    BY <2>1, ElsewhereIsChecked
  <2>2. ASSUME NEW i \in Presented(r), MayAccept(r, i),
               Statement(r, "check", "consume"), UNCHANGED handlers
        PROVE  Checked(r)'
    <3>1. at'[r] = "consume" /\ ask'[r] = ask[r] /\ ask[r].op = "accept"
      BY <1>0, <1>5, <2>2, StatementEffect DEF CheckAcceptance, handlers
    <3>2. \A j \in Presented(r) : j = i
      BY <3>1, PresentedIsOne
    <3>3. Presented(r)' = Presented(r)
      BY <1>0, <3>1 DEF Presented, rows, invitationRows
    <3>4. QED
      BY <1>0, <2>2, <3>1, <3>2, <3>3 DEF Checked, MayAccept, Live,
         ReplacementIsEligible, rows, invitationRows, team
  <2>3. QED
    BY <1>0, <1>5, <2>1, <2>2, CloseEffect DEF CheckAcceptance, Refuse
<1>6. CASE Consume(r)
  <2>1. CASE Refuse(r, "consume")
    BY <1>0, <2>1, CloseEffect, ElsewhereIsChecked DEF Refuse
  <2>2. CASE Statement(r, "consume", "members") /\ UNCHANGED handlers
    <3>1. at[r] = "consume" /\ at'[r] = "members" /\ ask'[r] = ask[r]
      BY <1>0, <2>2, StatementEffect DEF handlers
    <3>2. QED
      BY <1>0, <3>1 DEF Checked, Presented, ReplacementIsEligible, rows, invitationRows, team
  <2>3. QED
    BY <1>6, <2>1, <2>2 DEF Consume
<1>7. CASE ReadMemberships(r)
  <2>1. /\ at[r] = "members" /\ at'[r] = "write" /\ ask'[r] = ask[r]
        /\ heldThen'[r] = held[ask[r].actor]
    BY <1>0, <1>7, StatementEffect DEF ReadMemberships, TypeOK
  <2>2. ask[r].op = "accept"
    BY <1>0, <2>1, AskFields DEF AsksFit
  <2>3. QED
    BY <1>0, <2>1, <2>2 DEF Checked, Presented, ReplacementIsEligible, rows, invitationRows, team
<1>8. CASE ReadMember(r)
  <2>1. CASE Refuse(r, "member")
    BY <1>0, <2>1, CloseEffect, ElsewhereIsChecked DEF Refuse
  <2>2. CASE Statement(r, "member", "write") /\ UNCHANGED handlers
    <3>1. at[r] = "member" /\ ask'[r] = ask[r]
      BY <1>0, <2>2, StatementEffect DEF handlers
    <3>2. ask[r].op \in {"coach", "adult"}
      BY <1>0, <3>1, AskFields DEF AsksFit
    <3>3. QED
      BY <3>1, <3>2, CoachIsChecked
  <2>3. QED
    BY <1>8, <2>1, <2>2 DEF ReadMember
<1>9. QED
  BY <1>1, <1>2, <1>3, <1>4, <1>5, <1>6, <1>7, <1>8 DEF Reads

\* While one request writes under the lock, no other has anything to keep.
LEMMA LockExcludes ==
  ASSUME IInv, NEW r \in Requests, lock = r, NEW o \in Requests \ {r},
         at'[o] = at[o], ask'[o] = ask[o]
  PROVE  Checked(o)'
<1>1. ~Deciding(o)
  BY DEF IInv, LockIsHeld
<1>2. ask[o] \in AnyAsk
  BY DEF IInv, TypeOK, AnyAsk
<1>3. CASE at[o] = "write"
  <2>1. ask[o].op \notin {"create", "resend", "revoke", "accept"}
    BY <1>1, <1>2, <1>3, AskFields DEF Deciding
  <2>2. QED
    BY <2>1, CoachIsChecked
<1>4. CASE at[o] # "write"
  BY <1>1, <1>4, ElsewhereIsChecked DEF Deciding
<1>5. QED
  BY <1>3, <1>4

\* A co-coach edit moves an adult between adult and coach only, so what an
\* acceptance read of the membership keeps its meaning.
LEMMA CoEditKeepsChecks ==
  ASSUME IInv, NEW r \in Requests, WriteMember(r), NEW o \in Requests \ {r},
         at'[o] = at[o], ask'[o] = ask[o], heldThen'[o] = heldThen[o]
  PROVE  Checked(o)'
<1>1. /\ ask[r].op \in {"coach", "adult"}
      /\ held' = [held EXCEPT ![ask[r].who] = NewRole(@, ask[r].op)]
      /\ UNCHANGED <<invitationRows, offer, guardian>>
  BY DEF WriteMember
<1>2. held \in [Adults -> Roles] /\ ask[o] \in AnyAsk /\ Checked(o)
  BY EachIsChecked DEF IInv, TypeOK, AnyAsk
<1>3. \A p \in Adults : /\ held'[p] = "none" <=> held[p] = "none"
                        /\ held'[p] = "owner" <=> held[p] = "owner"
  BY <1>1, <1>2 DEF NewRole
<1>4. ask[o].op = "accept" => ask[o].actor \in Adults
  BY <1>2, AskFields DEF NoAsk
<1>5. QED
  BY <1>1, <1>2, <1>3, <1>4 DEF Checked, Live, Presented, ReplacementIsEligible, invitationRows

LEMMA ChecksStep == IInv /\ [InvitationsNext]_vars => ChecksStillHold'
<1> SUFFICES ASSUME IInv, [InvitationsNext]_vars PROVE ChecksStillHold'
  OBVIOUS
<1>0. TypeOK /\ \A r \in Requests : Checked(r)
  BY EachIsChecked DEF IInv
<1>e. (\A r \in Requests : Checked(r)') => ChecksStillHold'
  BY DEF ChecksStillHold, Checked
<1>1. CASE Lapse
  <2>1. /\ UNCHANGED <<status, token, team, at, ask, heldThen>>
        /\ \A i \in Invites : live'[i] => live[i]
    BY <1>0, <1>1 DEF Lapse, Expire, handlers, TypeOK, RowsOK
  <2>2. ASSUME NEW o \in Requests PROVE Checked(o)'
    BY <1>0, <2>1 DEF Checked, team, Live, Presented, ReplacementIsEligible
  <2>3. QED
    BY <1>e, <2>2
<1>2. CASE UNCHANGED vars
  BY <1>0, <1>2, <1>e, UntouchedIsChecked DEF vars, rows, invitationRows, team
<1>3. ASSUME NEW r \in Requests, Reads(r) PROVE ChecksStillHold'
  <2>1. ASSUME NEW o \in Requests \ {r} PROVE Checked(o)'
    BY <1>0, <1>3, ReadsFit, ReadsKeepRows, UntouchedIsChecked DEF Local
  <2>2. QED
    BY <1>3, <1>e, <2>1, ReadsCheck
<1>4. ASSUME NEW r \in Requests, Writes(r) PROVE ChecksStillHold'
  <2>1. Checked(r)'
    BY <1>0, <1>4, WritesClose, ElsewhereIsChecked
  <2>2. \A o \in Requests \ {r} :
          at'[o] = at[o] /\ ask'[o] = ask[o] /\ heldThen'[o] = heldThen[o]
    BY <1>0, <1>4, WritesClose DEF Local
  <2>3. CASE WriteMember(r)
    BY <1>e, <2>1, <2>2, <2>3, CoEditKeepsChecks
  <2>4. CASE ~WriteMember(r)
    <3>1. lock = r
      <4>1. at[r] = "write" /\ ask[r].op \in {"create", "resend", "revoke", "accept"}
        BY <1>4, <2>4 DEF Writes, WriteCreate, WriteResend, WriteRevoke, WriteAcceptance
      <4>2. ask[r] \in OwnerAsk \cup AcceptAsk
        BY <4>1, AskFields DEF IInv, TypeOK, AnyAsk
      <4>3. QED
        BY <4>1, <4>2 DEF IInv, LockIsHeld, Deciding
    <3>2. QED
      BY <1>e, <2>1, <2>2, <3>1, LockExcludes
  <2>5. QED
    BY <2>3, <2>4
<1>5. QED
  BY <1>1, <1>2, <1>3, <1>4, NextSplits DEF Writes

----------------------------------------------------------------------------
(* The invariant *)

LEMMA Invariance == InvitationsSpec => []IInv
<1>1. InvitationsInit => IInv
  <2>1. ASSUME InvitationsInit PROVE AsksFit /\ LockIsHeld /\ RowsAreFilled /\ ChecksStillHold
    BY <2>1 DEF InvitationsInit, Init, AsksFit, LockIsHeld, Deciding, RowsAreFilled,
       ChecksStillHold
  <2>2. QED
    BY <2>1, InitTypeOK DEF IInv
<1>2. IInv /\ [InvitationsNext]_vars => IInv'
  BY TypeStep, LockStep, RowsStep, ChecksStep DEF IInv
<1>3. QED
  BY <1>1, <1>2, PTL DEF InvitationsSpec

\* Every variable keeps its type.
THEOREM TypeCorrect == InvitationsSpec => []TypeOK
<1>1. IInv => TypeOK
  BY DEF IInv
<1>2. QED
  BY <1>1, Invariance, PTL

----------------------------------------------------------------------------
(* What the transactions do to the rows, with the handlers left out *)

Opens(i, t, o) ==
  /\ Open(i, t)
  /\ offer' = [offer EXCEPT ![i] = o]
  /\ \A j \in Invites : Live(j) => offer[j].label # o.label
  /\ UNCHANGED <<held, guardian, inserted>>

Rotates(i, t, o) ==
  /\ Rotate(i, t)
  /\ offer' = [offer EXCEPT ![i] = o]
  /\ UNCHANGED <<held, guardian, inserted>>

Revokes(i) == Revoke(i) /\ UNCHANGED team

Expires(i) == Expire(i) /\ UNCHANGED team

\* The adult's membership is at least the invited role afterwards, it is no
\* less than it was, and nobody becomes an owner by another's role.
Promotes(p, role) ==
  /\ \A q \in Adults \ {p} : held'[q] = held[q]
  /\ ~Outranks(role, held'[p])
  /\ held[p] # "none" => held'[p] # "none"
  /\ held[p] = "owner" => held'[p] = "owner"
  /\ held'[p] = "owner" => held[p] = "owner" \/ role = "owner"

Accepts(i, p) ==
  /\ Accept(i, p)
  /\ offer[i] \in Offer /\ offer[i].to = p
  /\ offer[i].replaces # NoEdge => guardian[offer[i].replaces] = Placeholder
  /\ Promotes(p, offer[i].role)
  /\ BindGuardian(p, offer[i])
  /\ UNCHANGED offer

Moves ==
  /\ \A p \in Adults :
       /\ held'[p] = "none" <=> held[p] = "none"
       /\ held'[p] = "owner" <=> held[p] = "owner"
  /\ UNCHANGED <<invitationRows, offer, guardian, inserted>>

RowChange ==
  \/ \E i \in Invites, t \in Tokens, o \in Offer : Opens(i, t, o) \/ Rotates(i, t, o)
  \/ \E i \in Invites : Revokes(i) \/ Expires(i)
  \/ \E i \in Invites, p \in Adults : Accepts(i, p)
  \/ Moves
  \/ UNCHANGED rows

LEMMA AcceptanceChanges ==
  ASSUME IInv, NEW r \in Requests, WriteAcceptance(r)
  PROVE  \E i \in Presented(r) : Accepts(i, ask[r].actor)
<1>1. at[r] = "write" /\ ask[r].op = "accept" /\ UNCHANGED <<token, live, issued, offer>>
  BY DEF WriteAcceptance
<1>2. PICK i \in Presented(r) :
        /\ status' = [status EXCEPT ![i] = "accepted"]
        /\ acceptedBy' = [acceptedBy EXCEPT ![i] = ask[r].actor]
        /\ WriteMembership(r, i)
        /\ BindGuardian(ask[r].actor, offer[i])
  BY DEF WriteAcceptance
<1>3. /\ i \in Invites /\ ask[r].actor \in Adults
      /\ status[i] = "pending" /\ offer[i] \in Offer /\ offer[i].to = ask[r].actor
      /\ offer[i].replaces # NoEdge => guardian[offer[i].replaces] = Placeholder
  BY <1>1, AcceptanceKnows
<1>4. Promotes(ask[r].actor, offer[i].role)
  <2>1. /\ offer[i].role \in {"adult", "owner"}
        /\ heldThen[r] \in Roles /\ held[ask[r].actor] \in Roles
        /\ heldThen[r] = "none" <=> held[ask[r].actor] = "none"
        /\ heldThen[r] = "owner" <=> held[ask[r].actor] = "owner"
    BY <1>1, AcceptanceKnows
  <2>2. held \in [Adults -> Roles]
    BY DEF IInv, TypeOK
  <2>3. CASE Outranks(offer[i].role, heldThen[r])
    <3>1. held' = [held EXCEPT ![ask[r].actor] = offer[i].role]
      BY <1>2, <2>3 DEF WriteMembership
    <3>2. held'[ask[r].actor] = offer[i].role
      BY <1>3, <2>2, <3>1
    <3>3. heldThen[r] # "owner"
      BY <2>1, <2>3 DEF Outranks, Rank, Roles
    <3>4. QED
      BY <1>3, <2>1, <2>2, <3>1, <3>2, <3>3 DEF Promotes, Outranks, Rank, Roles
  <2>4. CASE ~Outranks(offer[i].role, heldThen[r])
    <3>1. held' = held
      BY <1>2, <2>4 DEF WriteMembership
    <3>2. /\ offer[i].role = "owner" => heldThen[r] = "owner"
          /\ offer[i].role = "adult" => heldThen[r] # "none"
      BY <2>1, <2>4 DEF Outranks, Rank, Roles
    <3>3. QED
      BY <2>1, <3>1, <3>2 DEF Promotes, Outranks, Rank, Roles
  <2>5. QED
    BY <2>3, <2>4
<1>5. Accepts(i, ask[r].actor)
  BY <1>1, <1>2, <1>3, <1>4 DEF Accepts, Accept
<1>6. QED
  BY <1>5

LEMMA RowsChange == IInv /\ [InvitationsNext]_vars => RowChange
<1> SUFFICES ASSUME IInv, [InvitationsNext]_vars PROVE RowChange
  OBVIOUS
<1>0. TypeOK
  BY DEF IInv
<1>1. CASE Lapse
  BY <1>1 DEF Lapse, RowChange, Expires
<1>2. CASE UNCHANGED vars
  BY <1>2 DEF vars, RowChange, rows, invitationRows, team
<1>3. ASSUME NEW r \in Requests, Reads(r) PROVE RowChange
  BY <1>3, ReadsKeepRows DEF RowChange
<1>4. ASSUME NEW r \in Requests, WriteCreate(r) PROVE RowChange
  <2>1. PICK i \in Invites, t \in Tokens :
          Open(i, t) /\ offer' = [offer EXCEPT ![i] = ask[r].offer]
    BY <1>4 DEF WriteCreate
  <2>2. /\ ask[r].offer \in Offer
        /\ \A j \in Invites : Live(j) => offer[j].label # ask[r].offer.label
    BY <1>4, DecisionKnows DEF WriteCreate
  <2>3. Opens(i, t, ask[r].offer)
    BY <1>4, <2>1, <2>2 DEF WriteCreate, Opens
  <2>4. QED
    BY <2>2, <2>3 DEF RowChange
<1>5. ASSUME NEW r \in Requests, WriteResend(r) PROVE RowChange
  <2>1. PICK t \in Tokens : Store(ask[r].invite, t)
    BY <1>5 DEF WriteResend
  <2>2. /\ ask[r].invite \in Invites /\ status[ask[r].invite] = "pending"
        /\ Rebound(offer[ask[r].invite], ask[r].offer) \in Offer
    BY <1>5, DecisionKnows DEF WriteResend
  <2>3. Rotates(ask[r].invite, t, Rebound(offer[ask[r].invite], ask[r].offer))
    BY <1>5, <2>1, <2>2 DEF WriteResend, Rotates, Rotate
  <2>4. QED
    BY <2>2, <2>3 DEF RowChange
<1>6. ASSUME NEW r \in Requests, WriteRevoke(r) PROVE RowChange
  <2>1. /\ ask[r].invite \in Invites
        /\ status[ask[r].invite] \in {"pending", "revoked"}
    BY <1>6, DecisionKnows DEF WriteRevoke
  <2>2. /\ status' = [status EXCEPT ![ask[r].invite] = "revoked"]
        /\ UNCHANGED <<token, live, acceptedBy, issued, team>>
    BY <1>6 DEF WriteRevoke
  <2>3. CASE status[ask[r].invite] = "pending"
    BY <2>1, <2>2, <2>3 DEF RowChange, Revokes, Revoke
  <2>4. CASE status[ask[r].invite] = "revoked"
    <3>1. status' = status
      BY <1>0, <2>2, <2>4 DEF TypeOK, RowsOK
    <3>2. QED
      BY <2>2, <3>1 DEF RowChange, rows, invitationRows
  <2>5. QED
    BY <2>1, <2>3, <2>4
<1>7. ASSUME NEW r \in Requests, WriteAcceptance(r) PROVE RowChange
  <2>1. PICK i \in Presented(r) : Accepts(i, ask[r].actor)
    BY <1>7, AcceptanceChanges
  <2>2. i \in Invites /\ ask[r].actor \in Adults
    BY <1>7, AcceptanceKnows DEF WriteAcceptance
  <2>3. QED
    BY <2>1, <2>2 DEF RowChange
<1>8. ASSUME NEW r \in Requests, WriteMember(r) PROVE RowChange
  <2>1. /\ ask[r].op \in {"coach", "adult"}
        /\ held' = [held EXCEPT ![ask[r].who] = NewRole(@, ask[r].op)]
        /\ UNCHANGED <<invitationRows, offer, guardian, inserted>>
    BY <1>8 DEF WriteMember
  <2>2. held \in [Adults -> Roles]
    BY <1>0 DEF TypeOK
  <2>3. Moves
    BY <2>1, <2>2 DEF Moves, NewRole
  <2>4. QED
    BY <2>3 DEF RowChange
<1>9. QED
  BY <1>1, <1>2, <1>3, <1>4, <1>5, <1>6, <1>7, <1>8, NextSplits

----------------------------------------------------------------------------
(* What holds of every step *)

\* However requests interleave, and whatever co-coach edits do meanwhile, each
\* invitation lives the life of InvitationLifecycle: one acceptance at most,
\* none after a rotation or a revocation.
THEOREM Implementation == InvitationsSpec => ImplementsLifecycle
<1>1. InvitationsInit => Init
  BY DEF InvitationsInit
<1>2. IInv /\ [InvitationsNext]_vars => [Next]_invitationRows
  <2>1. RowChange => [Next]_invitationRows
    BY DEF RowChange, Opens, Rotates, Revokes, Expires, Accepts, Moves, rows, Next
  <2>2. QED
    BY <2>1, RowsChange
<1>3. QED
  BY <1>1, <1>2, Invariance, PTL DEF InvitationsSpec, ImplementsLifecycle, Spec

\* An edge whose guardian has an account is neither handed over nor revoked by
\* an acceptance, although the replacement was chosen by another request.
THEOREM PlaceholdersOnly == InvitationsSpec => GuardiansAreNotDisplaced
<1>1. IInv /\ [InvitationsNext]_vars =>
        [\A e \in Edges : guardian'[e] # guardian[e] => guardian[e] = Placeholder]_vars
  <2> SUFFICES ASSUME IInv, RowChange, NEW e \in Edges, guardian'[e] # guardian[e]
               PROVE  guardian[e] = Placeholder
    BY RowsChange
  <2>1. PICK i \in Invites, p \in Adults : Accepts(i, p)
    BY DEF RowChange, Opens, Rotates, Revokes, Expires, Moves, rows, team
  <2>2. guardian \in [Edges -> Adults \cup {Placeholder, Nobody}]
    BY DEF IInv, TypeOK
  <2>3. offer[i].replaces = e
    BY <2>1, <2>2 DEF Accepts, BindGuardian
  <2>4. e # NoEdge
    BY ConstantsOK
  <2>5. QED
    BY <2>1, <2>3, <2>4 DEF Accepts
<1>2. QED
  BY <1>1, Invariance, PTL DEF InvitationsSpec, GuardiansAreNotDisplaced

\* Two creations with one label cannot both commit while the first is live: the
\* check of the labels and the insertion are under one lock.
THEOREM OneLiveInvitation == InvitationsSpec => OneLiveInvitationIsOpened
<1>1. IInv /\ [InvitationsNext]_vars =>
        [\A i \in Invites : status[i] = "none" /\ status'[i] = "pending" =>
           \A j \in Invites : Live(j) => offer[j].label # offer'[i].label]_vars
  <2> SUFFICES ASSUME IInv, RowChange, NEW i \in Invites,
                      status[i] = "none", status'[i] = "pending"
               PROVE  \A j \in Invites : Live(j) => offer[j].label # offer'[i].label
    BY RowsChange
  <2>1. /\ status \in [Invites -> Statuses]
        /\ offer \in [Invites -> Offer \cup {NoOffer}]
    BY DEF IInv, TypeOK, RowsOK
  <2>2. PICK k \in Invites, t \in Tokens, o \in Offer : Opens(k, t, o)
    BY <2>1 DEF RowChange, Rotates, Rotate, Revokes, Revoke, Expires, Expire,
       Accepts, Accept, Moves, rows, invitationRows
  <2>3. k = i
    BY <2>1, <2>2 DEF Opens, Open
  <2>4. offer'[i] = o
    BY <2>1, <2>2, <2>3 DEF Opens
  <2>5. QED
    BY <2>2, <2>4 DEF Opens
<1>2. QED
  BY <1>1, Invariance, PTL DEF InvitationsSpec, OneLiveInvitationIsOpened

\* A caller that was told ok was heard: its link is dead, or the invitation is
\* its own.
THEOREM TrueAnswers == InvitationsSpec => AnswersAreTrue
<1>1. IInv /\ [InvitationsNext]_vars =>
        [\A r \in Requests : at[r] # "idle" /\ answer'[r] = "ok" =>
           /\ ask[r].op = "revoke" => status'[ask[r].invite] = "revoked"
           /\ ask[r].op = "accept" =>
                \E i \in Presented(r) :
                  status'[i] = "accepted" /\ acceptedBy'[i] = ask[r].actor]_vars
  <2> SUFFICES ASSUME IInv, [InvitationsNext]_vars, NEW r \in Requests,
                      at[r] # "idle", answer'[r] = "ok"
               PROVE  /\ ask[r].op = "revoke" => status'[ask[r].invite] = "revoked"
                      /\ ask[r].op = "accept" =>
                           \E i \in Presented(r) :
                             status'[i] = "accepted" /\ acceptedBy'[i] = ask[r].actor
    OBVIOUS
  <2>0. TypeOK /\ answer[r] = "none"
    BY DEF IInv, AsksFit
  <2>1. CASE Lapse \/ UNCHANGED vars
    BY <2>0, <2>1 DEF Lapse, handlers, vars
  <2>2. PICK o \in Requests : Reads(o) \/ Writes(o)
    <3>1. CASE Lapse \/ UNCHANGED vars
      BY <2>0, <3>1 DEF Lapse, handlers, vars
    <3>2. QED
      BY <3>1, NextSplits DEF Writes
  <2>3. o = r
    BY <2>0, <2>2, ReadsFit, WritesFit DEF Local
  <2>4. CASE CheckAcceptance(r)
    <3>1. ask[r].op = "accept" /\ UNCHANGED invitationRows
      BY <2>4, ReadsKeepRows DEF Reads, rows, CheckAcceptance
    <3>2. \E i \in Presented(r) : IsRepeat(r, i)
      BY <2>0, <2>4, CloseEffect, StatementEffect
         DEF CheckAcceptance, Refuse, handlers
    <3>3. QED
      BY <3>1, <3>2 DEF IsRepeat, invitationRows
  <2>5. CASE WriteRevoke(r)
    <3>1. ask[r].op = "revoke" /\ ask[r].invite \in Invites
      BY <2>5, DecisionKnows DEF WriteRevoke
    <3>2. QED
      BY <2>0, <2>5, <3>1 DEF WriteRevoke, TypeOK, RowsOK
  <2>6. CASE WriteAcceptance(r)
    <3>1. ask[r].op = "accept"
      BY <2>6 DEF WriteAcceptance
    <3>2. PICK i \in Presented(r) : Accepts(i, ask[r].actor)
      BY <2>6, AcceptanceChanges
    <3>3. i \in Invites
      BY DEF Presented
    <3>4. QED
      BY <2>0, <3>1, <3>2, <3>3 DEF Accepts, Accept, TypeOK, RowsOK
  <2>7. CASE WriteCreate(r) \/ WriteResend(r) \/ WriteMember(r)
    BY <2>7 DEF WriteCreate, WriteResend, WriteMember
  <2>8. CASE Submit(r) \/ Lock(r) \/ CheckDecision(r) \/ Find(r) \/ Consume(r)
             \/ ReadMemberships(r) \/ ReadMember(r)
    <3>1. answer'[r] # "ok"
      BY <2>0, <2>8, CloseEffect DEF Submit, Lock, CheckDecision, Find, Consume,
         ReadMemberships, ReadMember, Refuse, handlers, TypeOK
    <3>2. QED
      BY <3>1
  <2>9. QED
    BY <2>2, <2>3, <2>4, <2>5, <2>6, <2>7, <2>8 DEF Reads, Writes
<1>2. QED
  BY <1>1, Invariance, PTL DEF InvitationsSpec, AnswersAreTrue

----------------------------------------------------------------------------
(* What the accepted invitations are worth *)

LEMMA RowTypes ==
  ASSUME IInv
  PROVE  /\ status \in [Invites -> Statuses]
         /\ acceptedBy \in [Invites -> Adults \cup {Nobody}]
         /\ offer \in [Invites -> Offer \cup {NoOffer}]
         /\ held \in [Adults -> Roles]
         /\ guardian \in [Edges -> Adults \cup {Placeholder, Nobody}]
         /\ inserted \in [Adults -> Nat]
         /\ \A i \in Invites : status[i] = "accepted" <=> acceptedBy[i] # Nobody
         /\ \A i \in Invites : status[i] = "accepted" => offer[i] \in Offer
BY DEF IInv, TypeOK, RowsOK, RowsAreFilled

\* Only Accepts makes an invitation accepted, and the accepted ones are final.
LEMMA OthersKeepAcceptances ==
  ASSUME IInv, RowChange, \A i \in Invites, p \in Adults : ~Accepts(i, p)
  PROVE  /\ UNCHANGED <<acceptedBy, guardian, inserted>>
         /\ \A i \in Invites : status'[i] = "accepted" <=> status[i] = "accepted"
         /\ \A i \in Invites : acceptedBy[i] # Nobody => offer'[i] = offer[i]
         /\ \A p \in Adults :
              /\ held'[p] = "none" <=> held[p] = "none"
              /\ held'[p] = "owner" <=> held[p] = "owner"
<1> USE RowTypes
<1>1. CASE UNCHANGED rows \/ Moves
  BY <1>1 DEF rows, invitationRows, team, Moves
<1>2. CASE \E i \in Invites : Revokes(i) \/ Expires(i)
  BY <1>2 DEF Revokes, Revoke, Expires, Expire, team
<1>3. ASSUME NEW i \in Invites, NEW t \in Tokens, NEW o \in Offer,
             Opens(i, t, o) \/ Rotates(i, t, o)
      PROVE  /\ UNCHANGED <<acceptedBy, guardian, inserted, held>>
             /\ \A j \in Invites : status'[j] = "accepted" <=> status[j] = "accepted"
             /\ \A j \in Invites : acceptedBy[j] # Nobody => offer'[j] = offer[j]
  BY <1>3 DEF Opens, Open, Rotates, Rotate
<1>4. QED
  BY <1>1, <1>2, <1>3 DEF RowChange

LEMMA AcceptsEffect ==
  ASSUME IInv, NEW i \in Invites, NEW p \in Adults, Accepts(i, p)
  PROVE  /\ status'[i] = "accepted" /\ acceptedBy'[i] = p /\ acceptedBy[i] = Nobody
         /\ \A j \in Invites \ {i} : status'[j] = status[j] /\ acceptedBy'[j] = acceptedBy[j]
         /\ offer' = offer /\ offer[i] \in Offer /\ offer[i].to = p
         /\ Promotes(p, offer[i].role)
BY RowTypes DEF Accepts, Accept

\* The role an invitation can promise is granted when it is outranked by none.
LEMMA GrantMeans ==
  ASSUME NEW role \in InvitedRoles, NEW current \in Roles
  PROVE  ~Outranks(role, current) <=>
           /\ current # "none"
           /\ role = "owner" => current = "owner"
BY DEF InvitedRoles, Outranks, Rank, Roles

\* What was accepted stays granted: neither a later acceptance of a weaker offer
\* nor a co-coach edit takes the adult below it.
THEOREM Granted == InvitationsSpec => []GrantsHold
<1>1. InvitationsInit => GrantsHold
  BY DEF InvitationsInit, Init, GrantsHold
<1>2. IInv /\ IInv' /\ GrantsHold /\ [InvitationsNext]_vars => GrantsHold'
  <2> SUFFICES ASSUME IInv, IInv', GrantsHold, RowChange,
                      NEW j \in Invites, status'[j] = "accepted"
               PROVE  ~Outranks(offer'[j].role, held'[acceptedBy'[j]])
    BY RowsChange DEF GrantsHold
  <2>1. CASE \A i \in Invites, p \in Adults : ~Accepts(i, p)
    <3>1. /\ status[j] = "accepted" /\ acceptedBy'[j] = acceptedBy[j]
          /\ acceptedBy[j] \in Adults /\ offer'[j] = offer[j] /\ offer[j] \in Offer
          /\ held'[acceptedBy[j]] = "none" <=> held[acceptedBy[j]] = "none"
          /\ held'[acceptedBy[j]] = "owner" <=> held[acceptedBy[j]] = "owner"
      BY <2>1, OthersKeepAcceptances, RowTypes
    <3>2. held'[acceptedBy[j]] \in Roles /\ held[acceptedBy[j]] \in Roles
      BY <3>1 DEF IInv, TypeOK
    <3>3. offer[j].role \in InvitedRoles
      BY <3>1 DEF Offer
    <3>4. ~Outranks(offer[j].role, held[acceptedBy[j]])
      BY <3>1 DEF GrantsHold
    <3>5. QED
      BY <3>1, <3>2, <3>3, <3>4, GrantMeans
  <2>2. ASSUME NEW i \in Invites, NEW p \in Adults, Accepts(i, p)
        PROVE  ~Outranks(offer'[j].role, held'[acceptedBy'[j]])
    <3>1. CASE j = i
      BY <2>2, <3>1, AcceptsEffect DEF Promotes
    <3>2. CASE j # i
      <4>1. /\ status[j] = "accepted" /\ acceptedBy'[j] = acceptedBy[j]
            /\ acceptedBy[j] \in Adults /\ offer'[j] = offer[j] /\ offer[j] \in Offer
        BY <2>2, <3>2, AcceptsEffect, RowTypes
      <4>2. held'[acceptedBy[j]] \in Roles /\ held[acceptedBy[j]] \in Roles
        BY <4>1 DEF IInv, TypeOK
      <4>3. offer[j].role \in InvitedRoles
        BY <4>1 DEF Offer
      <4>4. ~Outranks(offer[j].role, held[acceptedBy[j]])
        BY <4>1 DEF GrantsHold
      <4>5. /\ held[acceptedBy[j]] # "none" => held'[acceptedBy[j]] # "none"
            /\ held[acceptedBy[j]] = "owner" => held'[acceptedBy[j]] = "owner"
        BY <2>2, <4>1, AcceptsEffect DEF Promotes
      <4>6. QED
        BY <4>1, <4>2, <4>3, <4>4, <4>5, GrantMeans
    <3>3. QED
      BY <3>1, <3>2
  <2>3. QED
    BY <2>1, <2>2
<1>3. QED
  BY <1>1, <1>2, Invariance, PTL DEF InvitationsSpec

\* Every member accepted an offer made to them, and every member who manages as
\* an owner accepted an owner's offer.
THEOREM Invited == InvitationsSpec => []MembersWereInvited
<1>1. InvitationsInit => MembersWereInvited
  BY DEF InvitationsInit, MembersWereInvited
<1>2. IInv /\ MembersWereInvited /\ [InvitationsNext]_vars => MembersWereInvited'
  <2> SUFFICES ASSUME IInv, MembersWereInvited, RowChange, NEW q \in Adults
               PROVE  /\ held'[q] # "none" =>
                           \E i \in Invites : acceptedBy'[i] = q /\ offer'[i].to = q
                      /\ held'[q] = "owner" =>
                           \E i \in Invites : acceptedBy'[i] = q /\ offer'[i].role = "owner"
    BY RowsChange DEF MembersWereInvited
  <2>0. /\ held[q] # "none" =>
             \E i \in Invites : acceptedBy[i] = q /\ offer[i].to = q
        /\ held[q] = "owner" =>
             \E i \in Invites : acceptedBy[i] = q /\ offer[i].role = "owner"
        /\ q # Nobody
    BY LifecycleConstantsOK DEF MembersWereInvited
  <2>1. CASE \A i \in Invites, p \in Adults : ~Accepts(i, p)
    BY <2>0, <2>1, OthersKeepAcceptances
  <2>2. ASSUME NEW i \in Invites, NEW p \in Adults, Accepts(i, p)
        PROVE  /\ held'[q] # "none" =>
                    \E j \in Invites : acceptedBy'[j] = q /\ offer'[j].to = q
               /\ held'[q] = "owner" =>
                    \E j \in Invites : acceptedBy'[j] = q /\ offer'[j].role = "owner"
    BY <2>0, <2>2, AcceptsEffect DEF Promotes
  <2>3. QED
    BY <2>1, <2>2
<1>3. QED
  BY <1>1, <1>2, Invariance, PTL DEF InvitationsSpec

\* Binding an adult gives it an edge when the invitation is about the child, and
\* touches the edges of nobody else.
LEMMA BindingBinds ==
  ASSUME IInv, NEW i \in Invites, NEW p \in Adults, Accepts(i, p), NEW q \in Adults,
         inserted[q] <= 1,
         \A e \in Edges : guardian[e] = q =>
           inserted[q] = 0 /\ \A f \in Edges \ {e} : guardian[f] # q
  PROVE  /\ HasEdge(q)' <=> HasEdge(q) \/ (q = p /\ offer[i].child)
         /\ inserted'[q] <= 1
         /\ \A e \in Edges : guardian'[e] = q =>
              inserted'[q] = 0 /\ \A f \in Edges \ {e} : guardian'[f] # q
<1>0. /\ guardian \in [Edges -> Adults \cup {Placeholder, Nobody}]
      /\ inserted \in [Adults -> Nat]
      /\ offer[i].replaces \in Edges \cup {NoEdge}
      /\ offer[i].replaces # NoEdge => offer[i].child
      /\ offer[i].replaces # NoEdge => guardian[offer[i].replaces] = Placeholder
      /\ BindGuardian(p, offer[i])
      /\ q # Placeholder /\ q # Nobody
  BY RowTypes, ConstantsOK, LifecycleConstantsOK DEF Accepts, Offer
<1>1. CASE offer[i].replaces = NoEdge /\ (~offer[i].child \/ HasEdge(p))
  BY <1>0, <1>1 DEF BindGuardian, HasEdge
<1>2. CASE offer[i].replaces = NoEdge /\ offer[i].child /\ ~HasEdge(p)
  <2>1. guardian' = guardian /\ inserted' = [inserted EXCEPT ![p] = inserted[p] + 1]
    BY <1>0, <1>2 DEF BindGuardian
  <2>2. inserted[p] = 0 /\ \A e \in Edges : guardian[e] # p
    BY <1>0, <1>2 DEF HasEdge
  <2>3. CASE q = p
    <3>1. inserted'[q] = 1
      BY <1>0, <2>1, <2>2, <2>3
    <3>2. QED
      BY <1>2, <2>1, <2>2, <2>3, <3>1 DEF HasEdge
  <2>4. CASE q # p
    <3>1. inserted'[q] = inserted[q]
      BY <1>0, <2>1, <2>4
    <3>2. QED
      BY <2>1, <2>4, <3>1 DEF HasEdge
  <2>5. QED
    BY <2>3, <2>4
<1>3. CASE offer[i].replaces # NoEdge /\ HasEdge(p)
  <2>1. /\ inserted' = inserted
        /\ guardian' = [guardian EXCEPT ![offer[i].replaces] = Nobody]
    BY <1>0, <1>3 DEF BindGuardian
  <2>2. \A e \in Edges : guardian'[e] = q <=> guardian[e] = q
    BY <1>0, <1>3, <2>1
  <2>3. QED
    BY <1>0, <1>3, <2>1, <2>2 DEF HasEdge
<1>4. CASE offer[i].replaces # NoEdge /\ ~HasEdge(p)
  <2>1. /\ inserted' = inserted
        /\ guardian' = [guardian EXCEPT ![offer[i].replaces] = p]
    BY <1>0, <1>4 DEF BindGuardian
  <2>2. inserted[p] = 0 /\ \A e \in Edges : guardian[e] # p
    BY <1>0, <1>4 DEF HasEdge
  <2>3. CASE q = p
    <3>1. \A e \in Edges : guardian'[e] = q <=> e = offer[i].replaces
      BY <1>0, <1>4, <2>1, <2>2, <2>3
    <3>2. QED
      BY <1>0, <1>4, <2>1, <2>2, <2>3, <3>1 DEF HasEdge
  <2>4. CASE q # p
    <3>1. \A e \in Edges : guardian'[e] = q <=> guardian[e] = q
      BY <1>0, <1>4, <2>1, <2>4
    <3>2. QED
      BY <2>1, <2>4, <3>1 DEF HasEdge
  <2>5. QED
    BY <2>3, <2>4
<1>5. QED
  BY <1>0, <1>1, <1>2, <1>3, <1>4

\* Accepting invitations about a child makes an adult its guardian through one
\* edge, whatever was invited, replaced and accepted before.
THEOREM OneEdge == InvitationsSpec => []OneGuardianEdge
<1>1. InvitationsInit => OneGuardianEdge
  BY ConstantsOK, LifecycleConstantsOK DEF InvitationsInit, Init, OneGuardianEdge, HasEdge
<1>2. IInv /\ OneGuardianEdge /\ [InvitationsNext]_vars => OneGuardianEdge'
  <2> SUFFICES ASSUME IInv, OneGuardianEdge, RowChange, NEW q \in Adults
               PROVE  /\ HasEdge(q)' <=> \E i \in Invites : acceptedBy'[i] = q /\ offer'[i].child
                      /\ inserted'[q] <= 1
                      /\ \A e \in Edges : guardian'[e] = q =>
                           inserted'[q] = 0 /\ \A f \in Edges \ {e} : guardian'[f] # q
    BY RowsChange DEF OneGuardianEdge
  <2>0. /\ HasEdge(q) <=> \E i \in Invites : acceptedBy[i] = q /\ offer[i].child
        /\ inserted[q] <= 1
        /\ \A e \in Edges : guardian[e] = q =>
             inserted[q] = 0 /\ \A f \in Edges \ {e} : guardian[f] # q
        /\ q # Nobody
    BY LifecycleConstantsOK DEF OneGuardianEdge
  <2>1. CASE \A i \in Invites, p \in Adults : ~Accepts(i, p)
    <3>1. /\ UNCHANGED <<acceptedBy, guardian, inserted>>
          /\ \A i \in Invites : acceptedBy[i] # Nobody => offer'[i] = offer[i]
      BY <2>1, OthersKeepAcceptances
    <3>2. HasEdge(q)' <=> HasEdge(q)
      BY <3>1 DEF HasEdge
    <3>3. QED
      BY <2>0, <3>1, <3>2
  <2>2. ASSUME NEW i \in Invites, NEW p \in Adults, Accepts(i, p)
        PROVE  /\ HasEdge(q)' <=> \E j \in Invites : acceptedBy'[j] = q /\ offer'[j].child
               /\ inserted'[q] <= 1
               /\ \A e \in Edges : guardian'[e] = q =>
                    inserted'[q] = 0 /\ \A f \in Edges \ {e} : guardian'[f] # q
    <3>1. (\E j \in Invites : acceptedBy'[j] = q /\ offer'[j].child)
            <=> HasEdge(q) \/ (q = p /\ offer[i].child)
      BY <2>0, <2>2, AcceptsEffect
    <3>2. QED
      BY <2>0, <2>2, <3>1, BindingBinds
  <2>3. QED
    BY <2>1, <2>2
<1>3. QED
  BY <1>1, <1>2, Invariance, PTL DEF InvitationsSpec

----------------------------------------------------------------------------
(* One transaction at a time *)

\* On SQLite a request that has run a statement excludes every other, so what
\* an acceptance read of the membership is what the membership still is.
RunsAlone ==
  \A r \in Requests :
    /\ at[r] = "idle" => ask[r] = NoAsk
    /\ at[r] # "idle" => toldRole[r] = "none"
    /\ Serialized /\ at[r] \in {"check", "consume", "members", "write"} => writer = r
    /\ Serialized /\ at[r] = "write" /\ ask[r].op = "accept" =>
         heldThen[r] = held[ask[r].actor]

\* What a step does to the writer and to what the requests were told.
LEMMA WriterEffect ==
  ASSUME IInv, NEW r \in Requests, Reads(r) \/ Writes(r)
  PROVE  /\ \A o \in Requests \ {r} : toldRole'[o] = toldRole[o]
         /\ at'[r] = "idle" => ask'[r] = NoAsk
         /\ at'[r] # "idle" =>
              toldRole'[r] = "none" \/ (at[r] # "idle" /\ toldRole'[r] = toldRole[r])
         /\ Submit(r) \/ writer \in {r, NoRequest}
         /\ Submit(r) => writer' = writer /\ at'[r] \in {"lock", "find", "member"}
         /\ Serialized /\ ~Submit(r) /\ at'[r] # "idle" => writer' = r
         /\ Serialized /\ at'[r] = "write" /\ ask'[r].op = "accept" =>
              heldThen'[r] = held[ask'[r].actor] /\ held' = held
<1>0. TypeOK /\ AsksFit /\ ask[r] \in AnyAsk
  BY DEF IInv, TypeOK, AnyAsk
<1>1. ASSUME NEW from, NEW said, NEW role, Close(r, from, said, role)
      PROVE  /\ \A o \in Requests \ {r} : toldRole'[o] = toldRole[o]
             /\ at'[r] = "idle" /\ ask'[r] = NoAsk
             /\ writer \in {r, NoRequest}
             /\ ~Submit(r)
  <2>1. /\ \A o \in Requests \ {r} : toldRole'[o] = toldRole[o]
        /\ writer \in {r, NoRequest}
    BY <1>0, <1>1 DEF Close, TypeOK
  <2>2. at'[r] = "idle" /\ ask'[r] = NoAsk
    BY <1>0, <1>1, CloseEffect
  <2>3. ASSUME Submit(r) PROVE FALSE
    <3>1. PICK q \in OwnerAsk \cup AcceptAsk \cup CoachAsk :
            at' = [at EXCEPT ![r] = Begins(q)]
      BY <2>3 DEF Submit
    <3>2. at'[r] \in {"lock", "find", "member"}
      BY <1>0, <3>1 DEF Begins, TypeOK
    <3>3. QED
      BY <2>2, <3>2
  <2>4. QED
    BY <2>1, <2>2, <2>3
<1>2. ASSUME NEW from, NEW to, Statement(r, from, to), from # "idle", to # "idle",
             UNCHANGED <<toldRole, ask>>
      PROVE  /\ \A o \in Requests \ {r} : toldRole'[o] = toldRole[o]
             /\ at'[r] = to /\ at[r] # "idle" /\ toldRole'[r] = toldRole[r]
             /\ writer \in {r, NoRequest}
             /\ ~Submit(r)
             /\ Serialized => writer' = r
  <2>1. at[r] = from /\ at'[r] = to
    BY <1>0, <1>2, StatementEffect
  <2>2. QED
    BY <1>2, <2>1 DEF Statement, Submit
<1>3. CASE Submit(r)
  <2>1. PICK q \in OwnerAsk \cup AcceptAsk \cup CoachAsk :
          at' = [at EXCEPT ![r] = Begins(q)]
    BY <1>3 DEF Submit
  <2>2. at'[r] \in {"lock", "find", "member"}
    BY <1>0, <2>1 DEF Begins, TypeOK
  <2>3. /\ \A o \in Requests \ {r} : toldRole'[o] = toldRole[o]
        /\ toldRole'[r] = "none" /\ writer' = writer
    BY <1>0, <1>3 DEF Submit, TypeOK
  <2>4. QED
    BY <1>3, <2>2, <2>3
<1>4. CASE \E from, said, role : Close(r, from, said, role)
  BY <1>1, <1>4
<1>5. CASE ReadMemberships(r)
  <2>1. Statement(r, "members", "write") /\ UNCHANGED <<toldRole, ask>>
    BY <1>5 DEF ReadMemberships
  <2>2. heldThen'[r] = held[ask[r].actor] /\ held' = held
    BY <1>0, <1>5 DEF ReadMemberships, TypeOK, team
  <2>3. QED
    BY <1>2, <2>1, <2>2
<1>6. ASSUME ~Submit(r), ~ReadMemberships(r), ~\E from, said, role : Close(r, from, said, role)
      PROVE  /\ UNCHANGED <<toldRole, ask>>
             /\ \/ Statement(r, "lock", "check")
                \/ Statement(r, "check", "write") /\ ask[r].op # "accept"
                \/ Statement(r, "find", "lock")
                \/ Statement(r, "check", "consume")
                \/ Statement(r, "consume", "members")
                \/ Statement(r, "member", "write") /\ ask[r].op # "accept"
  <2>1. ~Writes(r)
    BY <1>6 DEF Writes, WriteCreate, WriteResend, WriteRevoke, WriteAcceptance, WriteMember
  <2>2. CASE ReadMember(r)
    <3>1. Statement(r, "member", "write") /\ UNCHANGED handlers
      BY <1>6, <2>2 DEF ReadMember, Refuse
    <3>2. ask[r].op # "accept"
      BY <1>0, <3>1, AskFields DEF AsksFit, Statement
    <3>3. QED
      BY <3>1, <3>2 DEF handlers
  <2>3. CASE ~ReadMember(r)
    BY <1>6, <2>1, <2>3 DEF Reads, Lock, CheckDecision, Find, CheckAcceptance, Consume,
       Refuse, handlers
  <2>4. QED
    BY <2>2, <2>3
<1>7. CASE ~Submit(r) /\ ~ReadMemberships(r) /\ ~\E from, said, role : Close(r, from, said, role)
  BY <1>2, <1>6, <1>7
<1>8. QED
  BY <1>3, <1>4, <1>5, <1>7

LEMMA RunsAloneHolds == InvitationsSpec => []RunsAlone
<1>1. InvitationsInit => RunsAlone
  BY DEF InvitationsInit, RunsAlone, NoAsk
<1>2. IInv /\ RunsAlone /\ [InvitationsNext]_vars => RunsAlone'
  <2> SUFFICES ASSUME IInv, RunsAlone, [InvitationsNext]_vars PROVE RunsAlone'
    OBVIOUS
  <2>0. TypeOK
    BY DEF IInv
  <2>1. CASE Lapse \/ UNCHANGED vars
    BY <2>1 DEF Lapse, handlers, team, vars, RunsAlone
  <2>2. ASSUME NEW r \in Requests, Reads(r) \/ Writes(r) PROVE RunsAlone'
    <3>1. Local(r)
      BY <2>0, <2>2, ReadsFit, WritesFit
    <3>2. /\ at'[r] = "idle" => ask'[r] = NoAsk
          /\ at'[r] # "idle" => toldRole'[r] = "none"
      BY <2>2, WriterEffect DEF RunsAlone
    <3>3. Serialized /\ at'[r] \in {"check", "consume", "members", "write"} => writer' = r
      BY <2>2, WriterEffect
    <3>4. Serialized /\ at'[r] = "write" /\ ask'[r].op = "accept" =>
            heldThen'[r] = held'[ask'[r].actor]
      BY <2>2, WriterEffect
    <3>5. ASSUME NEW o \in Requests \ {r}
          PROVE  /\ at'[o] = "idle" => ask'[o] = NoAsk
                 /\ at'[o] # "idle" => toldRole'[o] = "none"
                 /\ Serialized /\ at'[o] \in {"check", "consume", "members", "write"} =>
                      writer' = o
                 /\ Serialized /\ at'[o] = "write" /\ ask'[o].op = "accept" =>
                      heldThen'[o] = held'[ask'[o].actor]
      <4>1. /\ at'[o] = at[o] /\ ask'[o] = ask[o] /\ heldThen'[o] = heldThen[o]
            /\ toldRole'[o] = toldRole[o]
        BY <2>2, <3>1, WriterEffect DEF Local
      <4>2. ASSUME Serialized, at[o] \in {"check", "consume", "members", "write"}
            PROVE  Submit(r) /\ writer = o
        BY <2>2, <4>2, WriterEffect, ConstantsOK DEF RunsAlone
      <4>3. Submit(r) => writer' = writer /\ held' = held
        BY <2>2, WriterEffect DEF Submit, team
      <4>4. QED
        BY <4>1, <4>2, <4>3 DEF RunsAlone
    <3>6. QED
      BY <3>2, <3>3, <3>4, <3>5 DEF RunsAlone
  <2>3. QED
    BY <2>1, <2>2, NextSplits DEF Writes
<1>3. QED
  BY <1>1, <1>2, Invariance, PTL DEF InvitationsSpec

\* On SQLite an acceptance never reports a stronger role than the membership
\* grants when its transaction ends.
THEOREM AnswersDoNotOutrun ==
  ASSUME Serialized
  PROVE  InvitationsSpec => AnswerNeverOutrunsGrant
<1>1. IInv /\ RunsAlone /\ [InvitationsNext]_vars =>
        [\A r \in Requests : ask[r].op = "accept" =>
           ~Outranks(toldRole'[r], held'[ask[r].actor])]_vars
  <2> SUFFICES ASSUME IInv, RunsAlone, [InvitationsNext]_vars, NEW r \in Requests,
                      ask[r].op = "accept"
               PROVE  ~Outranks(toldRole'[r], held'[ask[r].actor])
    OBVIOUS
  <2>0. /\ TypeOK /\ ask[r] \in AnyAsk /\ ask[r].actor \in Adults
        /\ at[r] # "idle" /\ toldRole[r] = "none"
        /\ held \in [Adults -> Roles]
    <3>1. TypeOK /\ ask[r] \in AnyAsk
      BY DEF IInv, TypeOK, AnyAsk
    <3>2. ask[r] # NoAsk
      BY DEF NoAsk
    <3>3. QED
      BY <3>1, <3>2, AskFields DEF RunsAlone, TypeOK
  <2>1. held'[ask[r].actor] \in Roles
    BY <2>0, TypeStep DEF TypeOK
  <2>2. CASE toldRole'[r] = "none"
    BY <2>1, <2>2 DEF Outranks, Rank, Roles
  <2>3. CASE toldRole'[r] # "none"
    <3>1. ~(Lapse \/ UNCHANGED vars)
      BY <2>0, <2>3 DEF Lapse, handlers, vars
    <3>2. PICK o \in Requests : Reads(o) \/ Writes(o)
      BY <3>1, NextSplits DEF Writes
    <3>3. o = r
      BY <2>0, <2>3, <3>2, WriterEffect
    <3>4. CheckAcceptance(r) \/ WriteAcceptance(r)
      <4>1. CASE Writes(r)
        BY <4>1 DEF Writes, WriteCreate, WriteResend, WriteRevoke, WriteMember
      <4>2. CASE Submit(r) \/ Lock(r) \/ CheckDecision(r) \/ Find(r) \/ Consume(r)
                 \/ ReadMemberships(r) \/ ReadMember(r)
        BY <2>0, <2>3, <4>2, CloseEffect DEF Submit, Lock, CheckDecision, Find, Consume,
           ReadMemberships, ReadMember, Refuse, handlers, TypeOK
      <4>3. QED
        BY <3>2, <3>3, <4>1, <4>2 DEF Reads
    <3>5. CASE CheckAcceptance(r)
      <4>1. toldRole'[r] = held[ask[r].actor] /\ held' = held
        BY <2>0, <2>3, <3>5, CloseEffect DEF CheckAcceptance, Refuse, handlers, team
      <4>2. QED
        BY <2>1, <4>1 DEF Outranks, Rank, Roles
    <3>6. CASE WriteAcceptance(r)
      <4>1. at[r] = "write"
        BY <3>6 DEF WriteAcceptance
      <4>2. heldThen[r] = held[ask[r].actor]
        BY <4>1 DEF RunsAlone
      <4>3. PICK i \in Presented(r) :
              WriteMembership(r, i) /\ Close(r, "write", "ok", GrantedRole(r, i))
        BY <3>6 DEF WriteAcceptance
      <4>4. toldRole'[r] = GrantedRole(r, i)
        BY <2>0, <4>3, CloseEffect
      <4>5. held'[ask[r].actor] = GrantedRole(r, i)
        BY <2>0, <4>2, <4>3 DEF WriteMembership, GrantedRole
      <4>6. QED
        BY <2>1, <4>4, <4>5 DEF Outranks, Rank, Roles
    <3>7. QED
      BY <3>4, <3>5, <3>6
  <2>4. QED
    BY <2>2, <2>3
<1>2. QED
  BY <1>1, Invariance, RunsAloneHolds, PTL DEF InvitationsSpec, AnswerNeverOutrunsGrant
============================================================================
