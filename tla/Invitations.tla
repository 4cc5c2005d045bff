---------------------------- MODULE Invitations ----------------------------
(***************************************************************************)
(* Invitations to one team (apps/web/app/lib/server/invitations.ts), with  *)
(* the co-coach edits that write the same memberships (teams.ts).          *)
(*                                                                         *)
(* A request is one HTTP handler running one transaction.  Every decision  *)
(* about an invitation first writes the team's row, a lock held until the  *)
(* transaction ends; a co-coach edit takes no such lock.  What a           *)
(* transaction writes becomes visible when it commits.  On SQLite the      *)
(* transactions run one at a time (Serialized = TRUE); on PostgreSQL each  *)
(* statement reads the rows committed before it (Serialized = FALSE).      *)
(*                                                                         *)
(* The team has one child.  Its guardian relationships are the edges to    *)
(* placeholder guardians that an owner may name for replacement, and the   *)
(* edges that acceptance inserts.                                          *)
(***************************************************************************)
EXTENDS InvitationLifecycle, Naturals

CONSTANTS
  Creator,      \* teams.created_by_person_id
  Labels,       \* invitee labels
  Edges,        \* guardian relationships of placeholder guardians
  NoEdge,       \* SQL NULL in replaces_guardian_relationship_id
  Offers,       \* what owners may ask for: some members of Offer, below
  Placeholder,  \* a person without an account
  Requests,     \* handlers that may be running at once
  NoRequest,    \* nobody holds a lock
  Serialized    \* TRUE on SQLite, FALSE on PostgreSQL

ASSUME ConstantsOK ==
  /\ Creator \in Adults
  /\ Placeholder \notin Adults \cup {Nobody}
  /\ NoEdge \notin Edges
  /\ NoRequest \notin Requests
  /\ Serialized \in BOOLEAN

VARIABLES
  offer,      \* the other columns of each invitation
  held,       \* the role each adult's active membership grants
  guardian,   \* the guardian an edge names, Nobody once it is revoked
  inserted,   \* how many edges acceptance inserted for each adult
  lock,       \* the transaction that holds the team's row
  writer,     \* SQLite only: the one transaction that is running
  at,         \* where each handler stands
  ask,        \* what it was called with
  heldThen,   \* the membership role an acceptance read
  answer,     \* what the handler told its caller
  toldRole    \* the role it said the person has

team == <<offer, held, guardian, inserted>>
handlers == <<ask, heldThen, answer, toldRole>>
vars == <<status, token, live, acceptedBy, issued, offer, held, guardian,
          inserted, lock, writer, at, ask, heldThen, answer, toldRole>>

----------------------------------------------------------------------------
(* Values.  A definition that carries the word Bug in its name is the bug   *)
(* its neighbour could have had; no specification uses it.                  *)

Roles == {"none", "adult", "coach", "owner"}
InvitedRoles == {"adult", "owner"}

\* roleRank
Rank == [role \in Roles |->
           CASE role = "none"  -> 0
             [] role = "adult" -> 1
             [] role = "coach" -> 2
             [] role = "owner" -> 3]

Outranks(role, other) == Rank[role] > Rank[other]

\* to is the recipient binding, resolved to the one person that meets it.
Offer ==
  {o \in [role : InvitedRoles, label : Labels, to : Adults \cup {Placeholder},
          child : BOOLEAN, replaces : Edges \cup {NoEdge}] :
     o.replaces # NoEdge => o.child}
NoOffer == [role |-> "none"]

ASSUME OffersOK == Offers \subseteq Offer

NoAsk == [op |-> "none"]
OwnerAsk ==
  [op : {"create"}, actor : Adults, offer : Offers]
    \cup [op : {"resend"}, actor : Adults, invite : Invites, offer : Offers]
    \cup [op : {"revoke"}, actor : Adults, invite : Invites]
AcceptAsk == [op : {"accept"}, actor : Adults, token : Tokens]
CoachAsk == [op : {"coach", "adult"}, actor : Adults, who : Adults]

\* Each place names the statements the handler runs next.
Places == {"idle", "find", "lock", "check", "consume", "members", "member", "write"}

\* ownedActiveTeam: the creator, and every member whose role is owner.
IsOwner(p) == p = Creator \/ held[p] = "owner"

Live(i) == status[i] = "pending" /\ live[i]

\* Bug: an edge whose guardian has an account counts too.
ReplacementIsEligibleBug(e) == guardian[e] # Nobody

\* replacementIsEligible: the edge is active and its guardian has no account.
ReplacementIsEligible(e) == guardian[e] = Placeholder

HasEdge(p) == inserted[p] > 0 \/ \E e \in Edges : guardian[e] = p

----------------------------------------------------------------------------
(* Transactions *)

\* A statement runs; on SQLite the whole transaction excludes the others.
Statement(r, from, to) ==
  /\ at[r] = from
  /\ at' = [at EXCEPT ![r] = to]
  /\ writer \in {r, NoRequest}
  /\ writer' = IF Serialized THEN r ELSE NoRequest

\* The transaction ends, its locks go, and the caller is told.
Close(r, from, said, role) ==
  /\ at[r] = from
  /\ at' = [at EXCEPT ![r] = "idle"]
  /\ writer \in {r, NoRequest}
  /\ writer' = NoRequest
  /\ lock' = IF lock = r THEN NoRequest ELSE lock
  /\ ask' = [ask EXCEPT ![r] = NoAsk]
  /\ heldThen' = [heldThen EXCEPT ![r] = "none"]
  /\ answer' = [answer EXCEPT ![r] = said]
  /\ toldRole' = [toldRole EXCEPT ![r] = role]

Refuse(r, from) ==
  /\ Close(r, from, "refused", "none")
  /\ UNCHANGED <<invitationRows, team>>

FreshTokens == Tokens \ issued
FreshInvites == {i \in Invites : status[i] = "none"}

----------------------------------------------------------------------------
(* lockTeamInvitations *)

\* Bug: the team's row is not written first.
LockBug(r) ==
  /\ Statement(r, "lock", "check")
  /\ UNCHANGED <<invitationRows, team, handlers, lock>>

Lock(r) ==
  /\ lock = NoRequest
  /\ Statement(r, "lock", "check")
  /\ lock' = r
  /\ UNCHANGED <<invitationRows, team, handlers>>

----------------------------------------------------------------------------
(* createInvitation, resendInvitation, revokeInvitation *)

\* confirmedRecipient and replacementIsEligible, on what an owner asks for.
Eligible(o) ==
  /\ o.to \in Adults
  /\ o.replaces # NoEdge => ReplacementIsEligible(o.replaces)

\* An expired invitation does not occupy its label.
MayCreate(q) ==
  /\ IsOwner(q.actor)
  /\ Eligible(q.offer)
  /\ \A i \in Invites : Live(i) => offer[i].label # q.offer.label

\* Bug: the replacement is not compared with what the invitation is about.
MayResendBug(q) ==
  IsOwner(q.actor) /\ status[q.invite] = "pending" /\ Eligible(q.offer)

\* A replacement can only be named for an invitation about a child.
MayResend(q) ==
  /\ IsOwner(q.actor)
  /\ status[q.invite] = "pending"
  /\ Eligible(q.offer)
  /\ q.offer.replaces # NoEdge => offer[q.invite].child

MayRevoke(q) == IsOwner(q.actor) /\ status[q.invite] \in {"pending", "revoked"}

\* Bounds: Invites caps the rows ever created and Tokens the tokens ever
\* stored; a request beyond them is refused.
MayDecide(q) == \/ q.op = "create" /\ MayCreate(q) /\ FreshInvites # {} /\ FreshTokens # {}
                \/ q.op = "resend" /\ MayResend(q) /\ FreshTokens # {}
                \/ q.op = "revoke" /\ MayRevoke(q)

CheckDecision(r) ==
  /\ at[r] = "check"
  /\ ask[r].op \in {"create", "resend", "revoke"}
  /\ \/ /\ MayDecide(ask[r])
        /\ Statement(r, "check", "write")
        /\ UNCHANGED <<invitationRows, team, handlers, lock>>
     \/ /\ ~MayDecide(ask[r])
        /\ Refuse(r, "check")

\* The row and its outbox row are inserted together.
WriteCreate(r) ==
  /\ at[r] = "write"
  /\ ask[r].op = "create"
  /\ \E i \in Invites, t \in Tokens :
       /\ Open(i, t)
       /\ offer' = [offer EXCEPT ![i] = ask[r].offer]
  /\ Close(r, "write", "ok", "none")
  /\ UNCHANGED <<held, guardian, inserted>>

\* The recipient is bound again; a replacement is kept unless one is named.
Rebound(old, new) ==
  [role |-> old.role, label |-> old.label, to |-> new.to, child |-> old.child,
   replaces |-> IF new.replaces = NoEdge THEN old.replaces ELSE new.replaces]

\* The UPDATE names the row by its key alone.
WriteResend(r) ==
  LET i == ask[r].invite IN
  /\ at[r] = "write"
  /\ ask[r].op = "resend"
  /\ \E t \in Tokens : Store(i, t)
  /\ offer' = [offer EXCEPT ![i] = Rebound(offer[i], ask[r].offer)]
  /\ Close(r, "write", "ok", "none")
  /\ UNCHANGED <<status, acceptedBy, held, guardian, inserted>>

\* Revoking twice writes nothing new.
WriteRevoke(r) ==
  /\ at[r] = "write"
  /\ ask[r].op = "revoke"
  /\ status' = [status EXCEPT ![ask[r].invite] = "revoked"]
  /\ Close(r, "write", "ok", "none")
  /\ UNCHANGED <<token, live, acceptedBy, issued, team>>

----------------------------------------------------------------------------
(* acceptInvitation *)

Presented(r) == {i \in Invites : token[i] = ask[r].token}

\* The first read only finds the team to lock.
Find(r) ==
  /\ at[r] = "find"
  /\ \/ /\ Presented(r) # {}
        /\ Statement(r, "find", "lock")
        /\ UNCHANGED <<invitationRows, team, handlers, lock>>
     \/ /\ Presented(r) = {}
        /\ Refuse(r, "find")

\* Bug: whoever presents a used token is told of it.
IsRepeatBug(r, i) == status[i] = "accepted" /\ held[ask[r].actor] # "none"

\* The adult who already accepted is told again what they hold now.
IsRepeat(r, i) ==
  /\ status[i] = "accepted"
  /\ acceptedBy[i] = ask[r].actor
  /\ held[ask[r].actor] # "none"

\* Bug: the recipient binding is not compared with the caller.
MayAcceptBug(r, i) == r \in Requests /\ Live(i)

MayAccept(r, i) ==
  /\ Live(i)
  /\ offer[i].to = ask[r].actor
  /\ offer[i].replaces # NoEdge => ReplacementIsEligible(offer[i].replaces)

CheckAcceptance(r) ==
  /\ at[r] = "check"
  /\ ask[r].op = "accept"
  /\ \/ \E i \in Presented(r) :
          /\ MayAccept(r, i)
          /\ Statement(r, "check", "consume")
          /\ UNCHANGED <<invitationRows, team, handlers, lock>>
     \/ \E i \in Presented(r) :
          /\ IsRepeat(r, i)
          /\ Close(r, "check", "ok", held[ask[r].actor])
          /\ UNCHANGED <<invitationRows, team>>
     \/ /\ \A i \in Presented(r) : ~MayAccept(r, i) /\ ~IsRepeat(r, i)
        /\ Refuse(r, "check")

\* The conditional UPDATE must change one row.  Its columns are still those
\* of the check: they only change together with the token.
Consume(r) ==
  /\ at[r] = "consume"
  /\ IF \E i \in Presented(r) : status[i] = "pending"
     THEN /\ Statement(r, "consume", "members")
          /\ UNCHANGED <<invitationRows, team, handlers, lock>>
     ELSE Refuse(r, "consume")

ReadMemberships(r) ==
  /\ Statement(r, "members", "write")
  /\ heldThen' = [heldThen EXCEPT ![r] = held[ask[r].actor]]
  /\ UNCHANGED <<invitationRows, team, lock, ask, answer, toldRole>>

\* No membership was read: one is inserted.  A weaker one was read: it is set
\* to the invited role.  Otherwise the row is left alone.
GrantedRole(r, i) ==
  IF Outranks(offer[i].role, heldThen[r]) THEN offer[i].role ELSE heldThen[r]

\* Bug: the ranks are not compared, so a weaker invitation demotes.
WriteMembershipBug(r, i) == held' = [held EXCEPT ![ask[r].actor] = offer[i].role]

WriteMembership(r, i) ==
  held' = IF Outranks(offer[i].role, heldThen[r])
          THEN [held EXCEPT ![ask[r].actor] = offer[i].role]
          ELSE held

\* Bug: an adult who is a guardian already gets a second edge.
BindGuardianBug(p, o) ==
  /\ guardian' = IF o.replaces = NoEdge THEN guardian
                 ELSE [guardian EXCEPT ![o.replaces] = p]
  /\ inserted' = IF o.child /\ o.replaces = NoEdge
                 THEN [inserted EXCEPT ![p] = @ + 1] ELSE inserted

\* bindGuardianOnAccept: the named edge is handed over, or revoked when the
\* adult has one; without a named edge one is inserted unless they have one.
BindGuardian(p, o) ==
  /\ guardian' = IF o.replaces = NoEdge THEN guardian
                 ELSE [guardian EXCEPT ![o.replaces] = IF HasEdge(p) THEN Nobody ELSE p]
  /\ inserted' = IF o.child /\ o.replaces = NoEdge /\ ~HasEdge(p)
                 THEN [inserted EXCEPT ![p] = @ + 1] ELSE inserted

WriteAcceptance(r) ==
  /\ at[r] = "write"
  /\ ask[r].op = "accept"
  /\ \E i \in Presented(r) :
       /\ status' = [status EXCEPT ![i] = "accepted"]
       /\ acceptedBy' = [acceptedBy EXCEPT ![i] = ask[r].actor]
       /\ WriteMembership(r, i)
       /\ BindGuardian(ask[r].actor, offer[i])
       /\ Close(r, "write", "ok", GrantedRole(r, i))
  /\ UNCHANGED <<token, live, issued, offer>>

----------------------------------------------------------------------------
(* setCoCoachRole (teams.ts) *)

MayChangeRole(q) ==
  /\ IsOwner(q.actor)
  /\ q.who # Creator
  /\ held[q.who] \in {"adult", "coach"}

ReadMember(r) ==
  /\ at[r] = "member"
  /\ \/ /\ MayChangeRole(ask[r])
        /\ Statement(r, "member", "write")
        /\ UNCHANGED <<invitationRows, team, handlers, lock>>
     \/ /\ ~MayChangeRole(ask[r])
        /\ Refuse(r, "member")

\* Bug: the UPDATE does not look at the role again.
NewRoleBug(current, role) == IF current = "none" THEN current ELSE role

\* The UPDATE matches only memberships that are not an owner's.
NewRole(current, role) == IF current \in {"adult", "coach"} THEN role ELSE current

\* The caller is told the role that was asked for.
WriteMember(r) ==
  LET q == ask[r] IN
  /\ at[r] = "write"
  /\ q.op \in {"coach", "adult"}
  /\ held' = [held EXCEPT ![q.who] = NewRole(@, q.op)]
  /\ Close(r, "write", "ok", q.op)
  /\ UNCHANGED <<invitationRows, offer, guardian, inserted>>

----------------------------------------------------------------------------
(* The specification *)

Begins(q) == CASE q.op = "accept"           -> "find"
               [] q.op \in {"coach", "adult"} -> "member"
               [] OTHER                      -> "lock"

\* A signed-in adult calls a route.
Submit(r) ==
  /\ at[r] = "idle"
  /\ \E q \in OwnerAsk \cup AcceptAsk \cup CoachAsk :
       /\ ask' = [ask EXCEPT ![r] = q]
       /\ at' = [at EXCEPT ![r] = Begins(q)]
  /\ answer' = [answer EXCEPT ![r] = "none"]
  /\ toldRole' = [toldRole EXCEPT ![r] = "none"]
  /\ UNCHANGED <<invitationRows, team, lock, writer, heldThen>>

Lapse ==
  /\ \E i \in Invites : Expire(i)
  /\ UNCHANGED <<team, handlers, lock, writer, at>>

Decide(r) ==
  Lock(r) \/ CheckDecision(r) \/ WriteCreate(r) \/ WriteResend(r) \/ WriteRevoke(r)

AcceptToken(r) ==
  \/ Find(r) \/ CheckAcceptance(r) \/ Consume(r)
  \/ ReadMemberships(r) \/ WriteAcceptance(r)

SetCoCoachRole(r) == ReadMember(r) \/ WriteMember(r)

InvitationsInit ==
  /\ Init
  /\ offer = [i \in Invites |-> NoOffer]
  /\ held = [p \in Adults |-> "none"]
  /\ guardian = [e \in Edges |-> Placeholder]
  /\ inserted = [p \in Adults |-> 0]
  /\ lock = NoRequest
  /\ writer = NoRequest
  /\ at = [r \in Requests |-> "idle"]
  /\ ask = [r \in Requests |-> NoAsk]
  /\ heldThen = [r \in Requests |-> "none"]
  /\ answer = [r \in Requests |-> "none"]
  /\ toldRole = [r \in Requests |-> "none"]

InvitationsNext ==
  \/ \E r \in Requests :
       Submit(r) \/ Decide(r) \/ AcceptToken(r) \/ SetCoCoachRole(r)
  \/ Lapse

InvitationsSpec == InvitationsInit /\ [][InvitationsNext]_vars

----------------------------------------------------------------------------
(* Properties *)

\* Every variable keeps its type.
TypeOK ==
  /\ RowsOK
  /\ offer \in [Invites -> Offer \cup {NoOffer}]
  /\ held \in [Adults -> Roles]
  /\ guardian \in [Edges -> Adults \cup {Placeholder, Nobody}]
  /\ inserted \in [Adults -> Nat]
  /\ lock \in Requests \cup {NoRequest}
  /\ writer \in Requests \cup {NoRequest}
  /\ at \in [Requests -> Places]
  /\ ask \in [Requests -> OwnerAsk \cup AcceptAsk \cup CoachAsk \cup {NoAsk}]
  /\ heldThen \in [Requests -> Roles]
  /\ answer \in [Requests -> {"none", "ok", "refused"}]
  /\ toldRole \in [Requests -> Roles]

\* Every place belongs to some operations, and a request that is under way has
\* not been answered.
AsksFit ==
  \A r \in Requests :
    /\ at[r] \in {"lock", "check"} => ask[r] \in OwnerAsk \cup AcceptAsk
    /\ at[r] \in {"find", "consume", "members"} => ask[r] \in AcceptAsk
    /\ at[r] = "member" => ask[r] \in CoachAsk
    /\ at[r] = "write" => ask[r] # NoAsk
    /\ at[r] # "idle" => answer[r] = "none"

\* A request that decides about an invitation holds the team's row from its
\* first check to its commit, so no two of them are past Lock at once.
Deciding(r) ==
  \/ at[r] \in {"check", "consume", "members"}
  \/ at[r] = "write" /\ ask[r] \in OwnerAsk \cup AcceptAsk

LockIsHeld == \A r \in Requests : Deciding(r) => lock = r

\* A row that exists is filled in, and its token is its own.
RowsAreFilled ==
  /\ \A i \in Invites :
       /\ status[i] # "none" => offer[i] \in Offer /\ token[i] \in issued
       /\ status[i] = "none" => token[i] = NoToken
       /\ status[i] = "accepted" <=> acceptedBy[i] # Nobody
  /\ \A i, j \in Invites : token[i] = token[j] /\ token[i] # NoToken => i = j

\* What a request checked under the lock still holds when it writes.  The
\* memberships are not under the lock: a co-coach edit may have moved the
\* adult between adult and coach since they were read, and no further.
ChecksStillHold ==
  \A r \in Requests :
    LET q == ask[r] IN
    /\ at[r] = "write" /\ q.op = "create" =>
         \A i \in Invites : Live(i) => offer[i].label # q.offer.label
    /\ at[r] = "write" /\ q.op = "resend" =>
         /\ status[q.invite] = "pending"
         /\ q.offer.replaces # NoEdge => offer[q.invite].child
    /\ at[r] = "write" /\ q.op = "revoke" => status[q.invite] \in {"pending", "revoked"}
    /\ at[r] \in {"consume", "members", "write"} /\ q.op = "accept" =>
         \A i \in Presented(r) :
           /\ status[i] = "pending"
           /\ offer[i].to = q.actor
           /\ offer[i].replaces # NoEdge => ReplacementIsEligible(offer[i].replaces)
    /\ at[r] = "write" /\ q.op = "accept" =>
         /\ heldThen[r] = "none" <=> held[q.actor] = "none"
         /\ heldThen[r] = "owner" <=> held[q.actor] = "owner"

\* However requests interleave, each invitation lives the life of
\* InvitationLifecycle: a token is accepted once at most, never after it was
\* rotated away or revoked, and an accepted invitation is never revoked.
ImplementsLifecycle == Spec

\* What was accepted stays granted: no later acceptance of a weaker offer and
\* no co-coach edit takes the role below the one the adult accepted.
GrantsHold ==
  \A i \in Invites : status[i] = "accepted" =>
    ~Outranks(offer[i].role, held[acceptedBy[i]])

\* Nobody gets in uninvited: whoever has a membership accepted an offer made
\* to them, and whoever manages as an owner accepted an owner's offer.
MembersWereInvited ==
  \A p \in Adults :
    /\ held[p] # "none" =>
         \E i \in Invites : acceptedBy[i] = p /\ offer[i].to = p
    /\ held[p] = "owner" =>
         \E i \in Invites : acceptedBy[i] = p /\ offer[i].role = "owner"

\* Accepting an invitation about a child makes the adult its guardian, once:
\* never through two edges, whatever the order of the acceptances.
OneGuardianEdge ==
  \A p \in Adults :
    /\ HasEdge(p) <=> \E i \in Invites : acceptedBy[i] = p /\ offer[i].child
    /\ inserted[p] <= 1
    /\ \A e \in Edges : guardian[e] = p =>
         inserted[p] = 0 /\ \A f \in Edges \ {e} : guardian[f] # p

\* Only a placeholder is ever replaced: an edge held by somebody with an
\* account is neither handed to another adult nor revoked.
GuardiansAreNotDisplaced ==
  [][\A e \in Edges : guardian'[e] # guardian[e] => guardian[e] = Placeholder]_vars

\* Two owners who invite the same person at once do not both succeed: no
\* invitation is opened while another one with its label is live.
OneLiveInvitationIsOpened ==
  [][\A i \in Invites : status[i] = "none" /\ status'[i] = "pending" =>
       \A j \in Invites : Live(j) => offer[j].label # offer'[i].label]_vars

\* A request that was told ok was heard: the revoked link is dead, and the
\* accepted invitation is the caller's.
AnswersAreTrue ==
  [][\A r \in Requests : at[r] # "idle" /\ answer'[r] = "ok" =>
       /\ ask[r].op = "revoke" => status'[ask[r].invite] = "revoked"
       /\ ask[r].op = "accept" =>
            \E i \in Presented(r) :
              status'[i] = "accepted" /\ acceptedBy'[i] = ask[r].actor]_vars

\* An acceptance reports no stronger role than the membership grants when its
\* transaction ends.  It holds on SQLite; on PostgreSQL a co-coach edit can
\* commit between the acceptance's read of the membership and its answer.
AnswerNeverOutrunsGrant ==
  [][\A r \in Requests : ask[r].op = "accept" =>
       ~Outranks(toldRole'[r], held'[ask[r].actor])]_vars
============================================================================
