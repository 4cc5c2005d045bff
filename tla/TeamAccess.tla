----------------------------- MODULE TeamAccess -----------------------------
(***************************************************************************)
(* Teams, seasons, rosters and the adults' grants, and the one policy that *)
(* decides what an adult may do (packages/domain/src/policies.ts, loaded   *)
(* with evidence by apps/web/app/lib/server/authorization.ts and asked by  *)
(* teams.ts and occurrence-access.ts).                                     *)
(*                                                                         *)
(* Every operation here is one transaction over rows of one team; how      *)
(* statements of a co-coach edit interleave with an acceptance is the      *)
(* subject of Invitations.  Rows are only ever active: no route archives a *)
(* team or a season or revokes a grant.                                    *)
(***************************************************************************)
EXTENDS Naturals, FiniteSets

CONSTANTS
  People,        \* adults with an account
  Teams, Seasons, Children,
  Nobody,        \* the creator of a team that does not exist
  NoTeam,        \* the team of a season that does not exist
  NoSeason, NoChild   \* a target that names none

ASSUME AccessConstantsOK ==
  /\ Nobody \notin People /\ NoTeam \notin Teams
  /\ NoSeason \notin Seasons /\ NoChild \notin Children

VARIABLES
  active,      \* the people whose account and person rows are active
  creator,     \* teams.created_by_person_id
  seasonOf,    \* the team of each season
  banded,      \* the seasons with a lesson age band
  grants,      \* adult_memberships: team, person, role
  rostered,    \* memberships of participants: season, child
  edges        \* guardian_relationships: guardian, child, permissions

accessVars == <<active, creator, seasonOf, banded, grants, rostered, edges>>

----------------------------------------------------------------------------
Roles == {"adult", "coach", "owner"}
RoleRank == [adult |-> 1, coach |-> 2, owner |-> 3]

Reads == {"team.read", "season.read", "roster.read"}
Operates == {"team.operations.manage", "roster.manage", "participant.read",
             "participant.manage"}
Delegates == {"memberships.manage", "roles.manage", "team.settings.manage",
              "season.lessons.manage"}
Permissions == Reads \cup Operates \cup Delegates
Guarding == {"participant.read", "participant.manage", "team.read", "season.read"}
EdgePermissions == {"participant.read", "participant.manage"}

\* strongestTeamRole over the creator's implicit ownership and the grants.
HeldRoles(p, t) ==
  {g.role : g \in {h \in grants : h.team = t /\ h.person = p}}
    \cup (IF creator[t] = p THEN {"owner"} ELSE {})
Strongest(roles) ==
  CHOOSE r \in roles : \A q \in roles : RoleRank[q] <= RoleRank[r]

\* teamPermission and teamRoleCapabilities.
RolePermits(role, perm) ==
  \/ perm \in Reads
  \/ perm \in Operates /\ role \in {"owner", "coach"}
  \/ perm \in Delegates /\ role = "owner"

OnRoster(s, k) == [season |-> s, child |-> k] \in rostered

GuardianPermits(p, perm, k) ==
  /\ k # NoChild
  /\ perm \in Guarding
  /\ \E e \in edges :
       /\ e.guardian = p /\ e.child = k
       /\ perm \in {"team.read", "season.read"} \cup e.permissions

\* The scope of a target: the season is the team's, and the child is on that
\* season's roster.  authorizationContext looks for no roster row when the
\* target names a child and no season.
InScopeBug(t, s, k) ==
  /\ creator[t] # Nobody
  /\ s # NoSeason => seasonOf[s] = t
InScope(t, s, k) ==
  /\ creator[t] # Nobody
  /\ s # NoSeason => seasonOf[s] = t
  /\ k # NoChild => s # NoSeason /\ OnRoster(s, k)

\* evaluatePolicy, for a target that names a persisted team.
Allowed(p, perm, t, s, k) ==
  /\ p \in active
  /\ InScope(t, s, k)
  /\ HeldRoles(p, t) # {}
  /\ \/ RolePermits(Strongest(HeldRoles(p, t)), perm)
     \/ GuardianPermits(p, perm, k)

\* teamAccess, manageableActiveTeam and ownedActiveTeam.
MayRead(p, t) == Allowed(p, "team.read", t, NoSeason, NoChild)
MayManage(p, t) ==
  MayRead(p, t) /\ Allowed(p, "team.operations.manage", t, NoSeason, NoChild)
MayDelegate(p, t) ==
  MayRead(p, t) /\ Allowed(p, "memberships.manage", t, NoSeason, NoChild)

----------------------------------------------------------------------------
AccessInit ==
  /\ active = {}
  /\ creator = [t \in Teams |-> Nobody]
  /\ seasonOf = [s \in Seasons |-> NoTeam]
  /\ banded = {}
  /\ grants = {}
  /\ rostered = {}
  /\ edges = {}

\* Signing in makes an active account; an operator may disable one.
RegisterAdult(p) ==
  /\ active' = active \cup {p}
  /\ UNCHANGED <<creator, seasonOf, banded, grants, rostered, edges>>

DisableAdult(p) ==
  /\ active' = active \ {p}
  /\ UNCHANGED <<creator, seasonOf, banded, grants, rostered, edges>>

CreateTeam(p, t) ==
  /\ p \in active
  /\ creator[t] = Nobody
  /\ creator' = [creator EXCEPT ![t] = p]
  /\ UNCHANGED <<active, seasonOf, banded, grants, rostered, edges>>

CreateSeason(p, t, s) ==
  /\ MayManage(p, t)
  /\ seasonOf[s] = NoTeam
  /\ seasonOf' = [seasonOf EXCEPT ![s] = t]
  /\ UNCHANGED <<active, creator, banded, grants, rostered, edges>>

\* setSeasonLessonAgeBand sets a band or clears it.
SetAgeBand(p, t, s) ==
  /\ MayRead(p, t)
  /\ seasonOf[s] = t
  /\ Allowed(p, "season.lessons.manage", t, s, NoChild)
  /\ banded' \in {banded \cup {s}, banded \ {s}}
  /\ UNCHANGED <<active, creator, seasonOf, grants, rostered, edges>>

\* setCoCoachRole: owners, by creation or by grant, keep their role.
KeepsRoleBug(q, t) == creator[t] = q
KeepsRole(q, t) ==
  \/ creator[t] = q
  \/ "owner" \in HeldRoles(q, t)

SetCoCoachRole(p, t, q, role) ==
  /\ MayDelegate(p, t)
  /\ ~KeepsRole(q, t)
  /\ role = "coach" => q \in active
  /\ HeldRoles(q, t) # {}
  /\ grants' = {IF g.team = t /\ g.person = q
                  THEN [g EXCEPT !.role = role] ELSE g : g \in grants}
  /\ UNCHANGED <<active, creator, seasonOf, banded, rostered, edges>>

\* acceptInvitation: an invited adult's grant is inserted, or raised when the
\* invited role outranks the held one; a guardian's edge is bound to the child.
\* Whose invitation it was is the subject of Invitations.
AcceptGrant(q, t, role) ==
  /\ q \in active
  /\ creator[t] \notin {Nobody, q}
  /\ LET held == {g \in grants : g.team = t /\ g.person = q} IN
     /\ \A g \in held : RoleRank[g.role] < RoleRank[role]
     /\ grants' = (grants \ held) \cup {[team |-> t, person |-> q, role |-> role]}
  /\ UNCHANGED <<active, creator, seasonOf, banded, rostered, edges>>

BindGuardian(q, t, s, k, perms) ==
  /\ q \in active
  /\ seasonOf[s] = t /\ OnRoster(s, k)
  /\ HeldRoles(q, t) # {}
  /\ ~\E e \in edges : e.guardian = q /\ e.child = k
  /\ edges' = edges \cup {[guardian |-> q, child |-> k, permissions |-> perms]}
  /\ UNCHANGED <<active, creator, seasonOf, banded, grants, rostered>>

\* createRosteredParticipant: every child is created for one season.
AddChild(p, t, s, k) ==
  /\ MayManage(p, t)
  /\ seasonOf[s] = t
  /\ ~\E r \in rostered : r.child = k
  /\ rostered' = rostered \cup {[season |-> s, child |-> k]}
  /\ UNCHANGED <<active, creator, seasonOf, banded, grants, edges>>

AccessNext ==
  \E p \in People, t \in Teams :
    \/ RegisterAdult(p)
    \/ DisableAdult(p)
    \/ CreateTeam(p, t)
    \/ \E q \in People, role \in {"coach", "adult"} : SetCoCoachRole(p, t, q, role)
    \/ \E role \in Roles : AcceptGrant(p, t, role)
    \/ \E s \in Seasons :
         \/ CreateSeason(p, t, s)
         \/ SetAgeBand(p, t, s)
         \/ \E k \in Children :
              \/ AddChild(p, t, s, k)
              \/ \E perms \in SUBSET EdgePermissions : BindGuardian(p, t, s, k, perms)

AccessSpec == AccessInit /\ [][AccessNext]_accessVars

----------------------------------------------------------------------------
AccessTypeOK ==
  /\ active \subseteq People
  /\ creator \in [Teams -> People \cup {Nobody}]
  /\ seasonOf \in [Seasons -> Teams \cup {NoTeam}]
  /\ banded \subseteq Seasons
  /\ grants \subseteq [team : Teams, person : People, role : Roles]
  /\ rostered \subseteq [season : Seasons, child : Children]
  /\ edges \subseteq [guardian : People, child : Children,
                      permissions : SUBSET EdgePermissions]

\* Authority stays in the team it was given in.  What an adult holds elsewhere
\* -- a role in another team, or an edge to a child that plays there -- opens
\* nothing here: every permission takes a relation of that adult to this very
\* team, and a permission on a child takes that the child is on the roster of
\* the named season of this team.
AuthorityStaysInTheTeam ==
  \A p \in active, t \in Teams :
    /\ creator[t] # p /\ (~\E g \in grants : g.team = t /\ g.person = p) =>
         \A perm \in Permissions, s \in Seasons \cup {NoSeason},
            k \in Children \cup {NoChild} : ~Allowed(p, perm, t, s, k)
    /\ \A s \in Seasons \cup {NoSeason}, k \in Children, perm \in EdgePermissions :
         Allowed(p, perm, t, s, k) =>
           /\ \E r \in rostered : r.child = k /\ seasonOf[r.season] = t
           /\ \/ MayManage(p, t)
              \/ \E e \in edges : e.guardian = p /\ e.child = k /\ perm \in e.permissions

\* Whoever may delegate in a team keeps that while the account is active,
\* whatever co-coach edits and acceptances follow: a team is never left without
\* the adults who own it.
DelegatesAreNeverDemoted ==
  [][\A p \in People, t \in Teams :
       MayDelegate(p, t) /\ p \in active' => MayDelegate(p, t)']_accessVars
=============================================================================
