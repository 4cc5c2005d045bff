----------------------------- MODULE TeamReads -----------------------------
(***************************************************************************)
(* The projections of one adult, the viewer: the list of teams and a team's *)
(* roster (team-reads.ts).  Each is several statements without a            *)
(* transaction, so grants and guardians change between them.                *)
(***************************************************************************)
EXTENDS Naturals, FiniteSets

CONSTANTS
  Clubs,          \* teams
  RosterTeam,     \* the team whose roster is read
  Players,        \* the children on it
  Viewer, Kin     \* adults who may be guardians; the viewer is one

ASSUME ReadsAssumption == RosterTeam \in Clubs /\ Viewer \in Kin

VARIABLES
  roles,      \* the viewer's strongest role in each team
  guards,     \* active guardian edges: <<adult, child>>
  visit,      \* the request: [kind, step, pending, readable, guardians, teams]
  entitled    \* ghost: what the viewer was allowed at some moment of the request

readVars == <<roles, guards, visit, entitled>>

NoVisit == [kind |-> "none", step |-> "idle", pending |-> {}, readable |-> {},
            guardians |-> {}, teams |-> {}]

----------------------------------------------------------------------------
\* What an adult is entitled to: managers to every child, members to the
\* children they are guardians of.
EntitledNow(r, g) ==
  [read |-> {t \in Clubs : r[t] # "none"},
   manage |-> {t \in Clubs : r[t] \in {"coach", "owner"}},
   children |-> {c \in Players : \/ r[RosterTeam] \in {"coach", "owner"}
                                 \/ r[RosterTeam] = "adult" /\ <<Viewer, c>> \in g},
   edges |-> g]

Nothing == [read |-> {}, manage |-> {}, children |-> {}, edges |-> {}]

\* Every step adds what the viewer may see after it; a request starts afresh.
Observe(r, g, fresh) ==
  LET now == EntitledNow(r, g)
      before == IF fresh THEN EntitledNow(roles, guards) ELSE entitled
  IN entitled' = [k \in DOMAIN now |-> before[k] \cup now[k]]

NobodyVisits == visit = NoVisit /\ entitled = Nothing

ReadsInit ==
  /\ roles \in [Clubs -> {"none", "adult", "coach", "owner"}]
  /\ guards \in SUBSET (Kin \X Players)
  /\ NobodyVisits

\* An invitation is accepted or a co-coach's role set; owners keep theirs.
ChangeRole(t) ==
  /\ \E role \in {"adult", "coach"} :
       /\ roles[t] \notin {role, "owner"}
       /\ roles' = [roles EXCEPT ![t] = role]
  /\ Observe(roles', guards, FALSE) /\ UNCHANGED <<guards, visit>>

\* A guardian is attached, or a placeholder's edge handed to who accepts.
ChangeEdge(c) ==
  /\ \/ \E p \in Kin : guards' = guards \cup {<<p, c>>}
     \/ \E p, q \in Kin : /\ p # Viewer /\ <<p, c>> \in guards
                              /\ guards' = (guards \ {<<p, c>>}) \cup {<<q, c>>}
  /\ guards' # guards
  /\ Observe(roles, guards', FALSE) /\ UNCHANGED <<roles, visit>>

----------------------------------------------------------------------------
Continue(next) ==
  /\ visit' = next
  /\ Observe(roles, guards, visit.step = "idle")
  /\ UNCHANGED <<roles, guards>>

BeginRoster ==
  /\ visit.step = "idle"
  /\ Continue([NoVisit EXCEPT !.kind = "roster", !.step = "access"])

\* teamAccess, then loadRoster asks again for roster.read.
CheckAccess ==
  /\ visit.step \in {"access", "roster"}
  /\ Continue(IF roles[RosterTeam] = "none" THEN [visit EXCEPT !.step = "answered"]
              ELSE IF visit.step = "access" THEN [visit EXCEPT !.step = "roster"]
              ELSE [visit EXCEPT !.step = "children", !.pending = Players])

\* authorizeTeamOperation(participant.read), child by child.
MayReadChildBug(c) == roles[RosterTeam] # "none"
MayReadChild(c) ==
  /\ roles[RosterTeam] # "none"
  /\ roles[RosterTeam] \in {"coach", "owner"} \/ <<Viewer, c>> \in guards

CheckChild(c) ==
  /\ visit.step = "children" /\ c \in visit.pending
  /\ Continue([visit EXCEPT !.pending = @ \ {c},
                            !.readable = IF MayReadChild(c) THEN @ \cup {c} ELSE @])

ReadGuardians ==
  /\ visit.step = "children" /\ visit.pending = {}
  /\ Continue([visit EXCEPT !.step = "answered",
                 !.guardians = {e \in guards : e[2] \in visit.readable}])

\* listAccessibleTeams: the teams created or joined, then each one's access.
BeginTeams ==
  /\ visit.step = "idle"
  /\ Continue([NoVisit EXCEPT !.kind = "teams", !.step = "joined",
                 !.pending = {t \in Clubs : roles[t] = "owner"}])

ReadJoined ==
  /\ visit.step = "joined"
  /\ Continue([visit EXCEPT !.step = "teams", !.pending = @ \cup {t \in Clubs : roles[t] # "none"}])

ReadTeam(t) ==
  /\ visit.step = "teams" /\ t \in visit.pending
  /\ Continue([visit EXCEPT !.pending = @ \ {t},
                 !.teams = IF roles[t] = "none" THEN @
                           ELSE @ \cup {[team |-> t, manage |-> roles[t] \in {"coach", "owner"}]}])

AnswerTeams ==
  /\ visit.step = "teams" /\ visit.pending = {}
  /\ Continue([visit EXCEPT !.step = "answered"])

EndVisit ==
  /\ visit.step = "answered"
  /\ visit' = NoVisit /\ entitled' = Nothing /\ UNCHANGED <<roles, guards>>

ReadsNext ==
  \/ \E t \in Clubs : ChangeRole(t) \/ ReadTeam(t)
  \/ \E c \in Players : ChangeEdge(c) \/ CheckChild(c)
  \/ BeginRoster \/ CheckAccess \/ ReadGuardians \/ BeginTeams \/ ReadJoined \/ AnswerTeams
  \/ EndVisit

ReadsSpec == ReadsInit /\ [][ReadsNext]_readVars

----------------------------------------------------------------------------
\* team-reads.ts: a child's private fields and guardians are shown, and a team
\* listed as readable or manageable, only if the viewer was entitled to it at
\* some moment of the request; every guardian shown was one during it.
ProjectionsAreEntitled ==
  visit.step = "answered" =>
    /\ visit.readable \subseteq entitled.children
    /\ \A e \in visit.guardians : e \in entitled.edges /\ e[2] \in entitled.children
    /\ \A x \in visit.teams :
         x.team \in entitled.read /\ (x.manage => x.team \in entitled.manage)
=============================================================================
