--------------------------- MODULE MCInvitations ---------------------------
(* Small instances of Invitations: an owner may invite a parent to manage   *)
(* the team or to follow a child and replace its placeholder guardian, both *)
(* under the family's label, and the team's creator to join it.             *)
EXTENDS Invitations, TLC

CONSTANTS parent, family, friend, e1

Manage == [role |-> "owner", label |-> family, to |-> parent,
           child |-> TRUE, replaces |-> NoEdge]
Follow == [role |-> "adult", label |-> family, to |-> parent,
           child |-> TRUE, replaces |-> e1]
Join == [role |-> "adult", label |-> friend, to |-> Creator,
         child |-> FALSE, replaces |-> NoEdge]
\* Two plain invitations of the parent, for the race with a co-coach edit.
Watch == [role |-> "adult", label |-> family, to |-> parent,
          child |-> FALSE, replaces |-> NoEdge]
WatchAgain == [role |-> "adult", label |-> friend, to |-> parent,
               child |-> FALSE, replaces |-> NoEdge]
RaceOffers == {Watch, WatchAgain}

MCOffers == {Manage, Follow, Join}

\* No guard reads what a caller was told, so states that differ only there
\* have the same future; the properties about answers are checked on steps.
Unanswered == <<status, token, live, acceptedBy, issued, offer, held, guardian,
                inserted, lock, writer, at, ask, heldThen>>

Symmetry == Permutations(Requests) \cup Permutations(Invites) \cup Permutations(Tokens)
============================================================================
