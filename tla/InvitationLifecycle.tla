------------------------ MODULE InvitationLifecycle ------------------------
(***************************************************************************)
(* What a team invitation promises, with requests and transactions left    *)
(* out.  Each invitation is opened once with a fresh single-use token; the *)
(* token can be rotated while the invitation is pending, which kills the   *)
(* old one for good; a pending invitation is closed once, by one accepting *)
(* adult or by a revocation, and stays closed.                             *)
(***************************************************************************)
CONSTANTS
  Invites,     \* invitations.id
  Tokens,      \* hashes of bearer tokens; a token is never generated twice
  Adults,      \* people with an account
  Nobody,      \* SQL NULL in a person column
  NoToken      \* the token of an invitation that does not exist yet

ASSUME LifecycleConstantsOK ==
  /\ Nobody \notin Adults
  /\ NoToken \notin Tokens

VARIABLES
  status,      \* the lifecycle column; "none" before the row exists
  token,       \* the token hash stored now
  live,        \* the stored expiry is still ahead
  acceptedBy,  \* who accepted it
  issued       \* every token ever stored

invitationRows == <<status, token, live, acceptedBy, issued>>

Statuses == {"none", "pending", "accepted", "revoked"}

RowsOK ==
  /\ status \in [Invites -> Statuses]
  /\ token \in [Invites -> Tokens \cup {NoToken}]
  /\ live \in [Invites -> BOOLEAN]
  /\ acceptedBy \in [Invites -> Adults \cup {Nobody}]
  /\ issued \subseteq Tokens

Init ==
  /\ status = [i \in Invites |-> "none"]
  /\ token = [i \in Invites |-> NoToken]
  /\ live = [i \in Invites |-> FALSE]
  /\ acceptedBy = [i \in Invites |-> Nobody]
  /\ issued = {}

\* A token is stored on an invitation, with a full lifetime ahead of it.
Store(i, t) ==
  /\ t \in Tokens \ issued
  /\ token' = [token EXCEPT ![i] = t]
  /\ live' = [live EXCEPT ![i] = TRUE]
  /\ issued' = issued \cup {t}

Open(i, t) ==
  /\ status[i] = "none"
  /\ status' = [status EXCEPT ![i] = "pending"]
  /\ Store(i, t)
  /\ UNCHANGED acceptedBy

\* An expired invitation is still pending: rotating it re-arms it.
Rotate(i, t) ==
  /\ status[i] = "pending"
  /\ Store(i, t)
  /\ UNCHANGED <<status, acceptedBy>>

Accept(i, p) ==
  /\ status[i] = "pending"
  /\ status' = [status EXCEPT ![i] = "accepted"]
  /\ acceptedBy' = [acceptedBy EXCEPT ![i] = p]
  /\ UNCHANGED <<token, live, issued>>

Revoke(i) ==
  /\ status[i] = "pending"
  /\ status' = [status EXCEPT ![i] = "revoked"]
  /\ UNCHANGED <<token, live, acceptedBy, issued>>

\* Seven days pass.  Nothing writes the row.
Expire(i) ==
  /\ status[i] = "pending" /\ live[i]
  /\ live' = [live EXCEPT ![i] = FALSE]
  /\ UNCHANGED <<status, token, acceptedBy, issued>>

Next ==
  \E i \in Invites :
    \/ \E t \in Tokens : Open(i, t) \/ Rotate(i, t)
    \/ \E p \in Adults : Accept(i, p)
    \/ Revoke(i)
    \/ Expire(i)

Spec == Init /\ [][Next]_invitationRows
============================================================================
