--------------------------- MODULE Authentication ---------------------------
(***************************************************************************)
(* Signing in with a provider's identity: a challenge is handed out, the   *)
(* provider's token is verified against its nonce, and one transaction     *)
(* consumes the challenge and finds or makes the adult's account, before a *)
(* session is created (apps/web/app/lib/server/authentication.ts).         *)
(*                                                                         *)
(* The challenge is read before the verification, outside any transaction, *)
(* and again in the transaction.  Its UPDATE locks the row to the commit.  *)
(* On PostgreSQL two transactions of one identity both may find no link,   *)
(* no e-mail row and no consent: unique indexes fail the later one, which  *)
(* rolls back with its consumption of the challenge.                       *)
(***************************************************************************)
EXTENDS Naturals, FiniteSets, Database

CONSTANTS
  SignIns,       \* runs of the sign-in handler
  Challenges,
  Subjects,      \* provider identities
  Addresses,     \* the e-mail addresses the provider verifies
  NoAddress,     \* the provider names none, or one it did not verify
  NoAccount

ASSUME AuthConstantsOK == NoAddress \notin Addresses /\ NoAccount \notin SignIns

VARIABLES
  challenges,    \* authentication_challenges: absent, pending or consumed
  expired,       \* the challenges whose lifetime has passed
  links,         \* provider_identity_links; an account is named by the
                 \*   sign-in that made it
  disabled,      \* accounts an operator has made inactive
  mail,          \* verified_identity_emails
  consents,      \* adult_consents
  signIn,        \* where each sign-in stands and what it has read
  sessions       \* sign-in -> the account its session is for

authVars == <<database, challenges, expired, links, disabled, mail, consents,
              signIn, sessions>>

----------------------------------------------------------------------------
Link == [subject : Subjects, account : SignIns]
Mail == [account : SignIns, address : Addresses, status : {"active", "inactive"}]

LinksOf(who) == {l \in links : l.subject = who}
MailOf(account) == {m \in mail : m.account = account}

Stage(a, s) == signIn[a].stage = s
Step(a, v) == signIn' = [signIn EXCEPT ![a] = v]
End(a) == Step(a, [stage |-> "done", challenge |-> signIn[a].challenge])

\* A transaction runs from its look at the live challenge to its commit.
Transacting == {a \in SignIns : signIn[a].stage \in {"live", "consumed", "resolving"}}
MayTransact == database = "sqlite" => Transacting = {}
ChallengeIsFree(c) ==
  ~\E a \in Transacting : signIn[a].stage # "live" /\ signIn[a].challenge = c

AuthInit ==
  /\ database \in Databases
  /\ challenges = [c \in Challenges |-> "absent"]
  /\ expired = {}
  /\ links = {} /\ disabled = {} /\ mail = {} /\ consents = {}
  /\ signIn = [a \in SignIns |-> [stage |-> "new"]]
  /\ sessions = [a \in SignIns |-> NoAccount]

----------------------------------------------------------------------------
\* challenge(): the expired ones go, a new one is pending.
IssueChallenge ==
  /\ MayTransact
  /\ \E c \in {d \in Challenges \ expired : challenges[d] = "absent"} :
       challenges' = [d \in Challenges |->
         IF d = c THEN "pending" ELSE IF d \in expired THEN "absent" ELSE challenges[d]]
  /\ UNCHANGED <<database, expired, links, disabled, mail, consents, signIn, sessions>>

Usable(c) == challenges[c] = "pending" /\ c \notin expired

\* signIn: whoever holds a pending challenge may present it.
ReadChallenge(a) ==
  /\ Stage(a, "new")
  /\ \E c \in Challenges : Usable(c) /\ Step(a, [stage |-> "verifying", challenge |-> c])
  /\ UNCHANGED <<database, challenges, expired, links, disabled, mail, consents, sessions>>

\* The verifier answers who it is, or refuses the token.
Verify(a) ==
  /\ Stage(a, "verifying")
  /\ \/ \E who \in Subjects, at \in Addresses \cup {NoAddress} :
          Step(a, [stage |-> "verified", challenge |-> signIn[a].challenge,
                   subject |-> who, address |-> at])
     \/ End(a)
  /\ UNCHANGED <<database, challenges, expired, links, disabled, mail, consents, sessions>>

\* The transaction looks at the challenge again ...
ReadLiveChallenge(a) ==
  /\ Stage(a, "verified")
  /\ MayTransact
  /\ IF Usable(signIn[a].challenge)
       THEN Step(a, [signIn[a] EXCEPT !.stage = "live"])
       ELSE End(a)
  /\ UNCHANGED <<database, challenges, expired, links, disabled, mail, consents, sessions>>

\* ... and consumes it if it is pending still.
StillPendingBug(c) == TRUE
StillPending(c) == challenges[c] = "pending"

ConsumeChallenge(a) ==
  /\ Stage(a, "live")
  /\ ChallengeIsFree(signIn[a].challenge)
  /\ IF StillPending(signIn[a].challenge)
       THEN Step(a, [signIn[a] EXCEPT !.stage = "consumed"])
       ELSE End(a)
  /\ UNCHANGED <<database, challenges, expired, links, disabled, mail, consents, sessions>>

\* resolveProviderIdentity reads the link, the e-mail rows and the consent.
FoundAccount(a) ==
  IF LinksOf(signIn[a].subject) = {} THEN a
  ELSE (CHOOSE l \in LinksOf(signIn[a].subject) : TRUE).account

OthersDeactivated(account, at) ==
  {m \in MailOf(account) : m.status = "active" /\ m.address # at}

ResolveIdentity(a) ==
  /\ Stage(a, "consumed")
  /\ LET account == FoundAccount(a)
         at == signIn[a].address IN
     Step(a, [stage |-> "resolving", challenge |-> signIn[a].challenge,
              subject |-> signIn[a].subject, address |-> at,
              account |-> account,
              others |-> IF at = NoAddress THEN {} ELSE OthersDeactivated(account, at),
              known |-> \E m \in MailOf(account) : m.address = at,
              consented |-> account \in consents])
  /\ UNCHANGED <<database, challenges, expired, links, disabled, mail, consents, sessions>>

\* The unique indexes on the link's subject, on the account's address and on
\* the account's consent.
LinkInsertAllowedBug(who) == TRUE
LinkInsertAllowed(who) == LinksOf(who) = {}
UniqueIndexesHold(a, q) ==
  /\ q.account = a => LinkInsertAllowed(q.subject)
  /\ ~q.known => ~\E m \in MailOf(q.account) : m.address = q.address
  /\ ~q.consented => q.account \notin consents

\* recordVerifiedEmail.
Remembered(q) ==
  LET replaced == {m \in MailOf(q.account) : m.address \in {o.address : o \in q.others}}
      before == {m \in MailOf(q.account) : m.address = q.address}
  IN (mail \ (replaced \cup before))
       \cup {[m EXCEPT !.status = "inactive"] : m \in replaced}
       \cup {[account |-> q.account, address |-> q.address, status |-> "active"]}

\* The transaction commits.  An inactive account's sign-in fails, but consumes.
CommitIdentity(a) ==
  LET q == signIn[a] IN
  /\ Stage(a, "resolving")
  /\ q.account \in disabled \/ UniqueIndexesHold(a, q)
  /\ challenges' = [challenges EXCEPT ![q.challenge] = "consumed"]
  /\ links' = links \cup (IF q.account = a THEN {[subject |-> q.subject, account |-> a]} ELSE {})
  /\ IF q.account \in disabled
       THEN End(a) /\ UNCHANGED <<mail, consents>>
       ELSE /\ mail' = IF q.address = NoAddress THEN mail ELSE Remembered(q)
            /\ consents' = consents \cup {q.account}
            /\ Step(a, [stage |-> "signing", challenge |-> q.challenge,
                        subject |-> q.subject, account |-> q.account])
  /\ UNCHANGED <<database, expired, disabled, sessions>>

CreateSession(a) ==
  /\ Stage(a, "signing")
  /\ sessions' = [sessions EXCEPT ![a] = signIn[a].account]
  /\ Step(a, [signIn[a] EXCEPT !.stage = "signed"])
  /\ UNCHANGED <<database, challenges, expired, links, disabled, mail, consents>>

\* A statement fails, a unique index refuses, or the server stops: a running
\* transaction rolls back, its consumption included.
AbortSignIn(a) ==
  /\ signIn[a].stage \in {"verifying", "verified", "live", "consumed", "resolving", "signing"}
  /\ End(a)
  /\ UNCHANGED <<database, challenges, expired, links, disabled, mail, consents, sessions>>

Logout(a) ==
  /\ sessions[a] # NoAccount
  /\ sessions' = [sessions EXCEPT ![a] = NoAccount]
  /\ UNCHANGED <<database, challenges, expired, links, disabled, mail, consents, signIn>>

ExpireChallenge ==
  /\ \E c \in Challenges \ expired : challenges[c] # "absent" /\ expired' = expired \cup {c}
  /\ UNCHANGED <<database, challenges, links, disabled, mail, consents, signIn, sessions>>

\* No route does this; an operator may.
DisableAccount ==
  /\ MayTransact
  /\ \E l \in links : disabled' = disabled \cup {l.account}
  /\ UNCHANGED <<database, challenges, expired, links, mail, consents, signIn, sessions>>

AuthNext ==
  \/ IssueChallenge
  \/ ExpireChallenge
  \/ DisableAccount
  \/ \E a \in SignIns :
       \/ ReadChallenge(a)
       \/ Verify(a)
       \/ ReadLiveChallenge(a)
       \/ ConsumeChallenge(a)
       \/ ResolveIdentity(a)
       \/ CommitIdentity(a)
       \/ CreateSession(a)
       \/ AbortSignIn(a)
       \/ Logout(a)

AuthSpec == AuthInit /\ [][AuthNext]_authVars

----------------------------------------------------------------------------
AuthTypeOK ==
  /\ challenges \in [Challenges -> {"absent", "pending", "consumed"}]
  /\ expired \subseteq Challenges
  /\ links \subseteq Link
  /\ disabled \subseteq SignIns
  /\ mail \subseteq Mail
  /\ consents \subseteq SignIns
  /\ sessions \in [SignIns -> SignIns \cup {NoAccount}]

Admitted(a) == signIn[a].stage \in {"signing", "signed"}

\* A challenge lets one sign-in through: of all the handlers that read it as
\* pending before their verifications, whatever the verifications say and in
\* whatever order they return, at most one is admitted.
ChallengeSignsInOnce ==
  \A a, b \in SignIns :
    Admitted(a) /\ Admitted(b) /\ signIn[a].challenge = signIn[b].challenge => a = b

\* A provider identity is one account for ever, also when its first two
\* sign-ins overlap: every sign-in of it is admitted to the same account, which
\* has given its consent, and no account is left behind without a link.
SignInsOfOneAgree ==
  /\ \A a, b \in SignIns :
       Admitted(a) /\ Admitted(b) /\ signIn[a].subject = signIn[b].subject =>
         signIn[a].account = signIn[b].account
  /\ \A a \in SignIns : Admitted(a) =>
       /\ signIn[a].account \in consents
       /\ [subject |-> signIn[a].subject, account |-> signIn[a].account] \in links

\* Invitations are matched to the address the provider verified last: where
\* transactions run one at a time an identity has at most one active address,
\* whatever it changes to and back to.
OneActiveAddress ==
  database = "sqlite" =>
    \A a \in SignIns : Cardinality({m \in MailOf(a) : m.status = "active"}) <= 1

\* Both: an identity is one account with one active address.
OneAccountPerIdentity == SignInsOfOneAgree /\ OneActiveAddress
=============================================================================
