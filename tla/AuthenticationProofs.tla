------------------------ MODULE AuthenticationProofs ------------------------
(***************************************************************************)
(* For any number of sign-ins, challenges, identities and addresses, on    *)
(* SQLite and on PostgreSQL: a challenge lets one sign-in through, and an  *)
(* identity is one account.                                                *)
(***************************************************************************)
EXTENDS Authentication, FiniteSetTheorems, TLAPS

----------------------------------------------------------------------------
(* The inductive invariant *)

New == [stage : {"new"}]
Reading == [stage : {"verifying", "done"}, challenge : Challenges]
Verified == [stage : {"verified", "live", "consumed"}, challenge : Challenges,
             subject : Subjects, address : Addresses \cup {NoAddress}]
Resolving == [stage : {"resolving"}, challenge : Challenges, subject : Subjects,
              address : Addresses \cup {NoAddress}, account : SignIns,
              others : SUBSET Mail, known : BOOLEAN, consented : BOOLEAN]
Signing == [stage : {"signing", "signed"}, challenge : Challenges,
            subject : Subjects, account : SignIns]
Positions == New \cup Reading \cup Verified \cup Resolving \cup Signing

AuthTyped ==
  /\ AuthTypeOK
  /\ database \in {"sqlite", "postgres"}
  /\ signIn \in [SignIns -> Positions]

\* From its UPDATE of the challenge on, a sign-in is the only one that holds it
\* or has been admitted with it, and what admitted one can be used no more.
Through(a) == signIn[a].stage \in {"consumed", "resolving", "signing", "signed"}
Spent(c) == challenges[c] = "consumed" \/ (c \in expired /\ challenges[c] # "pending")

OneThrough ==
  /\ \A a, b \in SignIns :
       Through(a) /\ Through(b) /\ signIn[a].challenge = signIn[b].challenge => a = b
  /\ \A a \in SignIns : Admitted(a) => Spent(signIn[a].challenge)

\* An identity has one link, made by the commit of the sign-in it names.
Committed(a) == signIn[a].stage \in {"done", "signing", "signed"}
LinkOf(a) == [subject |-> signIn[a].subject, account |-> signIn[a].account]

Linked ==
  /\ \A l, m \in links : l.subject = m.subject => l = m
  /\ \A l \in links : Committed(l.account)
  /\ \A a \in disabled : \E l \in links : l.account = a
  /\ \A a \in SignIns :
       signIn[a].stage = "resolving" => signIn[a].account = a \/ LinkOf(a) \in links
  /\ \A a \in SignIns : Admitted(a) => LinkOf(a) \in links /\ signIn[a].account \in consents

\* On SQLite one transaction runs, so the addresses it is about to deactivate
\* are the active ones there are.
ActiveIsUnique ==
  \A m, n \in mail :
    m.account = n.account /\ m.status = "active" /\ n.status = "active" => m = n

OneSignInTransaction ==
  database = "sqlite" =>
    /\ \A a, b \in Transacting : a = b
    /\ ActiveIsUnique
    /\ \A a \in SignIns :
         signIn[a].stage = "resolving" /\ signIn[a].address # NoAddress =>
           signIn[a].others = OthersDeactivated(signIn[a].account, signIn[a].address)

AuthInv == AuthTyped /\ OneThrough /\ Linked /\ OneSignInTransaction

LEMMA AuthInitInv == AuthInit => AuthInv
<1> SUFFICES ASSUME AuthInit PROVE AuthInv
  OBVIOUS
<1>1. \A a \in SignIns : signIn[a].stage = "new"
  BY DEF AuthInit
<1>2. AuthTyped
  BY DatabasesOK DEF AuthInit, AuthTyped, AuthTypeOK, Positions, New
<1>3. OneThrough
  BY <1>1 DEF OneThrough, Through, Admitted
<1>4. Linked
  BY <1>1 DEF AuthInit, Linked, Admitted
<1>5. OneSignInTransaction
  BY <1>1 DEF AuthInit, OneSignInTransaction, Transacting, ActiveIsUnique
<1>. QED  BY <1>2, <1>3, <1>4, <1>5 DEF AuthInv

----------------------------------------------------------------------------
(* Steps *)

LEMMA Moves ==
  ASSUME AuthTyped, NEW a \in SignIns, NEW v \in Positions, Step(a, v)
  PROVE  /\ signIn' \in [SignIns -> Positions]
         /\ signIn'[a] = v
         /\ \A b \in SignIns \ {a} : signIn'[b] = signIn[b]
BY DEF AuthTyped, Step

\* Where a sign-in stands by its stage.
LEMMA SignInStages ==
  ASSUME AuthTyped, NEW a \in SignIns
  PROVE  /\ signIn[a].stage \in {"verifying", "done"} => signIn[a] \in Reading
         /\ signIn[a].stage \in {"verified", "live", "consumed"} => signIn[a] \in Verified
         /\ signIn[a].stage = "resolving" => signIn[a] \in Resolving
         /\ signIn[a].stage \in {"signing", "signed"} => signIn[a] \in Signing
         /\ signIn[a].stage # "new" => signIn[a].challenge \in Challenges
<1>1. signIn[a] \in Positions
  BY DEF AuthTyped
<1>. QED
  BY <1>1 DEF Positions, New, Reading, Verified, Resolving, Signing

\* A step of one sign-in that touches no table and admits nobody.
LEMMA QuietMove ==
  ASSUME AuthInv, NEW a \in SignIns, NEW v \in Positions, Step(a, v),
         UNCHANGED <<database, challenges, expired, links, disabled, mail, consents>>,
         sessions' \in [SignIns -> SignIns \cup {NoAccount}],
         ~Committed(a), ~Admitted(a), ~(v.stage \in {"signing", "signed"}),
         v.stage \in {"consumed", "resolving"} =>
           /\ \A b \in SignIns \ {a} : Through(b) => signIn[b].challenge # v.challenge,
         v.stage = "resolving" =>
           /\ v.account = a \/ [subject |-> v.subject, account |-> v.account] \in links
           /\ v.address # NoAddress => v.others = OthersDeactivated(v.account, v.address),
         v.stage \in {"live", "consumed", "resolving"} =>
           a \in Transacting \/ MayTransact
  PROVE  AuthInv'
<1>1. /\ signIn' \in [SignIns -> Positions]
      /\ signIn'[a] = v
      /\ \A b \in SignIns \ {a} : signIn'[b] = signIn[b]
  BY Moves DEF AuthInv
<1>2. AuthTyped'
  BY <1>1 DEF AuthInv, AuthTyped, AuthTypeOK
<1>3. OneThrough'
  BY <1>1 DEF AuthInv, OneThrough, Through, Admitted, Spent
<1>4. Linked'
  <2>1. \A l \in links : l.account # a
    BY DEF AuthInv, Linked
  <2>2. \A l \in links : l.account \in SignIns
    BY DEF AuthInv, AuthTyped, AuthTypeOK, Link
  <2>. QED
    BY <1>1, <2>1, <2>2 DEF AuthInv, Linked, Committed, Admitted, LinkOf
<1>5. OneSignInTransaction'
  <2> SUFFICES ASSUME database = "sqlite" PROVE OneSignInTransaction'
    BY DEF OneSignInTransaction
  <2>1. \A b \in Transacting' : b = a \/ b \in Transacting
    BY <1>1 DEF Transacting
  <2>2. a \in Transacting' => a \in Transacting \/ Transacting = {}
    BY <1>1 DEF Transacting, MayTransact
  <2>3. \A b, c \in Transacting' : b = c
    BY <2>1, <2>2 DEF AuthInv, OneSignInTransaction
  <2>4. ActiveIsUnique'
    BY DEF AuthInv, OneSignInTransaction, ActiveIsUnique
  <2>5. \A b \in SignIns :
          signIn'[b].stage = "resolving" /\ signIn'[b].address # NoAddress =>
            signIn'[b].others = OthersDeactivated(signIn'[b].account, signIn'[b].address)
    BY <1>1 DEF AuthInv, OneSignInTransaction
  <2>6. \A account, at : OthersDeactivated(account, at)' = OthersDeactivated(account, at)
    BY DEF OthersDeactivated, MailOf
  <2>. QED
    BY <2>3, <2>4, <2>5, <2>6 DEF OneSignInTransaction, OthersDeactivated, MailOf
<1>. QED  BY <1>2, <1>3, <1>4, <1>5 DEF AuthInv

\* A step of an admitted sign-in: it gets its session, or is cut off.
LEMMA AdmittedMove ==
  ASSUME AuthInv, NEW a \in SignIns, Admitted(a), NEW v \in Positions, Step(a, v),
         UNCHANGED <<database, challenges, expired, links, disabled, mail, consents>>,
         sessions' \in [SignIns -> SignIns \cup {NoAccount}],
         v.stage \in {"done", "signed"}, v.challenge = signIn[a].challenge,
         v.stage = "signed" => v.subject = signIn[a].subject /\ v.account = signIn[a].account
  PROVE  AuthInv'
<1>1. /\ signIn' \in [SignIns -> Positions]
      /\ signIn'[a] = v
      /\ \A b \in SignIns \ {a} : signIn'[b] = signIn[b]
  BY Moves DEF AuthInv
<1>2. AuthTyped'
  BY <1>1 DEF AuthInv, AuthTyped, AuthTypeOK
<1>3. OneThrough'
  BY <1>1 DEF AuthInv, OneThrough, Through, Admitted, Spent
<1>4. Linked'
  <2>1. \A l \in links : l.account \in SignIns
    BY DEF AuthInv, AuthTyped, AuthTypeOK, Link
  <2>. QED
    BY <1>1, <2>1 DEF AuthInv, Linked, Committed, Admitted, LinkOf
<1>5. OneSignInTransaction'
  <2>1. Transacting' \subseteq Transacting
    BY <1>1 DEF Transacting
  <2>. QED
    BY <1>1, <2>1 DEF AuthInv, OneSignInTransaction, ActiveIsUnique, OthersDeactivated, MailOf
<1>. QED  BY <1>2, <1>3, <1>4, <1>5 DEF AuthInv

\* Cutting a sign-in off ends it at any stage.
LEMMA EndInv ==
  ASSUME AuthInv, NEW a \in SignIns, signIn[a].stage \notin {"new", "done"}, End(a),
         UNCHANGED <<database, challenges, expired, links, disabled, mail, consents,
                     sessions>>
  PROVE  AuthInv'
<1> DEFINE v == [stage |-> "done", challenge |-> signIn[a].challenge]
<1>1. signIn[a].challenge \in Challenges
  BY SignInStages DEF AuthInv
<1>2. v \in Positions /\ v.stage = "done" /\ v.challenge = signIn[a].challenge
  BY <1>1 DEF Positions, Reading
<1>3. Step(a, v) /\ sessions' \in [SignIns -> SignIns \cup {NoAccount}]
  BY DEF End, AuthInv, AuthTyped, AuthTypeOK
<1>. HIDE DEF v
<1>4. CASE Admitted(a)
  BY <1>2, <1>3, <1>4, AdmittedMove
<1>5. CASE ~Admitted(a)
  <2>1. ~Committed(a)
    BY <1>5 DEF Committed, Admitted
  <2>. QED
    BY <1>2, <1>3, <1>5, <2>1, QuietMove
<1>. QED  BY <1>4, <1>5

----------------------------------------------------------------------------
(* One lemma for each kind of step *)

LEMMA ReadChallengeInv ==
  ASSUME AuthInv, NEW a \in SignIns, ReadChallenge(a)
  PROVE  AuthInv'
<1>1. PICK c \in Challenges : Step(a, [stage |-> "verifying", challenge |-> c])
  BY DEF ReadChallenge
<1> DEFINE v == [stage |-> "verifying", challenge |-> c]
<1>2. v \in Positions /\ v.stage = "verifying"
  BY DEF Positions, Reading
<1>3. Step(a, v)
  BY <1>1
<1>. HIDE DEF v
<1>4. sessions' \in [SignIns -> SignIns \cup {NoAccount}]
  BY DEF ReadChallenge, AuthInv, AuthTyped, AuthTypeOK
<1>5. ~Committed(a) /\ ~Admitted(a)
  BY DEF ReadChallenge, Stage, Committed, Admitted
<1>. QED
  BY <1>2, <1>3, <1>4, <1>5, QuietMove DEF ReadChallenge

LEMMA VerifyInv ==
  ASSUME AuthInv, NEW a \in SignIns, Verify(a)
  PROVE  AuthInv'
<1>1. CASE End(a)
  BY <1>1, EndInv DEF Verify, Stage
<1>2. ASSUME NEW who \in Subjects, NEW at \in Addresses \cup {NoAddress},
             Step(a, [stage |-> "verified", challenge |-> signIn[a].challenge,
                      subject |-> who, address |-> at])
      PROVE  AuthInv'
  <2> DEFINE v == [stage |-> "verified", challenge |-> signIn[a].challenge,
                   subject |-> who, address |-> at]
  <2>1. signIn[a].challenge \in Challenges
    BY SignInStages DEF AuthInv, Verify, Stage
  <2>2. v \in Positions /\ v.stage = "verified"
    BY <2>1 DEF Positions, Verified
  <2>3. Step(a, v)
    BY <1>2
  <2>. HIDE DEF v
  <2>4. sessions' \in [SignIns -> SignIns \cup {NoAccount}]
    BY DEF Verify, AuthInv, AuthTyped, AuthTypeOK
  <2>5. ~Committed(a) /\ ~Admitted(a)
    BY DEF Verify, Stage, Committed, Admitted
  <2>. QED
    BY <2>2, <2>3, <2>4, <2>5, QuietMove DEF Verify
<1>. QED  BY <1>1, <1>2 DEF Verify

LEMMA StageChange ==
  ASSUME NEW r \in Verified, NEW s \in {"live", "consumed"}
  PROVE  /\ [r EXCEPT !.stage = s] \in Positions
         /\ [r EXCEPT !.stage = s].stage = s
         /\ [r EXCEPT !.stage = s].challenge = r.challenge
BY DEF Verified, Positions

LEMMA ReadLiveChallengeInv ==
  ASSUME AuthInv, NEW a \in SignIns, ReadLiveChallenge(a)
  PROVE  AuthInv'
<1>1. CASE ~Usable(signIn[a].challenge)
  BY <1>1, EndInv DEF ReadLiveChallenge, Stage
<1>2. CASE Usable(signIn[a].challenge)
  <2> DEFINE v == [signIn[a] EXCEPT !.stage = "live"]
  <2>1. signIn[a] \in Verified
    BY SignInStages DEF AuthInv, ReadLiveChallenge, Stage
  <2>2. v \in Positions /\ v.stage = "live"
    BY <2>1, StageChange
  <2>3. Step(a, v)
    BY <1>2 DEF ReadLiveChallenge
  <2>. HIDE DEF v
  <2>4. sessions' \in [SignIns -> SignIns \cup {NoAccount}]
    BY DEF ReadLiveChallenge, AuthInv, AuthTyped, AuthTypeOK
  <2>5. ~Committed(a) /\ ~Admitted(a) /\ MayTransact
    BY DEF ReadLiveChallenge, Stage, Committed, Admitted
  <2>. QED
    BY <2>2, <2>3, <2>4, <2>5, QuietMove DEF ReadLiveChallenge
<1>. QED  BY <1>1, <1>2

LEMMA ConsumeChallengeInv ==
  ASSUME AuthInv, NEW a \in SignIns, ConsumeChallenge(a)
  PROVE  AuthInv'
<1>1. CASE ~StillPending(signIn[a].challenge)
  BY <1>1, EndInv DEF ConsumeChallenge, Stage
<1>2. CASE StillPending(signIn[a].challenge)
  <2> DEFINE v == [signIn[a] EXCEPT !.stage = "consumed"]
  <2>1. signIn[a] \in Verified
    BY SignInStages DEF AuthInv, ConsumeChallenge, Stage
  <2>2. v \in Positions /\ v.stage = "consumed" /\ v.challenge = signIn[a].challenge
    BY <2>1, StageChange
  <2>3. Step(a, v)
    BY <1>2 DEF ConsumeChallenge
  <2>. HIDE DEF v
  <2>4. sessions' \in [SignIns -> SignIns \cup {NoAccount}]
    BY DEF ConsumeChallenge, AuthInv, AuthTyped, AuthTypeOK
  <2>5. ~Committed(a) /\ ~Admitted(a) /\ a \in Transacting
    BY DEF ConsumeChallenge, Stage, Committed, Admitted, Transacting
  <2>6. ASSUME NEW b \in SignIns \ {a}, Through(b), signIn[b].challenge = v.challenge
        PROVE  FALSE
    <3>1. CASE signIn[b].stage \in {"consumed", "resolving"}
      BY <2>2, <2>6, <3>1 DEF ConsumeChallenge, ChallengeIsFree, Transacting
    <3>2. CASE Admitted(b)
      BY <1>2, <2>2, <2>6, <3>2 DEF AuthInv, OneThrough, Spent, StillPending
    <3>. QED  BY <2>6, <3>1, <3>2 DEF Through, Admitted
  <2>. QED
    BY <2>2, <2>3, <2>4, <2>5, <2>6, QuietMove DEF ConsumeChallenge
<1>. QED  BY <1>1, <1>2

LEMMA FoundAccountIs ==
  ASSUME AuthInv, NEW a \in SignIns
  PROVE  /\ FoundAccount(a) \in SignIns
         /\ \/ FoundAccount(a) = a
            \/ [subject |-> signIn[a].subject, account |-> FoundAccount(a)] \in links
<1>1. CASE LinksOf(signIn[a].subject) = {}
  BY <1>1 DEF FoundAccount
<1>2. CASE LinksOf(signIn[a].subject) # {}
  <2> DEFINE l == CHOOSE l \in LinksOf(signIn[a].subject) : TRUE
  <2>1. l \in LinksOf(signIn[a].subject)
    BY <1>2
  <2>2. FoundAccount(a) = l.account
    BY <1>2 DEF FoundAccount
  <2>. HIDE DEF l
  <2>3. l \in links /\ l \in Link /\ l.subject = signIn[a].subject
    BY <2>1 DEF LinksOf, AuthInv, AuthTyped, AuthTypeOK
  <2>4. l = [subject |-> signIn[a].subject, account |-> l.account] /\ l.account \in SignIns
    BY <2>3 DEF Link
  <2>. QED  BY <2>2, <2>3, <2>4
<1>. QED  BY <1>1, <1>2

LEMMA ResolveIdentityInv ==
  ASSUME AuthInv, NEW a \in SignIns, ResolveIdentity(a)
  PROVE  AuthInv'
<1> DEFINE account == FoundAccount(a)
           at == signIn[a].address
           others == IF at = NoAddress THEN {} ELSE OthersDeactivated(account, at)
           known == \E m \in MailOf(account) : m.address = at
           consented == account \in consents
           v == [stage |-> "resolving", challenge |-> signIn[a].challenge,
                 subject |-> signIn[a].subject, address |-> at, account |-> account,
                 others |-> others, known |-> known, consented |-> consented]
<1>1. signIn[a] \in Verified
  BY SignInStages DEF AuthInv, ResolveIdentity, Stage
<1>2. account \in SignIns
  BY FoundAccountIs
<1>3. others \in SUBSET Mail
  BY DEF OthersDeactivated, MailOf, AuthInv, AuthTyped, AuthTypeOK
<1>4. known \in BOOLEAN /\ consented \in BOOLEAN
  OBVIOUS
<1>5. /\ signIn[a].challenge \in Challenges /\ signIn[a].subject \in Subjects
      /\ at \in Addresses \cup {NoAddress}
  BY <1>1 DEF Verified
<1>6. Step(a, v)
  BY DEF ResolveIdentity
<1>. HIDE DEF account, at, others, known, consented
<1>7. v \in Resolving
  BY <1>2, <1>3, <1>4, <1>5 DEF Resolving
<1>8. /\ v \in Positions /\ v.stage = "resolving" /\ v.challenge = signIn[a].challenge
      /\ v.subject = signIn[a].subject /\ v.address = at /\ v.account = account
      /\ v.others = others
  BY <1>7 DEF Positions
<1>. HIDE DEF v
<1>9. account = a \/ [subject |-> v.subject, account |-> account] \in links
  BY <1>8, FoundAccountIs DEF account
<1>10. at # NoAddress => others = OthersDeactivated(account, at)
  BY DEF others
<1>11. \A b \in SignIns \ {a} : Through(b) => signIn[b].challenge # v.challenge
  BY <1>8 DEF ResolveIdentity, Stage, AuthInv, OneThrough, Through
<1>12. sessions' \in [SignIns -> SignIns \cup {NoAccount}]
  BY DEF ResolveIdentity, AuthInv, AuthTyped, AuthTypeOK
<1>13. ~Committed(a) /\ ~Admitted(a) /\ a \in Transacting
  BY DEF ResolveIdentity, Stage, Committed, Admitted, Transacting
<1>. QED
  BY <1>6, <1>8, <1>9, <1>10, <1>11, <1>12, <1>13, QuietMove DEF ResolveIdentity

\* recordVerifiedEmail touches one account's addresses and, when the addresses
\* it deactivates are the active ones there are, leaves it one.
LEMMA RememberedMail ==
  ASSUME NEW q \in Resolving, q.address # NoAddress, mail \subseteq Mail
  PROVE  /\ Remembered(q) \subseteq Mail
         /\ ActiveIsUnique /\ q.others = OthersDeactivated(q.account, q.address) =>
              \A m, n \in Remembered(q) :
                m.account = n.account /\ m.status = "active" /\ n.status = "active" => m = n
<1> DEFINE new == [account |-> q.account, address |-> q.address, status |-> "active"]
           replaced == {m \in MailOf(q.account) : m.address \in {o.address : o \in q.others}}
           before == {m \in MailOf(q.account) : m.address = q.address}
           retired == {[m EXCEPT !.status = "inactive"] : m \in replaced}
<1>1. Remembered(q) = (mail \ (replaced \cup before)) \cup retired \cup {new}
  BY DEF Remembered
<1>2. new \in Mail /\ new.account = q.account
  BY DEF Mail, Resolving
<1>3. \A m \in retired : m \in Mail /\ m.account = q.account /\ m.status = "inactive"
  <2> SUFFICES ASSUME NEW m \in replaced, NEW n, n = [m EXCEPT !.status = "inactive"]
               PROVE  n \in Mail /\ n.account = q.account /\ n.status = "inactive"
    OBVIOUS
  <2>1. m \in Mail /\ m.account = q.account
    BY DEF MailOf
  <2>. HIDE DEF replaced
  <2>. QED  BY <2>1 DEF Mail
<1>4. ASSUME ActiveIsUnique, q.others = OthersDeactivated(q.account, q.address),
             NEW m \in mail \ (replaced \cup before), m.account = q.account
      PROVE  m.status # "active"
  BY <1>4 DEF OthersDeactivated, MailOf
<1>. HIDE DEF replaced, before, retired, new
<1>6. Remembered(q) \subseteq Mail
  BY <1>1, <1>2, <1>3
<1>7. ASSUME ActiveIsUnique, q.others = OthersDeactivated(q.account, q.address),
             NEW m \in Remembered(q), NEW n \in Remembered(q),
             m.account = n.account, m.status = "active", n.status = "active"
      PROVE  m = n
  <2>1. m \notin retired /\ n \notin retired
    BY <1>3, <1>7
  <2>2. CASE m.account = q.account
    BY <1>1, <1>4, <1>7, <2>1, <2>2
  <2>3. CASE m.account # q.account
    BY <1>1, <1>2, <1>7, <2>1, <2>3 DEF ActiveIsUnique
  <2>. QED  BY <2>2, <2>3
<1>. QED  BY <1>6, <1>7

\* What a commit does to the links: the sign-in's own is added where it makes
\* the account, and there was none of that identity.
LEMMA CommitLinks ==
  ASSUME AuthInv, NEW a \in SignIns, CommitIdentity(a)
  PROVE  /\ signIn[a] \in Resolving
         /\ links' \subseteq Link /\ links \subseteq links'
         /\ \A l \in links' : l \in links \/ (l = LinkOf(a) /\ l.account = a)
         /\ \A l, m \in links' : l.subject = m.subject => l = m
         /\ LinkOf(a) \in links'
<1>1. signIn[a] \in Resolving /\ signIn[a].stage = "resolving"
  BY SignInStages DEF AuthInv, CommitIdentity, Stage
<1>2. LinkOf(a) \in Link
  BY <1>1 DEF LinkOf, Link, Resolving
<1>3. CASE signIn[a].account # a
  <2>1. links' = links
    BY <1>3 DEF CommitIdentity
  <2>. QED
    BY <1>1, <1>3, <2>1 DEF AuthInv, Linked, AuthTyped, AuthTypeOK
<1>4. CASE signIn[a].account = a
  <2>1. links' = links \cup {LinkOf(a)}
    BY <1>4 DEF CommitIdentity, LinkOf
  <2>2. ~Committed(a)
    BY <1>1 DEF Committed
  <2>3. a \notin disabled
    BY <2>2 DEF AuthInv, Linked
  <2>4. \A l \in links : l.subject # signIn[a].subject
    BY <1>4, <2>3 DEF CommitIdentity, UniqueIndexesHold, LinkInsertAllowed, LinksOf
  <2>5. LinkOf(a).subject = signIn[a].subject /\ LinkOf(a).account = a
    BY <1>4 DEF LinkOf
  <2>6. links' \subseteq Link /\ links \subseteq links'
    BY <1>2, <2>1 DEF AuthInv, AuthTyped, AuthTypeOK
  <2>7. \A l, m \in links' : l.subject = m.subject => l = m
    BY <2>1, <2>4, <2>5 DEF AuthInv, Linked
  <2>8. \A l \in links' : l \in links \/ (l = LinkOf(a) /\ l.account = a)
    BY <2>1, <2>5
  <2>. QED
    BY <1>1, <2>1, <2>6, <2>7, <2>8
<1>. QED  BY <1>3, <1>4

\* Where the handler stands after its commit.
LEMMA CommitMoves ==
  ASSUME AuthInv, NEW a \in SignIns, CommitIdentity(a)
  PROVE  \E v \in Positions :
           /\ Step(a, v)
           /\ v.challenge = signIn[a].challenge
           /\ \/ v.stage = "done"
              \/ /\ v.stage = "signing"
                 /\ v.subject = signIn[a].subject /\ v.account = signIn[a].account
                 /\ signIn[a].account \in consents'
<1>1. signIn[a] \in Resolving
  BY CommitLinks
<1>2. CASE signIn[a].account \in disabled
  <2> DEFINE v == [stage |-> "done", challenge |-> signIn[a].challenge]
  <2>1. v \in Positions /\ v.stage = "done" /\ v.challenge = signIn[a].challenge
    BY <1>1 DEF Positions, Reading, Resolving
  <2>2. Step(a, v)
    BY <1>2 DEF CommitIdentity, End
  <2>. HIDE DEF v
  <2>. QED  BY <2>1, <2>2
<1>3. CASE signIn[a].account \notin disabled
  <2> DEFINE v == [stage |-> "signing", challenge |-> signIn[a].challenge,
                   subject |-> signIn[a].subject, account |-> signIn[a].account]
  <2>1. /\ v \in Positions /\ v.stage = "signing" /\ v.challenge = signIn[a].challenge
        /\ v.subject = signIn[a].subject /\ v.account = signIn[a].account
    BY <1>1 DEF Positions, Signing, Resolving
  <2>2. Step(a, v) /\ signIn[a].account \in consents'
    BY <1>3 DEF CommitIdentity
  <2>. HIDE DEF v
  <2>. QED  BY <2>1, <2>2
<1>. QED  BY <1>2, <1>3

LEMMA CommitMail ==
  ASSUME AuthInv, NEW a \in SignIns, CommitIdentity(a)
  PROVE  /\ mail' \subseteq Mail
         /\ database = "sqlite" => ActiveIsUnique'
<1>1. signIn[a] \in Resolving /\ signIn[a].stage = "resolving"
  BY CommitLinks DEF CommitIdentity, Stage
<1>2. CASE mail' = mail
  BY <1>2 DEF AuthInv, OneSignInTransaction, AuthTyped, AuthTypeOK, ActiveIsUnique
<1>3. CASE signIn[a].address # NoAddress /\ mail' = Remembered(signIn[a])
  <2>1. mail \subseteq Mail
    BY DEF AuthInv, AuthTyped, AuthTypeOK
  <2>2. database = "sqlite" =>
          /\ ActiveIsUnique
          /\ signIn[a].others = OthersDeactivated(signIn[a].account, signIn[a].address)
    BY <1>1, <1>3 DEF AuthInv, OneSignInTransaction
  <2>. QED
    BY <1>1, <1>3, <2>1, <2>2, RememberedMail DEF ActiveIsUnique
<1>. QED  BY <1>2, <1>3 DEF CommitIdentity

LEMMA CommitIdentityInv ==
  ASSUME AuthInv, NEW a \in SignIns, CommitIdentity(a)
  PROVE  AuthInv'
<1>1. PICK v \in Positions :
        /\ Step(a, v)
        /\ v.challenge = signIn[a].challenge
        /\ \/ v.stage = "done"
           \/ /\ v.stage = "signing"
              /\ v.subject = signIn[a].subject /\ v.account = signIn[a].account
              /\ signIn[a].account \in consents'
  BY CommitMoves
<1>2. /\ signIn' \in [SignIns -> Positions]
      /\ signIn'[a] = v
      /\ \A b \in SignIns \ {a} : signIn'[b] = signIn[b]
  BY <1>1, Moves DEF AuthInv
<1>3. /\ signIn[a] \in Resolving
      /\ links' \subseteq Link /\ links \subseteq links'
      /\ \A l \in links' : l \in links \/ (l = LinkOf(a) /\ l.account = a)
      /\ \A l, m \in links' : l.subject = m.subject => l = m
      /\ LinkOf(a) \in links'
  BY CommitLinks
<1>4. mail' \subseteq Mail /\ (database = "sqlite" => ActiveIsUnique')
  BY CommitMail
<1>5. /\ challenges' = [challenges EXCEPT ![signIn[a].challenge] = "consumed"]
      /\ UNCHANGED <<database, expired, disabled, sessions>>
      /\ consents \subseteq consents' /\ consents' \subseteq consents \cup {signIn[a].account}
      /\ signIn[a].stage = "resolving"
  BY DEF CommitIdentity, Stage
<1>6. signIn[a].challenge \in Challenges /\ signIn[a].account \in SignIns
  BY <1>3 DEF Resolving
<1>7. AuthTyped'
  <2>1. challenges' \in [Challenges -> {"absent", "pending", "consumed"}]
    BY <1>5 DEF AuthInv, AuthTyped, AuthTypeOK
  <2>. QED
    BY <1>2, <1>3, <1>4, <1>5, <1>6, <2>1 DEF AuthInv, AuthTyped, AuthTypeOK
<1>8. OneThrough'
  <2>1. \A b \in SignIns : Through(b)' => Through(b)
    BY <1>1, <1>2, <1>5 DEF Through
  <2>2. \A b \in SignIns : Through(b)' => signIn'[b].challenge = signIn[b].challenge
    BY <1>1, <1>2
  <2>3. \A c \in Challenges : Spent(c) => Spent(c)'
    BY <1>5 DEF Spent, AuthInv, AuthTyped, AuthTypeOK
  <2>4. \A c \in Challenges : c = signIn[a].challenge => Spent(c)'
    BY <1>5, <1>6 DEF Spent, AuthInv, AuthTyped, AuthTypeOK
  <2>5. \A b \in SignIns : Admitted(b)' => b = a \/ Admitted(b)
    BY <1>2 DEF Admitted
  <2>6. \A b \in SignIns : Admitted(b) => signIn[b].challenge \in Challenges
    BY SignInStages DEF AuthInv, Admitted
  <2>7. ASSUME NEW b \in SignIns, Admitted(b)', NEW c \in Challenges,
               c = signIn'[b].challenge
        PROVE  Spent(c)'
    <3>1. CASE b = a
      BY <1>1, <1>2, <2>4, <2>7, <3>1
    <3>2. CASE b # a
      <4>1. Admitted(b) /\ c = signIn[b].challenge
        BY <1>2, <2>5, <2>7, <3>2
      <4>. QED
        BY <2>3, <4>1 DEF AuthInv, OneThrough
    <3>. QED  BY <3>1, <3>2
  <2>8. \A b, c \in SignIns :
          Through(b)' /\ Through(c)' /\ signIn'[b].challenge = signIn'[c].challenge => b = c
    BY <2>1, <2>2 DEF AuthInv, OneThrough
  <2>9. \A b \in SignIns : Admitted(b)' => signIn'[b].challenge \in Challenges
    BY <1>1, <1>2, <1>6, <2>5, <2>6
  <2>. QED  BY <2>7, <2>8, <2>9 DEF OneThrough, Spent
<1>9. Linked'
  <2>1. \A l \in links' : Committed(l.account)'
    BY <1>1, <1>2, <1>3, <1>5 DEF AuthInv, Linked, Committed, AuthTyped, AuthTypeOK, Link
  <2>2. \A b \in disabled' : \E l \in links' : l.account = b
    BY <1>3, <1>5 DEF AuthInv, Linked
  <2>3. \A b \in SignIns : signIn'[b].stage = "resolving" =>
          signIn'[b].account = b \/ LinkOf(b)' \in links'
    BY <1>1, <1>2, <1>3 DEF AuthInv, Linked, LinkOf
  <2>4. \A b \in SignIns : Admitted(b)' =>
          LinkOf(b)' \in links' /\ signIn'[b].account \in consents'
    BY <1>1, <1>2, <1>3, <1>5 DEF AuthInv, Linked, LinkOf, Admitted
  <2>. QED  BY <1>3, <2>1, <2>2, <2>3, <2>4 DEF Linked
<1>10. ASSUME database = "sqlite" PROVE OneSignInTransaction'
  <2>1. Transacting' = {}
    BY <1>1, <1>2, <1>5, <1>10 DEF AuthInv, OneSignInTransaction, Transacting
  <2>2. \A b \in SignIns : signIn'[b].stage # "resolving"
    BY <2>1 DEF Transacting
  <2>. QED  BY <1>4, <1>10, <2>1, <2>2 DEF OneSignInTransaction
<1>11. OneSignInTransaction'
  BY <1>5, <1>10 DEF OneSignInTransaction
<1>. QED  BY <1>7, <1>8, <1>9, <1>11 DEF AuthInv

LEMMA CreateSessionInv ==
  ASSUME AuthInv, NEW a \in SignIns, CreateSession(a)
  PROVE  AuthInv'
<1> DEFINE v == [signIn[a] EXCEPT !.stage = "signed"]
<1>1. signIn[a] \in Signing
  BY SignInStages DEF AuthInv, CreateSession, Stage
<1>2. ASSUME NEW r \in Signing
      PROVE  /\ [r EXCEPT !.stage = "signed"] \in Positions
             /\ [r EXCEPT !.stage = "signed"].stage = "signed"
             /\ [r EXCEPT !.stage = "signed"].challenge = r.challenge
             /\ [r EXCEPT !.stage = "signed"].subject = r.subject
             /\ [r EXCEPT !.stage = "signed"].account = r.account
  BY DEF Signing, Positions
<1>3. /\ v \in Positions /\ v.stage = "signed" /\ v.challenge = signIn[a].challenge
      /\ v.subject = signIn[a].subject /\ v.account = signIn[a].account
  BY <1>1, <1>2
<1>4. Step(a, v)
  BY DEF CreateSession
<1>. HIDE DEF v
<1>5. sessions' \in [SignIns -> SignIns \cup {NoAccount}]
  BY <1>1 DEF CreateSession, AuthInv, AuthTyped, AuthTypeOK, Signing
<1>. QED
  BY <1>3, <1>4, <1>5, AdmittedMove DEF CreateSession, Stage, Admitted

\* Steps of the tables alone: no sign-in moves, no spent challenge is pending
\* again, and an account is disabled only between transactions.
LEMMA TablesInv ==
  ASSUME AuthInv,
         \/ IssueChallenge \/ ExpireChallenge \/ DisableAccount
         \/ \E a \in SignIns : Logout(a)
  PROVE  AuthInv'
<1>1. UNCHANGED <<database, links, mail, consents, signIn>>
  BY DEF IssueChallenge, ExpireChallenge, DisableAccount, Logout
<1>2. \A c \in Challenges : Spent(c) => Spent(c)'
  <2>1. CASE IssueChallenge
    BY <2>1 DEF IssueChallenge, Spent, AuthInv, AuthTyped, AuthTypeOK
  <2>2. CASE ~IssueChallenge
    BY <2>2 DEF ExpireChallenge, DisableAccount, Logout, Spent
  <2>. QED  BY <2>1, <2>2
<1>3. AuthTypeOK'
  <2>1. CASE IssueChallenge
    BY <2>1 DEF IssueChallenge, AuthInv, AuthTyped, AuthTypeOK
  <2>2. CASE ExpireChallenge
    BY <2>2 DEF ExpireChallenge, AuthInv, AuthTyped, AuthTypeOK
  <2>3. CASE DisableAccount
    BY <2>3 DEF DisableAccount, AuthInv, AuthTyped, AuthTypeOK, Link
  <2>4. ASSUME NEW a \in SignIns, Logout(a) PROVE AuthTypeOK'
    BY <2>4 DEF Logout, AuthInv, AuthTyped, AuthTypeOK
  <2>. QED  BY <2>1, <2>2, <2>3, <2>4
<1>4. AuthTyped'
  BY <1>1, <1>3 DEF AuthInv, AuthTyped
<1>5. OneThrough'
  <2>1. \A a \in SignIns : Admitted(a) => signIn[a].challenge \in Challenges
    BY SignInStages DEF AuthInv, Admitted
  <2>. QED
    BY <1>1, <1>2, <2>1 DEF AuthInv, OneThrough, Through, Admitted, Spent
<1>6. Linked'
  <2>1. \A a \in disabled' : \E l \in links : l.account = a
    BY DEF IssueChallenge, ExpireChallenge, DisableAccount, Logout, AuthInv, Linked
  <2>. QED
    BY <1>1, <2>1 DEF AuthInv, Linked, Committed, Admitted, LinkOf
<1>7. OneSignInTransaction'
  BY <1>1 DEF AuthInv, OneSignInTransaction, Transacting, ActiveIsUnique, OthersDeactivated, MailOf
<1>. QED  BY <1>4, <1>5, <1>6, <1>7 DEF AuthInv

LEMMA AuthNextInv == AuthInv /\ [AuthNext]_authVars => AuthInv'
<1> SUFFICES ASSUME AuthInv, [AuthNext]_authVars PROVE AuthInv'
  OBVIOUS
<1>1. ASSUME NEW a \in SignIns, AbortSignIn(a) PROVE AuthInv'
  BY <1>1, EndInv DEF AbortSignIn
<1>2. CASE UNCHANGED authVars
  BY <1>2 DEF authVars, AuthInv, AuthTyped, AuthTypeOK, OneThrough, Through, Spent, Admitted,
     Linked, Committed, LinkOf, OneSignInTransaction, Transacting, ActiveIsUnique, OthersDeactivated, MailOf
<1>. QED
  BY <1>1, <1>2, ReadChallengeInv, VerifyInv, ReadLiveChallengeInv, ConsumeChallengeInv,
     ResolveIdentityInv, CommitIdentityInv, CreateSessionInv, TablesInv DEF AuthNext

LEMMA AuthInvariant == AuthSpec => []AuthInv
BY AuthInitInv, AuthNextInv, PTL DEF AuthSpec

----------------------------------------------------------------------------
(* The theorems *)

\* Every row of the sign-in tables keeps its type.
THEOREM AuthTypeCorrect == AuthSpec => []AuthTypeOK
<1>1. AuthInv => AuthTypeOK
  BY DEF AuthInv, AuthTyped
<1>. QED  BY <1>1, AuthInvariant, PTL

\* authentication.ts reads a challenge before the verification and consumes it
\* in a later transaction: at most one sign-in is admitted with it, whatever
\* overlaps.
THEOREM ChallengesAdmitOnce == AuthSpec => []ChallengeSignsInOnce
<1>1. AuthInv => ChallengeSignsInOnce
  BY DEF AuthInv, OneThrough, Through, Admitted, ChallengeSignsInOnce
<1>. QED  BY <1>1, AuthInvariant, PTL

\* resolveProviderIdentity and recordVerifiedEmail: the sign-ins of an identity
\* are admitted to one account, linked and consented, and on SQLite it has at
\* most one active address.
THEOREM IdentitiesAreOneAccount == AuthSpec => []OneAccountPerIdentity
<1>1. ASSUME AuthInv PROVE SignInsOfOneAgree
  <2>1. \A a \in SignIns : Admitted(a) =>
          /\ LinkOf(a) \in links /\ LinkOf(a).subject = signIn[a].subject
          /\ LinkOf(a).account = signIn[a].account /\ signIn[a].account \in consents
    BY <1>1 DEF AuthInv, Linked, LinkOf
  <2>2. \A a, b \in SignIns :
          Admitted(a) /\ Admitted(b) /\ signIn[a].subject = signIn[b].subject =>
            LinkOf(a) = LinkOf(b)
    BY <1>1, <2>1 DEF AuthInv, Linked
  <2>. QED
    BY <2>1, <2>2 DEF SignInsOfOneAgree, LinkOf
<1>2. ASSUME AuthInv PROVE OneActiveAddress
  <2> SUFFICES ASSUME database = "sqlite", NEW a \in SignIns
               PROVE  Cardinality({m \in MailOf(a) : m.status = "active"}) <= 1
    BY DEF OneActiveAddress
  <2> DEFINE live == {m \in MailOf(a) : m.status = "active"}
  <2>1. CASE live = {}
    BY <2>1, FS_EmptySet
  <2>2. CASE live # {}
    <3>1. PICK m : m \in live
      BY <2>2
    <3>2. live = {m}
      BY <1>2, <3>1 DEF AuthInv, OneSignInTransaction, ActiveIsUnique, MailOf
    <3>3. Cardinality({m}) = 1
      BY FS_Singleton
    <3>. HIDE DEF live
    <3>4. Cardinality(live) = 1
      BY <3>2, <3>3
    <3>5. Cardinality(live) <= 1
      BY <3>4
    <3>. QED  BY <3>5 DEF live
  <2>. QED  BY <2>1, <2>2
<1>3. AuthInv => OneAccountPerIdentity
  BY <1>1, <1>2 DEF OneAccountPerIdentity
<1>. QED  BY <1>3, AuthInvariant, PTL
=============================================================================
