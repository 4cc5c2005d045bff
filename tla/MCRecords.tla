----------------------------- MODULE MCRecords -----------------------------
EXTENDS Records, TLC

CONSTANTS h1, h2, r1, r2, r3, ann, bob, cat, kit, kat

\* Two instants to a day.
MCInstant(d, t) == 2 * d + t

\* An inactive creator's team, a guardian of one child.
MCGuards(p) == IF p = ann THEN {kit} ELSE {}

\* A file that names one child twice with one guardian twice, and one that
\* names the other.
MCFiles ==
  {<<[key |-> kit, guardians |-> <<ann, ann>>, ok |-> TRUE],
     [key |-> kat, guardians |-> <<>>, ok |-> FALSE],
     [key |-> kit, guardians |-> <<>>, ok |-> TRUE]>>,
   <<[key |-> kat, guardians |-> <<ann>>, ok |-> TRUE]>>}

Symmetry == Permutations({h1, h2}) \cup Permutations({r1, r2, r3})
=============================================================================
