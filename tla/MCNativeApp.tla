---------------------------- MODULE MCNativeApp ----------------------------
EXTENDS NativeApp, TLC

CONSTANTS c1, c2, o1, o2, t1, t2, t3

Symmetry == Permutations({c1, c2}) \cup Permutations({o1, o2})

\* No team, a team without a season, and a choice of two that have one.
MCListings == {{}, {t3}, {t1, t2, t3}}
=============================================================================
