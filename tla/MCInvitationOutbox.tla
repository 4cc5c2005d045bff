------------------------- MODULE MCInvitationOutbox -------------------------
(* Small instances of InvitationOutbox: one invitation, opened and rotated  *)
(* once, one worker and one crash.                                          *)
EXTENDS InvitationOutbox, TLC

\* Passes differ by name only; the liveness run does without the symmetry.
Symmetry == Permutations(Passes)
============================================================================
