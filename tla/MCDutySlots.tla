---------------------------- MODULE MCDutySlots ----------------------------
(* Small instances of DutySlots. *)
EXTENDS DutySlots, TLC

AdultSymmetry == Permutations(Adults)
CallerSymmetry == Permutations(Requests)
Symmetry == AdultSymmetry \cup CallerSymmetry
============================================================================
