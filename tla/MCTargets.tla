----------------------------- MODULE MCTargets -----------------------------
(* Instances of Targets for TLC.                                           *)
EXTENDS Targets, TLC

MCSymmetry == Permutations(Ids) \cup Permutations(Sessions)
=============================================================================
