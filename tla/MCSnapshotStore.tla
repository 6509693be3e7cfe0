-------------------------- MODULE MCSnapshotStore --------------------------
(* Instances of SnapshotStore for TLC.                                     *)
EXTENDS SnapshotStore, TLC

MCSymmetry == Permutations(Calls) \cup Permutations(Contents) \cup Permutations(Stamps)
=============================================================================
