-------------------------- MODULE MCDiscoveryRuns --------------------------
(* Instances of DiscoveryRuns for TLC.                                     *)
EXTENDS DiscoveryRuns, TLC

MCSymmetry == Permutations(Requests) \cup Permutations(Ids)
=============================================================================
