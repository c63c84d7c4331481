--------------------- MODULE MCStakeWeightedAllocation ---------------------
(* Small instances of StakeWeightedAllocation for TLC. *)
EXTENDS StakeWeightedAllocation, TLC

CONSTANTS o1, o2, o3

OperatorSymmetry == Permutations(Operators)
=============================================================================
