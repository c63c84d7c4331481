-------------------------- MODULE MCStreamRegistry --------------------------
(* Small instances of Registries for TLC. *)
EXTENDS Registries, TLC

CONSTANTS alice, bob, public, s1, n1, n2, n3, m1, empty, zero

Symmetry == Permutations({alice, bob})
=============================================================================
