----------------------------- MODULE MCOperator -----------------------------
(* Small instances of Operator for TLC. *)
EXTENDS OperatorContract

CONSTANTS owner, d1, s1, c1, n1, n2, n3
=============================================================================
