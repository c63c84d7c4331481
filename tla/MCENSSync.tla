------------------------------ MODULE MCENSSync ------------------------------
(* Small instances of ENSSync for TLC. *)
EXTENDS ENSSync

CONSTANTS alice, bob, public, s1, n1, m1, empty, nobody
=============================================================================
