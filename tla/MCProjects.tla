----------------------------- MODULE MCProjects -----------------------------
(* Small instances of Projects for TLC. *)
EXTENDS Projects, TLC

CONSTANTS alice, bob, zero, p1, s1, s2, d1

Lists == {<<s1>>, <<s2, s1>>, <<s1, s1>>}

Symmetry == Permutations({alice, bob})
=============================================================================
