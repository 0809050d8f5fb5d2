------------------------------ MODULE MCGhosts ------------------------------
(* Small instances of ObjectRegistry for TLC. *)
EXTENDS ObjectRegistry, TLC

CONSTANTS c1, c2

Symmetry == Permutations({c1, c2})
=============================================================================
