------------------------------ MODULE MCEvents ------------------------------
(* Small instances of EventReceiver for TLC. *)
EXTENDS EventReceiver, TLC

CONSTANTS s1, s2, t1, t2

Symmetry == Permutations({t1, t2})
=============================================================================
