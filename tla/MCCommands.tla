----------------------------- MODULE MCCommands -----------------------------
(* Small instances of CommandSender for TLC. *)
EXTENDS CommandSender, TLC

CONSTANTS v1, v2, v3

Symmetry == Permutations(Verbs)
=============================================================================
