------------------------------ MODULE MCNotify ------------------------------
(* Small instances of NotifyWindow for TLC. *)
EXTENDS NotifyWindow, TLC

CONSTANTS ClientPackets, ServerPackets

MCMaxSeq == [p \in Peers |-> IF p = "client" THEN ClientPackets ELSE ServerPackets]
=============================================================================
