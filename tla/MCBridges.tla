----------------------------- MODULE MCBridges -----------------------------
(* A small instance of Bridges for TLC: each transport alone, and both with one event. *)
EXTENDS Bridges

CONSTANTS c1, c2

MCConfigurations == SUBSET {"nodered", "websocket"}

MCBound == [e \in MCConfigurations |-> IF e = {"nodered", "websocket"} THEN 1 ELSE 2]
=============================================================================
