------------------------------- MODULE Bridges -------------------------------
(***************************************************************************)
(* The transports of main.py together: forward() gives every event to each *)
(* that is configured, and stop_transports() stops them, Node-RED first.   *)
(***************************************************************************)
EXTENDS WebSocketServer, NodeRedBridge

CONSTANTS
  Configurations,  \* sets of transports that may be enabled
  MaxEvents,       \* bound: events forwarded, by what is enabled
  MaxConnections   \* bound: connections to Node-RED, likewise

ASSUME BridgesAssumption ==
  /\ Configurations \subseteq SUBSET {"nodered", "websocket"}
  /\ {MaxEvents, MaxConnections} \subseteq [Configurations -> Nat]

VARIABLES enabled, events, stopping

vars == <<wsVars, nrVars, enabled, events, stopping>>

Init ==
  /\ enabled \in Configurations
  /\ events = 0 /\ stopping = FALSE
  /\ WsInit("websocket" \in enabled) /\ NrInit("nodered" \in enabled)

Forward ==
  /\ events < MaxEvents[enabled] /\ events' = events + 1
  /\ IF "websocket" \in enabled THEN Cast ELSE UNCHANGED wsVars
  /\ IF "nodered" \in enabled THEN Send ELSE UNCHANGED nrVars
  /\ UNCHANGED <<enabled, stopping>>

\* stop_transports()
Stop ==
  /\ ~stopping /\ stopping' = TRUE
  /\ IF "nodered" \in enabled THEN NrStop /\ UNCHANGED wsVars
     ELSE IF "websocket" \in enabled THEN WsStop /\ UNCHANGED nrVars
     ELSE UNCHANGED <<wsVars, nrVars>>
  /\ UNCHANGED <<enabled, events>>

StopServer ==
  /\ stopping /\ bridge = "down" /\ WsStop
  /\ UNCHANGED <<nrVars, enabled, events, stopping>>

ServerAlone == UNCHANGED <<nrVars, enabled, events, stopping>>

BridgeAlone == UNCHANGED <<wsVars, enabled, events, stopping>>

ServerLoop == WsLoop /\ ServerAlone

ServerPeer == ServerAlone /\ \E c \in Clients : WsPeer(c)

BridgeLoop == NrLoop /\ BridgeAlone

Connects == ConnectOk /\ number < MaxConnections[enabled] /\ BridgeAlone

ConnectEnds == Connects \/ (ConnectFails /\ BridgeAlone)

BridgePeer == (DrainsLine \/ LinkLost) /\ BridgeAlone

Next ==
  Forward \/ Stop \/ StopServer \/ ServerLoop \/ ServerPeer \/ BridgeLoop \/ ConnectEnds
    \/ BridgePeer

Spec == Init /\ [][Next]_vars

\* The loop runs what is ready.  A client completes its handshake or goes away, reads
\* what it is sent or goes away, and lets a connection that is closed end.
ServerFairness ==
  /\ WF_vars(ServerLoop) /\ WF_vars(StopServer)
  /\ \A c \in Clients :
       /\ WF_vars((Joins(c) \/ HandshakeEnds(c)) /\ ServerAlone)
       /\ WF_vars(Drains(c) /\ ServerAlone)
       /\ WF_vars(peer[c] = "closing" /\ Lost(c) /\ ServerAlone)

\* A connect that is tried ends, Node-RED accepts one now and then, and a connection
\* that was closed ends.
BridgeFairness ==
  /\ WF_vars(BridgeLoop) /\ WF_vars(ConnectEnds) /\ SF_vars(Connects)
  /\ WF_vars(link = "closing" /\ LinkLost /\ BridgeAlone)

FairSpec == Spec /\ ServerFairness /\ BridgeFairness

-----------------------------------------------------------------------------
\* Every consumer gets each event at most once, and in the order in which they
\* happened, as long as no other client's buffer was full (websocket.py 202-209,
\* nodered.py 277-294): across clients that come, go and stall, and reconnections.
InOrder == WsInOrder /\ NrInOrder

\* What a broadcast or a send was meant for has got it when that is over, whoever
\* else left or failed meanwhile (websocket.py 189-211, nodered.py 283-294).
Reaches == WsReaches /\ NrReaches

\* After stop_transports() both transports end: no connection, task or client is left,
\* also when a client was in its handshake (websocket.py 169-185, nodered.py 253-273).
StopEnds == stopping ~> (WsOver /\ NrOver)

\* Node-RED is reached again after every loss, as often as it comes back.
NodeRedBack ==
  ("nodered" \in enabled /\ run # "up" /\ number < MaxConnections[enabled]) ~> (connected \/ stopping)
=============================================================================
