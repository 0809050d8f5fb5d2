---------------------------- MODULE PacketChannel ----------------------------
(***************************************************************************)
(* What the packet/notify layer promises to the event and ghost layers, in *)
(* one direction: DATA packets are numbered, the receiver takes them in    *)
(* order and at most once, possibly with holes, and the sender learns for  *)
(* every packet, in order and exactly once, whether it was taken.          *)
(*                                                                         *)
(* NotifyWindow (aotbot/netconn.py) implements it in both directions when  *)
(* nothing is duplicated, the server does not ping and no handler sends    *)
(* while its packet is decoded; EventReceiver and CommandSender build on   *)
(* it.                                                                     *)
(***************************************************************************)
EXTENDS Integers

CONSTANT MAX_UNACKED

VARIABLES
    sent,       \* DATA packets sent
    received,   \* number of the last packet the receiver looked at
    taken,      \* packets whose body the receiver has taken
    judged,     \* packets the sender has a verdict on: 1 .. judged
    delivered   \* those reported as delivered

chan == <<sent, received, taken, judged, delivered>>

ChannelInit ==
    /\ sent = 0 /\ received = 0 /\ taken = {}
    /\ judged = 0 /\ delivered = {}

\* Mutant: whatever the receiver looked at counts as taken.
JudgeSeen(k) ==
    /\ k \in judged .. received
    /\ judged' = k
    /\ delivered' = delivered \union (judged + 1 .. k)

\* The sender learns the verdicts up to packet k ...
Judge(k) ==
    /\ k \in judged .. received
    /\ judged' = k
    /\ delivered' = delivered \union {i \in taken : judged < i /\ i <= k}

\* ... and sends n packets, as far as its window allows.
Send(n) ==
    /\ sent' = sent + n
    /\ n > 0 => sent' - judged' <= MAX_UNACKED

\* One step of the sender: on_notify for some packets, then at most one packet.
SenderStep ==
    /\ \E k \in judged .. received, n \in {0, 1} : Judge(k) /\ Send(n)
    /\ UNCHANGED <<received, taken>>

\* The receiver looks at packet i, skipping those lost, and takes it or not.
Take(i, ok) ==
    /\ i \in received + 1 .. sent
    /\ received' = i
    /\ taken' = IF ok THEN taken \union {i} ELSE taken
    /\ UNCHANGED <<sent, judged, delivered>>

ReceiverStep == \E i \in received + 1 .. sent, ok \in BOOLEAN : Take(i, ok)

ChannelSpec == ChannelInit /\ [][SenderStep \/ ReceiverStep]_chan
=============================================================================
