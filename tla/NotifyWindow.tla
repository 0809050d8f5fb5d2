---------------------------- MODULE NotifyWindow ----------------------------
(***************************************************************************)
(* The packet/notify layer of netconn.py: sequence numbers, the ack mask   *)
(* and the delivered/lost verdicts that everything reliable rests on.      *)
(* Both ends of the connection run the same protocol: the client is        *)
(* NetConnection (aotbot/netconn.py), the server is its mirror image       *)
(* (external; docs/handshake.md section 4).  Only the client decodes       *)
(* bodies that may fail, and only the client's handlers send while a       *)
(* packet is being processed.                                              *)
(*                                                                         *)
(* A datagram carries full sequence numbers; a receiver looks only at      *)
(* their low bits (Unwrap), which is all the header has room for.          *)
(***************************************************************************)
EXTENDS Integers, FiniteSetsExt

CONSTANTS
    PACKET_WINDOW_SIZE,  \* 32: slots of last_seq_recvd_at_send, bits of the mask
    MAX_UNACKED,         \* 30: window_full()
    MAX_ACK_BYTE_COUNT,  \* 4: mask bytes a header may carry
    ACK_BYTE_BITS,       \* 8
    SEQ_NUMBER_WRAP,     \* 0x200: sequence numbers on the wire
    SEQ_WINDOW_SLACK,    \* 31: how far ahead a packet may be
    Pings,               \* does the server ping a silent client?
    Duplicates,          \* may the network deliver a datagram twice?
    Undecodable,         \* may the client fail to decode a body?
    HandlerSends,        \* may a handler send before its packet is decoded?
    MaxSeq,              \* bound: DATA packets each peer sends
    MaxInFlight          \* bound: datagrams in flight at once

Peers == {"client", "server"}
Other(p) == IF p = "client" THEN "server" ELSE "client"

ASSUME WindowAssumption ==
    /\ MAX_UNACKED \in Nat \ {0}
    /\ PACKET_WINDOW_SIZE \in Nat /\ MAX_UNACKED < PACKET_WINDOW_SIZE
    /\ ACK_BYTE_BITS \in Nat \ {0} /\ MAX_ACK_BYTE_COUNT \in Nat
    /\ ACK_BYTE_BITS * MAX_ACK_BYTE_COUNT = PACKET_WINDOW_SIZE
    /\ SEQ_WINDOW_SLACK \in Nat /\ MAX_UNACKED <= SEQ_WINDOW_SLACK
    /\ SEQ_NUMBER_WRAP \in Nat /\ SEQ_WINDOW_SLACK < SEQ_NUMBER_WRAP
    /\ MaxSeq \in [Peers -> Nat] /\ MaxInFlight \in Nat

ASSUME FeatureAssumption ==
    {Pings, Duplicates, Undecodable, HandlerSends} \subseteq BOOLEAN

VARIABLES
    conn,       \* the window state of each peer
    net,        \* datagrams in flight
    decoded,    \* history: DATA packets of the other peer whose body was taken
    delivered,  \* history: own DATA packets on_notify reported as delivered
    dropped     \* history: own DATA packets on_notify reported as lost

vars == <<conn, net, decoded, delivered, dropped>>

PacketTypes == {"data", "ping", "ack"}

Endpoint == [lastSeqRecvd : Nat, highestAckedSeq : Nat, lastSendSeq : Nat,
             ackMask : SUBSET (0 .. PACKET_WINDOW_SIZE - 1),
             lastRecvAckAck : Nat,
             lastSeqRecvdAtSend : [0 .. PACKET_WINDOW_SIZE - 1 -> Nat]]

Datagram == [from : Peers, type : PacketTypes, seq : Nat, ack : Nat,
             mask : SUBSET (0 .. PACKET_WINDOW_SIZE - 1)]

TypeOK ==
    /\ conn \in [Peers -> Endpoint]
    /\ net \subseteq Datagram
    /\ decoded \in [Peers -> SUBSET Nat]
    /\ delivered \in [Peers -> SUBSET Nat]
    /\ dropped \in [Peers -> SUBSET Nat]

-----------------------------------------------------------------------------
(* Sending *)

\* Mutant: the byte count rounded down.
AckBitsRoundedDown(c) ==
    ACK_BYTE_BITS * Min({MAX_ACK_BYTE_COUNT,
        (c.lastSeqRecvd - c.lastRecvAckAck) \div ACK_BYTE_BITS})

\* Bits of the mask a header has room for: whole bytes, enough for every
\* packet received since the last acknowledgement the peer is known to have.
AckBits(c) ==
    ACK_BYTE_BITS * Min({MAX_ACK_BYTE_COUNT,
        (c.lastSeqRecvd - c.lastRecvAckAck + ACK_BYTE_BITS - 1) \div ACK_BYTE_BITS})

\* _write_header: a packet of p whose state is c.
Header(p, c, type) ==
    [from |-> p, type |-> type, seq |-> c.lastSendSeq, ack |-> c.lastSeqRecvd,
     mask |-> {b \in c.ackMask : b < AckBits(c)}]

WindowFull(c) == c.lastSendSeq - c.highestAckedSeq >= MAX_UNACKED

MaySend(p, c) == ~WindowFull(c) /\ c.lastSendSeq < MaxSeq[p]

\* Mutant: the slot of the previous number.
StampedBefore(c) ==
    [c EXCEPT !.lastSendSeq = @ + 1,
              !.lastSeqRecvdAtSend =
                [@ EXCEPT ![c.lastSendSeq % PACKET_WINDOW_SIZE] = c.lastSeqRecvd]]

\* The endpoint after a DATA header: a new number, and what it acknowledged.
Stamped(c) ==
    [c EXCEPT !.lastSendSeq = @ + 1,
              !.lastSeqRecvdAtSend =
                [@ EXCEPT ![(c.lastSendSeq + 1) % PACKET_WINDOW_SIZE] = c.lastSeqRecvd]]

\* send_data_packet, if wanted and if the window has room.
AfterSend(p, want, c) == IF want /\ MaySend(p, c) THEN Stamped(c) ELSE c
SentBy(p, want, c) ==
    IF want /\ MaySend(p, c) THEN {Header(p, Stamped(c), "data")} ELSE {}

-----------------------------------------------------------------------------
(* Receiving *)

\* The least number >= n with the low bits x.
Unwrap(n, x) ==
    LET s == x + (n - (n % SEQ_NUMBER_WRAP))
    IN  IF s < n THEN s + SEQ_NUMBER_WRAP ELSE s

PkSeq(c, m) == Unwrap(c.lastSeqRecvd, m.seq % SEQ_NUMBER_WRAP)
PkAck(c, m) == Unwrap(c.highestAckedSeq, m.ack % SEQ_NUMBER_WRAP)

InWindow(c, m) ==
    /\ PkSeq(c, m) <= c.lastSeqRecvd + SEQ_WINDOW_SLACK
    /\ PkAck(c, m) <= c.lastSendSeq

\* Mutant: a verdict given already is given again.
JudgedAgain(c, m) == c.highestAckedSeq .. PkAck(c, m)

\* The packets of the receiver that m gives a verdict on, and the good news.
Judged(c, m) == c.highestAckedSeq + 1 .. PkAck(c, m)
\* Mutant: the bits are taken to start one packet later.
ConfirmedShifted(c, m) == {i \in Judged(c, m) : PkAck(c, m) - i + 1 \in m.mask}

Confirmed(c, m) == {i \in Judged(c, m) : PkAck(c, m) - i \in m.mask}

\* Mutant: the peer has seen whatever has been received by now.
AckAckNow(c, m) ==
    LET known == IF Confirmed(c, m) = {} THEN c.lastRecvAckAck ELSE c.lastSeqRecvd
    IN  IF PkSeq(c, m) - known > PACKET_WINDOW_SIZE
        THEN PkSeq(c, m) - PACKET_WINDOW_SIZE ELSE known

\* What the peer is now known to have seen of our acknowledgements.
AckAck(c, m) ==
    LET known == IF Confirmed(c, m) = {} THEN c.lastRecvAckAck
                 ELSE c.lastSeqRecvdAtSend[Max(Confirmed(c, m)) % PACKET_WINDOW_SIZE]
    IN  IF PkSeq(c, m) - known > PACKET_WINDOW_SIZE
        THEN PkSeq(c, m) - PACKET_WINDOW_SIZE ELSE known

\* Mask shift and notify loop; lastSeqRecvd still has its old value.
Notified(c, m) ==
    LET shift == PkSeq(c, m) - c.lastSeqRecvd
    IN  [c EXCEPT
           !.ackMask = {b \in 0 .. PACKET_WINDOW_SIZE - 1 : b - shift \in @}
                         \union (IF m.type = "data" THEN {0} ELSE {}),
           !.lastRecvAckAck = AckAck(c, m),
           !.highestAckedSeq = PkAck(c, m)]

Advanced(c, m) == [Notified(c, m) EXCEPT !.lastSeqRecvd = PkSeq(c, m)]

\* Mutant: pings are ignored.
PingIgnored(p, c, m) == {}

\* A ping is answered before lastSeqRecvd moves.
PingAnswer(p, c, m) ==
    IF m.type = "ping" THEN {Header(p, Notified(c, m), "ack")} ELSE {}

HasNewBody(c, m) == m.type = "data" /\ PkSeq(c, m) # c.lastSeqRecvd

\* Mutant: a packet that does not decode is acknowledged all the same.
NackForgotten(ok, c) == c

Nack(ok, c) == IF ok THEN c ELSE [c EXCEPT !.ackMask = @ \ {0}]

-----------------------------------------------------------------------------
Init ==
    /\ conn = [p \in Peers |->
                 [lastSeqRecvd |-> 0, highestAckedSeq |-> 0, lastSendSeq |-> 0,
                  ackMask |-> {}, lastRecvAckAck |-> 0,
                  lastSeqRecvdAtSend |-> [s \in 0 .. PACKET_WINDOW_SIZE - 1 |-> 0]]]
    /\ net = {}
    /\ decoded = [p \in Peers |-> {}]
    /\ delivered = [p \in Peers |-> {}]
    /\ dropped = [p \in Peers |-> {}]

\* The network: any of the datagrams sent may be lost, one that arrived may
\* arrive again, and what is in flight arrives in any order.
Transmit(flying, sent) ==
    {flying \union kept : kept \in {k \in SUBSET sent :
                                     Cardinality(flying \union k) <= MaxInFlight}}
Taken(m) == IF Duplicates THEN {net, net \ {m}} ELSE {net \ {m}}

\* The 32 ms tick of _keepalive_loop, or a command that flushes at once; the
\* server's own send tick.
SendData(p) ==
    /\ MaySend(p, conn[p])
    /\ conn' = [conn EXCEPT ![p] = Stamped(@)]
    /\ net' \in Transmit(net, SentBy(p, TRUE, conn[p]))
    /\ UNCHANGED <<decoded, delivered, dropped>>

\* The server pings a client it has not heard of (external, 4.5 s timer).
Ping ==
    /\ Pings
    /\ net' \in Transmit(net, {Header("server", conn["server"], "ping")})
    /\ UNCHANGED <<conn, decoded, delivered, dropped>>

\* Network assumption: a datagram is not delayed until its low bits mean
\* another packet (481 later packets, 15 s at 32 packets/s).
Fresh(c, m) ==
    /\ m.seq + SEQ_NUMBER_WRAP > c.lastSeqRecvd + SEQ_WINDOW_SLACK
    /\ m.ack + SEQ_NUMBER_WRAP > c.highestAckedSeq + MAX_UNACKED

\* _process_raw_packet, a packet outside the window: dropped.
Discard(p, m) ==
    /\ m \in net /\ m.from = Other(p)
    /\ Fresh(conn[p], m) => ~InWindow(conn[p], m)
    /\ net' = net \ {m}
    /\ UNCHANGED <<conn, decoded, delivered, dropped>>

Verdicts(p, m) ==
    /\ delivered' = [delivered EXCEPT ![p] = @ \union Confirmed(conn[p], m)]
    /\ dropped' = [dropped EXCEPT
                     ![p] = @ \union (Judged(conn[p], m) \ Confirmed(conn[p], m))]

\* A packet without a body to process: PING, ACK, or a number seen already.
ReceiveHeader(p, m) ==
    /\ m \in net /\ m.from = Other(p) /\ Fresh(conn[p], m)
    /\ InWindow(conn[p], m) /\ ~HasNewBody(conn[p], m)
    /\ Verdicts(p, m)
    /\ conn' = [conn EXCEPT ![p] = Advanced(@, m)]
    /\ \E left \in Taken(m) : net' \in Transmit(left, PingAnswer(p, conn[p], m))
    /\ UNCHANGED decoded

\* A packet with a body: handlers may send (early), the body decodes or not
\* (ok), and what has been queued meanwhile is flushed.
ReceiveBody(p, m, early, ok, flush) ==
    LET c1 == Advanced(conn[p], m)
        c2 == Nack(ok, AfterSend(p, early, c1))
    IN  /\ m \in net /\ m.from = Other(p) /\ Fresh(conn[p], m)
        /\ InWindow(conn[p], m) /\ HasNewBody(conn[p], m)
        /\ Verdicts(p, m)
        /\ conn' = [conn EXCEPT ![p] = AfterSend(p, flush, c2)]
        /\ \E left \in Taken(m) :
             net' \in Transmit(left, SentBy(p, early, c1) \union SentBy(p, flush, c2))
        /\ decoded' = [decoded EXCEPT
                         ![p] = @ \union (IF ok THEN {PkSeq(conn[p], m)} ELSE {})]

ClientReceivesBody(m) ==
    \E early, ok, flush \in BOOLEAN :
        /\ early => HandlerSends
        /\ ok \/ Undecodable
        /\ ReceiveBody("client", m, early, ok, flush)

ServerReceivesBody(m) == ReceiveBody("server", m, FALSE, TRUE, FALSE)

Next ==
    \/ \E p \in Peers : SendData(p)
    \/ Ping
    \/ \E m \in net :
         \/ \E p \in Peers : Discard(p, m) \/ ReceiveHeader(p, m)
         \/ ClientReceivesBody(m)
         \/ ServerReceivesBody(m)

Spec == Init /\ [][Next]_vars
-----------------------------------------------------------------------------
(* Properties *)

\* The four counters stay in step: nobody is told about packets that were not
\* sent, and never more than MAX_UNACKED packets are unacknowledged
\* (window_full, the bound that keeps slots and mask bits from being reused).
WindowOrder ==
    \A p \in Peers :
        /\ conn[p].highestAckedSeq <= conn[Other(p)].lastSeqRecvd
        /\ conn[Other(p)].lastSeqRecvd <= conn[p].lastSendSeq
        /\ conn[p].lastSendSeq <= conn[p].highestAckedSeq + MAX_UNACKED

\* The mask of the next header reaches back to the oldest packet the peer
\* still waits for, whatever was cut off by the byte count: the truncation
\* that stalled the ghost stream (netconn.py:536-544) cannot come back.
AckCoverage ==
    \A p \in Peers :
        conn[p].lastSeqRecvd - AckBits(conn[p]) <= conn[Other(p)].highestAckedSeq

\* on_notify reports every packet exactly once: none is skipped, and none is
\* first delivered and later lost (its events would be freed and re-sent).
VerdictOnce ==
    \A p \in Peers :
        /\ delivered[p] \union dropped[p] = 1 .. conn[p].highestAckedSeq
        /\ delivered[p] \intersect dropped[p] = {}

\* The slot of an unacknowledged packet still holds what that packet
\* acknowledged: the 32 slots are not reused while a verdict is outstanding.
SlotInFlight ==
    \A m \in net :
        m.type = "data" /\ m.seq > conn[m.from].highestAckedSeq
        => conn[m.from].lastSeqRecvdAtSend[m.seq % PACKET_WINDOW_SIZE] = m.ack

\* A packet reported lost was never taken and never will be, so re-sending
\* what it carried repeats nothing the receiver has taken as a whole.
NoFalseLoss ==
    \A p \in Peers : dropped[p] \intersect decoded[Other(p)] = {}

\* A packet reported delivered has been taken by the receiver: what the NACK
\* scheme (docs/desync-recovery.md) is there to guarantee.
DeliveredMeansDecoded ==
    \A p \in Peers : delivered[p] \subseteq decoded[Other(p)]

\* Each direction keeps the promise of PacketChannel: packets are taken in
\* order and at most once, and on_notify tells the truth about every one.
ToServer == INSTANCE PacketChannel WITH
    sent <- conn["client"].lastSendSeq, received <- conn["server"].lastSeqRecvd,
    taken <- decoded["server"],
    judged <- conn["client"].highestAckedSeq, delivered <- delivered["client"]
ToClient == INSTANCE PacketChannel WITH
    sent <- conn["server"].lastSendSeq, received <- conn["client"].lastSeqRecvd,
    taken <- decoded["client"],
    judged <- conn["server"].highestAckedSeq, delivered <- delivered["server"]

BothDirections == ToServer!ChannelSpec /\ ToClient!ChannelSpec

\* Fairness: the server keeps pinging, and of the pings, and of the answers
\* to them, some get through.
PingArrives == Ping /\ \E m \in net' \ net : m.type = "ping"
PingAnswered ==
    \E m \in net : /\ m.type = "ping" /\ ReceiveHeader("client", m)
                   /\ \E a \in net' \ net : a.type = "ack"
AckArrives == \E m \in net : m.type = "ack" /\ ReceiveHeader("server", m)
Arrives ==
    \E m \in net : \/ \E p \in Peers : Discard(p, m) \/ ReceiveHeader(p, m)
                  \/ ClientReceivesBody(m) \/ ServerReceivesBody(m)

Fairness ==
    /\ SF_vars(PingArrives) /\ SF_vars(PingAnswered) /\ SF_vars(AckArrives)
    /\ WF_vars(Arrives)

FairSpec == Spec /\ Fairness

\* Every packet the client sent gets its verdict, even when all of them were
\* lost and a full window keeps the client from sending anything by itself.
EveryPacketJudged ==
    \A i \in 1 .. MaxSeq["client"] :
        conn["client"].lastSendSeq >= i ~> conn["client"].highestAckedSeq >= i
=============================================================================
