------------------------- MODULE NotifyWindowProofs -------------------------
(***************************************************************************)
(* Theorems about NotifyWindow, for every window size, number of packets   *)
(* and network bound.  The inductive invariant is stated on the two ends   *)
(* of one direction: c sends, d receives and acknowledges.  A step of the  *)
(* specification is a composition of a header being taken in (Advanced),   *)
(* packets being sent (Stamped) and the NACK of a body, so each of these   *)
(* has its lemma, on endpoint records, and the action proofs compose them. *)
(* The last part is about the truth of the verdicts: Complete (what was    *)
(* taken is acknowledged) without pings, Sound (nothing else is) and the   *)
(* refinement of PacketChannel without pings, duplicates and early sends.  *)
(***************************************************************************)
EXTENDS NotifyWindow, TLAPS, WellFoundedInduction

-----------------------------------------------------------------------------
(* The inductive invariant *)

Slot(c, i) == c.lastSeqRecvdAtSend[i % PACKET_WINDOW_SIZE]

InFlight(c) == c.highestAckedSeq + 1 .. c.lastSendSeq

\* Counters of the direction c -> d.
Counters(c, d) ==
    /\ c.highestAckedSeq <= d.lastSeqRecvd
    /\ d.lastSeqRecvd <= c.lastSendSeq
    /\ c.lastSendSeq <= c.highestAckedSeq + MAX_UNACKED

\* What d believes c has seen of its acks is true, and the rest fits the mask.
AckAckSound(c, d) ==
    /\ d.lastRecvAckAck <= c.highestAckedSeq
    /\ d.lastSeqRecvd <= d.lastRecvAckAck + PACKET_WINDOW_SIZE

\* The slots of unacknowledged packets grow with the packet number.
SlotsOrdered(c) ==
    \A i, j \in InFlight(c) : i <= j => Slot(c, i) <= Slot(c, j)
                                        /\ Slot(c, j) <= c.lastSeqRecvd

\* A mask bit of d for packet j shows that d has seen what c acknowledged in
\* j, and in every earlier packet.
BitsSeen(c, d, ack, mask) ==
    \A i \in InFlight(c), j \in 0 .. ack :
        i <= j /\ ack - j \in mask => Slot(c, i) <= d.highestAckedSeq

Link(c, d) ==
    /\ Counters(c, d)
    /\ AckAckSound(c, d)
    /\ SlotsOrdered(c)
    /\ BitsSeen(c, d, d.lastSeqRecvd, d.ackMask)

\* A datagram m from c to d.
Flight(c, d, m) ==
    /\ m.seq <= c.lastSendSeq /\ m.ack <= c.lastSeqRecvd
    /\ m.type = "data" /\ m.seq > c.highestAckedSeq => Slot(c, m.seq) = m.ack
    /\ BitsSeen(d, c, m.ack, m.mask)

WInv(cn, nt) ==
    /\ cn \in [Peers -> Endpoint] /\ nt \subseteq Datagram
    /\ \A p \in Peers : Link(cn[p], cn[Other(p)])
    /\ \A m \in nt : Flight(cn[m.from], cn[Other(m.from)], m)

WindowInv == WInv(conn, net)

-----------------------------------------------------------------------------
(* Arithmetic *)

\* A number is its quotient and its remainder.
LEMMA DivMod ==
    ASSUME NEW W \in Nat \ {0}, NEW n \in Nat
    PROVE  n = W * (n \div W) + (n % W) /\ n % W \in 0 .. W - 1 /\ n \div W \in Nat
  BY SMTT(30)

\* Two numbers at most W apart are as far apart as their remainders, or W more.
LEMMA NearRemainders ==
    ASSUME NEW W \in Nat \ {0}, NEW n \in Nat, NEW s \in Nat, n <= s, s <= n + W
    PROVE  \/ s % W >= n % W /\ s - n = (s % W) - (n % W)
           \/ s % W <= n % W /\ s - n = (s % W) - (n % W) + W
<1> DEFINE a == n \div W   b == n % W   c == s \div W   d == s % W
<1>1. n = W * a + b /\ b \in 0 .. W - 1 /\ a \in Nat
  BY DivMod
<1>2. s = W * c + d /\ d \in 0 .. W - 1 /\ c \in Nat
  BY DivMod
<1> HIDE DEF a, b, c, d
<1>3. c = a \/ c = a + 1
  <2>1. CASE c < a
    <3>1. W * c <= W * (a - 1)
      BY <2>1, <1>1, <1>2, SMTT(30)
    <3>2. W * (a - 1) = W * a - W
      BY <1>1, SMTT(30)
    <3>3. QED
      BY <3>1, <3>2, <1>1, <1>2
  <2>2. CASE c > a + 1
    <3>1. W * c >= W * (a + 2)
      BY <2>2, <1>1, <1>2, SMTT(30)
    <3>2. W * (a + 2) = W * a + W + W
      BY <1>1, SMTT(30)
    <3>3. QED
      BY <3>1, <3>2, <1>1, <1>2
  <2>3. QED
    BY <2>1, <2>2, <1>1, <1>2
<1>4. CASE c = a
  <2>1. s - n = d - b
    BY <1>1, <1>2, <1>4
  <2>2. QED
    BY <2>1, <1>1, <1>2 DEF b, d
<1>5. CASE c = a + 1
  <2>1. W * c = W * a + W
    BY <1>5, <1>1, SMTT(30)
  <2>2. s - n = d - b + W
    BY <2>1, <1>1, <1>2
  <2>3. QED
    BY <2>2, <1>1, <1>2 DEF b, d
<1>6. QED
  BY <1>3, <1>4, <1>5

\* The 9-bit sequence number determines any number up to a wrap ahead.
LEMMA UnwrapExact ==
    ASSUME NEW n \in Nat, NEW s \in Nat, n <= s, s < n + SEQ_NUMBER_WRAP
    PROVE  Unwrap(n, s % SEQ_NUMBER_WRAP) = s
<1>1. SEQ_NUMBER_WRAP \in Nat \ {0}
  BY WindowAssumption
<1>2. /\ n % SEQ_NUMBER_WRAP \in 0 .. SEQ_NUMBER_WRAP - 1
      /\ s % SEQ_NUMBER_WRAP \in 0 .. SEQ_NUMBER_WRAP - 1
  BY <1>1, DivMod
<1>3. s <= n + SEQ_NUMBER_WRAP /\ s - n < SEQ_NUMBER_WRAP
  BY <1>1
<1>4. \/ /\ s % SEQ_NUMBER_WRAP >= n % SEQ_NUMBER_WRAP
         /\ s - n = (s % SEQ_NUMBER_WRAP) - (n % SEQ_NUMBER_WRAP)
      \/ /\ s % SEQ_NUMBER_WRAP <= n % SEQ_NUMBER_WRAP
         /\ s - n = (s % SEQ_NUMBER_WRAP) - (n % SEQ_NUMBER_WRAP) + SEQ_NUMBER_WRAP
  BY <1>1, <1>3, NearRemainders
<1>5. QED
  BY <1>1, <1>2, <1>3, <1>4 DEF Unwrap

LEMMA UnwrapWrapped ==
    ASSUME NEW n \in Nat, NEW s \in Nat, s < n, n <= s + SEQ_NUMBER_WRAP
    PROVE  Unwrap(n, s % SEQ_NUMBER_WRAP) = s + SEQ_NUMBER_WRAP
<1>1. SEQ_NUMBER_WRAP \in Nat \ {0}
  BY WindowAssumption
<1>2. /\ n % SEQ_NUMBER_WRAP \in 0 .. SEQ_NUMBER_WRAP - 1
      /\ s % SEQ_NUMBER_WRAP \in 0 .. SEQ_NUMBER_WRAP - 1
  BY <1>1, DivMod
<1>3. s <= n
  OBVIOUS
<1>4. \/ /\ n % SEQ_NUMBER_WRAP >= s % SEQ_NUMBER_WRAP
         /\ n - s = (n % SEQ_NUMBER_WRAP) - (s % SEQ_NUMBER_WRAP)
      \/ /\ n % SEQ_NUMBER_WRAP <= s % SEQ_NUMBER_WRAP
         /\ n - s = (n % SEQ_NUMBER_WRAP) - (s % SEQ_NUMBER_WRAP) + SEQ_NUMBER_WRAP
  BY <1>1, <1>3, NearRemainders
<1>5. QED
  BY <1>1, <1>2, <1>4 DEF Unwrap

\* Packets in flight at the same time have different slots.
LEMMA SlotsDiffer ==
    ASSUME NEW W \in Nat \ {0}, NEW i \in Nat, NEW j \in Nat, i < j, j < i + W
    PROVE  i % W # j % W
<1>1. i <= j /\ j <= i + W
  OBVIOUS
<1>2. \/ j % W >= i % W /\ j - i = (j % W) - (i % W)
      \/ j % W <= i % W /\ j - i = (j % W) - (i % W) + W
  BY <1>1, NearRemainders
<1>3. i % W \in Nat /\ j % W \in Nat
  BY DivMod
<1>4. QED
  BY <1>2, <1>3

LEMMA LeastExists ==
    ASSUME NEW T \in SUBSET Nat, T # {}
    PROVE  \E x \in T : \A y \in T : x <= y
<1>1. PICK x \in T : \A y \in T : ~ (<<y, x>> \in OpToRel(<, Nat))
  BY NatLessThanWellFounded, WFMin
<1>2. ASSUME NEW y \in T
      PROVE  x <= y
  <2>1. ~ (<<y, x>> \in OpToRel(<, Nat))
    BY <1>1
  <2>2. ~ (<<y, x>> \in {ss \in Nat \X Nat : ss[1] < ss[2]})
    BY <2>1 DEF OpToRel
  <2>3. <<y, x>> \in Nat \X Nat
    OBVIOUS
  <2>4. ~ (y < x)
    BY <2>2, <2>3
  <2>5. QED
    BY <2>4
<1>3. QED
  BY <1>2

\* Max is what it says on a bounded set of numbers.
LEMMA MaxIsGreatest ==
    ASSUME NEW h \in Nat, NEW D \in SUBSET (0 .. h), D # {}
    PROVE  Max(D) \in D /\ \A y \in D : y <= Max(D)
<1> DEFINE T == {h - i : i \in D}
<1>1. T \in SUBSET Nat /\ T # {}
  <2>1. PICK e \in D : TRUE
    OBVIOUS
  <2>2. h - e \in T
    BY <2>1
  <2>3. \A t \in T : t \in Nat
    OBVIOUS
  <2>4. QED
    BY <2>2, <2>3
<1> HIDE DEF T
<1>2. PICK t \in T : \A y \in T : t <= y
  BY <1>1, LeastExists
<1>3. PICK x \in D : t = h - x
  BY DEF T
<1>4. ASSUME NEW y \in D
      PROVE  x >= y
  <2>1. h - y \in T
    BY DEF T
  <2>2. t <= h - y
    BY <2>1, <1>2
  <2>3. QED
    BY <1>3, <2>2
<1>5. \E z \in D : \A y \in D : z >= y
  BY <1>4
<1>6. Max(D) \in D /\ \A y \in D : Max(D) >= y
  BY <1>5 DEF Max
<1>7. QED
  BY <1>6

-----------------------------------------------------------------------------
(* Sending a data packet *)

LEMMA StampedFields ==
    ASSUME NEW c \in Endpoint
    PROVE  /\ Stamped(c) \in Endpoint
           /\ Stamped(c).lastSeqRecvd = c.lastSeqRecvd
           /\ Stamped(c).highestAckedSeq = c.highestAckedSeq
           /\ Stamped(c).lastSendSeq = c.lastSendSeq + 1
           /\ Stamped(c).ackMask = c.ackMask
           /\ Stamped(c).lastRecvAckAck = c.lastRecvAckAck
           /\ Slot(Stamped(c), c.lastSendSeq + 1) = c.lastSeqRecvd
           /\ \A i \in InFlight(c) :
                ~WindowFull(c) => Slot(Stamped(c), i) = Slot(c, i)
<1>1. PACKET_WINDOW_SIZE \in Nat \ {0} /\ MAX_UNACKED \in Nat
      /\ MAX_UNACKED < PACKET_WINDOW_SIZE
  BY WindowAssumption
<1> DEFINE k == (c.lastSendSeq + 1) % PACKET_WINDOW_SIZE
<1>2. k \in 0 .. PACKET_WINDOW_SIZE - 1
  <2>1. c.lastSendSeq + 1 \in Nat
    BY DEF Endpoint
  <2>2. QED
    BY <1>1, <2>1, DivMod
<1>3. /\ Stamped(c) \in Endpoint
      /\ Stamped(c).lastSeqRecvd = c.lastSeqRecvd
      /\ Stamped(c).highestAckedSeq = c.highestAckedSeq
      /\ Stamped(c).lastSendSeq = c.lastSendSeq + 1
      /\ Stamped(c).ackMask = c.ackMask
      /\ Stamped(c).lastRecvAckAck = c.lastRecvAckAck
      /\ Stamped(c).lastSeqRecvdAtSend = [c.lastSeqRecvdAtSend EXCEPT ![k] = c.lastSeqRecvd]
  <2> DEFINE r == [c.lastSeqRecvdAtSend EXCEPT ![k] = c.lastSeqRecvd]
  <2>1. r \in [0 .. PACKET_WINDOW_SIZE - 1 -> Nat]
    BY DEF Endpoint
  <2>2. Stamped(c) = [c EXCEPT !.lastSendSeq = c.lastSendSeq + 1, !.lastSeqRecvdAtSend = r]
    BY DEF Stamped
  <2> HIDE DEF k, r
  <2>3. c.lastSendSeq + 1 \in Nat
    BY DEF Endpoint
  <2>4. Stamped(c) = [lastSeqRecvd |-> c.lastSeqRecvd,
                      highestAckedSeq |-> c.highestAckedSeq,
                      lastSendSeq |-> c.lastSendSeq + 1, ackMask |-> c.ackMask,
                      lastRecvAckAck |-> c.lastRecvAckAck, lastSeqRecvdAtSend |-> r]
    BY <2>2 DEF Endpoint
  <2>5. QED
    BY <2>1, <2>3, <2>4 DEF Endpoint, r
<1>4. Slot(Stamped(c), c.lastSendSeq + 1) = c.lastSeqRecvd
  BY <1>2, <1>3 DEF Endpoint, Slot
<1>5. ASSUME NEW i \in InFlight(c), ~WindowFull(c)
      PROVE  Slot(Stamped(c), i) = Slot(c, i)
  <2>1. /\ i \in Nat /\ c.lastSendSeq + 1 \in Nat
        /\ i < c.lastSendSeq + 1 /\ c.lastSendSeq + 1 < i + PACKET_WINDOW_SIZE
    BY <1>1, <1>5, SMTT(30) DEF InFlight, Endpoint, WindowFull
  <2>2. i % PACKET_WINDOW_SIZE # k
    BY <1>1, <2>1, SlotsDiffer
  <2>3. i % PACKET_WINDOW_SIZE \in 0 .. PACKET_WINDOW_SIZE - 1
    BY <1>1, <2>1, DivMod
  <2>4. QED
    BY <1>3, <2>2, <2>3 DEF Slot, Endpoint
<1>6. QED
  BY <1>3, <1>4, <1>5

\* Sending keeps both directions of the link.
LEMMA SendLink ==
    ASSUME NEW c \in Endpoint, NEW d \in Endpoint, Link(c, d), Link(d, c), ~WindowFull(c)
    PROVE  Link(Stamped(c), d) /\ Link(d, Stamped(c))
<1> DEFINE e == Stamped(c)
<1>1. /\ e \in Endpoint
      /\ e.lastSeqRecvd = c.lastSeqRecvd
      /\ e.highestAckedSeq = c.highestAckedSeq
      /\ e.lastSendSeq = c.lastSendSeq + 1
      /\ e.ackMask = c.ackMask
      /\ e.lastRecvAckAck = c.lastRecvAckAck
      /\ Slot(e, c.lastSendSeq + 1) = c.lastSeqRecvd
      /\ \A i \in InFlight(c) : Slot(e, i) = Slot(c, i)
  BY StampedFields
<1> HIDE DEF e
<1>2. Link(d, e)
  BY <1>1 DEF Link, Counters, AckAckSound, SlotsOrdered, BitsSeen
<1>3. Counters(e, d) /\ AckAckSound(e, d)
  <2>1. MAX_UNACKED \in Nat
    BY WindowAssumption
  <2>2. c.lastSendSeq + 1 <= c.highestAckedSeq + MAX_UNACKED
    BY <2>1 DEF WindowFull, Endpoint
  <2>3. QED
    BY <1>1, <2>2 DEF Link, Counters, AckAckSound, Endpoint
<1>4. \A i \in InFlight(e) : i \in InFlight(c) \/ i = c.lastSendSeq + 1
  BY <1>1 DEF InFlight, Endpoint
<1>5. SlotsOrdered(e)
  <2>1. SUFFICES ASSUME NEW i \in InFlight(e), NEW j \in InFlight(e), i <= j
                 PROVE  Slot(e, i) <= Slot(e, j) /\ Slot(e, j) <= e.lastSeqRecvd
    BY DEF SlotsOrdered
  <2>2. CASE j \in InFlight(c)
    <3>1. i \in InFlight(c)
      BY <1>4, <2>1, <2>2 DEF InFlight, Endpoint
    <3>2. QED
      BY <1>1, <2>1, <2>2, <3>1 DEF Link, SlotsOrdered
  <2>3. CASE j = c.lastSendSeq + 1 /\ i \in InFlight(c)
    <3>1. Slot(c, i) <= c.lastSeqRecvd
      <4>1. i <= i
        BY <2>3 DEF InFlight, Endpoint
      <4>2. QED
        BY <2>3, <4>1 DEF Link, SlotsOrdered
    <3>2. QED
      BY <1>1, <2>3, <3>1 DEF Endpoint
  <2>4. CASE j = c.lastSendSeq + 1 /\ i = c.lastSendSeq + 1
    BY <1>1, <2>4 DEF Endpoint
  <2>5. QED
    BY <1>4, <2>2, <2>3, <2>4
<1>6. BitsSeen(e, d, d.lastSeqRecvd, d.ackMask)
  <2>1. SUFFICES ASSUME NEW i \in InFlight(e), NEW j \in 0 .. d.lastSeqRecvd, i <= j,
                        d.lastSeqRecvd - j \in d.ackMask
                 PROVE  Slot(e, i) <= d.highestAckedSeq
    BY DEF BitsSeen
  <2>2. i \in InFlight(c)
    BY <1>4, <2>1 DEF Link, Counters, Endpoint
  <2>3. QED
    BY <1>1, <2>1, <2>2 DEF Link, BitsSeen
<1>7. QED
  BY <1>2, <1>3, <1>5, <1>6 DEF Link, e

\* Sending keeps what is known of the datagrams already in flight.
LEMMA SendFlight ==
    ASSUME NEW c \in Endpoint, NEW d \in Endpoint, Link(c, d), Link(d, c), ~WindowFull(c),
           NEW m \in Datagram
    PROVE  /\ Flight(c, d, m) => Flight(Stamped(c), d, m)
           /\ Flight(d, c, m) => Flight(d, Stamped(c), m)
<1> DEFINE e == Stamped(c)
<1>1. /\ e \in Endpoint
      /\ e.lastSeqRecvd = c.lastSeqRecvd
      /\ e.highestAckedSeq = c.highestAckedSeq
      /\ e.lastSendSeq = c.lastSendSeq + 1
      /\ \A i \in InFlight(c) : Slot(e, i) = Slot(c, i)
  BY StampedFields
<1> HIDE DEF e
<1>2. Flight(c, d, m) => Flight(e, d, m)
  <2>1. ASSUME m.seq <= c.lastSendSeq, m.seq > c.highestAckedSeq
        PROVE  m.seq \in InFlight(c)
    BY <2>1 DEF InFlight, Datagram, Endpoint
  <2>2. QED
    BY <1>1, <2>1 DEF Flight, BitsSeen, Datagram, Endpoint
<1>3. ASSUME Flight(d, c, m)
      PROVE  Flight(d, e, m)
  <2>1. m.ack <= c.lastSendSeq
    BY <1>3 DEF Flight, Link, Counters, Datagram, Endpoint
  <2>2. BitsSeen(e, d, m.ack, m.mask)
    <3>1. SUFFICES ASSUME NEW i \in InFlight(e), NEW j \in 0 .. m.ack, i <= j,
                          m.ack - j \in m.mask
                   PROVE  Slot(e, i) <= d.highestAckedSeq
      BY DEF BitsSeen
    <3>2. i \in InFlight(c)
      BY <1>1, <2>1, <3>1 DEF InFlight, Datagram, Endpoint
    <3>3. QED
      BY <1>1, <1>3, <3>1, <3>2 DEF Flight, BitsSeen
  <2>3. QED
    BY <1>1, <1>3, <2>2 DEF Flight
<1>4. QED
  BY <1>2, <1>3 DEF e

\* The packet itself.
LEMMA HeaderFlight ==
    ASSUME NEW p \in Peers, NEW c \in Endpoint, NEW d \in Endpoint, Link(d, c),
           NEW type \in PacketTypes,
           type = "data" => Slot(c, c.lastSendSeq) = c.lastSeqRecvd
    PROVE  Header(p, c, type) \in Datagram /\ Flight(c, d, Header(p, c, type))
<1> DEFINE m == Header(p, c, type)
<1>1. /\ m \in Datagram /\ m.seq = c.lastSendSeq /\ m.ack = c.lastSeqRecvd
      /\ m.type = type /\ m.mask \subseteq c.ackMask
  BY DEF Header, Datagram, Endpoint
<1> HIDE DEF m
<1>2. m.seq <= c.lastSendSeq /\ m.ack <= c.lastSeqRecvd
  BY <1>1 DEF Endpoint
<1>3. BitsSeen(d, c, m.ack, m.mask)
  BY <1>1 DEF Link, BitsSeen
<1>4. QED
  BY <1>1, <1>2, <1>3 DEF Flight, m

-----------------------------------------------------------------------------
(* Taking in a header *)

\* A datagram that is not stale and passes the window test is read exactly.
LEMMA Decode ==
    ASSUME NEW c \in Endpoint, NEW d \in Endpoint, Link(c, d), Link(d, c),
           NEW m \in Datagram, Flight(d, c, m), Fresh(c, m), InWindow(c, m)
    PROVE  /\ PkSeq(c, m) = m.seq /\ PkAck(c, m) = m.ack
           /\ c.lastSeqRecvd <= m.seq /\ m.seq <= d.lastSendSeq
           /\ c.highestAckedSeq <= m.ack /\ m.ack <= d.lastSeqRecvd
<1>1. /\ MAX_UNACKED \in Nat /\ SEQ_NUMBER_WRAP \in Nat /\ SEQ_WINDOW_SLACK \in Nat
      /\ MAX_UNACKED <= SEQ_WINDOW_SLACK /\ SEQ_WINDOW_SLACK < SEQ_NUMBER_WRAP
  BY WindowAssumption
<1>2. /\ c.lastSeqRecvd \in Nat /\ c.highestAckedSeq \in Nat /\ c.lastSendSeq \in Nat
      /\ d.lastSeqRecvd \in Nat /\ d.highestAckedSeq \in Nat /\ d.lastSendSeq \in Nat
      /\ m.seq \in Nat /\ m.ack \in Nat
  BY DEF Endpoint, Datagram
<1>3. m.seq <= d.lastSendSeq /\ m.ack <= d.lastSeqRecvd
  BY DEF Flight
<1>4. /\ m.seq < c.lastSeqRecvd + SEQ_NUMBER_WRAP
      /\ m.ack < c.highestAckedSeq + SEQ_NUMBER_WRAP
  BY <1>1, <1>2, <1>3 DEF Link, Counters
<1>5. c.lastSeqRecvd <= m.seq
  <2>1. SUFFICES ASSUME m.seq < c.lastSeqRecvd
                 PROVE  FALSE
    BY <1>2
  <2>2. c.lastSeqRecvd <= m.seq + SEQ_NUMBER_WRAP
    BY <1>1, <1>2 DEF Fresh
  <2>3. PkSeq(c, m) = m.seq + SEQ_NUMBER_WRAP
    BY <1>2, <2>1, <2>2, UnwrapWrapped DEF PkSeq
  <2>4. QED
    BY <1>1, <1>2, <2>3 DEF Fresh, InWindow
<1>6. c.highestAckedSeq <= m.ack
  <2>1. SUFFICES ASSUME m.ack < c.highestAckedSeq
                 PROVE  FALSE
    BY <1>2
  <2>2. c.highestAckedSeq <= m.ack + SEQ_NUMBER_WRAP
    BY <1>1, <1>2 DEF Fresh
  <2>3. PkAck(c, m) = m.ack + SEQ_NUMBER_WRAP
    BY <1>2, <2>1, <2>2, UnwrapWrapped DEF PkAck
  <2>4. c.lastSendSeq <= c.highestAckedSeq + MAX_UNACKED
    BY DEF Link, Counters
  <2>5. QED
    BY <1>1, <1>2, <2>3, <2>4 DEF Fresh, InWindow
<1>7. PkSeq(c, m) = m.seq
  BY <1>2, <1>4, <1>5, UnwrapExact DEF PkSeq
<1>8. PkAck(c, m) = m.ack
  BY <1>2, <1>4, <1>6, UnwrapExact DEF PkAck
<1>9. QED
  BY <1>3, <1>5, <1>6, <1>7, <1>8

\* What the receiver concludes the peer has seen of its acknowledgements, is true.
LEMMA AckAckTrue ==
    ASSUME NEW c \in Endpoint, NEW d \in Endpoint, Link(c, d), Link(d, c),
           NEW m \in Datagram, Flight(d, c, m), Fresh(c, m), InWindow(c, m)
    PROVE  /\ AckAck(c, m) \in Nat
           /\ AckAck(c, m) <= d.highestAckedSeq
           /\ m.seq <= AckAck(c, m) + PACKET_WINDOW_SIZE
<1>1. /\ PkSeq(c, m) = m.seq /\ PkAck(c, m) = m.ack
      /\ m.seq <= d.lastSendSeq /\ m.ack <= d.lastSeqRecvd
  BY Decode
<1>2. /\ MAX_UNACKED \in Nat /\ PACKET_WINDOW_SIZE \in Nat \ {0}
      /\ MAX_UNACKED < PACKET_WINDOW_SIZE
  BY WindowAssumption
<1>3. /\ c.lastSeqRecvd \in Nat /\ c.highestAckedSeq \in Nat /\ c.lastSendSeq \in Nat
      /\ c.lastRecvAckAck \in Nat
      /\ d.lastSeqRecvd \in Nat /\ d.highestAckedSeq \in Nat /\ d.lastSendSeq \in Nat
      /\ m.seq \in Nat /\ m.ack \in Nat
  BY DEF Endpoint, Datagram
<1> DEFINE last == Max(Confirmed(c, m))
           known == IF Confirmed(c, m) = {} THEN c.lastRecvAckAck ELSE Slot(c, last)
<1>4. known \in Nat /\ known <= d.highestAckedSeq
  <2>1. CASE Confirmed(c, m) = {}
    BY <1>3, <2>1 DEF Link, AckAckSound
  <2>2. CASE Confirmed(c, m) # {}
    <3>1. Confirmed(c, m) \in SUBSET (0 .. m.ack)
      BY <1>1, <1>3 DEF Confirmed, Judged
    <3>2. last \in Confirmed(c, m)
      BY <1>3, <2>2, <3>1, MaxIsGreatest
    <3>3. /\ last \in InFlight(c) /\ last \in 0 .. m.ack /\ m.ack - last \in m.mask
      <4>1. last \in c.highestAckedSeq + 1 .. m.ack /\ m.ack - last \in m.mask
        BY <1>1, <3>2 DEF Confirmed, Judged
      <4>2. m.ack <= c.lastSendSeq
        BY <1>1, <1>3 DEF Link, Counters
      <4>3. QED
        BY <1>3, <4>1, <4>2 DEF InFlight
    <3>4. last <= last
      BY <3>3
    <3>5. Slot(c, last) <= d.highestAckedSeq
      BY <3>3, <3>4 DEF Flight, BitsSeen
    <3>6. last % PACKET_WINDOW_SIZE \in 0 .. PACKET_WINDOW_SIZE - 1
      BY <1>2, <3>3, DivMod
    <3>7. Slot(c, last) \in Nat
      BY <3>6 DEF Slot, Endpoint
    <3>8. QED
      BY <2>2, <3>5, <3>7
  <2>3. QED
    BY <2>1, <2>2
<1>5. AckAck(c, m) = IF m.seq - known > PACKET_WINDOW_SIZE
                     THEN m.seq - PACKET_WINDOW_SIZE ELSE known
  BY <1>1 DEF AckAck, Slot
<1> HIDE DEF known
<1>6. m.seq - PACKET_WINDOW_SIZE <= d.highestAckedSeq
  BY <1>1, <1>2, <1>3 DEF Link, Counters
<1>7. QED
  BY <1>2, <1>3, <1>4, <1>5, <1>6

\* The endpoint after the header: its fields, and its mask read by number.
LEMMA AdvancedFields ==
    ASSUME NEW c \in Endpoint, NEW d \in Endpoint, Link(c, d), Link(d, c),
           NEW m \in Datagram, Flight(d, c, m), Fresh(c, m), InWindow(c, m)
    PROVE  /\ Advanced(c, m) \in Endpoint /\ Notified(c, m) \in Endpoint
           /\ Advanced(c, m).lastSeqRecvd = m.seq
           /\ Advanced(c, m).highestAckedSeq = m.ack
           /\ Advanced(c, m).lastSendSeq = c.lastSendSeq
           /\ Advanced(c, m).lastRecvAckAck = AckAck(c, m)
           /\ Advanced(c, m).lastSeqRecvdAtSend = c.lastSeqRecvdAtSend
           /\ Advanced(c, m).ackMask = Notified(c, m).ackMask
           /\ Notified(c, m).lastSeqRecvd = c.lastSeqRecvd
           /\ Notified(c, m).lastSendSeq = c.lastSendSeq
           /\ \A b \in 0 .. PACKET_WINDOW_SIZE - 1 :
                b \in Advanced(c, m).ackMask <=>
                  \/ b - (m.seq - c.lastSeqRecvd) \in c.ackMask
                  \/ b = 0 /\ m.type = "data"
<1>1. PkSeq(c, m) = m.seq /\ PkAck(c, m) = m.ack
  BY Decode
<1>2. AckAck(c, m) \in Nat
  BY AckAckTrue
<1> DEFINE shift == m.seq - c.lastSeqRecvd
           mask == {b \in 0 .. PACKET_WINDOW_SIZE - 1 : b - shift \in c.ackMask}
                     \union (IF m.type = "data" THEN {0} ELSE {})
           n == Notified(c, m)
<1>3. n = [c EXCEPT !.ackMask = mask, !.lastRecvAckAck = AckAck(c, m),
                    !.highestAckedSeq = m.ack]
  BY <1>1 DEF Notified
<1>4. PACKET_WINDOW_SIZE \in Nat \ {0} /\ 0 \in 0 .. PACKET_WINDOW_SIZE - 1
  BY WindowAssumption
<1>5. /\ mask \in SUBSET (0 .. PACKET_WINDOW_SIZE - 1)
      /\ \A b \in 0 .. PACKET_WINDOW_SIZE - 1 :
           b \in mask <=> b - shift \in c.ackMask \/ (b = 0 /\ m.type = "data")
  BY <1>4
<1>6. m.seq \in Nat /\ m.ack \in Nat
  BY DEF Datagram
<1> HIDE DEF mask, n
<1>7. /\ n \in Endpoint /\ n.lastSeqRecvd = c.lastSeqRecvd /\ n.highestAckedSeq = m.ack
      /\ n.lastSendSeq = c.lastSendSeq /\ n.lastRecvAckAck = AckAck(c, m)
      /\ n.lastSeqRecvdAtSend = c.lastSeqRecvdAtSend /\ n.ackMask = mask
  BY <1>2, <1>3, <1>5, <1>6 DEF Endpoint
<1>8. Advanced(c, m) = [n EXCEPT !.lastSeqRecvd = m.seq]
  BY <1>1 DEF Advanced, n
<1>9. QED
  BY <1>5, <1>6, <1>7, <1>8, ZenonT(30) DEF Endpoint, n

\* An endpoint may replace c in its link with d, the datagrams in flight included.
Evolves(c, d, e) ==
    /\ e \in Endpoint
    /\ Link(e, d) /\ Link(d, e)
    /\ \A m \in Datagram : /\ Flight(c, d, m) => Flight(e, d, m)
                           /\ Flight(d, c, m) => Flight(d, e, m)

LEMMA SendEvolves ==
    ASSUME NEW c \in Endpoint, NEW d \in Endpoint, Link(c, d), Link(d, c), ~WindowFull(c)
    PROVE  Evolves(c, d, Stamped(c))
  BY StampedFields, SendLink, SendFlight DEF Evolves

LEMMA AdvanceEvolves ==
    ASSUME NEW c \in Endpoint, NEW d \in Endpoint, Link(c, d), Link(d, c),
           NEW m \in Datagram, Flight(d, c, m), Fresh(c, m), InWindow(c, m)
    PROVE  Evolves(c, d, Advanced(c, m))
<1> DEFINE e == Advanced(c, m)
<1>1. /\ c.lastSeqRecvd <= m.seq /\ m.seq <= d.lastSendSeq
      /\ c.highestAckedSeq <= m.ack /\ m.ack <= d.lastSeqRecvd
  BY Decode
<1>2. /\ e \in Endpoint
      /\ e.lastSeqRecvd = m.seq /\ e.highestAckedSeq = m.ack
      /\ e.lastSendSeq = c.lastSendSeq /\ e.lastRecvAckAck = AckAck(c, m)
      /\ e.lastSeqRecvdAtSend = c.lastSeqRecvdAtSend
      /\ \A b \in 0 .. PACKET_WINDOW_SIZE - 1 :
           b \in e.ackMask <=> \/ b - (m.seq - c.lastSeqRecvd) \in c.ackMask
                               \/ b = 0 /\ m.type = "data"
  BY AdvancedFields
<1>3. /\ AckAck(c, m) \in Nat
      /\ AckAck(c, m) <= d.highestAckedSeq
      /\ m.seq <= AckAck(c, m) + PACKET_WINDOW_SIZE
  BY AckAckTrue
<1>4. m.seq \in Nat /\ m.ack \in Nat
  BY DEF Datagram
<1> HIDE DEF e
<1>5. /\ \A i : Slot(e, i) = Slot(c, i)
      /\ InFlight(e) \subseteq InFlight(c)
  BY <1>1, <1>2, <1>4 DEF Slot, InFlight, Endpoint
<1>6. Link(e, d)
  <2>1. Counters(e, d)
    <3>1. MAX_UNACKED \in Nat
      BY WindowAssumption
    <3>2. QED
      BY <1>1, <1>2, <1>4, <3>1, SMTT(30) DEF Link, Counters, Endpoint
  <2>2. AckAckSound(e, d)
    BY <1>1, <1>2, <1>4 DEF Link, AckAckSound, Endpoint
  <2>3. SlotsOrdered(e)
    <3>1. SUFFICES ASSUME NEW i \in InFlight(e), NEW j \in InFlight(e), i <= j
                   PROVE  Slot(e, i) <= Slot(e, j) /\ Slot(e, j) <= e.lastSeqRecvd
      BY DEF SlotsOrdered
    <3>2. i \in InFlight(c) /\ j \in InFlight(c)
      BY <1>5
    <3>3. Slot(c, i) <= Slot(c, j) /\ Slot(c, j) <= c.lastSeqRecvd
      BY <3>1, <3>2 DEF Link, SlotsOrdered
    <3>4. j \in Nat /\ j % PACKET_WINDOW_SIZE \in 0 .. PACKET_WINDOW_SIZE - 1
      <4>1. j \in Nat
        BY <3>2 DEF InFlight, Endpoint
      <4>2. QED
        BY <4>1, DivMod, WindowAssumption
    <3>5. Slot(c, j) \in Nat
      BY <3>4 DEF Slot, Endpoint
    <3>6. QED
      BY <1>1, <1>2, <1>4, <1>5, <3>3, <3>5 DEF Endpoint
  <2>4. BitsSeen(e, d, d.lastSeqRecvd, d.ackMask)
    BY <1>5 DEF Link, BitsSeen
  <2>5. QED
    BY <2>1, <2>2, <2>3, <2>4 DEF Link
<1>7. Link(d, e)
  <2>1. Counters(d, e)
    BY <1>1, <1>2, <1>4 DEF Link, Counters, Endpoint
  <2>2. AckAckSound(d, e)
    BY <1>2, <1>3 DEF AckAckSound
  <2>3. SlotsOrdered(d)
    BY DEF Link
  <2>4. BitsSeen(d, e, e.lastSeqRecvd, e.ackMask)
    <3>1. SUFFICES ASSUME NEW i \in InFlight(d), NEW j \in 0 .. m.seq, i <= j,
                          m.seq - j \in e.ackMask
                   PROVE  Slot(d, i) <= m.ack
      BY <1>2 DEF BitsSeen
    <3>2. m.seq - j \in 0 .. PACKET_WINDOW_SIZE - 1
      BY <1>2, <3>1 DEF Endpoint
    <3>3. \/ m.seq - j - (m.seq - c.lastSeqRecvd) \in c.ackMask
          \/ m.seq - j = 0 /\ m.type = "data"
      BY <1>2, <3>1, <3>2
    <3>4. i \in Nat /\ d.highestAckedSeq < i /\ i % PACKET_WINDOW_SIZE \in 0 .. PACKET_WINDOW_SIZE - 1
      <4>1. i \in Nat /\ d.highestAckedSeq < i
        BY DEF InFlight, Endpoint
      <4>2. QED
        BY <4>1, DivMod, WindowAssumption
    <3>5. Slot(d, i) \in Nat
      BY <3>4 DEF Slot, Endpoint
    <3>6. CASE m.seq - j - (m.seq - c.lastSeqRecvd) \in c.ackMask
      <4>1. c.lastSeqRecvd - j \in c.ackMask /\ j \in 0 .. c.lastSeqRecvd
        <5>1. m.seq - j - (m.seq - c.lastSeqRecvd) = c.lastSeqRecvd - j
          BY <1>4 DEF Endpoint
        <5>2. c.lastSeqRecvd - j \in c.ackMask
          BY <3>6, <5>1
        <5>3. c.lastSeqRecvd - j \in Nat
          BY <5>2 DEF Endpoint
        <5>4. QED
          BY <5>2, <5>3 DEF Endpoint
      <4>2. Slot(d, i) <= c.highestAckedSeq
        BY <3>1, <4>1 DEF Link, BitsSeen
      <4>3. QED
        BY <1>1, <1>4, <3>5, <4>2 DEF Endpoint
    <3>7. CASE m.seq - j = 0 /\ m.type = "data"
      <4>1. /\ m.seq \in InFlight(d) /\ i <= m.seq /\ m.seq > d.highestAckedSeq
        BY <1>1, <1>4, <3>1, <3>4, <3>7, SMTT(30) DEF InFlight, Endpoint
      <4>2. Slot(d, m.seq) = m.ack
        BY <3>7, <4>1 DEF Flight
      <4>3. Slot(d, i) <= Slot(d, m.seq)
        BY <4>1 DEF Link, SlotsOrdered
      <4>4. QED
        BY <4>2, <4>3
    <3>8. QED
      BY <3>3, <3>6, <3>7
  <2>5. QED
    BY <2>1, <2>2, <2>3, <2>4 DEF Link
<1>8. ASSUME NEW k \in Datagram, Flight(c, d, k)
      PROVE  Flight(e, d, k)
  <2>1. BitsSeen(d, e, k.ack, k.mask)
    <3>1. SUFFICES ASSUME NEW i \in InFlight(d), NEW j \in 0 .. k.ack, i <= j,
                          k.ack - j \in k.mask
                   PROVE  Slot(d, i) <= m.ack
      BY <1>2 DEF BitsSeen
    <3>2. Slot(d, i) <= c.highestAckedSeq
      BY <1>8, <3>1 DEF Flight, BitsSeen
    <3>3. i \in Nat /\ i % PACKET_WINDOW_SIZE \in 0 .. PACKET_WINDOW_SIZE - 1
      <4>1. i \in Nat
        BY DEF InFlight, Endpoint
      <4>2. QED
        BY <4>1, DivMod, WindowAssumption
    <3>4. Slot(d, i) \in Nat
      BY <3>3 DEF Slot, Endpoint
    <3>5. QED
      BY <1>1, <1>4, <3>2, <3>4 DEF Endpoint
  <2>2. QED
    BY <1>1, <1>2, <1>4, <1>5, <1>8, <2>1 DEF Flight, Endpoint, Datagram
<1>9. ASSUME NEW k \in Datagram, Flight(d, c, k)
      PROVE  Flight(d, e, k)
  BY <1>5, <1>9 DEF Flight, BitsSeen
<1>10. QED
  BY <1>2, <1>6, <1>7, <1>8, <1>9 DEF Evolves, e

LEMMA NackEvolves ==
    ASSUME NEW c \in Endpoint, NEW d \in Endpoint, Link(c, d), Link(d, c), NEW ok \in BOOLEAN
    PROVE  /\ Evolves(c, d, Nack(ok, c))
           /\ Nack(ok, c).lastSendSeq = c.lastSendSeq
           /\ Nack(ok, c).highestAckedSeq = c.highestAckedSeq
           /\ Nack(ok, c).lastSeqRecvd = c.lastSeqRecvd
           /\ Nack(ok, c).lastRecvAckAck = c.lastRecvAckAck
           /\ Nack(ok, c).ackMask = IF ok THEN c.ackMask ELSE c.ackMask \ {0}
<1> DEFINE e == Nack(ok, c)
<1>1. /\ e \in Endpoint
      /\ e.lastSeqRecvd = c.lastSeqRecvd /\ e.highestAckedSeq = c.highestAckedSeq
      /\ e.lastSendSeq = c.lastSendSeq /\ e.lastRecvAckAck = c.lastRecvAckAck
      /\ e.lastSeqRecvdAtSend = c.lastSeqRecvdAtSend
      /\ e.ackMask = IF ok THEN c.ackMask ELSE c.ackMask \ {0}
  BY DEF Nack, Endpoint
<1> HIDE DEF e
<1>2. /\ \A i : Slot(e, i) = Slot(c, i)
      /\ InFlight(e) = InFlight(c)
      /\ e.ackMask \subseteq c.ackMask
  BY <1>1 DEF Slot, InFlight
<1>3. Link(e, d) /\ Link(d, e)
  BY <1>1, <1>2 DEF Link, Counters, AckAckSound, SlotsOrdered, BitsSeen
<1>4. \A m \in Datagram : /\ Flight(c, d, m) => Flight(e, d, m)
                          /\ Flight(d, c, m) => Flight(d, e, m)
  BY <1>1, <1>2 DEF Flight, BitsSeen
<1>5. QED
  BY <1>1, <1>3, <1>4 DEF Evolves, e

LEMMA EvolvesTrans ==
    ASSUME NEW c, NEW d, NEW e, NEW f, Evolves(c, d, e), Evolves(e, d, f)
    PROVE  Evolves(c, d, f)
  BY DEF Evolves

\* The answer to a ping, whose mask is one shift ahead of its ack number, still
\* claims nothing the receiver of the ping has not seen.
LEMMA PingAnswerFlight ==
    ASSUME NEW c \in Endpoint, NEW d \in Endpoint, Link(c, d), Link(d, c), NEW p \in Peers,
           NEW m \in Datagram, Flight(d, c, m), Fresh(c, m), InWindow(c, m)
    PROVE  \A k \in PingAnswer(p, c, m) :
               k \in Datagram /\ k.from = p /\ Flight(Advanced(c, m), d, k)
<1> DEFINE e == Advanced(c, m)
           k == Header(p, Notified(c, m), "ack")
<1>1. /\ c.lastSeqRecvd <= m.seq /\ m.seq \in Nat
  BY Decode DEF Datagram
<1>2. /\ e \in Endpoint /\ Notified(c, m) \in Endpoint
      /\ e.lastSeqRecvd = m.seq
      /\ e.lastSendSeq = c.lastSendSeq
      /\ e.ackMask = Notified(c, m).ackMask
      /\ Notified(c, m).lastSeqRecvd = c.lastSeqRecvd
      /\ Notified(c, m).lastSendSeq = c.lastSendSeq
  BY AdvancedFields
<1>3. Evolves(c, d, e)
  BY AdvanceEvolves
<1>4. /\ k \in Datagram /\ k.from = p /\ k.seq = c.lastSendSeq /\ k.ack = c.lastSeqRecvd
      /\ k.type = "ack" /\ k.mask \subseteq e.ackMask
  BY <1>2 DEF Header, Datagram, Endpoint, PacketTypes
<1> HIDE DEF e, k
<1>5. BitsSeen(d, e, k.ack, k.mask)
  <2>1. SUFFICES ASSUME NEW i \in InFlight(d), NEW j \in 0 .. c.lastSeqRecvd, i <= j,
                        c.lastSeqRecvd - j \in e.ackMask
                 PROVE  Slot(d, i) <= e.highestAckedSeq
    BY <1>4 DEF BitsSeen
  <2> DEFINE j2 == j + (m.seq - c.lastSeqRecvd)
  <2>2. /\ j2 \in 0 .. m.seq /\ i <= j2 /\ m.seq - j2 = c.lastSeqRecvd - j
    <3>1. c.lastSeqRecvd \in Nat /\ i \in Nat /\ j \in Nat /\ j <= c.lastSeqRecvd
      BY DEF InFlight, Endpoint
    <3>2. QED
      BY <1>1, <2>1, <3>1
  <2>3. m.seq - j2 \in e.ackMask
    BY <2>1, <2>2
  <2> HIDE DEF j2
  <2>4. QED
    BY <1>2, <1>3, <2>2, <2>3 DEF Evolves, Link, BitsSeen
<1>6. Flight(e, d, k)
  BY <1>1, <1>2, <1>4, <1>5 DEF Flight, Endpoint
<1>7. QED
  BY <1>4, <1>6 DEF PingAnswer, e, k

-----------------------------------------------------------------------------
(* From endpoints to the whole state *)

LEMMA PeerPairs ==
    \A p \in Peers : Other(p) \in Peers /\ Other(p) # p /\ Other(Other(p)) = p
                     /\ \A q \in Peers : q = p \/ q = Other(p)
  BY DEF Peers, Other

\* One peer moves on and sends ns; of everything in flight, some is left.
LEMMA Step ==
    ASSUME NEW cn, NEW nt, WInv(cn, nt), NEW p \in Peers, NEW e,
           Evolves(cn[p], cn[Other(p)], e),
           NEW ns, \A m \in ns : m \in Datagram /\ m.from = p /\ Flight(e, cn[Other(p)], m),
           NEW nt2, nt2 \subseteq nt \union ns
    PROVE  WInv([cn EXCEPT ![p] = e], nt2)
<1> DEFINE cn2 == [cn EXCEPT ![p] = e]
<1>1. /\ Other(p) \in Peers /\ Other(p) # p /\ Other(Other(p)) = p
      /\ \A q \in Peers : q = p \/ q = Other(p)
  BY PeerPairs
<1>2. /\ cn \in [Peers -> Endpoint] /\ nt \subseteq Datagram
      /\ \A m \in nt : Flight(cn[m.from], cn[Other(m.from)], m)
  BY DEF WInv
<1>3. /\ cn2 \in [Peers -> Endpoint] /\ cn2[p] = e /\ cn2[Other(p)] = cn[Other(p)]
  BY <1>1, <1>2 DEF Evolves
<1> HIDE DEF cn2
<1>4. ASSUME NEW q \in Peers
      PROVE  Link(cn2[q], cn2[Other(q)])
  BY <1>1, <1>3 DEF Evolves
<1>5. ASSUME NEW m \in nt2
      PROVE  m \in Datagram /\ Flight(cn2[m.from], cn2[Other(m.from)], m)
  <2>1. CASE m \in ns
    BY <1>3, <2>1
  <2>2. CASE m \in nt
    <3>1. m \in Datagram /\ Flight(cn[m.from], cn[Other(m.from)], m)
      BY <1>2, <2>2
    <3>2. m.from = p \/ m.from = Other(p)
      BY <1>1, <3>1 DEF Datagram
    <3>3. CASE m.from = p
      BY <1>3, <3>1, <3>3 DEF Evolves
    <3>4. CASE m.from = Other(p)
      BY <1>1, <1>3, <3>1, <3>4 DEF Evolves
    <3>5. QED
      BY <3>2, <3>3, <3>4
  <2>3. QED
    BY <2>1, <2>2
<1>6. QED
  BY <1>3, <1>4, <1>5 DEF WInv, cn2

\* A data packet sent, if wanted and if the window has room.
LEMMA AfterSendEvolves ==
    ASSUME NEW p \in Peers, NEW c \in Endpoint, NEW d \in Endpoint, Link(c, d), Link(d, c),
           NEW want \in BOOLEAN
    PROVE  /\ Evolves(c, d, AfterSend(p, want, c))
           /\ \A k \in SentBy(p, want, c) :
                k \in Datagram /\ k.from = p /\ Flight(AfterSend(p, want, c), d, k)
<1>1. CASE want /\ MaySend(p, c)
  <2>1. ~WindowFull(c)
    BY <1>1 DEF MaySend
  <2>2. Evolves(c, d, Stamped(c))
    BY <2>1, SendEvolves
  <2>3. /\ Stamped(c) \in Endpoint
        /\ Slot(Stamped(c), Stamped(c).lastSendSeq) = Stamped(c).lastSeqRecvd
    BY StampedFields
  <2>4. /\ Header(p, Stamped(c), "data") \in Datagram
        /\ Flight(Stamped(c), d, Header(p, Stamped(c), "data"))
    BY <2>2, <2>3, HeaderFlight DEF Evolves, PacketTypes
  <2>5. Header(p, Stamped(c), "data").from = p
    BY DEF Header
  <2>6. QED
    BY <1>1, <2>2, <2>4, <2>5 DEF AfterSend, SentBy
<1>2. CASE ~ (want /\ MaySend(p, c))
  BY <1>2 DEF AfterSend, SentBy, Evolves
<1>3. QED
  BY <1>1, <1>2

-----------------------------------------------------------------------------
(* The window invariant *)

LEMMA Transmitted ==
    ASSUME NEW flying, NEW sent, NEW nt \in Transmit(flying, sent)
    PROVE  nt \subseteq flying \union sent
  BY DEF Transmit

\* What a peer p knows of a datagram m from the other side.
LEMMA Delivery ==
    ASSUME WindowInv, NEW p \in Peers, NEW m \in net, m.from = Other(p)
    PROVE  /\ conn[p] \in Endpoint /\ conn[Other(p)] \in Endpoint
           /\ Link(conn[p], conn[Other(p)]) /\ Link(conn[Other(p)], conn[p])
           /\ m \in Datagram /\ Flight(conn[Other(p)], conn[p], m)
  BY PeerPairs DEF WindowInv, WInv

LEMMA InitWindow == Init => WindowInv
<1> SUFFICES ASSUME Init
             PROVE  WindowInv
  OBVIOUS
<1>1. /\ MAX_UNACKED \in Nat /\ PACKET_WINDOW_SIZE \in Nat
  BY WindowAssumption
<1>2. \A p \in Peers : /\ conn[p] \in Endpoint
                       /\ conn[p].lastSeqRecvd = 0 /\ conn[p].highestAckedSeq = 0
                       /\ conn[p].lastSendSeq = 0 /\ conn[p].lastRecvAckAck = 0
                       /\ conn[p].ackMask = {}
  BY DEF Init, Endpoint
<1>3. conn \in [Peers -> Endpoint] /\ net = {}
  BY <1>2 DEF Init
<1>4. ASSUME NEW p \in Peers
      PROVE  Link(conn[p], conn[Other(p)])
  <2>1. Other(p) \in Peers
    BY PeerPairs
  <2>2. InFlight(conn[p]) = {}
    BY <1>2 DEF InFlight
  <2>3. QED
    BY <1>1, <1>2, <2>1, <2>2 DEF Link, Counters, AckAckSound, SlotsOrdered, BitsSeen
<1>5. QED
  BY <1>3, <1>4 DEF WindowInv, WInv

LEMMA BodyEvolves ==
    ASSUME WindowInv, NEW p \in Peers, NEW m \in net,
           NEW early \in BOOLEAN, NEW ok \in BOOLEAN, NEW flush \in BOOLEAN,
           ReceiveBody(p, m, early, ok, flush)
    PROVE  WindowInv'
<1> DEFINE c == conn[p]   d == conn[Other(p)]
           c1 == Advanced(c, m)
           e1 == AfterSend(p, early, c1)
           c2 == Nack(ok, e1)
           e2 == AfterSend(p, flush, c2)
           ns == SentBy(p, early, c1) \union SentBy(p, flush, c2)
<1>1. /\ c \in Endpoint /\ d \in Endpoint /\ Link(c, d) /\ Link(d, c)
      /\ m \in Datagram /\ Flight(d, c, m) /\ Fresh(c, m) /\ InWindow(c, m)
  BY Delivery DEF ReceiveBody
<1>2. conn' = [conn EXCEPT ![p] = e2]
  BY DEF ReceiveBody
<1>3. net' \subseteq net \union ns
  <2>1. PICK left \in Taken(m) : net' \in Transmit(left, ns)
    BY DEF ReceiveBody
  <2>2. left \subseteq net
    BY <2>1 DEF Taken
  <2>3. QED
    BY <2>1, <2>2, Transmitted
<1> HIDE DEF c, d, c1, e1, c2, e2, ns
<1>4. Evolves(c, d, c1)
  BY <1>1, AdvanceEvolves DEF c1
<1>5. /\ Evolves(c1, d, e1)
      /\ \A k \in SentBy(p, early, c1) :
           k \in Datagram /\ k.from = p /\ Flight(e1, d, k)
  BY <1>1, <1>4, AfterSendEvolves DEF Evolves, e1
<1>6. Evolves(e1, d, c2)
  BY <1>1, <1>5, NackEvolves DEF Evolves, c2
<1>7. /\ Evolves(c2, d, e2)
      /\ \A k \in SentBy(p, flush, c2) :
           k \in Datagram /\ k.from = p /\ Flight(e2, d, k)
  BY <1>1, <1>6, AfterSendEvolves DEF Evolves, e2
<1>8. Evolves(e1, d, e2)
  BY <1>6, <1>7, EvolvesTrans
<1>9. Evolves(c, d, e2)
  <2>1. Evolves(c, d, e1)
    BY <1>4, <1>5, EvolvesTrans
  <2>2. QED
    BY <2>1, <1>8, EvolvesTrans
<1>10. \A k \in ns : k \in Datagram /\ k.from = p /\ Flight(e2, d, k)
  BY <1>5, <1>7, <1>8 DEF ns, Evolves
<1>11. QED
  BY <1>2, <1>3, <1>9, <1>10, Step DEF WindowInv, c, d

LEMMA NextWindow == WindowInv /\ [Next]_vars => WindowInv'
<1> SUFFICES ASSUME WindowInv, [Next]_vars
             PROVE  WindowInv'
  OBVIOUS
<1>1. ASSUME NEW p \in Peers, SendData(p)
      PROVE  WindowInv'
  <2> DEFINE c == conn[p]   d == conn[Other(p)]
  <2>1. /\ c \in Endpoint /\ d \in Endpoint /\ Link(c, d) /\ Link(d, c)
    BY PeerPairs DEF WindowInv, WInv
  <2>2. /\ Evolves(c, d, AfterSend(p, TRUE, c))
        /\ \A k \in SentBy(p, TRUE, c) :
             k \in Datagram /\ k.from = p /\ Flight(AfterSend(p, TRUE, c), d, k)
    BY <2>1, AfterSendEvolves
  <2>3. /\ conn' = [conn EXCEPT ![p] = AfterSend(p, TRUE, c)]
        /\ net' \subseteq net \union SentBy(p, TRUE, c)
    BY <1>1, Transmitted DEF SendData, AfterSend
  <2> HIDE DEF c, d
  <2>4. QED
    BY <2>2, <2>3, Step DEF WindowInv, c, d
<1>2. ASSUME Ping
      PROVE  WindowInv'
  <2> DEFINE p == "server"   c == conn[p]   d == conn[Other(p)]   k == Header(p, c, "ping")
  <2>1. p \in Peers
    BY DEF Peers
  <2>2. /\ c \in Endpoint /\ d \in Endpoint /\ Link(c, d) /\ Link(d, c)
        /\ conn \in [Peers -> Endpoint]
    BY <2>1, PeerPairs DEF WindowInv, WInv
  <2>3. k \in Datagram /\ Flight(c, d, k) /\ k.from = p
    <3>1. k.from = p
      BY DEF Header
    <3>2. "ping" \in PacketTypes /\ "ping" # "data"
      BY DEF PacketTypes
    <3>3. QED
      BY <2>1, <2>2, <3>1, <3>2, HeaderFlight
  <2>4. /\ conn' = [conn EXCEPT ![p] = c]
        /\ net' \subseteq net \union {k}
    BY <1>2, <2>2, Transmitted DEF Ping
  <2>5. Evolves(c, d, c)
    BY <2>2 DEF Evolves
  <2> DEFINE ns == {k}
  <2>6. net' \subseteq net \union ns
        /\ \A x \in ns : x \in Datagram /\ x.from = p /\ Flight(c, d, x)
    BY <2>3, <2>4
  <2>7. WInv(conn, net) /\ Evolves(conn[p], conn[Other(p)], c)
        /\ \A x \in ns : x \in Datagram /\ x.from = p /\ Flight(c, conn[Other(p)], x)
    BY <2>5, <2>6 DEF WindowInv
  <2> HIDE DEF p, c, d, k, ns
  <2>8. WInv([conn EXCEPT ![p] = c], net')
    BY <2>1, <2>6, <2>7, Step
  <2>9. QED
    BY <2>4, <2>8 DEF WindowInv
<1>3. ASSUME NEW p \in Peers, NEW m \in net, Discard(p, m)
      PROVE  WindowInv'
  BY <1>3 DEF Discard, WindowInv, WInv
<1>4. ASSUME NEW p \in Peers, NEW m \in net, ReceiveHeader(p, m)
      PROVE  WindowInv'
  <2> DEFINE c == conn[p]   d == conn[Other(p)]
  <2>1. /\ c \in Endpoint /\ d \in Endpoint /\ Link(c, d) /\ Link(d, c)
        /\ m \in Datagram /\ Flight(d, c, m) /\ Fresh(c, m) /\ InWindow(c, m)
    BY <1>4, Delivery DEF ReceiveHeader
  <2>2. /\ conn' = [conn EXCEPT ![p] = Advanced(c, m)]
        /\ net' \subseteq net \union PingAnswer(p, c, m)
    BY <1>4, Transmitted DEF ReceiveHeader, Taken
  <2>3. /\ Evolves(c, d, Advanced(c, m))
        /\ \A k \in PingAnswer(p, c, m) :
             k \in Datagram /\ k.from = p /\ Flight(Advanced(c, m), d, k)
    BY <2>1, AdvanceEvolves, PingAnswerFlight
  <2> HIDE DEF c, d
  <2>4. QED
    BY <2>2, <2>3, Step DEF WindowInv, c, d
<1>5. ASSUME NEW m \in net, ClientReceivesBody(m)
      PROVE  WindowInv'
  BY <1>5, BodyEvolves DEF ClientReceivesBody, Peers
<1>6. ASSUME NEW m \in net, ServerReceivesBody(m)
      PROVE  WindowInv'
  BY <1>6, BodyEvolves DEF ServerReceivesBody, Peers
<1>7. CASE UNCHANGED vars
  BY <1>7 DEF WindowInv, WInv, vars
<1>8. QED
  BY <1>1, <1>2, <1>3, <1>4, <1>5, <1>6, <1>7 DEF Next

\* The inductive invariant holds whatever the network and the peer do.
THEOREM WindowInvariant == Spec => []WindowInv
  BY InitWindow, NextWindow, PTL DEF Spec

\* WindowOrder, for every window size: counters in step, at most MAX_UNACKED
\* packets without a verdict (window_full, netconn.py:480-482).
THEOREM WindowOrderHolds == Spec => []WindowOrder
<1>1. WindowInv => WindowOrder
  BY DEF WindowInv, WInv, Link, Counters, WindowOrder
<1>2. QED
  BY <1>1, WindowInvariant, PTL

LEMMA CeilBytes ==
    ASSUME NEW B \in Nat \ {0}, NEW x \in Nat
    PROVE  (x + B - 1) \div B \in Nat /\ B * ((x + B - 1) \div B) >= x
  BY SMTT(30)

LEMMA MinOfTwo ==
    ASSUME NEW a \in Nat, NEW b \in Nat
    PROVE  Min({a, b}) = IF a <= b THEN a ELSE b
<1>1. \E x \in {a, b} : \A y \in {a, b} : x <= y
  OBVIOUS
<1>2. Min({a, b}) \in {a, b} /\ \A y \in {a, b} : Min({a, b}) <= y
  BY <1>1 DEF Min
<1>3. QED
  BY <1>2

\* The bytes of mask in the next header cover every unacknowledged packet.
LEMMA BitsCover ==
    ASSUME NEW c \in Endpoint, NEW d \in Endpoint, Link(c, d)
    PROVE  AckBits(d) \in Nat /\ d.lastSeqRecvd - AckBits(d) <= c.highestAckedSeq
<1> DEFINE x == d.lastSeqRecvd - d.lastRecvAckAck
           bytes == (x + ACK_BYTE_BITS - 1) \div ACK_BYTE_BITS
<1>1. /\ ACK_BYTE_BITS \in Nat \ {0} /\ MAX_ACK_BYTE_COUNT \in Nat
      /\ PACKET_WINDOW_SIZE \in Nat
      /\ ACK_BYTE_BITS * MAX_ACK_BYTE_COUNT = PACKET_WINDOW_SIZE
  BY WindowAssumption
<1>2. /\ x \in Nat /\ x <= PACKET_WINDOW_SIZE /\ d.lastSeqRecvd - x <= c.highestAckedSeq
  BY <1>1 DEF Link, Counters, AckAckSound, Endpoint
<1>3. bytes \in Nat /\ ACK_BYTE_BITS * bytes >= x
  BY <1>1, <1>2, CeilBytes
<1>4. AckBits(d) = ACK_BYTE_BITS * Min({MAX_ACK_BYTE_COUNT, bytes})
  BY DEF AckBits
<1> HIDE DEF x, bytes
<1>5. \/ AckBits(d) = ACK_BYTE_BITS * bytes
      \/ AckBits(d) = PACKET_WINDOW_SIZE
  BY <1>1, <1>3, <1>4, MinOfTwo
<1>6. AckBits(d) \in Nat /\ AckBits(d) >= x
  <2>1. ACK_BYTE_BITS * bytes \in Nat
    BY <1>1, <1>3
  <2>2. QED
    BY <1>1, <1>2, <1>3, <1>5, <2>1
<1>7. d.lastSeqRecvd \in Nat /\ c.highestAckedSeq \in Nat
  BY DEF Endpoint
<1>8. QED
  BY <1>2, <1>6, <1>7

\* AckCoverage, for every mask width: no acknowledgement is lost to the byte
\* cap, the cause of the stall described at netconn.py:536-544.
THEOREM AckCoverageHolds == Spec => []AckCoverage
<1>1. ASSUME WindowInv
      PROVE  AckCoverage
  <2>1. SUFFICES ASSUME NEW p \in Peers
                 PROVE  conn[p].lastSeqRecvd - AckBits(conn[p])
                          <= conn[Other(p)].highestAckedSeq
    BY DEF AckCoverage
  <2>2. /\ conn[p] \in Endpoint /\ conn[Other(p)] \in Endpoint
        /\ Link(conn[Other(p)], conn[p])
    BY <1>1, PeerPairs DEF WindowInv, WInv
  <2>3. QED
    BY <2>2, BitsCover
<1>2. QED
  BY <1>1, WindowInvariant, PTL

\* SlotInFlight: the acknowledgement recorded for a packet without a verdict
\* is never overwritten (last_seq_recvd_at_send, netconn.py:434 and 545).
THEOREM SlotInFlightHolds == Spec => []SlotInFlight
<1>1. WindowInv => SlotInFlight
  BY DEF WindowInv, WInv, Flight, Slot, SlotInFlight
<1>2. QED
  BY <1>1, WindowInvariant, PTL

-----------------------------------------------------------------------------
(* Verdicts *)

Recorded ==
    /\ decoded \in [Peers -> SUBSET Nat]
    /\ delivered \in [Peers -> SUBSET Nat]
    /\ dropped \in [Peers -> SUBSET Nat]

\* What a step that takes in a header does to the verdicts of its peer.
LEMMA VerdictStep ==
    ASSUME WindowInv, Recorded, VerdictOnce, NEW p \in Peers, NEW m \in net,
           m.from = Other(p), Fresh(conn[p], m), InWindow(conn[p], m), Verdicts(p, m),
           conn' \in [Peers -> Endpoint],
           conn'[p].highestAckedSeq = m.ack,
           conn'[Other(p)] = conn[Other(p)]
    PROVE  /\ delivered' \in [Peers -> SUBSET Nat] /\ dropped' \in [Peers -> SUBSET Nat]
           /\ VerdictOnce'
<1> DEFINE c == conn[p]   h == c.highestAckedSeq
           good == Confirmed(c, m)   bad == Judged(c, m) \ Confirmed(c, m)
<1>1. /\ c \in Endpoint /\ m \in Datagram /\ PkAck(c, m) = m.ack /\ h <= m.ack
      /\ h \in Nat /\ m.ack \in Nat
  BY Delivery, Decode, ZenonT(30) DEF Endpoint, Datagram
<1>2. /\ good \union bad = h + 1 .. m.ack /\ good \intersect bad = {}
      /\ good \subseteq Nat /\ bad \subseteq Nat
  BY <1>1 DEF Judged, Confirmed
<1>3. /\ delivered' = [delivered EXCEPT ![p] = @ \union good]
      /\ dropped' = [dropped EXCEPT ![p] = @ \union bad]
  BY DEF Verdicts
<1> HIDE DEF good, bad
<1>4. delivered' \in [Peers -> SUBSET Nat] /\ dropped' \in [Peers -> SUBSET Nat]
  BY <1>2, <1>3 DEF Recorded
<1>5. /\ delivered'[p] = delivered[p] \union good /\ dropped'[p] = dropped[p] \union bad
      /\ \A q \in Peers : q # p => delivered'[q] = delivered[q] /\ dropped'[q] = dropped[q]
  BY <1>3 DEF Recorded
<1>6. delivered[p] \union dropped[p] = 1 .. h /\ delivered[p] \intersect dropped[p] = {}
  BY DEF VerdictOnce
<1>7. 1 .. m.ack = (1 .. h) \union (h + 1 .. m.ack)
      /\ (1 .. h) \intersect (h + 1 .. m.ack) = {}
  BY <1>1
<1>8. ASSUME NEW q \in Peers
      PROVE  /\ delivered'[q] \union dropped'[q] = 1 .. conn'[q].highestAckedSeq
             /\ delivered'[q] \intersect dropped'[q] = {}
  <2>1. CASE q = p
    BY <1>2, <1>5, <1>6, <1>7, <2>1
  <2>2. CASE q # p
    <3>1. conn'[q] = conn[q]
      BY <2>2, PeerPairs
    <3>2. QED
      BY <1>5, <2>2, <3>1 DEF VerdictOnce
  <2>3. QED
    BY <2>1, <2>2
<1>9. QED
  BY <1>4, <1>8 DEF VerdictOnce

LEMMA AfterSendFields ==
    ASSUME NEW p \in Peers, NEW c \in Endpoint, NEW want \in BOOLEAN
    PROVE  /\ AfterSend(p, want, c) \in Endpoint
           /\ AfterSend(p, want, c).highestAckedSeq = c.highestAckedSeq
           /\ AfterSend(p, want, c).lastSeqRecvd = c.lastSeqRecvd
           /\ AfterSend(p, want, c).ackMask = c.ackMask
           /\ AfterSend(p, want, c).lastRecvAckAck = c.lastRecvAckAck
  BY StampedFields DEF AfterSend

\* The counters of the peer after each kind of step.
LEMMA BodyFields ==
    ASSUME WindowInv, NEW p \in Peers, NEW m \in net,
           NEW early \in BOOLEAN, NEW ok \in BOOLEAN, NEW flush \in BOOLEAN,
           ReceiveBody(p, m, early, ok, flush)
    PROVE  /\ conn' \in [Peers -> Endpoint]
           /\ conn'[p].highestAckedSeq = m.ack /\ conn'[p].lastSeqRecvd = m.seq
           /\ conn'[Other(p)] = conn[Other(p)]
           /\ conn[p].lastSeqRecvd < m.seq
           /\ conn'[p].ackMask = IF ok THEN Advanced(conn[p], m).ackMask
                                 ELSE Advanced(conn[p], m).ackMask \ {0}
           /\ m.from = Other(p)
<1> DEFINE c == conn[p]   d == conn[Other(p)]
           c1 == Advanced(c, m)
           e1 == AfterSend(p, early, c1)
           c2 == Nack(ok, e1)
           e2 == AfterSend(p, flush, c2)
<1>1. /\ c \in Endpoint /\ d \in Endpoint /\ Link(c, d) /\ Link(d, c)
      /\ m \in Datagram /\ Flight(d, c, m) /\ Fresh(c, m) /\ InWindow(c, m)
      /\ m.from = Other(p)
  BY Delivery DEF ReceiveBody
<1>2. conn' = [conn EXCEPT ![p] = e2]
  BY DEF ReceiveBody
<1>3. c.lastSeqRecvd < m.seq
  <2>1. PkSeq(c, m) = m.seq /\ c.lastSeqRecvd <= m.seq
    BY <1>1, Decode
  <2>2. PkSeq(c, m) # c.lastSeqRecvd
    BY DEF ReceiveBody, HasNewBody
  <2>3. QED
    BY <1>1, <2>1, <2>2 DEF Endpoint, Datagram
<1> HIDE DEF c, c1, e1, c2, e2
<1>4. c1 \in Endpoint /\ c1.highestAckedSeq = m.ack /\ c1.lastSeqRecvd = m.seq
  BY <1>1, AdvancedFields DEF c1
<1>5. /\ e1 \in Endpoint /\ e1.highestAckedSeq = m.ack /\ e1.lastSeqRecvd = m.seq
      /\ e1.ackMask = c1.ackMask
  BY <1>4, AfterSendFields DEF e1
<1>6. /\ c2 \in Endpoint /\ c2.highestAckedSeq = m.ack /\ c2.lastSeqRecvd = m.seq
      /\ c2.ackMask = IF ok THEN c1.ackMask ELSE c1.ackMask \ {0}
  BY <1>5 DEF c2, Nack, Endpoint
<1>7. /\ e2 \in Endpoint /\ e2.highestAckedSeq = m.ack /\ e2.lastSeqRecvd = m.seq
      /\ e2.ackMask = IF ok THEN c1.ackMask ELSE c1.ackMask \ {0}
  BY <1>6, AfterSendFields DEF e2
<1>8. conn \in [Peers -> Endpoint]
  BY DEF WindowInv, WInv
<1>9. QED
  BY <1>1, <1>2, <1>3, <1>7, <1>8, PeerPairs DEF c, c1

LEMMA HeaderFields ==
    ASSUME WindowInv, NEW p \in Peers, NEW m \in net, ReceiveHeader(p, m)
    PROVE  /\ conn' \in [Peers -> Endpoint]
           /\ conn'[p].highestAckedSeq = m.ack /\ conn'[p].lastSeqRecvd = m.seq
           /\ conn'[Other(p)] = conn[Other(p)]
           /\ conn[p].lastSeqRecvd <= m.seq
           /\ conn'[p].ackMask = Advanced(conn[p], m).ackMask
           /\ m.from = Other(p)
<1>1. /\ conn[p] \in Endpoint /\ conn[Other(p)] \in Endpoint
      /\ Link(conn[p], conn[Other(p)]) /\ Link(conn[Other(p)], conn[p])
      /\ m \in Datagram /\ Flight(conn[Other(p)], conn[p], m)
      /\ Fresh(conn[p], m) /\ InWindow(conn[p], m) /\ m.from = Other(p)
  BY Delivery DEF ReceiveHeader
<1>2. /\ conn \in [Peers -> Endpoint]
      /\ conn' = [conn EXCEPT ![p] = Advanced(conn[p], m)]
  BY DEF ReceiveHeader, WindowInv, WInv
<1>3. /\ Advanced(conn[p], m) \in Endpoint
      /\ Advanced(conn[p], m).lastSeqRecvd = m.seq
      /\ Advanced(conn[p], m).highestAckedSeq = m.ack
      /\ conn[p].lastSeqRecvd <= m.seq
  BY <1>1, AdvancedFields, Decode
<1>4. QED
  BY <1>1, <1>2, <1>3, PeerPairs

LEMMA NextVerdicts ==
    WindowInv /\ Recorded /\ VerdictOnce /\ [Next]_vars => Recorded' /\ VerdictOnce'
<1> SUFFICES ASSUME WindowInv, Recorded, VerdictOnce, [Next]_vars
             PROVE  Recorded' /\ VerdictOnce'
  OBVIOUS
<1>1. ASSUME NEW p \in Peers, SendData(p)
      PROVE  Recorded' /\ VerdictOnce'
  <2>1. conn \in [Peers -> Endpoint]
    BY DEF WindowInv, WInv
  <2>2. \A q \in Peers : conn'[q].highestAckedSeq = conn[q].highestAckedSeq
    BY <1>1, <2>1, StampedFields DEF SendData
  <2>3. QED
    BY <1>1, <2>2 DEF SendData, Recorded, VerdictOnce
<1>2. CASE Ping
  BY <1>2 DEF Ping, Recorded, VerdictOnce
<1>3. ASSUME NEW p \in Peers, NEW m \in net, Discard(p, m)
      PROVE  Recorded' /\ VerdictOnce'
  BY <1>3 DEF Discard, Recorded, VerdictOnce
<1>4. ASSUME NEW p \in Peers, NEW m \in net, ReceiveHeader(p, m)
      PROVE  Recorded' /\ VerdictOnce'
  <2>1. /\ Fresh(conn[p], m) /\ InWindow(conn[p], m) /\ Verdicts(p, m)
        /\ decoded' = decoded
    BY <1>4 DEF ReceiveHeader
  <2>2. QED
    BY <1>4, <2>1, HeaderFields, VerdictStep DEF Recorded
<1>5. ASSUME NEW p \in Peers, NEW m \in net, NEW early \in BOOLEAN, NEW ok \in BOOLEAN,
             NEW flush \in BOOLEAN, ReceiveBody(p, m, early, ok, flush)
      PROVE  Recorded' /\ VerdictOnce'
  <2>1. /\ Fresh(conn[p], m) /\ InWindow(conn[p], m) /\ Verdicts(p, m)
    BY <1>5 DEF ReceiveBody
  <2>2. /\ delivered' \in [Peers -> SUBSET Nat] /\ dropped' \in [Peers -> SUBSET Nat]
        /\ VerdictOnce'
    BY <1>5, <2>1, BodyFields, VerdictStep
  <2>3. decoded' \in [Peers -> SUBSET Nat]
    <3>1. PkSeq(conn[p], m) \in Nat
      <4>1. m.from = Other(p)
        BY <1>5 DEF ReceiveBody
      <4>2. PkSeq(conn[p], m) = m.seq
        BY <2>1, <4>1, Delivery, Decode
      <4>3. QED
        BY <4>1, <4>2, Delivery DEF Datagram
    <3>2. QED
      BY <1>5, <3>1 DEF ReceiveBody, Recorded
  <2>4. QED
    BY <2>2, <2>3 DEF Recorded
<1>6. CASE UNCHANGED vars
  BY <1>6 DEF vars, Recorded, VerdictOnce
<1>7. QED
  BY <1>1, <1>2, <1>3, <1>4, <1>5, <1>6 DEF Next, ClientReceivesBody, ServerReceivesBody, Peers

LEMMA InitVerdicts == Init => Recorded /\ VerdictOnce
  BY DEF Init, Recorded, VerdictOnce

LEMMA VerdictInvariant == Spec => [](WindowInv /\ Recorded /\ VerdictOnce)
  BY InitWindow, NextWindow, InitVerdicts, NextVerdicts, PTL DEF Spec

\* VerdictOnce: on_notify reports every packet once, delivered or lost, and in
\* order (the notify loop, netconn.py:526-546), faults and pings included.
THEOREM VerdictOnceHolds == Spec => []VerdictOnce
  BY VerdictInvariant, PTL

\* Type correctness of the whole state.
THEOREM Typing == Spec => []TypeOK
<1>1. WindowInv /\ Recorded => TypeOK
  BY DEF WindowInv, WInv, Recorded, TypeOK
<1>2. QED
  BY <1>1, VerdictInvariant, PTL
-----------------------------------------------------------------------------
(* The truth of the verdicts.  c sends, d receives; taken are the packets   *)
(* of c that d has decoded.                                                *)

\* Every packet taken that c has no verdict on is acknowledged by this mask ...
Told(c, ack, mask, taken) ==
    \A j \in c.highestAckedSeq + 1 .. ack : j \in taken => ack - j \in mask

\* ... and no other is.
Honest(c, ack, mask, taken) ==
    \A j \in c.highestAckedSeq + 1 .. ack : ack - j \in mask => j \in taken

Complete ==
    /\ \A p \in Peers :
         /\ decoded[p] \subseteq 1 .. conn[p].lastSeqRecvd
         /\ Told(conn[Other(p)], conn[p].lastSeqRecvd, conn[p].ackMask, decoded[p])
    /\ \A m \in net :
         m.type = "data" /\ Told(conn[Other(m.from)], m.ack, m.mask, decoded[m.from])

Sound ==
    /\ \A p \in Peers :
         Honest(conn[Other(p)], conn[p].lastSeqRecvd, conn[p].ackMask, decoded[p])
    /\ \A m \in net : Honest(conn[Other(m.from)], m.ack, m.mask, decoded[m.from])

\* Each data packet is on its way once, and not any more when it has been looked at.
Distinct ==
    /\ \A m \in net : m.seq # 0 /\ m.seq # conn[Other(m.from)].lastSeqRecvd
    /\ \A m, k \in net : m.from = k.from /\ m.seq = k.seq => m = k

\* The faults README names: without them each verdict is true.
Orderly == ~Pings /\ ~Duplicates /\ ~HandlerSends

-----------------------------------------------------------------------------
LEMMA SentFields ==
    ASSUME NEW p \in Peers, NEW c \in Endpoint, NEW want \in BOOLEAN,
           NEW k \in SentBy(p, want, c)
    PROVE  /\ k.from = p /\ k.type = "data" /\ k.ack = c.lastSeqRecvd
           /\ k.seq = c.lastSendSeq + 1
           /\ k.mask = {b \in c.ackMask : b < AckBits(c)}
           /\ AfterSend(p, want, c).lastSendSeq = c.lastSendSeq + 1
<1>1. want /\ MaySend(p, c) /\ k = Header(p, Stamped(c), "data")
  BY DEF SentBy
<1>2. /\ Stamped(c).lastSeqRecvd = c.lastSeqRecvd /\ Stamped(c).lastSendSeq = c.lastSendSeq + 1
      /\ Stamped(c).ackMask = c.ackMask /\ Stamped(c).lastRecvAckAck = c.lastRecvAckAck
  BY StampedFields
<1>3. AckBits(Stamped(c)) = AckBits(c)
  BY <1>2 DEF AckBits
<1>4. QED
  BY <1>1, <1>2, <1>3 DEF Header, AfterSend

\* The header of a packet tells what the mask of its sender tells: it is wide enough.
LEMMA SentTold ==
    ASSUME NEW p \in Peers, NEW c \in Endpoint, NEW d \in Endpoint, Link(d, c),
           NEW want \in BOOLEAN, NEW taken,
           Told(d, c.lastSeqRecvd, c.ackMask, taken)
    PROVE  \A k \in SentBy(p, want, c) :
               k.from = p /\ k.type = "data" /\ Told(d, k.ack, k.mask, taken)
<1> SUFFICES ASSUME NEW k \in SentBy(p, want, c)
             PROVE  k.from = p /\ k.type = "data" /\ Told(d, k.ack, k.mask, taken)
  OBVIOUS
<1>1. /\ k.from = p /\ k.type = "data" /\ k.ack = c.lastSeqRecvd
      /\ k.mask = {b \in c.ackMask : b < AckBits(c)}
  BY SentFields
<1>2. AckBits(c) \in Nat /\ c.lastSeqRecvd - AckBits(c) <= d.highestAckedSeq
  BY BitsCover
<1>3. c.lastSeqRecvd \in Nat /\ d.highestAckedSeq \in Nat
  BY DEF Endpoint
<1>4. QED
  BY <1>1, <1>2, <1>3 DEF Told

\* After a data header the mask still tells of what was taken before, and of the
\* packet itself.
LEMMA AdvanceTold ==
    ASSUME NEW c \in Endpoint, NEW d \in Endpoint, Link(c, d), Link(d, c),
           NEW m \in Datagram, Flight(d, c, m), Fresh(c, m), InWindow(c, m), m.type = "data",
           NEW taken, taken \subseteq 1 .. c.lastSeqRecvd,
           Told(d, c.lastSeqRecvd, c.ackMask, taken)
    PROVE  \A new \in SUBSET {m.seq} :
               Told(d, m.seq, Advanced(c, m).ackMask, taken \union new)
<1> SUFFICES ASSUME NEW new \in SUBSET {m.seq}, NEW j \in d.highestAckedSeq + 1 .. m.seq,
                    j \in taken \union new
             PROVE  m.seq - j \in Advanced(c, m).ackMask
  BY DEF Told
<1>1. /\ c.lastSeqRecvd <= m.seq /\ m.seq <= d.lastSendSeq
  BY Decode
<1>2. /\ MAX_UNACKED \in Nat /\ PACKET_WINDOW_SIZE \in Nat \ {0}
      /\ MAX_UNACKED < PACKET_WINDOW_SIZE
  BY WindowAssumption
<1>3. /\ c.lastSeqRecvd \in Nat /\ d.highestAckedSeq \in Nat /\ m.seq \in Nat
      /\ d.lastSendSeq \in Nat /\ c.ackMask \subseteq 0 .. PACKET_WINDOW_SIZE - 1
  BY DEF Endpoint, Datagram
<1>4. m.seq - j \in 0 .. PACKET_WINDOW_SIZE - 1
  BY <1>1, <1>2, <1>3 DEF Link, Counters
<1>5. \/ (m.seq - j) - (m.seq - c.lastSeqRecvd) \in c.ackMask
      \/ m.seq - j = 0
  <2>1. CASE j \in taken
    <3>1. j \in d.highestAckedSeq + 1 .. c.lastSeqRecvd
      BY <1>3, <2>1
    <3>2. c.lastSeqRecvd - j \in c.ackMask
      BY <2>1, <3>1 DEF Told
    <3>3. (m.seq - j) - (m.seq - c.lastSeqRecvd) = c.lastSeqRecvd - j
      BY <1>3, <3>1
    <3>4. QED
      BY <3>2, <3>3
  <2>2. CASE j = m.seq
    BY <1>3, <2>2
  <2>3. QED
    BY <2>1, <2>2
<1>6. QED
  BY <1>4, <1>5, AdvancedFields

\* A body that was not taken before loses bit 0 only.
LEMMA NackTold ==
    ASSUME NEW d \in Endpoint, NEW ack \in Nat, NEW mask, NEW taken, NEW ok \in BOOLEAN,
           Told(d, ack, mask, taken), ~ok => ack \notin taken
    PROVE  Told(d, ack, IF ok THEN mask ELSE mask \ {0}, taken)
<1>1. CASE ~ok
  <2> SUFFICES ASSUME NEW j \in d.highestAckedSeq + 1 .. ack, j \in taken
               PROVE  ack - j \in mask \ {0}
    BY <1>1 DEF Told
  <2>1. j # ack /\ d.highestAckedSeq \in Nat
    BY <1>1 DEF Endpoint
  <2>2. ack - j # 0
    BY <2>1
  <2>3. QED
    BY <2>2 DEF Told
<1>2. QED
  BY <1>1

\* One peer moves on, takes at most the packet it looks at, and sends.
LEMMA CompleteStep ==
    ASSUME WindowInv, Complete, Recorded, NEW p \in Peers, NEW new,
           conn' \in [Peers -> Endpoint], conn'[Other(p)] = conn[Other(p)],
           conn[p].highestAckedSeq <= conn'[p].highestAckedSeq,
           conn[p].lastSeqRecvd <= conn'[p].lastSeqRecvd,
           new \subseteq {conn'[p].lastSeqRecvd},
           new # {} => conn[p].lastSeqRecvd < conn'[p].lastSeqRecvd,
           decoded' = [decoded EXCEPT ![p] = decoded[p] \union new],
           Told(conn[Other(p)], conn'[p].lastSeqRecvd, conn'[p].ackMask, decoded[p] \union new),
           \A k \in net' : \/ k \in net
                           \/ /\ k.from = p /\ k.type = "data"
                              /\ Told(conn[Other(p)], k.ack, k.mask, decoded[p] \union new)
    PROVE  Complete'
<1>1. /\ Other(p) \in Peers /\ Other(p) # p /\ Other(Other(p)) = p
      /\ \A q \in Peers : q = p \/ q = Other(p)
  BY PeerPairs
<1>2. /\ conn \in [Peers -> Endpoint] /\ net \subseteq Datagram
      /\ \A m \in net : Flight(conn[m.from], conn[Other(m.from)], m)
  BY DEF WindowInv, WInv
<1>3. /\ decoded'[p] = decoded[p] \union new /\ decoded'[Other(p)] = decoded[Other(p)]
  BY <1>1 DEF Recorded
<1>4. ASSUME NEW ack \in Nat, NEW mask, NEW taken, Told(conn[p], ack, mask, taken)
      PROVE  Told(conn'[p], ack, mask, taken)
  <2>1. conn[p].highestAckedSeq \in Nat /\ conn'[p].highestAckedSeq \in Nat
    BY <1>2 DEF Endpoint
  <2>2. QED
    BY <1>4, <2>1 DEF Told
<1>5. ASSUME NEW q \in Peers
      PROVE  /\ decoded'[q] \subseteq 1 .. conn'[q].lastSeqRecvd
             /\ Told(conn'[Other(q)], conn'[q].lastSeqRecvd, conn'[q].ackMask, decoded'[q])
  <2>1. CASE q = p
    <3>1. conn[p].lastSeqRecvd \in Nat /\ conn'[p].lastSeqRecvd \in Nat
      BY <1>2 DEF Endpoint
    <3>2. decoded[p] \subseteq 1 .. conn[p].lastSeqRecvd
      BY DEF Complete
    <3>3. decoded[p] \union new \subseteq 1 .. conn'[p].lastSeqRecvd
      <4>1. \A j \in new : j \in 1 .. conn'[p].lastSeqRecvd
        BY <3>1
      <4>2. \A j \in decoded[p] : j \in 1 .. conn'[p].lastSeqRecvd
        BY <3>1, <3>2
      <4>3. QED
        BY <4>1, <4>2
    <3>4. QED
      BY <1>1, <1>3, <2>1, <3>3
  <2>2. CASE q = Other(p)
    <3>1. conn[q].lastSeqRecvd \in Nat
      BY <1>2 DEF Endpoint
    <3>2. /\ decoded[q] \subseteq 1 .. conn[q].lastSeqRecvd
          /\ Told(conn[p], conn[q].lastSeqRecvd, conn[q].ackMask, decoded[q])
      BY <1>1, <2>2 DEF Complete
    <3>3. QED
      BY <1>1, <1>3, <1>4, <2>2, <3>1, <3>2
  <2>3. QED
    BY <1>1, <2>1, <2>2
<1>6. ASSUME NEW k \in net'
      PROVE  k.type = "data" /\ Told(conn'[Other(k.from)], k.ack, k.mask, decoded'[k.from])
  <2>1. CASE k \notin net
    BY <1>1, <1>3, <1>6, <2>1
  <2>2. CASE k \in net
    <3>1. /\ k \in Datagram /\ k.type = "data" /\ k.ack \in Nat
          /\ Told(conn[Other(k.from)], k.ack, k.mask, decoded[k.from])
          /\ k.ack <= conn[k.from].lastSeqRecvd
          /\ k.from = p \/ k.from = Other(p)
      BY <1>1, <1>2, <2>2 DEF Complete, Flight, Datagram
    <3>2. CASE k.from = p
      <4>1. \A j \in conn[Other(p)].highestAckedSeq + 1 .. k.ack : j \notin new
        BY <1>2, <3>1, <3>2 DEF Endpoint
      <4>2. QED
        BY <1>1, <1>3, <3>1, <3>2, <4>1 DEF Told
    <3>3. CASE k.from = Other(p)
      BY <1>1, <1>3, <1>4, <3>1, <3>3
    <3>4. QED
      BY <3>1, <3>2, <3>3
  <2>3. QED
    BY <2>1, <2>2
<1>7. QED
  BY <1>5, <1>6 DEF Complete

\* A header that is taken in adds to the packets reported lost only some that were
\* not taken.
LEMMA LossStep ==
    ASSUME WindowInv, Recorded, VerdictOnce, Complete, NoFalseLoss,
           NEW p \in Peers, NEW m \in net, m.from = Other(p),
           Fresh(conn[p], m), InWindow(conn[p], m), Verdicts(p, m),
           NEW new, \A j \in new : conn[p].lastSeqRecvd < j /\ j \in Nat,
           decoded' = [decoded EXCEPT ![p] = decoded[p] \union new]
    PROVE  NoFalseLoss'
<1>1. /\ Other(p) \in Peers /\ Other(p) # p /\ Other(Other(p)) = p
      /\ \A q \in Peers : q = p \/ q = Other(p)
  BY PeerPairs
<1>2. /\ conn[p] \in Endpoint /\ conn[Other(p)] \in Endpoint /\ m \in Datagram
      /\ PkAck(conn[p], m) = m.ack
      /\ conn[Other(p)].highestAckedSeq <= conn[p].lastSeqRecvd
  BY Delivery, Decode DEF Link, Counters
<1>3. /\ decoded'[p] = decoded[p] \union new /\ decoded'[Other(p)] = decoded[Other(p)]
      /\ dropped'[p] = dropped[p] \union (Judged(conn[p], m) \ Confirmed(conn[p], m))
      /\ dropped'[Other(p)] = dropped[Other(p)]
  BY <1>1 DEF Recorded, Verdicts
<1>4. dropped'[p] \intersect decoded'[Other(p)] = {}
  <2>1. Told(conn[p], m.ack, m.mask, decoded[Other(p)])
    BY <1>1 DEF Complete
  <2>2. \A j \in Judged(conn[p], m) : j \in decoded[Other(p)] => j \in Confirmed(conn[p], m)
    BY <1>2, <2>1 DEF Told, Judged, Confirmed
  <2>3. dropped[p] \intersect decoded[Other(p)] = {}
    BY DEF NoFalseLoss
  <2>4. QED
    BY <1>3, <2>2, <2>3
<1>5. dropped'[Other(p)] \intersect decoded'[p] = {}
  <2>1. dropped[Other(p)] \subseteq 1 .. conn[Other(p)].highestAckedSeq
    BY <1>1 DEF VerdictOnce
  <2>2. \A j \in new : j \notin dropped[Other(p)]
    BY <1>2, <2>1 DEF Endpoint
  <2>3. dropped[Other(p)] \intersect decoded[p] = {}
    BY <1>1 DEF NoFalseLoss
  <2>4. QED
    BY <1>3, <2>2, <2>3
<1>6. QED
  BY <1>1, <1>4, <1>5 DEF NoFalseLoss

\* The step of a body, in the shape that CompleteStep asks for.
LEMMA BodyComplete ==
    ASSUME WindowInv, Recorded, Complete, NEW p \in Peers, NEW m \in net,
           NEW early \in BOOLEAN, NEW ok \in BOOLEAN, NEW flush \in BOOLEAN,
           ReceiveBody(p, m, early, ok, flush)
    PROVE  /\ Complete'
           /\ m.from = Other(p) /\ conn[p].lastSeqRecvd < m.seq /\ m.seq \in Nat
           /\ decoded' = [decoded EXCEPT ![p] = decoded[p] \union (IF ok THEN {m.seq} ELSE {})]
<1> DEFINE c == conn[p]   d == conn[Other(p)]
           c1 == Advanced(c, m)
           e1 == AfterSend(p, early, c1)
           c2 == Nack(ok, e1)
           ns == SentBy(p, early, c1) \union SentBy(p, flush, c2)
           new == IF ok THEN {m.seq} ELSE {}
           taken == decoded[p] \union new
<1>1. /\ c \in Endpoint /\ d \in Endpoint /\ Link(c, d) /\ Link(d, c)
      /\ m \in Datagram /\ Flight(d, c, m) /\ Fresh(c, m) /\ InWindow(c, m)
      /\ m.from = Other(p) /\ m.type = "data"
  BY Delivery DEF ReceiveBody, HasNewBody
<1>2. /\ conn' \in [Peers -> Endpoint]
      /\ conn'[p].highestAckedSeq = m.ack /\ conn'[p].lastSeqRecvd = m.seq
      /\ conn'[Other(p)] = conn[Other(p)] /\ c.lastSeqRecvd < m.seq
      /\ conn'[p].ackMask = IF ok THEN c1.ackMask ELSE c1.ackMask \ {0}
  BY BodyFields
<1>3. /\ PkSeq(c, m) = m.seq /\ c.highestAckedSeq <= m.ack
      /\ m.seq \in Nat /\ m.ack \in Nat /\ c.lastSeqRecvd \in Nat
  BY <1>1, Decode DEF Datagram, Endpoint
<1>4. /\ decoded' = [decoded EXCEPT ![p] = taken]
      /\ \A k \in net' : k \in net \/ k \in ns
  <2>1. PICK left \in Taken(m) : net' \in Transmit(left, ns)
    BY DEF ReceiveBody
  <2>2. left \subseteq net
    BY <2>1 DEF Taken
  <2>3. QED
    BY <1>3, <2>1, <2>2, Transmitted DEF ReceiveBody
<1> HIDE DEF c, d, c1, e1, c2, ns, new
<1>5. Told(d, m.seq, c1.ackMask, taken)
  <2>1. /\ decoded[p] \subseteq 1 .. c.lastSeqRecvd
        /\ Told(d, c.lastSeqRecvd, c.ackMask, decoded[p])
    BY DEF Complete, c, d
  <2>2. new \in SUBSET {m.seq}
    BY DEF new
  <2>3. QED
    BY <1>1, <2>1, <2>2, AdvanceTold DEF c1
<1>6. ~ok => m.seq \notin taken
  <2>1. decoded[p] \subseteq 1 .. c.lastSeqRecvd
    BY DEF Complete, c
  <2>2. m.seq \notin decoded[p]
    BY <1>2, <1>3, <2>1
  <2>3. QED
    BY <2>2 DEF new
<1>7. Told(d, m.seq, IF ok THEN c1.ackMask ELSE c1.ackMask \ {0}, taken)
  BY <1>1, <1>3, <1>5, <1>6, NackTold
<1>8. Evolves(c, d, c1) /\ c1.lastSeqRecvd = m.seq /\ c1 \in Endpoint
  BY <1>1, AdvanceEvolves, AdvancedFields DEF c1
<1>9. \A k \in SentBy(p, early, c1) :
         k.from = p /\ k.type = "data" /\ Told(d, k.ack, k.mask, taken)
  BY <1>1, <1>5, <1>8, SentTold DEF Evolves
<1>10. /\ Evolves(c1, d, e1) /\ e1 \in Endpoint
       /\ e1.lastSeqRecvd = m.seq /\ e1.ackMask = c1.ackMask
  BY <1>1, <1>8, AfterSendEvolves, AfterSendFields DEF Evolves, e1
<1>11. /\ Evolves(e1, d, c2) /\ c2.lastSeqRecvd = m.seq
       /\ c2.ackMask = IF ok THEN c1.ackMask ELSE c1.ackMask \ {0}
  BY <1>1, <1>10, NackEvolves, ZenonT(30) DEF Evolves, c2
<1>12. \A k \in SentBy(p, flush, c2) :
         k.from = p /\ k.type = "data" /\ Told(d, k.ack, k.mask, taken)
  BY <1>1, <1>7, <1>11, SentTold DEF Evolves
<1>13. \A k \in net' : k \in net \/ (k.from = p /\ k.type = "data" /\ Told(d, k.ack, k.mask, taken))
  BY <1>4, <1>9, <1>12 DEF ns
<1>14. Complete'
  <2>1. /\ new \subseteq {conn'[p].lastSeqRecvd}
        /\ new # {} => conn[p].lastSeqRecvd < conn'[p].lastSeqRecvd
    BY <1>2 DEF new, c
  <2>2. /\ conn[p].highestAckedSeq <= conn'[p].highestAckedSeq
        /\ conn[p].lastSeqRecvd <= conn'[p].lastSeqRecvd
    BY <1>2, <1>3 DEF c
  <2>3. Told(conn[Other(p)], conn'[p].lastSeqRecvd, conn'[p].ackMask, taken)
    BY <1>2, <1>7 DEF d
  <2>4. QED
    BY <1>2, <1>4, <1>13, <2>1, <2>2, <2>3, CompleteStep DEF d
<1>15. QED
  BY <1>1, <1>2, <1>3, <1>4, <1>14 DEF c, new

LEMMA NextComplete ==
    ~Pings /\ WindowInv /\ Recorded /\ VerdictOnce /\ Complete /\ NoFalseLoss /\ [Next]_vars
      => Complete' /\ NoFalseLoss'
<1> SUFFICES ASSUME ~Pings, WindowInv, Recorded, VerdictOnce, Complete, NoFalseLoss, [Next]_vars
             PROVE  Complete' /\ NoFalseLoss'
  OBVIOUS
<1>1. ASSUME NEW p \in Peers, SendData(p)
      PROVE  Complete' /\ NoFalseLoss'
  <2> DEFINE c == conn[p]   d == conn[Other(p)]
  <2>1. /\ c \in Endpoint /\ d \in Endpoint /\ Link(c, d) /\ Link(d, c)
        /\ conn \in [Peers -> Endpoint]
    BY PeerPairs DEF WindowInv, WInv
  <2>2. /\ conn' \in [Peers -> Endpoint] /\ conn'[Other(p)] = d
        /\ conn'[p].lastSeqRecvd = c.lastSeqRecvd /\ conn'[p].ackMask = c.ackMask
        /\ conn'[p].highestAckedSeq = c.highestAckedSeq
    BY <1>1, <2>1, StampedFields, PeerPairs DEF SendData
  <2>3. /\ \A k \in net' : k \in net \/ k \in SentBy(p, TRUE, c)
        /\ decoded' = decoded /\ dropped' = dropped
    BY <1>1, Transmitted DEF SendData
  <2>4. Told(d, c.lastSeqRecvd, c.ackMask, decoded[p])
    BY DEF Complete
  <2>5. \A k \in SentBy(p, TRUE, c) :
          k.from = p /\ k.type = "data" /\ Told(d, k.ack, k.mask, decoded[p])
    BY <2>1, <2>4, SentTold
  <2> DEFINE new == {}
  <2>6. /\ decoded[p] \union new = decoded[p]
        /\ decoded' = [decoded EXCEPT ![p] = decoded[p] \union new]
        /\ new = {}
    BY <2>3 DEF Recorded
  <2>7. /\ c.highestAckedSeq <= c.highestAckedSeq /\ c.lastSeqRecvd <= c.lastSeqRecvd
    BY <2>1 DEF Endpoint
  <2> HIDE DEF c, d, new
  <2>8. Complete'
    <3>1. /\ new \subseteq {conn'[p].lastSeqRecvd}
          /\ new # {} => conn[p].lastSeqRecvd < conn'[p].lastSeqRecvd
      BY <2>6
    <3>2. Told(d, conn'[p].lastSeqRecvd, conn'[p].ackMask, decoded[p] \union new)
      BY <2>2, <2>4, <2>6
    <3>3. \A k \in net' : \/ k \in net
                          \/ /\ k.from = p /\ k.type = "data"
                             /\ Told(d, k.ack, k.mask, decoded[p] \union new)
      BY <2>3, <2>5, <2>6
    <3>4. QED
      BY <2>2, <2>6, <2>7, <3>1, <3>2, <3>3, CompleteStep DEF c, d
  <2>9. QED
    BY <2>3, <2>8 DEF NoFalseLoss
<1>2. ASSUME NEW p \in Peers, NEW m \in net, Discard(p, m)
      PROVE  Complete' /\ NoFalseLoss'
  BY <1>2 DEF Discard, Complete, NoFalseLoss
<1>3. ASSUME NEW p \in Peers, NEW m \in net, ReceiveHeader(p, m)
      PROVE  Complete' /\ NoFalseLoss'
  <2> DEFINE c == conn[p]   d == conn[Other(p)]
  <2>1. /\ c \in Endpoint /\ d \in Endpoint /\ Link(c, d) /\ Link(d, c)
        /\ m \in Datagram /\ Flight(d, c, m) /\ Fresh(c, m) /\ InWindow(c, m)
    BY <1>3, Delivery DEF ReceiveHeader
  <2>2. /\ conn' \in [Peers -> Endpoint] /\ conn'[Other(p)] = d
        /\ conn'[p].highestAckedSeq = m.ack /\ conn'[p].lastSeqRecvd = m.seq
        /\ c.lastSeqRecvd <= m.seq /\ c.highestAckedSeq <= m.ack
        /\ conn'[p].ackMask = Advanced(c, m).ackMask
    BY <1>3, <2>1, HeaderFields, Decode
  <2>3. m.type = "data"
    BY DEF Complete
  <2>4. \A k \in net' : k \in net
    BY <1>3, <2>3, Transmitted DEF ReceiveHeader, Taken, PingAnswer
  <2> DEFINE new == {}
  <2>5. /\ decoded[p] \union new = decoded[p]
        /\ decoded' = [decoded EXCEPT ![p] = decoded[p] \union new]
        /\ new = {}
    BY <1>3 DEF ReceiveHeader, Recorded
  <2>6. /\ decoded[p] \subseteq 1 .. c.lastSeqRecvd
        /\ Told(d, c.lastSeqRecvd, c.ackMask, decoded[p])
    BY DEF Complete
  <2>7. Told(d, m.seq, Advanced(c, m).ackMask, decoded[p] \union new)
    BY <2>1, <2>3, <2>6, AdvanceTold
  <2>8. /\ m.from = Other(p) /\ Fresh(c, m) /\ InWindow(c, m) /\ Verdicts(p, m)
    BY <1>3 DEF ReceiveHeader
  <2> HIDE DEF new
  <2>9. NoFalseLoss'
    <3>1. \A j \in new : conn[p].lastSeqRecvd < j /\ j \in Nat
      BY <2>5
    <3>2. QED
      BY <2>5, <2>8, <3>1, LossStep
  <2> HIDE DEF c, d
  <2>10. Complete'
    BY <2>2, <2>4, <2>5, <2>7, CompleteStep DEF c, d
  <2>11. QED
    BY <2>9, <2>10
<1>4. ASSUME NEW p \in Peers, NEW m \in net, NEW early \in BOOLEAN, NEW ok \in BOOLEAN,
             NEW flush \in BOOLEAN, ReceiveBody(p, m, early, ok, flush)
      PROVE  Complete' /\ NoFalseLoss'
  <2>1. /\ Complete'
        /\ m.from = Other(p) /\ conn[p].lastSeqRecvd < m.seq /\ m.seq \in Nat
        /\ decoded' = [decoded EXCEPT ![p] = decoded[p] \union (IF ok THEN {m.seq} ELSE {})]
    BY <1>4, BodyComplete
  <2>2. Fresh(conn[p], m) /\ InWindow(conn[p], m) /\ Verdicts(p, m)
    BY <1>4 DEF ReceiveBody
  <2> DEFINE new == IF ok THEN {m.seq} ELSE {}
  <2>3. \A j \in new : conn[p].lastSeqRecvd < j /\ j \in Nat
    BY <2>1
  <2>4. decoded' = [decoded EXCEPT ![p] = decoded[p] \union new]
    BY <2>1
  <2> HIDE DEF new
  <2>5. NoFalseLoss'
    BY <2>1, <2>2, <2>3, <2>4, LossStep
  <2>6. QED
    BY <2>1, <2>5
<1>5. CASE UNCHANGED vars
  BY <1>5 DEF vars, Complete, NoFalseLoss
<1>6. QED
  BY <1>1, <1>2, <1>3, <1>4, <1>5
     DEF Next, Ping, ClientReceivesBody, ServerReceivesBody, Peers

LEMMA InitComplete == Init => Complete /\ NoFalseLoss
<1> SUFFICES ASSUME Init PROVE Complete /\ NoFalseLoss
  OBVIOUS
<1>1. \A p \in Peers : decoded[p] = {} /\ Other(p) \in Peers /\ dropped[p] = {}
  BY PeerPairs DEF Init
<1>2. net = {}
  BY DEF Init
<1>3. QED
  BY <1>1, <1>2 DEF Complete, NoFalseLoss, Told

LEMMA CompleteInvariant ==
    ~Pings => (Spec => [](WindowInv /\ Recorded /\ VerdictOnce /\ Complete /\ NoFalseLoss))
<1> SUFFICES ASSUME ~Pings
             PROVE  Spec => [](WindowInv /\ Recorded /\ VerdictOnce /\ Complete /\ NoFalseLoss)
  OBVIOUS
<1>1. WindowInv /\ Recorded /\ VerdictOnce /\ Complete /\ NoFalseLoss /\ [Next]_vars
        => Complete' /\ NoFalseLoss'
  BY NextComplete
<1>2. QED
  BY <1>1, InitComplete, VerdictInvariant, PTL DEF Spec

\* NoFalseLoss, unless the server pings: a packet that on_notify reports lost was never
\* taken, although datagrams are duplicated, bodies fail to decode and handlers send in
\* the middle of a body, so what is sent again repeats nothing (netconn.py:526-546).
THEOREM NoFalseLossHolds == ~Pings => (Spec => []NoFalseLoss)
  BY CompleteInvariant, PTL

-----------------------------------------------------------------------------
(* The other half, and the channel *)

\* The mask after a body tells of no packet that was not taken.
LEMMA BodyHonest ==
    ASSUME NEW c \in Endpoint, NEW d \in Endpoint, Link(c, d), Link(d, c),
           NEW m \in Datagram, Flight(d, c, m), Fresh(c, m), InWindow(c, m),
           NEW taken, NEW ok \in BOOLEAN,
           Honest(d, c.lastSeqRecvd, c.ackMask, taken)
    PROVE  Honest(d, m.seq, IF ok THEN Advanced(c, m).ackMask ELSE Advanced(c, m).ackMask \ {0},
                  taken \union (IF ok THEN {m.seq} ELSE {}))
<1> DEFINE mask == IF ok THEN Advanced(c, m).ackMask ELSE Advanced(c, m).ackMask \ {0}
<1> SUFFICES ASSUME NEW j \in d.highestAckedSeq + 1 .. m.seq, m.seq - j \in mask
             PROVE  j \in taken \union (IF ok THEN {m.seq} ELSE {})
  BY DEF Honest
<1>1. /\ c.lastSeqRecvd \in Nat /\ d.highestAckedSeq \in Nat /\ m.seq \in Nat
      /\ c.ackMask \subseteq 0 .. PACKET_WINDOW_SIZE - 1
      /\ Advanced(c, m).ackMask \subseteq 0 .. PACKET_WINDOW_SIZE - 1
      /\ PACKET_WINDOW_SIZE \in Nat
  <2>1. Advanced(c, m) \in Endpoint
    BY AdvancedFields
  <2>2. QED
    BY <2>1, WindowAssumption DEF Endpoint, Datagram
<1>2. /\ m.seq - j \in 0 .. PACKET_WINDOW_SIZE - 1
      /\ \/ (m.seq - j) - (m.seq - c.lastSeqRecvd) \in c.ackMask
         \/ m.seq - j = 0
  BY <1>1, AdvancedFields
<1>3. CASE m.seq - j = 0
  <2>1. ok /\ j = m.seq
    BY <1>1, <1>3
  <2>2. QED
    BY <2>1
<1>4. CASE (m.seq - j) - (m.seq - c.lastSeqRecvd) \in c.ackMask
  <2>1. c.lastSeqRecvd - j \in c.ackMask
    <3>1. (m.seq - j) - (m.seq - c.lastSeqRecvd) = c.lastSeqRecvd - j
      BY <1>1
    <3>2. QED
      BY <1>4, <3>1
  <2>2. j \in d.highestAckedSeq + 1 .. c.lastSeqRecvd
    BY <1>1, <2>1
  <2>3. QED
    BY <2>1, <2>2 DEF Honest
<1>5. QED
  BY <1>2, <1>3, <1>4

LEMMA SentHonest ==
    ASSUME NEW p \in Peers, NEW c \in Endpoint, NEW d \in Endpoint, NEW want \in BOOLEAN,
           NEW taken, Honest(d, c.lastSeqRecvd, c.ackMask, taken)
    PROVE  \A k \in SentBy(p, want, c) : k.from = p /\ Honest(d, k.ack, k.mask, taken)
  BY SentFields DEF Honest

LEMMA SoundStep ==
    ASSUME WindowInv, Recorded, Sound, NEW p \in Peers, NEW new,
           conn' \in [Peers -> Endpoint], conn'[Other(p)] = conn[Other(p)],
           conn[p].highestAckedSeq <= conn'[p].highestAckedSeq,
           decoded' = [decoded EXCEPT ![p] = decoded[p] \union new],
           Honest(conn[Other(p)], conn'[p].lastSeqRecvd, conn'[p].ackMask, decoded[p] \union new),
           \A k \in net' : \/ k \in net
                           \/ /\ k.from = p
                              /\ Honest(conn[Other(p)], k.ack, k.mask, decoded[p] \union new)
    PROVE  Sound'
<1>1. /\ Other(p) \in Peers /\ Other(p) # p /\ Other(Other(p)) = p
      /\ \A q \in Peers : q = p \/ q = Other(p)
  BY PeerPairs
<1>2. conn \in [Peers -> Endpoint] /\ net \subseteq Datagram
  BY DEF WindowInv, WInv
<1>3. decoded'[p] = decoded[p] \union new /\ decoded'[Other(p)] = decoded[Other(p)]
  BY <1>1 DEF Recorded
<1>4. ASSUME NEW ack \in Nat, NEW mask, NEW taken, Honest(conn[p], ack, mask, taken)
      PROVE  Honest(conn'[p], ack, mask, taken)
  <2>1. conn[p].highestAckedSeq \in Nat /\ conn'[p].highestAckedSeq \in Nat
    BY <1>2 DEF Endpoint
  <2>2. QED
    BY <1>4, <2>1 DEF Honest
<1>5. ASSUME NEW q \in Peers
      PROVE  Honest(conn'[Other(q)], conn'[q].lastSeqRecvd, conn'[q].ackMask, decoded'[q])
  <2>1. CASE q = p
    BY <1>1, <1>3, <2>1
  <2>2. CASE q = Other(p)
    <3>1. /\ conn[q].lastSeqRecvd \in Nat
          /\ Honest(conn[p], conn[q].lastSeqRecvd, conn[q].ackMask, decoded[q])
      BY <1>1, <1>2, <2>2 DEF Sound, Endpoint
    <3>2. QED
      BY <1>1, <1>3, <1>4, <2>2, <3>1
  <2>3. QED
    BY <1>1, <2>1, <2>2
<1>6. ASSUME NEW k \in net'
      PROVE  Honest(conn'[Other(k.from)], k.ack, k.mask, decoded'[k.from])
  <2>1. CASE k \notin net
    BY <1>1, <1>3, <1>6, <2>1
  <2>2. CASE k \in net
    <3>1. /\ k.ack \in Nat /\ (k.from = p \/ k.from = Other(p))
          /\ Honest(conn[Other(k.from)], k.ack, k.mask, decoded[k.from])
      BY <1>1, <1>2, <2>2 DEF Sound, Datagram
    <3>2. CASE k.from = p
      BY <1>1, <1>3, <3>1, <3>2 DEF Honest
    <3>3. CASE k.from = Other(p)
      <4>1. k.ack \in Nat
        BY <1>2, <2>2 DEF Datagram
      <4>2. QED
        BY <1>1, <1>3, <1>4, <3>1, <3>3, <4>1
    <3>4. QED
      BY <3>1, <3>2, <3>3
  <2>3. QED
    BY <2>1, <2>2
<1>7. QED
  BY <1>5, <1>6 DEF Sound

\* A new packet has a number of its own; nothing with the number just looked at is left.
LEMMA DistinctStep ==
    ASSUME WindowInv, Distinct, NEW p \in Peers, NEW left \in SUBSET net, NEW ns,
           conn' \in [Peers -> Endpoint], conn'[Other(p)] = conn[Other(p)],
           net' \subseteq left \union ns,
           \A k \in ns : k.from = p /\ k.seq = conn[p].lastSendSeq + 1,
           \A k, l \in ns : k = l,
           \A k \in left : k.from = Other(p) => k.seq # conn'[p].lastSeqRecvd
    PROVE  Distinct'
<1>1. /\ Other(p) \in Peers /\ Other(p) # p /\ Other(Other(p)) = p
      /\ \A q \in Peers : q = p \/ q = Other(p)
  BY PeerPairs
<1>2. /\ conn \in [Peers -> Endpoint] /\ net \subseteq Datagram
      /\ \A m \in net : Flight(conn[m.from], conn[Other(m.from)], m)
      /\ conn[Other(p)].lastSeqRecvd <= conn[p].lastSendSeq
  BY DEF WindowInv, WInv, Link, Counters
<1>3. /\ conn[p].lastSendSeq \in Nat /\ conn[Other(p)].lastSeqRecvd \in Nat
  BY <1>1, <1>2 DEF Endpoint
<1>4. \A k \in net : k.from = p => k.seq <= conn[p].lastSendSeq /\ k.seq \in Nat
  BY <1>2 DEF Flight, Datagram
<1>5. ASSUME NEW k \in net'
      PROVE  k.seq # 0 /\ k.seq # conn'[Other(k.from)].lastSeqRecvd
  <2>1. CASE k \in ns
    BY <1>1, <1>2, <1>3, <2>1
  <2>2. CASE k \in left
    <3>1. k \in net /\ (k.from = p \/ k.from = Other(p))
      BY <1>1, <1>2, <2>2 DEF Datagram
    <3>2. QED
      BY <1>1, <2>2, <3>1 DEF Distinct
  <2>3. QED
    BY <2>1, <2>2
<1>6. ASSUME NEW k \in net', NEW l \in net', k.from = l.from, k.seq = l.seq
      PROVE  k = l
  <2>1. CASE k \in left /\ l \in left
    BY <1>6, <2>1 DEF Distinct
  <2>2. CASE k \in ns /\ l \in ns
    BY <2>2
  <2>3. CASE k \in left /\ l \in ns
    BY <1>3, <1>4, <1>6, <2>3
  <2>4. CASE k \in ns /\ l \in left
    BY <1>3, <1>4, <1>6, <2>4
  <2>5. QED
    BY <2>1, <2>2, <2>3, <2>4
<1>7. QED
  BY <1>5, <1>6 DEF Distinct

\* The new verdicts are those of the channel: what was taken is delivered, the rest lost.
LEMMA TrueVerdicts ==
    ASSUME WindowInv, Recorded, Complete, Sound, DeliveredMeansDecoded,
           NEW p \in Peers, NEW m \in net, m.from = Other(p),
           Fresh(conn[p], m), InWindow(conn[p], m), Verdicts(p, m)
    PROVE  /\ delivered' = [delivered EXCEPT ![p] = delivered[p] \union
                {i \in decoded[Other(p)] : conn[p].highestAckedSeq < i /\ i <= m.ack}]
           /\ m.ack \in conn[p].highestAckedSeq .. conn[Other(p)].lastSeqRecvd
<1>1. Other(p) \in Peers /\ Other(Other(p)) = p
  BY PeerPairs
<1>2. /\ conn[p] \in Endpoint /\ conn[Other(p)] \in Endpoint /\ m \in Datagram
      /\ PkAck(conn[p], m) = m.ack
      /\ conn[p].highestAckedSeq <= m.ack /\ m.ack <= conn[Other(p)].lastSeqRecvd
  BY Delivery, Decode
<1>3. /\ conn[p].highestAckedSeq \in Nat /\ m.ack \in Nat
      /\ conn[Other(p)].lastSeqRecvd \in Nat
  BY <1>2 DEF Endpoint, Datagram
<1>4. /\ Told(conn[p], m.ack, m.mask, decoded[Other(p)])
      /\ Honest(conn[p], m.ack, m.mask, decoded[Other(p)])
      /\ decoded[Other(p)] \subseteq Nat
  BY <1>1 DEF Complete, Sound, Recorded
<1>5. Confirmed(conn[p], m) = {i \in conn[p].highestAckedSeq + 1 .. m.ack : i \in decoded[Other(p)]}
  BY <1>2, <1>4 DEF Told, Honest, Confirmed, Judged
<1>6. {i \in conn[p].highestAckedSeq + 1 .. m.ack : i \in decoded[Other(p)]}
        = {i \in decoded[Other(p)] : conn[p].highestAckedSeq < i /\ i <= m.ack}
  BY <1>3, <1>4
<1>7. m.ack \in conn[p].highestAckedSeq .. conn[Other(p)].lastSeqRecvd
  BY <1>2, <1>3
<1> DEFINE good == {i \in decoded[Other(p)] : conn[p].highestAckedSeq < i /\ i <= m.ack}
<1>8. delivered' = [delivered EXCEPT ![p] = delivered[p] \union good]
  BY <1>5, <1>6 DEF Verdicts
<1>9. QED
  BY <1>7, <1>8

\* One direction of the connection makes a step of PacketChannel, or none.
SenderMoves(p) ==
    \E k \in conn[p].highestAckedSeq .. conn[Other(p)].lastSeqRecvd, n \in {0, 1} :
        /\ conn'[p].highestAckedSeq = k
        /\ delivered'[p] = delivered[p] \union
              {i \in decoded[Other(p)] : conn[p].highestAckedSeq < i /\ i <= k}
        /\ conn'[p].lastSendSeq = conn[p].lastSendSeq + n
        /\ n > 0 => conn'[p].lastSendSeq - conn'[p].highestAckedSeq <= MAX_UNACKED
        /\ conn'[Other(p)].lastSeqRecvd = conn[Other(p)].lastSeqRecvd
        /\ decoded'[Other(p)] = decoded[Other(p)]

ReceiverMoves(p) ==
    \E i \in conn[Other(p)].lastSeqRecvd + 1 .. conn[p].lastSendSeq, ok \in BOOLEAN :
        /\ conn'[Other(p)].lastSeqRecvd = i
        /\ decoded'[Other(p)] = IF ok THEN decoded[Other(p)] \union {i} ELSE decoded[Other(p)]
        /\ conn'[p].lastSendSeq = conn[p].lastSendSeq
        /\ conn'[p].highestAckedSeq = conn[p].highestAckedSeq
        /\ delivered'[p] = delivered[p]

Rests(p) ==
    /\ conn'[p].lastSendSeq = conn[p].lastSendSeq
    /\ conn'[p].highestAckedSeq = conn[p].highestAckedSeq
    /\ conn'[Other(p)].lastSeqRecvd = conn[Other(p)].lastSeqRecvd
    /\ decoded'[Other(p)] = decoded[Other(p)] /\ delivered'[p] = delivered[p]

Moves == \A p \in Peers : SenderMoves(p) \/ ReceiverMoves(p) \/ Rests(p)

ChannelInv ==
    /\ WindowInv /\ Recorded /\ VerdictOnce /\ Complete /\ NoFalseLoss
    /\ Sound /\ Distinct /\ DeliveredMeansDecoded

\* Sending a packet.
LEMMA SendMoves ==
    ASSUME ChannelInv, NEW p \in Peers, SendData(p)
    PROVE  Sound' /\ Distinct' /\ DeliveredMeansDecoded' /\ Moves
<1> DEFINE c == conn[p]   d == conn[Other(p)]   ns == SentBy(p, TRUE, c)   new == {}
<1>1. /\ Other(p) \in Peers /\ Other(p) # p /\ Other(Other(p)) = p
      /\ \A q \in Peers : q = p \/ q = Other(p)
  BY PeerPairs
<1>2. /\ c \in Endpoint /\ d \in Endpoint /\ conn \in [Peers -> Endpoint]
      /\ c.highestAckedSeq <= d.lastSeqRecvd /\ WindowInv /\ Recorded /\ Sound /\ Distinct
  BY <1>1 DEF ChannelInv, WindowInv, WInv, Link, Counters
<1>3. /\ conn' \in [Peers -> Endpoint] /\ conn'[Other(p)] = d
      /\ conn'[p].lastSeqRecvd = c.lastSeqRecvd /\ conn'[p].ackMask = c.ackMask
      /\ conn'[p].highestAckedSeq = c.highestAckedSeq
      /\ conn'[p].lastSendSeq = c.lastSendSeq + 1
  BY <1>1, <1>2, StampedFields DEF SendData
<1>4. /\ net' \subseteq net \union ns
      /\ decoded' = decoded /\ delivered' = delivered
  BY Transmitted DEF SendData
<1>5. /\ c.highestAckedSeq \in Nat /\ d.lastSeqRecvd \in Nat /\ c.lastSendSeq \in Nat
      /\ c.lastSeqRecvd \in Nat /\ MAX_UNACKED \in Nat
  BY <1>2, WindowAssumption DEF Endpoint
<1>6. Sound'
  <2>1. Honest(d, c.lastSeqRecvd, c.ackMask, decoded[p])
    BY DEF ChannelInv, Sound
  <2>2. \A k \in ns : k.from = p /\ Honest(d, k.ack, k.mask, decoded[p])
    BY <1>2, <2>1, SentHonest
  <2>3. /\ decoded[p] \union new = decoded[p]
        /\ decoded' = [decoded EXCEPT ![p] = decoded[p] \union new]
    BY <1>2, <1>4 DEF Recorded
  <2> HIDE DEF new, ns, c, d
  <2>4. \A k \in net' : \/ k \in net
                        \/ k.from = p /\ Honest(d, k.ack, k.mask, decoded[p] \union new)
    BY <1>4, <2>2, <2>3
  <2>5. Honest(d, conn'[p].lastSeqRecvd, conn'[p].ackMask, decoded[p] \union new)
    BY <1>3, <2>1, <2>3
  <2>6. c.highestAckedSeq <= conn'[p].highestAckedSeq
    BY <1>3, <1>5
  <2>7. QED
    BY <1>2, <1>3, <2>3, <2>4, <2>5, <2>6, SoundStep DEF c, d
<1>7. Distinct'
  <2>1. /\ \A k \in ns : k.from = p /\ k.seq = c.lastSendSeq + 1
        /\ \A k, l \in ns : k = l
    BY <1>2, SentFields DEF SentBy
  <2>2. \A k \in net : k.from = Other(p) => k.seq # conn'[p].lastSeqRecvd
    BY <1>1, <1>2, <1>3 DEF Distinct
  <2> HIDE DEF ns
  <2>3. QED
    BY <1>2, <1>3, <1>4, <2>1, <2>2, DistinctStep
<1>8. DeliveredMeansDecoded'
  BY <1>4 DEF ChannelInv, DeliveredMeansDecoded
<1>9. SenderMoves(p)
  <2>1. c.highestAckedSeq \in c.highestAckedSeq .. d.lastSeqRecvd
    BY <1>2, <1>5
  <2>2. delivered[p] = delivered[p] \union
          {i \in decoded[Other(p)] : c.highestAckedSeq < i /\ i <= c.highestAckedSeq}
    <3>1. decoded[Other(p)] \subseteq Nat
      BY <1>1, <1>2 DEF Recorded
    <3>2. {i \in decoded[Other(p)] : c.highestAckedSeq < i /\ i <= c.highestAckedSeq} = {}
      BY <1>5, <3>1
    <3>3. QED
      BY <3>2
  <2>3. conn'[p].lastSendSeq - conn'[p].highestAckedSeq <= MAX_UNACKED
    BY <1>3, <1>5 DEF SendData, MaySend, WindowFull
  <2>4. QED
    BY <1>3, <1>4, <2>1, <2>2, <2>3 DEF SenderMoves
<1>10. Rests(Other(p))
  BY <1>1, <1>3, <1>4 DEF Rests
<1>11. QED
  BY <1>1, <1>6, <1>7, <1>8, <1>9, <1>10 DEF Moves

\* A packet with a body: verdicts for its receiver, a packet taken for its sender.
LEMMA BodyMoves ==
    ASSUME ChannelInv, ~Duplicates, NEW p \in Peers, NEW m \in net,
           NEW ok \in BOOLEAN, NEW flush \in BOOLEAN, ReceiveBody(p, m, FALSE, ok, flush)
    PROVE  Sound' /\ Distinct' /\ DeliveredMeansDecoded' /\ Moves
<1> DEFINE c == conn[p]   d == conn[Other(p)]
           c1 == Advanced(c, m)   c2 == Nack(ok, c1)   ns == SentBy(p, flush, c2)
           new == IF ok THEN {m.seq} ELSE {}
           taken == decoded[p] \union new
<1>1. /\ Other(p) \in Peers /\ Other(p) # p /\ Other(Other(p)) = p
      /\ \A q \in Peers : q = p \/ q = Other(p)
  BY PeerPairs
<1>2. /\ WindowInv /\ Recorded /\ VerdictOnce /\ Complete /\ Sound /\ Distinct
      /\ DeliveredMeansDecoded
  BY DEF ChannelInv
<1>3. /\ c \in Endpoint /\ d \in Endpoint /\ Link(c, d) /\ Link(d, c)
      /\ m \in Datagram /\ Flight(d, c, m) /\ Fresh(c, m) /\ InWindow(c, m)
      /\ m.from = Other(p) /\ conn \in [Peers -> Endpoint]
  BY <1>2, Delivery DEF ReceiveBody, WindowInv, WInv
<1>4. /\ conn' \in [Peers -> Endpoint]
      /\ conn'[p].highestAckedSeq = m.ack /\ conn'[p].lastSeqRecvd = m.seq
      /\ conn'[Other(p)] = conn[Other(p)]
      /\ conn'[p].ackMask = IF ok THEN c1.ackMask ELSE c1.ackMask \ {0}
  BY <1>2, BodyFields, ZenonT(30)
<1>5. /\ c.lastSeqRecvd < m.seq /\ m.seq <= d.lastSendSeq
      /\ m.seq \in Nat /\ m.ack \in Nat /\ c.highestAckedSeq <= m.ack
      /\ decoded' = [decoded EXCEPT ![p] = taken]
  <2>1. m.seq <= d.lastSendSeq /\ c.highestAckedSeq <= m.ack
    BY <1>3, Decode
  <2>2. /\ conn[p].lastSeqRecvd < m.seq
        /\ decoded' = [decoded EXCEPT ![p] = decoded[p] \union (IF ok THEN {m.seq} ELSE {})]
    <3>1. ASSUME NEW early \in BOOLEAN, ReceiveBody(p, m, early, ok, flush)
          PROVE  /\ conn[p].lastSeqRecvd < m.seq
                 /\ decoded' = [decoded EXCEPT ![p] = decoded[p] \union (IF ok THEN {m.seq} ELSE {})]
      BY <1>2, <3>1, BodyComplete
    <3>2. FALSE \in BOOLEAN
      OBVIOUS
    <3>3. QED
      BY <3>1, <3>2
  <2>3. m.seq \in Nat /\ m.ack \in Nat
    BY <1>3 DEF Datagram
  <2>4. QED
    BY <2>1, <2>2, <2>3
<1>6. /\ conn'[p] = AfterSend(p, flush, c2)
      /\ net' \subseteq (net \ {m}) \union ns
  <2>1. AfterSend(p, FALSE, c1) = c1 /\ SentBy(p, FALSE, c1) = {}
    BY DEF AfterSend, SentBy
  <2>2. conn' = [conn EXCEPT ![p] = AfterSend(p, flush, c2)]
    BY <2>1 DEF ReceiveBody
  <2>3. net' \in Transmit(net \ {m}, {} \union ns)
    BY <2>1 DEF ReceiveBody, Taken
  <2>4. net' \subseteq (net \ {m}) \union ({} \union ns)
    BY <2>3, Transmitted
  <2>5. QED
    BY <1>3, <2>2, <2>4
<1>7. /\ delivered' = [delivered EXCEPT ![p] = delivered[p] \union
           {i \in decoded[Other(p)] : c.highestAckedSeq < i /\ i <= m.ack}]
      /\ m.ack \in c.highestAckedSeq .. d.lastSeqRecvd
  BY <1>2, <1>3, TrueVerdicts DEF ReceiveBody
<1> HIDE DEF c, d, c1, c2, ns, new
<1>8. /\ c2 \in Endpoint /\ c2.lastSeqRecvd = m.seq /\ c2.lastSendSeq = c.lastSendSeq
      /\ c2.highestAckedSeq = m.ack
      /\ c2.ackMask = IF ok THEN c1.ackMask ELSE c1.ackMask \ {0}
      /\ Link(c2, d)
  <2>1. /\ c1 \in Endpoint /\ c1.lastSeqRecvd = m.seq /\ c1.lastSendSeq = c.lastSendSeq
        /\ c1.highestAckedSeq = m.ack
    BY <1>3, AdvancedFields DEF c1
  <2>2. Evolves(c, d, c1)
    BY <1>3, AdvanceEvolves DEF c1
  <2>3. QED
    BY <1>3, <2>1, <2>2, NackEvolves, ZenonT(30) DEF Evolves, c2
<1>9. Honest(d, m.seq, c2.ackMask, taken)
  <2>1. Honest(d, c.lastSeqRecvd, c.ackMask, decoded[p])
    BY <1>2 DEF Sound, c, d
  <2>2. Honest(d, m.seq, IF ok THEN Advanced(c, m).ackMask ELSE Advanced(c, m).ackMask \ {0},
               decoded[p] \union (IF ok THEN {m.seq} ELSE {}))
    BY <1>3, <2>1, BodyHonest
  <2>3. QED
    BY <1>8, <2>2 DEF c1, new
<1>10. Sound'
  <2>1. \A k \in ns : k.from = p /\ Honest(d, k.ack, k.mask, taken)
    BY <1>3, <1>8, <1>9, SentHonest DEF ns
  <2>2. \A k \in net' : k \in net \/ (k.from = p /\ Honest(d, k.ack, k.mask, taken))
    BY <1>6, <2>1
  <2>3. Honest(d, conn'[p].lastSeqRecvd, conn'[p].ackMask, taken)
    BY <1>4, <1>8, <1>9
  <2>4. QED
    BY <1>2, <1>4, <1>5, <2>2, <2>3, SoundStep DEF c, d
<1>11. Distinct'
  <2>1. /\ \A k \in ns : k.from = p /\ k.seq = c.lastSendSeq + 1
        /\ \A k, l \in ns : k = l
    BY <1>8, SentFields DEF SentBy, ns
  <2>2. \A k \in net \ {m} : k.from = Other(p) => k.seq # conn'[p].lastSeqRecvd
    BY <1>2, <1>3, <1>4 DEF Distinct
  <2> DEFINE left == net \ {m}
  <2>3. left \in SUBSET net /\ net' \subseteq left \union ns
    BY <1>6
  <2>4. \A k \in left : k.from = Other(p) => k.seq # conn'[p].lastSeqRecvd
    BY <2>2
  <2> HIDE DEF left
  <2>5. QED
    BY <1>2, <1>4, <2>1, <2>3, <2>4, DistinctStep DEF c
<1>12. /\ decoded'[p] = taken /\ decoded'[Other(p)] = decoded[Other(p)]
       /\ delivered'[Other(p)] = delivered[Other(p)]
       /\ delivered'[p] = delivered[p] \union
            {i \in decoded[Other(p)] : c.highestAckedSeq < i /\ i <= m.ack}
  BY <1>1, <1>2, <1>5, <1>7 DEF Recorded
<1>13. DeliveredMeansDecoded'
  <2>1. /\ delivered[p] \subseteq decoded[Other(p)]
        /\ delivered[Other(p)] \subseteq decoded[p]
    BY <1>1, <1>2 DEF DeliveredMeansDecoded
  <2>2. /\ delivered'[p] \subseteq decoded'[Other(p)]
        /\ delivered'[Other(p)] \subseteq decoded'[p]
    BY <1>12, <2>1
  <2>3. QED
    BY <1>1, <2>2 DEF DeliveredMeansDecoded
<1>14. SenderMoves(p)
  <2>1. PICK n \in {0, 1} : /\ conn'[p].lastSendSeq = c.lastSendSeq + n
                            /\ n > 0 => ~WindowFull(c2)
    <3>1. CASE flush /\ MaySend(p, c2)
      <4>1. conn'[p].lastSendSeq = c.lastSendSeq + 1 /\ ~WindowFull(c2)
        BY <1>6, <1>8, <3>1, StampedFields DEF AfterSend, MaySend
      <4>2. QED
        BY <4>1
    <3>2. CASE ~ (flush /\ MaySend(p, c2))
      <4>1. conn'[p].lastSendSeq = c.lastSendSeq + 0
        BY <1>3, <1>6, <1>8, <3>2 DEF AfterSend, Endpoint
      <4>2. QED
        BY <4>1
    <3>3. QED
      BY <3>1, <3>2
  <2>2. n > 0 => conn'[p].lastSendSeq - conn'[p].highestAckedSeq <= MAX_UNACKED
    <3>1. MAX_UNACKED \in Nat /\ c.lastSendSeq \in Nat
      BY <1>3, WindowAssumption DEF Endpoint
    <3>2. QED
      BY <1>4, <1>5, <1>8, <2>1, <3>1 DEF WindowFull
  <2>3. QED
    BY <1>4, <1>7, <1>12, <2>1, <2>2 DEF SenderMoves, c, d
<1>15. ReceiverMoves(Other(p))
  <2>1. m.seq \in c.lastSeqRecvd + 1 .. d.lastSendSeq
    BY <1>3, <1>5, SMTT(30) DEF Endpoint
  <2>2. decoded'[p] = IF ok THEN decoded[p] \union {m.seq} ELSE decoded[p]
    BY <1>12 DEF new
  <2>3. QED
    BY <1>1, <1>4, <1>12, <2>1, <2>2 DEF ReceiverMoves, c, d
<1>16. QED
  BY <1>1, <1>10, <1>11, <1>13, <1>14, <1>15 DEF Moves

LEMMA NextMoves ==
    Orderly /\ ChannelInv /\ [Next]_vars => Sound' /\ Distinct' /\ DeliveredMeansDecoded' /\ Moves
<1> SUFFICES ASSUME Orderly, ChannelInv, [Next]_vars
             PROVE  Sound' /\ Distinct' /\ DeliveredMeansDecoded' /\ Moves
  OBVIOUS
<1>1. ASSUME NEW p \in Peers, NEW m \in net, Discard(p, m)
      PROVE  Sound' /\ Distinct' /\ DeliveredMeansDecoded' /\ Moves
  <2>1. /\ conn' = conn /\ decoded' = decoded /\ delivered' = delivered
        /\ net' \subseteq net
    BY <1>1 DEF Discard
  <2>2. QED
    BY <2>1 DEF ChannelInv, Sound, Distinct, DeliveredMeansDecoded, Moves, Rests
<1>2. ASSUME NEW p \in Peers, NEW m \in net, ReceiveHeader(p, m)
      PROVE  FALSE
  <2>1. /\ m.from = Other(p) /\ Other(Other(p)) = p /\ m.type = "data"
        /\ Fresh(conn[p], m) /\ InWindow(conn[p], m)
    BY <1>2, PeerPairs DEF ReceiveHeader, ChannelInv, Complete
  <2>2. PkSeq(conn[p], m) = m.seq
    BY <2>1, Delivery, Decode DEF ChannelInv
  <2>3. m.seq = conn[p].lastSeqRecvd
    BY <1>2, <2>1, <2>2 DEF ReceiveHeader, HasNewBody
  <2>4. QED
    BY <2>1, <2>3 DEF ChannelInv, Distinct
<1>3. CASE UNCHANGED vars
  BY <1>3 DEF vars, ChannelInv, Sound, Distinct, DeliveredMeansDecoded, Moves, Rests
<1>4. ASSUME NEW m \in net, ClientReceivesBody(m)
      PROVE  Sound' /\ Distinct' /\ DeliveredMeansDecoded' /\ Moves
  <2>1. PICK early, ok, flush \in BOOLEAN :
          (early => HandlerSends) /\ ReceiveBody("client", m, early, ok, flush)
    BY <1>4 DEF ClientReceivesBody
  <2>2. early = FALSE
    BY <2>1 DEF Orderly
  <2>3. QED
    BY <2>1, <2>2, BodyMoves DEF Orderly, Peers
<1>5. ASSUME NEW m \in net, ServerReceivesBody(m)
      PROVE  Sound' /\ Distinct' /\ DeliveredMeansDecoded' /\ Moves
  BY <1>5, BodyMoves DEF ServerReceivesBody, Orderly, Peers
<1>6. ~Ping
  BY DEF Ping, Orderly
<1>7. QED
  BY <1>1, <1>2, <1>3, <1>4, <1>5, <1>6, SendMoves DEF Next

LEMMA InitSound == Init => Sound /\ Distinct /\ DeliveredMeansDecoded
<1> SUFFICES ASSUME Init PROVE Sound /\ Distinct /\ DeliveredMeansDecoded
  OBVIOUS
<1>1. \A p \in Peers : /\ decoded[p] = {} /\ Other(p) \in Peers /\ delivered[p] = {}
                       /\ conn[p].ackMask = {}
  BY PeerPairs DEF Init
<1>2. net = {}
  BY DEF Init
<1>3. QED
  BY <1>1, <1>2 DEF Sound, Distinct, DeliveredMeansDecoded, Honest

LEMMA ChannelInvariant == Orderly => (Spec => []ChannelInv /\ [][Moves]_vars)
<1> SUFFICES ASSUME Orderly PROVE Spec => []ChannelInv /\ [][Moves]_vars
  OBVIOUS
<1>1. ChannelInv /\ [Next]_vars => Sound' /\ Distinct' /\ DeliveredMeansDecoded' /\ Moves
  BY NextMoves
<1>2. WindowInv /\ Recorded /\ VerdictOnce /\ Complete /\ NoFalseLoss /\ [Next]_vars
        => Complete' /\ NoFalseLoss'
  BY NextComplete DEF Orderly
<1>3. ChannelInv /\ [Next]_vars => ChannelInv'
  BY <1>1, <1>2, NextWindow, NextVerdicts DEF ChannelInv
<1>4. Init => ChannelInv
  BY InitWindow, InitVerdicts, InitComplete, InitSound DEF ChannelInv
<1>5. QED
  BY <1>1, <1>3, <1>4, PTL DEF Spec

\* Whatever else happens, when the faults are absent a packet reported delivered
\* has been decoded by its receiver, in both directions (netconn.py 524-556, the
\* notify loop over the mask, and 568-577, the NACK of a body that did not decode).
THEOREM DeliveredMeansDecodedHolds == Orderly => (Spec => []DeliveredMeansDecoded)
<1> SUFFICES ASSUME Orderly PROVE Spec => []DeliveredMeansDecoded
  OBVIOUS
<1>1. ChannelInv => DeliveredMeansDecoded
  BY DEF ChannelInv
<1>2. QED
  BY <1>1, ChannelInvariant, PTL

\* Every step of the window is, for each direction, a step of PacketChannel or
\* none: packets are looked at in order and at most once, and the sender learns
\* of each of them what became of it.
THEOREM BothDirectionsHold == Orderly => (Spec => BothDirections)
<1> SUFFICES ASSUME Orderly PROVE Spec => BothDirections
  OBVIOUS
<1>1. Init => ToServer!ChannelInit /\ ToClient!ChannelInit
  BY DEF Init, ToServer!ChannelInit, ToClient!ChannelInit, Peers
<1>2. /\ Other("client") = "server" /\ Other("server") = "client"
      /\ "client" \in Peers /\ "server" \in Peers
  BY DEF Other, Peers
<1>3. [Moves]_vars => [ToServer!SenderStep \/ ToServer!ReceiverStep]_(ToServer!chan)
  <2> SUFFICES ASSUME [Moves]_vars
               PROVE  ToServer!SenderStep \/ ToServer!ReceiverStep \/ UNCHANGED ToServer!chan
    OBVIOUS
  <2>1. CASE SenderMoves("client")
    BY <1>2, <2>1 DEF SenderMoves, ToServer!SenderStep, ToServer!Judge, ToServer!Send
  <2>2. CASE ReceiverMoves("client")
    BY <1>2, <2>2 DEF ReceiverMoves, ToServer!ReceiverStep, ToServer!Take
  <2>3. CASE Rests("client")
    BY <1>2, <2>3 DEF Rests, ToServer!chan
  <2>4. CASE UNCHANGED vars
    BY <2>4 DEF vars, ToServer!chan
  <2>5. QED
    BY <1>2, <2>1, <2>2, <2>3, <2>4 DEF Moves
<1>4. [Moves]_vars => [ToClient!SenderStep \/ ToClient!ReceiverStep]_(ToClient!chan)
  <2> SUFFICES ASSUME [Moves]_vars
               PROVE  ToClient!SenderStep \/ ToClient!ReceiverStep \/ UNCHANGED ToClient!chan
    OBVIOUS
  <2>1. CASE SenderMoves("server")
    BY <1>2, <2>1 DEF SenderMoves, ToClient!SenderStep, ToClient!Judge, ToClient!Send
  <2>2. CASE ReceiverMoves("server")
    BY <1>2, <2>2 DEF ReceiverMoves, ToClient!ReceiverStep, ToClient!Take
  <2>3. CASE Rests("server")
    BY <1>2, <2>3 DEF Rests, ToClient!chan
  <2>4. CASE UNCHANGED vars
    BY <2>4 DEF vars, ToClient!chan
  <2>5. QED
    BY <1>2, <2>1, <2>2, <2>3, <2>4 DEF Moves
<1>5. QED
  BY <1>1, <1>3, <1>4, ChannelInvariant, PTL
    DEF Spec, BothDirections, ToServer!ChannelSpec, ToClient!ChannelSpec
=============================================================================
