------------------------- MODULE EventReceiverProofs -------------------------
(***************************************************************************)
(* Theorems about EventReceiver, for every number of events and packets.   *)
(*                                                                         *)
(* The duplicate filter compares event numbers modulo EVENT_SEQ_COUNT, so  *)
(* everything rests on how far an event in a packet can be from the        *)
(* expected one.  The invariant bounds that distance by the server's       *)
(* window in both directions (InReach, Spread); with SERVER_EVENT_WINDOW   *)
(* <= EVENT_SEQ_HALF the filter then decides as on full numbers.           *)
(* The verbs: a string event that is read again may only repeat what the   *)
(* table holds, which Learned says of everything that was consumed, while  *)
(* a slot has one meaning (TaughtOnce, TaughtFirst).                       *)
(* The move stream is about the same question, two ends that compare       *)
(* numbers which wrap: MovesInv bounds every difference they take.         *)
(***************************************************************************)
EXTENDS EventReceiver, MoveStream, SequenceTheorems, TLAPS

\* The hypothesis on the server: the 64/64 split of event numbers is enough.
Gentle == SERVER_EVENT_WINDOW <= EVENT_SEQ_HALF

\* The last packet the client has begun to read.
Current == IF Idle THEN received ELSE body.packet

\* No event in a packet is past the window of an unacknowledged one.
InReach ==
    \A i \in 1 .. sent : \A n \in cargo[i] : \A u \in Unacked :
        n < u + SERVER_EVENT_WINDOW

\* Nor was any event in this packet or an earlier one.
Spread ==
    \A i \in 1 .. sent, j \in 1 .. sent : \A n \in cargo[i], m \in cargo[j] :
        j <= i => m < n + SERVER_EVENT_WINDOW

\* What has been consumed came in the packets read so far.
Seen ==
    \A n \in 0 .. consumed - 1 : \E j \in 1 .. Current : n \in cargo[j]

\* An event rides where the server thinks it does.
Riding == \A n \in Numbers : rides[n] # 0 => n \in cargo[rides[n]]

\* What was taken, and what has been read of the body, has been consumed.
TakenConsumed == \A i \in taken : \A n \in cargo[i] : n < consumed

BodyInv ==
    \/ body = NoBody
    \/ /\ body.packet \in received + 1 .. sent
       /\ body.left \subseteq cargo[body.packet]
       /\ \A n \in cargo[body.packet] \ body.left : n < consumed

\* The commands handled are the commands consumed.
Complete ==
    {dispatched[j].event : j \in 1 .. Len(dispatched)} = {n \in Commands : n < consumed}

\* Only commands are cut off.
CutKnown == cut \subseteq Commands

EventInv ==
    /\ TypeOK /\ consumed <= Len(posted)
    /\ InReach /\ Spread /\ Seen /\ Riding /\ TakenConsumed /\ BodyInv
    /\ FreedMeansConsumed
    /\ Complete /\ InOrderOnce /\ CutKnown

-----------------------------------------------------------------------------
(* The filter decides as on full numbers *)

\* The difference modulo W of two numbers less than W apart.
LEMMA RemainderDistance ==
    ASSUME NEW W \in Nat \ {0}, NEW n \in Nat, NEW s \in Nat, n < s + W, s < n + W
    PROVE  /\ n <= s => ((s % W) - (n % W)) % W = s - n
           /\ s < n => ((s % W) - (n % W)) % W = (s - n) + W
<1> DEFINE a == n \div W   b == n % W   c == s \div W   d == s % W   r == (d - b) % W
<1>1. n = W * a + b /\ b \in 0 .. W - 1 /\ a \in Nat
  BY SMTT(30)
<1>2. s = W * c + d /\ d \in 0 .. W - 1 /\ c \in Nat
  BY SMTT(30)
<1>3. r = IF b <= d THEN d - b ELSE (d - b) + W
  <2> HIDE DEF b, d
  <2>1. -W < d - b /\ d - b < W /\ d - b \in Int
    BY <1>1, <1>2
  <2>2. \A x \in Int : -W < x /\ x < W => x % W = IF x >= 0 THEN x ELSE x + W
    BY SMTT(30)
  <2>3. QED
    BY <2>1, <2>2, <1>1, <1>2
<1> SUFFICES /\ n <= s => r = s - n
             /\ s < n => r = (s - n) + W
  OBVIOUS
<1> HIDE DEF a, b, c, d, r
<1>4. W * (c - a) = W * c - W * a /\ W * c \in Int /\ W * a \in Int
  BY <1>1, <1>2, SMTT(30)
<1>5. CASE c = a
  BY <1>1, <1>2, <1>3, <1>5
<1>6. CASE c = a + 1
  <2>1. W * c = W * a + W
    BY <1>4, <1>6, <1>1
  <2>2. QED
    BY <2>1, <1>1, <1>2, <1>3
<1>7. CASE a = c + 1
  <2>1. W * a = W * c + W
    BY <1>7, <1>2, SMTT(30)
  <2>2. QED
    BY <2>1, <1>1, <1>2, <1>3
<1>8. ~(c >= a + 2)
  <2>1. c >= a + 2 => W * (c - a) >= W * 2
    BY <1>1, <1>2, SMTT(30)
  <2>2. QED
    BY <2>1, <1>1, <1>2, <1>4
<1>9. ~(a >= c + 2)
  <2>1. a >= c + 2 => W * a >= W * (c + 2) /\ W * (c + 2) = W * c + W + W
    BY <1>1, <1>2, SMTT(30)
  <2>2. QED
    BY <2>1, <1>1, <1>2, <1>4
<1>10. QED
  BY <1>5, <1>6, <1>7, <1>8, <1>9, <1>1, <1>2

\* Within the window on both sides, the 7-bit distance is zero exactly for the
\* expected event, and what is not ahead has been consumed already.
LEMMA RelExact ==
    ASSUME Gentle, consumed \in Nat, NEW n \in Nat,
           n < consumed + SERVER_EVENT_WINDOW, consumed <= n + SERVER_EVENT_WINDOW
    PROVE  /\ Expected(n) => n = consumed
           /\ ~Ahead(n) /\ ~Expected(n) => n < consumed
<1> DEFINE H == EVENT_SEQ_HALF   C == EVENT_SEQ_COUNT
<1>1. /\ H \in Nat \ {0} /\ C \in Nat \ {0} /\ C = 2 * H
      /\ SERVER_EVENT_WINDOW \in Nat /\ SERVER_EVENT_WINDOW <= H
  BY EventAssumption DEF Gentle
<1> HIDE DEF H, C
<1>2. consumed <= n + C /\ n < consumed + C /\ consumed < n + C
  BY <1>1
<1>3. /\ consumed <= n => ((n % C) - (consumed % C)) % C = n - consumed
      /\ n < consumed => ((n % C) - (consumed % C)) % C = (n - consumed) + C
  BY <1>1, <1>2, RemainderDistance
<1>4. Rel(n) = ((n % C) - (consumed % C)) % C
  BY DEF Rel, C
<1>5. CASE consumed <= n
  BY <1>1, <1>3, <1>4, <1>5 DEF Expected, Ahead, H
<1>6. CASE n < consumed
  BY <1>1, <1>3, <1>4, <1>6 DEF Expected, Ahead, H
<1>7. QED
  BY <1>5, <1>6

\* The events of the body being read are within the window.
LEMMA BodyReach ==
    ASSUME EventInv, ~Idle, NEW n \in body.left
    PROVE  /\ n \in Numbers /\ n \in cargo[body.packet] /\ body.packet \in 1 .. sent
           /\ n < consumed + SERVER_EVENT_WINDOW
           /\ consumed <= n + SERVER_EVENT_WINDOW
<1>1. /\ body.packet \in 1 .. sent /\ body.left \subseteq cargo[body.packet]
      /\ sent \in Nat /\ body.packet \in Nat
      /\ cargo[body.packet] \subseteq Numbers /\ consumed \in Nat
      /\ Numbers \subseteq Nat /\ Current = body.packet
      /\ SERVER_EVENT_WINDOW \in Nat \ {0} /\ consumed <= Len(posted) /\ Len(posted) \in Nat
  BY EventAssumption DEF EventInv, TypeOK, BodyInv, Idle, NoBody, Current, Numbers
<1>2. n \in Numbers /\ n \in cargo[body.packet] /\ n \in Nat
  BY <1>1
<1>3. n < consumed + SERVER_EVENT_WINDOW
  <2>1. CASE consumed = Len(posted)
    BY <1>1, <1>2, <2>1 DEF Numbers
  <2>2. CASE consumed < Len(posted)
    <3>1. consumed \in Unacked
      BY <1>1, <2>2 DEF EventInv, FreedMeansConsumed, Unacked, Numbers
    <3>2. QED
      BY <1>1, <1>2, <3>1 DEF EventInv, InReach
  <2>3. QED
    BY <1>1, <2>1, <2>2
<1>4. consumed <= n + SERVER_EVENT_WINDOW
  <2>1. CASE consumed = 0
    BY <1>1, <1>2, <2>1
  <2>2. CASE consumed # 0
    <3>1. consumed - 1 \in 0 .. consumed - 1
      BY <1>1, <2>2
    <3>2. PICK j \in 1 .. body.packet : consumed - 1 \in cargo[j]
      BY <1>1, <3>1 DEF EventInv, Seen
    <3>3. j \in 1 .. sent /\ j <= body.packet
      BY <1>1
    <3>4. consumed - 1 < n + SERVER_EVENT_WINDOW
      BY <1>1, <1>2, <3>2, <3>3 DEF EventInv, Spread
    <3>5. QED
      BY <1>1, <1>2, <3>4
  <2>3. QED
    BY <2>1, <2>2
<1>5. QED
  BY <1>1, <1>2, <1>3, <1>4

-----------------------------------------------------------------------------
(* Sequences of dispatched commands *)

\* A sequence over a set is one over every larger set.
LEMMA SeqGrows ==
    ASSUME NEW S, NEW T, S \subseteq T, NEW q \in Seq(S)
    PROVE  q \in Seq(T)
<1>1. Len(q) \in Nat /\ q \in [1 .. Len(q) -> S]
  OBVIOUS
<1>2. q \in [1 .. Len(q) -> T]
  BY <1>1
<1>3. QED
  BY <1>1, <1>2, SeqDef

\* Every dispatched command is one of the events.
LEMMA CallsAreEvents ==
    ASSUME TypeOK
    PROVE  \A k \in 1 .. Len(dispatched) : dispatched[k].event \in Numbers
<1> DEFINE Calls == [event : Numbers, text : Texts \union {NoText}]
<1>1. dispatched \in Seq(Calls)
  BY DEF TypeOK
<1>2. \A c \in Calls : c.event \in Numbers
  OBVIOUS
<1> HIDE DEF Calls
<1>3. \A k \in 1 .. Len(dispatched) : dispatched[k] \in Calls
  BY <1>1
<1>4. QED
  BY <1>2, <1>3

-----------------------------------------------------------------------------
(* Steps of the server *)

\* Numbering another event disturbs nothing that is known of the earlier ones.
LEMMA PostKeeps == EventInv /\ Post => EventInv'
<1> SUFFICES ASSUME EventInv, Post PROVE EventInv'
  OBVIOUS
<1> USE DEF EventInv
<1> DEFINE Evt == [kind : {"string", "command"}, slot : Slots, text : Texts]
<1>1. PICK ev \in Evt : posted' = Append(posted, ev)
  BY DEF Post
<1>2. posted \in Seq(Evt) /\ Len(posted) \in Nat
  BY DEF TypeOK
<1>3. /\ posted' \in Seq(Evt) /\ Len(posted') = Len(posted) + 1
      /\ \A n \in Numbers : Event(n)' = Event(n)
  BY <1>1, <1>2 DEF Numbers, Event
<1> HIDE DEF Evt
<1>4. /\ Numbers' = 0 .. Len(posted) /\ Numbers \subseteq Numbers'
      /\ \A n \in Numbers' : n \in Numbers \/ n = Len(posted)
      /\ Numbers \subseteq Nat
  BY <1>2, <1>3 DEF Numbers
<1>5. /\ UNCHANGED <<sent, received, taken, judged, delivered, acked, cargo>>
      /\ UNCHANGED <<consumed, recvTable, dispatched, cut, body>>
      /\ rides' = [n \in 0 .. Len(posted) |-> IF n \in Numbers THEN rides[n] ELSE 0]
  BY DEF Post, chan
<1>6. TypeOK'
  <2>1. rides' \in [Numbers' -> 0 .. sent]
    BY <1>4, <1>5 DEF TypeOK
  <2>2. cargo' \in [1 .. sent -> SUBSET Numbers'] /\ acked' \subseteq Numbers'
    BY <1>4, <1>5 DEF TypeOK
  <2>3. dispatched' \in Seq([event : Numbers', text : Texts \union {NoText}])
    <3>1. /\ dispatched' = dispatched
          /\ dispatched \in Seq([event : Numbers, text : Texts \union {NoText}])
      BY <1>5 DEF TypeOK
    <3>2. QED
      <4>1. [event : Numbers, text : Texts \union {NoText}]
              \subseteq [event : Numbers', text : Texts \union {NoText}]
        BY <1>4
      <4>2. QED
        BY <3>1, <4>1, SeqGrows
  <2>4. /\ body' \in [packet : 0 .. sent, left : SUBSET Numbers']
        /\ cut' \subseteq Numbers'
    BY <1>4, <1>5 DEF TypeOK
  <2>5. posted' \in Seq([kind : {"string", "command"}, slot : Slots, text : Texts])
    BY <1>3 DEF Evt
  <2>6. QED
    BY <1>5, <2>1, <2>2, <2>3, <2>4, <2>5 DEF TypeOK
<1>7. Unacked' = Unacked \union {Len(posted)}
  BY <1>2, <1>4, <1>5 DEF Unacked, TypeOK, Numbers
<1>8. InReach'
  <2>1. SUFFICES ASSUME NEW i \in 1 .. sent, NEW n \in cargo[i]
                 PROVE  n < Len(posted) + SERVER_EVENT_WINDOW
    BY <1>5, <1>7 DEF InReach
  <2>2. n \in 0 .. Len(posted) - 1
    BY DEF TypeOK, Numbers
  <2>3. QED
    BY <1>2, <2>2, EventAssumption
<1>9. Spread' /\ Seen' /\ TakenConsumed' /\ BodyInv' /\ FreedMeansConsumed'
  BY <1>5 DEF Spread, Seen, TakenConsumed, BodyInv, FreedMeansConsumed, Current, Idle
<1>10. Riding'
  BY <1>2, <1>4, <1>5 DEF Riding, Numbers
<1>11. /\ consumed' <= Len(posted')
       /\ \A c \in 0 .. Len(posted) :
            {n \in Commands' : n < c} = {n \in Commands : n < c}
  <2>1. consumed \in Nat /\ consumed' = consumed
    BY <1>5 DEF TypeOK
  <2>2. \A n : n \in Numbers' /\ n < Len(posted) => n \in Numbers
    BY <1>2, <1>4 DEF Numbers
  <2>3. ASSUME NEW c \in 0 .. Len(posted)
        PROVE  \A n : n \in Commands' /\ n < c <=> n \in Commands /\ n < c
    <3>1. \A n \in Numbers : n \in Commands' <=> n \in Commands
      BY <1>3, <1>4 DEF Commands
    <3>2. \A n : n \in Commands' /\ n < c => n \in Numbers
      BY <1>2, <1>4, <2>3 DEF Commands, Numbers
    <3>3. \A n : n \in Commands => n \in Numbers
      BY DEF Commands
    <3>4. QED
      BY <3>1, <3>2, <3>3
  <2>4. QED
    BY <1>2, <1>3, <2>1, <2>3
<1>12. Complete' /\ InOrderOnce'
  <2>1. \A k \in 1 .. Len(dispatched) : dispatched[k].event \in 0 .. Len(posted)
    BY <1>2, CallsAreEvents DEF Numbers
  <2>2. consumed \in 0 .. Len(posted)
    BY <1>2 DEF TypeOK
  <2>3. Complete'
    BY <1>5, <1>11, <2>2 DEF Complete
  <2>4. InOrderOnce'
    BY <1>5, <1>11, <2>1 DEF InOrderOnce
  <2>5. QED
    BY <2>3, <2>4
<1>13. CutKnown'
  BY <1>3, <1>4, <1>5 DEF CutKnown, Commands
<1>14. QED
  BY <1>6, <1>8, <1>9, <1>10, <1>11, <1>12, <1>13

\* A new packet carries unacknowledged events only, all of them in the window.
LEMMA SendKeeps == EventInv /\ ServerSends => EventInv'
<1> SUFFICES ASSUME EventInv, ServerSends PROVE EventInv'
  OBVIOUS
<1> USE DEF EventInv
<1>1. PICK last \in Ready :
        /\ cargo' = [i \in 1 .. sent + 1 |->
                       IF i <= sent THEN cargo[i] ELSE {n \in Ready : n <= last}]
        /\ rides' = [n \in Numbers |->
                       IF n \in {k \in Ready : k <= last} THEN sent + 1 ELSE rides[n]]
  BY DEF ServerSends
<1> DEFINE chosen == {n \in Ready : n <= last}
<1>2. /\ UNCHANGED <<posted, acked, consumed, recvTable, dispatched, cut, body>>
      /\ UNCHANGED <<received, taken, judged>> /\ sent' = sent + 1
  BY DEF ServerSends, SenderStep
<1>3. delivered' \subseteq taken /\ sent \in Nat
  BY DEF ServerSends, SenderStep, Judge, TypeOK
<1>4. /\ Numbers' = Numbers /\ Unacked' = Unacked /\ Numbers \subseteq Nat
      /\ chosen \subseteq Unacked /\ chosen \subseteq Numbers /\ Unacked \subseteq Numbers
      /\ \A n \in chosen, u \in Unacked : n < u + SERVER_EVENT_WINDOW
  BY <1>2 DEF Numbers, Unacked, Ready
<1>5. /\ \A i \in 1 .. sent : cargo'[i] = cargo[i]
      /\ cargo'[sent + 1] = chosen
      /\ \A i \in 1 .. sent' : i \in 1 .. sent \/ i = sent + 1
      /\ \A n \in Numbers : rides'[n] = IF n \in chosen THEN sent + 1 ELSE rides[n]
  BY <1>1, <1>2, <1>3
<1>6. /\ cargo' \in [1 .. sent' -> SUBSET Numbers]
      /\ rides' \in [Numbers -> 0 .. sent']
  BY <1>1, <1>2, <1>3, <1>4 DEF TypeOK
<1> HIDE DEF chosen
<1>7. TypeOK'
  <2>1. received \in 0 .. sent' /\ body \in [packet : 0 .. sent', left : SUBSET Numbers]
    BY <1>2, <1>3 DEF TypeOK
  <2>2. delivered' \subseteq taken' /\ sent' \in Nat
    BY <1>2, <1>3
  <2>3. QED
    BY <1>2, <1>4, <1>6, <2>1, <2>2 DEF TypeOK
<1>8. InReach'
  BY <1>2, <1>4, <1>5 DEF InReach
<1>9. Spread'
  <2>1. SUFFICES ASSUME NEW i \in 1 .. sent', NEW j \in 1 .. sent', j <= i,
                        NEW n \in cargo'[i], NEW m \in cargo'[j]
                 PROVE  m < n + SERVER_EVENT_WINDOW
    BY DEF Spread
  <2>2. CASE i \in 1 .. sent
    <3>1. j \in 1 .. sent
      BY <2>1, <2>2, <1>2, <1>3
    <3>2. QED
      BY <2>1, <2>2, <3>1, <1>5 DEF Spread
  <2>3. CASE i = sent + 1
    <3>1. n \in chosen /\ n \in Unacked
      BY <2>3, <1>4, <1>5
    <3>2. CASE j \in 1 .. sent
      BY <3>1, <3>2, <1>5 DEF InReach
    <3>3. CASE j = sent + 1
      BY <3>1, <3>3, <1>4, <1>5
    <3>4. QED
      BY <3>2, <3>3, <1>5
  <2>4. QED
    BY <2>2, <2>3, <1>5
<1>10. Current' = Current /\ Current \in 0 .. sent
  BY <1>2, <1>3 DEF Current, Idle, TypeOK
<1>11. Seen'
  <2>1. \A j \in 1 .. Current : j \in 1 .. sent
    BY <1>3, <1>10
  <2>2. QED
    BY <1>2, <1>5, <1>10, <2>1 DEF Seen
<1>12. Riding'
  BY <1>3, <1>4, <1>5 DEF Riding, TypeOK
<1>13. TakenConsumed'
  <2>1. \A i \in taken : i \in 1 .. sent
    BY <1>3 DEF TypeOK
  <2>2. QED
    BY <1>2, <1>5, <2>1 DEF TakenConsumed
<1>14. BodyInv'
  BY <1>2, <1>3, <1>5 DEF BodyInv, NoBody, TypeOK
<1>15. FreedMeansConsumed' /\ Complete' /\ InOrderOnce' /\ consumed' <= Len(posted')
  BY <1>2, <1>4 DEF FreedMeansConsumed, Complete, InOrderOnce, Commands, Event
<1>16. CutKnown'
  BY <1>2, <1>4 DEF CutKnown, Commands, Event
<1>17. QED
  BY <1>7, <1>8, <1>9, <1>11, <1>12, <1>13, <1>14, <1>15, <1>16

\* Freed events were in taken packets, and those have been consumed.
LEMMA NotifyKeeps == EventInv /\ ServerNotified => EventInv'
<1> SUFFICES ASSUME EventInv, ServerNotified PROVE EventInv'
  OBVIOUS
<1> USE DEF EventInv
<1>1. /\ UNCHANGED <<posted, cargo, consumed, recvTable, dispatched, cut, body>>
      /\ UNCHANGED <<received, taken, sent>>
      /\ acked' = acked \union {n \in Unacked : rides[n] \in delivered'}
      /\ rides' = [n \in Numbers |->
                     IF n \notin acked /\ rides[n] \in 1 .. judged' THEN 0 ELSE rides[n]]
  BY DEF ServerNotified, SenderStep
<1>2. PICK k \in judged .. received : Judge(k)
  BY DEF ServerNotified, SenderStep
<1>3. judged' \in 0 .. received /\ delivered' \subseteq taken
  <2>1. sent \in Nat /\ received \in 0 .. sent /\ judged \in 0 .. received
    BY DEF TypeOK
  <2>2. judged' \in 0 .. received
    BY <1>2, <2>1 DEF Judge
  <2>3. delivered' \subseteq taken
    BY <1>2 DEF Judge, TypeOK
  <2>4. QED
    BY <2>2, <2>3
<1>4. /\ Numbers' = Numbers /\ Unacked' \subseteq Unacked
      /\ acked' \subseteq Numbers
  BY <1>1 DEF Numbers, Unacked, TypeOK
<1>5. rides' \in [Numbers -> 0 .. sent]
  BY <1>1 DEF TypeOK
<1>6. TypeOK'
  BY <1>1, <1>3, <1>4, <1>5 DEF TypeOK
<1>7. InReach' /\ Spread' /\ Seen' /\ TakenConsumed' /\ BodyInv'
  BY <1>1, <1>4 DEF InReach, Spread, Seen, TakenConsumed, BodyInv, Current, Idle
<1>8. Riding'
  BY <1>1, <1>4 DEF Riding
<1>9. FreedMeansConsumed'
  <2>1. SUFFICES ASSUME NEW n \in Unacked, rides[n] \in delivered' PROVE n < consumed
    BY <1>1 DEF FreedMeansConsumed
  <2>2. n \in Numbers /\ rides[n] \in taken
    BY <2>1, <1>3 DEF Unacked
  <2>3. rides[n] # 0
    BY <2>2 DEF TypeOK
  <2>4. n \in cargo[rides[n]]
    BY <2>2, <2>3 DEF Riding
  <2>5. QED
    BY <2>2, <2>4 DEF TakenConsumed
<1>10. Complete' /\ InOrderOnce' /\ consumed' <= Len(posted')
  BY <1>1, <1>4 DEF Complete, InOrderOnce, Commands, Event
<1>11. CutKnown'
  BY <1>1, <1>4 DEF CutKnown, Commands, Event
<1>12. QED
  BY <1>6, <1>7, <1>8, <1>9, <1>10, <1>11

-----------------------------------------------------------------------------
(* Steps of the client *)

LEMMA BeginKeeps == EventInv /\ BeginBody => EventInv'
<1> SUFFICES ASSUME EventInv, BeginBody PROVE EventInv'
  OBVIOUS
<1> USE DEF EventInv
<1>1. PICK i \in received + 1 .. sent : body' = [packet |-> i, left |-> cargo[i]]
  BY DEF BeginBody
<1>2. /\ UNCHANGED <<sent, received, taken, judged, delivered>>
      /\ UNCHANGED <<posted, rides, acked, cargo, consumed, recvTable, dispatched, cut>>
      /\ Idle
  BY DEF BeginBody, chan
<1>3. i \in 1 .. sent /\ i > received /\ received \in Nat /\ sent \in Nat
  BY DEF TypeOK
<1>4. Numbers' = Numbers /\ Unacked' = Unacked /\ cargo[i] \in SUBSET Numbers
  BY <1>2, <1>3 DEF Numbers, Unacked, TypeOK
<1>5. TypeOK'
  <2>1. body' \in [packet : 0 .. sent, left : SUBSET Numbers]
    BY <1>1, <1>3, <1>4
  <2>2. QED
    BY <1>2, <1>4, <2>1 DEF TypeOK
<1>6. InReach' /\ Spread' /\ Riding' /\ TakenConsumed' /\ FreedMeansConsumed'
  BY <1>2, <1>4 DEF InReach, Spread, Riding, TakenConsumed, FreedMeansConsumed
<1>7. Seen'
  <2>1. Current = received /\ Current' = i
    BY <1>1, <1>2, <1>3 DEF Current, Idle
  <2>2. \A j \in 1 .. received : j \in 1 .. i
    BY <1>3
  <2>3. QED
    BY <1>2, <2>1, <2>2 DEF Seen
<1>8. BodyInv'
  BY <1>1, <1>2 DEF BodyInv
<1>9. Complete' /\ InOrderOnce' /\ consumed' <= Len(posted')
  BY <1>2, <1>4 DEF Complete, InOrderOnce, Commands, Event
<1>10. CutKnown'
  BY <1>2, <1>4 DEF CutKnown, Commands, Event
<1>11. QED
  BY <1>5, <1>6, <1>7, <1>8, <1>9, <1>10

\* However a body ends: it is taken only when all of it has been read.
LEMMA EndKeeps ==
    ASSUME EventInv, ~Idle, NEW ok \in BOOLEAN, ok => body.left = {},
           Take(body.packet, ok), body' = NoBody, cut' \subseteq Commands,
           UNCHANGED <<posted, rides, acked, cargo, consumed, recvTable, dispatched>>
    PROVE  EventInv'
<1> USE DEF EventInv
<1>1. /\ UNCHANGED <<sent, judged, delivered>> /\ received' = body.packet
      /\ taken' = IF ok THEN taken \union {body.packet} ELSE taken
  BY DEF Take
<1>2. /\ body.packet \in received + 1 .. sent
      /\ \A n \in cargo[body.packet] \ body.left : n < consumed
      /\ sent \in Nat /\ received \in Nat
  BY DEF BodyInv, Idle, NoBody, TypeOK
<1>3. /\ Numbers' = Numbers /\ Unacked' = Unacked /\ Commands' = Commands
      /\ CutKnown' /\ cut' \subseteq Numbers
  BY DEF Numbers, Unacked, Commands, Event, CutKnown
<1>4. TypeOK'
  <2>1. received' \in 0 .. sent /\ judged \in 0 .. received'
    BY <1>1, <1>2 DEF TypeOK
  <2>2. taken' \subseteq 1 .. received'
    <3>1. taken \subseteq 1 .. received
      BY DEF TypeOK
    <3>2. \A i \in 1 .. received : i \in 1 .. received'
      BY <1>1, <1>2
    <3>3. body.packet \in 1 .. received'
      BY <1>1, <1>2
    <3>4. QED
      BY <1>1, <3>1, <3>2, <3>3
  <2>3. delivered \subseteq taken' /\ NoBody \in [packet : 0 .. sent, left : SUBSET Numbers]
    BY <1>1, <1>2 DEF TypeOK, NoBody
  <2>4. QED
    BY <1>1, <1>3, <2>1, <2>2, <2>3 DEF TypeOK
<1>5. InReach' /\ Spread' /\ Riding' /\ FreedMeansConsumed' /\ BodyInv'
  BY <1>1, <1>3 DEF InReach, Spread, Riding, FreedMeansConsumed, BodyInv
<1>6. Seen'
  <2>1. Current = body.packet /\ Current' = body.packet
    BY <1>1 DEF Current, Idle, NoBody
  <2>2. QED
    BY <2>1 DEF Seen
<1>7. TakenConsumed'
  BY <1>1, <1>2 DEF TakenConsumed
<1>8. Complete' /\ InOrderOnce' /\ consumed' <= Len(posted')
  BY <1>3 DEF Complete, InOrderOnce, Commands, Event
<1>9. QED
  BY <1>3, <1>4, <1>5, <1>6, <1>7, <1>8

\* An event is dispatched only if it is the next one in full numbers.
LEMMA ReadKeeps ==
    ASSUME EventInv, Gentle, NEW n \in body.left, ReadEvent(n)
    PROVE  EventInv'
<1> USE DEF EventInv
<1>1. ~Idle /\ ~Ahead(n)
  BY DEF ReadEvent, NextInBody
<1>2. /\ n \in Numbers /\ n \in cargo[body.packet] /\ body.packet \in 1 .. sent
      /\ n < consumed + SERVER_EVENT_WINDOW /\ consumed <= n + SERVER_EVENT_WINDOW
  BY <1>1, BodyReach
<1>3. n \in Nat /\ consumed \in Nat /\ Len(posted) \in Nat /\ n < Len(posted)
  BY <1>2 DEF TypeOK, Numbers
<1>4. /\ Expected(n) => n = consumed
      /\ ~Expected(n) => n < consumed
  BY <1>1, <1>2, <1>3, RelExact
<1>5. /\ UNCHANGED <<sent, received, taken, judged, delivered>>
      /\ UNCHANGED <<posted, rides, acked, cargo, cut>>
      /\ recvTable' = Mapped(n)
      /\ dispatched' = IF Expected(n) THEN Handled(n) ELSE dispatched
      /\ consumed' = IF Expected(n) THEN consumed + 1 ELSE consumed
      /\ body' = [body EXCEPT !.left = @ \ {n}]
  BY DEF ReadEvent, chan
<1>6. /\ Numbers' = Numbers /\ Unacked' = Unacked /\ Commands' = Commands
  BY <1>5 DEF Numbers, Unacked, Commands, Event
<1>7. /\ Event(n) \in [kind : {"string", "command"}, slot : Slots, text : Texts]
      /\ Event(n).slot \in Slots /\ Event(n).text \in Texts
  <2> DEFINE Evt == [kind : {"string", "command"}, slot : Slots, text : Texts]
  <2>1. posted \in Seq(Evt)
    BY DEF TypeOK
  <2>2. \A e \in Evt : e.slot \in Slots /\ e.text \in Texts
    OBVIOUS
  <2> HIDE DEF Evt
  <2>3. posted[n + 1] \in Evt
    BY <1>3, <2>1
  <2>4. QED
    BY <2>2, <2>3 DEF Event, Evt
<1>8. consumed' \in Nat /\ consumed <= consumed' /\ n < consumed' /\ consumed' <= Len(posted)
  BY <1>3, <1>4, <1>5
<1>9. recvTable' \in [Slots -> Texts \union {NoText}]
  BY <1>5, <1>7 DEF Mapped, TypeOK
<1>10. /\ body'.packet = body.packet /\ body'.left = body.left \ {n}
       /\ body' \in [packet : 0 .. sent, left : SUBSET Numbers]
  BY <1>5 DEF TypeOK
<1> DEFINE Calls == [event : Numbers, text : Texts \union {NoText}]
<1> DEFINE call == [event |-> n, text |-> recvTable[Event(n).slot]]
<1>11. dispatched \in Seq(Calls) /\ call \in Calls
  BY <1>2, <1>7 DEF TypeOK
<1>12. call.event = n
  OBVIOUS
<1>13. \/ dispatched' = dispatched /\ ~(Expected(n) /\ n \in Commands)
       \/ dispatched' = Append(dispatched, call) /\ Expected(n) /\ n \in Commands
  BY <1>2, <1>5 DEF Handled, Commands
<1> HIDE DEF Calls, call
<1>14. dispatched' \in Seq(Calls)
  BY <1>11, <1>13
<1>15. TypeOK'
  BY <1>5, <1>6, <1>8, <1>9, <1>10, <1>14 DEF TypeOK, Calls
<1>16. InReach' /\ Spread' /\ Riding'
  BY <1>5, <1>6 DEF InReach, Spread, Riding
<1>17. FreedMeansConsumed' /\ TakenConsumed'
  <2>1. \A m \in Nat : m < consumed => m < consumed'
    BY <1>3, <1>8
  <2>2. \A m \in acked : m \in Nat
    BY DEF TypeOK, Numbers
  <2>3. \A i \in taken : \A m \in cargo[i] : m \in Nat
    BY DEF TypeOK, Numbers
  <2>4. QED
    BY <1>5, <2>1, <2>2, <2>3 DEF FreedMeansConsumed, TakenConsumed
<1>18. Current' = Current /\ Current = body.packet /\ ~Idle'
  BY <1>1, <1>5, <1>10 DEF Current, Idle
<1>19. Seen'
  <2>1. \A m \in 0 .. consumed' - 1 : m \in 0 .. consumed - 1 \/ m = n
    BY <1>3, <1>4, <1>5
  <2>2. body.packet \in 1 .. body.packet
    BY <1>2 DEF TypeOK
  <2>3. QED
    BY <1>2, <1>5, <1>18, <2>1, <2>2 DEF Seen
<1>20. BodyInv'
  <2>1. /\ body.packet \in received + 1 .. sent /\ body.left \subseteq cargo[body.packet]
        /\ \A m \in cargo[body.packet] \ body.left : m < consumed
    BY <1>1 DEF BodyInv, Idle, NoBody
  <2>2. \A m \in cargo[body.packet] : m \in Nat
    BY <1>2 DEF TypeOK, Numbers
  <2>3. \A m \in cargo[body.packet] \ (body.left \ {n}) : m < consumed'
    BY <1>3, <1>8, <2>1, <2>2
  <2>4. QED
    BY <1>5, <1>10, <2>1, <2>3 DEF BodyInv
<1>21. Complete' /\ InOrderOnce'
  <2>1. CASE dispatched' = dispatched /\ ~(Expected(n) /\ n \in Commands)
    <3>1. {m \in Commands : m < consumed'} = {m \in Commands : m < consumed}
      BY <2>1, <1>3, <1>4, <1>5 DEF Commands, Numbers
    <3>2. QED
      BY <2>1, <3>1, <1>5, <1>6 DEF Complete, InOrderOnce
  <2>2. CASE dispatched' = Append(dispatched, call) /\ Expected(n) /\ n \in Commands
    <3>1. /\ Len(dispatched) \in Nat /\ Len(dispatched') = Len(dispatched) + 1
          /\ \A j \in 1 .. Len(dispatched) : dispatched'[j] = dispatched[j]
          /\ dispatched'[Len(dispatched) + 1] = call
      BY <2>2, <1>11
    <3>2. {m \in Commands : m < consumed'} = {m \in Commands : m < consumed} \union {n}
      BY <2>2, <1>3, <1>4, <1>5 DEF Commands, Numbers
    <3>3. {dispatched'[j].event : j \in 1 .. Len(dispatched')}
            = {dispatched[j].event : j \in 1 .. Len(dispatched)} \union {n}
      BY <3>1, <1>12
    <3>4. Complete'
      BY <3>2, <3>3, <1>6 DEF Complete
    <3>5. ASSUME NEW k \in 1 .. Len(dispatched')
          PROVE  {dispatched'[j].event : j \in 1 .. k - 1}
                   = {m \in Commands : m < dispatched'[k].event}
      <4>1. \A j \in 1 .. k - 1 : dispatched'[j] = dispatched[j]
        BY <3>1
      <4>2. {dispatched'[j].event : j \in 1 .. k - 1}
              = {dispatched[j].event : j \in 1 .. k - 1}
        BY <4>1
      <4>3. CASE k \in 1 .. Len(dispatched)
        BY <4>2, <4>3, <3>1 DEF InOrderOnce
      <4>4. CASE k = Len(dispatched) + 1
        BY <4>2, <4>4, <3>1, <1>4, <1>12, <2>2 DEF Complete
      <4>5. QED
        BY <3>1, <4>3, <4>4
    <3>6. QED
      BY <3>4, <3>5, <1>6 DEF InOrderOnce
  <2>3. QED
    BY <1>13, <2>1, <2>2
<1>22. CutKnown'
  BY <1>5, <1>6 DEF CutKnown
<1>23. QED
  BY <1>5, <1>8, <1>15, <1>16, <1>17, <1>19, <1>20, <1>21, <1>22

-----------------------------------------------------------------------------
(* Theorems *)

LEMMA InitEvents == Init => EventInv
<1> SUFFICES ASSUME Init PROVE EventInv
  OBVIOUS
<1>1. Len(posted) = 0 /\ Numbers = {} /\ Commands = {}
  BY DEF Init, Numbers, Commands
<1>2. TypeOK
  BY <1>1 DEF Init, ChannelInit, TypeOK, NoBody
<1>3. InReach /\ Spread /\ Seen /\ Riding /\ TakenConsumed /\ BodyInv
  BY <1>1 DEF Init, ChannelInit, InReach, Spread, Seen, Riding, TakenConsumed, BodyInv
<1>4. /\ FreedMeansConsumed /\ Complete /\ InOrderOnce /\ CutKnown
      /\ consumed <= Len(posted)
  BY <1>1 DEF Init, FreedMeansConsumed, Complete, InOrderOnce, CutKnown
<1>5. QED
  BY <1>2, <1>3, <1>4 DEF EventInv

LEMMA NextEvents == Gentle /\ EventInv /\ [Next]_vars => EventInv'
<1> SUFFICES ASSUME Gentle, EventInv, [Next]_vars PROVE EventInv'
  OBVIOUS
<1>1. CASE Post
  BY <1>1, PostKeeps
<1>2. CASE ServerSends
  BY <1>2, SendKeeps
<1>3. CASE ServerNotified
  BY <1>3, NotifyKeeps
<1>4. CASE BeginBody
  BY <1>4, BeginKeeps
<1>5. CASE AcceptBody
  BY <1>5, EndKeeps DEF AcceptBody, EventInv, CutKnown
<1>6. CASE DecodeFails
  BY <1>6, EndKeeps DEF DecodeFails, EventInv, CutKnown
<1>7. ASSUME NEW n \in body.left, ReadEvent(n) PROVE EventInv'
  BY <1>7, ReadKeeps
<1>8. ASSUME NEW n \in body.left, Gap(n) PROVE EventInv'
  BY <1>8, EndKeeps DEF Gap, NextInBody, EventInv, CutKnown
<1>9. ASSUME NEW n \in body.left, Overrun(n) PROVE EventInv'
  <2>1. /\ ~Idle /\ Take(body.packet, FALSE) /\ body' = NoBody
        /\ UNCHANGED <<posted, rides, acked, cargo, consumed, recvTable, dispatched>>
        /\ Event(n).kind = "command" /\ cut' \subseteq cut \union {n}
    BY <1>9 DEF Overrun, NextInBody
  <2>2. n \in Numbers
    BY <2>1, BodyReach
  <2>3. cut' \subseteq Commands
    BY <2>1, <2>2 DEF Commands, EventInv, CutKnown
  <2>4. QED
    BY <2>1, <2>3, EndKeeps
<1>10. CASE UNCHANGED vars
  <2>1. /\ UNCHANGED <<sent, received, taken, judged, delivered>>
        /\ UNCHANGED <<posted, rides, acked, cargo, consumed, recvTable, dispatched, cut, body>>
    BY <1>10 DEF vars, eventVars, chan
  <2>2. /\ Numbers' = Numbers /\ Unacked' = Unacked /\ Commands' = Commands
        /\ Current' = Current
    BY <2>1 DEF Numbers, Unacked, Commands, Event, Current, Idle
  <2>3. TypeOK'
    BY <2>1, <2>2 DEF EventInv, TypeOK
  <2>4. /\ InReach' /\ Spread' /\ Seen' /\ Riding' /\ TakenConsumed' /\ BodyInv'
        /\ FreedMeansConsumed' /\ consumed' <= Len(posted')
    BY <2>1, <2>2 DEF EventInv, InReach, Spread, Seen, Riding, TakenConsumed, BodyInv,
                      FreedMeansConsumed
  <2>5. Complete' /\ InOrderOnce'
    BY <2>1, <2>2 DEF EventInv, Complete, InOrderOnce
  <2>6. CutKnown'
    BY <2>1, <2>2 DEF EventInv, CutKnown
  <2>7. QED
    BY <2>3, <2>4, <2>5, <2>6 DEF EventInv
<1>11. QED
  BY <1>1, <1>2, <1>3, <1>4, <1>5, <1>6, <1>7, <1>8, <1>9, <1>10 DEF Next

\* As long as the server's window is at most half the event numbers, the
\* invariant holds throughout.
THEOREM EventInvariant == Gentle => (Spec => []EventInv)
<1> SUFFICES ASSUME Gentle PROVE Spec => []EventInv
  OBVIOUS
<1>1. QED
  BY InitEvents, NextEvents, PTL DEF Spec

\* Every command is dispatched exactly once and in order, whatever is lost,
\* NACKed and sent again (read_events).
THEOREM ExactlyOnce == Gentle => (Spec => []InOrderOnce)
<1> SUFFICES ASSUME Gentle PROVE Spec => []InOrderOnce
  OBVIOUS
<1>1. EventInv => InOrderOnce
  BY DEF EventInv
<1>2. QED
  BY <1>1, EventInvariant, PTL

\* The server never frees an event the client still needs.
THEOREM NothingStranded == Gentle => (Spec => []FreedMeansConsumed)
<1> SUFFICES ASSUME Gentle PROVE Spec => []FreedMeansConsumed
  OBVIOUS
<1>1. EventInv => FreedMeansConsumed
  BY DEF EventInv
<1>2. QED
  BY <1>1, EventInvariant, PTL

\* A command that ran with a cut-off payload is run again in full before the
\* server frees it (bs.error is looked at before the number is consumed).
THEOREM CutRedone == Gentle => (Spec => []CutIsRedone)
<1> SUFFICES ASSUME Gentle PROVE Spec => []CutIsRedone
  OBVIOUS
<1>1. EventInv => CutIsRedone
  <2> SUFFICES ASSUME EventInv, NEW n \in cut, n \in acked
               PROVE  \E k \in 1 .. Len(dispatched) : dispatched[k].event = n
    BY DEF CutIsRedone
  <2>1. n \in Commands /\ n < consumed
    BY DEF EventInv, FreedMeansConsumed, CutKnown
  <2>2. n \in {dispatched[j].event : j \in 1 .. Len(dispatched)}
    BY <2>1 DEF EventInv, Complete
  <2>3. QED
    BY <2>2
<1>2. QED
  BY <1>1, EventInvariant, PTL

-----------------------------------------------------------------------------
(* The verbs of commands *)

IsString(n) == Event(n).kind = "string"

\* A slot that the server does not reuse is taught by one event, and every command
\* comes after the one that teaches its slot.
TaughtOnce ==
    \A m, n \in Numbers : IsString(m) /\ IsString(n) /\ Event(m).slot = Event(n).slot => m = n
TaughtFirst ==
    \A n \in Commands : \E m \in Numbers :
        /\ m < n /\ IsString(m)
        /\ Event(m).slot = Event(n).slot /\ Event(m).text = Event(n).text

\* Whatever is read again, what was consumed is in the table.
Learned ==
    \A n \in Numbers : IsString(n) /\ n < consumed => recvTable[Event(n).slot] = Event(n).text

VerbInv == TaughtOnce /\ TaughtFirst /\ Learned /\ RightVerb

\* The number of every event is its place in the sequence.
LEMMA EventsTyped ==
    ASSUME TypeOK
    PROVE  /\ Len(posted) \in Nat /\ Numbers \subseteq Nat /\ consumed \in Nat
           /\ \A n \in Numbers : /\ Event(n).slot \in Slots /\ Event(n).text \in Texts
                                 /\ Event(n).kind \in {"string", "command"}
                                 /\ n < Len(posted)
<1> DEFINE Evt == [kind : {"string", "command"}, slot : Slots, text : Texts]
<1>1. posted \in Seq(Evt) /\ consumed \in Nat
  BY DEF TypeOK
<1>2. \A e \in Evt : e.slot \in Slots /\ e.text \in Texts /\ e.kind \in {"string", "command"}
  OBVIOUS
<1> HIDE DEF Evt
<1>3. \A n \in Numbers : posted[n + 1] \in Evt /\ n < Len(posted)
  BY <1>1 DEF Numbers
<1>4. QED
  BY <1>1, <1>2, <1>3 DEF Event, Numbers

LEMMA PostVerbs ==
    ASSUME EventInv, VerbInv, ~Evictions, Post
    PROVE  VerbInv'
<1> PICK L : L = Len(posted)
  OBVIOUS
<1>1. PICK kind \in {"string", "command"}, slot \in Slots, text \in Texts :
         /\ kind = "command" => Meaning(slot, text)
         /\ kind = "string" => \A t \in Texts : ~Meaning(slot, t)
         /\ posted' = Append(posted, [kind |-> kind, slot |-> slot, text |-> text])
  BY DEF Post
<1>2. UNCHANGED <<consumed, recvTable, dispatched>>
  BY DEF Post
<1>3. /\ TypeOK /\ consumed <= L
      /\ TaughtOnce /\ TaughtFirst /\ Learned /\ RightVerb
  BY DEF EventInv, VerbInv
<1>4. /\ L \in Nat /\ Numbers \subseteq Nat /\ consumed \in Nat
      /\ \A n \in Numbers : /\ Event(n).slot \in Slots /\ Event(n).text \in Texts
                            /\ Event(n).kind \in {"string", "command"}
                            /\ n < L
  BY <1>3, EventsTyped
<1>5. PICK ev : /\ ev = [kind |-> kind, slot |-> slot, text |-> text]
                /\ posted' = Append(posted, ev)
  BY <1>1
<1>6. /\ \A n \in Numbers : Event(n)' = Event(n)
      /\ Event(L)' = ev
      /\ \A n : n \in Numbers' <=> n \in Numbers \/ n = L
      /\ L \notin Numbers
  <2> DEFINE Evt == [kind : {"string", "command"}, slot : Slots, text : Texts]
  <2>1. posted \in Seq(Evt) /\ ev \in Evt
    BY <1>3, <1>5 DEF TypeOK
  <2> HIDE DEF Evt
  <2>2. /\ Len(posted') = L + 1
        /\ \A n \in 0 .. L - 1 : posted'[n + 1] = posted[n + 1]
        /\ posted'[L + 1] = ev
    BY <1>5, <2>1
  <2>3. Numbers = 0 .. L - 1 /\ Numbers' = 0 .. L
    BY <1>4, <2>2 DEF Numbers
  <2>4. QED
    BY <1>4, <2>2, <2>3 DEF Event
<1>7. /\ \A n \in Numbers : IsString(n)' <=> IsString(n)
      /\ IsString(L)' <=> kind = "string"
  BY <1>5, <1>6 DEF IsString
<1>8. ASSUME kind = "string", NEW n \in Numbers, IsString(n)
      PROVE  Event(n).slot # slot
  <2> SUFFICES ASSUME Event(n).slot = slot PROVE FALSE
    OBVIOUS
  <2>1. Event(n).text \in Texts /\ n \in Nat
    BY <1>4
  <2>2. Meaning(slot, Event(n).text)
    BY <1>3, <1>8, <2>1 DEF Meaning, TaughtOnce, IsString
  <2>3. QED
    BY <1>1, <1>8, <2>1, <2>2
<1>9. TaughtOnce'
  <2> SUFFICES ASSUME NEW m \in Numbers', NEW n \in Numbers', IsString(m)', IsString(n)',
                      (Event(m).slot)' = (Event(n).slot)'
               PROVE  m = n
    BY DEF TaughtOnce
  <2>1. CASE m \in Numbers /\ n \in Numbers
    BY <1>3, <1>6, <1>7, <2>1 DEF TaughtOnce
  <2>2. CASE m = L /\ n \in Numbers
    BY <1>5, <1>6, <1>7, <1>8, <2>2
  <2>3. CASE m \in Numbers /\ n = L
    BY <1>5, <1>6, <1>7, <1>8, <2>3
  <2>4. QED
    BY <1>6, <2>1, <2>2, <2>3
<1>10. ASSUME NEW n \in Commands'
       PROVE  \E m \in Numbers : /\ m < n /\ IsString(m)
                                 /\ Event(m).slot = (Event(n).slot)'
                                 /\ Event(m).text = (Event(n).text)'
  <2>1. n \in Numbers' /\ (Event(n).kind)' = "command"
    BY DEF Commands
  <2>2. CASE n \in Numbers
    <3>1. n \in Commands /\ Event(n)' = Event(n)
      BY <1>6, <2>1, <2>2 DEF Commands
    <3>2. QED
      BY <1>3, <3>1 DEF TaughtFirst
  <2>3. CASE n = L
    <3>1. kind = "command" /\ (Event(n).slot)' = slot /\ (Event(n).text)' = text
      BY <1>5, <1>6, <2>1, <2>3
    <3>2. PICK m \in Numbers : Event(m).kind = "string" /\ Event(m).slot = slot /\ Event(m).text = text
      BY <1>1, <3>1 DEF Meaning
    <3>3. m < n
      BY <1>4, <2>3
    <3>4. QED
      BY <3>1, <3>2, <3>3 DEF IsString
  <2>4. QED
    BY <1>6, <2>1, <2>2, <2>3
<1>11. TaughtFirst'
  <2> SUFFICES ASSUME NEW n \in Commands'
               PROVE  \E m \in Numbers' : /\ m < n /\ IsString(m)'
                                          /\ (Event(m).slot)' = (Event(n).slot)'
                                          /\ (Event(m).text)' = (Event(n).text)'
    BY DEF TaughtFirst
  <2>1. PICK m \in Numbers : /\ m < n /\ IsString(m)
                             /\ Event(m).slot = (Event(n).slot)'
                             /\ Event(m).text = (Event(n).text)'
    BY <1>10
  <2>2. m \in Numbers' /\ IsString(m)' /\ Event(m)' = Event(m)
    BY <1>6, <1>7, <2>1
  <2>3. QED
    BY <2>1, <2>2
<1>12. Learned'
  <2> SUFFICES ASSUME NEW n \in Numbers', IsString(n)', n < consumed
               PROVE  recvTable[(Event(n).slot)'] = (Event(n).text)'
    BY <1>2 DEF Learned
  <2>1. n \in Numbers
    BY <1>3, <1>4, <1>6
  <2>2. Event(n)' = Event(n) /\ IsString(n)
    BY <1>6, <1>7, <2>1
  <2>3. QED
    BY <1>3, <2>1, <2>2 DEF Learned
<1>13. RightVerb'
  <2>1. \A k \in 1 .. Len(dispatched) : dispatched[k].event \in Numbers
    BY <1>3, CallsAreEvents
  <2>2. \A k \in 1 .. Len(dispatched) : dispatched[k].text = Event(dispatched[k].event).text
    BY <1>3 DEF RightVerb
  <2>3. \A k \in 1 .. Len(dispatched) : Event(dispatched[k].event)' = Event(dispatched[k].event)
    <3> SUFFICES ASSUME NEW k \in 1 .. Len(dispatched)
                 PROVE  Event(dispatched[k].event)' = Event(dispatched[k].event)
      OBVIOUS
    <3>1. dispatched[k].event \in Numbers /\ dispatched'[k].event = dispatched[k].event
      BY <1>2, <2>1
    <3>2. posted'[dispatched[k].event + 1] = posted[dispatched[k].event + 1]
      BY <1>6, <3>1 DEF Event
    <3>3. QED
      BY <1>2, <3>2 DEF Event
  <2>4. \A k \in 1 .. Len(dispatched) : dispatched'[k].text = (Event(dispatched[k].event).text)'
    BY <1>2, <2>2, <2>3
  <2>5. QED
    BY <1>2, <2>4 DEF RightVerb
<1>14. QED
  BY <1>9, <1>11, <1>12, <1>13 DEF VerbInv

LEMMA ReadVerbs ==
    ASSUME EventInv, VerbInv, Gentle, NEW n \in body.left, ReadEvent(n)
    PROVE  VerbInv'
<1>1. ~Idle /\ ~Ahead(n)
  BY DEF ReadEvent, NextInBody
<1>2. /\ n \in Numbers
      /\ n < consumed + SERVER_EVENT_WINDOW /\ consumed <= n + SERVER_EVENT_WINDOW
  BY <1>1, BodyReach
<1>3. /\ TypeOK /\ TaughtOnce /\ TaughtFirst /\ Learned /\ RightVerb
      /\ recvTable \in [Slots -> Texts \union {NoText}]
  BY DEF EventInv, VerbInv, TypeOK
<1>4. /\ Numbers \subseteq Nat /\ consumed \in Nat
      /\ \A m \in Numbers : /\ Event(m).slot \in Slots /\ Event(m).text \in Texts
                            /\ Event(m).kind \in {"string", "command"}
  BY <1>3, EventsTyped
<1>5. /\ Expected(n) => n = consumed
      /\ ~Expected(n) => n < consumed
  BY <1>1, <1>2, <1>4, RelExact
<1>6. /\ posted' = posted /\ recvTable' = Mapped(n)
      /\ dispatched' = IF Expected(n) THEN Handled(n) ELSE dispatched
      /\ consumed' = IF Expected(n) THEN consumed + 1 ELSE consumed
  BY DEF ReadEvent
<1>7. /\ Numbers' = Numbers /\ Commands' = Commands
      /\ \A m : Event(m)' = Event(m) /\ (IsString(m)' <=> IsString(m))
  BY <1>6 DEF Numbers, Commands, Event, IsString
<1>8. TaughtOnce' /\ TaughtFirst'
  BY <1>3, <1>7 DEF TaughtOnce, TaughtFirst
<1>9. Learned'
  <2> SUFFICES ASSUME NEW m \in Numbers, IsString(m), m < consumed'
               PROVE  recvTable'[Event(m).slot] = Event(m).text
    BY <1>7 DEF Learned
  <2>1. m < consumed \/ m = n
    BY <1>2, <1>4, <1>5, <1>6
  <2>2. CASE IsString(n) /\ Event(n).slot = Event(m).slot
    <3>1. m = n
      BY <1>2, <1>3, <2>2 DEF TaughtOnce
    <3>2. recvTable' = [recvTable EXCEPT ![Event(n).slot] = Event(n).text]
      BY <1>6, <2>2 DEF Mapped, IsString
    <3>3. QED
      BY <1>2, <1>3, <1>4, <3>1, <3>2
  <2>3. CASE ~(IsString(n) /\ Event(n).slot = Event(m).slot)
    <3>1. m < consumed
      BY <2>1, <2>3
    <3>2. recvTable[Event(m).slot] = Event(m).text
      BY <1>3, <3>1 DEF Learned
    <3>3. recvTable'[Event(m).slot] = recvTable[Event(m).slot]
      BY <1>3, <1>4, <1>6, <2>3 DEF Mapped, IsString
    <3>4. QED
      BY <3>2, <3>3
  <2>4. QED
    BY <2>2, <2>3
<1>10. RightVerb'
  <2> DEFINE call == [event |-> n, text |-> recvTable[Event(n).slot]]
  <2>1. dispatched \in Seq([event : Numbers, text : Texts \union {NoText}])
    BY <1>3 DEF TypeOK
  <2>2. CASE dispatched' = dispatched
    BY <1>3, <1>6, <2>2 DEF RightVerb, Event
  <2>3. CASE dispatched' # dispatched
    <3>1. Expected(n) /\ Event(n).kind = "command" /\ dispatched' = Append(dispatched, call)
      BY <1>6, <2>3 DEF Handled
    <3>2. PICK m \in Numbers : /\ m < n /\ IsString(m)
                               /\ Event(m).slot = Event(n).slot /\ Event(m).text = Event(n).text
      BY <1>2, <1>3, <3>1 DEF TaughtFirst, Commands
    <3>3. recvTable[Event(n).slot] = Event(n).text
      BY <1>3, <1>5, <3>1, <3>2 DEF Learned
    <3>4. call.event = n /\ call.text = Event(n).text
      BY <3>3
    <3> HIDE DEF call
    <3>5. /\ Len(dispatched') = Len(dispatched) + 1 /\ Len(dispatched) \in Nat
          /\ \A k \in 1 .. Len(dispatched) : dispatched'[k] = dispatched[k]
          /\ dispatched'[Len(dispatched) + 1] = call
      BY <2>1, <3>1
    <3>6. \A k \in 1 .. Len(dispatched') : dispatched'[k].text = posted[dispatched'[k].event + 1].text
      <4> SUFFICES ASSUME NEW k \in 1 .. Len(dispatched')
                   PROVE  dispatched'[k].text = posted[dispatched'[k].event + 1].text
        OBVIOUS
      <4>1. CASE k \in 1 .. Len(dispatched)
        BY <1>3, <3>5, <4>1 DEF RightVerb, Event
      <4>2. CASE k = Len(dispatched) + 1
        BY <3>4, <3>5, <4>2 DEF Event
      <4>3. QED
        BY <3>5, <4>1, <4>2
    <3>7. QED
      BY <1>6, <3>6 DEF RightVerb, Event
  <2>4. QED
    BY <2>2, <2>3
<1>11. QED
  BY <1>8, <1>9, <1>10 DEF VerbInv

\* Everything else leaves events, table and calls alone.
LEMMA OthersVerbs ==
    ASSUME VerbInv, UNCHANGED <<posted, consumed, recvTable, dispatched>>
    PROVE  VerbInv'
BY DEF VerbInv, TaughtOnce, TaughtFirst, Learned, RightVerb, IsString, Event, Numbers, Commands

LEMMA NextVerbs == Gentle /\ ~Evictions /\ EventInv /\ VerbInv /\ [Next]_vars => VerbInv'
<1> SUFFICES ASSUME Gentle, ~Evictions, EventInv, VerbInv, [Next]_vars PROVE VerbInv'
  OBVIOUS
<1>1. CASE Post
  BY <1>1, PostVerbs
<1>2. ASSUME NEW n \in body.left, ReadEvent(n) PROVE VerbInv'
  BY <1>2, ReadVerbs
<1>3. CASE ServerSends \/ ServerNotified \/ BeginBody \/ AcceptBody \/ DecodeFails
  BY <1>3, OthersVerbs DEF ServerSends, ServerNotified, BeginBody, AcceptBody, DecodeFails
<1>4. ASSUME NEW n \in body.left, Gap(n) \/ Overrun(n) PROVE VerbInv'
  BY <1>4, OthersVerbs DEF Gap, Overrun
<1>5. CASE UNCHANGED vars
  BY <1>5, OthersVerbs DEF vars, eventVars
<1>6. QED
  BY <1>1, <1>2, <1>3, <1>4, <1>5 DEF Next

\* RightVerb, for a server that does not reuse a slot of its string table: the
\* handler runs under the verb the server meant, although the events that teach
\* the slots are lost, rejected and read again (read_events and detag).
THEOREM RightVerbHolds == Gentle /\ ~Evictions => (Spec => []RightVerb)
<1> SUFFICES ASSUME Gentle, ~Evictions PROVE Spec => []RightVerb
  OBVIOUS
<1>1. Init => VerbInv
  BY DEF Init, VerbInv, TaughtOnce, TaughtFirst, Learned, RightVerb, Numbers, Commands
<1>2. EventInv /\ VerbInv /\ [Next]_vars => VerbInv'
  BY NextVerbs
<1>3. VerbInv => RightVerb
  BY DEF VerbInv
<1>4. QED
  BY <1>1, <1>2, <1>3, EventInvariant, PTL DEF Spec

-----------------------------------------------------------------------------
(* The move stream *)

\* A number that is the sum of a multiple and a remainder.
LEMMA RemainderIs ==
    ASSUME NEW W \in Nat \ {0}, NEW x \in Int, NEW k \in Int, NEW r \in 0 .. W - 1, x = W * k + r
    PROVE  x % W = r
<1> DEFINE q == x \div W   s == x % W
<1>1. x = W * q + s /\ s \in 0 .. W - 1 /\ q \in Int
  BY SMTT(30)
<1> SUFFICES s = r
  OBVIOUS
<1> HIDE DEF q, s
<1>2. W * (k - q) = W * k - W * q /\ W * k \in Int /\ W * q \in Int
  BY <1>1, SMTT(30)
<1>3. CASE k > q
  <2>1. W * (k - q) >= W
    BY <1>1, <1>3, SMTT(30)
  <2>2. QED
    BY <1>1, <1>2, <2>1
<1>4. CASE k < q
  <2>1. W * (k - q) <= -W
    BY <1>1, <1>4, SMTT(30)
  <2>2. QED
    BY <1>1, <1>2, <2>1
<1>5. CASE k = q
  BY <1>1, <1>5
<1>6. QED
  BY <1>1, <1>3, <1>4, <1>5

\* Whole turns do not change a remainder, so it may be taken of any part of a sum.
LEMMA RemainderTurns ==
    ASSUME NEW W \in Nat \ {0}, NEW x \in Int, NEW k \in Int
    PROVE  (x + W * k) % W = x % W
<1> DEFINE q == x \div W   s == x % W
<1>1. x = W * q + s /\ s \in 0 .. W - 1 /\ q \in Int
  BY SMTT(30)
<1> HIDE DEF q, s
<1>2. W * q + W * k = W * (q + k) /\ W * q \in Int /\ W * k \in Int
  BY <1>1, SMTT(30)
<1>3. x + W * k = W * (q + k) + s /\ x + W * k \in Int /\ q + k \in Int
  BY <1>1, <1>2
<1> DEFINE y == x + W * k   p == q + k
<1>4. y = W * p + s /\ y \in Int /\ p \in Int
  BY <1>3
<1> HIDE DEF y, p
<1>5. y % W = s
  BY <1>1, <1>4, RemainderIs
<1>6. QED
  BY <1>5 DEF y, s

LEMMA RemainderOfSum ==
    ASSUME NEW W \in Nat \ {0}, NEW a \in Int, NEW c \in Int
    PROVE  /\ ((a % W) + c) % W = (a + c) % W
           /\ (c - (a % W)) % W = (c - a) % W
           /\ a % W \in 0 .. W - 1
<1> DEFINE q == a \div W   s == a % W
<1>1. a = W * q + s /\ s \in 0 .. W - 1 /\ q \in Int
  BY SMTT(30)
<1> HIDE DEF q, s
<1>2. W * q \in Int /\ W * (-q) = -(W * q) /\ -q \in Int
  BY <1>1, SMTT(30)
<1>3. a + c = (s + c) + W * q /\ s + c \in Int
  BY <1>1, <1>2
<1>4. c - a = (c - s) + W * (-q) /\ c - s \in Int
  BY <1>1, <1>2
<1>5. ((s + c) + W * q) % W = (s + c) % W
  BY <1>1, <1>3, RemainderTurns
<1>6. ((c - s) + W * (-q)) % W = (c - s) % W
  BY <1>2, <1>4, RemainderTurns
<1>7. QED
  BY <1>1, <1>3, <1>4, <1>5, <1>6 DEF s

LEMMA RemainderSmall ==
    ASSUME NEW W \in Nat \ {0}, NEW x \in 0 .. W - 1
    PROVE  x % W = x
<1>1. x = W * 0 + x
  BY SMTT(30)
<1>2. QED
  BY <1>1, RemainderIs

\* The signed difference of two numbers less than half of all numbers apart.
LEMMA SignedDistance ==
    ASSUME NEW W \in Nat \ {0}, NEW e \in Int, NEW f \in Int,
           -(W \div 2) <= e - f, e - f < W \div 2
    PROVE  (((e % W) - (f % W) + W \div 2) % W) - (W \div 2) = e - f
<1> DEFINE h == W \div 2
<1>1. h \in Nat /\ 2 * h <= W
  OBVIOUS
<1>2. -h <= e - f /\ e - f < h
  OBVIOUS
<1> HIDE DEF h
<1>3. e % W \in Int /\ f % W \in Int
  BY RemainderOfSum
<1>4. ((e % W) - (f % W) + h) % W = (e - (f % W) + h) % W
  <2> DEFINE u == e % W   v == f % W   c == h - v
  <2>1. u \in Int /\ c \in Int /\ u - v + h = u + c /\ e - v + h = e + c
    BY <1>1, <1>3
  <2> HIDE DEF c
  <2>2. ((e % W) + c) % W = (e + c) % W
    BY <2>1, RemainderOfSum
  <2>3. QED
    BY <2>1, <2>2
<1>5. (e - (f % W) + h) % W = (e - f + h) % W
  <2> DEFINE v == f % W   c == e + h
  <2>1. c \in Int /\ e - v + h = c - v /\ e - f + h = c - f
    BY <1>1, <1>3
  <2> HIDE DEF c
  <2>2. (c - (f % W)) % W = (c - f) % W
    BY <2>1, RemainderOfSum
  <2>3. QED
    BY <2>1, <2>2
<1>6. (e - f + h) % W = e - f + h
  <2> DEFINE x == e - f + h
  <2>1. x \in 0 .. W - 1
    BY <1>1, <1>2
  <2> HIDE DEF x
  <2>2. x % W = x
    BY <2>1, RemainderSmall
  <2>3. QED
    BY <2>2 DEF x
<1>7. QED
  BY <1>1, <1>4, <1>5, <1>6 DEF h

\* The acknowledgements that the client has (0) and that are on their way to it (1, ...)
\* stand for the numbers in f.
AcksAre(f) ==
  /\ f \in [0 .. Len(down) -> Nat]
  /\ moveAck = f[0] % MoveSpace /\ \A i \in 1 .. Len(down) : down[i] = f[i] % MoveSpace
  /\ \A i, j \in 0 .. Len(down) : i <= j => f[i] <= f[j]
  /\ \A i \in 0 .. Len(down) : f[i] + waiting <= expects
  /\ generated - f[0] <= MaxUnacked

MovesTyped ==
  /\ generated \in Nat /\ expects \in Nat /\ waiting \in Nat /\ missed \in 0 .. MaxMissed
  /\ up \in Seq([start : Int, count : 1 .. MaxMoveCount, first : Nat])
  /\ down \in Seq(Int) /\ moveAck \in Int

\* Every packet ends one move after the one before it, and begins at a move the server
\* knows or is as long as can be.
PacketsAre ==
  \A i \in 1 .. Len(up) :
    /\ up[i].start = up[i].first % MoveSpace
    /\ up[i].first + up[i].count = expects + missed + i
    /\ up[i].count = MaxMoveCount \/ up[i].first <= expects

MovesInv ==
  /\ MovesTyped /\ PacketsAre
  /\ nextMove = generated % MoveSpace /\ lastAck = expects % MoveSpace
  /\ generated = expects + missed + Len(up)
  /\ ~gap
  /\ \E f : AcksAre(f)

LEMMA MoveConstants ==
    /\ MoveSpace \in Nat \ {0} /\ MaxMoveCount \in Nat \ {0} /\ MaxMissed \in Nat \ {0}
    /\ MaxUnacked \in Nat \ {0} /\ MaxUnacked < MoveSpace
    /\ MaxMoveCount + MaxMissed <= MoveSpace \div 2
<1>1. {MoveSpace, MaxMoveCount, MaxMissed, MaxUnacked} \subseteq Nat \ {0}
  BY MoveStreamAssumption
<1>2. MoveSpace > MaxUnacked /\ MoveSpace > 2 * (MaxMoveCount + MaxMissed)
  BY MoveStreamAssumption
<1>3. QED
  BY <1>1, <1>2

LEMMA InitMoves == MovesInit => MovesInv
<1> SUFFICES ASSUME MovesInit PROVE MovesInv
  OBVIOUS
<1>1. 0 % MoveSpace = 0
  BY MoveConstants, RemainderSmall
<1>2. AcksAre([i \in 0 .. 0 |-> 0])
  BY <1>1, MoveConstants DEF AcksAre, MovesInit
<1>3. MovesTyped /\ PacketsAre
  BY MoveConstants DEF MovesInit, MovesTyped, PacketsAre
<1>4. QED
  BY <1>1, <1>2, <1>3 DEF MovesInit, MovesInv

LEMMA MoveNumbers ==
    /\ \A n, s \in Nat : n <= s /\ s < n + MoveSpace =>
         ((s % MoveSpace) - (n % MoveSpace)) % MoveSpace = s - n
    /\ \A a, c \in Int : ((a % MoveSpace) + c) % MoveSpace = (a + c) % MoveSpace
    /\ \A a \in Int : a % MoveSpace \in Int
    /\ \A a, c \in Int : ((a % MoveSpace) - c) % MoveSpace = (a - c) % MoveSpace
<1>1. \A n, s \in Nat : n <= s /\ s < n + MoveSpace =>
         ((s % MoveSpace) - (n % MoveSpace)) % MoveSpace = s - n
  <2>1. \A W \in Nat \ {0} : \A n, s \in Nat : n < s + W /\ s < n + W /\ n <= s =>
          ((s % W) - (n % W)) % W = s - n
    BY RemainderDistance
  <2>2. ASSUME NEW n \in Nat, NEW s \in Nat, n <= s, s < n + MoveSpace
        PROVE  ((s % MoveSpace) - (n % MoveSpace)) % MoveSpace = s - n
    <3>1. n < s + MoveSpace /\ MoveSpace \in Nat \ {0}
      BY <2>2, MoveConstants
    <3>2. QED
      BY <2>1, <2>2, <3>1, Zenon
  <2>3. QED
    BY <2>2
<1>2. \A a, c \in Int : ((a % MoveSpace) + c) % MoveSpace = (a + c) % MoveSpace
  BY MoveConstants, RemainderOfSum
<1>3. \A a \in Int : a % MoveSpace \in Int
  BY MoveConstants, RemainderOfSum
<1>4. ASSUME NEW a \in Int, NEW c \in Int
      PROVE  ((a % MoveSpace) - c) % MoveSpace = (a - c) % MoveSpace
  <2> DEFINE d == -c   v == a % MoveSpace
  <2>1. d \in Int /\ v \in Int /\ v - c = v + d /\ a - c = a + d
    BY <1>3
  <2> HIDE DEF d
  <2>2. (v + d) % MoveSpace = (a + d) % MoveSpace
    BY <1>2, <2>1, Zenon
  <2>3. QED
    BY <2>1, <2>2
<1>5. QED
  BY <1>1, <1>2, <1>3, <1>4

\* What an acknowledgement stands for.
LEMMA AckBounds ==
    ASSUME MovesInv, NEW f, AcksAre(f)
    PROVE  /\ \A i \in 0 .. Len(down) : f[i] \in Nat /\ f[i] + waiting <= expects /\ f[0] <= f[i]
           /\ f[0] \in Nat /\ f[0] <= expects /\ expects <= generated
           /\ generated \in Nat /\ expects \in Nat /\ waiting \in Nat /\ missed \in Nat
           /\ Len(down) \in Nat /\ Len(up) \in Nat
<1>1. /\ generated \in Nat /\ expects \in Nat /\ waiting \in Nat /\ missed \in Nat
      /\ Len(down) \in Nat /\ Len(up) \in Nat
  BY MoveConstants DEF MovesInv, MovesTyped
<1>2. 0 \in 0 .. Len(down)
  BY <1>1
<1>3. expects <= generated
  BY <1>1 DEF MovesInv
<1>4. \A i \in 0 .. Len(down) : f[i] \in Nat /\ f[i] + waiting <= expects /\ f[0] <= f[i]
  BY <1>1, <1>2 DEF AcksAre
<1>5. QED
  BY <1>1, <1>2, <1>3, <1>4

\* The moves that are not acknowledged are counted right, and sent from the first on.
LEMMA PendingIs ==
    ASSUME MovesInv, NEW f, AcksAre(f), NEW next, next = (generated + 1) % MoveSpace,
           generated - f[0] < MaxUnacked
    PROVE  LET first == (generated + 1) - Pending(next)
           IN /\ Pending(next) \in 1 .. MaxMoveCount /\ first \in Nat
              /\ Start(next) = first % MoveSpace
              /\ Pending(next) = MaxMoveCount \/ first = f[0]
<1> DEFINE g == generated + 1   pending == (next - moveAck) % MoveSpace
<1>1. /\ g \in Nat /\ f[0] \in Nat /\ f[0] < g /\ moveAck = f[0] % MoveSpace
      /\ g - f[0] <= MaxUnacked
  <2>1. f[0] \in Nat /\ f[0] <= generated /\ generated \in Nat
    BY AckBounds
  <2>2. moveAck = f[0] % MoveSpace
    BY DEF AcksAre
  <2>3. QED
    BY <2>1, <2>2, MoveConstants
<1> HIDE DEF g
<1>2. pending = g - f[0]
  <2>1. next = g % MoveSpace
    BY DEF g
  <2>2. pending = ((g % MoveSpace) - (f[0] % MoveSpace)) % MoveSpace
    BY <1>1, <2>1
  <2>3. ((g % MoveSpace) - (f[0] % MoveSpace)) % MoveSpace = g - f[0]
    <3>1. f[0] <= g /\ g < f[0] + MoveSpace
      BY <1>1, MoveConstants
    <3>2. QED
      BY <1>1, <3>1, MoveNumbers, Zenon
  <2>4. QED
    BY <2>2, <2>3
<1> HIDE DEF pending
<1>3. Pending(next) = IF pending > MaxMoveCount THEN MaxMoveCount ELSE pending
  BY <1>1, <1>2 DEF Pending, pending
<1>4. Start(next) = (next - Pending(next)) % MoveSpace
  BY <1>1, <1>2 DEF Start, pending
<1>5. Pending(next) \in 1 .. MaxMoveCount /\ Pending(next) <= g - f[0]
  BY <1>1, <1>2, <1>3, MoveConstants
<1>6. (next - Pending(next)) % MoveSpace = (g - Pending(next)) % MoveSpace
  <2>1. g \in Int /\ Pending(next) \in Int /\ next = g % MoveSpace
    BY <1>1, <1>5 DEF g
  <2>2. QED
    BY <2>1, MoveNumbers, Zenon
<1>7. QED
  BY <1>1, <1>2, <1>3, <1>4, <1>5, <1>6 DEF g

LEMMA WriteMovesStep ==
    ASSUME MovesInv, WriteMoves
    PROVE  MovesInv'
<1> DEFINE p == [start |-> Start(nextMove'), count |-> Pending(nextMove'),
                 first |-> generated' - Pending(nextMove')]
<1>1. PICK f : AcksAre(f)
  BY DEF MovesInv
<1>2. /\ generated' = generated + 1 /\ nextMove' = (nextMove + 1) % MoveSpace /\ up' = Append(up, p)
      /\ UNCHANGED <<moveAck, down, lastAck, waiting, expects, missed, gap>>
      /\ (nextMove - moveAck) % MoveSpace < MaxUnacked
  BY DEF WriteMoves
<1>3. /\ f[0] \in Nat /\ f[0] <= expects /\ expects <= generated
      /\ generated \in Nat /\ expects \in Nat /\ missed \in Nat /\ Len(up) \in Nat
  BY <1>1, AckBounds
<1>4. nextMove' = (generated + 1) % MoveSpace
  <2>1. ((generated % MoveSpace) + 1) % MoveSpace = (generated + 1) % MoveSpace
    BY <1>3, MoveNumbers
  <2>2. QED
    BY <1>2, <2>1 DEF MovesInv
<1>5. generated - f[0] < MaxUnacked
  <2>1. f[0] <= generated /\ generated < f[0] + MoveSpace
    BY <1>1, <1>3, MoveConstants DEF AcksAre
  <2>2. ((generated % MoveSpace) - (f[0] % MoveSpace)) % MoveSpace = generated - f[0]
    BY <1>3, <2>1, MoveNumbers, Zenon
  <2>3. nextMove = generated % MoveSpace /\ moveAck = f[0] % MoveSpace
    BY <1>1 DEF MovesInv, AcksAre
  <2>4. QED
    BY <1>2, <2>2, <2>3
<1>6. /\ p.count \in 1 .. MaxMoveCount /\ p.first \in Nat /\ p.start = p.first % MoveSpace
      /\ p.count = MaxMoveCount \/ p.first = f[0]
      /\ p.first + p.count = generated + 1
  <2>1. LET first == (generated + 1) - Pending(nextMove')
        IN /\ Pending(nextMove') \in 1 .. MaxMoveCount /\ first \in Nat
           /\ Start(nextMove') = first % MoveSpace
           /\ Pending(nextMove') = MaxMoveCount \/ first = f[0]
    BY <1>1, <1>4, <1>5, PendingIs
  <2>2. QED
    BY <1>2, <1>3, <2>1
<1>7. p \in [start : Int, count : 1 .. MaxMoveCount, first : Nat]
  BY <1>6, MoveNumbers
<1> HIDE DEF p
<1>8. MovesTyped'
  BY <1>2, <1>3, <1>7 DEF MovesInv, MovesTyped
<1>9. /\ Len(up') = Len(up) + 1 /\ up'[Len(up) + 1] = p
      /\ \A i \in 1 .. Len(up') : i = Len(up) + 1 \/ (i \in 1 .. Len(up) /\ up'[i] = up[i])
  BY <1>2, <1>3, SMTT(30) DEF MovesInv, MovesTyped
<1>10. generated' = expects' + missed' + Len(up')
  <2>1. generated = expects + missed + Len(up)
    BY DEF MovesInv
  <2>2. Len(up') = Len(up) + 1 /\ Len(up) \in Nat
    BY <1>3, <1>9
  <2>3. generated' = generated + 1 /\ expects' = expects /\ missed' = missed
    BY <1>2
  <2>4. QED
    BY <1>3, <2>1, <2>2, <2>3
<1>11. PacketsAre'
  <2>1. ASSUME NEW i \in 1 .. Len(up')
        PROVE  /\ up'[i].start = up'[i].first % MoveSpace
               /\ up'[i].first + up'[i].count = expects + missed + i
               /\ up'[i].count = MaxMoveCount \/ up'[i].first <= expects
    <3>1. CASE i = Len(up) + 1
      BY <1>2, <1>3, <1>6, <1>9, <1>10, <3>1
    <3>2. CASE i \in 1 .. Len(up) /\ up'[i] = up[i]
      BY <3>2 DEF MovesInv, PacketsAre
    <3>3. QED
      BY <1>9, <3>1, <3>2
  <2>2. QED
    BY <1>2, <2>1 DEF PacketsAre
<1>12. AcksAre(f)'
  <2>1. generated' - f[0] <= MaxUnacked
    BY <1>2, <1>3, <1>5, MoveConstants
  <2>2. QED
    BY <1>1, <1>2, <2>1 DEF AcksAre
<1>13. QED
  BY <1>2, <1>4, <1>8, <1>10, <1>11, <1>12 DEF MovesInv

\* The oldest packet is received or lost.
LEMMA PacketGone ==
    ASSUME MovesInv, up # <<>>, up' = Tail(up)
    PROVE  LET m == Head(up)
           IN /\ m \in [start : Int, count : 1 .. MaxMoveCount, first : Nat]
              /\ m.start = m.first % MoveSpace /\ m.first + m.count = expects + missed + 1
              /\ m.count = MaxMoveCount \/ m.first <= expects
              /\ Len(up) = Len(up') + 1 /\ Len(up') \in Nat
              /\ up' \in Seq([start : Int, count : 1 .. MaxMoveCount, first : Nat])
              /\ \A i \in 1 .. Len(up') : i + 1 \in 1 .. Len(up) /\ up'[i] = up[i + 1]
<1> DEFINE Packets == [start : Int, count : 1 .. MaxMoveCount, first : Nat]
<1>1. up \in Seq(Packets)
  BY DEF MovesInv, MovesTyped
<1> HIDE DEF Packets
<1>2. /\ Head(up) = up[1] /\ Head(up) \in Packets /\ 1 \in 1 .. Len(up)
      /\ Len(up) = Len(up') + 1 /\ Len(up') \in Nat /\ up' \in Seq(Packets)
      /\ \A i \in 1 .. Len(up') : i + 1 \in 1 .. Len(up) /\ up'[i] = up[i + 1]
  BY <1>1
<1>3. PacketsAre
  BY DEF MovesInv
<1>4. QED
  BY <1>2, <1>3 DEF PacketsAre, Packets

LEMMA LoseMovesStep ==
    ASSUME MovesInv, LoseMoves
    PROVE  MovesInv'
<1>1. PICK f : AcksAre(f)
  BY DEF MovesInv
<1>2. /\ up # <<>> /\ up' = Tail(up) /\ missed < MaxMissed /\ missed' = missed + 1
      /\ UNCHANGED <<nextMove, moveAck, generated, down, lastAck, waiting, expects, gap>>
  BY DEF LoseMoves
<1>3. generated \in Nat /\ expects \in Nat /\ missed \in Nat
  BY <1>1, AckBounds
<1>4. /\ Len(up) = Len(up') + 1 /\ Len(up') \in Nat
      /\ up' \in Seq([start : Int, count : 1 .. MaxMoveCount, first : Nat])
      /\ \A i \in 1 .. Len(up') : i + 1 \in 1 .. Len(up) /\ up'[i] = up[i + 1]
  BY <1>2, PacketGone
<1>5. MovesTyped'
  BY <1>2, <1>3, <1>4, MoveConstants DEF MovesInv, MovesTyped
<1>6. PacketsAre'
  BY <1>2, <1>3, <1>4 DEF MovesInv, PacketsAre
<1>7. AcksAre(f)'
  BY <1>1, <1>2 DEF AcksAre
<1>8. QED
  BY <1>2, <1>3, <1>4, <1>5, <1>6, <1>7 DEF MovesInv

LEMMA ServerReadsStep ==
    ASSUME MovesInv, ServerReads
    PROVE  MovesInv'
<1> DEFINE m == Head(up)
<1> DEFINE skip == ((lastAck - m.start + MoveSpace \div 2) % MoveSpace) - (MoveSpace \div 2)
<1> DEFINE new == IF skip < 0 THEN m.count ELSE IF skip > m.count THEN 0 ELSE m.count - skip
<1>1. PICK f : AcksAre(f)
  BY DEF MovesInv
<1>2. /\ up # <<>> /\ up' = Tail(up) /\ missed' = 0
      /\ lastAck' = ((IF skip < 0 THEN m.start ELSE lastAck) + new) % MoveSpace
      /\ waiting' = waiting + new
      /\ expects' = IF m.first + m.count > expects THEN m.first + m.count ELSE expects
      /\ gap' = (gap \/ (m.first > expects /\ missed < MaxMoveCount))
      /\ UNCHANGED <<nextMove, moveAck, generated, down>>
  BY DEF ServerReads
<1>3. /\ generated \in Nat /\ expects \in Nat /\ missed \in 0 .. MaxMissed /\ waiting \in Nat
      /\ lastAck = expects % MoveSpace
  BY <1>1, AckBounds DEF MovesInv, MovesTyped
<1>4. /\ m \in [start : Int, count : 1 .. MaxMoveCount, first : Nat]
      /\ m.start = m.first % MoveSpace /\ m.first + m.count = expects + missed + 1
      /\ m.count = MaxMoveCount \/ m.first <= expects
      /\ Len(up) = Len(up') + 1 /\ Len(up') \in Nat
      /\ up' \in Seq([start : Int, count : 1 .. MaxMoveCount, first : Nat])
      /\ \A i \in 1 .. Len(up') : i + 1 \in 1 .. Len(up) /\ up'[i] = up[i + 1]
  BY <1>2, PacketGone
<1> HIDE DEF m
<1>5. m.count \in 1 .. MaxMoveCount /\ m.first \in Nat
  BY <1>4
<1>6. skip = expects - m.first
  <2>1. -(MoveSpace \div 2) <= expects - m.first /\ expects - m.first < MoveSpace \div 2
    <3> DEFINE h == MoveSpace \div 2   d == m.first   c == m.count
    <3>1. /\ h \in Int /\ MaxMoveCount + MaxMissed <= h
          /\ MaxMoveCount \in Nat \ {0} /\ MaxMissed \in Nat \ {0}
      BY MoveConstants
    <3>2. /\ d \in Nat /\ c \in 1 .. MaxMoveCount /\ d + c = expects + missed + 1
          /\ expects \in Nat /\ missed \in 0 .. MaxMissed
      BY <1>3, <1>4, <1>5
    <3> HIDE DEF h, d, c
    <3>3. -h <= expects - d /\ expects - d < h
      BY <3>1, <3>2
    <3>4. QED
      BY <3>3 DEF h, d
  <2>2. \A W \in Nat \ {0} : \A a, b \in Int :
          -(W \div 2) <= a - b /\ a - b < W \div 2 =>
            (((a % W) - (b % W) + W \div 2) % W) - (W \div 2) = a - b
    BY SignedDistance
  <2>3. MoveSpace \in Nat \ {0} /\ expects \in Int /\ m.first \in Int
    BY <1>3, <1>5, MoveConstants
  <2>4. (((expects % MoveSpace) - (m.first % MoveSpace) + MoveSpace \div 2) % MoveSpace)
          - (MoveSpace \div 2) = expects - m.first
    BY <2>1, <2>2, <2>3, Zenon
  <2>5. QED
    BY <1>3, <1>4, <2>4
<1> HIDE DEF skip
<1>7. expects' = m.first + m.count /\ expects' = expects + missed + 1
  BY <1>2, <1>3, <1>4, <1>5
<1>8. /\ new \in Nat
      /\ new = IF expects < m.first THEN m.count ELSE expects' - expects
      /\ waiting' \in Nat /\ expects - waiting <= expects' - waiting'
  <2> DEFINE d == m.first   c == m.count
  <2>1. /\ d \in Nat /\ c \in Nat /\ expects \in Nat /\ missed \in Nat /\ waiting \in Nat
        /\ expects' = d + c /\ expects' = expects + missed + 1
    BY <1>3, <1>5, <1>7, MoveConstants
  <2>2. /\ new = IF expects - d < 0 THEN c ELSE IF expects - d > c THEN 0 ELSE c - (expects - d)
        /\ waiting' = waiting + new
    BY <1>2, <1>6
  <2> HIDE DEF d, c, new
  <2>3. /\ new \in Nat /\ new = IF expects < d THEN c ELSE expects' - expects
        /\ new <= expects' - expects
    <3>1. CASE expects < d
      BY <2>1, <2>2, <3>1
    <3>2. CASE expects >= d
      BY <2>1, <2>2, <3>2
    <3>3. QED
      BY <2>1, <3>1, <3>2
  <2>4. waiting' \in Nat /\ expects - waiting <= expects' - waiting'
    BY <2>1, <2>2, <2>3
  <2>5. QED
    BY <2>3, <2>4 DEF c, d
<1>9. lastAck' = expects' % MoveSpace
  <2>1. CASE expects < m.first
    <3>1. lastAck' = ((m.first % MoveSpace) + m.count) % MoveSpace
      BY <1>2, <1>3, <1>4, <1>5, <1>6, <2>1
    <3>2. ((m.first % MoveSpace) + m.count) % MoveSpace = (m.first + m.count) % MoveSpace
      <4>1. m.first \in Int /\ m.count \in Int
        BY <1>5, MoveConstants
      <4>2. QED
        BY <4>1, MoveNumbers, Zenon
    <3>3. QED
      BY <1>7, <3>1, <3>2
  <2>2. CASE m.first <= expects
    <3>1. lastAck' = ((expects % MoveSpace) + new) % MoveSpace
      BY <1>2, <1>3, <1>5, <1>6, <2>2
    <3>2. expects \in Int /\ new \in Int /\ expects + new = expects'
      BY <1>3, <1>5, <1>7, <1>8, <2>2
    <3> HIDE DEF new
    <3>3. ((expects % MoveSpace) + new) % MoveSpace = (expects + new) % MoveSpace
      BY <3>2, MoveNumbers, Zenon
    <3>4. QED
      BY <3>1, <3>2, <3>3
  <2>3. QED
    BY <1>3, <1>5, <2>1, <2>2
<1> HIDE DEF new
<1>10. ~gap'
  <2>1. ~(m.first > expects /\ missed < MaxMoveCount)
    BY <1>3, <1>4, <1>5, MoveConstants
  <2>2. QED
    BY <1>2, <2>1 DEF MovesInv
<1>11. MovesTyped'
  <2>1. /\ generated' \in Nat /\ expects' \in Nat /\ waiting' \in Nat /\ missed' \in 0 .. MaxMissed
    BY <1>2, <1>3, <1>5, <1>7, <1>8, MoveConstants
  <2>2. /\ up' \in Seq([start : Int, count : 1 .. MaxMoveCount, first : Nat])
        /\ down' \in Seq(Int) /\ moveAck' \in Int
    BY <1>2, <1>4 DEF MovesInv, MovesTyped
  <2>3. QED
    BY <2>1, <2>2 DEF MovesTyped
<1>12. PacketsAre'
  <2>1. ASSUME NEW i \in 1 .. Len(up')
        PROVE  /\ up'[i].start = up'[i].first % MoveSpace
               /\ up'[i].first + up'[i].count = expects' + missed' + i
               /\ up'[i].count = MaxMoveCount \/ up'[i].first <= expects'
    <3>1. /\ up'[i].start = up'[i].first % MoveSpace
          /\ up'[i].first + up'[i].count = expects + missed + (i + 1)
          /\ up'[i].count = MaxMoveCount \/ up'[i].first <= expects
      BY <1>4 DEF MovesInv, PacketsAre
    <3>2. up'[i].first \in Nat /\ up'[i].count \in Nat
      <4> DEFINE Packets == [start : Int, count : 1 .. MaxMoveCount, first : Nat]
      <4>1. up' \in Seq(Packets)
        BY <1>4
      <4> HIDE DEF Packets
      <4>2. up'[i] \in Packets
        BY <4>1
      <4>3. QED
        BY <4>2, MoveConstants DEF Packets
    <3> DEFINE a == up'[i].first   c == up'[i].count
    <3>3. a \in Nat /\ c \in Nat /\ a + c = expects + missed + (i + 1)
      BY <3>1, <3>2
    <3>4. c = MaxMoveCount \/ a <= expects
      BY <3>1
    <3> HIDE DEF a, c
    <3>5. a + c = expects' + missed' + i /\ (c = MaxMoveCount \/ a <= expects')
      BY <1>2, <1>3, <1>7, <3>3, <3>4, SMTT(30)
    <3>6. QED
      BY <3>1, <3>5 DEF a, c
  <2>2. QED
    BY <2>1 DEF PacketsAre
<1>13. AcksAre(f)'
  <2>1. \A i \in 0 .. Len(down) : f[i] \in Nat /\ f[i] + waiting <= expects
    BY <1>1, AckBounds
  <2>2. \A i \in 0 .. Len(down) : f[i] + waiting' <= expects'
    BY <1>3, <1>7, <1>8, <2>1, SMTT(30)
  <2>3. QED
    BY <1>1, <1>2, <2>2 DEF AcksAre
<1>14. generated' = expects' + missed' + Len(up')
  <2>1. generated = expects + missed + Len(up) /\ missed \in Nat
    BY <1>3 DEF MovesInv
  <2>2. QED
    BY <1>2, <1>3, <1>4, <1>7, <2>1, SMTT(30)
<1>15. QED
  BY <1>2, <1>9, <1>10, <1>11, <1>12, <1>13, <1>14 DEF MovesInv

LEMMA ServerTicksStep ==
    ASSUME MovesInv, ServerTicks
    PROVE  MovesInv'
<1>1. PICK f : AcksAre(f)
  BY DEF MovesInv
<1>2. /\ waiting > 0 /\ waiting' = waiting - 1
      /\ UNCHANGED <<nextMove, moveAck, generated, up, down, lastAck, expects, missed, gap>>
  BY DEF ServerTicks
<1>3. waiting \in Nat /\ expects \in Nat
  BY DEF MovesInv, MovesTyped
<1>4. \A i \in 0 .. Len(down) : f[i] + waiting' <= expects
  BY <1>1, <1>2, <1>3, AckBounds
<1>5. AcksAre(f)'
  BY <1>1, <1>2, <1>4 DEF AcksAre
<1>6. QED
  BY <1>2, <1>3, <1>5 DEF MovesInv, MovesTyped, PacketsAre

LEMMA ServerWritesStep ==
    ASSUME MovesInv, ServerWrites
    PROVE  MovesInv'
<1> DEFINE a == (lastAck - waiting) % MoveSpace
<1>1. PICK f : AcksAre(f)
  BY DEF MovesInv
<1> DEFINE n == Len(down) + 1
<1>2. /\ down' = Append(down, a)
      /\ UNCHANGED <<nextMove, moveAck, generated, up, lastAck, waiting, expects, missed, gap>>
  BY DEF ServerWrites
<1>3. /\ \A i \in 0 .. Len(down) : f[i] \in Nat /\ f[i] + waiting <= expects
      /\ f[0] \in Nat /\ expects \in Nat /\ waiting \in Nat /\ Len(down) \in Nat
  BY <1>1, AckBounds
<1>4. expects - waiting \in Nat
  BY <1>3
<1>5. a = (expects - waiting) % MoveSpace /\ a \in Int
  <2>1. lastAck = expects % MoveSpace /\ expects \in Int /\ waiting \in Int
    BY <1>3 DEF MovesInv
  <2>2. ((expects % MoveSpace) - waiting) % MoveSpace = (expects - waiting) % MoveSpace
    BY <2>1, MoveNumbers, Zenon
  <2>3. QED
    BY <1>4, <2>1, <2>2, MoveNumbers
<1> HIDE DEF a
<1>6. /\ down' \in Seq(Int) /\ Len(down') = n /\ down'[n] = a
      /\ \A i \in 1 .. Len(down) : down'[i] = down[i]
  BY <1>2, <1>3, <1>5 DEF MovesInv, MovesTyped
<1>7. PICK g : /\ g \in [0 .. n -> Nat] /\ g[n] = expects - waiting
               /\ \A i \in 0 .. Len(down) : g[i] = f[i]
  <2> DEFINE g == [i \in 0 .. n |-> IF i = n THEN expects - waiting ELSE f[i]]
  <2>1. /\ g \in [0 .. n -> Nat] /\ g[n] = expects - waiting
        /\ \A i \in 0 .. Len(down) : g[i] = f[i]
    BY <1>3, <1>4
  <2>2. QED
    BY <2>1, Zenon
<1>8. AcksAre(g)'
  <2>1. /\ g \in [0 .. n -> Nat] /\ g[n] = expects - waiting
        /\ \A i \in 0 .. Len(down) : g[i] = f[i]
        /\ \A i \in 0 .. n : i = n \/ i \in 0 .. Len(down)
        /\ 0 \in 0 .. Len(down)
    BY <1>3, <1>7
  <2>2. moveAck = g[0] % MoveSpace /\ generated - g[0] <= MaxUnacked
    BY <1>1, <2>1 DEF AcksAre
  <2>3. \A i \in 1 .. n : down'[i] = g[i] % MoveSpace
    <3>1. \A i \in 1 .. Len(down) : i \in 0 .. Len(down) /\ down'[i] = f[i] % MoveSpace
      BY <1>1, <1>6 DEF AcksAre
    <3>2. down'[n] = g[n] % MoveSpace
      BY <1>5, <1>6, <2>1
    <3>3. \A i \in 1 .. n : i = n \/ i \in 1 .. Len(down)
      BY <1>3
    <3>4. QED
      BY <2>1, <3>1, <3>2, <3>3, Zenon
  <2>4. \A i \in 0 .. n : g[i] + waiting <= expects
    BY <1>3, <2>1
  <2>5. \A i, j \in 0 .. n : i <= j => g[i] <= g[j]
    <3>1. ASSUME NEW i \in 0 .. n, NEW j \in 0 .. n, i <= j PROVE g[i] <= g[j]
      <4>1. CASE j = n
        BY <1>3, <2>1, <2>4, <4>1
      <4>2. CASE j # n
        <5>1. i \in 0 .. Len(down) /\ j \in 0 .. Len(down)
          BY <1>3, <3>1, <4>2
        <5>2. QED
          BY <1>1, <2>1, <3>1, <5>1 DEF AcksAre
      <4>3. QED
        BY <4>1, <4>2
    <3>2. QED
      BY <3>1
  <2>6. QED
    BY <1>2, <1>6, <2>1, <2>2, <2>3, <2>4, <2>5 DEF AcksAre
<1>9. QED
  BY <1>2, <1>6, <1>8 DEF MovesInv, MovesTyped, PacketsAre

LEMMA ReadHeaderStep ==
    ASSUME MovesInv, ReadHeader
    PROVE  MovesInv'
<1>1. PICK f : AcksAre(f)
  BY DEF MovesInv
<1> DEFINE n == Len(down) - 1
<1>2. /\ down # <<>> /\ down' = Tail(down) /\ moveAck' \in {moveAck, Head(down)}
      /\ UNCHANGED <<nextMove, generated, up, lastAck, waiting, expects, missed, gap>>
  BY DEF ReadHeader
<1>3. /\ down \in Seq(Int) /\ moveAck \in Int
      /\ \A i \in 0 .. Len(down) : f[i] \in Nat /\ f[i] + waiting <= expects /\ f[0] <= f[i]
      /\ f[0] \in Nat /\ expects \in Nat /\ waiting \in Nat /\ generated \in Nat
  BY <1>1, AckBounds DEF MovesInv, MovesTyped
<1>4. /\ down' \in Seq(Int) /\ Len(down') = n /\ n \in Nat /\ Head(down) = down[1] /\ Head(down) \in Int
      /\ \A i \in 1 .. n : down'[i] = down[i + 1] /\ i + 1 \in 1 .. Len(down)
      /\ \A i \in 0 .. n : i + 1 \in 0 .. Len(down) /\ i \in 0 .. Len(down)
      /\ 1 \in 1 .. Len(down)
  BY <1>2, <1>3
<1>5. PICK g \in [0 .. n -> Nat] :
        /\ \A i \in 1 .. n : g[i] = f[i + 1]
        /\ g[0] = IF moveAck' = moveAck THEN f[0] ELSE f[1]
        /\ 0 \in 0 .. n
  <2> DEFINE first == IF moveAck' = moveAck THEN f[0] ELSE f[1]
  <2>1. 0 \in 0 .. n /\ 1 \in 0 .. Len(down) /\ first \in Nat
    BY <1>3, <1>4
  <2> DEFINE g == [i \in 0 .. n |-> IF i = 0 THEN first ELSE f[i + 1]]
  <2> HIDE DEF first
  <2>2. /\ g \in [0 .. n -> Nat] /\ g[0] = first
        /\ \A i \in 1 .. n : g[i] = f[i + 1]
    BY <1>3, <1>4, <2>1, SMTT(30)
  <2>3. QED
    BY <2>1, <2>2, Zenon DEF first
<1>6. moveAck' = g[0] % MoveSpace /\ moveAck' \in Int
  BY <1>1, <1>2, <1>3, <1>4, <1>5 DEF AcksAre
<1>7. \A i \in 1 .. n : down'[i] = g[i] % MoveSpace
  BY <1>1, <1>4, <1>5 DEF AcksAre
<1>8. \A i \in 0 .. n : g[i] + waiting <= expects
  <2>1. ASSUME NEW i \in 0 .. n PROVE \E j \in 0 .. Len(down) : g[i] = f[j]
    <3>1. CASE i = 0
      <4>1. 0 \in 0 .. Len(down) /\ 1 \in 0 .. Len(down)
        BY <1>4
      <4>2. QED
        BY <1>5, <3>1, <4>1
    <3>2. CASE i # 0
      <4>1. i \in 1 .. n /\ i + 1 \in 0 .. Len(down)
        BY <1>4, <3>2
      <4>2. QED
        BY <1>5, <4>1
    <3>3. QED
      BY <3>1, <3>2
  <2>2. QED
    BY <1>3, <2>1
<1>9. f[0] <= g[0] /\ g[0] <= f[1]
  BY <1>3, <1>4, <1>5, SMTT(30)
<1>10. ASSUME NEW i \in 0 .. n, NEW j \in 0 .. n, i <= j PROVE g[i] <= g[j]
  <2>1. \A k, l \in 0 .. Len(down) : k <= l => f[k] <= f[l]
    BY <1>1 DEF AcksAre
  <2>2. CASE i = 0
    <3>1. j = 0 \/ (j \in 1 .. n /\ g[j] = f[j + 1] /\ f[1] <= f[j + 1])
      BY <1>4, <1>5, <2>1
    <3>2. QED
      BY <1>3, <1>4, <1>5, <1>9, <2>2, <3>1
  <2>3. CASE i # 0
    <3>1. i \in 1 .. n /\ j \in 1 .. n
      BY <1>4, <1>10, <2>3
    <3>2. QED
      BY <1>4, <1>5, <1>10, <2>1, <3>1
  <2>4. QED
    BY <2>2, <2>3
<1>11. generated - g[0] <= MaxUnacked
  BY <1>1, <1>3, <1>5, <1>9, MoveConstants, SMTT(30) DEF AcksAre
<1>12. AcksAre(g)'
  BY <1>2, <1>4, <1>5, <1>6, <1>7, <1>8, <1>10, <1>11 DEF AcksAre
<1>13. QED
  BY <1>2, <1>4, <1>6, <1>12 DEF MovesInv, MovesTyped, PacketsAre

\* The server takes every move once and in order, unless MaxMoveCount packets in a row are
\* lost, whatever the numbers wrap at and however late the acknowledgements are
\* (phases.py 802-843).
THEOREM MovesHold == MovesSpec => []MovesInOrder
<1>1. MovesInv /\ [MovesNext]_moveVars => MovesInv'
  <2> SUFFICES ASSUME MovesInv, [MovesNext]_moveVars PROVE MovesInv'
    OBVIOUS
  <2>1. CASE UNCHANGED moveVars
    BY <2>1 DEF moveVars, MovesInv, MovesTyped, PacketsAre, AcksAre
  <2>2. QED
    BY <2>1, WriteMovesStep, LoseMovesStep, ServerReadsStep, ServerTicksStep, ServerWritesStep,
       ReadHeaderStep DEF MovesNext
<1>2. MovesInv => MovesInOrder
  <2> SUFFICES ASSUME MovesInv, NEW i \in 1 .. Len(up)
               PROVE  up[i].count >= 1 /\ up[i].start = up[i].first % MoveSpace
    BY DEF MovesInv, MovesInOrder
  <2>1. up[i].count \in 1 .. MaxMoveCount
    <3> DEFINE Packets == [start : Int, count : 1 .. MaxMoveCount, first : Nat]
    <3>1. up \in Seq(Packets)
      BY DEF MovesInv, MovesTyped
    <3> HIDE DEF Packets
    <3>2. up[i] \in Packets
      BY <3>1
    <3>3. QED
      BY <3>2 DEF Packets
  <2>2. QED
    BY <2>1, MoveConstants DEF MovesInv, PacketsAre
<1>3. QED
  BY InitMoves, <1>1, <1>2, PTL DEF MovesSpec
=============================================================================
