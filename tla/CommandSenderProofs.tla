------------------------- MODULE CommandSenderProofs -------------------------
(***************************************************************************)
(* Theorems about CommandSender, for every size of the window, of the      *)
(* string table and of the event numbers, any verbs and any number of      *)
(* commands and packets.                                                   *)
(*                                                                         *)
(* The queue is read as a set of events, each under the number it has or   *)
(* will get when it is written (Out): its operations add to that set, mark *)
(* events with a packet and take events away, and the order in which the   *)
(* code keeps them no longer matters.  With what the server still holds,   *)
(* the events not yet processed form a stream without gaps (Stream).       *)
(* Tables says that the stream, run from the server's table, gives every   *)
(* command its verb and ends in the client's table; Journal that the       *)
(* commands executed and those of the stream are the ones issued.          *)
(***************************************************************************)
EXTENDS CommandSender, FiniteSetTheorems, SequenceTheorems, TLAPS

-----------------------------------------------------------------------------
(* The inductive invariant *)

Wire(e) == [kind |-> e.kind, slot |-> e.slot, verb |-> e.verb, seq |-> e.seq]

Kinds == {"string", "command"}
Pend == [kind : Kinds, slot : Slots, verb : Verbs, seq : Nat \union {-1}, packet : Nat]

\* Events that have been written have a number, each another.
Queue(q) ==
    /\ q \in Seq(Pend)
    /\ \A i \in DOMAIN q : q[i].seq < nextSendSeq /\ (q[i].packet # 0 => q[i].seq # -1)
    /\ \A i, j \in DOMAIN q : i # j /\ q[i].seq # -1 => q[i].seq # q[j].seq

\* The events of a queue under the numbers they have or will get, and the next number.
OutOf(q) == {Numbered(q)[i] : i \in DOMAIN q}
TotalOf(q) == nextSendSeq + Cardinality(Unnumbered(q))
Out == OutOf(outQueue)
Total == TotalOf(outQueue)

Links ==
    /\ sent \in Nat /\ received \in 0 .. sent /\ judged \in 0 .. received
    /\ taken \subseteq 1 .. received
    /\ delivered = {i \in taken : i <= judged}

\* A slot in use is in the LRU list.
SlotsUsed ==
    /\ slotToStr \in [Slots -> Verbs \union {NoVerb}] /\ lru \in Seq(Slots)
    /\ \A s \in Slots : slotToStr[s] # NoVerb => \E i \in DOMAIN lru : lru[i] = s

\* Event n has reached the server.
Got(n) == n < nextRecvSeq \/ \E w \in waiting : w.seq = n

\* An event is in the queue O until the verdict on its packet, and that packet carries
\* what the queue holds; the server has it exactly if it has taken the packet.  There
\* are n packets, k of them judged, with the cargo c.
Flight(O, n, k, c) ==
    /\ \A e \in O : e.packet # 0 => e.packet \in k + 1 .. n /\ Wire(e) \in c[e.packet]
    /\ \A i \in received + 1 .. n : \A w \in c[i] : \E e \in O : e.packet = i /\ Wire(e) = w
    /\ \A e \in O : e.packet \in taken <=> Got(e.seq)

\* What has arrived is what was sent, once.
Arrived(O, total) ==
    /\ nextRecvSeq \in Nat /\ nextRecvSeq <= total
    /\ waiting \subseteq WireEvent
    /\ \A w \in waiting : nextRecvSeq <= w.seq /\ w.seq < total
    /\ \A w, x \in waiting : w.seq = x.seq => w = x
    /\ \A w \in waiting, e \in O : w.seq = e.seq => w = Wire(e)

\* No event is gone before it has arrived.
Outstanding(O, total) == \A n \in 0 .. total - 1 : Got(n) \/ \E e \in O : e.seq = n

Spanned(O) == \A d, e \in O : e.seq - d.seq < MaxSpan

Sound(O, total, n, k, c) ==
    Flight(O, n, k, c) /\ Arrived(O, total) /\ Outstanding(O, total)

\* The events the server has not processed.
Stream(O) == waiting \union {Wire(e) : e \in {d \in O : nextRecvSeq <= d.seq}}

\* When the server has processed the stream S up to n its slot s holds v.
Taught(S, s, n) == {w \in S : w.kind = "string" /\ w.slot = s /\ w.seq < n}
Says(S, s, v, n) ==
    \/ \E w \in Taught(S, s, n) : w.verb = v /\ \A x \in Taught(S, s, n) : x.seq <= w.seq
    \/ Taught(S, s, n) = {} /\ serverTable[s] = v

Tables(S, total, table) ==
    /\ serverTable \in [Slots -> Verbs \union {NoVerb}]
    /\ \A w \in S : w.kind = "command" => Says(S, w.slot, w.verb, w.seq)
    /\ \A s \in Slots : Says(S, s, table[s], total)

Commands(S) == {w.seq : w \in {x \in S : x.kind = "command"}}

Journal(S, verbs) ==
    /\ verbs \in Seq(Verbs) /\ executed \in Seq(Verbs)
    /\ Len(executed) + Cardinality(Commands(S)) = Len(verbs)
    /\ \A j \in 1 .. Len(executed) : executed[j] = verbs[j]
    /\ \A w \in S : w.kind = "command" =>
         verbs[Len(executed) + Cardinality({n \in Commands(S) : n <= w.seq})] = w.verb

CommandInv ==
    /\ nextSendSeq \in Nat /\ Queue(outQueue) /\ SlotsUsed
    /\ Links
    /\ Sound(Out, Total, sent, judged, cargo) /\ Spanned(Out)
    /\ Tables(Stream(Out), Total, slotToStr)
    /\ Journal(Stream(Out), issued)

-----------------------------------------------------------------------------
(* Finite sets of numbers *)

LEMMA LeastExists ==
    ASSUME NEW T \in SUBSET Nat, T # {}
    PROVE  \E x \in T : \A y \in T : x <= y
<1>1. PICK x \in T : \A y \in T : ~ (<<y, x>> \in OpToRel(<, Nat))
  BY NatLessThanWellFounded, WFMin
<1>2. ASSUME NEW y \in T
      PROVE  x <= y
  <2>1. ~(y < x)
    BY <1>1 DEF OpToRel
  <2>2. QED
    BY <2>1
<1>3. QED
  BY <1>2

LEMMA MinIs ==
    ASSUME NEW T \in SUBSET Nat, T # {}
    PROVE  Min(T) \in T /\ \A y \in T : Min(T) <= y
BY LeastExists DEF Min

LEMMA MaxIs ==
    ASSUME NEW T \in SUBSET Nat, T # {}, NEW b \in Nat, \A x \in T : x <= b
    PROVE  Max(T) \in T /\ \A y \in T : y <= Max(T)
<1> DEFINE Above == {n \in Nat : \A x \in T : x <= n}
<1>1. PICK m \in Above : \A n \in Above : m <= n
  BY LeastExists
<1>2. m \in T
  <2> SUFFICES ASSUME m \notin T PROVE FALSE
    OBVIOUS
  <2>1. PICK x \in T : TRUE
    OBVIOUS
  <2>2. m \in Nat /\ \A y \in T : y < m
    OBVIOUS
  <2>3. m - 1 \in Above
    BY <2>1, <2>2
  <2>4. QED
    BY <1>1, <2>2, <2>3
<1>3. \E x \in T : \A y \in T : x >= y
  BY <1>2
<1>4. QED
  BY <1>3 DEF Max

\* The rank of an element of a finite set of numbers.
Rank(I, i) == Cardinality({j \in I : j < i})

LEMMA Ranks ==
    ASSUME NEW I \in SUBSET Nat, IsFiniteSet(I)
    PROVE  /\ Cardinality(I) \in Nat
           /\ \A i \in I : Rank(I, i) \in 0 .. Cardinality(I) - 1
           /\ \A i, j \in I : i < j => Rank(I, i) < Rank(I, j)
           /\ \A k \in 0 .. Cardinality(I) - 1 : \E i \in I : Rank(I, i) = k
<1>1. Cardinality(I) \in Nat
  BY FS_CardinalityType
<1>2. ASSUME NEW i \in I, NEW T \in SUBSET I, \A j \in I : j < i => j \in T, i \in T
      PROVE  Rank(I, i) \in Nat /\ Rank(I, i) < Cardinality(T)
  <2> DEFINE S == {j \in I : j < i}
  <2>1. IsFiniteSet(T) /\ IsFiniteSet(S) /\ S \in SUBSET T /\ S # T
    <3>1. i \in T /\ i \notin S /\ \A j \in S : j \in T
      BY <1>2
    <3> HIDE DEF S
    <3>2. IsFiniteSet(T)
      BY FS_Subset
    <3>3. QED
      BY <3>1, <3>2, FS_Subset
  <2>2. Cardinality(S) \in Nat /\ Cardinality(T) \in Nat
    BY <2>1, FS_CardinalityType
  <2>3. Cardinality(S) <= Cardinality(T) /\ (Cardinality(S) = Cardinality(T) => T = S)
    BY <2>1, FS_Subset
  <2>4. QED
    BY <2>1, <2>2, <2>3 DEF Rank
<1>3. \A i \in I : Rank(I, i) \in 0 .. Cardinality(I) - 1
  BY <1>1, <1>2
<1>4. ASSUME NEW i \in I, NEW j \in I, i < j
      PROVE  Rank(I, i) < Rank(I, j)
  <2> DEFINE T == {k \in I : k < j}
  <2>1. T \in SUBSET I /\ i \in T /\ \A k \in I : k < i => k \in T
    BY <1>4
  <2>2. QED
    BY <1>2, <2>1 DEF Rank
<1>5. ASSUME NEW k \in 0 .. Cardinality(I) - 1
      PROVE  \E i \in I : Rank(I, i) = k
  <2> DEFINE T == 0 .. Cardinality(I) - 1
             f == [i \in I |-> Rank(I, i)]
  <2>1. f \in Injection(I, T)
    <3>1. f \in [I -> T]
      BY <1>3
    <3>2. ASSUME NEW i \in I, NEW j \in I, f[i] = f[j]
          PROVE  i = j
      <4>1. Rank(I, i) = Rank(I, j) /\ Rank(I, i) \in Nat
        BY <1>3, <3>2
      <4>2. ~(i < j) /\ ~(j < i)
        BY <1>4, <4>1
      <4>3. QED
        BY <4>2
    <3> HIDE DEF f, T
    <3>3. QED
      BY <3>1, <3>2 DEF Injection, IsInjective
  <2>2. IsFiniteSet(T) /\ Cardinality(T) = Cardinality(I)
    BY <1>1, FS_Interval
  <2>3. f \in Surjection(I, T)
    BY <2>1, <2>2, FS_Injection
  <2>4. QED
    BY <2>3 DEF Surjection
<1>6. QED
  BY <1>1, <1>3, <1>4, <1>5

\* At keeps the elements at I, in their order.
LEMMA AtIs ==
    ASSUME NEW S, NEW q \in Seq(S), NEW I \in SUBSET DOMAIN q
    PROVE  /\ At(q, I) \in Seq(S) /\ IsFiniteSet(I)
           /\ \E p \in [DOMAIN At(q, I) -> I] :
                /\ \A k \in DOMAIN At(q, I) : At(q, I)[k] = q[p[k]]
                /\ \A i \in I : \E k \in DOMAIN At(q, I) : p[k] = i
                /\ \A k, l \in DOMAIN At(q, I) : k < l => p[k] < p[l]
<1>1. DOMAIN q = 1 .. Len(q) /\ Len(q) \in Nat
  OBVIOUS
<1>2. I \in SUBSET Nat /\ IsFiniteSet(I)
  <2>1. IsFiniteSet(1 .. Len(q)) /\ I \in SUBSET (1 .. Len(q))
    BY <1>1, FS_Interval
  <2>2. QED
    BY <2>1, FS_Subset
<1> DEFINE n == Cardinality(I)
           p == [k \in 1 .. n |-> CHOOSE i \in I : Rank(I, i) = k - 1]
<1>3. n \in Nat
  BY <1>2, Ranks
<1>4. At(q, I) = [k \in 1 .. n |-> q[p[k]]]
  BY DEF At, Rank
<1>5. ASSUME NEW k \in 1 .. n
      PROVE  p[k] \in I /\ Rank(I, p[k]) = k - 1
  <2>1. k - 1 \in 0 .. n - 1
    BY <1>3
  <2>2. \E i \in I : Rank(I, i) = k - 1
    BY <1>2, <2>1, Ranks
  <2>3. QED
    BY <2>2
<1> HIDE DEF p
<1>6. At(q, I) \in Seq(S) /\ DOMAIN At(q, I) = 1 .. n
  <2>1. \A k \in 1 .. n : q[p[k]] \in S
    BY <1>1, <1>5
  <2>2. QED
    BY <1>3, <1>4, <2>1
<1>7. p \in [1 .. n -> I]
  BY <1>5 DEF p
<1>8. ASSUME NEW i \in I
      PROVE  \E k \in 1 .. n : p[k] = i
  <2>1. Rank(I, i) \in 0 .. n - 1
    BY <1>2, Ranks
  <2> DEFINE k == Rank(I, i) + 1
  <2>2. k \in 1 .. n /\ Rank(I, p[k]) = Rank(I, i) /\ p[k] \in I
    BY <1>3, <1>5, <2>1
  <2>3. p[k] = i
    BY <1>2, <2>1, <2>2, Ranks, SMTT(30)
  <2>4. QED
    BY <2>2, <2>3
<1>9. ASSUME NEW k \in 1 .. n, NEW l \in 1 .. n, k < l
      PROVE  p[k] < p[l]
  <2>1. /\ p[k] \in I /\ p[l] \in I /\ p[k] \in Nat /\ p[l] \in Nat
        /\ Rank(I, p[k]) = k - 1 /\ Rank(I, p[l]) = l - 1
    BY <1>2, <1>5
  <2>2. p[l] < p[k] => Rank(I, p[l]) < Rank(I, p[k])
    BY <1>2, <2>1, Ranks
  <2>3. QED
    BY <1>3, <1>9, <2>1, <2>2
<1>10. p \in [DOMAIN At(q, I) -> I]
  BY <1>6, <1>7
<1>11. \A k \in DOMAIN At(q, I) : At(q, I)[k] = q[p[k]]
  BY <1>4, <1>6
<1>12. QED
  BY <1>2, <1>6, <1>8, <1>9, <1>10, <1>11

-----------------------------------------------------------------------------
(* The queue as a set *)

LEMMA Renumbered ==
    ASSUME NEW e \in Pend, NEW n \in Nat
    PROVE  LET d == [e EXCEPT !.seq = n]
           IN  /\ d.kind = e.kind /\ d.slot = e.slot /\ d.verb = e.verb
               /\ d.packet = e.packet /\ d.seq = n
BY DEF Pend

LEMMA Numbering ==
    ASSUME nextSendSeq \in Nat, NEW q, Queue(q)
    PROVE  LET N == Numbered(q)
           IN  /\ TotalOf(q) \in Nat /\ nextSendSeq <= TotalOf(q)
               /\ IsFiniteSet(Unnumbered(q)) /\ Unnumbered(q) \in SUBSET Nat
               /\ DOMAIN N = DOMAIN q
               /\ \A i \in DOMAIN q :
                    /\ N[i].kind = q[i].kind /\ N[i].slot = q[i].slot
                    /\ N[i].verb = q[i].verb /\ N[i].packet = q[i].packet
                    /\ N[i].seq = IF q[i].seq = -1 THEN nextSendSeq + Rank(Unnumbered(q), i)
                                  ELSE q[i].seq
                    /\ N[i].seq \in 0 .. TotalOf(q) - 1
                    /\ q[i].seq = -1 <=> nextSendSeq <= N[i].seq
               /\ \A i, j \in DOMAIN q : N[i].seq = N[j].seq => i = j
               /\ \A n \in nextSendSeq .. TotalOf(q) - 1 : \E i \in DOMAIN q : N[i].seq = n
<1> DEFINE N == Numbered(q)   U == Unnumbered(q)
<1>1. /\ q \in Seq(Pend) /\ DOMAIN q = 1 .. Len(q) /\ Len(q) \in Nat
      /\ \A i \in DOMAIN q : q[i] \in Pend
  BY DEF Queue
<1>2. U \in SUBSET Nat /\ IsFiniteSet(U) /\ \A i \in DOMAIN q : i \in U <=> q[i].seq = -1
  <2>1. IsFiniteSet(1 .. Len(q)) /\ U \in SUBSET (1 .. Len(q))
    BY <1>1, FS_Interval DEF Unnumbered
  <2>2. IsFiniteSet(U)
    BY <2>1, FS_Subset
  <2>3. QED
    BY <2>1, <2>2 DEF Unnumbered
<1>3. /\ Cardinality(U) \in Nat
      /\ \A i \in U : Rank(U, i) \in 0 .. Cardinality(U) - 1
      /\ \A i, j \in U : i < j => Rank(U, i) < Rank(U, j)
      /\ \A k \in 0 .. Cardinality(U) - 1 : \E i \in U : Rank(U, i) = k
  BY <1>2, Ranks
<1>4. TotalOf(q) = nextSendSeq + Cardinality(U)
  BY DEF TotalOf
<1>5. N = [i \in DOMAIN q |-> IF q[i].seq = -1
                              THEN [q[i] EXCEPT !.seq = nextSendSeq + Rank(U, i)] ELSE q[i]]
  BY DEF Numbered, Rank
<1> HIDE DEF N, U
<1>6. ASSUME NEW i \in DOMAIN q
      PROVE  /\ N[i].kind = q[i].kind /\ N[i].slot = q[i].slot
             /\ N[i].verb = q[i].verb /\ N[i].packet = q[i].packet
             /\ N[i].seq = IF q[i].seq = -1 THEN nextSendSeq + Rank(U, i) ELSE q[i].seq
             /\ N[i].seq \in 0 .. TotalOf(q) - 1
             /\ q[i].seq = -1 <=> nextSendSeq <= N[i].seq
  <2>1. CASE q[i].seq = -1
    <3>1. Rank(U, i) \in 0 .. Cardinality(U) - 1 /\ N[i] = [q[i] EXCEPT !.seq = nextSendSeq + Rank(U, i)]
      BY <1>2, <1>3, <1>5, <2>1
    <3>2. nextSendSeq + Rank(U, i) \in Nat
      BY <1>3, <3>1
    <3>3. /\ N[i].kind = q[i].kind /\ N[i].slot = q[i].slot
          /\ N[i].verb = q[i].verb /\ N[i].packet = q[i].packet
          /\ N[i].seq = nextSendSeq + Rank(U, i)
      BY <1>1, <3>1, <3>2, Renumbered
    <3>4. QED
      BY <1>3, <1>4, <2>1, <3>1, <3>3
  <2>2. CASE q[i].seq # -1
    <3>1. N[i] = q[i] /\ q[i].seq \in Nat /\ q[i].seq < nextSendSeq
      BY <1>1, <1>5, <2>2 DEF Queue, Pend
    <3>2. QED
      BY <1>3, <1>4, <2>2, <3>1
  <2>3. QED
    BY <2>1, <2>2
<1>7. ASSUME NEW i \in DOMAIN q, NEW j \in DOMAIN q, N[i].seq = N[j].seq
      PROVE  i = j
  <2>1. q[i].seq = -1 <=> q[j].seq = -1
    BY <1>6, <1>7
  <2>2. CASE q[i].seq = -1
    <3>1. i \in U /\ j \in U /\ Rank(U, i) = Rank(U, j) /\ i \in Nat /\ j \in Nat
      BY <1>2, <1>3, <1>6, <1>7, <2>1, <2>2
    <3>2. ~(i < j) /\ ~(j < i)
      BY <1>3, <3>1
    <3>3. QED
      BY <3>1, <3>2
  <2>3. CASE q[i].seq # -1
    BY <1>6, <1>7, <2>1, <2>3 DEF Queue
  <2>4. QED
    BY <2>2, <2>3
<1>8. ASSUME NEW n \in nextSendSeq .. TotalOf(q) - 1
      PROVE  \E i \in DOMAIN q : N[i].seq = n
  <2>1. n - nextSendSeq \in 0 .. Cardinality(U) - 1
    BY <1>3, <1>4
  <2>2. PICK i \in U : Rank(U, i) = n - nextSendSeq
    BY <1>3, <2>1
  <2>3. i \in DOMAIN q /\ q[i].seq = -1
    BY DEF U, Unnumbered
  <2>4. QED
    BY <1>6, <2>2, <2>3
<1>9. DOMAIN N = DOMAIN q
  BY <1>5
<1>10. TotalOf(q) \in Nat /\ nextSendSeq <= TotalOf(q)
  BY <1>3, <1>4
<1>11. QED
  BY <1>2, <1>6, <1>7, <1>8, <1>9, <1>10 DEF N, U

LEMMA OutFacts ==
    ASSUME nextSendSeq \in Nat, NEW q, Queue(q)
    PROVE  /\ TotalOf(q) \in Nat /\ nextSendSeq <= TotalOf(q)
           /\ \A e \in OutOf(q) :
                /\ e.kind \in Kinds /\ e.slot \in Slots /\ e.verb \in Verbs
                /\ e.seq \in 0 .. TotalOf(q) - 1 /\ e.seq \in Nat /\ e.packet \in Nat
                /\ e.packet # 0 => e.seq < nextSendSeq
           /\ \A d, e \in OutOf(q) : d.seq = e.seq => d = e
           /\ \A n \in nextSendSeq .. TotalOf(q) - 1 : \E e \in OutOf(q) : e.seq = n
<1> DEFINE N == Numbered(q)
<1>1. /\ TotalOf(q) \in Nat /\ nextSendSeq <= TotalOf(q)
      /\ \A i \in DOMAIN q :
           /\ N[i].kind = q[i].kind /\ N[i].slot = q[i].slot
           /\ N[i].verb = q[i].verb /\ N[i].packet = q[i].packet
           /\ N[i].seq \in 0 .. TotalOf(q) - 1
           /\ q[i].seq = -1 <=> nextSendSeq <= N[i].seq
      /\ \A i, j \in DOMAIN q : N[i].seq = N[j].seq => i = j
      /\ \A n \in nextSendSeq .. TotalOf(q) - 1 : \E i \in DOMAIN q : N[i].seq = n
  BY Numbering
<1>2. OutOf(q) = {N[i] : i \in DOMAIN q}
  BY DEF OutOf
<1> HIDE DEF N
<1>3. \A i \in DOMAIN q : q[i] \in Pend /\ (q[i].packet # 0 => q[i].seq # -1)
  BY DEF Queue
<1>4. ASSUME NEW i \in DOMAIN q
      PROVE  /\ N[i].kind \in Kinds /\ N[i].slot \in Slots /\ N[i].verb \in Verbs
             /\ N[i].seq \in 0 .. TotalOf(q) - 1 /\ N[i].seq \in Nat /\ N[i].packet \in Nat
             /\ N[i].packet # 0 => N[i].seq < nextSendSeq
  <2>1. q[i] \in Pend /\ q[i].kind \in Kinds /\ q[i].slot \in Slots /\ q[i].verb \in Verbs /\ q[i].packet \in Nat
    BY <1>3 DEF Pend
  <2>2. N[i].seq \in Nat
    BY <1>1
  <2>3. QED
    BY <1>1, <1>3, <2>1, <2>2
<1>5. QED
  BY <1>1, <1>2, <1>4

LEMMA Appending ==
    ASSUME nextSendSeq \in Nat, NEW q, Queue(q),
           NEW kind \in Kinds, NEW s \in Slots, NEW v \in Verbs
    PROVE  LET r == Append(q, Pending(kind, s, v))
           IN  /\ Queue(r) /\ TotalOf(r) = TotalOf(q) + 1
               /\ \E e : /\ OutOf(r) = OutOf(q) \union {e}
                         /\ e.kind = kind /\ e.slot = s /\ e.verb = v
                         /\ e.seq = TotalOf(q) /\ e.packet = 0
<1> DEFINE ev == Pending(kind, s, v)   r == Append(q, ev)   L == Len(q)
           U == Unnumbered(q)
<1>1. ev \in Pend /\ ev.seq = -1 /\ ev.packet = 0 /\ ev.kind = kind /\ ev.slot = s /\ ev.verb = v
  BY DEF Pending, Pend
<1> HIDE DEF ev
<1>2. /\ q \in Seq(Pend) /\ L \in Nat /\ DOMAIN q = 1 .. L
      /\ r \in Seq(Pend) /\ DOMAIN r = 1 .. L + 1
      /\ \A i \in 1 .. L : r[i] = q[i]
      /\ r[L + 1] = ev
  BY <1>1 DEF Queue
<1> HIDE DEF r, L, U
<1>3. Queue(r)
  BY <1>1, <1>2 DEF Queue
<1>4. U = {i \in 1 .. L : q[i].seq = -1} /\ IsFiniteSet(U)
  BY <1>2, Numbering DEF U, Unnumbered
<1>5. Unnumbered(r) = U \union {L + 1} /\ L + 1 \notin U
  <2>1. \A i \in 1 .. L + 1 : r[i].seq = -1 <=> i \in U \union {L + 1}
    BY <1>1, <1>2, <1>4
  <2>2. U \union {L + 1} \subseteq 1 .. L + 1
    BY <1>2, <1>4
  <2>3. QED
    BY <1>2, <1>4, <2>1, <2>2 DEF Unnumbered
<1>6. Cardinality(Unnumbered(r)) = Cardinality(U) + 1 /\ Cardinality(U) \in Nat
  BY <1>4, <1>5, FS_AddElement, FS_CardinalityType
<1>7. TotalOf(r) = TotalOf(q) + 1 /\ TotalOf(q) = nextSendSeq + Cardinality(U)
  BY <1>6 DEF TotalOf, U
<1>8. ASSUME NEW i \in 1 .. L
      PROVE  Numbered(r)[i] = Numbered(q)[i]
  <2>1. {j \in Unnumbered(r) : j < i} = {j \in U : j < i}
    BY <1>2, <1>4, <1>5
  <2>2. /\ Numbered(r)[i] = IF r[i].seq = -1
                            THEN [r[i] EXCEPT !.seq = nextSendSeq + Cardinality({j \in Unnumbered(r) : j < i})]
                            ELSE r[i]
        /\ Numbered(q)[i] = IF q[i].seq = -1
                            THEN [q[i] EXCEPT !.seq = nextSendSeq + Cardinality({j \in U : j < i})]
                            ELSE q[i]
    BY <1>2, SMTT(30) DEF Numbered, U
  <2>3. QED
    BY <1>2, <2>1, <2>2
<1>9. Numbered(r)[L + 1] = [ev EXCEPT !.seq = TotalOf(q)]
  <2>1. {j \in Unnumbered(r) : j < L + 1} = U
    BY <1>2, <1>4, <1>5
  <2>2. Numbered(r)[L + 1] = [ev EXCEPT !.seq = nextSendSeq + Cardinality({j \in Unnumbered(r) : j < L + 1})]
    BY <1>1, <1>2 DEF Numbered
  <2>3. QED
    BY <1>7, <2>1, <2>2
<1> DEFINE e == Numbered(r)[L + 1]
<1>10. OutOf(r) = OutOf(q) \union {e}
  <2>1. OutOf(r) = {Numbered(r)[i] : i \in 1 .. L + 1} /\ OutOf(q) = {Numbered(q)[i] : i \in 1 .. L}
    BY <1>2 DEF OutOf
  <2>2. 1 .. L + 1 = 1 .. L \union {L + 1}
    BY <1>2
  <2>3. QED
    BY <1>8, <2>1, <2>2
<1>11. /\ e.kind = kind /\ e.slot = s /\ e.verb = v
       /\ e.seq = TotalOf(q) /\ e.packet = 0
  <2>1. TotalOf(q) \in Nat
    BY <1>6, <1>7
  <2>2. QED
    BY <1>1, <1>9, <2>1, Renumbered
<1> HIDE DEF e
<1>12. QED
  BY <1>3, <1>7, <1>10, <1>11 DEF r, ev

SameEvent(d, e) == d.kind = e.kind /\ d.slot = e.slot /\ d.verb = e.verb /\ d.seq = e.seq

LEMMA Counted ==
    ASSUME NEW A, NEW B, IsFiniteSet(A), NEW p,
           \A a \in A : p[a] \in B,
           \A a, b \in A : p[a] = p[b] => a = b,
           \A b \in B : \E a \in A : p[a] = b
    PROVE  Cardinality(A) = Cardinality(B)
<1> DEFINE f == [a \in A |-> p[a]]
<1>1. f \in [A -> B] /\ \A a \in A : f[a] = p[a]
  OBVIOUS
<1> HIDE DEF f
<1>2. f \in Injection(A, B)
  BY <1>1 DEF Injection, IsInjective
<1>3. f \in Surjection(A, B)
  BY <1>1 DEF Surjection
<1>4. ExistsBijection(A, B)
  BY <1>2, <1>3 DEF ExistsBijection, Bijection
<1>5. QED
  BY <1>4, FS_Bijection

\* The verdicts take events away or make them wait again, under their numbers.
LEMMA Keeping ==
    ASSUME nextSendSeq \in Nat, Queue(outQueue), 0 \notin delivered'
    PROVE  /\ Queue(Kept) /\ TotalOf(Kept) = Total
           /\ \A e \in OutOf(Kept) : \E d \in Out :
                /\ d.packet \notin delivered' /\ SameEvent(d, e)
                /\ e.packet = IF d.packet \in 1 .. judged' THEN 0 ELSE d.packet
           /\ \A d \in Out : d.packet \notin delivered' =>
                \E e \in OutOf(Kept) :
                  /\ SameEvent(d, e)
                  /\ e.packet = IF d.packet \in 1 .. judged' THEN 0 ELSE d.packet
<1> DEFINE q == outQueue   K == Kept
           I == {i \in DOMAIN q : q[i].packet \notin delivered'}
           D == DOMAIN K
<1>1. /\ q \in Seq(Pend) /\ DOMAIN q = 1 .. Len(q) /\ Len(q) \in Nat
      /\ \A i \in DOMAIN q : q[i] \in Pend
  BY DEF Queue
<1>2. /\ Survivors \in Seq(Pend)
      /\ \E p \in [DOMAIN Survivors -> I] :
           /\ \A k \in DOMAIN Survivors : Survivors[k] = q[p[k]]
           /\ \A i \in I : \E k \in DOMAIN Survivors : p[k] = i
           /\ \A k, l \in DOMAIN Survivors : k < l => p[k] < p[l]
  <2>1. I \in SUBSET DOMAIN q /\ Survivors = At(q, I)
    BY DEF Survivors
  <2> HIDE DEF q, I
  <2>2. QED
    BY <1>1, <2>1, AtIs
<1>3. /\ K = [k \in DOMAIN Survivors |->
                IF Survivors[k].packet \in 1 .. judged'
                THEN [Survivors[k] EXCEPT !.packet = 0] ELSE Survivors[k]]
      /\ D = DOMAIN Survivors /\ DOMAIN Survivors = 1 .. Len(Survivors) /\ Len(Survivors) \in Nat
  BY <1>2 DEF Kept
<1>4. PICK p \in [D -> I] :
           /\ \A k \in D : Survivors[k] = q[p[k]]
           /\ \A i \in I : \E k \in D : p[k] = i
           /\ \A k, l \in D : k < l => p[k] < p[l]
  BY <1>2, <1>3
<1> HIDE DEF K, D, q
<1>5. ASSUME NEW k \in D
      PROVE  /\ p[k] \in DOMAIN q /\ p[k] \in Nat /\ k \in Nat /\ p[k] \in I
             /\ K[k] \in Pend
             /\ K[k].kind = q[p[k]].kind /\ K[k].slot = q[p[k]].slot
             /\ K[k].verb = q[p[k]].verb /\ K[k].seq = q[p[k]].seq
             /\ K[k].packet = IF q[p[k]].packet \in 1 .. judged' THEN 0 ELSE q[p[k]].packet
  <2>1. p[k] \in DOMAIN q /\ p[k] \in Nat /\ k \in Nat /\ p[k] \in I
    BY <1>1, <1>3, <1>4
  <2>2. q[p[k]] \in Pend /\ Survivors[k] = q[p[k]]
    BY <1>1, <1>4, <2>1
  <2>3. K[k] = IF q[p[k]].packet \in 1 .. judged' THEN [q[p[k]] EXCEPT !.packet = 0] ELSE q[p[k]]
    BY <1>3, <2>2
  <2>4. LET d == [q[p[k]] EXCEPT !.packet = 0]
        IN  /\ d \in Pend /\ d.kind = q[p[k]].kind /\ d.slot = q[p[k]].slot
            /\ d.verb = q[p[k]].verb /\ d.seq = q[p[k]].seq /\ d.packet = 0
    BY <2>2 DEF Pend
  <2>5. CASE q[p[k]].packet \in 1 .. judged'
    BY <2>1, <2>3, <2>4, <2>5
  <2>6. CASE q[p[k]].packet \notin 1 .. judged'
    BY <2>1, <2>2, <2>3, <2>6
  <2>7. QED
    BY <2>5, <2>6
<1>6. ASSUME NEW k \in D, NEW l \in D
      PROVE  (p[k] = p[l] => k = l) /\ (k < l <=> p[k] < p[l])
  <2>1. k \in Nat /\ l \in Nat /\ p[k] \in Nat /\ p[l] \in Nat
    BY <1>5
  <2>2. (k < l => p[k] < p[l]) /\ (l < k => p[l] < p[k])
    BY <1>4
  <2>3. QED
    BY <2>1, <2>2
<1>7. Queue(K)
  <2>1. K \in Seq(Pend)
    BY <1>3, <1>5 DEF D
  <2>2. \A k \in D : K[k].seq < nextSendSeq /\ (K[k].packet # 0 => K[k].seq # -1)
    BY <1>5 DEF Queue, q
  <2>3. ASSUME NEW k \in D, NEW l \in D, k # l, K[k].seq # -1
        PROVE  K[k].seq # K[l].seq
    <3>1. p[k] # p[l]
      BY <1>6, <2>3
    <3>2. QED
      BY <1>5, <2>3, <3>1 DEF Queue, q
  <2>4. QED
    BY <2>1, <2>2, <2>3 DEF Queue, D
<1>8. ASSUME NEW i \in Unnumbered(q)
      PROVE  i \in I /\ \E k \in Unnumbered(K) : p[k] = i
  <2>1. i \in DOMAIN q /\ q[i].seq = -1
    BY DEF Unnumbered
  <2>2. q[i].packet = 0
    BY <2>1 DEF Queue, q
  <2>3. i \in I
    BY <2>1, <2>2
  <2>4. PICK k \in D : p[k] = i
    BY <1>4, <2>3
  <2>5. k \in Unnumbered(K)
    BY <1>5, <2>1, <2>4 DEF Unnumbered, D
  <2>6. QED
    BY <2>3, <2>4, <2>5
<1>9. \A k \in Unnumbered(K) : k \in D /\ p[k] \in Unnumbered(q)
  BY <1>5 DEF Unnumbered, D
<1>10. IsFiniteSet(Unnumbered(K))
  BY <1>7, Numbering
<1>11. Cardinality(Unnumbered(K)) = Cardinality(Unnumbered(q))
  BY <1>6, <1>8, <1>9, <1>10, Counted
<1>12. ASSUME NEW k \in Unnumbered(K)
       PROVE  Rank(Unnumbered(K), k) = Rank(Unnumbered(q), p[k])
  <2> DEFINE A == {j \in Unnumbered(K) : j < k}   B == {j \in Unnumbered(q) : j < p[k]}
  <2>1. IsFiniteSet(A)
    BY <1>10, FS_Subset
  <2>2. \A a \in A : p[a] \in B
    BY <1>6, <1>9
  <2>3. \A a, b \in A : p[a] = p[b] => a = b
    BY <1>6, <1>9
  <2>4. \A b \in B : \E a \in A : p[a] = b
    BY <1>6, <1>8, <1>9
  <2> HIDE DEF A, B
  <2>5. Cardinality(A) = Cardinality(B)
    BY <2>1, <2>2, <2>3, <2>4, Counted
  <2>6. QED
    BY <2>5 DEF Rank, A, B
<1>13. ASSUME NEW k \in D
       PROVE  /\ SameEvent(Numbered(q)[p[k]], Numbered(K)[k])
              /\ Numbered(q)[p[k]].packet \notin delivered'
              /\ Numbered(K)[k].packet = IF Numbered(q)[p[k]].packet \in 1 .. judged' THEN 0
                                         ELSE Numbered(q)[p[k]].packet
  <2> DEFINE N == Numbered(q)   M == Numbered(K)
  <2>1. LET i == p[k]
        IN  /\ N[i].kind = q[i].kind /\ N[i].slot = q[i].slot
            /\ N[i].verb = q[i].verb /\ N[i].packet = q[i].packet
            /\ N[i].seq = IF q[i].seq = -1 THEN nextSendSeq + Rank(Unnumbered(q), i) ELSE q[i].seq
    BY <1>5, Numbering DEF q
  <2>2. /\ M[k].kind = K[k].kind /\ M[k].slot = K[k].slot
        /\ M[k].verb = K[k].verb /\ M[k].packet = K[k].packet
        /\ M[k].seq = IF K[k].seq = -1 THEN nextSendSeq + Rank(Unnumbered(K), k) ELSE K[k].seq
    BY <1>7, Numbering DEF D
  <2>3. K[k].seq = -1 => Rank(Unnumbered(K), k) = Rank(Unnumbered(q), p[k])
    BY <1>12 DEF Unnumbered, D
  <2>4. q[p[k]].packet \notin delivered'
    BY <1>5
  <2> HIDE DEF N, M
  <2>5. QED
    BY <1>5, <2>1, <2>2, <2>3, <2>4 DEF SameEvent, N, M
<1>14. \A e \in OutOf(K) : \E d \in Out :
                /\ d.packet \notin delivered' /\ SameEvent(d, e)
                /\ e.packet = IF d.packet \in 1 .. judged' THEN 0 ELSE d.packet
  <2> SUFFICES ASSUME NEW k \in D
               PROVE  \E d \in Out :
                        /\ d.packet \notin delivered' /\ SameEvent(d, Numbered(K)[k])
                        /\ Numbered(K)[k].packet = IF d.packet \in 1 .. judged' THEN 0 ELSE d.packet
    BY DEF OutOf, D
  <2>1. Numbered(q)[p[k]] \in Out
    BY <1>5 DEF Out, OutOf, q
  <2>2. QED
    BY <1>13, <2>1
<1>15. \A d \in Out : d.packet \notin delivered' =>
                \E e \in OutOf(K) :
                  /\ SameEvent(d, e)
                  /\ e.packet = IF d.packet \in 1 .. judged' THEN 0 ELSE d.packet
  <2> SUFFICES ASSUME NEW i \in DOMAIN q, Numbered(q)[i].packet \notin delivered'
               PROVE  \E e \in OutOf(K) :
                        /\ SameEvent(Numbered(q)[i], e)
                        /\ e.packet = IF Numbered(q)[i].packet \in 1 .. judged' THEN 0
                                      ELSE Numbered(q)[i].packet
    BY DEF OutOf, Out, q
  <2>1. i \in I
    BY Numbering DEF q
  <2>2. PICK k \in D : p[k] = i
    BY <1>4, <2>1
  <2>3. Numbered(K)[k] \in OutOf(K)
    BY DEF OutOf, D
  <2>4. QED
    BY <1>13, <2>2, <2>3
<1>16. QED
  BY <1>7, <1>11, <1>14, <1>15 DEF TotalOf, Total, K, q

\* A packet is written, or not: every event has its number then.
LEMMA Sending ==
    ASSUME nextSendSeq \in Nat, sent \in Nat, NEW q, Queue(q), NEW want, SendPacket(q, want)
    PROVE  /\ nextSendSeq' \in Nat /\ Queue(outQueue)' /\ Total' = TotalOf(q)
           /\ \/ sent' = sent /\ cargo' = cargo /\ Out' = OutOf(q)
              \/ /\ sent' = sent + 1 /\ sent - judged' < MAX_UNACKED
                 /\ \A i \in 1 .. sent : cargo'[i] = cargo[i]
                 /\ \A w \in cargo'[sent + 1] : \E d \in OutOf(q) : d.packet = 0 /\ w = Wire(d)
                 /\ \A d \in OutOf(q) : d.packet = 0 => Wire(d) \in cargo'[sent + 1]
                 /\ \A e \in Out' : \E d \in OutOf(q) :
                      SameEvent(d, e) /\ e.packet = IF d.packet = 0 THEN sent + 1 ELSE d.packet
                 /\ \A d \in OutOf(q) : \E e \in Out' :
                      SameEvent(d, e) /\ e.packet = IF d.packet = 0 THEN sent + 1 ELSE d.packet
<1> DEFINE N == Numbered(q)   U == Unnumbered(q)   D == DOMAIN q
<1>1. /\ TotalOf(q) \in Nat /\ nextSendSeq <= TotalOf(q) /\ DOMAIN N = D
      /\ \A i \in D :
           /\ N[i].kind = q[i].kind /\ N[i].slot = q[i].slot
           /\ N[i].verb = q[i].verb /\ N[i].packet = q[i].packet
           /\ N[i].seq = IF q[i].seq = -1 THEN nextSendSeq + Rank(U, i) ELSE q[i].seq
           /\ N[i].seq \in 0 .. TotalOf(q) - 1
           /\ q[i].seq = -1 <=> nextSendSeq <= N[i].seq
      /\ \A i, j \in D : N[i].seq = N[j].seq => i = j
  BY Numbering
<1>2. q \in Seq(Pend) /\ D = 1 .. Len(q) /\ \A i \in D : q[i] \in Pend
  BY DEF Queue
<1>3. TotalOf(q) = nextSendSeq + Cardinality(U)
  BY DEF TotalOf
<1>4. CASE ~(want /\ sent - judged' < MAX_UNACKED /\ sent < MaxPackets)
  <2>1. outQueue' = q /\ UNCHANGED <<sent, nextSendSeq, cargo>>
    BY <1>4 DEF SendPacket
  <2>2. Out' = OutOf(q) /\ Total' = TotalOf(q) /\ Queue(outQueue)'
    BY <2>1 DEF Out, OutOf, Total, TotalOf, Numbered, Unnumbered, Queue
  <2>3. QED
    BY <2>1, <2>2
<1>5. CASE want /\ sent - judged' < MAX_UNACKED /\ sent < MaxPackets
  <2> DEFINE W == Written(q)
  <2>1. /\ sent' = sent + 1 /\ outQueue' = W /\ nextSendSeq' = TotalOf(q)
        /\ cargo' = [i \in 1 .. sent + 1 |-> IF i <= sent THEN cargo[i] ELSE Packed(q)]
    BY <1>3, <1>5 DEF SendPacket
  <2>2. ASSUME NEW i \in D
        PROVE  /\ N[i] \in Pend /\ W[i] \in Pend
               /\ W[i].kind = N[i].kind /\ W[i].slot = N[i].slot /\ W[i].verb = N[i].verb
               /\ W[i].seq = N[i].seq
               /\ W[i].packet = IF N[i].packet = 0 THEN sent + 1 ELSE N[i].packet
    <3>1. /\ W[i] = IF q[i].packet = 0 THEN [N[i] EXCEPT !.packet = sent + 1] ELSE q[i]
          /\ N[i] = IF q[i].seq = -1 THEN [q[i] EXCEPT !.seq = nextSendSeq + Rank(U, i)] ELSE q[i]
      BY DEF Written, Numbered, Rank
    <3>2. q[i] \in Pend /\ N[i].packet = q[i].packet /\ N[i].seq \in Nat
      BY <1>1, <1>2
    <3>3. CASE q[i].seq = -1
      <4>1. N[i] = [q[i] EXCEPT !.seq = N[i].seq]
        BY <1>1, <3>1, <3>3
      <4>2. N[i] \in Pend
        BY <3>2, <4>1 DEF Pend
      <4>3. q[i].packet = 0
        BY <3>3 DEF Queue
      <4>4. W[i] = [N[i] EXCEPT !.packet = sent + 1]
        BY <3>1, <4>3
      <4> HIDE DEF N, W
      <4>5. /\ W[i] \in Pend /\ W[i].kind = N[i].kind /\ W[i].slot = N[i].slot
            /\ W[i].verb = N[i].verb /\ W[i].seq = N[i].seq /\ W[i].packet = sent + 1
        BY <4>2, <4>4 DEF Pend
      <4>6. QED
        BY <3>2, <4>2, <4>3, <4>5
    <3>4. CASE q[i].seq # -1 /\ q[i].packet = 0
      <4>1. N[i] = q[i] /\ W[i] = [q[i] EXCEPT !.packet = sent + 1]
        BY <3>1, <3>4
      <4> HIDE DEF N, W
      <4>2. QED
        BY <3>2, <3>4, <4>1 DEF Pend
    <3>5. CASE q[i].seq # -1 /\ q[i].packet # 0
      <4>1. N[i] = q[i] /\ W[i] = q[i]
        BY <3>1, <3>5
      <4> HIDE DEF N, W
      <4>2. QED
        BY <3>2, <3>5, <4>1
    <3>6. QED
      BY <3>3, <3>4, <3>5
  <2>3. DOMAIN W = D
    BY DEF Written
  <2> HIDE DEF W, N
  <2>4. W \in Seq(Pend)
    <3>1. W \in [1 .. Len(q) -> Pend] /\ Len(q) \in Nat
      <4>1. W = [i \in D |-> W[i]]
        BY DEF W, Written
      <4>2. QED
        BY <1>2, <2>2, <4>1
    <3>2. QED
      BY <3>1
  <2>5. \A i \in D : W[i].seq \in 0 .. TotalOf(q) - 1 /\ W[i].seq # -1
    BY <1>1, <2>2
  <2>6. \A i, j \in D : W[i].seq = W[j].seq => i = j
    BY <1>1, <2>2
  <2>7. Queue(outQueue)'
    <3>1. /\ outQueue' \in Seq(Pend)
          /\ \A i \in D : outQueue'[i].seq < nextSendSeq' /\ outQueue'[i].seq # -1
      BY <1>1, <2>1, <2>4, <2>5
    <3>2. \A i, j \in D : i # j => outQueue'[i].seq # outQueue'[j].seq
      BY <2>1, <2>6
    <3>3. QED
      BY <2>1, <2>3, <3>1, <3>2 DEF Queue
  <2>8. Unnumbered(outQueue)' = {}
    BY <2>1, <2>3, <2>5 DEF Unnumbered
  <2>9. Total' = TotalOf(q)
    <3>1. Cardinality(Unnumbered(outQueue)') = 0
      BY <2>8, FS_EmptySet
    <3>2. QED
      BY <1>1, <2>1, <3>1 DEF Total, TotalOf
  <2>10. Out' = {W[i] : i \in D}
    <3>1. \A i \in D : Numbered(outQueue)'[i] = W[i]
      BY <2>1, <2>3, <2>5 DEF Numbered
    <3>2. QED
      BY <2>1, <2>3, <3>1 DEF Out, OutOf
  <2>11. ASSUME NEW i \in D
         PROVE  /\ SameEvent(N[i], W[i])
                /\ W[i].packet = IF N[i].packet = 0 THEN sent + 1 ELSE N[i].packet
                /\ N[i] \in OutOf(q) /\ W[i] \in Out'
    <3>1. N[i] \in OutOf(q)
      BY DEF OutOf, N
    <3>2. QED
      BY <2>2, <2>10, <3>1 DEF SameEvent
  <2>12. cargo'[sent + 1] = Packed(q) /\ \A i \in 1 .. sent : cargo'[i] = cargo[i]
    BY <2>1
  <2>13. Packed(q) = {Wire(N[i]) : i \in {j \in D : q[j].packet = 0}}
    <3>1. \A i \in D : Wire(N[i]) = [kind |-> Numbered(q)[i].kind, slot |-> q[i].slot,
                                     verb |-> q[i].verb, seq |-> Numbered(q)[i].seq]
      BY <1>1 DEF Wire, N
    <3>2. QED
      BY <3>1 DEF Packed
  <2>14. \A w \in cargo'[sent + 1] : \E d \in OutOf(q) : d.packet = 0 /\ w = Wire(d)
    BY <1>1, <2>11, <2>12, <2>13
  <2>15. \A d \in OutOf(q) : d.packet = 0 => Wire(d) \in cargo'[sent + 1]
    <3> SUFFICES ASSUME NEW i \in D, N[i].packet = 0 PROVE Wire(N[i]) \in cargo'[sent + 1]
      BY DEF OutOf, N
    <3>1. q[i].packet = 0
      BY <1>1
    <3>2. QED
      BY <2>12, <2>13, <3>1
  <2>16. \A e \in Out' : \E d \in OutOf(q) :
                      SameEvent(d, e) /\ e.packet = IF d.packet = 0 THEN sent + 1 ELSE d.packet
    BY <2>10, <2>11
  <2>17. \A d \in OutOf(q) : \E e \in Out' :
                      SameEvent(d, e) /\ e.packet = IF d.packet = 0 THEN sent + 1 ELSE d.packet
    <3> SUFFICES ASSUME NEW i \in D
                 PROVE  \E e \in Out' : /\ SameEvent(N[i], e)
                                        /\ e.packet = IF N[i].packet = 0 THEN sent + 1 ELSE N[i].packet
      BY DEF OutOf, N
    <3>1. QED
      BY <2>11
  <2>18. QED
    BY <1>1, <1>5, <2>1, <2>7, <2>9, <2>12, <2>14, <2>15, <2>16, <2>17
<1>6. QED
  BY <1>4, <1>5

-----------------------------------------------------------------------------
(* What the client does, seen from the set of its events *)

LEMMA JudgeLinks ==
    ASSUME Links, NEW k, Judge(k)
    PROVE  /\ judged' = k /\ judged' \in judged .. received /\ judged' \in Nat
           /\ 0 \notin delivered'
           /\ delivered' = {i \in taken : i <= judged'}
<1>1. /\ k \in judged .. received /\ judged' = k
      /\ delivered' = delivered \union {i \in taken : judged < i /\ i <= k}
  BY DEF Judge
<1>2. sent \in Nat /\ received \in Nat /\ judged \in Nat /\ taken \subseteq 1 .. received /\ taken \subseteq Nat
  BY DEF Links
<1>3. k \in Nat /\ judged <= k
  BY <1>1, <1>2
<1>4. \A i \in taken : i <= k <=> (i <= judged \/ (judged < i /\ i <= k))
  BY <1>2, <1>3
<1>5. delivered = {i \in taken : i <= judged}
  BY DEF Links
<1>6. delivered' = {i \in taken : i <= k}
  BY <1>1, <1>4, <1>5
<1>7. QED
  BY <1>1, <1>2, <1>3, <1>6

LEMMA Delivering ==
    ASSUME nextSendSeq \in Nat, Queue(outQueue), Links, NEW k, Judge(k),
           Sound(Out, Total, sent, judged, cargo)
    PROVE  LET O == OutOf(Kept)
           IN  /\ Queue(Kept) /\ TotalOf(Kept) = Total
               /\ Sound(O, Total, sent, judged', cargo)
               /\ Stream(O) = Stream(Out)
               /\ Spanned(Out) => Spanned(O)
<1> DEFINE O == OutOf(Kept)
<1>1. /\ judged' \in judged .. received /\ judged' \in Nat
      /\ 0 \notin delivered' /\ delivered' = {i \in taken : i <= judged'}
  BY JudgeLinks
<1>2. /\ sent \in Nat /\ received \in Nat /\ judged \in Nat /\ received <= sent
      /\ taken \subseteq 1 .. received
  BY DEF Links
<1>3. /\ Queue(Kept) /\ TotalOf(Kept) = Total
      /\ \A e \in O : \E d \in Out :
           /\ d.packet \notin delivered' /\ SameEvent(d, e)
           /\ e.packet = IF d.packet \in 1 .. judged' THEN 0 ELSE d.packet
      /\ \A d \in Out : d.packet \notin delivered' =>
           \E e \in O :
             /\ SameEvent(d, e)
             /\ e.packet = IF d.packet \in 1 .. judged' THEN 0 ELSE d.packet
  BY <1>1, Keeping
<1>4. /\ Total \in Nat
      /\ \A d \in Out : d.packet \in Nat /\ d.seq \in Nat
  BY OutFacts DEF Out, Total
<1> HIDE DEF O
<1>5. \A d, e : SameEvent(d, e) => Wire(d) = Wire(e) /\ d.seq = e.seq
  BY DEF SameEvent, Wire
<1>6. Flight(O, sent, judged', cargo)
  <2>1. ASSUME NEW e \in O, e.packet # 0
        PROVE  e.packet \in judged' + 1 .. sent /\ Wire(e) \in cargo[e.packet]
    <3>1. PICK d \in Out : /\ d.packet \notin delivered' /\ SameEvent(d, e)
                           /\ e.packet = IF d.packet \in 1 .. judged' THEN 0 ELSE d.packet
      BY <1>3
    <3>2. d.packet # 0 /\ e.packet = d.packet /\ d.packet \notin 1 .. judged'
      BY <2>1, <3>1
    <3>3. d.packet \in judged + 1 .. sent /\ Wire(d) \in cargo[d.packet]
      BY <3>2 DEF Sound, Flight
    <3>4. d.packet \in judged' + 1 .. sent
      BY <1>1, <1>2, <3>2, <3>3
    <3>5. QED
      BY <1>5, <3>1, <3>2, <3>3, <3>4
  <2>2. ASSUME NEW i \in received + 1 .. sent, NEW w \in cargo[i]
        PROVE  \E e \in O : e.packet = i /\ Wire(e) = w
    <3>1. PICK d \in Out : d.packet = i /\ Wire(d) = w
      BY DEF Sound, Flight
    <3>2. i \notin delivered' /\ i \notin 1 .. judged'
      BY <1>1, <1>2
    <3>3. QED
      BY <1>3, <1>5, <3>1, <3>2
  <2>3. ASSUME NEW e \in O
        PROVE  e.packet \in taken <=> Got(e.seq)
    <3>1. PICK d \in Out : /\ d.packet \notin delivered' /\ SameEvent(d, e)
                           /\ e.packet = IF d.packet \in 1 .. judged' THEN 0 ELSE d.packet
      BY <1>3
    <3>2. d.packet \in taken <=> Got(d.seq)
      BY DEF Sound, Flight
    <3>3. d.packet \in 1 .. judged' => d.packet \notin taken
      BY <1>1, <1>2, <3>1
    <3>4. 0 \notin taken
      BY <1>2
    <3>5. QED
      BY <1>5, <3>1, <3>2, <3>3, <3>4
  <2>4. QED
    BY <2>1, <2>2, <2>3 DEF Flight
<1>7. Arrived(O, Total)
  <2>1. \A w \in waiting, e \in O : w.seq = e.seq => w = Wire(e)
    BY <1>3, <1>5 DEF Sound, Arrived
  <2>2. QED
    BY <2>1 DEF Sound, Arrived
<1>8. ASSUME NEW d \in Out
      PROVE  Got(d.seq) \/ \E e \in O : SameEvent(d, e)
  <2>1. d.packet \in taken <=> Got(d.seq)
    BY DEF Sound, Flight
  <2>2. d.packet \in delivered' => d.packet \in taken
    BY <1>1
  <2>3. QED
    BY <1>3, <2>1, <2>2
<1>9. Outstanding(O, Total)
  <2> SUFFICES ASSUME NEW n \in 0 .. Total - 1
               PROVE  Got(n) \/ \E e \in O : e.seq = n
    BY DEF Outstanding
  <2>1. Got(n) \/ \E d \in Out : d.seq = n
    BY DEF Sound, Outstanding
  <2>2. QED
    BY <1>5, <1>8, <2>1
<1>10. Stream(O) = Stream(Out)
  <2>1. ASSUME NEW e \in O, nextRecvSeq <= e.seq
        PROVE  Wire(e) \in Stream(Out)
    <3>1. PICK d \in Out : SameEvent(d, e)
      BY <1>3
    <3>2. Wire(d) = Wire(e) /\ nextRecvSeq <= d.seq
      BY <1>5, <2>1, <3>1
    <3>3. QED
      BY <3>2 DEF Stream
  <2>2. ASSUME NEW d \in Out, nextRecvSeq <= d.seq
        PROVE  Wire(d) \in Stream(O)
    <3>1. CASE \E e \in O : SameEvent(d, e)
      <4>1. PICK e \in O : SameEvent(d, e)
        BY <3>1
      <4>2. Wire(d) = Wire(e) /\ nextRecvSeq <= e.seq
        BY <1>5, <2>2, <4>1
      <4>3. QED
        BY <4>2 DEF Stream
    <3>2. CASE Got(d.seq)
      <4>1. nextRecvSeq \in Nat /\ d.seq \in Nat
        BY <1>4 DEF Sound, Arrived
      <4>2. PICK w \in waiting : w.seq = d.seq
        BY <2>2, <3>2, <4>1 DEF Got
      <4>3. w = Wire(d)
        BY <4>2 DEF Sound, Arrived
      <4>4. QED
        BY <4>3 DEF Stream
    <3>3. QED
      BY <1>8, <3>1, <3>2
  <2>3. waiting \subseteq Stream(O) /\ waiting \subseteq Stream(Out)
    BY DEF Stream
  <2>4. Stream(O) \subseteq Stream(Out)
    <3>1. \A w \in Stream(O) : w \in waiting \/ \E e \in O : nextRecvSeq <= e.seq /\ w = Wire(e)
      BY DEF Stream
    <3>2. QED
      BY <2>1, <2>3, <3>1
  <2>5. Stream(Out) \subseteq Stream(O)
    <3>1. \A w \in Stream(Out) : w \in waiting \/ \E e \in Out : nextRecvSeq <= e.seq /\ w = Wire(e)
      BY DEF Stream
    <3>2. QED
      BY <2>2, <2>3, <3>1
  <2>6. QED
    BY <2>4, <2>5
<1>11. Spanned(Out) => Spanned(O)
  <2> SUFFICES ASSUME Spanned(Out), NEW a \in O, NEW b \in O PROVE b.seq - a.seq < MaxSpan
    BY DEF Spanned
  <2>1. PICK d \in Out : d.seq = a.seq
    BY <1>3, <1>5
  <2>2. PICK e \in Out : e.seq = b.seq
    BY <1>3, <1>5
  <2>3. e.seq - d.seq < MaxSpan
    BY DEF Spanned
  <2>4. QED
    BY <2>1, <2>2, <2>3
<1>12. QED
  BY <1>3, <1>6, <1>7, <1>9, <1>10, <1>11 DEF Sound, O

LEMMA Flushing ==
    ASSUME nextSendSeq \in Nat, Links, judged' \in judged .. received,
           NEW q, Queue(q), NEW want, SendPacket(q, want),
           Sound(OutOf(q), TotalOf(q), sent, judged', cargo),
           UNCHANGED <<received, taken, serverVars>>
    PROVE  /\ nextSendSeq' \in Nat /\ Queue(outQueue)' /\ Total' = TotalOf(q)
           /\ sent' \in {sent, sent + 1}
           /\ Sound(Out, Total, sent, judged, cargo)'
           /\ Stream(Out)' = Stream(OutOf(q))
           /\ Spanned(OutOf(q)) => Spanned(Out)'
<1>1. /\ sent \in Nat /\ received \in Nat /\ judged \in Nat /\ received <= sent
      /\ taken \subseteq 1 .. received /\ judged' \in Nat /\ judged' <= received
  BY DEF Links
<1>2. /\ received' = received /\ taken' = taken /\ nextRecvSeq' = nextRecvSeq /\ waiting' = waiting
  BY DEF serverVars
<1> DEFINE O == OutOf(q)   P == Out'   T == TotalOf(q)   m == sent'   c == cargo'
<1>3. /\ nextSendSeq' \in Nat /\ Queue(outQueue)' /\ Total' = T
      /\ \/ m = sent /\ c = cargo /\ P = O
         \/ /\ m = sent + 1
            /\ \A i \in 1 .. sent : c[i] = cargo[i]
            /\ \A w \in c[sent + 1] : \E d \in O : d.packet = 0 /\ w = Wire(d)
            /\ \A d \in O : d.packet = 0 => Wire(d) \in c[sent + 1]
            /\ \A e \in P : \E d \in O :
                 SameEvent(d, e) /\ e.packet = IF d.packet = 0 THEN sent + 1 ELSE d.packet
            /\ \A d \in O : \E e \in P :
                 SameEvent(d, e) /\ e.packet = IF d.packet = 0 THEN sent + 1 ELSE d.packet
  BY <1>1, Sending
<1>4. \A d \in O : d.packet \in Nat
  BY OutFacts
<1> HIDE DEF O, P, T, m, c
<1>5. \A d, e : SameEvent(d, e) => Wire(d) = Wire(e) /\ d.seq = e.seq
  BY DEF SameEvent, Wire
<1>6. /\ Sound(P, T, m, judged', c)
      /\ Stream(P) = Stream(O)
      /\ Spanned(O) => Spanned(P)
  <2>1. CASE m = sent /\ c = cargo /\ P = O
    BY <2>1 DEF O, T
  <2>2. CASE ~(m = sent /\ c = cargo /\ P = O)
    <3>1. /\ m = sent + 1
          /\ \A i \in 1 .. sent : c[i] = cargo[i]
          /\ \A w \in c[sent + 1] : \E d \in O : d.packet = 0 /\ w = Wire(d)
          /\ \A d \in O : d.packet = 0 => Wire(d) \in c[sent + 1]
          /\ \A e \in P : \E d \in O :
               SameEvent(d, e) /\ e.packet = IF d.packet = 0 THEN sent + 1 ELSE d.packet
          /\ \A d \in O : \E e \in P :
               SameEvent(d, e) /\ e.packet = IF d.packet = 0 THEN sent + 1 ELSE d.packet
      BY <1>3, <2>2
    <3>2. Flight(O, sent, judged', cargo) /\ Arrived(O, T) /\ Outstanding(O, T)
      BY DEF Sound, O, T
    <3>3. Flight(P, m, judged', c)
      <4>1. ASSUME NEW e \in P, e.packet # 0
            PROVE  e.packet \in judged' + 1 .. m /\ Wire(e) \in c[e.packet]
        <5>1. PICK d \in O : SameEvent(d, e) /\ e.packet = IF d.packet = 0 THEN sent + 1 ELSE d.packet
          BY <3>1
        <5>2. CASE d.packet = 0
          <6>1. e.packet = sent + 1 /\ Wire(e) = Wire(d) /\ Wire(d) \in c[sent + 1]
            BY <1>5, <3>1, <5>1, <5>2
          <6>2. sent + 1 \in judged' + 1 .. m
            <7>1. m = sent + 1 /\ judged' <= sent /\ judged' \in Nat /\ sent \in Nat
              BY <1>1, <3>1
            <7>2. ASSUME NEW a \in Nat, NEW b \in Nat, a <= b
                  PROVE  b + 1 \in a + 1 .. b + 1
              BY <7>2
            <7>3. sent + 1 \in judged' + 1 .. sent + 1
              BY <7>1, <7>2
            <7>4. QED
              BY <7>1, <7>3
          <6>3. QED
            BY <6>1, <6>2
        <5>3. CASE d.packet # 0
          <6>1. d.packet \in judged' + 1 .. sent /\ Wire(d) \in cargo[d.packet] /\ e.packet = d.packet
            BY <3>2, <5>1, <5>3 DEF Flight
          <6>2. d.packet \in 1 .. sent /\ d.packet \in judged' + 1 .. m
            BY <1>1, <3>1, <6>1
          <6>3. QED
            BY <1>5, <3>1, <5>1, <6>1, <6>2
        <5>4. QED
          BY <5>2, <5>3
      <4>2. ASSUME NEW i \in received + 1 .. m, NEW w \in c[i]
            PROVE  \E e \in P : e.packet = i /\ Wire(e) = w
        <5>1. CASE i = sent + 1
          <6>1. PICK d \in O : d.packet = 0 /\ w = Wire(d)
            BY <3>1, <5>1
          <6>2. QED
            BY <1>5, <3>1, <5>1, <6>1
        <5>2. CASE i # sent + 1
          <6>1. i \in received + 1 .. sent /\ i \in 1 .. sent /\ i # 0
            BY <1>1, <3>1, <5>2
          <6>2. PICK d \in O : d.packet = i /\ Wire(d) = w
            BY <3>1, <3>2, <6>1 DEF Flight
          <6>3. QED
            BY <1>5, <3>1, <6>1, <6>2
        <5>3. QED
          BY <5>1, <5>2
      <4>3. ASSUME NEW e \in P
            PROVE  e.packet \in taken <=> Got(e.seq)
        <5>1. PICK d \in O : SameEvent(d, e) /\ e.packet = IF d.packet = 0 THEN sent + 1 ELSE d.packet
          BY <3>1
        <5>2. d.packet \in taken <=> Got(d.seq)
          BY <3>2 DEF Flight
        <5>3. 0 \notin taken /\ sent + 1 \notin taken
          BY <1>1
        <5>4. QED
          BY <1>5, <5>1, <5>2, <5>3
      <4>4. QED
        BY <4>1, <4>2, <4>3 DEF Flight
    <3>4. Arrived(P, T)
      <4>1. \A w \in waiting, e \in P : w.seq = e.seq => w = Wire(e)
        BY <1>5, <3>1, <3>2 DEF Arrived
      <4>2. QED
        BY <3>2, <4>1 DEF Arrived
    <3>5. Outstanding(P, T)
      BY <1>5, <3>1, <3>2 DEF Outstanding
    <3>6. Stream(P) = Stream(O)
      <4>1. \A e \in P : \E d \in O : d.seq = e.seq /\ Wire(d) = Wire(e)
        BY <1>5, <3>1
      <4>2. \A d \in O : \E e \in P : d.seq = e.seq /\ Wire(d) = Wire(e)
        BY <1>5, <3>1
      <4>3. {Wire(e) : e \in {d \in P : nextRecvSeq <= d.seq}}
              = {Wire(e) : e \in {d \in O : nextRecvSeq <= d.seq}}
        BY <4>1, <4>2
      <4>4. QED
        BY <4>3 DEF Stream
    <3>7. Spanned(O) => Spanned(P)
      <4> SUFFICES ASSUME Spanned(O), NEW a \in P, NEW b \in P PROVE b.seq - a.seq < MaxSpan
        BY DEF Spanned
      <4>1. PICK d \in O : d.seq = a.seq
        BY <1>5, <3>1
      <4>2. PICK e \in O : e.seq = b.seq
        BY <1>5, <3>1
      <4>3. e.seq - d.seq < MaxSpan
        BY DEF Spanned
      <4>4. QED
        BY <4>1, <4>2, <4>3
    <3>8. QED
      BY <3>3, <3>4, <3>5, <3>6, <3>7 DEF Sound
  <2>3. QED
    BY <2>1, <2>2
<1>7. Sound(Out, Total, sent, judged, cargo)'
  <2>1. \A n : Got(n)' <=> Got(n)
    BY <1>2 DEF Got
  <2>2. Flight(Out, sent, judged, cargo)'
    BY <1>2, <1>6, <2>1 DEF Sound, Flight, P, m, c
  <2>3. Arrived(Out, Total)'
    BY <1>2, <1>3, <1>6 DEF Sound, Arrived, P
  <2>4. Outstanding(Out, Total)'
    BY <1>3, <1>6, <2>1 DEF Sound, Outstanding, P
  <2>5. QED
    BY <2>2, <2>3, <2>4 DEF Sound
<1>8. Stream(Out)' = Stream(O)
  BY <1>2, <1>6 DEF Stream, P
<1>9. Spanned(O) => Spanned(Out)'
  BY <1>6 DEF Spanned, P
<1>10. QED
  BY <1>3, <1>7, <1>8, <1>9 DEF O, T, m

\* An event nobody has sent yet comes last.
LEMMA Adding ==
    ASSUME Links, NEW O, NEW total \in Nat, NEW k \in judged .. received, NEW e,
           Sound(O, total, sent, k, cargo), \A d \in O : d.seq \in 0 .. total - 1,
           e.packet = 0, e.seq = total
    PROVE  /\ Sound(O \union {e}, total + 1, sent, k, cargo)
           /\ Stream(O \union {e}) = Stream(O) \union {Wire(e)}
           /\ \A w \in Stream(O) : w.seq \in 0 .. total - 1
<1>1. /\ nextRecvSeq \in Nat /\ nextRecvSeq <= total /\ waiting \subseteq WireEvent
      /\ \A w \in waiting : nextRecvSeq <= w.seq /\ w.seq < total
  BY DEF Sound, Arrived
<1>2. \A w \in waiting : w.seq \in Nat
  BY <1>1 DEF WireEvent
<1>3. 0 \notin taken
  BY DEF Links
<1>4. ~Got(total)
  BY <1>1, <1>2 DEF Got
<1>5. Flight(O \union {e}, sent, k, cargo)
  BY <1>3, <1>4 DEF Sound, Flight
<1>6. Arrived(O \union {e}, total + 1)
  <2>1. \A w \in waiting, d \in O \union {e} : w.seq = d.seq => w = Wire(d)
    BY <1>1, <1>2 DEF Sound, Arrived
  <2>2. nextRecvSeq <= total + 1 /\ \A w \in waiting : w.seq < total + 1
    BY <1>1, <1>2
  <2>3. QED
    BY <1>1, <2>1, <2>2 DEF Sound, Arrived
<1>7. Outstanding(O \union {e}, total + 1)
  <2> SUFFICES ASSUME NEW n \in 0 .. total
               PROVE  Got(n) \/ \E d \in O \union {e} : d.seq = n
    BY DEF Outstanding
  <2>1. n = total \/ n \in 0 .. total - 1
    OBVIOUS
  <2>2. QED
    BY <2>1 DEF Sound, Outstanding
<1>8. Stream(O \union {e}) = Stream(O) \union {Wire(e)}
  <2>1. {d \in O \union {e} : nextRecvSeq <= d.seq} = {d \in O : nextRecvSeq <= d.seq} \union {e}
    BY <1>1
  <2>2. QED
    BY <2>1 DEF Stream
<1>9. \A w \in Stream(O) : w.seq \in 0 .. total - 1
  <2>1. \A d : Wire(d).seq = d.seq
    BY DEF Wire
  <2>2. \A w \in Stream(O) : w \in waiting \/ \E d \in O : w = Wire(d)
    BY DEF Stream
  <2>3. QED
    BY <1>1, <1>2, <2>1, <2>2
<1>10. QED
  BY <1>5, <1>6, <1>7, <1>8, <1>9 DEF Sound

LEMMA CommandsFinite ==
    ASSUME NEW total \in Nat, NEW S, \A w \in S : w.seq \in 0 .. total - 1
    PROVE  /\ IsFiniteSet(Commands(S)) /\ Commands(S) \subseteq 0 .. total - 1
           /\ Cardinality(Commands(S)) \in Nat
<1>1. Commands(S) \in SUBSET (0 .. total - 1)
  BY DEF Commands
<1>2. IsFiniteSet(0 .. total - 1)
  BY FS_Interval
<1>3. QED
  BY <1>1, <1>2, FS_Subset, FS_CardinalityType

\* A string event at the end of the stream teaches the last verb of its slot.
LEMMA Teaching ==
    ASSUME NEW S, NEW total \in Nat, NEW table \in [Slots -> Verbs \union {NoVerb}], NEW verbs,
           Tables(S, total, table), Journal(S, verbs), \A w \in S : w.seq \in 0 .. total - 1,
           NEW w, w.kind = "string", w.slot \in Slots, w.verb \in Verbs, w.seq = total
    PROVE  /\ Tables(S \union {w}, total + 1, [table EXCEPT ![w.slot] = w.verb])
           /\ Journal(S \union {w}, verbs)
<1> DEFINE T == S \union {w}   next == [table EXCEPT ![w.slot] = w.verb]
<1>1. ASSUME NEW s, NEW n \in 0 .. total
      PROVE  Taught(T, s, n) = Taught(S, s, n)
  BY <1>1 DEF Taught
<1>2. ASSUME NEW s, NEW v, NEW n \in 0 .. total
      PROVE  Says(T, s, v, n) <=> Says(S, s, v, n)
  BY <1>1, <1>2 DEF Says
<1>3. ASSUME NEW c \in T, c.kind = "command"
      PROVE  Says(T, c.slot, c.verb, c.seq)
  <2>1. c \in S /\ c.seq \in 0 .. total
    BY <1>3
  <2>2. Says(S, c.slot, c.verb, c.seq)
    BY <1>3, <2>1 DEF Tables
  <2>3. QED
    BY <1>2, <2>1, <2>2
<1>4. ASSUME NEW s \in Slots
      PROVE  Says(T, s, next[s], total + 1)
  <2>1. CASE s = w.slot
    <3>1. next[s] = w.verb
      BY <2>1
    <3>2. w \in Taught(T, s, total + 1) /\ \A x \in Taught(T, s, total + 1) : x.seq <= w.seq
      BY <2>1 DEF Taught
    <3>3. QED
      BY <3>1, <3>2 DEF Says
  <2>2. CASE s # w.slot
    <3>1. next[s] = table[s] /\ Says(S, s, table[s], total)
      BY <2>2 DEF Tables
    <3>2. Taught(T, s, total + 1) = Taught(S, s, total)
      BY <2>2 DEF Taught
    <3>3. QED
      BY <3>1, <3>2 DEF Says
  <2>3. QED
    BY <2>1, <2>2
<1>5. Commands(T) = Commands(S)
  BY DEF Commands
<1>6. Tables(T, total + 1, next)
  BY <1>3, <1>4 DEF Tables
<1>7. Journal(T, verbs)
  BY <1>5 DEF Journal
<1>8. QED
  BY <1>6, <1>7

\* A command at the end of the stream runs as what the table says.
LEMMA Commanding ==
    ASSUME NEW S, NEW total \in Nat, NEW table, NEW verbs,
           Tables(S, total, table), Journal(S, verbs), \A w \in S : w.seq \in 0 .. total - 1,
           NEW w, w.kind = "command", w.slot \in Slots, w.verb \in Verbs, w.seq = total,
           table[w.slot] = w.verb
    PROVE  /\ Tables(S \union {w}, total + 1, table)
           /\ Journal(S \union {w}, Append(verbs, w.verb))
<1> DEFINE T == S \union {w}   next == Append(verbs, w.verb)
<1>1. ASSUME NEW s, NEW n
      PROVE  Taught(T, s, n) = Taught(S, s, n)
  BY DEF Taught
<1>2. ASSUME NEW s, NEW v, NEW n
      PROVE  Says(T, s, v, n) <=> Says(S, s, v, n)
  BY <1>1 DEF Says
<1>3. ASSUME NEW c \in T, c.kind = "command"
      PROVE  Says(T, c.slot, c.verb, c.seq)
  <2>1. c \in S => Says(S, c.slot, c.verb, c.seq)
    BY <1>3 DEF Tables
  <2>2. Says(S, w.slot, w.verb, total)
    BY DEF Tables
  <2>3. QED
    BY <1>2, <2>1, <2>2
<1>4. ASSUME NEW s \in Slots
      PROVE  Says(T, s, table[s], total + 1)
  <2>1. Says(S, s, table[s], total)
    BY DEF Tables
  <2>2. Taught(T, s, total + 1) = Taught(S, s, total)
    BY DEF Taught
  <2>3. QED
    BY <2>1, <2>2 DEF Says
<1>5. Tables(T, total + 1, table)
  BY <1>3, <1>4 DEF Tables
<1> DEFINE C == Commands(S)   L == Len(executed)
<1>6. Commands(T) = C \union {total}
  BY DEF Commands
<1>7. IsFiniteSet(C) /\ C \subseteq 0 .. total - 1 /\ Cardinality(C) \in Nat
  BY CommandsFinite
<1>8. /\ verbs \in Seq(Verbs) /\ executed \in Seq(Verbs) /\ L \in Nat
      /\ L + Cardinality(C) = Len(verbs)
      /\ \A j \in 1 .. L : executed[j] = verbs[j]
      /\ \A c \in S : c.kind = "command" =>
           verbs[L + Cardinality({n \in C : n <= c.seq})] = c.verb
  BY DEF Journal
<1> HIDE DEF C, L
<1>9. Cardinality(Commands(T)) = Cardinality(C) + 1
  <2>1. total \notin C
    BY <1>7
  <2>2. QED
    BY <1>6, <1>7, <2>1, FS_AddElement
<1>10. L + Cardinality(Commands(T)) = Len(verbs) + 1
  <2> DEFINE D == Cardinality(Commands(T))
  <2>1. D = Cardinality(C) + 1
    BY <1>9
  <2> HIDE DEF D
  <2>2. L + Cardinality(C) = Len(verbs) /\ L \in Nat /\ Cardinality(C) \in Nat
    BY <1>7, <1>8
  <2>3. L + D = Len(verbs) + 1
    BY <2>1, <2>2
  <2>4. QED
    BY <2>3 DEF D
<1>11. /\ next \in Seq(Verbs) /\ Len(next) = Len(verbs) + 1 /\ Len(verbs) \in Nat
       /\ \A j \in 1 .. Len(verbs) : next[j] = verbs[j]
       /\ next[Len(verbs) + 1] = w.verb
  BY <1>8
<1> HIDE DEF next
<1>12. \A j \in 1 .. L : executed[j] = next[j]
  <2>1. L <= Len(verbs)
    BY <1>7, <1>8
  <2>2. QED
    BY <1>8, <1>11, <2>1
<1>13. ASSUME NEW c \in T, c.kind = "command"
       PROVE  next[L + Cardinality({n \in Commands(T) : n <= c.seq})] = c.verb
  <2>1. CASE c = w
    <3>1. {n \in Commands(T) : n <= c.seq} = Commands(T)
      <4>1. \A n \in C \union {total} : n <= total
        BY <1>7
      <4>2. {n \in C \union {total} : n <= total} = C \union {total}
        BY <4>1
      <4>3. QED
        BY <1>6, <2>1, <4>2
    <3>2. QED
      BY <1>11, <1>10, <2>1, <3>1
  <2>2. CASE c # w
    <3> DEFINE A == {n \in C : n <= c.seq}
    <3>1. c \in S /\ c.seq \in 0 .. total - 1 /\ c.seq \in C
      BY <1>13, <2>2 DEF C, Commands
    <3>2. {n \in Commands(T) : n <= c.seq} = A
      BY <1>6, <1>7, <3>1
    <3>3. A \in SUBSET C /\ c.seq \in A
      BY <1>7, <3>1
    <3>4. verbs[L + Cardinality(A)] = c.verb
      BY <1>8, <1>13, <3>1
    <3> HIDE DEF A
    <3>5. IsFiniteSet(A) /\ Cardinality(A) <= Cardinality(C)
      BY <1>7, <3>3, FS_Subset
    <3>6. Cardinality(A) \in Nat /\ Cardinality(A) # 0
      BY <3>3, <3>5, FS_CardinalityType, FS_EmptySet
    <3>7. L + Cardinality(A) \in 1 .. Len(verbs)
      BY <1>7, <1>8, <3>5, <3>6
    <3>8. next[L + Cardinality(A)] = c.verb
      BY <1>11, <3>4, <3>7
    <3>9. QED
      BY <3>2, <3>8
  <2>3. QED
    BY <2>1, <2>2
<1>14. Journal(T, next)
  <2>1. L + Cardinality(Commands(T)) = Len(next)
    BY <1>11, <1>10
  <2>2. QED
    BY <1>8, <1>11, <1>12, <1>13, <2>1 DEF Journal, L
<1>15. QED
  BY <1>5, <1>14 DEF next

-----------------------------------------------------------------------------
(* The string table of the client *)

\* The slot for a verb has been free, or holds it already, or is the one used longest ago.
LEMMA SlotFound ==
    ASSUME SlotsUsed, NEW v \in Verbs
    PROVE  /\ SendId(v) \in Slots
           /\ Known(v) => slotToStr[SendId(v)] = v
<1>1. ENTRY_COUNT \in Nat \ {0} /\ Slots \in SUBSET Nat /\ 0 \in Slots
  BY CommandAssumption DEF Slots
<1>2. CASE Known(v)
  <2>1. \E s \in Slots : slotToStr[s] = v
    BY <1>2 DEF Known
  <2>2. SendId(v) = CHOOSE s \in Slots : slotToStr[s] = v
    BY <1>2 DEF SendId
  <2>3. QED
    BY <2>1, <2>2
<1>3. CASE ~Known(v) /\ Free # {}
  <2>1. Free \in SUBSET Nat /\ Free \in SUBSET Slots
    BY <1>1 DEF Free
  <2>2. Min(Free) \in Free
    BY <1>3, <2>1, MinIs
  <2>3. QED
    BY <1>3, <2>1, <2>2 DEF SendId
<1>4. CASE ~Known(v) /\ Free = {}
  <2>1. slotToStr[0] # NoVerb
    BY <1>1, <1>4 DEF Free
  <2>2. PICK i \in DOMAIN lru : lru[i] = 0
    BY <1>1, <2>1 DEF SlotsUsed
  <2>3. lru \in Seq(Slots) /\ lru # <<>>
    BY <2>2 DEF SlotsUsed
  <2>4. Head(lru) \in Slots
    BY <2>3
  <2>5. QED
    BY <1>4, <2>4 DEF SendId
<1>5. QED
  BY <1>2, <1>3, <1>4

LEMMA Touching ==
    ASSUME SlotsUsed, NEW v \in Verbs, NEW s \in Slots,
           slotToStr' = [slotToStr EXCEPT ![s] = v], lru' = Touch(s)
    PROVE  SlotsUsed'
<1> DEFINE I == {i \in DOMAIN lru : lru[i] # s}   q == At(lru, I)
<1>1. slotToStr \in [Slots -> Verbs \union {NoVerb}] /\ lru \in Seq(Slots)
  BY DEF SlotsUsed
<1>2. /\ q \in Seq(Slots)
      /\ \E p \in [DOMAIN q -> I] :
           /\ \A k \in DOMAIN q : q[k] = lru[p[k]]
           /\ \A i \in I : \E k \in DOMAIN q : p[k] = i
  <2>1. I \in SUBSET DOMAIN lru
    OBVIOUS
  <2> HIDE DEF I
  <2>2. QED
    BY <1>1, <2>1, AtIs
<1>3. lru' = Append(q, s)
  BY DEF Touch
<1>4. ASSUME NEW i \in DOMAIN lru, lru[i] # s
      PROVE  \E k \in DOMAIN q : q[k] = lru[i]
  <2>1. i \in I
    BY <1>4
  <2>2. QED
    BY <1>2, <2>1, ZenonT(30)
<1> HIDE DEF I, q
<1>5. /\ lru' \in Seq(Slots) /\ lru'[Len(q) + 1] = s /\ Len(q) + 1 \in DOMAIN lru'
      /\ \A k \in DOMAIN q : k \in DOMAIN lru' /\ lru'[k] = q[k]
  BY <1>2, <1>3
<1>6. slotToStr' \in [Slots -> Verbs \union {NoVerb}]
      /\ \A t \in Slots : t # s => slotToStr'[t] = slotToStr[t]
  BY <1>1
<1>7. ASSUME NEW t \in Slots, slotToStr'[t] # NoVerb
      PROVE  \E i \in DOMAIN lru' : lru'[i] = t
  <2>1. CASE t = s
    BY <1>5, <2>1
  <2>2. CASE t # s
    <3>1. PICK i \in DOMAIN lru : lru[i] = t
      BY <1>6, <1>7, <2>2 DEF SlotsUsed
    <3>2. PICK k \in DOMAIN q : q[k] = t
      BY <1>4, <2>2, <3>1
    <3>3. QED
      BY <1>5, <3>2
  <2>3. QED
    BY <2>1, <2>2
<1>8. QED
  BY <1>5, <1>6, <1>7 DEF SlotsUsed

\* The guard of CommandToServer keeps the numbers close together.
LEMMA SpanKept ==
    ASSUME nextSendSeq \in Nat, NEW q, Queue(q), Span(q) <= MaxSpan
    PROVE  Spanned(OutOf(q))
<1> DEFINE N == Numbered(q)   numbers == {N[i].seq : i \in DOMAIN q}
<1>1. /\ TotalOf(q) \in Nat
      /\ \A i \in DOMAIN q : N[i].seq \in 0 .. TotalOf(q) - 1
  BY Numbering
<1>2. numbers \in SUBSET Nat /\ \A x \in numbers : x <= TotalOf(q)
  BY <1>1
<1>3. Span(q) = IF numbers = {} THEN 0 ELSE Max(numbers) - Min(numbers) + 1
  BY DEF Span
<1>4. MaxSpan \in Nat
  BY CommandAssumption
<1> SUFFICES ASSUME NEW d \in OutOf(q), NEW e \in OutOf(q) PROVE e.seq - d.seq < MaxSpan
  BY DEF Spanned
<1>5. d.seq \in numbers /\ e.seq \in numbers
  BY DEF OutOf
<1> HIDE DEF N, numbers
<1>6. Min(numbers) \in numbers /\ Min(numbers) <= d.seq
  BY <1>2, <1>5, MinIs
<1>7. Max(numbers) \in numbers /\ e.seq <= Max(numbers)
  BY <1>1, <1>2, <1>5, MaxIs
<1>8. Max(numbers) - Min(numbers) + 1 <= MaxSpan
  BY <1>3, <1>5
<1> DEFINE a == Min(numbers)   b == Max(numbers)   c == d.seq   f == e.seq
<1>9. a \in Nat /\ b \in Nat /\ c \in Nat /\ f \in Nat
  BY <1>2, <1>5, <1>6, <1>7
<1> HIDE DEF a, b, c, f
<1>10. f - c < MaxSpan
  <2>1. b - a + 1 <= MaxSpan /\ a <= c /\ f <= b
    BY <1>6, <1>7, <1>8 DEF a, b, c, f
  <2>2. QED
    BY <1>4, <1>9, <2>1
<1>11. QED
  BY <1>10 DEF c, f

-----------------------------------------------------------------------------
(* The steps of the client *)

LEMMA Enqueuing ==
    ASSUME nextSendSeq \in Nat, Links, NEW q, Queue(q),
           Sound(OutOf(q), TotalOf(q), sent, judged, cargo),
           NEW kind \in Kinds, NEW s \in Slots, NEW v \in Verbs
    PROVE  LET r == Append(q, Pending(kind, s, v))
           IN  /\ Queue(r) /\ Sound(OutOf(r), TotalOf(r), sent, judged, cargo)
               /\ TotalOf(q) \in Nat /\ TotalOf(r) = TotalOf(q) + 1
               /\ \A x \in Stream(OutOf(q)) : x.seq \in 0 .. TotalOf(q) - 1
               /\ \E w : /\ w.kind = kind /\ w.slot = s /\ w.verb = v /\ w.seq = TotalOf(q)
                         /\ Stream(OutOf(r)) = Stream(OutOf(q)) \union {w}
<1> DEFINE r == Append(q, Pending(kind, s, v))
<1>1. Queue(r) /\ TotalOf(r) = TotalOf(q) + 1
  BY Appending
<1>2. PICK e : /\ OutOf(r) = OutOf(q) \union {e}
               /\ e.kind = kind /\ e.slot = s /\ e.verb = v
               /\ e.seq = TotalOf(q) /\ e.packet = 0
  BY Appending
<1>3. TotalOf(q) \in Nat /\ \A d \in OutOf(q) : d.seq \in 0 .. TotalOf(q) - 1
  BY OutFacts
<1>4. judged \in judged .. received
  BY DEF Links
<1> HIDE DEF r
<1>5. /\ Sound(OutOf(q) \union {e}, TotalOf(q) + 1, sent, judged, cargo)
      /\ Stream(OutOf(q) \union {e}) = Stream(OutOf(q)) \union {Wire(e)}
      /\ \A w \in Stream(OutOf(q)) : w.seq \in 0 .. TotalOf(q) - 1
  BY <1>2, <1>3, <1>4, Adding
<1>6. /\ Wire(e).kind = kind /\ Wire(e).slot = s /\ Wire(e).verb = v
      /\ Wire(e).seq = TotalOf(q)
  BY <1>2 DEF Wire
<1>7. QED
  BY <1>1, <1>2, <1>3, <1>5, <1>6 DEF r

\* A verb is queued behind the string event that teaches it.
LEMMA Queueing ==
    ASSUME CommandInv, NEW v \in Verbs
    PROVE  LET q == outQueue \o Queued(v)
               next == [slotToStr EXCEPT ![SendId(v)] = v]
           IN  /\ Queue(q) /\ Sound(OutOf(q), TotalOf(q), sent, judged, cargo)
               /\ Tables(Stream(OutOf(q)), TotalOf(q), next)
               /\ Journal(Stream(OutOf(q)), Append(issued, v))
<1> DEFINE s == SendId(v)   next == [slotToStr EXCEPT ![s] = v]
           c == Pending("command", s, v)   t == Pending("string", s, v)
           S == Stream(Out)
<1>1. /\ nextSendSeq \in Nat /\ Links /\ Queue(outQueue) /\ SlotsUsed
      /\ Sound(OutOf(outQueue), TotalOf(outQueue), sent, judged, cargo)
      /\ Tables(S, Total, slotToStr) /\ Journal(S, issued)
      /\ slotToStr \in [Slots -> Verbs \union {NoVerb}]
  BY DEF CommandInv, Out, Total, SlotsUsed
<1>2. outQueue \in Seq(Pend)
  BY <1>1 DEF Queue
<1>3. s \in Slots /\ (Known(v) => slotToStr[s] = v)
  BY <1>1, SlotFound
<1>4. "command" \in Kinds /\ "string" \in Kinds
  BY DEF Kinds
<1>5. c \in Pend /\ t \in Pend
  BY <1>3, <1>4 DEF Pend, Pending
<1> HIDE DEF s, c, t, S
<1>6. CASE Known(v)
  <2> DEFINE q == Append(outQueue, c)
  <2>1. outQueue \o Queued(v) = q
    <3>1. Queued(v) = <<c>>
      BY <1>6 DEF Queued, s, c
    <3>2. outQueue \o <<c>> = Append(outQueue, c)
      BY <1>2, <1>5
    <3>3. QED
      BY <3>1, <3>2
  <2>2. /\ Queue(q) /\ Sound(OutOf(q), TotalOf(q), sent, judged, cargo)
        /\ Total \in Nat /\ TotalOf(q) = Total + 1
        /\ \A x \in S : x.seq \in 0 .. Total - 1
        /\ \E w : /\ w.kind = "command" /\ w.slot = s /\ w.verb = v /\ w.seq = Total
                  /\ Stream(OutOf(q)) = S \union {w}
    BY <1>1, <1>3, <1>4, Enqueuing DEF Out, Total, S, c
  <2> HIDE DEF q
  <2>3. PICK w : /\ w.kind = "command" /\ w.slot = s /\ w.verb = v /\ w.seq = Total
                 /\ Stream(OutOf(q)) = S \union {w}
    BY <2>2
  <2>4. slotToStr[w.slot] = w.verb /\ w.slot \in Slots /\ w.verb \in Verbs
    BY <1>3, <1>6, <2>3
  <2>5. /\ Tables(S \union {w}, Total + 1, slotToStr)
        /\ Journal(S \union {w}, Append(issued, w.verb))
    BY <1>1, <2>2, <2>3, <2>4, Commanding
  <2>6. next = slotToStr
    BY <1>1, <1>3, <1>6
  <2>7. QED
    BY <2>1, <2>2, <2>3, <2>5, <2>6 DEF s
<1>7. CASE ~Known(v)
  <2> DEFINE q == Append(outQueue, t)   r == Append(q, c)
  <2>1. outQueue \o Queued(v) = r
    <3>1. Queued(v) = <<t, c>>
      BY <1>7 DEF Queued, s, c, t
    <3>2. outQueue \o <<t, c>> = r
      <4>1. /\ q \in Seq(Pend) /\ r \in Seq(Pend) /\ Len(r) = Len(outQueue) + 2
            /\ \A i \in 1 .. Len(outQueue) : r[i] = outQueue[i]
            /\ r[Len(outQueue) + 1] = t /\ r[Len(outQueue) + 2] = c
        BY <1>2, <1>5
      <4> DEFINE m == outQueue \o <<t, c>>
      <4>2. /\ m \in Seq(Pend) /\ Len(m) = Len(outQueue) + 2
            /\ \A i \in 1 .. Len(outQueue) : m[i] = outQueue[i]
            /\ m[Len(outQueue) + 1] = t /\ m[Len(outQueue) + 2] = c
        BY <1>2, <1>5
      <4>3. Len(outQueue) \in Nat
        BY <1>2
      <4> HIDE DEF m, r
      <4>4. \A i \in 1 .. Len(outQueue) + 2 : m[i] = r[i]
        <5> SUFFICES ASSUME NEW i \in 1 .. Len(outQueue) + 2 PROVE m[i] = r[i]
          OBVIOUS
        <5>1. i \in 1 .. Len(outQueue) \/ i = Len(outQueue) + 1 \/ i = Len(outQueue) + 2
          BY <4>3
        <5>2. QED
          BY <4>1, <4>2, <5>1
      <4>5. m = r
        BY <4>1, <4>2, <4>4, SeqEqual
      <4>6. QED
        BY <4>5 DEF m
    <3>3. QED
      BY <3>1, <3>2
  <2>2. /\ Queue(q) /\ Sound(OutOf(q), TotalOf(q), sent, judged, cargo)
        /\ Total \in Nat /\ TotalOf(q) = Total + 1
        /\ \A x \in S : x.seq \in 0 .. Total - 1
        /\ \E w : /\ w.kind = "string" /\ w.slot = s /\ w.verb = v /\ w.seq = Total
                  /\ Stream(OutOf(q)) = S \union {w}
    BY <1>1, <1>3, <1>4, Enqueuing DEF Out, Total, S, t
  <2> HIDE DEF q
  <2>3. PICK w : /\ w.kind = "string" /\ w.slot = s /\ w.verb = v /\ w.seq = Total
                 /\ Stream(OutOf(q)) = S \union {w}
    BY <2>2
  <2>4. w.slot \in Slots /\ w.verb \in Verbs /\ next = [slotToStr EXCEPT ![w.slot] = w.verb]
    BY <1>3, <2>3
  <2> DEFINE T == S \union {w}
  <2>5. Tables(T, Total + 1, next) /\ Journal(T, issued)
    BY <1>1, <2>2, <2>3, <2>4, Teaching
  <2> HIDE DEF T
  <2>6. /\ Queue(r) /\ Sound(OutOf(r), TotalOf(r), sent, judged, cargo)
        /\ Total + 1 \in Nat /\ TotalOf(r) = Total + 1 + 1
        /\ \A x \in T : x.seq \in 0 .. (Total + 1) - 1
        /\ \E x : /\ x.kind = "command" /\ x.slot = s /\ x.verb = v /\ x.seq = Total + 1
                  /\ Stream(OutOf(r)) = T \union {x}
    <3>1. /\ Queue(r) /\ Sound(OutOf(r), TotalOf(r), sent, judged, cargo)
          /\ TotalOf(q) \in Nat /\ TotalOf(r) = TotalOf(q) + 1
          /\ \A x \in Stream(OutOf(q)) : x.seq \in 0 .. TotalOf(q) - 1
          /\ \E x : /\ x.kind = "command" /\ x.slot = s /\ x.verb = v /\ x.seq = TotalOf(q)
                    /\ Stream(OutOf(r)) = Stream(OutOf(q)) \union {x}
      <4>1. /\ nextSendSeq \in Nat /\ Links /\ Queue(q)
            /\ Sound(OutOf(q), TotalOf(q), sent, judged, cargo)
            /\ "command" \in Kinds /\ s \in Slots
        BY <1>1, <1>3, <1>4, <2>2
      <4>2. QED
        BY <4>1, Enqueuing DEF c
    <3>2. Stream(OutOf(q)) = T
      BY <2>3 DEF T
    <3> HIDE DEF r
    <3>3. QED
      BY <2>2, <3>1, <3>2
  <2> HIDE DEF r
  <2>7. PICK x : /\ x.kind = "command" /\ x.slot = s /\ x.verb = v /\ x.seq = Total + 1
                 /\ Stream(OutOf(r)) = T \union {x}
    BY <2>6
  <2>8. next[x.slot] = x.verb /\ x.slot \in Slots /\ x.verb \in Verbs
    BY <1>1, <1>3, <2>7
  <2> HIDE DEF next
  <2>9. /\ Tables(T \union {x}, Total + 1 + 1, next)
        /\ Journal(T \union {x}, Append(issued, x.verb))
    <3> DEFINE n == Total + 1
    <3>1. n \in Nat /\ \A y \in T : y.seq \in 0 .. n - 1
      BY <2>6
    <3>2. x.seq = n
      BY <2>7
    <3>3. Tables(T, n, next)
      BY <2>5
    <3> HIDE DEF n
    <3>4. /\ Tables(T \union {x}, n + 1, next)
          /\ Journal(T \union {x}, Append(issued, x.verb))
      BY <2>5, <2>7, <2>8, <3>1, <3>2, <3>3, Commanding
    <3>5. QED
      BY <3>4 DEF n
  <2>10. QED
    BY <2>1, <2>6, <2>7, <2>9 DEF next, s
<1>8. QED
  BY <1>6, <1>7

\* Verdicts, and then at most one packet.
LEMMA ClientStep ==
    ASSUME nextSendSeq \in Nat, Links, NEW k, Judge(k),
           NEW q, Queue(q), NEW want, SendPacket(q, want),
           Sound(OutOf(q), TotalOf(q), sent, judged', cargo), Spanned(OutOf(q)),
           Tables(Stream(OutOf(q)), TotalOf(q), slotToStr'),
           Journal(Stream(OutOf(q)), issued'), SlotsUsed',
           UNCHANGED <<received, taken, serverVars>>
    PROVE  CommandInv'
<1>1. /\ judged' \in judged .. received /\ judged' \in Nat
      /\ delivered' = {i \in taken : i <= judged'}
  BY JudgeLinks
<1>2. /\ nextSendSeq' \in Nat /\ Queue(outQueue)' /\ Total' = TotalOf(q)
      /\ sent' \in {sent, sent + 1}
      /\ Sound(Out, Total, sent, judged, cargo)'
      /\ Stream(Out)' = Stream(OutOf(q))
      /\ Spanned(Out)'
  BY <1>1, Flushing
<1>3. Links'
  <2>1. received' = received /\ taken' = taken
    OBVIOUS
  <2>2. /\ sent \in Nat /\ received \in 0 .. sent /\ judged \in 0 .. received
        /\ taken \subseteq 1 .. received
    BY DEF Links
  <2>3. sent' \in Nat /\ received \in 0 .. sent' /\ judged' \in 0 .. received
    BY <1>1, <1>2, <2>2
  <2>4. QED
    BY <1>1, <2>1, <2>2, <2>3 DEF Links
<1>4. serverTable' = serverTable /\ executed' = executed
  BY DEF serverVars
<1> DEFINE S == Stream(OutOf(q))   T == Stream(Out)'
<1>5. S = T /\ Tables(S, TotalOf(q), slotToStr') /\ Journal(S, issued')
  BY <1>2
<1> HIDE DEF S, T
<1>6. Tables(T, Total', slotToStr') /\ Journal(T, issued')
  BY <1>2, <1>5
<1>7. Tables(Stream(Out), Total, slotToStr)'
  <2>1. \A s, n : Taught(T, s, n) = Taught(Stream(Out), s, n)'
    BY DEF Taught, T
  <2>2. \A s, v, n : Says(T, s, v, n) <=> Says(Stream(Out), s, v, n)'
    BY <1>4 DEF Says, Taught, T
  <2>3. QED
    BY <1>4, <1>6 DEF Tables, Says, Taught, T
<1>8. Journal(Stream(Out), issued)'
  BY <1>4, <1>6 DEF Journal, Commands, T
<1>9. QED
  BY <1>2, <1>3, <1>7, <1>8 DEF CommandInv

LEMMA CommandStep ==
    ASSUME CommandInv, NEW v \in Verbs, CommandToServer(v)
    PROVE  CommandInv'
<1> DEFINE q == outQueue \o Queued(v)   next == [slotToStr EXCEPT ![SendId(v)] = v]
<1>1. /\ Span(q) <= MaxSpan
      /\ issued' = Append(issued, v) /\ slotToStr' = next /\ lru' = Touch(SendId(v))
      /\ Judge(judged) /\ SendPacket(q, TRUE)
      /\ UNCHANGED <<received, taken, serverVars>>
  BY DEF CommandToServer
<1>2. nextSendSeq \in Nat /\ Links /\ SlotsUsed
  BY DEF CommandInv
<1>3. /\ Queue(q) /\ Sound(OutOf(q), TotalOf(q), sent, judged, cargo)
      /\ Tables(Stream(OutOf(q)), TotalOf(q), next)
      /\ Journal(Stream(OutOf(q)), Append(issued, v))
  BY Queueing
<1>4. judged' = judged
  BY <1>1, <1>2, JudgeLinks
<1>5. SlotsUsed'
  BY <1>1, <1>2, SlotFound, Touching
<1> HIDE DEF q, next
<1>6. Spanned(OutOf(q))
  BY <1>1, <1>2, <1>3, SpanKept
<1>7. QED
  BY <1>1, <1>2, <1>3, <1>4, <1>5, <1>6, ClientStep

LEMMA TickStep == CommandInv /\ Tick => CommandInv'
<1> SUFFICES ASSUME CommandInv, Tick PROVE CommandInv'
  OBVIOUS
<1>1. /\ Judge(judged) /\ SendPacket(outQueue, TRUE)
      /\ UNCHANGED <<received, taken, serverVars>>
      /\ issued' = issued /\ slotToStr' = slotToStr /\ lru' = lru
  BY DEF Tick
<1>2. /\ nextSendSeq \in Nat /\ Links /\ SlotsUsed /\ Queue(outQueue)
      /\ Sound(OutOf(outQueue), TotalOf(outQueue), sent, judged, cargo)
      /\ Spanned(OutOf(outQueue))
      /\ Tables(Stream(OutOf(outQueue)), TotalOf(outQueue), slotToStr)
      /\ Journal(Stream(OutOf(outQueue)), issued)
  BY DEF CommandInv, Out, Total
<1>3. judged' = judged
  BY <1>1, <1>2, JudgeLinks
<1>4. SlotsUsed'
  BY <1>1, <1>2 DEF SlotsUsed
<1>5. QED
  BY <1>1, <1>2, <1>3, <1>4, ClientStep

LEMMA NotifiedStep ==
    ASSUME CommandInv, NEW hasBody \in BOOLEAN, Notified(hasBody)
    PROVE  CommandInv'
<1>1. PICK k : Judge(k)
  BY DEF Notified
<1> DEFINE q == Kept   want == hasBody /\ HasPendingEvents(Kept)
<1>2. /\ SendPacket(q, want)
      /\ UNCHANGED <<received, taken, serverVars>>
      /\ issued' = issued /\ slotToStr' = slotToStr /\ lru' = lru
  BY DEF Notified
<1>3. /\ nextSendSeq \in Nat /\ Links /\ SlotsUsed /\ Queue(outQueue)
      /\ Sound(Out, Total, sent, judged, cargo) /\ Spanned(Out)
      /\ Tables(Stream(Out), Total, slotToStr) /\ Journal(Stream(Out), issued)
  BY DEF CommandInv
<1>4. /\ Queue(q) /\ TotalOf(q) = Total
      /\ Sound(OutOf(q), Total, sent, judged', cargo)
      /\ Stream(OutOf(q)) = Stream(Out)
      /\ Spanned(OutOf(q))
  BY <1>1, <1>3, Delivering
<1>5. SlotsUsed'
  BY <1>2, <1>3 DEF SlotsUsed
<1> HIDE DEF q, want
<1>6. /\ Sound(OutOf(q), TotalOf(q), sent, judged', cargo)
      /\ Tables(Stream(OutOf(q)), TotalOf(q), slotToStr')
      /\ Journal(Stream(OutOf(q)), issued')
  BY <1>2, <1>3, <1>4
<1>7. QED
  BY <1>1, <1>2, <1>3, <1>4, <1>5, <1>6, ClientStep

-----------------------------------------------------------------------------
(* The steps of the server *)

\* The difference modulo W of two numbers less than W apart.
LEMMA RemainderDistance ==
    ASSUME NEW W \in Nat \ {0}, NEW n \in Nat, NEW s \in Nat, n < s + W, s < n + W
    PROVE  /\ n <= s => ((s % W) - (n % W)) % W = s - n
           /\ s < n => ((s % W) - (n % W)) % W = (s - n) + W
<1> DEFINE a == n \div W   b == n % W   c == s \div W   d == s % W   r == (d - b) % W
<1>1. n = W * a + b /\ b \in 0 .. W - 1 /\ a \in Nat
  BY SMTT(30)
<1>2. s = W * c + d /\ d \in 0 .. W - 1 /\ c \in Nat
  BY SMTT(30)
<1>3. r = IF b <= d THEN d - b ELSE (d - b) + W
  <2> HIDE DEF b, d
  <2>1. -W < d - b /\ d - b < W /\ d - b \in Int
    BY <1>1, <1>2
  <2>2. \A x \in Int : -W < x /\ x < W => x % W = IF x >= 0 THEN x ELSE x + W
    BY SMTT(30)
  <2>3. QED
    BY <2>1, <2>2, <1>1, <1>2
<1> SUFFICES /\ n <= s => r = s - n
             /\ s < n => r = (s - n) + W
  OBVIOUS
<1> HIDE DEF a, b, c, d, r
<1>4. W * (c - a) = W * c - W * a /\ W * c \in Int /\ W * a \in Int
  BY <1>1, <1>2, SMTT(30)
<1>5. CASE c = a
  BY <1>1, <1>2, <1>3, <1>5
<1>6. CASE c = a + 1
  <2>1. W * c = W * a + W
    BY <1>4, <1>6, <1>1
  <2>2. QED
    BY <2>1, <1>1, <1>2, <1>3
<1>7. CASE a = c + 1
  <2>1. W * a = W * c + W
    BY <1>7, <1>2, SMTT(30)
  <2>2. QED
    BY <2>1, <1>1, <1>2, <1>3
<1>8. ~(c >= a + 2)
  <2>1. c >= a + 2 => W * (c - a) >= W * 2
    BY <1>1, <1>2, SMTT(30)
  <2>2. QED
    BY <2>1, <1>1, <1>2, <1>4
<1>9. ~(a >= c + 2)
  <2>1. a >= c + 2 => W * a >= W * (c + 2) /\ W * (c + 2) = W * c + W + W
    BY <1>1, <1>2, SMTT(30)
  <2>2. QED
    BY <2>1, <1>1, <1>2, <1>4
<1>10. QED
  BY <1>5, <1>6, <1>7, <1>8, <1>9, <1>1, <1>2

\* The low bits of its number identify an event that has not arrived.
LEMMA Recovering ==
    ASSUME CommandInv, MaxSpan <= EVENT_SEQ_COUNT, Runnable = {},
           NEW e \in Out, e.packet \in received + 1 .. sent
    PROVE  nextRecvSeq <= e.seq /\ Recovered(e.seq) = e.seq
<1>1. /\ nextSendSeq \in Nat /\ Queue(outQueue) /\ Links /\ Spanned(Out)
      /\ Flight(Out, sent, judged, cargo) /\ Arrived(Out, Total) /\ Outstanding(Out, Total)
  BY DEF CommandInv, Sound
<1>2. e.seq \in 0 .. Total - 1 /\ e.seq \in Nat /\ Total \in Nat /\ nextRecvSeq \in Nat
  BY <1>1, OutFacts DEF Out, Total, Arrived
<1>3. e.packet \notin taken
  <2>1. received \in Nat /\ taken \subseteq 1 .. received
    BY <1>1 DEF Links
  <2>2. QED
    BY <2>1
<1>4. ~Got(e.seq)
  BY <1>1, <1>3 DEF Flight
<1>5. nextRecvSeq <= e.seq /\ nextRecvSeq \in 0 .. Total - 1
  BY <1>2, <1>4 DEF Got
<1>6. ~Got(nextRecvSeq)
  BY <1>2 DEF Got, Runnable
<1>7. PICK d \in Out : d.seq = nextRecvSeq
  BY <1>1, <1>5, <1>6 DEF Outstanding
<1>8. e.seq - nextRecvSeq < MaxSpan
  BY <1>1, <1>7 DEF Spanned
<1>9. EVENT_SEQ_COUNT \in Nat \ {0} /\ MaxSpan \in Nat
  BY CommandAssumption
<1> DEFINE W == EVENT_SEQ_COUNT   n == nextRecvSeq   s == e.seq
<1>10. ((s % W) - (n % W)) % W = s - n
  <2>1. /\ W \in Nat \ {0} /\ n \in Nat /\ s \in Nat
        /\ n < s + W /\ s < n + W /\ n <= s
    BY <1>2, <1>5, <1>8, <1>9
  <2> HIDE DEF W, n, s
  <2>2. QED
    BY <2>1, RemainderDistance
<1>11. Recovered(s) = n + (s - n)
  BY <1>10 DEF Recovered
<1>12. QED
  BY <1>2, <1>5, <1>11

LEMMA ReceivingStep ==
    ASSUME CommandInv, MaxSpan <= EVENT_SEQ_COUNT, ServerReceives
    PROVE  CommandInv'
<1>1. PICK i \in received + 1 .. sent :
        /\ Take(i, TRUE)
        /\ waiting' = waiting \union {[ev EXCEPT !.seq = Recovered(ev.seq)] : ev \in cargo[i]}
  BY DEF ServerReceives
<1>2. /\ Runnable = {} /\ received' = i /\ taken' = taken \union {i}
      /\ sent' = sent /\ judged' = judged /\ delivered' = delivered
      /\ issued' = issued /\ outQueue' = outQueue /\ nextSendSeq' = nextSendSeq
      /\ slotToStr' = slotToStr /\ lru' = lru /\ cargo' = cargo
      /\ nextRecvSeq' = nextRecvSeq /\ serverTable' = serverTable /\ executed' = executed
  BY <1>1 DEF ServerReceives, Take, clientVars
<1>3. /\ nextSendSeq \in Nat /\ Queue(outQueue) /\ SlotsUsed /\ Links
      /\ Flight(Out, sent, judged, cargo) /\ Arrived(Out, Total) /\ Outstanding(Out, Total)
      /\ Spanned(Out) /\ Tables(Stream(Out), Total, slotToStr) /\ Journal(Stream(Out), issued)
  BY DEF CommandInv, Sound
<1>4. /\ sent \in Nat /\ received \in Nat /\ judged \in Nat /\ judged <= received
      /\ taken \subseteq 1 .. received /\ i \in Nat /\ received < i /\ i <= sent /\ i # 0
  BY <1>3 DEF Links
<1>5. Out' = Out /\ Total' = Total
  BY <1>2 DEF Out, OutOf, Total, TotalOf, Numbered, Unnumbered
<1>6. /\ Total \in Nat
      /\ \A e \in Out : /\ e.kind \in Kinds /\ e.slot \in Slots /\ e.verb \in Verbs
                        /\ e.seq \in 0 .. Total - 1 /\ e.seq \in Nat
      /\ \A d, e \in Out : d.seq = e.seq => d = e
  BY <1>3, OutFacts DEF Out, Total
<1>7. \A e : Wire(e).seq = e.seq
  BY DEF Wire
<1>8. ASSUME NEW w \in cargo[i]
      PROVE  /\ \E e \in Out : e.packet = i /\ w = Wire(e)
             /\ [w EXCEPT !.seq = Recovered(w.seq)] = w
  <2>1. PICK e \in Out : e.packet = i /\ Wire(e) = w
    BY <1>3 DEF Flight
  <2>2. Recovered(e.seq) = e.seq
    BY <1>2, <2>1, Recovering
  <2>3. w = [kind |-> e.kind, slot |-> e.slot, verb |-> e.verb, seq |-> e.seq]
    BY <2>1 DEF Wire
  <2>4. [w EXCEPT !.seq = e.seq] = w
    BY <2>3
  <2>5. QED
    BY <1>7, <2>1, <2>2, <2>4
<1>9. waiting' = waiting \union cargo[i]
  BY <1>1, <1>8
<1>10. \A e \in Out : e.packet = i => nextRecvSeq <= e.seq /\ Wire(e) \in cargo[i]
  <2> SUFFICES ASSUME NEW e \in Out, e.packet = i
               PROVE  nextRecvSeq <= e.seq /\ Wire(e) \in cargo[i]
    OBVIOUS
  <2>1. nextRecvSeq <= e.seq
    BY <1>2, Recovering
  <2>2. QED
    BY <1>3, <1>4, <2>1 DEF Flight
<1>11. \A n : Got(n)' <=> Got(n) \/ \E w \in cargo[i] : w.seq = n
  BY <1>2, <1>9 DEF Got
<1>12. Links'
  <2>1. taken \union {i} \subseteq 1 .. i
    BY <1>4
  <2>2. \A j \in taken \union {i} : j <= judged <=> j \in taken /\ j <= judged
    BY <1>4
  <2>3. delivered = {j \in taken \union {i} : j <= judged}
    BY <1>3, <2>2 DEF Links
  <2>4. sent \in Nat /\ i \in 0 .. sent /\ judged \in 0 .. i
    BY <1>4
  <2>5. QED
    BY <1>2, <2>1, <2>3, <2>4 DEF Links
<1>13. Flight(Out, sent, judged, cargo)'
  <2>1. \A e \in Out : e.packet # 0 => e.packet \in judged + 1 .. sent /\ Wire(e) \in cargo[e.packet]
    BY <1>3 DEF Flight
  <2>2. \A j \in i + 1 .. sent : \A w \in cargo[j] : \E e \in Out : e.packet = j /\ Wire(e) = w
    <3>1. \A j \in i + 1 .. sent : j \in received + 1 .. sent
      BY <1>4
    <3>2. QED
      BY <1>3, <3>1 DEF Flight
  <2>3. ASSUME NEW e \in Out
        PROVE  e.packet \in taken \union {i} <=> Got(e.seq) \/ \E w \in cargo[i] : w.seq = e.seq
    <3>1. e.packet \in taken <=> Got(e.seq)
      BY <1>3 DEF Flight
    <3>2. e.packet = i => \E w \in cargo[i] : w.seq = e.seq
      BY <1>7, <1>10
    <3>3. (\E w \in cargo[i] : w.seq = e.seq) => e.packet = i
      BY <1>6, <1>7, <1>8
    <3>4. QED
      BY <3>1, <3>2, <3>3
  <2>4. QED
    BY <1>2, <1>5, <1>11, <2>1, <2>2, <2>3 DEF Flight
<1>14. Arrived(Out, Total)'
  <2>1. \A w \in cargo[i] : /\ w \in WireEvent /\ nextRecvSeq <= w.seq /\ w.seq < Total
    <3> SUFFICES ASSUME NEW w \in cargo[i]
                 PROVE  w \in WireEvent /\ nextRecvSeq <= w.seq /\ w.seq < Total
      OBVIOUS
    <3>1. PICK e \in Out : e.packet = i /\ w = Wire(e)
      BY <1>8
    <3>2. w \in WireEvent
      BY <1>6, <3>1 DEF Wire, WireEvent, Kinds
    <3>3. w.seq = e.seq /\ e.seq < Total /\ nextRecvSeq <= e.seq
      BY <1>6, <1>7, <1>10, <3>1
    <3>4. QED
      BY <3>2, <3>3
  <2>2. \A w \in cargo[i], e \in Out : w.seq = e.seq => w = Wire(e)
    BY <1>6, <1>7, <1>8
  <2>3. \A w \in waiting', e \in Out : w.seq = e.seq => w = Wire(e)
    BY <1>3, <1>9, <2>2 DEF Arrived
  <2>4. ASSUME NEW w \in waiting', NEW x \in waiting', w.seq = x.seq
        PROVE  w = x
    <3>1. CASE w \in waiting /\ x \in waiting
      BY <1>3, <2>4, <3>1 DEF Arrived
    <3>2. CASE x \in cargo[i]
      <4>1. PICK e \in Out : x = Wire(e)
        BY <1>8, <3>2
      <4>2. QED
        BY <1>7, <2>3, <2>4, <4>1
    <3>3. CASE w \in cargo[i]
      <4>1. PICK e \in Out : w = Wire(e)
        BY <1>8, <3>3
      <4>2. QED
        BY <1>7, <2>3, <2>4, <4>1
    <3>4. QED
      BY <1>9, <3>1, <3>2, <3>3
  <2>5. /\ waiting' \subseteq WireEvent
        /\ \A w \in waiting' : nextRecvSeq <= w.seq /\ w.seq < Total
    BY <1>3, <1>9, <2>1 DEF Arrived
  <2>6. nextRecvSeq \in Nat /\ nextRecvSeq <= Total
    BY <1>3 DEF Arrived
  <2>7. QED
    BY <1>2, <1>5, <2>3, <2>4, <2>5, <2>6 DEF Arrived
<1>15. Outstanding(Out, Total)'
  <2>1. \A n \in 0 .. Total - 1 : Got(n)' \/ \E e \in Out : e.seq = n
    BY <1>3, <1>11 DEF Outstanding
  <2>2. QED
    BY <1>5, <2>1 DEF Outstanding
<1>16. Stream(Out)' = Stream(Out)
  <2> DEFINE R == {Wire(e) : e \in {d \in Out : nextRecvSeq <= d.seq}}
  <2>1. cargo[i] \subseteq R
    BY <1>8, <1>10
  <2>2. Stream(Out) = waiting \union R /\ Stream(Out)' = waiting' \union R
    BY <1>2, <1>5 DEF Stream
  <2> HIDE DEF R
  <2>3. QED
    BY <1>9, <2>1, <2>2
<1>17. Spanned(Out)'
  BY <1>3, <1>5 DEF Spanned
<1> DEFINE S == Stream(Out)   T == Stream(Out)'
<1>18. S = T /\ Tables(S, Total, slotToStr) /\ Journal(S, issued)
  BY <1>3, <1>16
<1> HIDE DEF S, T
<1>19. Tables(T, Total', slotToStr') /\ Journal(T, issued')
  BY <1>2, <1>5, <1>18
<1>20. Tables(Stream(Out), Total, slotToStr)'
  BY <1>2, <1>19 DEF Tables, Says, Taught, T
<1>21. Journal(Stream(Out), issued)'
  BY <1>2, <1>19 DEF Journal, Commands, T
<1>22. Queue(outQueue)' /\ SlotsUsed' /\ nextSendSeq' \in Nat
  BY <1>2, <1>3 DEF Queue, SlotsUsed
<1>23. QED
  BY <1>12, <1>13, <1>14, <1>15, <1>17, <1>20, <1>21, <1>22 DEF CommandInv, Sound

\* Running the first event of a stream leaves what the rest says true.
LEMMA Running ==
    ASSUME NEW S, NEW n \in Nat, NEW total \in Nat, NEW table, NEW verbs, NEW ev \in S,
           ev \in WireEvent, ev.seq = n,
           \A x \in S : x.seq \in 0 .. total - 1 /\ n <= x.seq /\ (x.seq = n => x = ev),
           \A x \in S : x.slot \in Slots,
           Tables(S, total, table), Journal(S, verbs),
           serverTable' = IF ev.kind = "string"
                          THEN [serverTable EXCEPT ![ev.slot] = ev.verb] ELSE serverTable,
           executed' = IF ev.kind = "command"
                       THEN Append(executed, serverTable[ev.slot]) ELSE executed
    PROVE  /\ Tables(S \ {ev}, total, table)'
           /\ Journal(S \ {ev}, verbs)'
<1> DEFINE T == S \ {ev}
<1>1. ev.kind \in Kinds /\ ev.slot \in Slots /\ ev.verb \in Verbs
  BY DEF WireEvent, Kinds
<1>2. serverTable \in [Slots -> Verbs \union {NoVerb}]
  BY DEF Tables
<1>3. /\ serverTable' \in [Slots -> Verbs \union {NoVerb}]
      /\ \A s \in Slots : serverTable'[s] = IF ev.kind = "string" /\ s = ev.slot THEN ev.verb
                                            ELSE serverTable[s]
  BY <1>1, <1>2
<1>4. ASSUME NEW s \in Slots, NEW v, NEW m \in Nat, n < m, Says(S, s, v, m)
      PROVE  Says(T, s, v, m)'
  <2>1. Says(T, s, v, m)' <=>
          \/ \E w \in Taught(T, s, m) : w.verb = v /\ \A x \in Taught(T, s, m) : x.seq <= w.seq
          \/ Taught(T, s, m) = {} /\ serverTable'[s] = v
    BY DEF Says, Taught
  <2>2. CASE ev.kind = "string" /\ s = ev.slot
    <3>1. Taught(T, s, m) = Taught(S, s, m) \ {ev} /\ ev \in Taught(S, s, m)
      BY <1>4, <2>2 DEF Taught
    <3>2. PICK w \in Taught(S, s, m) : w.verb = v /\ \A x \in Taught(S, s, m) : x.seq <= w.seq
      BY <1>4, <3>1 DEF Says
    <3>3. CASE w # ev
      BY <2>1, <3>1, <3>2, <3>3
    <3>4. CASE w = ev
      <4>1. \A x \in Taught(S, s, m) : x \in S /\ x.seq <= n
        BY <3>2, <3>4 DEF Taught
      <4>2. \A x \in Taught(S, s, m) : x.seq \in Nat /\ n <= x.seq
        BY <4>1
      <4>3. \A x \in Taught(S, s, m) : x = ev
        BY <4>1, <4>2
      <4>4. Taught(T, s, m) = {}
        BY <3>1, <4>3
      <4>5. serverTable'[s] = v
        BY <1>3, <2>2, <3>2, <3>4
      <4>6. QED
        BY <2>1, <4>4, <4>5
    <3>5. QED
      BY <3>3, <3>4
  <2>3. CASE ~(ev.kind = "string" /\ s = ev.slot)
    <3>1. Taught(T, s, m) = Taught(S, s, m)
      BY <2>3 DEF Taught
    <3>2. serverTable'[s] = serverTable[s]
      BY <1>3, <2>3
    <3>3. QED
      BY <1>4, <2>1, <3>1, <3>2 DEF Says
  <2>4. QED
    BY <2>2, <2>3
<1>5. \A w \in T : w \in S /\ w # ev /\ w.seq \in Nat /\ n < w.seq /\ w.seq \in 0 .. total - 1
  <2> SUFFICES ASSUME NEW w \in T
               PROVE  w \in S /\ w # ev /\ w.seq \in Nat /\ n < w.seq /\ w.seq \in 0 .. total - 1
    OBVIOUS
  <2>1. w \in S /\ w # ev /\ w.seq \in 0 .. total - 1 /\ n <= w.seq /\ w.seq # n
    OBVIOUS
  <2>2. QED
    BY <2>1
<1>6. n < total
  OBVIOUS
<1>7. ASSUME NEW w \in T, w.kind = "command"
      PROVE  Says(T, w.slot, w.verb, w.seq)'
  <2>1. Says(S, w.slot, w.verb, w.seq)
    BY <1>5, <1>7 DEF Tables
  <2>2. QED
    BY <1>4, <1>5, <1>7, <2>1
<1>8. ASSUME NEW s \in Slots
      PROVE  Says(T, s, table[s], total)'
  BY <1>4, <1>6 DEF Tables
<1> DEFINE C == Commands(S)   D == Commands(T)   L == Len(executed)
<1>9. IsFiniteSet(C) /\ C \subseteq 0 .. total - 1 /\ Cardinality(C) \in Nat
  BY CommandsFinite
<1>10. /\ verbs \in Seq(Verbs) /\ executed \in Seq(Verbs) /\ L \in Nat
       /\ L + Cardinality(C) = Len(verbs)
       /\ \A j \in 1 .. L : executed[j] = verbs[j]
       /\ \A w \in S : w.kind = "command" =>
            verbs[L + Cardinality({k \in C : k <= w.seq})] = w.verb
  BY DEF Journal
<1>11. \A k \in C : \E w \in S : w.kind = "command" /\ w.seq = k
  BY DEF Commands
<1>12. \A w \in S : w.kind = "command" => w.seq \in C
  BY DEF Commands
<1>13. D = {w.seq : w \in {x \in T : x.kind = "command"}}
  BY DEF Commands
<1>14. Journal(T, verbs)' <=>
         /\ verbs \in Seq(Verbs) /\ executed' \in Seq(Verbs)
         /\ Len(executed') + Cardinality(D) = Len(verbs)
         /\ \A j \in 1 .. Len(executed') : executed'[j] = verbs[j]
         /\ \A w \in T : w.kind = "command" =>
              verbs[Len(executed') + Cardinality({k \in D : k <= w.seq})] = w.verb
  BY DEF Journal, Commands
<1> HIDE DEF C, D, L
<1>15. ASSUME ev.kind = "string" PROVE Journal(T, verbs)'
  <2>1. executed' = executed
    BY <1>15
  <2>2. C = D
    <3>1. \A k \in C : k \in D
      BY <1>11, <1>13, <1>15
    <3>2. \A k \in D : k \in C
      BY <1>12, <1>13
    <3>3. QED
      BY <3>1, <3>2
  <2>3. QED
    BY <1>5, <1>10, <1>14, <2>1, <2>2 DEF L
<1>16. ASSUME ev.kind = "command" PROVE Journal(T, verbs)'
  <2>1. n \in C /\ D = C \ {n}
    <3>1. n \in C
      BY <1>12, <1>16
    <3>2. \A k \in C : k # n => k \in D
      BY <1>11, <1>13
    <3>3. \A k \in D : k \in C /\ k # n
      BY <1>5, <1>12, <1>13
    <3>4. QED
      BY <3>1, <3>2, <3>3
  <2>2. Cardinality(D) = Cardinality(C) - 1
    BY <1>9, <2>1, FS_RemoveElement
  <2>3. serverTable[ev.slot] = ev.verb
    <3>1. Says(S, ev.slot, ev.verb, n)
      BY <1>16 DEF Tables
    <3>2. Taught(S, ev.slot, n) = {}
      <4>1. \A x \in S : ~(x.seq < n)
        OBVIOUS
      <4>2. QED
        BY <4>1 DEF Taught
    <3>3. QED
      BY <3>1, <3>2 DEF Says
  <2>4. executed' = Append(executed, ev.verb)
    BY <1>16, <2>3
  <2>5. /\ executed' \in Seq(Verbs) /\ Len(executed') = L + 1
        /\ \A j \in 1 .. L : executed'[j] = executed[j]
        /\ executed'[L + 1] = ev.verb
    BY <1>1, <1>10, <2>4 DEF L
  <2>6. verbs[L + 1] = ev.verb
    <3>1. \A k \in C : k <= n <=> k = n
      BY <1>11
    <3>2. {k \in C : k <= n} = {n}
      BY <2>1, <3>1
    <3>3. Cardinality({n}) = 1
      BY FS_Singleton
    <3>4. verbs[L + Cardinality({k \in C : k <= n})] = ev.verb
      BY <1>10, <1>16
    <3>5. QED
      BY <3>2, <3>3, <3>4
  <2>7. \A j \in 1 .. L + 1 : executed'[j] = verbs[j]
    <3> SUFFICES ASSUME NEW j \in 1 .. L + 1 PROVE executed'[j] = verbs[j]
      OBVIOUS
    <3>1. j \in 1 .. L \/ j = L + 1
      BY <1>10
    <3>2. QED
      BY <1>10, <2>5, <2>6, <3>1
  <2>8. ASSUME NEW w \in T, w.kind = "command"
        PROVE  verbs[L + 1 + Cardinality({k \in D : k <= w.seq})] = w.verb
    <3> DEFINE A == {k \in C : k <= w.seq}   B == {k \in D : k <= w.seq}
    <3>1. w \in S /\ n <= w.seq /\ w.seq \in Nat
      BY <1>5
    <3>2. n \in A /\ B = A \ {n}
      BY <2>1, <3>1
    <3>3. A \in SUBSET C
      OBVIOUS
    <3>4. verbs[L + Cardinality(A)] = w.verb
      BY <1>10, <2>8, <3>1
    <3> HIDE DEF A, B
    <3>5. IsFiniteSet(A)
      BY <1>9, <3>3, FS_Subset
    <3>6. Cardinality(A) \in Nat /\ Cardinality(B) = Cardinality(A) - 1
      BY <3>2, <3>5, FS_RemoveElement, FS_CardinalityType
    <3>7. L + 1 + Cardinality(B) = L + Cardinality(A)
      BY <1>10, <3>6
    <3>8. QED
      BY <3>4, <3>7 DEF B
  <2>9. Len(executed') + Cardinality(D) = Len(verbs)
    <3> DEFINE c == Cardinality(C)   d == Cardinality(D)   l == Len(executed')
    <3>1. c \in Nat /\ d = c - 1 /\ l = L + 1 /\ L \in Nat /\ L + c = Len(verbs)
      BY <1>9, <1>10, <2>2, <2>5
    <3> HIDE DEF c, d, l
    <3>2. l + d = Len(verbs)
      BY <3>1
    <3>3. QED
      BY <3>2 DEF d, l
  <2>10. QED
    BY <1>10, <1>14, <2>5, <2>7, <2>8, <2>9
<1>17. Journal(T, verbs)'
  BY <1>1, <1>15, <1>16 DEF Kinds
<1>18. QED
  BY <1>3, <1>7, <1>8, <1>17 DEF Tables

LEMMA ProcessingStep == CommandInv /\ ServerProcesses => CommandInv'
<1> SUFFICES ASSUME CommandInv, ServerProcesses PROVE CommandInv'
  OBVIOUS
<1>1. PICK ev \in Runnable :
         /\ waiting' = waiting \ {ev}
         /\ serverTable' = IF ev.kind = "string"
                           THEN [serverTable EXCEPT ![ev.slot] = ev.verb] ELSE serverTable
         /\ executed' = IF ev.kind = "command"
                        THEN Append(executed, serverTable[ev.slot]) ELSE executed
  BY DEF ServerProcesses
<1>2. /\ received' = received /\ taken' = taken
      /\ sent' = sent /\ judged' = judged /\ delivered' = delivered
      /\ issued' = issued /\ outQueue' = outQueue /\ nextSendSeq' = nextSendSeq
      /\ slotToStr' = slotToStr /\ lru' = lru /\ cargo' = cargo
      /\ nextRecvSeq' = nextRecvSeq + 1
  BY DEF ServerProcesses, chan, clientVars
<1>3. /\ nextSendSeq \in Nat /\ Queue(outQueue) /\ SlotsUsed /\ Links
      /\ Flight(Out, sent, judged, cargo) /\ Arrived(Out, Total) /\ Outstanding(Out, Total)
      /\ Spanned(Out) /\ Tables(Stream(Out), Total, slotToStr) /\ Journal(Stream(Out), issued)
  BY DEF CommandInv, Sound
<1>4. Out' = Out /\ Total' = Total
  BY <1>2 DEF Out, OutOf, Total, TotalOf, Numbered, Unnumbered
<1>5. /\ Total \in Nat
      /\ \A e \in Out : e.slot \in Slots /\ e.seq \in 0 .. Total - 1 /\ e.seq \in Nat
  BY <1>3, OutFacts DEF Out, Total
<1>6. \A e : Wire(e).seq = e.seq /\ Wire(e).slot = e.slot
  BY DEF Wire
<1> DEFINE n == nextRecvSeq
<1>7. /\ n \in Nat /\ n <= Total /\ waiting \subseteq WireEvent
      /\ \A w \in waiting : n <= w.seq /\ w.seq < Total /\ w.seq \in Nat /\ w.slot \in Slots
      /\ \A w, x \in waiting : w.seq = x.seq => w = x
      /\ \A w \in waiting, e \in Out : w.seq = e.seq => w = Wire(e)
  BY <1>3 DEF Arrived, WireEvent
<1>8. ev \in waiting /\ ev.seq = n /\ ev \in WireEvent
  BY <1>7 DEF Runnable
<1>9. ASSUME NEW m \in Nat
      PROVE  Got(m)' <=> Got(m)
  <2>1. Got(m)' <=> m < n + 1 \/ \E w \in waiting \ {ev} : w.seq = m
    BY <1>1, <1>2 DEF Got
  <2>2. Got(m) <=> m < n \/ \E w \in waiting : w.seq = m
    BY DEF Got
  <2>3. CASE m = n
    BY <1>7, <1>8, <2>1, <2>2, <2>3
  <2>4. CASE m # n
    <3>1. m < n + 1 <=> m < n
      BY <1>7, <2>4
    <3>2. \A w \in waiting : w.seq = m => w # ev
      BY <1>8, <2>4
    <3>3. QED
      BY <2>1, <2>2, <3>1, <3>2
  <2>5. QED
    BY <2>3, <2>4
<1>10. Flight(Out, sent, judged, cargo)'
  <2>1. \A e \in Out : Got(e.seq)' <=> Got(e.seq)
    BY <1>5, <1>9
  <2>2. QED
    BY <1>2, <1>3, <1>4, <2>1 DEF Flight
<1>11. Arrived(Out, Total)'
  <2>1. ASSUME NEW w \in waiting \ {ev}
        PROVE  n + 1 <= w.seq /\ w.seq < Total
    <3>1. w.seq # n
      BY <1>7, <1>8
    <3>2. QED
      BY <1>7, <3>1
  <2>2. n + 1 \in Nat /\ n + 1 <= Total
    BY <1>5, <1>7, <1>8
  <2>3. QED
    BY <1>1, <1>2, <1>4, <1>7, <2>1, <2>2 DEF Arrived
<1>12. Outstanding(Out, Total)'
  <2>1. \A m \in 0 .. Total - 1 : Got(m)' \/ \E e \in Out : e.seq = m
    BY <1>3, <1>9 DEF Outstanding
  <2>2. QED
    BY <1>4, <2>1 DEF Outstanding
<1>13. Links' /\ Queue(outQueue)' /\ SlotsUsed' /\ nextSendSeq' \in Nat /\ Spanned(Out)'
  BY <1>2, <1>3, <1>4 DEF Links, Queue, SlotsUsed, Spanned
<1> DEFINE S == Stream(Out)   T == Stream(Out)'
<1>14. \A w \in S : w \in waiting \/ \E e \in Out : n <= e.seq /\ w = Wire(e)
  BY DEF Stream
<1>15. \A x \in S : /\ x.seq \in 0 .. Total - 1 /\ n <= x.seq /\ (x.seq = n => x = ev)
                    /\ x.slot \in Slots
  <2> SUFFICES ASSUME NEW x \in S
               PROVE  /\ x.seq \in 0 .. Total - 1 /\ n <= x.seq /\ (x.seq = n => x = ev)
                      /\ x.slot \in Slots
    OBVIOUS
  <2>1. CASE x \in waiting
    BY <1>5, <1>7, <1>8, <2>1
  <2>2. CASE x \notin waiting
    <3>1. PICK e \in Out : n <= e.seq /\ x = Wire(e)
      BY <1>14, <2>2
    <3>2. x.seq = e.seq /\ x.slot = e.slot
      BY <1>6, <3>1
    <3>3. e.seq = n => x = ev
      BY <1>7, <1>8, <3>1
    <3>4. QED
      BY <1>5, <3>1, <3>2, <3>3
  <2>3. QED
    BY <2>1, <2>2
<1>16. T = S \ {ev}
  <2>1. T = (waiting \ {ev}) \union {Wire(e) : e \in {d \in Out : n + 1 <= d.seq}}
    BY <1>1, <1>2, <1>4 DEF Stream
  <2>2. S = waiting \union {Wire(e) : e \in {d \in Out : n <= d.seq}}
    BY DEF Stream
  <2> HIDE DEF S, T
  <2>3. ASSUME NEW e \in Out, n <= e.seq, Wire(e) # ev
        PROVE  n + 1 <= e.seq
    <3>1. e.seq # n
      BY <1>7, <1>8, <2>3
    <3>2. QED
      BY <1>5, <1>7, <2>3, <3>1
  <2>4. ASSUME NEW e \in Out, n + 1 <= e.seq
        PROVE  n <= e.seq /\ Wire(e) # ev
    BY <1>5, <1>6, <1>7, <1>8, <2>4
  <2>5. {Wire(e) : e \in {d \in Out : n + 1 <= d.seq}}
          = {Wire(e) : e \in {d \in Out : n <= d.seq}} \ {ev}
    BY <2>3, <2>4
  <2>6. QED
    BY <2>1, <2>2, <2>5
<1>17. ev \in S
  BY <1>8 DEF Stream
<1>18. Tables(S, Total, slotToStr) /\ Journal(S, issued)
  BY <1>3
<1> HIDE DEF n, S, T
<1>19. ASSUME NEW R, R = S, NEW total, total = Total, NEW table, table = slotToStr,
              NEW verbs, verbs = issued
       PROVE  Tables(R \ {ev}, total, table)' /\ Journal(R \ {ev}, verbs)'
  <2>1. /\ ev \in R /\ total \in Nat /\ n \in Nat /\ ev.seq = n
        /\ \A x \in R : x.seq \in 0 .. total - 1 /\ n <= x.seq /\ (x.seq = n => x = ev)
        /\ \A x \in R : x.slot \in Slots
        /\ Tables(R, total, table) /\ Journal(R, verbs)
    BY <1>5, <1>7, <1>8, <1>15, <1>17, <1>18, <1>19
  <2>2. QED
    BY <1>1, <1>8, <2>1, Running
<1>20. Tables(Stream(Out), Total, slotToStr)' /\ Journal(Stream(Out), issued)'
  <2>1. PICK R, total, table, verbs :
          R = S /\ total = Total /\ table = slotToStr /\ verbs = issued
    OBVIOUS
  <2>2. Tables(R \ {ev}, total, table)' /\ Journal(R \ {ev}, verbs)'
    BY <1>19, <2>1
  <2>3. R \ {ev} = Stream(Out)' /\ total = Total' /\ table = slotToStr' /\ verbs = issued'
    BY <1>2, <1>4, <1>16, <2>1 DEF T
  <2>4. QED
    BY <2>2, <2>3 DEF Tables, Says, Taught, Journal, Commands
<1>21. QED
  BY <1>10, <1>11, <1>12, <1>13, <1>20 DEF CommandInv, Sound

-----------------------------------------------------------------------------
(* The invariant and the theorems *)

LEMMA InitCommands == Init => CommandInv
<1> SUFFICES ASSUME Init PROVE CommandInv
  OBVIOUS
<1>1. /\ sent = 0 /\ received = 0 /\ taken = {} /\ judged = 0 /\ delivered = {}
      /\ issued = <<>> /\ outQueue = <<>> /\ nextSendSeq = 0
      /\ slotToStr = [s \in Slots |-> NoVerb] /\ lru = <<>>
      /\ nextRecvSeq = 0 /\ waiting = {}
      /\ serverTable = [s \in Slots |-> NoVerb] /\ executed = <<>>
  BY DEF Init, ChannelInit
<1>2. Out = {} /\ Unnumbered(outQueue) = {}
  BY <1>1 DEF Out, OutOf, Unnumbered
<1>3. Total = 0
  BY <1>1, <1>2, FS_EmptySet DEF Total, TotalOf
<1>4. Stream(Out) = {}
  BY <1>1, <1>2 DEF Stream
<1>5. Queue(outQueue) /\ SlotsUsed /\ Links
  BY <1>1 DEF Queue, SlotsUsed, Links
<1>6. Sound(Out, Total, sent, judged, cargo) /\ Spanned(Out)
  BY <1>1, <1>2, <1>3 DEF Sound, Flight, Arrived, Outstanding, Spanned
<1>7. Tables(Stream(Out), Total, slotToStr)
  BY <1>1, <1>4 DEF Tables, Says, Taught
<1>8. Journal(Stream(Out), issued)
  <2>1. Commands(Stream(Out)) = {}
    BY <1>4 DEF Commands
  <2>2. QED
    BY <1>1, <1>4, <2>1, FS_EmptySet DEF Journal
<1>9. QED
  BY <1>1, <1>5, <1>6, <1>7, <1>8 DEF CommandInv

LEMMA NextCommands == MaxSpan <= EVENT_SEQ_COUNT /\ CommandInv /\ [Next]_vars => CommandInv'
<1> SUFFICES ASSUME MaxSpan <= EVENT_SEQ_COUNT, CommandInv, [Next]_vars PROVE CommandInv'
  OBVIOUS
<1>1. CASE UNCHANGED vars
  <2>1. /\ received' = received /\ taken' = taken /\ sent' = sent
        /\ judged' = judged /\ delivered' = delivered
        /\ issued' = issued /\ outQueue' = outQueue /\ nextSendSeq' = nextSendSeq
        /\ slotToStr' = slotToStr /\ lru' = lru /\ cargo' = cargo
        /\ nextRecvSeq' = nextRecvSeq /\ waiting' = waiting
        /\ serverTable' = serverTable /\ executed' = executed
    BY <1>1 DEF vars, chan, clientVars, serverVars
  <2>2. Out' = Out /\ Total' = Total
    BY <2>1 DEF Out, OutOf, Total, TotalOf, Numbered, Unnumbered
  <2>3. nextSendSeq' \in Nat /\ Queue(outQueue)' /\ SlotsUsed' /\ Links'
    BY <2>1 DEF CommandInv, Queue, SlotsUsed, Links
  <2>4. Sound(Out, Total, sent, judged, cargo)' /\ Spanned(Out)'
    BY <2>1, <2>2 DEF CommandInv, Sound, Flight, Arrived, Outstanding, Got, Spanned
  <2>5. Tables(Stream(Out), Total, slotToStr)' /\ Journal(Stream(Out), issued)'
    <3>1. Stream(Out)' = Stream(Out)
      BY <2>1, <2>2 DEF Stream
    <3> DEFINE S == Stream(Out)   T == Stream(Out)'
    <3>2. S = T /\ Tables(S, Total, slotToStr) /\ Journal(S, issued)
      BY <3>1 DEF CommandInv
    <3> HIDE DEF S, T
    <3>3. Tables(T, Total', slotToStr') /\ Journal(T, issued')
      BY <2>1, <2>2, <3>2
    <3>4. QED
      BY <2>1, <3>3 DEF Tables, Says, Taught, Journal, Commands, T
  <2>6. QED
    BY <2>3, <2>4, <2>5 DEF CommandInv
<1>2. QED
  BY <1>1, CommandStep, TickStep, NotifiedStep, ReceivingStep, ProcessingStep DEF Next

LEMMA CommandInvariant == MaxSpan <= EVENT_SEQ_COUNT => (Spec => []CommandInv)
<1> SUFFICES ASSUME MaxSpan <= EVENT_SEQ_COUNT PROVE Spec => []CommandInv
  OBVIOUS
<1>1. CommandInv /\ [Next]_vars => CommandInv'
  BY NextCommands
<1>2. QED
  BY <1>1, InitCommands, PTL DEF Spec

\* ExecutedAsIssued, as long as the outstanding events span no more numbers than
\* the wire distinguishes: the server runs the commands command_to_server was
\* called with, in that order and each under its own verb, however packets are
\* lost and slots of the string table reused (events.py 445-515, write_events and
\* notify_event_delivered; 118-152, the send table).
THEOREM ExecutedAsIssuedHolds == MaxSpan <= EVENT_SEQ_COUNT => (Spec => []ExecutedAsIssued)
<1> SUFFICES ASSUME MaxSpan <= EVENT_SEQ_COUNT PROVE Spec => []ExecutedAsIssued
  OBVIOUS
<1>1. CommandInv => ExecutedAsIssued
  <2> SUFFICES ASSUME CommandInv PROVE ExecutedAsIssued
    OBVIOUS
  <2> DEFINE S == Stream(Out)
  <2>1. /\ issued \in Seq(Verbs) /\ executed \in Seq(Verbs)
        /\ Len(executed) + Cardinality(Commands(S)) = Len(issued)
        /\ \A j \in 1 .. Len(executed) : executed[j] = issued[j]
    BY DEF CommandInv, Journal
  <2>2. Cardinality(Commands(S)) \in Nat
    <3>1. \A w \in S : w.seq \in 0 .. Total - 1
      <4>1. /\ \A w \in waiting : w.seq \in Nat /\ w.seq < Total
            /\ nextSendSeq \in Nat /\ Queue(outQueue)
        BY DEF CommandInv, Sound, Arrived, WireEvent
      <4>2. Total \in Nat /\ \A e \in Out : e.seq \in 0 .. Total - 1
        BY <4>1, OutFacts DEF Out, Total
      <4>3. \A w \in S : w \in waiting \/ \E e \in Out : w.seq = e.seq
        BY DEF Stream, Wire
      <4>4. QED
        BY <4>1, <4>2, <4>3
    <3>2. Total \in Nat
      BY OutFacts DEF Total, CommandInv
    <3> HIDE DEF S
    <3>3. QED
      BY <3>1, <3>2, CommandsFinite
  <2> HIDE DEF S
  <2>3. Len(executed) \in Nat /\ Len(issued) \in Nat /\ Len(executed) <= Len(issued)
    BY <2>1, <2>2
  <2> DEFINE a == SubSeq(executed, 1, Len(executed))   b == SubSeq(issued, 1, Len(executed))
  <2>4. /\ a \in Seq(Verbs) /\ b \in Seq(Verbs)
        /\ Len(a) = Len(executed) /\ Len(b) = Len(executed)
        /\ \A i \in 1 .. Len(executed) : a[i] = executed[i] /\ b[i] = issued[i]
    BY <2>1, <2>3
  <2> HIDE DEF a, b
  <2>5. a = b
    BY <2>1, <2>4, SeqEqual
  <2>6. QED
    BY <2>3, <2>5 DEF ExecutedAsIssued, IsPrefix, a, b
<1>2. QED
  BY <1>1, CommandInvariant, PTL

\* FreedMeansReceived under the same hypothesis: an event leaves the queue only
\* when the server has it (events.py 504-515).
THEOREM FreedMeansReceivedHolds == MaxSpan <= EVENT_SEQ_COUNT => (Spec => []FreedMeansReceived)
<1> SUFFICES ASSUME MaxSpan <= EVENT_SEQ_COUNT PROVE Spec => []FreedMeansReceived
  OBVIOUS
<1>1. CommandInv => FreedMeansReceived
  <2> SUFFICES ASSUME CommandInv, NEW n \in 0 .. nextSendSeq - 1,
                      ~(n < nextRecvSeq), ~(\E ev \in waiting : ev.seq = n)
               PROVE  \E i \in DOMAIN outQueue : outQueue[i].seq = n
    BY DEF FreedMeansReceived
  <2>1. nextSendSeq \in Nat /\ Queue(outQueue) /\ Outstanding(Out, Total)
    BY DEF CommandInv, Sound
  <2> DEFINE N == Numbered(outQueue)
  <2>2. /\ Total \in Nat /\ nextSendSeq <= Total
        /\ \A i \in DOMAIN outQueue :
             /\ outQueue[i].seq = -1 <=> nextSendSeq <= N[i].seq
             /\ outQueue[i].seq # -1 => N[i].seq = outQueue[i].seq
    BY <2>1, Numbering DEF Total
  <2>3. Out = {N[i] : i \in DOMAIN outQueue}
    BY DEF Out, OutOf
  <2> HIDE DEF N
  <2>4. n \in 0 .. Total - 1 /\ ~Got(n)
    BY <2>1, <2>2 DEF Got
  <2>5. PICK i \in DOMAIN outQueue : N[i].seq = n
    BY <2>1, <2>3, <2>4 DEF Outstanding
  <2>6. QED
    BY <2>1, <2>2, <2>5
<1>2. QED
  BY <1>1, CommandInvariant, PTL

\* TablesAgree under the same hypothesis: once every event has been delivered and
\* processed, both ends hold the same string table (events.py 118-152).
THEOREM TablesAgreeHolds == MaxSpan <= EVENT_SEQ_COUNT => (Spec => []TablesAgree)
<1> SUFFICES ASSUME MaxSpan <= EVENT_SEQ_COUNT PROVE Spec => []TablesAgree
  OBVIOUS
<1>1. CommandInv => TablesAgree
  <2> SUFFICES ASSUME CommandInv, outQueue = <<>>, waiting = {}
               PROVE  serverTable = slotToStr
    BY DEF TablesAgree
  <2>1. Stream(Out) = {}
    BY DEF Stream, Out, OutOf
  <2>2. /\ serverTable \in [Slots -> Verbs \union {NoVerb}]
        /\ slotToStr \in [Slots -> Verbs \union {NoVerb}]
        /\ \A s \in Slots : Says({}, s, slotToStr[s], Total)
    BY <2>1 DEF CommandInv, Tables, SlotsUsed
  <2>3. \A s \in Slots : serverTable[s] = slotToStr[s]
    BY <2>2 DEF Says, Taught
  <2>4. QED
    BY <2>2, <2>3
<1>2. QED
  BY <1>1, CommandInvariant, PTL

-----------------------------------------------------------------------------
(* Types *)

CargoTyped == cargo \in [1 .. sent -> SUBSET WireEvent]

LEMMA CargoSent ==
    ASSUME CargoTyped, nextSendSeq \in Nat, sent \in Nat,
           NEW q, Queue(q), NEW want, SendPacket(q, want)
    PROVE  CargoTyped'
<1> DEFINE N == Numbered(q)
<1>1. \A i \in DOMAIN q : q[i] \in Pend /\ N[i].kind = q[i].kind /\ N[i].seq \in Nat
  <2>1. TotalOf(q) \in Nat /\ \A i \in DOMAIN q : N[i].kind = q[i].kind /\ N[i].seq \in 0 .. TotalOf(q) - 1
    BY Numbering
  <2>2. \A i \in DOMAIN q : q[i] \in Pend
    BY DEF Queue
  <2> HIDE DEF N
  <2>3. QED
    BY <2>1, <2>2
<1> HIDE DEF N
<1>2. Packed(q) \subseteq WireEvent
  <2>1. ASSUME NEW i \in DOMAIN q
        PROVE  [kind |-> N[i].kind, slot |-> q[i].slot, verb |-> q[i].verb, seq |-> N[i].seq] \in WireEvent
    BY <1>1 DEF Pend, Kinds, WireEvent
  <2>2. QED
    BY <2>1 DEF Packed, N
<1>3. CASE want /\ sent - judged' < MAX_UNACKED /\ sent < MaxPackets
  <2>1. sent' = sent + 1 /\ cargo' = [i \in 1 .. sent + 1 |-> IF i <= sent THEN cargo[i] ELSE Packed(q)]
    BY <1>3 DEF SendPacket
  <2>2. QED
    BY <1>2, <2>1 DEF CargoTyped
<1>4. CASE ~(want /\ sent - judged' < MAX_UNACKED /\ sent < MaxPackets)
  BY <1>4 DEF SendPacket, CargoTyped
<1>5. QED
  BY <1>3, <1>4

LEMMA CargoStep == CommandInv /\ CargoTyped /\ [Next]_vars => CargoTyped'
<1> SUFFICES ASSUME CommandInv, CargoTyped, [Next]_vars PROVE CargoTyped'
  OBVIOUS
<1>1. /\ nextSendSeq \in Nat /\ Links /\ sent \in Nat /\ Queue(outQueue)
      /\ Sound(Out, Total, sent, judged, cargo)
  BY DEF CommandInv, Links
<1>2. ASSUME NEW v \in Verbs, CommandToServer(v)
      PROVE  CargoTyped'
  BY <1>1, <1>2, Queueing, CargoSent DEF CommandToServer
<1>3. ASSUME Tick
      PROVE  CargoTyped'
  BY <1>1, <1>3, CargoSent DEF Tick
<1>4. ASSUME NEW hasBody \in BOOLEAN, Notified(hasBody)
      PROVE  CargoTyped'
  <2>1. PICK k : Judge(k)
    BY <1>4 DEF Notified
  <2>2. Queue(Kept)
    BY <1>1, <2>1, Delivering
  <2>3. QED
    BY <1>1, <1>4, <2>2, CargoSent DEF Notified
<1>5. CASE ServerReceives
  BY <1>5 DEF ServerReceives, Take, clientVars, CargoTyped
<1>6. CASE ServerProcesses
  BY <1>6 DEF ServerProcesses, chan, clientVars, CargoTyped
<1>7. CASE UNCHANGED vars
  BY <1>7 DEF vars, chan, clientVars, CargoTyped
<1>8. QED
  BY <1>2, <1>3, <1>4, <1>5, <1>6, <1>7 DEF Next

LEMMA Typed == CommandInv /\ CargoTyped => TypeOK
<1> SUFFICES ASSUME CommandInv, CargoTyped PROVE TypeOK
  OBVIOUS
<1>1. /\ nextSendSeq \in Nat /\ Queue(outQueue) /\ Links /\ SlotsUsed
      /\ Flight(Out, sent, judged, cargo) /\ Arrived(Out, Total)
      /\ Tables(Stream(Out), Total, slotToStr) /\ Journal(Stream(Out), issued)
  BY DEF CommandInv, Sound
<1>2. /\ sent \in Nat /\ received \in 0 .. sent /\ judged \in 0 .. received
      /\ taken \subseteq 1 .. received /\ delivered \subseteq taken
  BY <1>1 DEF Links
<1>3. outQueue \in Seq(Pend) /\ \A i \in DOMAIN outQueue : outQueue[i] \in Pend
  BY <1>1 DEF Queue
<1>4. ASSUME NEW i \in DOMAIN outQueue
      PROVE  outQueue[i] \in PendingEvent
  <2> DEFINE e == Numbered(outQueue)[i]
  <2>1. e \in Out /\ e.packet = outQueue[i].packet
    BY <1>1, Numbering DEF Out, OutOf
  <2> HIDE DEF e
  <2>2. outQueue[i].packet \in 0 .. sent
    <3>1. outQueue[i].packet # 0 => outQueue[i].packet \in judged + 1 .. sent
      BY <1>1, <2>1 DEF Flight
    <3>2. QED
      BY <1>2, <3>1
  <2>3. QED
    BY <1>3, <2>2 DEF Pend, PendingEvent, Kinds
<1>5. outQueue \in Seq(PendingEvent)
  BY <1>3, <1>4
<1>6. /\ issued \in Seq(Verbs) /\ executed \in Seq(Verbs)
      /\ nextRecvSeq \in Nat /\ waiting \subseteq WireEvent
      /\ serverTable \in [Slots -> Verbs \union {NoVerb}]
      /\ slotToStr \in [Slots -> Verbs \union {NoVerb}] /\ lru \in Seq(Slots)
  BY <1>1 DEF Journal, Arrived, Tables, SlotsUsed
<1>7. executed \in Seq(Verbs \union {NoVerb})
  BY <1>6
<1>8. QED
  BY <1>1, <1>2, <1>5, <1>6, <1>7 DEF TypeOK, CargoTyped

\* Type correctness of client, channel and server.
THEOREM Typing == MaxSpan <= EVENT_SEQ_COUNT => (Spec => []TypeOK)
<1> SUFFICES ASSUME MaxSpan <= EVENT_SEQ_COUNT PROVE Spec => []TypeOK
  OBVIOUS
<1>1. Init => CargoTyped
  BY DEF Init, ChannelInit, CargoTyped
<1>2. CommandInv /\ CargoTyped /\ [Next]_vars => CargoTyped'
  BY CargoStep
<1>3. QED
  BY <1>1, <1>2, CommandInvariant, Typed, PTL DEF Spec
=============================================================================
