---------------------------- MODULE BridgesProofs ----------------------------
(***************************************************************************)
(* Proofs about the transports: Node-RED's events and the broadcasts of    *)
(* the WebSocket server come in order, once, and to everyone they were     *)
(* meant for, however many clients come, stall and go.                     *)
(*                                                                         *)
(* NrInv: while a connection is up, what waits to be sent is younger than  *)
(* what was written to it, in order.  WsInv: a task is in one queue, and   *)
(* what it has still to do is disjoint from what it has done; broadcasts   *)
(* start in the order of their events.  The last part is about the frames  *)
(* of one client (WebSocketFrames).                                        *)
(***************************************************************************)
EXTENDS Bridges, WebSocketFrames, SequenceTheorems, TLAPS

-----------------------------------------------------------------------------
(* The inductive invariant                                                 *)

NrTyping ==
  /\ run \in {"connecting", "up", "sleeping", "ended"}
  /\ link \in {"none", "open", "full", "closing", "lost"}
  /\ connected \in BOOLEAN /\ number \in Nat
  /\ sends \in Seq([done : BOOLEAN, due : Nat])
  /\ sendReady \in Seq(Nat) /\ drains \in Seq(Nat) /\ lines \in Seq(Nat)
  /\ bridge \in {"up", "closing", "down"}

Upto(s, n) == \A i \in 1..Len(s) : s[i] \in 1..n

Rising(s) == \A i, j \in 1..Len(s) : i < j => s[i] < s[j]

\* The connection can be written to.
Writable == link \in {"open", "full"}

\* A connection is the run task's; only on one that is full, or was, tasks wait.
NrLink ==
  /\ link \in {"open", "full", "closing"} => run = "up"
  /\ Writable => connected
  /\ link = "closing" => bridge = "closing"
  /\ link \in {"none", "lost"} => drains = <<>>

\* Events are written as they happened: what is ready is in order and comes after what
\* was written, and whoever waits has written.
NrQueue ==
  /\ Upto(sendReady, Len(sends)) /\ Upto(drains, Len(sends)) /\ Upto(lines, Len(sends))
  /\ run = "connecting" \/ Writable => Rising(sendReady)
  /\ Writable =>
       /\ \A i \in 1..Len(lines), j \in 1..Len(sendReady) : lines[i] < sendReady[j]
       /\ Members(drains) \subseteq Members(lines)
  /\ \A e \in 1..Len(sends) : sends[e].due <= number

NrInv == NrTyping /\ NrLink /\ NrQueue /\ NrInOrder /\ NrReaches

Task == [started : BOOLEAN, done : BOOLEAN, todo : Seq(Clients), at : SUBSET Clients,
         due : SUBSET Clients]

WsTyping ==
  /\ clients \in Seq(Clients)
  /\ peer \in [Clients -> {"away", "handshake", "open", "closing", "lost", "gone"}]
  /\ full \in SUBSET Clients /\ slow \in SUBSET Clients
  /\ casts \in Seq(Task)
  /\ castReady \in Seq(Nat)
  /\ waiters \in [Clients -> Seq(Nat)] /\ got \in [Clients -> Seq(Nat)]
  /\ server \in {"up", "closing", "down"}

Distinct(s) == \A i, j \in 1..Len(s) : i # j => s[i] # s[j]

\* The clients are those that are open, and some that were lost.
WsClients ==
  /\ Distinct(clients)
  /\ \A c \in Clients : /\ peer[c] = "open" => c \in Members(clients)
                        /\ c \in Members(clients) => peer[c] \in {"open", "lost"}
  /\ \A e \in 1..Len(casts) : \A c \in casts[e].due :
       peer[c] \in {"open", "closing", "lost", "gone"}

\* A task is in one queue at most, and only while it is not done; one that has not
\* started is ready.
WsQueues ==
  /\ Upto(castReady, Len(casts)) /\ Distinct(castReady)
  /\ \A i \in 1..Len(castReady) : ~casts[castReady[i]].done
  /\ \A c \in Clients :
       /\ Upto(waiters[c], Len(casts)) /\ Distinct(waiters[c])
       /\ \A i \in 1..Len(waiters[c]) :
            casts[waiters[c][i]].started /\ ~casts[waiters[c][i]].done
       /\ Members(waiters[c]) \cap Members(castReady) = {}
       /\ \A d \in Clients \ {c} : Members(waiters[c]) \cap Members(waiters[d]) = {}
  /\ \A e \in 1..Len(casts) : ~casts[e].started => e \in Members(castReady)

\* Tasks start in the order of their events.
WsStarts ==
  /\ \A i, j \in 1..Len(castReady) :
       i < j /\ ~casts[castReady[i]].started /\ ~casts[castReady[j]].started
         => castReady[i] < castReady[j]
  /\ \A e, f \in 1..Len(casts) : casts[e].started /\ ~casts[f].started => e < f

\* What a task has yet to do it has not done; it goes on after a stall only.
WsTodo ==
  \A e \in 1..Len(casts) :
    /\ casts[e].started /\ ~casts[e].done => Distinct(casts[e].todo)
    /\ \A c \in Clients :
         ~casts[e].started \/ (~casts[e].done /\ c \in Members(casts[e].todo))
           => e \notin Members(got[c])
    /\ casts[e].started /\ ~casts[e].done =>
         \E d \in slow : d \notin Members(casts[e].todo)

\* Whoever a broadcast was meant for has got it, or will while the connection lasts.
WsCovered ==
  \A e \in 1..Len(casts) : \A c \in casts[e].due :
    peer[c] = "open" =>
      \/ e \in Members(got[c])
      \/ ~casts[e].done /\ (casts[e].started => c \in Members(casts[e].todo))

WsGot ==
  \A c \in Clients :
    /\ Upto(got[c], Len(casts)) /\ Distinct(got[c])
    /\ slow \subseteq {c} => Rising(got[c])

WsInv == WsTyping /\ WsClients /\ WsQueues /\ WsStarts /\ WsTodo /\ WsCovered /\ WsGot

BridgesInv == NrInv /\ WsInv

-----------------------------------------------------------------------------
(* Sequences                                                               *)

\* Append adds one member, at the end.
LEMMA AppendIs ==
  ASSUME NEW S, NEW s \in Seq(S), NEW x \in S
  PROVE  /\ Append(s, x) \in Seq(S) /\ Len(Append(s, x)) = Len(s) + 1
         /\ Len(s) \in Nat
         /\ \A i \in 1..Len(s) : Append(s, x)[i] = s[i]
         /\ Append(s, x)[Len(s) + 1] = x
         /\ Members(Append(s, x)) = Members(s) \cup {x}
<1>1. /\ Append(s, x) \in Seq(S) /\ Len(Append(s, x)) = Len(s) + 1 /\ Len(s) \in Nat
      /\ \A i \in 1..Len(s) : Append(s, x)[i] = s[i]
      /\ Append(s, x)[Len(s) + 1] = x
  OBVIOUS
<1>2. Members(Append(s, x)) \subseteq Members(s) \cup {x}
  <2> SUFFICES ASSUME NEW i \in 1..Len(s) + 1 PROVE Append(s, x)[i] \in Members(s) \cup {x}
    BY <1>1 DEF Members
  <2>1. i \in 1..Len(s) \/ i = Len(s) + 1
    BY <1>1
  <2>2. QED
    BY <1>1, <2>1 DEF Members
<1>3. Members(s) \cup {x} \subseteq Members(Append(s, x))
  <2>1. \A i \in 1..Len(s) : s[i] = Append(s, x)[i] /\ i \in 1..Len(Append(s, x))
    BY <1>1
  <2>2. x = Append(s, x)[Len(s) + 1] /\ Len(s) + 1 \in 1..Len(Append(s, x))
    BY <1>1
  <2>3. QED
    BY <2>1, <2>2 DEF Members
<1>4. QED
  BY <1>1, <1>2, <1>3

\* The head and the tail are what there is.
LEMMA TailIs ==
  ASSUME NEW S, NEW s \in Seq(S), s # <<>>
  PROVE  /\ Tail(s) \in Seq(S) /\ Len(s) \in Nat \ {0} /\ Len(Tail(s)) = Len(s) - 1
         /\ Head(s) = s[1] /\ Head(s) \in S
         /\ \A i \in 1..Len(Tail(s)) : Tail(s)[i] = s[i + 1] /\ i + 1 \in 1..Len(s)
         /\ Members(s) = Members(Tail(s)) \cup {Head(s)}
<1>1. /\ Tail(s) \in Seq(S) /\ Len(s) \in Nat \ {0} /\ Len(Tail(s)) = Len(s) - 1
      /\ Head(s) = s[1] /\ Head(s) \in S
      /\ \A i \in 1..Len(Tail(s)) : Tail(s)[i] = s[i + 1] /\ i + 1 \in 1..Len(s)
  OBVIOUS
<1>2. Members(s) \subseteq Members(Tail(s)) \cup {Head(s)}
  <2> SUFFICES ASSUME NEW i \in 1..Len(s) PROVE s[i] \in Members(Tail(s)) \cup {Head(s)}
    BY DEF Members
  <2>1. CASE i = 1
    BY <1>1, <2>1
  <2>2. CASE i # 1
    <3>1. i - 1 \in 1..Len(Tail(s)) /\ (i - 1) + 1 = i
      BY <1>1, <2>2
    <3>2. QED
      BY <1>1, <3>1 DEF Members
  <2>3. QED
    BY <2>1, <2>2
<1>3. Members(Tail(s)) \cup {Head(s)} \subseteq Members(s)
  BY <1>1 DEF Members
<1>4. QED
  BY <1>1, <1>2, <1>3

\* A queue that is put behind another.
LEMMA ConcatIs ==
  ASSUME NEW S, NEW s \in Seq(S), NEW t \in Seq(S)
  PROVE  /\ s \o t \in Seq(S) /\ Len(s \o t) = Len(s) + Len(t)
         /\ Len(s) \in Nat /\ Len(t) \in Nat
         /\ \A i \in 1..Len(s \o t) :
              \/ i \in 1..Len(s) /\ (s \o t)[i] = s[i]
              \/ i - Len(s) \in 1..Len(t) /\ (s \o t)[i] = t[i - Len(s)]
         /\ Members(s \o t) = Members(s) \cup Members(t)
<1>1. /\ s \o t \in Seq(S) /\ Len(s \o t) = Len(s) + Len(t)
      /\ Len(s) \in Nat /\ Len(t) \in Nat
      /\ \A i \in 1..Len(s) : (s \o t)[i] = s[i]
      /\ \A i \in 1..Len(t) : (s \o t)[Len(s) + i] = t[i]
  OBVIOUS
<1>2. \A i \in 1..Len(s \o t) :
         \/ i \in 1..Len(s) /\ (s \o t)[i] = s[i]
         \/ i - Len(s) \in 1..Len(t) /\ (s \o t)[i] = t[i - Len(s)]
  <2> SUFFICES ASSUME NEW i \in 1..Len(s \o t), i \notin 1..Len(s)
               PROVE  i - Len(s) \in 1..Len(t) /\ (s \o t)[i] = t[i - Len(s)]
    BY <1>1
  <2>1. i - Len(s) \in 1..Len(t) /\ Len(s) + (i - Len(s)) = i
    BY <1>1
  <2>2. QED
    BY <1>1, <2>1
<1>3. Members(s \o t) \subseteq Members(s) \cup Members(t)
  BY <1>2 DEF Members
<1>4. /\ \A i \in 1..Len(s) : i \in 1..Len(s \o t)
      /\ \A i \in 1..Len(t) : Len(s) + i \in 1..Len(s \o t)
  BY <1>1
<1>5. Members(s) \cup Members(t) \subseteq Members(s \o t)
  BY <1>1, <1>4 DEF Members
<1>6. QED
  BY <1>1, <1>2, <1>3, <1>5

-----------------------------------------------------------------------------
(* Node-RED                                                                *)

LEMMA SendKeeps == NrInv /\ Send => NrInv'
<1> SUFFICES ASSUME NrInv, Send PROVE NrInv'
  OBVIOUS
<1> DEFINE new == [done |-> FALSE,
                   due |-> IF run = "up" /\ link \in {"open", "full"} THEN number ELSE 0]
           Event == [done : BOOLEAN, due : Nat]
<1>1. NrTyping /\ NrLink /\ NrQueue /\ NrInOrder /\ NrReaches
  BY DEF NrInv
<1>2. /\ sends' = Append(sends, new) /\ sendReady' = Append(sendReady, Len(sends) + 1)
      /\ UNCHANGED <<run, link, connected, number, drains, lines, bridge>>
  BY DEF Send
<1>3. new \in Event /\ ~new.done /\ new.due <= number
  BY <1>1 DEF NrTyping
<1>4. sends \in Seq(Event)
  BY <1>1 DEF NrTyping
<1> HIDE DEF new, Event
<1>5. /\ sends' \in Seq(Event) /\ Len(sends') = Len(sends) + 1 /\ Len(sends) \in Nat
      /\ \A e \in 1..Len(sends) : sends'[e] = sends[e]
      /\ sends'[Len(sends) + 1] = new
  BY <1>2, <1>3, <1>4, AppendIs
<1>6. /\ sendReady' \in Seq(Nat) /\ Len(sendReady') = Len(sendReady) + 1
      /\ Len(sendReady) \in Nat
      /\ \A i \in 1..Len(sendReady) : sendReady'[i] = sendReady[i]
      /\ sendReady'[Len(sendReady) + 1] = Len(sends) + 1
  BY <1>1, <1>2, <1>5, AppendIs DEF NrTyping
<1>7. NrTyping'
  BY <1>1, <1>2, <1>5, <1>6 DEF NrTyping, Event
<1>8. NrLink'
  BY <1>1, <1>2 DEF NrLink, Writable
<1>9. \A i \in 1..Len(sendReady') :
        \/ i \in 1..Len(sendReady) /\ sendReady'[i] = sendReady[i]
        \/ i = Len(sendReady) + 1 /\ sendReady'[i] = Len(sends) + 1
  BY <1>6
<1>10. NrQueue'
  <2>1. Upto(sendReady, Len(sends)) /\ Upto(drains, Len(sends)) /\ Upto(lines, Len(sends))
    BY <1>1 DEF NrQueue
  <2>2. Upto(sendReady', Len(sends')) /\ Upto(drains', Len(sends')) /\ Upto(lines', Len(sends'))
    BY <1>2, <1>5, <1>9, <2>1 DEF Upto
  <2>3. run' = "connecting" \/ Writable' => Rising(sendReady')
    <3> SUFFICES ASSUME Rising(sendReady) PROVE Rising(sendReady')
      BY <1>1, <1>2 DEF NrQueue, Writable
    <3> SUFFICES ASSUME NEW i \in 1..Len(sendReady'), NEW j \in 1..Len(sendReady'), i < j
                 PROVE  sendReady'[i] < sendReady'[j]
      BY DEF Rising
    <3>2. i \in 1..Len(sendReady) /\ sendReady'[i] = sendReady[i]
      BY <1>6, <1>9
    <3>3. sendReady[i] < Len(sends) + 1
      BY <1>5, <2>1, <3>2 DEF Upto
    <3>4. CASE j \in 1..Len(sendReady) /\ sendReady'[j] = sendReady[j]
      BY <3>2, <3>4 DEF Rising
    <3>5. QED
      BY <1>9, <3>2, <3>3, <3>4
  <2>4. ASSUME Writable'
        PROVE  /\ \A i \in 1..Len(lines'), j \in 1..Len(sendReady') : lines'[i] < sendReady'[j]
               /\ Members(drains') \subseteq Members(lines')
    <3>1. /\ \A i \in 1..Len(lines), j \in 1..Len(sendReady) : lines[i] < sendReady[j]
          /\ Members(drains) \subseteq Members(lines)
      BY <1>1, <1>2, <2>4 DEF NrQueue, Writable
    <3>2. \A i \in 1..Len(lines) : lines[i] < Len(sends) + 1
      BY <1>5, <2>1 DEF Upto
    <3>3. QED
      BY <1>2, <1>9, <3>1, <3>2
  <2>5. \A e \in 1..Len(sends') : sends'[e].due <= number'
    BY <1>1, <1>2, <1>3, <1>5 DEF NrQueue
  <2>6. QED
    BY <2>2, <2>3, <2>4, <2>5 DEF NrQueue
<1>11. NrInOrder'
  BY <1>1, <1>2 DEF NrInOrder
<1>12. NrReaches'
  BY <1>1, <1>2, <1>3, <1>5 DEF NrReaches
<1>13. QED
  BY <1>7, <1>8, <1>10, <1>11, <1>12 DEF NrInv

\* Marking events as done changes nothing that they were due for.
LEMMA DoneIs ==
  ASSUME NrTyping, NEW e \in Nat, Done(e)
  PROVE  /\ sends' \in Seq([done : BOOLEAN, due : Nat]) /\ Len(sends') = Len(sends)
         /\ \A k \in 1..Len(sends) : /\ sends'[k].due = sends[k].due
                                     /\ sends'[k].done => sends[k].done \/ k = e
<1> DEFINE Event == [done : BOOLEAN, due : Nat]
<1>1. sends \in Seq(Event) /\ sends' = [sends EXCEPT ![e].done = TRUE]
  BY DEF NrTyping, Done
<1>2. \A k \in 1..Len(sends) : sends[k] \in Event /\ [sends[k] EXCEPT !.done = TRUE] \in Event
  <2>2. \A x \in Event : [x EXCEPT !.done = TRUE] \in Event
    OBVIOUS
  <2> HIDE DEF Event
  <2>1. \A k \in 1..Len(sends) : sends[k] \in Event
    BY <1>1
  <2>3. QED
    BY <2>1, <2>2
<1>3. DOMAIN sends = 1..Len(sends) /\ Len(sends) \in Nat
  BY <1>1
<1>4. sends' = [k \in 1..Len(sends) |->
                  IF k = e THEN [sends[k] EXCEPT !.done = TRUE] ELSE sends[k]]
  BY <1>1, <1>3
<1>5. \A k \in 1..Len(sends) :
        /\ sends'[k] \in Event /\ sends'[k].due = sends[k].due
        /\ sends'[k].done => sends[k].done \/ k = e
  BY <1>2, <1>4
<1> HIDE DEF Event
<1>6. sends' \in Seq(Event) /\ Len(sends') = Len(sends)
  <2>1. sends' \in [1..Len(sends) -> Event]
    BY <1>4, <1>5
  <2>2. QED
    BY <1>3, <2>1
<1>7. QED
  BY <1>5, <1>6 DEF Event

\* What every task that runs has in common.
LEMMA RunsIs ==
  ASSUME NrInv, NEW e, Runs(e)
  PROVE  /\ e \in 1..Len(sends) /\ Len(sends) \in Nat /\ sendReady' \in Seq(Nat)
         /\ UNCHANGED <<run, number, bridge>>
         /\ Upto(sendReady', Len(sends))
         /\ run = "connecting" \/ Writable => Rising(sendReady')
         /\ Writable => \A j \in 1..Len(sendReady') : e < sendReady'[j]
         /\ Writable => \A i \in 1..Len(lines) :
              lines[i] < e /\ \A j \in 1..Len(sendReady') : lines[i] < sendReady'[j]
<1>1. NrTyping /\ NrQueue
  BY DEF NrInv
<1>2. /\ sendReady \in Seq(Nat) /\ sendReady # <<>> /\ e = Head(sendReady)
      /\ sendReady' = Tail(sendReady) /\ UNCHANGED <<run, number, bridge>>
  BY <1>1 DEF Runs, NrTyping
<1>3. /\ sendReady' \in Seq(Nat) /\ Len(sendReady) \in Nat \ {0}
      /\ Len(sendReady') = Len(sendReady) - 1 /\ e = sendReady[1]
      /\ \A i \in 1..Len(sendReady') : sendReady'[i] = sendReady[i + 1] /\ i + 1 \in 1..Len(sendReady)
  BY <1>2, TailIs
<1>4. Upto(sendReady, Len(sends)) /\ 1 \in 1..Len(sendReady) /\ Len(sends) \in Nat
  BY <1>1, <1>3 DEF NrQueue, NrTyping
<1>5. e \in 1..Len(sends) /\ Upto(sendReady', Len(sends))
  BY <1>3, <1>4 DEF Upto
<1>6. ASSUME Rising(sendReady)
      PROVE  Rising(sendReady') /\ \A j \in 1..Len(sendReady') : e < sendReady'[j]
  <2>1. \A i, j \in 1..Len(sendReady) : i < j => sendReady[i] < sendReady[j]
    BY <1>6 DEF Rising
  <2>2. \A i, j \in 1..Len(sendReady') : i < j => sendReady'[i] < sendReady'[j]
    <3> SUFFICES ASSUME NEW i \in 1..Len(sendReady'), NEW j \in 1..Len(sendReady'), i < j
                 PROVE  sendReady'[i] < sendReady'[j]
      OBVIOUS
    <3>1. /\ sendReady'[i] = sendReady[i + 1] /\ sendReady'[j] = sendReady[j + 1]
          /\ i + 1 \in 1..Len(sendReady) /\ j + 1 \in 1..Len(sendReady) /\ i + 1 < j + 1
      BY <1>3
    <3>2. QED
      BY <2>1, <3>1
  <2>3. \A j \in 1..Len(sendReady') : sendReady[1] < sendReady[j + 1]
    BY <1>3, <1>4, <2>1
  <2>4. QED
    BY <1>3, <2>2, <2>3 DEF Rising
<1>7. /\ run = "connecting" \/ Writable => Rising(sendReady)
      /\ Writable => \A i \in 1..Len(lines), j \in 1..Len(sendReady) : lines[i] < sendReady[j]
  BY <1>1 DEF NrQueue
<1>8. QED
  BY <1>2, <1>3, <1>4, <1>5, <1>6, <1>7

LEMMA DropsKeeps == ASSUME NrInv, NEW e, Drops(e) \/ Fails(e) PROVE NrInv'
<1>1. NrTyping /\ NrLink /\ NrQueue /\ NrInOrder /\ NrReaches
  BY DEF NrInv
<1>2. /\ Runs(e) /\ Done(e) /\ ~Writable
      /\ UNCHANGED <<link, drains, lines>> /\ connected' \in BOOLEAN
  BY <1>1 DEF Drops, Fails, NrLink, NrTyping, Writable
<1>3. /\ e \in 1..Len(sends) /\ sendReady' \in Seq(Nat)
      /\ UNCHANGED <<run, number, bridge>>
      /\ Upto(sendReady', Len(sends))
      /\ run = "connecting" => Rising(sendReady')
  BY <1>2, RunsIs
<1>4. /\ sends' \in Seq([done : BOOLEAN, due : Nat]) /\ Len(sends') = Len(sends)
      /\ \A k \in 1..Len(sends) : sends'[k].due = sends[k].due
  <2>1. e \in Nat
    BY <1>1, <1>3 DEF NrTyping
  <2>2. QED
    BY <1>1, <1>2, <2>1, DoneIs
<1>5. NrTyping' /\ NrLink' /\ ~Writable'
  BY <1>1, <1>2, <1>3, <1>4 DEF NrTyping, NrLink, Writable
<1>6. NrQueue'
  BY <1>1, <1>2, <1>3, <1>4, <1>5 DEF NrQueue
<1>7. NrInOrder' /\ NrReaches'
  BY <1>1, <1>2, <1>5 DEF NrInOrder, NrReaches, Writable
<1>8. QED
  BY <1>5, <1>6, <1>7 DEF NrInv

LEMMA WritesKeeps == ASSUME NrInv, NEW e, WritesLine(e) PROVE NrInv'
<1>1. NrTyping /\ NrLink /\ NrQueue /\ NrInOrder /\ NrReaches
  BY DEF NrInv
<1>2. /\ Runs(e) /\ Writable /\ lines' = Append(lines, e) /\ UNCHANGED connected
      /\ \/ Done(e) /\ UNCHANGED <<link, drains>>
         \/ link' = "full" /\ drains' = Append(drains, e) /\ UNCHANGED sends
  BY DEF WritesLine, Writable
<1>3. /\ e \in 1..Len(sends) /\ Len(sends) \in Nat /\ sendReady' \in Seq(Nat)
      /\ UNCHANGED <<run, number, bridge>>
      /\ Upto(sendReady', Len(sends)) /\ Rising(sendReady')
      /\ \A j \in 1..Len(sendReady') : e < sendReady'[j]
      /\ \A i \in 1..Len(lines) :
           lines[i] < e /\ \A j \in 1..Len(sendReady') : lines[i] < sendReady'[j]
  BY <1>2, RunsIs
<1>4. e \in Nat /\ lines \in Seq(Nat) /\ drains \in Seq(Nat)
  BY <1>1, <1>3 DEF NrTyping
<1>5. /\ lines' \in Seq(Nat) /\ Len(lines') = Len(lines) + 1 /\ Len(lines) \in Nat
      /\ \A i \in 1..Len(lines) : lines'[i] = lines[i]
      /\ lines'[Len(lines) + 1] = e
      /\ Members(lines') = Members(lines) \cup {e}
  BY <1>2, <1>4, AppendIs
<1>6. \A i \in 1..Len(lines') : \/ i \in 1..Len(lines) /\ lines'[i] = lines[i]
                                \/ i = Len(lines) + 1 /\ lines'[i] = e
  BY <1>5
<1>7. /\ Len(sends') = Len(sends) /\ sends' \in Seq([done : BOOLEAN, due : Nat])
      /\ \A k \in 1..Len(sends) : /\ sends'[k].due = sends[k].due
                                  /\ sends'[k].done => sends[k].done \/ k = e
  BY <1>1, <1>2, <1>4, DoneIs DEF NrTyping
<1>8. /\ drains' \in Seq(Nat) /\ Writable' /\ Upto(drains', Len(sends))
      /\ Members(drains') \subseteq Members(drains) \cup {e}
  <2>1. CASE UNCHANGED <<link, drains>>
    BY <1>1, <1>2, <2>1 DEF Writable, NrQueue, NrTyping
  <2>2. CASE link' = "full" /\ drains' = Append(drains, e)
    <3>1. /\ drains' \in Seq(Nat) /\ Len(drains') = Len(drains) + 1 /\ Len(drains) \in Nat
          /\ \A i \in 1..Len(drains) : drains'[i] = drains[i]
          /\ drains'[Len(drains) + 1] = e
          /\ Members(drains') = Members(drains) \cup {e}
      BY <1>4, <2>2, AppendIs
    <3>2. \A i \in 1..Len(drains') : i \in 1..Len(drains) \/ i = Len(drains) + 1
      BY <3>1
    <3>3. Upto(drains, Len(sends))
      BY <1>1 DEF NrQueue
    <3>4. QED
      BY <1>3, <2>2, <3>1, <3>2, <3>3 DEF Writable, Upto
  <2>3. QED
    BY <1>2, <2>1, <2>2
<1>9. NrTyping' /\ NrLink'
  BY <1>1, <1>2, <1>3, <1>5, <1>7, <1>8 DEF NrTyping, NrLink, Writable
<1>10. NrQueue'
  <2>1. Upto(lines', Len(sends'))
    BY <1>1, <1>3, <1>6, <1>7 DEF NrQueue, Upto
  <2>2. \A i \in 1..Len(lines'), j \in 1..Len(sendReady') : lines'[i] < sendReady'[j]
    BY <1>3, <1>6
  <2>3. Members(drains') \subseteq Members(lines')
    BY <1>1, <1>2, <1>5, <1>8 DEF NrQueue
  <2>4. QED
    BY <1>1, <1>3, <1>7, <1>8, <2>1, <2>2, <2>3 DEF NrQueue
<1>11. NrInOrder'
  <2> SUFFICES ASSUME NEW i \in 1..Len(lines'), NEW j \in 1..Len(lines'), i < j
               PROVE  lines'[i] < lines'[j]
    BY DEF NrInOrder
  <2>1. i \in 1..Len(lines) /\ lines'[i] = lines[i]
    BY <1>5, <1>6
  <2>2. QED
    BY <1>1, <1>3, <1>6, <2>1 DEF NrInOrder
<1>12. NrReaches'
  <2> SUFFICES ASSUME NEW k \in 1..Len(sends), sends'[k].done, sends'[k].due = number', number' > 0
               PROVE  \E i \in 1..Len(lines') : lines'[i] = k
    BY <1>7 DEF NrReaches
  <2>1. CASE k = e
    BY <1>5, <2>1
  <2>2. CASE k # e
    <3>1. \E i \in 1..Len(lines) : lines[i] = k
      BY <1>1, <1>2, <1>3, <1>7, <2>2 DEF NrReaches, Writable
    <3>2. QED
      BY <1>5, <3>1
  <2>3. QED
    BY <2>1, <2>2
<1>13. QED
  BY <1>9, <1>10, <1>11, <1>12 DEF NrInv

LEMMA DrainKeeps == NrInv /\ DrainsLine => NrInv'
<1> SUFFICES ASSUME NrInv, DrainsLine PROVE NrInv'
  OBVIOUS
<1> DEFINE Event == [done : BOOLEAN, due : Nat]
           waits(e) == \E i \in 1..Len(drains) : drains[i] = e
<1>1. NrTyping /\ NrLink /\ NrQueue /\ NrInOrder /\ NrReaches
  BY DEF NrInv
<1>2. /\ link = "full" /\ link' = "open" /\ drains' = <<>>
      /\ sends' = [e \in 1..Len(sends) |->
                     IF waits(e) THEN [sends[e] EXCEPT !.done = TRUE] ELSE sends[e]]
      /\ UNCHANGED <<run, connected, number, sendReady, lines, bridge>>
  BY DEF DrainsLine
<1>3. \A x \in Event : [x EXCEPT !.done = TRUE] \in Event /\ [x EXCEPT !.done = TRUE].due = x.due
  OBVIOUS
<1> HIDE DEF Event
<1>4. sends \in Seq(Event) /\ Len(sends) \in Nat
  BY <1>1 DEF NrTyping, Event
<1>5. \A e \in 1..Len(sends) : sends[e] \in Event
  BY <1>4
<1>6. \A e \in 1..Len(sends) :
        /\ sends'[e] \in Event /\ sends'[e].due = sends[e].due
        /\ sends'[e].done => sends[e].done \/ waits(e)
  <2> HIDE DEF waits
  <2>1. QED
    BY <1>2, <1>3, <1>5
<1>7. sends' \in Seq(Event) /\ Len(sends') = Len(sends)
  <2>1. sends' \in [1..Len(sends) -> Event]
    BY <1>2, <1>6
  <2>2. QED
    BY <1>4, <2>1
<1>8. Writable /\ Writable' /\ Members(drains') = {}
  BY <1>2 DEF Writable, Members
<1>9. NrTyping' /\ NrLink'
  <2>1. sends' \in Seq([done : BOOLEAN, due : Nat])
    BY <1>7 DEF Event
  <2>2. /\ link = "full" /\ link' = "open" /\ drains' = <<>>
        /\ UNCHANGED <<run, connected, number, sendReady, lines, bridge>>
    BY <1>2
  <2>3. QED
    BY <1>1, <2>1, <2>2 DEF NrTyping, NrLink, Writable
<1>10. NrQueue'
  <2>1. Upto(drains', Len(sends'))
    BY <1>2 DEF Upto
  <2>2. QED
    BY <1>1, <1>2, <1>6, <1>7, <1>8, <2>1 DEF NrQueue
<1>11. NrInOrder'
  BY <1>1, <1>2 DEF NrInOrder
<1>12. NrReaches'
  <2> SUFFICES ASSUME NEW e \in 1..Len(sends), sends'[e].done, sends'[e].due = number, number > 0
               PROVE  \E i \in 1..Len(lines) : lines[i] = e
    BY <1>2, <1>7 DEF NrReaches
  <2>1. CASE sends[e].done
    BY <1>1, <1>2, <1>6, <2>1 DEF NrReaches
  <2>2. CASE waits(e)
    <3>1. e \in Members(drains)
      BY <2>2 DEF Members
    <3>2. QED
      BY <1>1, <1>8, <3>1 DEF NrQueue, Members
  <2>3. QED
    BY <1>6, <2>1, <2>2
<1>13. QED
  BY <1>9, <1>10, <1>11, <1>12 DEF NrInv

LEMMA ConnectKeeps == NrInv /\ ConnectOk => NrInv'
<1> SUFFICES ASSUME NrInv, ConnectOk PROVE NrInv'
  OBVIOUS
<1>1. NrTyping /\ NrLink /\ NrQueue
  BY DEF NrInv
<1>2. /\ run = "connecting" /\ run' = "up" /\ link' = "open" /\ connected' = TRUE
      /\ number' = number + 1 /\ lines' = <<>>
      /\ UNCHANGED <<sends, sendReady, drains, bridge>>
  BY DEF ConnectOk
<1>3. drains = <<>>
  BY <1>1, <1>2 DEF NrTyping, NrLink
<1>4. NrTyping' /\ NrLink'
  BY <1>1, <1>2 DEF NrTyping, NrLink, Writable
<1>5. number \in Nat /\ Len(sends) \in Nat /\ \A e \in 1..Len(sends) : sends[e].due \in Nat
  <2>1. sends \in Seq([done : BOOLEAN, due : Nat]) /\ number \in Nat
    BY <1>1 DEF NrTyping
  <2> DEFINE Event == [done : BOOLEAN, due : Nat]
  <2>2. \A x \in Event : x.due \in Nat
    OBVIOUS
  <2> HIDE DEF Event
  <2>3. sends \in Seq(Event)
    BY <2>1 DEF Event
  <2>4. QED
    BY <2>1, <2>2, <2>3
<1>6. NrQueue'
  BY <1>1, <1>2, <1>3, <1>5 DEF NrQueue, Upto, Members
<1>7. NrInOrder'
  BY <1>2 DEF NrInOrder
<1>8. NrReaches'
  BY <1>1, <1>2, <1>5 DEF NrReaches, NrQueue
<1>9. QED
  BY <1>4, <1>6, <1>7, <1>8 DEF NrInv

LEMMA LostKeeps == NrInv /\ LinkLost => NrInv'
<1> SUFFICES ASSUME NrInv, LinkLost PROVE NrInv'
  OBVIOUS
<1>1. NrTyping /\ NrLink /\ NrQueue /\ NrInOrder
  BY DEF NrInv
<1>2. /\ link \in {"open", "full", "closing"} /\ link' = "lost"
      /\ sendReady' = sendReady \o drains /\ drains' = <<>>
      /\ UNCHANGED <<run, connected, number, sends, lines, bridge>>
  BY DEF LinkLost
<1>3. /\ sendReady' \in Seq(Nat)
      /\ \A i \in 1..Len(sendReady') :
           \/ i \in 1..Len(sendReady) /\ sendReady'[i] = sendReady[i]
           \/ i - Len(sendReady) \in 1..Len(drains) /\ sendReady'[i] = drains[i - Len(sendReady)]
  BY <1>1, <1>2, ConcatIs DEF NrTyping
<1>4. ~Writable' /\ run' # "connecting"
  BY <1>1, <1>2 DEF NrLink, Writable
<1>5. NrTyping' /\ NrLink'
  BY <1>1, <1>2, <1>3 DEF NrTyping, NrLink, Writable
<1>6. NrQueue'
  <2>1. Upto(sendReady, Len(sends)) /\ Upto(drains, Len(sends))
    BY <1>1 DEF NrQueue
  <2>2. Upto(sendReady', Len(sends))
    BY <1>3, <2>1 DEF Upto
  <2>3. Upto(drains', Len(sends))
    BY <1>2 DEF Upto
  <2>4. QED
    BY <1>1, <1>2, <1>4, <2>2, <2>3 DEF NrQueue
<1>7. NrInOrder' /\ NrReaches'
  BY <1>1, <1>2, <1>4 DEF NrInOrder, NrReaches, Writable
<1>8. QED
  BY <1>5, <1>6, <1>7 DEF NrInv

\* What the run task and stop() do to a connection that is not up, or no longer.
LEMMA RunTaskKeeps ==
  NrInv /\ (ConnectFails \/ SeesEof \/ DelayOver \/ NrStop \/ NrStopped) => NrInv'
<1> SUFFICES ASSUME NrInv, ConnectFails \/ SeesEof \/ DelayOver \/ NrStop \/ NrStopped
             PROVE  NrInv'
  OBVIOUS
<1>1. NrTyping /\ NrLink /\ NrQueue /\ NrInOrder
  BY DEF NrInv
<1>2. UNCHANGED <<number, sends, sendReady, drains, lines>>
  BY DEF ConnectFails, SeesEof, DelayOver, NrStop, NrStopped
<1>3. NrTyping' /\ NrLink' /\ ~Writable'
  BY <1>1, <1>2 DEF ConnectFails, SeesEof, DelayOver, NrStop, NrStopped, Ends,
                    NrTyping, NrLink, Writable
<1>4. run' = "connecting" => sendReady' = <<>>
  BY <1>1, <1>2 DEF ConnectFails, SeesEof, DelayOver, NrStop, NrStopped, Ends, NrLink
<1>5. NrQueue'
  <2>1. run' = "connecting" => Rising(sendReady')
    BY <1>4 DEF Rising
  <2>2. QED
    BY <1>1, <1>2, <1>3, <2>1 DEF NrQueue
<1>6. NrInOrder' /\ NrReaches'
  BY <1>1, <1>2, <1>3 DEF NrInOrder, NrReaches, Writable
<1>7. QED
  BY <1>3, <1>5, <1>6 DEF NrInv

LEMMA NrSame == NrInv /\ UNCHANGED nrVars => NrInv'
BY DEF NrInv, nrVars, NrTyping, NrLink, NrQueue, NrInOrder, NrReaches, Writable

-----------------------------------------------------------------------------
(* The WebSocket server                                                    *)

\* Who stays is who is not gone, each once.
LEMMA WithoutIs ==
  ASSUME WsTyping, Distinct(clients), NEW gone, NEW s \in Without(gone)
  PROVE  s \in Seq(Clients) /\ Distinct(s) /\ Members(s) = Members(clients) \ gone
<1>1. /\ s \in UNION {[1..n -> Clients] : n \in 0..Len(clients)}
      /\ Members(s) = Members(clients) \ gone
      /\ \A i, j \in 1..Len(s) : i < j =>
           \E k, l \in 1..Len(clients) : k < l /\ s[i] = clients[k] /\ s[j] = clients[l]
  BY DEF Without
<1>2. Len(clients) \in Nat
  BY DEF WsTyping
<1>3. s \in Seq(Clients)
  <2>1. PICK n \in Nat : s \in [1..n -> Clients]
    BY <1>1, <1>2
  <2>2. QED
    BY <2>1
<1>4. \A i, j \in 1..Len(s) : i < j => s[i] # s[j]
  BY <1>1, <1>2 DEF Distinct
<1>5. Distinct(s)
  BY <1>3, <1>4 DEF Distinct
<1>6. QED
  BY <1>1, <1>3, <1>5

\* What a task was created with, and what it still has.
LEMMA TasksTyped ==
  ASSUME WsTyping
  PROVE  /\ Len(casts) \in Nat
         /\ \A e \in 1..Len(casts) :
              /\ casts[e] \in Task
              /\ casts[e].started \in BOOLEAN /\ casts[e].done \in BOOLEAN
              /\ casts[e].todo \in Seq(Clients)
              /\ casts[e].at \subseteq Clients /\ casts[e].due \subseteq Clients
<1>1. casts \in Seq(Task)
  BY DEF WsTyping
<1>2. \A x \in Task : /\ x.started \in BOOLEAN /\ x.done \in BOOLEAN
                      /\ x.todo \in Seq(Clients)
                      /\ x.at \subseteq Clients /\ x.due \subseteq Clients
  BY DEF Task
<1>3. QED
  BY <1>1, <1>2

LEMMA MembersTyped ==
  ASSUME NEW S, NEW s \in Seq(S)
  PROVE  Members(s) \subseteq S
BY DEF Members

LEMMA CastKeeps == WsInv /\ Cast => WsInv'
<1> SUFFICES ASSUME WsInv, Cast PROVE WsInv'
  OBVIOUS
<1>1. WsTyping /\ WsClients /\ WsQueues /\ WsStarts /\ WsTodo /\ WsCovered /\ WsGot
  BY DEF WsInv
<1>2. PICK new : /\ new = [started |-> FALSE, done |-> FALSE, todo |-> <<>>, at |-> {},
                           due |-> Members(clients)]
                 /\ casts' = Append(casts, new)
  BY DEF Cast
<1>3. /\ castReady' = Append(castReady, Len(casts) + 1)
      /\ UNCHANGED <<clients, peer, full, waiters, got, slow, server>>
  BY DEF Cast
<1>4. Members(clients) \subseteq Clients
  BY <1>1, MembersTyped DEF WsTyping
<1>5. new \in Task
  BY <1>2, <1>4 DEF Task
<1>6. /\ casts' \in Seq(Task) /\ Len(casts') = Len(casts) + 1 /\ Len(casts) \in Nat
      /\ \A e \in 1..Len(casts) : casts'[e] = casts[e]
      /\ casts'[Len(casts) + 1] = new
  BY <1>1, <1>2, <1>5, AppendIs DEF WsTyping
<1>7. /\ castReady' \in Seq(Nat) /\ Len(castReady') = Len(castReady) + 1
      /\ Len(castReady) \in Nat
      /\ \A i \in 1..Len(castReady) : castReady'[i] = castReady[i]
      /\ castReady'[Len(castReady) + 1] = Len(casts) + 1
      /\ Members(castReady') = Members(castReady) \cup {Len(casts) + 1}
  <2>1. castReady \in Seq(Nat) /\ Len(casts) + 1 \in Nat
    BY <1>1, <1>6 DEF WsTyping
  <2>2. QED
    BY <1>3, <2>1, AppendIs
<1>8. /\ \A e \in 1..Len(casts') : \/ e \in 1..Len(casts) /\ casts'[e] = casts[e]
                                   \/ e = Len(casts) + 1 /\ casts'[e] = new
      /\ \A i \in 1..Len(castReady') :
           \/ i \in 1..Len(castReady) /\ castReady'[i] = castReady[i]
           \/ i = Len(castReady) + 1 /\ castReady'[i] = Len(casts) + 1
  BY <1>6, <1>7
<1>9. ~new.started /\ ~new.done /\ new.due = Members(clients)
  BY <1>2
<1>10. /\ \A i \in 1..Len(castReady) : castReady[i] \in 1..Len(casts)
       /\ \A c \in Clients : \A i \in 1..Len(waiters[c]) : waiters[c][i] \in 1..Len(casts)
       /\ \A c \in Clients : \A i \in 1..Len(got[c]) : got[c][i] \in 1..Len(casts)
  BY <1>1 DEF WsQueues, WsGot, Upto
<1>11. WsTyping'
  BY <1>1, <1>3, <1>6, <1>7 DEF WsTyping
<1>12. WsClients'
  <2>1. \A c \in Members(clients) : peer[c] \in {"open", "lost"}
    BY <1>1, <1>4 DEF WsClients
  <2>2. QED
    BY <1>1, <1>3, <1>8, <1>9, <2>1 DEF WsClients
<1>13. WsQueues'
  <2>1. Upto(castReady', Len(casts'))
    BY <1>6, <1>8, <1>10 DEF Upto
  <2>2. Distinct(castReady')
    <3> SUFFICES ASSUME NEW i \in 1..Len(castReady'), NEW j \in 1..Len(castReady'), i # j,
                        castReady'[i] = castReady'[j]
                 PROVE  FALSE
      BY DEF Distinct
    <3>1. castReady[i] # Len(casts) + 1 \/ i \notin 1..Len(castReady)
      BY <1>6, <1>10
    <3>2. castReady[j] # Len(casts) + 1 \/ j \notin 1..Len(castReady)
      BY <1>6, <1>10
    <3>3. QED
      BY <1>1, <1>8, <3>1, <3>2 DEF WsQueues, Distinct
  <2>3. \A i \in 1..Len(castReady') : ~casts'[castReady'[i]].done
    BY <1>1, <1>6, <1>8, <1>9, <1>10, SMTT(30) DEF WsQueues
  <2>4. ASSUME NEW c \in Clients
        PROVE  /\ Upto(waiters'[c], Len(casts')) /\ Distinct(waiters'[c])
               /\ \A i \in 1..Len(waiters'[c]) :
                    casts'[waiters'[c][i]].started /\ ~casts'[waiters'[c][i]].done
               /\ Members(waiters'[c]) \cap Members(castReady') = {}
               /\ \A d \in Clients \ {c} : Members(waiters'[c]) \cap Members(waiters'[d]) = {}
    <3>1. Upto(waiters'[c], Len(casts')) /\ Distinct(waiters'[c])
      BY <1>1, <1>3, <1>6, <1>10 DEF WsQueues, Upto
    <3>2. \A i \in 1..Len(waiters[c]) : casts'[waiters[c][i]] = casts[waiters[c][i]]
      BY <1>6, <1>10
    <3>3. Len(casts) + 1 \notin Members(waiters[c])
      BY <1>6, <1>10 DEF Members
    <3>4. QED
      BY <1>1, <1>3, <1>7, <3>1, <3>2, <3>3 DEF WsQueues
  <2>5. \A e \in 1..Len(casts') : ~casts'[e].started => e \in Members(castReady')
    BY <1>1, <1>7, <1>8 DEF WsQueues
  <2>6. QED
    BY <2>1, <2>2, <2>3, <2>4, <2>5 DEF WsQueues
<1>14. WsStarts'
  <2>1. ASSUME NEW i \in 1..Len(castReady'), NEW j \in 1..Len(castReady'), i < j,
               ~casts'[castReady'[i]].started, ~casts'[castReady'[j]].started
        PROVE  castReady'[i] < castReady'[j]
    <3>1. i \in 1..Len(castReady) /\ castReady'[i] = castReady[i] /\ castReady[i] \in 1..Len(casts)
      BY <1>7, <1>8, <1>10, <2>1
    <3>2. CASE j \in 1..Len(castReady) /\ castReady'[j] = castReady[j]
      BY <1>1, <1>6, <1>10, <2>1, <3>1, <3>2 DEF WsStarts
    <3>3. CASE castReady'[j] = Len(casts) + 1
      BY <1>6, <3>1, <3>3
    <3>4. QED
      BY <1>8, <3>2, <3>3
  <2>2. ASSUME NEW e \in 1..Len(casts'), NEW f \in 1..Len(casts'),
               casts'[e].started, ~casts'[f].started
        PROVE  e < f
    <3>1. e \in 1..Len(casts) /\ casts[e].started
      BY <1>8, <1>9, <2>2
    <3>2. QED
      BY <1>1, <1>6, <1>8, <2>2, <3>1 DEF WsStarts
  <2>3. QED
    BY <2>1, <2>2 DEF WsStarts
<1>15. \A c \in Clients : Len(casts) + 1 \notin Members(got[c])
  BY <1>6, <1>10 DEF Members
<1>16. WsTodo'
  BY <1>1, <1>3, <1>8, <1>9, <1>15 DEF WsTodo
<1>17. WsCovered'
  BY <1>1, <1>3, <1>8, <1>9 DEF WsCovered
<1>18. WsGot'
  BY <1>1, <1>3, <1>6, <1>10 DEF WsGot, Upto
<1>19. QED
  BY <1>11, <1>12, <1>13, <1>14, <1>16, <1>17, <1>18 DEF WsInv

\* What comes and goes leaves the broadcasts alone, as long as no connection opens that
\* a broadcast was meant for.
LEMMA PeersKeep ==
  ASSUME WsInv, UNCHANGED <<waiters, casts, castReady, got, slow>>,
         clients' \in Seq(Clients), full' \in SUBSET Clients,
         peer' \in [Clients -> {"away", "handshake", "open", "closing", "lost", "gone"}],
         server' \in {"up", "closing", "down"}, WsClients',
         \A c \in Clients : peer'[c] = "open" =>
           peer[c] = "open" \/ \A e \in 1..Len(casts) : c \notin casts[e].due
  PROVE  WsInv'
<1>1. WsTyping /\ WsQueues /\ WsStarts /\ WsTodo /\ WsCovered /\ WsGot
  BY DEF WsInv
<1>2. WsTyping'
  BY <1>1 DEF WsTyping
<1>3. WsQueues' /\ WsStarts' /\ WsTodo' /\ WsGot'
  BY <1>1 DEF WsQueues, WsStarts, WsTodo, WsGot
<1>4. WsCovered'
  <2>1. \A e \in 1..Len(casts) : casts[e].due \subseteq Clients
    BY <1>1, TasksTyped
  <2>2. QED
    BY <1>1, <2>1 DEF WsCovered
<1>5. QED
  BY <1>2, <1>3, <1>4 DEF WsInv

LEMMA OpensKeep == ASSUME WsInv, NEW c \in Clients, Opens(c) \/ HandshakeEnds(c) PROVE WsInv'
<1>1. WsTyping /\ WsClients
  BY DEF WsInv
<1>2. /\ peer[c] \in {"away", "handshake"}
      /\ \E p \in {"handshake", "gone"} : peer' = [peer EXCEPT ![c] = p]
      /\ UNCHANGED <<clients, full, waiters, casts, castReady, got, slow, server>>
  BY DEF Opens, HandshakeEnds
<1>3. /\ peer' \in [Clients -> {"away", "handshake", "open", "closing", "lost", "gone"}]
      /\ peer'[c] \in {"handshake", "gone"} /\ \A d \in Clients \ {c} : peer'[d] = peer[d]
  BY <1>1, <1>2 DEF WsTyping
<1>4. c \notin Members(clients) /\ \A e \in 1..Len(casts) : c \notin casts[e].due
  BY <1>1, <1>2 DEF WsClients
<1>5. WsClients'
  <2>1. \A e \in 1..Len(casts) : casts[e].due \subseteq Clients
    BY <1>1, TasksTyped
  <2>2. QED
    BY <1>1, <1>2, <1>3, <1>4, <2>1 DEF WsClients
<1>6. QED
  BY <1>1, <1>2, <1>3, <1>5, PeersKeep DEF WsTyping

\* A client is inserted somewhere.
LEMMA InsertIs ==
  ASSUME WsTyping, Distinct(clients), NEW c \in Clients \ Members(clients), Insert(c)
  PROVE  clients' \in Seq(Clients) /\ Distinct(clients') /\ Members(clients') = Members(clients) \cup {c}
<1>1. PICK i \in 0..Len(clients) :
        clients' = SubSeq(clients, 1, i) \o <<c>> \o SubSeq(clients, i + 1, Len(clients))
  BY DEF Insert
<1>2. clients \in Seq(Clients) /\ Len(clients) \in Nat
  BY DEF WsTyping
<1>3. /\ clients' \in Seq(Clients) /\ Len(clients') = Len(clients) + 1
      /\ \A k \in 1..Len(clients') :
           clients'[k] = IF k <= i THEN clients[k] ELSE IF k = i + 1 THEN c ELSE clients[k - 1]
  <2> DEFINE s == SubSeq(clients, 1, i)   t == SubSeq(clients, i + 1, Len(clients))
  <2>1. /\ s \in Seq(Clients) /\ Len(s) = i /\ \A k \in 1..i : s[k] = clients[k]
        /\ t \in Seq(Clients) /\ Len(t) = Len(clients) - i
        /\ \A k \in 1..Len(clients) - i : t[k] = clients[i + k]
    BY <1>2
  <2>2. clients' = (s \o <<c>>) \o t
    BY <1>1
  <2> HIDE DEF s, t
  <2>3. /\ s \o <<c>> \in Seq(Clients) /\ Len(s \o <<c>>) = i + 1
        /\ \A k \in 1..i : (s \o <<c>>)[k] = clients[k]
        /\ (s \o <<c>>)[i + 1] = c
    BY <2>1
  <2> DEFINE u == s \o <<c>>
  <2> HIDE DEF u
  <2>4. /\ u \in Seq(Clients) /\ Len(u) = i + 1
        /\ \A k \in 1..i : u[k] = clients[k]
        /\ u[i + 1] = c /\ clients' = u \o t
    BY <2>2, <2>3 DEF u
  <2>5. /\ clients' \in Seq(Clients) /\ Len(clients') = Len(clients) + 1
        /\ \A k \in 1..Len(clients') :
             \/ k \in 1..Len(u) /\ clients'[k] = u[k]
             \/ k - Len(u) \in 1..Len(t) /\ clients'[k] = t[k - Len(u)]
    <3>1. /\ u \o t \in Seq(Clients) /\ Len(u \o t) = Len(u) + Len(t)
          /\ \A k \in 1..Len(u \o t) :
               \/ k \in 1..Len(u) /\ (u \o t)[k] = u[k]
               \/ k - Len(u) \in 1..Len(t) /\ (u \o t)[k] = t[k - Len(u)]
      <4>1. u \in Seq(Clients) /\ t \in Seq(Clients)
        BY <2>1, <2>4
      <4>2. QED
        BY <4>1, ConcatIs, ZenonT(30)
    <3>2. Len(u) + Len(t) = Len(clients) + 1
      BY <1>2, <2>1, <2>4
    <3>3. QED
      BY <2>4, <3>1, <3>2
  <2>6. ASSUME NEW k \in 1..Len(clients')
        PROVE  clients'[k] = IF k <= i THEN clients[k] ELSE IF k = i + 1 THEN c ELSE clients[k - 1]
    <3>1. CASE k <= i + 1
      <4>1. k \in 1..Len(u) /\ clients'[k] = u[k]
        BY <2>1, <2>4, <2>5, <3>1
      <4>2. QED
        BY <2>4, <3>1, <4>1
    <3>2. CASE k > i + 1
      <4>1. k - (i + 1) \in 1..Len(clients) - i /\ clients'[k] = t[k - (i + 1)]
        BY <2>1, <2>4, <2>5, <3>2
      <4>2. i + (k - (i + 1)) = k - 1
        BY <3>2
      <4>3. QED
        BY <2>1, <3>2, <4>1, <4>2
    <3>3. QED
      BY <3>1, <3>2
  <2>7. QED
    BY <2>5, <2>6
<1>4. \A k \in 1..Len(clients) : clients[k] # c /\ clients[k] \in Members(clients)
  BY DEF Members
<1>5. Distinct(clients')
  <2> SUFFICES ASSUME NEW k \in 1..Len(clients'), NEW l \in 1..Len(clients'), k < l
               PROVE  clients'[k] # clients'[l]
    BY <1>2, <1>3 DEF Distinct
  <2>1. \A a, b \in 1..Len(clients) : a < b => clients[a] # clients[b]
    BY <1>2 DEF Distinct
  <2>2. /\ k <= i => k \in 1..Len(clients)
        /\ k > i + 1 => k - 1 \in 1..Len(clients) /\ k - 1 > i
        /\ l <= i => l \in 1..Len(clients)
        /\ l > i + 1 => l - 1 \in 1..Len(clients) /\ l - 1 > i
    BY <1>2, <1>3
  <2>3. CASE k <= i
    <3>1. CASE l <= i
      BY <1>3, <2>1, <2>2, <2>3, <3>1
    <3>2. CASE l = i + 1
      BY <1>3, <1>4, <2>2, <2>3, <3>2
    <3>3. CASE l > i + 1
      <4>1. k < l - 1
        BY <2>2, <2>3, <3>3
      <4>2. QED
        BY <1>3, <2>1, <2>2, <2>3, <3>3, <4>1, SMTT(30)
    <3>4. QED
      BY <3>1, <3>2, <3>3
  <2>4. CASE k = i + 1
    BY <1>3, <1>4, <2>2, <2>4
  <2>5. CASE k > i + 1
    <3>1. k - 1 < l - 1 /\ l > i + 1
      BY <2>5
    <3>2. QED
      BY <1>3, <2>1, <2>2, <2>5, <3>1, SMTT(30)
  <2>6. QED
    BY <2>3, <2>4, <2>5
<1>6. Members(clients') = Members(clients) \cup {c}
  <2>1. Members(clients') \subseteq Members(clients) \cup {c}
    <3> SUFFICES ASSUME NEW k \in 1..Len(clients') PROVE clients'[k] \in Members(clients) \cup {c}
      BY DEF Members
    <3>1. /\ k <= i => k \in 1..Len(clients)
          /\ k > i + 1 => k - 1 \in 1..Len(clients)
      BY <1>2, <1>3
    <3>2. QED
      BY <1>3, <1>4, <3>1, SMTT(30)
  <2>2. c \in Members(clients')
    <3>1. i + 1 \in 1..Len(clients') /\ clients'[i + 1] = c
      BY <1>2, <1>3
    <3>2. QED
      BY <3>1 DEF Members
  <2>3. ASSUME NEW k \in 1..Len(clients) PROVE clients[k] \in Members(clients')
    <3>1. CASE k <= i
      <4>1. k \in 1..Len(clients') /\ clients'[k] = clients[k]
        BY <1>2, <1>3, <3>1
      <4>2. QED
        BY <4>1 DEF Members
    <3>2. CASE k > i
      <4>1. k + 1 \in 1..Len(clients') /\ clients'[k + 1] = clients[k]
        <5>1. k + 1 \in 1..Len(clients') /\ ~(k + 1 <= i) /\ k + 1 # i + 1 /\ (k + 1) - 1 = k
          BY <1>2, <1>3, <3>2
        <5>2. QED
          BY <1>3, <5>1
      <4>2. QED
        BY <4>1 DEF Members
    <3>3. QED
      BY <3>1, <3>2
  <2>4. Members(clients) \subseteq Members(clients')
    BY <2>3 DEF Members
  <2>5. QED
    BY <2>1, <2>2, <2>4
<1>7. QED
  BY <1>3, <1>5, <1>6

LEMMA JoinsKeep == ASSUME WsInv, NEW c \in Clients, Joins(c) PROVE WsInv'
<1>1. WsTyping /\ WsClients
  BY DEF WsInv
<1>2. /\ peer[c] = "handshake"
      /\ \/ Insert(c) /\ peer' = [peer EXCEPT ![c] = "open"]
         \/ peer' = [peer EXCEPT ![c] = "closing"] /\ UNCHANGED clients
      /\ UNCHANGED <<full, waiters, casts, castReady, got, slow, server>>
  BY DEF Joins
<1>3. c \notin Members(clients) /\ \A e \in 1..Len(casts) : c \notin casts[e].due
  BY <1>1, <1>2 DEF WsClients
<1>4. \A e \in 1..Len(casts) : casts[e].due \subseteq Clients
  BY <1>1, TasksTyped
<1>5. /\ peer' \in [Clients -> {"away", "handshake", "open", "closing", "lost", "gone"}]
      /\ \A d \in Clients \ {c} : peer'[d] = peer[d]
  BY <1>1, <1>2 DEF WsTyping
<1>6. clients' \in Seq(Clients) /\ WsClients'
  <2>1. CASE Insert(c) /\ peer' = [peer EXCEPT ![c] = "open"]
    <3>1. /\ clients' \in Seq(Clients) /\ Distinct(clients')
          /\ Members(clients') = Members(clients) \cup {c}
      BY <1>1, <1>3, <2>1, InsertIs DEF WsClients
    <3>2. peer'[c] = "open"
      BY <1>1, <2>1 DEF WsTyping
    <3>3. QED
      BY <1>1, <1>2, <1>3, <1>4, <1>5, <3>1, <3>2 DEF WsClients
  <2>2. CASE peer' = [peer EXCEPT ![c] = "closing"] /\ UNCHANGED clients
    <3>1. peer'[c] = "closing"
      BY <1>1, <2>2 DEF WsTyping
    <3>2. QED
      BY <1>1, <1>2, <1>3, <1>4, <1>5, <2>2, <3>1 DEF WsClients, WsTyping
  <2>3. QED
    BY <1>2, <2>1, <2>2
<1>7. QED
  BY <1>1, <1>2, <1>3, <1>5, <1>6, PeersKeep DEF WsTyping

LEMMA LeavesKeep == ASSUME WsInv, NEW c \in Clients, CloseFrame(c) \/ ReadLoopEnds(c) PROVE WsInv'
<1>1. WsTyping /\ WsClients
  BY DEF WsInv
<1>2. /\ \/ peer[c] = "open" /\ peer' = [peer EXCEPT ![c] = "closing"]
         \/ peer[c] = "lost" /\ peer' = [peer EXCEPT ![c] = "gone"]
      /\ clients' \in Without({c})
      /\ UNCHANGED <<full, waiters, casts, castReady, got, slow, server>>
  BY DEF CloseFrame, ReadLoopEnds
<1>3. clients' \in Seq(Clients) /\ Distinct(clients') /\ Members(clients') = Members(clients) \ {c}
  BY <1>1, <1>2, WithoutIs DEF WsClients
<1>4. /\ peer' \in [Clients -> {"away", "handshake", "open", "closing", "lost", "gone"}]
      /\ \A d \in Clients \ {c} : peer'[d] = peer[d]
      /\ peer'[c] \in {"closing", "gone"}
  BY <1>1, <1>2 DEF WsTyping
<1>5. \A e \in 1..Len(casts) : casts[e].due \subseteq Clients
  BY <1>1, TasksTyped
<1>6. WsClients'
  BY <1>1, <1>2, <1>3, <1>4, <1>5 DEF WsClients
<1>7. QED
  BY <1>1, <1>2, <1>3, <1>4, <1>6, PeersKeep DEF WsTyping

LEMMA StopKeeps == WsInv /\ (WsStop \/ WsStopped) => WsInv'
<1> SUFFICES ASSUME WsInv, WsStop \/ WsStopped PROVE WsInv'
  OBVIOUS
<1>1. WsTyping /\ WsClients
  BY DEF WsInv
<1>2. \A e \in 1..Len(casts) : casts[e].due \subseteq Clients
  BY <1>1, TasksTyped
<1>3. CASE WsStop
  <2>1. /\ server' = "closing" /\ clients' = <<>>
        /\ peer' = [c \in Clients |-> IF c \in Members(clients) /\ peer[c] = "open"
                                      THEN "closing" ELSE peer[c]]
        /\ UNCHANGED <<full, waiters, casts, castReady, got, slow>>
    BY <1>3 DEF WsStop
  <2>2. clients' \in Seq(Clients) /\ Distinct(clients') /\ Members(clients') = {}
    BY <2>1 DEF Distinct, Members
  <2>3. /\ peer' \in [Clients -> {"away", "handshake", "open", "closing", "lost", "gone"}]
        /\ \A c \in Clients : /\ peer'[c] # "open"
                              /\ peer'[c] = peer[c] \/ peer'[c] = "closing"
    BY <1>1, <2>1 DEF WsTyping, WsClients
  <2>4. WsClients'
    BY <1>1, <1>2, <2>1, <2>2, <2>3 DEF WsClients
  <2>5. QED
    BY <1>1, <2>1, <2>2, <2>3, <2>4, PeersKeep DEF WsTyping
<1>4. CASE WsStopped
  <2>1. /\ server' = "down"
        /\ UNCHANGED <<clients, peer, full, waiters, casts, castReady, got, slow>>
    BY <1>4 DEF WsStopped
  <2>2. WsClients'
    BY <1>1, <2>1 DEF WsClients
  <2>3. QED
    BY <1>1, <2>1, <2>2, PeersKeep DEF WsTyping
<1>5. QED
  BY <1>3, <1>4

\* Whoever waited goes on behind those that are ready.
LEMMA WakeKeeps == ASSUME WsInv, NEW c \in Clients, Drains(c) \/ Lost(c) PROVE WsInv'
<1>1. WsTyping /\ WsClients /\ WsQueues /\ WsStarts /\ WsTodo /\ WsCovered /\ WsGot
  BY DEF WsInv
<1>2. /\ Wake(c) /\ UNCHANGED <<clients, casts, got, slow, server>>
      /\ \/ UNCHANGED peer
         \/ peer[c] \in {"open", "closing"} /\ peer' = [peer EXCEPT ![c] = "lost"]
  BY DEF Drains, Lost
<1>3. /\ full' = full \ {c} /\ castReady' = castReady \o waiters[c]
      /\ waiters' = [waiters EXCEPT ![c] = <<>>]
  BY <1>2 DEF Wake
<1>4. castReady \in Seq(Nat) /\ waiters[c] \in Seq(Nat)
  BY <1>1 DEF WsTyping
<1>5. /\ castReady' \in Seq(Nat) /\ Len(castReady') = Len(castReady) + Len(waiters[c])
      /\ Len(castReady) \in Nat /\ Len(waiters[c]) \in Nat
      /\ \A i \in 1..Len(castReady') :
           \/ i \in 1..Len(castReady) /\ castReady'[i] = castReady[i]
           \/ i - Len(castReady) \in 1..Len(waiters[c])
              /\ castReady'[i] = waiters[c][i - Len(castReady)]
      /\ Members(castReady') = Members(castReady) \cup Members(waiters[c])
  BY <1>3, <1>4, ConcatIs
<1>6. /\ waiters' \in [Clients -> Seq(Nat)] /\ waiters'[c] = <<>>
      /\ \A d \in Clients \ {c} : waiters'[d] = waiters[d]
  BY <1>1, <1>3 DEF WsTyping
<1>7. /\ peer' \in [Clients -> {"away", "handshake", "open", "closing", "lost", "gone"}]
      /\ \A d \in Clients : \/ peer'[d] = peer[d]
                            \/ peer[d] \in {"open", "closing"} /\ peer'[d] = "lost"
  BY <1>1, <1>2 DEF WsTyping
<1>8. WsTyping'
  BY <1>1, <1>2, <1>3, <1>5, <1>6, <1>7 DEF WsTyping
<1>9. \A e \in 1..Len(casts) : casts[e].due \subseteq Clients
  BY <1>1, TasksTyped
<1>10. WsClients'
  <2>1. \A d \in Clients : peer[d] = "closing" => d \notin Members(clients)
    BY <1>1 DEF WsClients
  <2>2. QED
    BY <1>1, <1>2, <1>7, <1>9, <2>1 DEF WsClients
<1>11. WsQueues'
  <2>1. /\ Upto(castReady, Len(casts)) /\ Distinct(castReady)
        /\ Upto(waiters[c], Len(casts)) /\ Distinct(waiters[c])
        /\ Members(waiters[c]) \cap Members(castReady) = {}
        /\ \A i \in 1..Len(castReady) : ~casts[castReady[i]].done
        /\ \A i \in 1..Len(waiters[c]) :
             casts[waiters[c][i]].started /\ ~casts[waiters[c][i]].done
    BY <1>1 DEF WsQueues
  <2>2. Upto(castReady', Len(casts')) /\ \A i \in 1..Len(castReady') : ~casts'[castReady'[i]].done
    BY <1>2, <1>5, <2>1 DEF Upto
  <2>3. Distinct(castReady')
    <3> SUFFICES ASSUME NEW i \in 1..Len(castReady'), NEW j \in 1..Len(castReady'), i # j
                 PROVE  castReady'[i] # castReady'[j]
      BY DEF Distinct
    <3>1. \A k \in 1..Len(castReady), l \in 1..Len(waiters[c]) : castReady[k] # waiters[c][l]
      BY <2>1 DEF Members
    <3>2. QED
      <4>1. CASE i \in 1..Len(castReady) /\ castReady'[i] = castReady[i]
        <5>1. CASE j \in 1..Len(castReady) /\ castReady'[j] = castReady[j]
          BY <2>1, <4>1, <5>1 DEF Distinct
        <5>2. CASE /\ j - Len(castReady) \in 1..Len(waiters[c])
                   /\ castReady'[j] = waiters[c][j - Len(castReady)]
          BY <3>1, <4>1, <5>2
        <5>3. QED
          BY <1>5, <5>1, <5>2
      <4>2. CASE /\ i - Len(castReady) \in 1..Len(waiters[c])
                 /\ castReady'[i] = waiters[c][i - Len(castReady)]
        <5>1. CASE j \in 1..Len(castReady) /\ castReady'[j] = castReady[j]
          BY <3>1, <4>2, <5>1
        <5>2. CASE /\ j - Len(castReady) \in 1..Len(waiters[c])
                   /\ castReady'[j] = waiters[c][j - Len(castReady)]
          <6>1. i - Len(castReady) # j - Len(castReady)
            BY <1>5
          <6>2. QED
            BY <2>1, <4>2, <5>2, <6>1 DEF Distinct
        <5>3. QED
          BY <1>5, <5>1, <5>2
      <4>3. QED
        BY <1>5, <4>1, <4>2
  <2>4. Members(waiters'[c]) = {} /\ Upto(waiters'[c], Len(casts')) /\ Distinct(waiters'[c])
        /\ Len(waiters'[c]) = 0
    BY <1>6 DEF Members, Upto, Distinct
  <2>5. ASSUME NEW d \in Clients
        PROVE  /\ Upto(waiters'[d], Len(casts')) /\ Distinct(waiters'[d])
               /\ \A i \in 1..Len(waiters'[d]) :
                    casts'[waiters'[d][i]].started /\ ~casts'[waiters'[d][i]].done
               /\ Members(waiters'[d]) \cap Members(castReady') = {}
               /\ \A b \in Clients \ {d} : Members(waiters'[d]) \cap Members(waiters'[b]) = {}
    <3>1. CASE d = c
      BY <2>4, <3>1
    <3>2. CASE d # c
      <4>1. /\ Upto(waiters[d], Len(casts)) /\ Distinct(waiters[d])
            /\ \A i \in 1..Len(waiters[d]) :
                 casts[waiters[d][i]].started /\ ~casts[waiters[d][i]].done
            /\ Members(waiters[d]) \cap Members(castReady) = {}
            /\ \A b \in Clients \ {d} : Members(waiters[d]) \cap Members(waiters[b]) = {}
        BY <1>1 DEF WsQueues
      <4>2. waiters'[d] = waiters[d]
        BY <1>6, <3>2
      <4>3. Members(waiters[d]) \cap Members(castReady') = {}
        BY <1>5, <3>2, <4>1
      <4>4. \A b \in Clients \ {d} : Members(waiters[d]) \cap Members(waiters'[b]) = {}
        BY <1>6, <2>4, <4>1
      <4>5. QED
        BY <1>2, <4>1, <4>2, <4>3, <4>4
    <3>3. QED
      BY <3>1, <3>2
  <2>6. \A e \in 1..Len(casts') : ~casts'[e].started => e \in Members(castReady')
    BY <1>1, <1>2, <1>5 DEF WsQueues
  <2>7. QED
    BY <2>2, <2>3, <2>5, <2>6 DEF WsQueues
<1>12. WsStarts'
  <2>1. \A i \in 1..Len(castReady') : ~casts[castReady'[i]].started =>
          i \in 1..Len(castReady) /\ castReady'[i] = castReady[i]
    BY <1>1, <1>5 DEF WsQueues
  <2>2. QED
    BY <1>1, <1>2, <2>1 DEF WsStarts
<1>13. WsTodo' /\ WsGot'
  BY <1>1, <1>2 DEF WsTodo, WsGot
<1>14. WsCovered'
  BY <1>1, <1>2, <1>7, <1>9 DEF WsCovered
<1>15. QED
  BY <1>8, <1>10, <1>11, <1>12, <1>13, <1>14 DEF WsInv

\* The clients a running task has yet to write to are distinct, have not got its event,
\* and are among them all that it is still due for.
LEMMA TodoIs ==
  ASSUME WsInv, castReady # <<>>, NEW e, e = Head(castReady)
  PROVE  /\ e \in 1..Len(casts) /\ Len(casts) \in Nat /\ ~casts[e].done
         /\ Todo(e) \in Seq(Clients) /\ Distinct(Todo(e))
         /\ \A c \in Members(Todo(e)) : e \notin Members(got[c])
         /\ \A c \in casts[e].due : peer[c] = "open" =>
              e \in Members(got[c]) \/ c \in Members(Todo(e))
         /\ casts[e].started => \E d \in slow : d \notin Members(Todo(e))
<1>1. WsTyping /\ WsClients /\ WsQueues /\ WsTodo /\ WsCovered
  BY DEF WsInv
<1>2. castReady \in Seq(Nat) /\ Len(casts) \in Nat /\ clients \in Seq(Clients)
  BY <1>1 DEF WsTyping
<1>3. 1 \in 1..Len(castReady) /\ e = castReady[1]
  BY <1>2, TailIs
<1>4. e \in 1..Len(casts) /\ ~casts[e].done
  BY <1>1, <1>3 DEF WsQueues, Upto
<1>5. casts[e].todo \in Seq(Clients) /\ casts[e].due \subseteq Clients /\ casts[e].started \in BOOLEAN
  BY <1>1, <1>4, TasksTyped
<1>6. CASE casts[e].started
  <2>1. Todo(e) = casts[e].todo
    BY <1>6 DEF Todo
  <2>2. Members(Todo(e)) \subseteq Clients
    BY <1>5, <2>1, MembersTyped
  <2>3. QED
    BY <1>1, <1>2, <1>4, <1>5, <1>6, <2>1, <2>2 DEF WsTodo, WsCovered
<1>7. CASE ~casts[e].started
  <2>1. Todo(e) = clients
    BY <1>7 DEF Todo
  <2>2. Members(clients) \subseteq Clients
    BY <1>2, MembersTyped
  <2>3. QED
    BY <1>1, <1>2, <1>4, <1>5, <1>7, <2>1, <2>2 DEF WsTodo, WsClients
<1>8. QED
  BY <1>5, <1>6, <1>7

\* The first part of a sequence and the rest have no member in common.
LEMMA Cut ==
  ASSUME NEW S, NEW s \in Seq(S), Distinct(s), NEW n \in 0..Len(s)
  PROVE  /\ SubSeq(s, n + 1, Len(s)) \in Seq(S)
         /\ Distinct(SubSeq(s, n + 1, Len(s)))
         /\ Members(s) = {s[i] : i \in 1..n} \cup Members(SubSeq(s, n + 1, Len(s)))
         /\ {s[i] : i \in 1..n} \cap Members(SubSeq(s, n + 1, Len(s))) = {}
<1>1. Len(s) \in Nat
  OBVIOUS
<1>2. PICK t : t = SubSeq(s, n + 1, Len(s))
  OBVIOUS
<1>3. /\ t \in Seq(S) /\ Len(t) = Len(s) - n
      /\ \A i \in 1..Len(s) - n : t[i] = s[n + i]
  BY <1>1, <1>2
<1>4. \A i, j \in 1..Len(s) : i # j => s[i] # s[j]
  BY DEF Distinct
<1>5. Distinct(t)
  <2> SUFFICES ASSUME NEW i \in 1..Len(t), NEW j \in 1..Len(t), i # j PROVE t[i] # t[j]
    BY DEF Distinct
  <2>1. n + i \in 1..Len(s) /\ n + j \in 1..Len(s) /\ n + i # n + j
    BY <1>1, <1>3
  <2>2. t[i] = s[n + i] /\ t[j] = s[n + j]
    BY <1>3
  <2>3. QED
    BY <1>4, <2>1, <2>2
<1>6. Members(t) = {s[i] : i \in n + 1 .. Len(s)}
  <2>1. ASSUME NEW i \in 1..Len(t) PROVE t[i] \in {s[k] : k \in n + 1 .. Len(s)}
    <3>1. n + i \in n + 1 .. Len(s) /\ t[i] = s[n + i]
      BY <1>1, <1>3
    <3>2. QED
      BY <3>1
  <2>2. ASSUME NEW k \in n + 1 .. Len(s) PROVE s[k] \in Members(t)
    <3>1. k - n \in 1..Len(t) /\ n + (k - n) = k
      BY <1>1, <1>3
    <3>2. t[k - n] = s[k]
      BY <1>3, <3>1
    <3>3. QED
      BY <3>1, <3>2 DEF Members
  <2>3. QED
    BY <2>1, <2>2 DEF Members
<1>7. Members(s) = {s[i] : i \in 1..n} \cup Members(t)
  <2>1. 1..Len(s) = (1..n) \cup (n + 1 .. Len(s))
    BY <1>1
  <2>2. QED
    BY <1>6, <2>1 DEF Members
<1>8. {s[i] : i \in 1..n} \cap Members(t) = {}
  <2>1. \A i \in 1..n, k \in n + 1 .. Len(s) : s[i] # s[k]
    BY <1>1, <1>4
  <2>2. QED
    BY <1>6, <2>1
<1>9. QED
  BY <1>2, <1>3, <1>5, <1>7, <1>8

\* What a task that runs has written, and who is left.
Wrote(e, reached) ==
  /\ got' \in [Clients -> Seq(Nat)]
  /\ \A c \in Clients :
       IF c \in reached /\ peer[c] = "open"
       THEN /\ Members(got'[c]) = Members(got[c]) \cup {e}
            /\ Upto(got'[c], Len(casts)) /\ Distinct(got'[c])
            /\ got'[c] = Append(got[c], e)
       ELSE got'[c] = got[c]
  /\ castReady' \in Seq(Nat) /\ e \notin Members(castReady')
  /\ Members(castReady) = Members(castReady') \cup {e}
  /\ Upto(castReady', Len(casts)) /\ Distinct(castReady')
  /\ Len(castReady') \in Nat
  /\ \A i \in 1..Len(castReady') :
       castReady'[i] = castReady[i + 1] /\ i + 1 \in 1..Len(castReady)
  /\ \A i \in 1..Len(castReady') : castReady'[i] # e
  /\ 1 \in 1..Len(castReady) /\ e = castReady[1]
  /\ clients' \in Seq(Clients) /\ Distinct(clients')
  /\ Members(clients') \subseteq Members(clients)
  /\ \A c \in Clients : peer[c] = "open" /\ c \in Members(clients) => c \in Members(clients')
  /\ UNCHANGED <<peer, server>>

LEMMA WritesIs ==
  ASSUME WsInv, castReady # <<>>, NEW e, e = Head(castReady),
         NEW n \in 0..Len(Todo(e)), Writes(e, n),
         NEW reached, reached = {Todo(e)[i] : i \in 1..n}
  PROVE  Wrote(e, reached)
<1>1. WsTyping /\ WsClients /\ WsQueues /\ WsGot
  BY DEF WsInv
<1>2. /\ e \in 1..Len(casts) /\ Len(casts) \in Nat
      /\ Todo(e) \in Seq(Clients)
      /\ \A c \in Members(Todo(e)) : e \notin Members(got[c])
  BY TodoIs
<1>3. reached \subseteq Members(Todo(e))
  BY <1>2 DEF Members
<1>4. /\ got' = [c \in Clients |-> IF c \in reached /\ peer[c] = "open"
                                  THEN Append(got[c], e) ELSE got[c]]
      /\ clients' \in Without((reached \cup casts[e].at) \cap Dead)
      /\ castReady' = Tail(castReady) /\ UNCHANGED <<peer, server>>
  BY DEF Writes
<1>5. ASSUME NEW c \in Clients
      PROVE  /\ got'[c] \in Seq(Nat)
             /\ IF c \in reached /\ peer[c] = "open"
                THEN /\ Members(got'[c]) = Members(got[c]) \cup {e}
                     /\ Upto(got'[c], Len(casts)) /\ Distinct(got'[c])
                     /\ got'[c] = Append(got[c], e)
                ELSE got'[c] = got[c]
  <2>1. got[c] \in Seq(Nat) /\ Upto(got[c], Len(casts)) /\ Distinct(got[c]) /\ e \in Nat
    BY <1>1, <1>2 DEF WsTyping, WsGot
  <2>2. CASE c \in reached /\ peer[c] = "open"
    <3>1. got'[c] = Append(got[c], e)
      BY <1>4, <2>2
    <3>2. /\ got'[c] \in Seq(Nat) /\ Len(got'[c]) = Len(got[c]) + 1 /\ Len(got[c]) \in Nat
          /\ \A i \in 1..Len(got[c]) : got'[c][i] = got[c][i]
          /\ got'[c][Len(got[c]) + 1] = e
          /\ Members(got'[c]) = Members(got[c]) \cup {e}
      BY <2>1, <3>1, AppendIs, SMTT(30)
    <3>3. \A i \in 1..Len(got'[c]) : \/ i \in 1..Len(got[c]) /\ got'[c][i] = got[c][i]
                                     \/ i = Len(got[c]) + 1 /\ got'[c][i] = e
      BY <3>2
    <3>4. Upto(got'[c], Len(casts))
      BY <1>2, <2>1, <3>3 DEF Upto
    <3>5. \A i \in 1..Len(got[c]) : got[c][i] # e
      BY <1>2, <1>3, <2>2 DEF Members
    <3>6. Distinct(got'[c])
      BY <2>1, <3>3, <3>5 DEF Distinct
    <3>7. QED
      BY <2>2, <3>1, <3>2, <3>4, <3>6
  <2>3. CASE ~(c \in reached /\ peer[c] = "open")
    BY <1>4, <2>1, <2>3
  <2>4. QED
    BY <2>2, <2>3
<1>6. got' \in [Clients -> Seq(Nat)]
  BY <1>4, <1>5
<1>7. /\ castReady' \in Seq(Nat) /\ Len(castReady) \in Nat \ {0}
      /\ Len(castReady') = Len(castReady) - 1 /\ e = castReady[1]
      /\ \A i \in 1..Len(castReady') : castReady'[i] = castReady[i + 1] /\ i + 1 \in 1..Len(castReady)
      /\ Members(castReady) = Members(castReady') \cup {e}
  BY <1>1, <1>4, TailIs DEF WsTyping
<1>8. Upto(castReady, Len(casts)) /\ \A i, j \in 1..Len(castReady) : i # j => castReady[i] # castReady[j]
  BY <1>1 DEF WsQueues, Distinct
<1>9. /\ 1 \in 1..Len(castReady)
      /\ \A i \in 1..Len(castReady') : castReady'[i] # e
  BY <1>7, <1>8
<1>10. Upto(castReady', Len(casts)) /\ Distinct(castReady') /\ e \notin Members(castReady')
  <2>1. Upto(castReady', Len(casts)) /\ e \notin Members(castReady')
    BY <1>7, <1>8, <1>9 DEF Upto, Members
  <2>2. Distinct(castReady')
    <3> SUFFICES ASSUME NEW i \in 1..Len(castReady'), NEW j \in 1..Len(castReady'), i # j
                 PROVE  castReady'[i] # castReady'[j]
      BY DEF Distinct
    <3>1. i + 1 \in 1..Len(castReady) /\ j + 1 \in 1..Len(castReady) /\ i + 1 # j + 1
      BY <1>7
    <3>2. castReady'[i] = castReady[i + 1] /\ castReady'[j] = castReady[j + 1]
      BY <1>7
    <3>3. QED
      BY <1>8, <3>1, <3>2
  <2>3. QED
    BY <2>1, <2>2
<1>11. /\ clients' \in Seq(Clients) /\ Distinct(clients')
       /\ Members(clients') = Members(clients) \ ((reached \cup casts[e].at) \cap Dead)
  BY <1>1, <1>4, WithoutIs DEF WsClients
<1>12. \A c \in Clients : peer[c] = "open" => c \notin Dead
  BY DEF Dead
<1>13. /\ UNCHANGED <<peer, server>> /\ Len(castReady') \in Nat
       /\ Members(clients') \subseteq Members(clients)
       /\ \A c \in Clients : peer[c] = "open" /\ c \in Members(clients) => c \in Members(clients')
  BY <1>4, <1>7, <1>11, <1>12
<1>14. QED
  BY <1>5, <1>6, <1>7, <1>9, <1>10, <1>11, <1>13, Zenon DEF Wrote

\* A task writes to some of its clients and then is done, or waits at the last of them.
LEMMA WriteKeeps ==
  ASSUME WsInv, castReady # <<>>, NEW e, e = Head(castReady),
         NEW n \in 0..Len(Todo(e)), Writes(e, n),
         casts' \in Seq(Task), Len(casts') = Len(casts),
         \A k \in 1..Len(casts) : k # e => casts'[k] = casts[k],
         casts'[e].started, casts'[e].due = casts[e].due,
         full' \in SUBSET Clients, slow' \in SUBSET Clients, slow \subseteq slow',
         \/ /\ casts'[e].done /\ n = Len(Todo(e)) /\ UNCHANGED waiters
         \/ /\ ~casts'[e].done /\ n # 0 /\ Todo(e)[n] \in slow'
            /\ casts'[e].todo = SubSeq(Todo(e), n + 1, Len(Todo(e)))
            /\ waiters' = [waiters EXCEPT ![Todo(e)[n]] = Append(@, e)]
  PROVE  WsInv'
<1>1. WsTyping /\ WsClients /\ WsQueues /\ WsStarts /\ WsTodo /\ WsCovered /\ WsGot
  BY DEF WsInv
<1>2. PICK t : t = Todo(e)
  OBVIOUS
<1>3. PICK reached : reached = {t[i] : i \in 1..n}
  OBVIOUS
<1>4. PICK rest : rest = SubSeq(t, n + 1, Len(t))
  OBVIOUS
<1>5. /\ e \in 1..Len(casts) /\ Len(casts) \in Nat /\ ~casts[e].done
      /\ t \in Seq(Clients) /\ Distinct(t)
      /\ \A c \in Members(t) : e \notin Members(got[c])
      /\ \A c \in casts[e].due : peer[c] = "open" => e \in Members(got[c]) \/ c \in Members(t)
      /\ casts[e].started => \E d \in slow : d \notin Members(t)
  BY <1>2, TodoIs
<1>6. /\ rest \in Seq(Clients) /\ Distinct(rest)
      /\ Members(t) = reached \cup Members(rest) /\ reached \cap Members(rest) = {}
      /\ n = Len(t) => Members(rest) = {}
  <2>1. n \in 0..Len(t)
    BY <1>2
  <2>2. /\ rest \in Seq(Clients) /\ Distinct(rest)
        /\ Members(t) = reached \cup Members(rest) /\ reached \cap Members(rest) = {}
    BY <1>3, <1>4, <1>5, <2>1, Cut
  <2>3. ASSUME n = Len(t) PROVE Members(rest) = {}
    <3>1. Len(rest) = 0
      BY <1>4, <1>5, <2>3
    <3>2. QED
      BY <3>1 DEF Members
  <2>4. QED
    BY <2>2, <2>3
<1>7. /\ got' \in [Clients -> Seq(Nat)]
      /\ \A c \in Clients :
           IF c \in reached /\ peer[c] = "open"
           THEN /\ Members(got'[c]) = Members(got[c]) \cup {e}
                /\ Upto(got'[c], Len(casts)) /\ Distinct(got'[c])
                /\ got'[c] = Append(got[c], e)
           ELSE got'[c] = got[c]
      /\ castReady' \in Seq(Nat) /\ e \notin Members(castReady')
      /\ Members(castReady) = Members(castReady') \cup {e}
      /\ Upto(castReady', Len(casts)) /\ Distinct(castReady')
      /\ Len(castReady') \in Nat
      /\ \A i \in 1..Len(castReady') :
           castReady'[i] = castReady[i + 1] /\ i + 1 \in 1..Len(castReady)
      /\ \A i \in 1..Len(castReady') : castReady'[i] # e
      /\ 1 \in 1..Len(castReady) /\ e = castReady[1]
      /\ clients' \in Seq(Clients) /\ Distinct(clients')
      /\ Members(clients') \subseteq Members(clients)
      /\ \A c \in Clients : peer[c] = "open" /\ c \in Members(clients) => c \in Members(clients')
      /\ UNCHANGED <<peer, server>>
  <2>1. reached = {Todo(e)[i] : i \in 1..n}
    BY <1>2, <1>3
  <2>2. Wrote(e, reached)
    BY <2>1, WritesIs
  <2>3. QED
    BY <2>2, Zenon DEF Wrote
<1>8. /\ casts'[e].done \in BOOLEAN
      /\ \/ casts'[e].done /\ n = Len(t) /\ UNCHANGED waiters
         \/ /\ ~casts'[e].done /\ n # 0 /\ t[n] \in slow' /\ casts'[e].todo = rest
            /\ waiters' = [waiters EXCEPT ![t[n]] = Append(@, e)]
  <2>1. casts'[e].done \in BOOLEAN
    <3>1. casts'[e] \in Task
      BY <1>5
    <3>2. QED
      BY <3>1 DEF Task
  <2>2. QED
    BY <1>2, <1>4, <2>1
<1>9. \A k \in 1..Len(casts) : /\ k # e => casts'[k] = casts[k]
                               /\ casts'[k].due = casts[k].due
                               /\ casts[k].due \subseteq Clients
                               /\ casts[k].started \in BOOLEAN
  BY <1>1, TasksTyped
<1>10. \A c \in Clients, k \in 1..Len(casts) :
         k # e => (k \in Members(got'[c]) <=> k \in Members(got[c]))
  <2> SUFFICES ASSUME NEW c \in Clients
               PROVE  \/ Members(got'[c]) = Members(got[c]) \cup {e}
                      \/ got'[c] = got[c]
    OBVIOUS
  <2>1. QED
    BY <1>7
<1>11. waiters' \in [Clients -> Seq(Nat)]
       /\ \A c \in Clients :
            \/ waiters'[c] = waiters[c]
            \/ waiters'[c] = Append(waiters[c], e) /\ ~casts'[e].done /\ c = t[n]
  <2>1. waiters \in [Clients -> Seq(Nat)] /\ e \in Nat
    BY <1>1, <1>5 DEF WsTyping
  <2>2. CASE UNCHANGED waiters
    BY <2>1, <2>2
  <2>3. CASE /\ ~casts'[e].done /\ n # 0
             /\ waiters' = [waiters EXCEPT ![t[n]] = Append(@, e)]
    <3>1. t[n] \in Clients
      BY <1>2, <1>5, <2>3
    <3>2. Append(waiters[t[n]], e) \in Seq(Nat)
      BY <2>1, <3>1
    <3>3. QED
      BY <2>1, <2>3, <3>1, <3>2
  <2>4. QED
    BY <1>8, <2>2, <2>3
<1>12. WsTyping'
  BY <1>1, <1>7, <1>11 DEF WsTyping
<1>13. WsClients'
  <2>1. \A c \in Clients : /\ peer[c] = "open" => c \in Members(clients')
                           /\ c \in Members(clients') => peer[c] \in {"open", "lost"}
    BY <1>1, <1>7 DEF WsClients
  <2>2. \A k \in 1..Len(casts) : \A c \in casts'[k].due :
          peer[c] \in {"open", "closing", "lost", "gone"}
    BY <1>1, <1>9 DEF WsClients
  <2>3. QED
    BY <1>7, <2>1, <2>2 DEF WsClients
<1>14. WsQueues'
  <2>1. \A i \in 1..Len(castReady') : ~casts'[castReady'[i]].done
    <3> SUFFICES ASSUME NEW i \in 1..Len(castReady') PROVE ~casts'[castReady'[i]].done
      OBVIOUS
    <3>1. castReady'[i] # e /\ castReady'[i] = castReady[i + 1] /\ i + 1 \in 1..Len(castReady)
      BY <1>7
    <3>2. castReady[i + 1] \in 1..Len(casts) /\ ~casts[castReady[i + 1]].done
      BY <1>1, <3>1 DEF WsQueues, Upto
    <3>3. QED
      BY <1>9, <3>1, <3>2
  <2>2. ASSUME NEW c \in Clients
        PROVE  /\ Upto(waiters'[c], Len(casts)) /\ Distinct(waiters'[c])
               /\ Members(waiters'[c]) \subseteq Members(waiters[c]) \cup {e}
               /\ e \in Members(waiters'[c]) => c = t[n] /\ ~casts'[e].done
               /\ \A i \in 1..Len(waiters'[c]) :
                    casts'[waiters'[c][i]].started /\ ~casts'[waiters'[c][i]].done
    <3>1. /\ Upto(waiters[c], Len(casts)) /\ Distinct(waiters[c])
          /\ \A i \in 1..Len(waiters[c]) :
               casts[waiters[c][i]].started /\ ~casts[waiters[c][i]].done
          /\ Members(waiters[c]) \cap Members(castReady) = {}
      BY <1>1 DEF WsQueues
    <3>2. e \notin Members(waiters[c])
      BY <1>7, <3>1
    <3>3. \A i \in 1..Len(waiters[c]) : waiters[c][i] # e /\ waiters[c][i] \in 1..Len(casts)
      BY <3>1, <3>2 DEF Members, Upto
    <3>4. \A i \in 1..Len(waiters[c]) :
            casts'[waiters[c][i]].started /\ ~casts'[waiters[c][i]].done
      BY <1>9, <3>1, <3>3
    <3>5. CASE waiters'[c] = waiters[c]
      BY <3>1, <3>2, <3>4, <3>5
    <3>6. CASE waiters'[c] = Append(waiters[c], e) /\ ~casts'[e].done /\ c = t[n]
      <4>1. waiters[c] \in Seq(Nat) /\ e \in Nat
        BY <1>1, <1>5 DEF WsTyping
      <4>2. /\ Len(waiters'[c]) = Len(waiters[c]) + 1 /\ Len(waiters[c]) \in Nat
            /\ \A i \in 1..Len(waiters[c]) : waiters'[c][i] = waiters[c][i]
            /\ waiters'[c][Len(waiters[c]) + 1] = e
            /\ Members(waiters'[c]) = Members(waiters[c]) \cup {e}
        <5>1. /\ Len(Append(waiters[c], e)) = Len(waiters[c]) + 1 /\ Len(waiters[c]) \in Nat
              /\ \A i \in 1..Len(waiters[c]) : Append(waiters[c], e)[i] = waiters[c][i]
              /\ Append(waiters[c], e)[Len(waiters[c]) + 1] = e
              /\ Members(Append(waiters[c], e)) = Members(waiters[c]) \cup {e}
          BY <4>1, AppendIs, SMTT(30)
        <5>2. waiters'[c] = Append(waiters[c], e)
          BY <3>6, Zenon
        <5>3. QED
          BY <5>1, <5>2, Zenon
      <4>3. \A i \in 1..Len(waiters'[c]) :
              \/ i \in 1..Len(waiters[c]) /\ waiters'[c][i] = waiters[c][i]
              \/ i = Len(waiters[c]) + 1 /\ waiters'[c][i] = e
        BY <4>2, SMTT(30)
      <4>4. Distinct(waiters'[c])
        BY <3>1, <3>3, <4>3 DEF Distinct
      <4>5. Upto(waiters'[c], Len(casts))
        BY <1>5, <3>3, <4>3 DEF Upto
      <4>6. QED
        BY <3>4, <3>6, <4>2, <4>3, <4>4, <4>5
    <3>7. QED
      BY <1>11, <3>5, <3>6
  <2>3. ASSUME NEW c \in Clients
        PROVE  /\ Members(waiters'[c]) \cap Members(castReady') = {}
               /\ \A d \in Clients \ {c} : Members(waiters'[c]) \cap Members(waiters'[d]) = {}
    <3>1. /\ Members(waiters[c]) \cap Members(castReady) = {}
          /\ \A d \in Clients \ {c} : /\ Members(waiters[c]) \cap Members(waiters[d]) = {}
                                      /\ Members(waiters[d]) \cap Members(castReady) = {}
      BY <1>1 DEF WsQueues
    <3>2. Members(waiters'[c]) \cap Members(castReady') = {}
      <4>1. /\ Members(waiters'[c]) \subseteq Members(waiters[c]) \cup {e}
            /\ Members(castReady') \subseteq Members(castReady) \ {e}
        BY <1>7, <2>2
      <4>2. QED
        BY <3>1, <4>1
    <3>3. ASSUME NEW d \in Clients \ {c}
          PROVE  Members(waiters'[c]) \cap Members(waiters'[d]) = {}
      <4>1. /\ Members(waiters'[c]) \subseteq Members(waiters[c]) \cup {e}
            /\ Members(waiters'[d]) \subseteq Members(waiters[d]) \cup {e}
            /\ ~(e \in Members(waiters'[c]) /\ e \in Members(waiters'[d]))
        BY <2>2
      <4>2. e \notin Members(waiters[c]) /\ e \notin Members(waiters[d])
        BY <1>7, <3>1
      <4>3. QED
        BY <3>1, <4>1, <4>2
    <3>4. QED
      BY <3>2, <3>3
  <2>4. ASSUME NEW k \in 1..Len(casts), ~casts'[k].started PROVE k \in Members(castReady')
    <3>1. k # e /\ ~casts[k].started
      BY <1>9, <2>4
    <3>2. QED
      BY <1>1, <1>7, <3>1 DEF WsQueues
  <2>5. QED
    BY <1>7, <2>1, <2>2, <2>3, <2>4 DEF WsQueues
<1>15. ASSUME NEW f \in 1..Len(casts), ~casts[f].started, f # e, ~casts[e].started
       PROVE  e < f
  <2>1. f \in Members(castReady)
    BY <1>1, <1>15 DEF WsQueues
  <2>2. PICK j \in 1..Len(castReady) : castReady[j] = f
    BY <2>1 DEF Members
  <2>3. 1 < j
    BY <1>7, <1>15, <2>2
  <2>4. \A i, k \in 1..Len(castReady) :
          i < k /\ ~casts[castReady[i]].started /\ ~casts[castReady[k]].started
            => castReady[i] < castReady[k]
    BY <1>1 DEF WsStarts
  <2>5. 1 \in 1..Len(castReady) /\ e = castReady[1]
    BY <1>7
  <2>6. QED
    BY <1>15, <2>2, <2>3, <2>4, <2>5
<1>16. WsStarts'
  <2>1. ASSUME NEW i \in 1..Len(castReady'), NEW j \in 1..Len(castReady'), i < j,
               ~casts'[castReady'[i]].started, ~casts'[castReady'[j]].started
        PROVE  castReady'[i] < castReady'[j]
    <3>1. /\ castReady'[i] = castReady[i + 1] /\ i + 1 \in 1..Len(castReady)
          /\ castReady'[j] = castReady[j + 1] /\ j + 1 \in 1..Len(castReady)
          /\ castReady'[i] # e /\ castReady'[j] # e /\ i + 1 < j + 1
      BY <1>7, <2>1
    <3>2. castReady'[i] \in 1..Len(casts) /\ castReady'[j] \in 1..Len(casts)
      BY <1>7 DEF Upto
    <3>3. ~casts[castReady[i + 1]].started /\ ~casts[castReady[j + 1]].started
      BY <1>9, <2>1, <3>1, <3>2
    <3>4. QED
      BY <1>1, <3>1, <3>3 DEF WsStarts
  <2>2. ASSUME NEW k \in 1..Len(casts), NEW f \in 1..Len(casts),
               casts'[k].started, ~casts'[f].started
        PROVE  k < f
    <3>1. f # e /\ ~casts[f].started
      BY <1>9, <2>2
    <3>2. CASE casts[k].started
      BY <1>1, <3>1, <3>2 DEF WsStarts
    <3>3. CASE ~casts[k].started
      <4>1. k = e
        BY <1>9, <2>2, <3>3
      <4>2. QED
        BY <1>15, <3>1, <3>3, <4>1
    <3>4. QED
      BY <3>2, <3>3
  <2>3. QED
    BY <2>1, <2>2 DEF WsStarts
<1>17. WsTodo'
  <2> SUFFICES ASSUME NEW k \in 1..Len(casts)
               PROVE  /\ casts'[k].started /\ ~casts'[k].done => Distinct(casts'[k].todo)
                      /\ \A c \in Clients :
                           ~casts'[k].started \/ (~casts'[k].done /\ c \in Members(casts'[k].todo))
                             => k \notin Members(got'[c])
                      /\ casts'[k].started /\ ~casts'[k].done =>
                           \E d \in slow' : d \notin Members(casts'[k].todo)
    BY DEF WsTodo
  <2>1. CASE k # e
    <3>1. /\ casts[k].started /\ ~casts[k].done => Distinct(casts[k].todo)
          /\ \A c \in Clients :
               ~casts[k].started \/ (~casts[k].done /\ c \in Members(casts[k].todo))
                 => k \notin Members(got[c])
          /\ casts[k].started /\ ~casts[k].done =>
               \E d \in slow : d \notin Members(casts[k].todo)
      BY <1>1 DEF WsTodo
    <3>2. QED
      BY <1>9, <1>10, <2>1, <3>1
  <2>2. CASE k = e
    <3>1. CASE casts'[e].done
      BY <2>2, <3>1
    <3>2. CASE ~casts'[e].done
      <4>1. /\ casts'[e].todo = rest /\ t[n] \in slow' /\ n \in 1..Len(t)
        <5>1. ~casts'[e].done /\ n # 0 /\ t[n] \in slow' /\ casts'[e].todo = rest
          BY <1>8, <3>2, Zenon
        <5>2. n \in 0..Len(t)
          BY <1>2, <1>5
        <5>3. QED
          BY <5>1, <5>2
      <4>2. t[n] \notin Members(rest)
        BY <1>3, <1>6, <4>1
      <4>3. \A c \in Clients : c \in Members(rest) => e \notin Members(got'[c])
        BY <1>5, <1>6, <1>7
      <4>4. QED
        BY <1>6, <2>2, <3>2, <4>1, <4>2, <4>3
    <3>3. QED
      BY <3>1, <3>2
  <2>3. QED
    BY <2>1, <2>2
<1>18. WsCovered'
  <2> SUFFICES ASSUME NEW k \in 1..Len(casts), NEW c \in casts[k].due, peer[c] = "open"
               PROVE  \/ k \in Members(got'[c])
                      \/ ~casts'[k].done /\ (casts'[k].started => c \in Members(casts'[k].todo))
    BY <1>7, <1>9 DEF WsCovered
  <2>1. c \in Clients
    BY <1>9
  <2>2. CASE k # e
    BY <1>1, <1>9, <1>10, <2>1, <2>2 DEF WsCovered
  <2>3. CASE k = e
    <3>1. CASE e \in Members(got[c])
      BY <1>7, <2>1, <2>3, <3>1
    <3>2. CASE c \in reached
      BY <1>7, <2>1, <2>3, <3>2
    <3>3. CASE c \in Members(rest)
      BY <1>6, <1>8, <2>3, <3>3
    <3>4. QED
      BY <1>5, <1>6, <2>3, <3>1, <3>2, <3>3
  <2>4. QED
    BY <2>2, <2>3
<1>19. WsGot'
  <2> SUFFICES ASSUME NEW c \in Clients
               PROVE  /\ Upto(got'[c], Len(casts)) /\ Distinct(got'[c])
                      /\ slow' \subseteq {c} => Rising(got'[c])
    BY DEF WsGot
  <2>1. /\ Upto(got[c], Len(casts)) /\ Distinct(got[c])
        /\ slow \subseteq {c} => Rising(got[c])
    BY <1>1 DEF WsGot
  <2>2. CASE ~(c \in reached /\ peer[c] = "open")
    BY <1>7, <2>1, <2>2
  <2>3. CASE c \in reached /\ peer[c] = "open"
    <3>1. Upto(got'[c], Len(casts)) /\ Distinct(got'[c]) /\ got'[c] = Append(got[c], e)
      BY <1>7, <2>3
    <3>2. ASSUME slow' \subseteq {c} PROVE Rising(got'[c])
      <4>1. Rising(got[c])
        BY <2>1, <3>2
      <4>2. ~casts[e].started
        <5>1. c \in Members(t)
          BY <1>6, <2>3
        <5>2. QED
          BY <1>5, <3>2, <5>1
      <4>3. ASSUME NEW i \in 1..Len(got[c]) PROVE got[c][i] < e
        <5>1. got[c][i] \in 1..Len(casts) /\ got[c][i] \in Members(got[c])
          BY <2>1 DEF Upto, Members
        <5>2. casts[got[c][i]].started
          BY <1>1, <5>1 DEF WsTodo
        <5>3. QED
          BY <1>1, <1>5, <4>2, <5>1, <5>2 DEF WsStarts
      <4>4. got[c] \in Seq(Nat) /\ e \in Nat
        BY <1>1, <1>5 DEF WsTyping
      <4>5. /\ Len(got'[c]) = Len(got[c]) + 1 /\ Len(got[c]) \in Nat
            /\ \A i \in 1..Len(got[c]) : got'[c][i] = got[c][i]
            /\ got'[c][Len(got[c]) + 1] = e
        BY <3>1, <4>4, AppendIs
      <4>6. SUFFICES ASSUME NEW i \in 1..Len(got'[c]), NEW j \in 1..Len(got'[c]), i < j
                     PROVE  got'[c][i] < got'[c][j]
        BY DEF Rising
      <4>7. i \in 1..Len(got[c]) /\ (j \in 1..Len(got[c]) \/ j = Len(got[c]) + 1)
        BY <4>5, <4>6
      <4>8. QED
        BY <4>1, <4>3, <4>5, <4>6, <4>7 DEF Rising
    <3>3. QED
      BY <3>1, <3>2
  <2>4. QED
    BY <2>2, <2>3
<1>20. QED
  BY <1>12, <1>13, <1>14, <1>16, <1>17, <1>18, <1>19 DEF WsInv

LEMMA CastEndsKeeps == WsInv /\ CastEnds => WsInv'
<1> SUFFICES ASSUME WsInv, CastEnds PROVE WsInv'
  OBVIOUS
<1>1. PICK e : e = Head(castReady)
  OBVIOUS
<1>2. /\ castReady # <<>> /\ Writes(e, Len(Todo(e)))
      /\ casts' = [casts EXCEPT ![e].started = TRUE, ![e].done = TRUE]
      /\ UNCHANGED <<full, waiters, slow>>
  BY <1>1 DEF CastEnds
<1>3. WsTyping
  BY DEF WsInv
<1>4. e \in 1..Len(casts) /\ Len(casts) \in Nat /\ Todo(e) \in Seq(Clients)
  BY <1>1, <1>2, TodoIs
<1>5. casts \in Seq(Task) /\ casts[e] \in Task
  BY <1>3, <1>4, TasksTyped DEF WsTyping
<1>6. PICK x : x = [casts[e] EXCEPT !.started = TRUE, !.done = TRUE]
  OBVIOUS
<1>7. x \in Task /\ x.started /\ x.done /\ x.due = casts[e].due
  BY <1>5, <1>6 DEF Task
<1>8. casts' = [casts EXCEPT ![e] = x]
  BY <1>2, <1>4, <1>5, <1>6
<1>9. /\ casts' \in Seq(Task) /\ Len(casts') = Len(casts) /\ casts'[e] = x
      /\ \A k \in 1..Len(casts) : k # e => casts'[k] = casts[k]
  BY <1>4, <1>5, <1>7, <1>8
<1>10. Len(Todo(e)) \in 0..Len(Todo(e))
  BY <1>4
<1>11. full' \in SUBSET Clients /\ slow' \in SUBSET Clients /\ slow \subseteq slow'
  BY <1>2, <1>3 DEF WsTyping
<1>12. QED
  BY <1>1, <1>2, <1>7, <1>9, <1>10, <1>11, WriteKeeps

LEMMA CastWaitsKeeps == WsInv /\ CastWaits => WsInv'
<1> SUFFICES ASSUME WsInv, CastWaits PROVE WsInv'
  OBVIOUS
<1>1. PICK e : e = Head(castReady)
  OBVIOUS
<1>2. PICK n \in 1..Len(Todo(e)) :
        /\ castReady # <<>> /\ Writes(e, n)
        /\ casts' = [casts EXCEPT ![e].started = TRUE, ![e].at = {Todo(e)[n]},
                                  ![e].todo = SubSeq(Todo(e), n + 1, Len(Todo(e)))]
        /\ waiters' = [waiters EXCEPT ![Todo(e)[n]] = Append(@, e)]
        /\ full' = full \cup {Todo(e)[n]} /\ slow' = slow \cup {Todo(e)[n]}
  BY <1>1 DEF CastWaits
<1>3. WsTyping
  BY DEF WsInv
<1>4. /\ e \in 1..Len(casts) /\ Len(casts) \in Nat /\ ~casts[e].done
      /\ Todo(e) \in Seq(Clients) /\ Distinct(Todo(e))
  BY <1>1, <1>2, TodoIs
<1>5. casts \in Seq(Task) /\ casts[e] \in Task
  BY <1>3, <1>4, TasksTyped DEF WsTyping
<1>6. PICK rest : rest = SubSeq(Todo(e), n + 1, Len(Todo(e)))
  OBVIOUS
<1>7. /\ Todo(e)[n] \in Clients /\ n \in 0..Len(Todo(e)) /\ n # 0
      /\ rest \in Seq(Clients)
  <2>1. Todo(e)[n] \in Clients /\ n \in 0..Len(Todo(e)) /\ n # 0
    BY <1>4
  <2>2. QED
    BY <1>4, <1>6, <2>1, Cut
<1>8. PICK x : x = [casts[e] EXCEPT !.started = TRUE, !.at = {Todo(e)[n]}, !.todo = rest]
  OBVIOUS
<1>9. x \in Task /\ x.started /\ ~x.done /\ x.due = casts[e].due /\ x.todo = rest
  BY <1>4, <1>5, <1>7, <1>8 DEF Task
<1>10. casts' = [casts EXCEPT ![e] = x]
  BY <1>2, <1>4, <1>5, <1>6, <1>8
<1>11. /\ casts' \in Seq(Task) /\ Len(casts') = Len(casts) /\ casts'[e] = x
       /\ \A k \in 1..Len(casts) : k # e => casts'[k] = casts[k]
  BY <1>4, <1>5, <1>9, <1>10
<1>12. /\ full' \in SUBSET Clients /\ slow' \in SUBSET Clients /\ slow \subseteq slow'
       /\ Todo(e)[n] \in slow'
  BY <1>2, <1>3, <1>7 DEF WsTyping
<1>13. QED
  BY <1>1, <1>2, <1>6, <1>7, <1>9, <1>11, <1>12, WriteKeeps

LEMMA WsSame == WsInv /\ UNCHANGED wsVars => WsInv'
<1> SUFFICES ASSUME WsInv, UNCHANGED wsVars PROVE WsInv'
  OBVIOUS
<1>1. WsTyping /\ WsClients
  BY DEF WsInv
<1>2. UNCHANGED <<clients, peer, full, waiters, casts, castReady, got, slow, server>>
  BY DEF wsVars
<1>3. WsClients'
  BY <1>1, <1>2 DEF WsClients
<1>4. QED
  BY <1>1, <1>2, <1>3, PeersKeep DEF WsTyping

-----------------------------------------------------------------------------
(* Both                                                                    *)

LEMMA InitBridges == Init => BridgesInv
<1> SUFFICES ASSUME Init PROVE BridgesInv
  OBVIOUS
<1>1. WsInit("websocket" \in enabled) /\ NrInit("nodered" \in enabled)
  BY DEF Init
<1>2. /\ drains = <<>> /\ lines = <<>> /\ sendReady = <<>> /\ sends = <<>>
      /\ link = "none" /\ connected = FALSE /\ number = 0
      /\ run \in {"connecting", "ended"} /\ bridge \in {"up", "down"}
  BY <1>1 DEF NrInit
<1>3. NrInv
  <2>1. NrTyping
    <3> DEFINE Event == [done : BOOLEAN, due : Nat]
    <3> HIDE DEF Event
    <3>1. sends \in Seq(Event)
      BY <1>2
    <3>2. sendReady \in Seq(Nat) /\ drains \in Seq(Nat) /\ lines \in Seq(Nat)
      BY <1>2
    <3>3. /\ run \in {"connecting", "up", "sleeping", "ended"}
          /\ link \in {"none", "open", "full", "closing", "lost"}
          /\ connected \in BOOLEAN /\ number \in Nat /\ bridge \in {"up", "closing", "down"}
      BY <1>2
    <3>4. QED
      BY <3>1, <3>2, <3>3 DEF NrTyping, Event
  <2>2. NrLink /\ ~Writable
    BY <1>2 DEF NrLink, Writable
  <2>3. Upto(sendReady, Len(sends)) /\ Upto(drains, Len(sends)) /\ Upto(lines, Len(sends))
    BY <1>2 DEF Upto
  <2>4. NrQueue
    BY <1>2, <2>2, <2>3 DEF NrQueue, Rising
  <2>5. NrInOrder /\ NrReaches
    BY <1>2 DEF NrInOrder, NrReaches
  <2>6. QED
    BY <2>1, <2>2, <2>4, <2>5 DEF NrInv
<1>4. /\ clients = <<>> /\ peer = [c \in Clients |-> "away"] /\ full = {} /\ slow = {}
      /\ waiters = [c \in Clients |-> <<>>] /\ casts = <<>> /\ castReady = <<>>
      /\ got = [c \in Clients |-> <<>>] /\ server \in {"up", "down"}
  BY <1>1 DEF WsInit
<1>5. WsTyping
  BY <1>4 DEF WsTyping
<1>6. WsInv
  BY <1>4, <1>5 DEF WsInv, WsClients, WsQueues, WsStarts, WsTodo, WsCovered, WsGot,
                    Upto, Rising, Distinct, Members
<1>7. QED
  BY <1>3, <1>6 DEF BridgesInv

LEMMA NextBridges == BridgesInv /\ [Next]_vars => BridgesInv'
<1> SUFFICES ASSUME NrInv, WsInv, [Next]_vars PROVE NrInv' /\ WsInv'
  BY DEF BridgesInv
<1>1. CASE Forward
  BY <1>1, CastKeeps, SendKeeps, NrSame, WsSame DEF Forward
<1>2. CASE Stop
  BY <1>2, RunTaskKeeps, StopKeeps, NrSame, WsSame DEF Stop
<1>3. CASE StopServer
  BY <1>3, StopKeeps, NrSame DEF StopServer
<1>4. CASE ServerLoop
  BY <1>4, CastEndsKeeps, CastWaitsKeeps, StopKeeps, LeavesKeep, NrSame
     DEF ServerLoop, WsLoop, ServerAlone
<1>5. CASE ServerPeer
  BY <1>5, OpensKeep, JoinsKeep, LeavesKeep, WakeKeeps, NrSame
     DEF ServerPeer, WsPeer, ServerAlone
<1>6. CASE BridgeLoop
  BY <1>6, DropsKeeps, WritesKeeps, RunTaskKeeps, WsSame
     DEF BridgeLoop, NrLoop, NrSendStep, BridgeAlone
<1>7. CASE ConnectEnds
  BY <1>7, ConnectKeeps, RunTaskKeeps, WsSame DEF ConnectEnds, Connects, BridgeAlone
<1>8. CASE BridgePeer
  BY <1>8, DrainKeeps, LostKeeps, WsSame DEF BridgePeer, BridgeAlone
<1>9. CASE UNCHANGED vars
  BY <1>9, NrSame, WsSame DEF vars, wsVars, nrVars
<1>10. QED
  BY <1>1, <1>2, <1>3, <1>4, <1>5, <1>6, <1>7, <1>8, <1>9 DEF Next

\* The inductive invariant of both transports, for any number of clients, events and
\* connections.
THEOREM BridgesInvariant == Spec => []BridgesInv
<1>1. QED
  BY InitBridges, NextBridges, PTL DEF Spec

\* InOrder: no consumer gets an event twice, and each gets them in the order in which
\* they happened unless another client stalled (websocket.py send, nodered.py send).
THEOREM InOrderHolds == Spec => []InOrder
<1>1. BridgesInv => InOrder
  <2> SUFFICES ASSUME NrInv, WsInv PROVE NrInOrder /\ WsInOrder
    BY DEF BridgesInv, InOrder
  <2>1. NrInOrder
    BY DEF NrInv
  <2>2. ASSUME NEW c \in Clients, NEW i \in 1..Len(got[c]), NEW j \in 1..Len(got[c]), i < j
        PROVE  got[c][i] # got[c][j] /\ (slow \subseteq {c} => got[c][i] < got[c][j])
    <3>1. got[c] \in Seq(Nat) /\ Distinct(got[c]) /\ (slow \subseteq {c} => Rising(got[c]))
      BY DEF WsInv, WsTyping, WsGot
    <3>2. i # j
      BY <2>2, <3>1
    <3>3. QED
      BY <2>2, <3>1, <3>2 DEF Distinct, Rising
  <2>3. QED
    BY <2>1, <2>2 DEF WsInOrder
<1>2. QED
  BY <1>1, BridgesInvariant, PTL

\* Reaches: a broadcast, or a send, that is over has reached whatever it was meant for
\* and is still there, whoever else stalled, failed or left meanwhile.
THEOREM ReachesHolds == Spec => []Reaches
<1>1. BridgesInv => Reaches
  BY DEF BridgesInv, NrInv, WsInv, WsCovered, Reaches, WsReaches
<1>2. QED
  BY <1>1, BridgesInvariant, PTL

-----------------------------------------------------------------------------
(* The frames of a WebSocket client *)

Frame == [op : {"text", "binary", "cont"}, fin : BOOLEAN, part : Nat]

\* What a sequence holds when one more is appended.
LEMMA OneMoreHeld ==
    ASSUME NEW S, NEW q \in Seq(S), NEW e \in S
    PROVE  /\ Append(q, e) \in Seq(S) /\ Len(Append(q, e)) = Len(q) + 1
           /\ \A i \in 1 .. Len(q) : Append(q, e)[i] = q[i]
           /\ Append(q, e)[Len(q) + 1] = e
           /\ {Append(q, e)[i] : i \in 1 .. Len(Append(q, e))} = {q[i] : i \in 1 .. Len(q)} \union {e}
<1> DEFINE a == Append(q, e)   n == Len(q)
<1>1. /\ a \in Seq(S) /\ Len(a) = n + 1 /\ n \in Nat
      /\ \A i \in 1 .. n : a[i] = q[i]
      /\ a[n + 1] = e
  OBVIOUS
<1>2. \A i : i \in 1 .. n + 1 <=> i \in 1 .. n \/ i = n + 1
  BY <1>1
<1> HIDE DEF a, n
<1>3. {a[i] : i \in 1 .. Len(a)} = {q[i] : i \in 1 .. n} \union {e}
  BY <1>1, <1>2
<1>4. QED
  BY <1>1, <1>3 DEF a, n

\* Its members go up when one more, above all of them, is appended.
LEMMA StillRising ==
    ASSUME NEW q \in Seq(Nat), NEW e \in Nat, \A i \in 1 .. Len(q) : q[i] < e,
           \A i, j \in 1 .. Len(q) : i < j => q[i] < q[j]
    PROVE  \A i, j \in 1 .. Len(Append(q, e)) : i < j => Append(q, e)[i] < Append(q, e)[j]
<1> DEFINE a == Append(q, e)   n == Len(q)
<1>1. /\ Len(a) = n + 1 /\ n \in Nat
      /\ \A i \in 1 .. n : a[i] = q[i]
      /\ a[n + 1] = e
  BY OneMoreHeld
<1>2. \A i, j \in 1 .. n : i < j => q[i] < q[j]
  OBVIOUS
<1>3. \A i \in 1 .. n : q[i] < e
  OBVIOUS
<1> HIDE DEF a, n
<1>4. ASSUME NEW i \in 1 .. n + 1, NEW j \in 1 .. n + 1, i < j PROVE a[i] < a[j]
  <2>1. i \in 1 .. n /\ (j \in 1 .. n \/ j = n + 1)
    BY <1>1, <1>4
  <2>2. QED
    BY <1>1, <1>2, <1>3, <1>4, <2>1
<1>5. QED
  BY <1>1, <1>4 DEF a, n

LEMMA TextMessagesAre ==
    \A m : m \in TextMessages <=>
             \E i, j \in 1 .. Len(frames) : IsMessage(i, j) /\ m = FramesFrom(i, j)
<1> DEFINE sent == (1..Len(frames)) \X (1..Len(frames))
<1>1. \A m : m \in TextMessages <=>
               \E p \in sent : IsMessage(p[1], p[2]) /\ m = FramesFrom(p[1], p[2])
  BY DEF TextMessages
<1>2. \A i, j \in 1 .. Len(frames) : <<i, j>> \in sent /\ <<i, j>>[1] = i /\ <<i, j>>[2] = j
  OBVIOUS
<1>3. \A p \in sent : p[1] \in 1 .. Len(frames) /\ p[2] \in 1 .. Len(frames)
  OBVIOUS
<1> HIDE DEF sent
<1>4. ASSUME NEW m, NEW p \in sent, IsMessage(p[1], p[2]), m = FramesFrom(p[1], p[2])
      PROVE  \E i, j \in 1 .. Len(frames) : IsMessage(i, j) /\ m = FramesFrom(i, j)
  BY <1>3, <1>4
<1>5. ASSUME NEW m, NEW i \in 1 .. Len(frames), NEW j \in 1 .. Len(frames),
             IsMessage(i, j), m = FramesFrom(i, j)
      PROVE  \E p \in sent : IsMessage(p[1], p[2]) /\ m = FramesFrom(p[1], p[2])
  <2>1. <<i, j>> \in sent /\ <<i, j>>[1] = i /\ <<i, j>>[2] = j
    BY <1>2
  <2>2. IsMessage(<<i, j>>[1], <<i, j>>[2]) /\ m = FramesFrom(<<i, j>>[1], <<i, j>>[2])
    BY <1>5, <2>1
  <2>3. QED
    BY <2>1, <2>2, Zenon
<1>6. QED
  BY <1>1, <1>4, <1>5

\* The message in progress: its first frame is s, none of its frames is the last one.
OpenFrom(s) ==
  /\ s \in 1 .. Len(frames) /\ frames[s].op # "cont" /\ (s = 1 \/ frames[s - 1].fin)
  /\ \A k \in s + 1 .. Len(frames) : frames[k].op = "cont"
  /\ \A k \in s .. Len(frames) : ~frames[k].fin
  /\ parts = FramesFrom(s, Len(frames)) /\ isText = (frames[s].op = "text")

FramesInv ==
  /\ frames \in Seq(Frame) /\ messages \in Seq(Seq(Nat))
  /\ control \in Seq({"ping", "pong", "other"}) /\ pongs \in Seq(Nat)
  /\ FramesAsSent
  /\ Fragmented => \E s : OpenFrom(s)

LEMMA InitFrames == FramesInit => FramesInv
<1> SUFFICES ASSUME FramesInit PROVE FramesInv
  OBVIOUS
<1>1. frames = <<>> /\ messages = <<>> /\ control = <<>> /\ pongs = <<>>
  BY DEF FramesInit
<1>2. TextMessages = {}
  BY <1>1, TextMessagesAre
<1>3. QED
  BY <1>1, <1>2 DEF FramesInv, FramesAsSent, Fragmented

\* A PONG or PING does not touch the messages; PINGs are answered as they come.
LEMMA ControlFrameStep ==
    ASSUME FramesInv, NEW op \in {"ping", "pong", "other"}, ControlFrame(op)
    PROVE  FramesInv'
<1>1. /\ control' = Append(control, op)
      /\ pongs' = IF op = "ping" THEN Append(pongs, Len(control')) ELSE pongs
      /\ UNCHANGED <<frames, parts, isText, messages>>
  BY DEF ControlFrame
<1>2. /\ control \in Seq({"ping", "pong", "other"}) /\ pongs \in Seq(Nat) /\ Len(control) \in Nat
      /\ {pongs[i] : i \in 1..Len(pongs)} = {i \in 1..Len(control) : control[i] = "ping"}
      /\ \A i, j \in 1..Len(pongs) : i < j => pongs[i] < pongs[j]
  BY DEF FramesInv, FramesAsSent
<1>3. /\ control' \in Seq({"ping", "pong", "other"}) /\ Len(control') = Len(control) + 1
      /\ \A i \in 1 .. Len(control) : control'[i] = control[i]
      /\ control'[Len(control) + 1] = op
  BY <1>1, <1>2
<1>4. {i \in 1..Len(control') : control'[i] = "ping"}
        = {i \in 1..Len(control) : control[i] = "ping"} \union
          (IF op = "ping" THEN {Len(control')} ELSE {})
  <2>1. \A i : i \in 1 .. Len(control') <=> i \in 1 .. Len(control) \/ i = Len(control')
    BY <1>2, <1>3
  <2>2. QED
    BY <1>3, <2>1
<1>5. /\ pongs' \in Seq(Nat)
      /\ {pongs'[i] : i \in 1..Len(pongs')} = {i \in 1..Len(control') : control'[i] = "ping"}
      /\ \A i, j \in 1..Len(pongs') : i < j => pongs'[i] < pongs'[j]
  <2>1. CASE op = "ping"
    <3> DEFINE n == Len(control')
    <3>1. n \in Nat /\ pongs' = Append(pongs, n)
      BY <1>1, <1>2, <1>3, <2>1
    <3>2. \A i \in 1 .. Len(pongs) : pongs[i] < n
      <4>1. \A i \in 1 .. Len(pongs) : pongs[i] \in {k \in 1 .. Len(control) : control[k] = "ping"}
        BY <1>2, Zenon
      <4>2. \A i \in 1 .. Len(control) : i < n
        BY <1>2, <1>3
      <4>3. QED
        BY <4>1, <4>2
    <3> HIDE DEF n
    <3>3. /\ Append(pongs, n) \in Seq(Nat)
          /\ {Append(pongs, n)[i] : i \in 1 .. Len(Append(pongs, n))}
               = {pongs[i] : i \in 1 .. Len(pongs)} \union {n}
      BY <1>2, <3>1, OneMoreHeld
    <3>4. \A i, j \in 1 .. Len(Append(pongs, n)) :
            i < j => Append(pongs, n)[i] < Append(pongs, n)[j]
      BY <1>2, <3>1, <3>2, StillRising
    <3>5. {i \in 1..Len(control') : control'[i] = "ping"}
            = {i \in 1..Len(control) : control[i] = "ping"} \union {n}
      BY <1>4, <2>1 DEF n
    <3> DEFINE a == Append(pongs, n)
    <3>6. a \in Seq(Nat) /\ pongs' = a
      BY <3>1, <3>3
    <3>7. {a[i] : i \in 1 .. Len(a)} = {i \in 1..Len(control') : control'[i] = "ping"}
      BY <1>2, <3>3, <3>5
    <3>8. \A i, j \in 1 .. Len(a) : i < j => a[i] < a[j]
      BY <3>4
    <3> HIDE DEF a
    <3>9. QED
      BY <3>6, <3>7, <3>8
  <2>2. CASE op # "ping"
    BY <1>1, <1>2, <1>4, <2>2
  <2>3. QED
    BY <2>1, <2>2
<1>6. TextMessages' = TextMessages
  BY <1>1 DEF TextMessages, IsMessage, FramesFrom
<1>7. FramesAsSent'
  BY <1>1, <1>5, <1>6 DEF FramesInv, FramesAsSent
<1>8. QED
  BY <1>1, <1>3, <1>5, <1>7 DEF FramesInv, Fragmented, OpenFrom, FramesFrom

\* The frame that comes belongs to a message whose first frame is s.
LEMMA FrameOf ==
    ASSUME FramesInv, NEW op \in {"text", "binary", "cont"}, NEW fin \in BOOLEAN,
           DataFrame(op, fin)
    PROVE  LET n == Len(frames) + 1
           IN /\ frames' \in Seq(Frame) /\ Len(frames') = n /\ n \in Nat
              /\ \A i \in 1 .. n - 1 : frames'[i] = frames[i]
              /\ frames'[n].op = op /\ frames'[n].fin = fin
              /\ \E s \in 1 .. n :
                   /\ frames'[s].op # "cont" /\ (s = 1 \/ frames'[s - 1].fin)
                   /\ \A k \in s + 1 .. n : frames'[k].op = "cont"
                   /\ \A k \in s .. n - 1 : ~frames'[k].fin
                   /\ Gathered(op, n) = FramesFrom(s, n)
                   /\ isText' = (frames'[s].op = "text")
<1> DEFINE n == Len(frames) + 1   r == [op |-> op, fin |-> fin, part |-> n]
<1>1. /\ (op = "cont") = Fragmented
      /\ frames' = Append(frames, r)
      /\ isText' = IF op = "cont" THEN isText ELSE op = "text"
  BY DEF DataFrame
<1>2. n \in Nat /\ r \in Frame /\ r.op = op /\ r.fin = fin /\ frames \in Seq(Frame)
  BY DEF FramesInv, Frame
<1> HIDE DEF r
<1>3. /\ frames' \in Seq(Frame) /\ Len(frames') = n
      /\ \A i \in 1 .. n - 1 : frames'[i] = frames[i]
      /\ frames'[n] = r
  BY <1>1, <1>2
<1>4. CASE Fragmented
  <2>1. PICK s : OpenFrom(s)
    BY <1>4 DEF FramesInv
  <2>2. /\ s \in 1 .. n - 1 /\ op = "cont"
        /\ frames'[s].op # "cont" /\ (s = 1 \/ frames'[s - 1].fin)
        /\ \A k \in s + 1 .. n : frames'[k].op = "cont"
        /\ \A k \in s .. n - 1 : ~frames'[k].fin
    <3>1. s \in 1 .. n - 1 /\ op = "cont"
      <4>1. s \in 1 .. Len(frames) /\ Len(frames) \in Nat /\ n - 1 = Len(frames)
        BY <1>2, <2>1 DEF OpenFrom
      <4>2. op = "cont"
        BY <1>1, <1>4, Zenon
      <4>3. QED
        BY <4>1, <4>2
    <3>2. \A k \in s + 1 .. n : k = n \/ (k \in s + 1 .. Len(frames) /\ k \in 1 .. n - 1)
      BY <1>2, <3>1
    <3>3. \A k \in s .. n - 1 : k \in s .. Len(frames) /\ k \in 1 .. n - 1
      BY <1>2, <3>1
    <3>4. s = 1 \/ s - 1 \in 1 .. n - 1
      BY <1>2, <3>1
    <3>5. QED
      BY <1>2, <1>3, <2>1, <3>1, <3>2, <3>3, <3>4 DEF OpenFrom
  <2>3. isText' = (frames'[s].op = "text")
    BY <1>1, <1>3, <2>1, <2>2 DEF OpenFrom
  <2>4. Gathered(op, n) = FramesFrom(s, n)
    <3>1. Gathered(op, n) = Append(FramesFrom(s, n - 1), n)
      BY <1>2, <2>1, <2>2 DEF Gathered, OpenFrom
    <3>2. s \in Nat /\ n \in Nat /\ s < n
      BY <1>2, <2>2
    <3> HIDE DEF n
    <3>3. Append(FramesFrom(s, n - 1), n) = FramesFrom(s, n)
      BY <3>2 DEF FramesFrom
    <3>4. QED
      BY <3>1, <3>3
  <2>5. s \in 1 .. n
    BY <1>2, <2>2
  <2>6. QED
    BY <1>2, <1>3, <2>2, <2>3, <2>4, <2>5
<1>5. CASE ~Fragmented
  <2>1. op # "cont" /\ (n = 1 \/ frames'[n - 1].fin)
    BY <1>1, <1>2, <1>3, <1>5 DEF Fragmented, Last
  <2>2. /\ \A k \in n + 1 .. n : frames'[k].op = "cont"
        /\ \A k \in n .. n - 1 : ~frames'[k].fin
        /\ n \in 1 .. n
    BY <1>2
  <2>3. Gathered(op, n) = FramesFrom(n, n)
    <3>1. Gathered(op, n) = <<n>>
      BY <2>1 DEF Gathered
    <3>2. <<n>> = FramesFrom(n, n)
      BY <1>2 DEF FramesFrom
    <3>3. QED
      BY <3>1, <3>2
  <2>4. frames'[n].op = op /\ isText' = (op = "text")
    BY <1>1, <1>2, <1>3, <2>1
  <2>5. QED
    BY <1>2, <1>3, <2>1, <2>2, <2>3, <2>4
<1>6. QED
  BY <1>4, <1>5

\* The frames that end with the one that came are a message when it is the last of one;
\* the others are as before.
LEMMA DataFrameStep ==
    ASSUME FramesInv, NEW op \in {"text", "binary", "cont"}, NEW fin \in BOOLEAN,
           DataFrame(op, fin)
    PROVE  FramesInv'
<1>0. PICK n \in Nat : n = Len(frames) + 1
  BY DEF FramesInv
<1>1. /\ frames' \in Seq(Frame) /\ Len(frames') = n /\ n \in Nat /\ Len(frames) \in Nat
      /\ \A i \in 1 .. n - 1 : frames'[i] = frames[i]
      /\ frames'[n].op = op /\ frames'[n].fin = fin
  <2>1. Len(frames) \in Nat
    BY DEF FramesInv
  <2>2. QED
    BY <1>0, <2>1, FrameOf
<1>2. PICK s \in 1 .. n :
        /\ frames'[s].op # "cont" /\ (s = 1 \/ frames'[s - 1].fin)
        /\ \A k \in s + 1 .. n : frames'[k].op = "cont"
        /\ \A k \in s .. n - 1 : ~frames'[k].fin
        /\ Gathered(op, n) = FramesFrom(s, n)
        /\ isText' = (frames'[s].op = "text")
  BY <1>0, FrameOf
<1>3. /\ parts' = IF fin THEN <<>> ELSE FramesFrom(s, n)
      /\ messages' = IF fin /\ frames'[s].op = "text" THEN Append(messages, FramesFrom(s, n))
                     ELSE messages
      /\ UNCHANGED <<control, pongs>>
  <2>1. /\ parts' = IF fin THEN <<>> ELSE Gathered(op, n)
        /\ messages' = IF fin /\ isText' THEN Append(messages, Gathered(op, n)) ELSE messages
        /\ UNCHANGED <<control, pongs>>
    BY <1>0 DEF DataFrame
  <2>2. QED
    BY <1>2, <2>1
<1>4. \A i, j : i \in 1 .. n /\ j \in 1 .. n - 1 => (IsMessage(i, j)' <=> i \in 1 .. n - 1 /\ IsMessage(i, j))
  <2>1. ASSUME NEW i \in 1 .. n, NEW j \in 1 .. n - 1
        PROVE  IsMessage(i, j)' <=> i \in 1 .. n - 1 /\ IsMessage(i, j)
    <3>1. CASE i \in 1 .. n - 1
      <4>1. \A k \in i .. j - 1 : k \in 1 .. n - 1
        BY <1>1, <2>1, <3>1
      <4>2. QED
        BY <1>1, <2>1, <3>1, <4>1 DEF IsMessage
    <3>2. CASE i \notin 1 .. n - 1
      <4>1. ~(i <= j)
        BY <1>1, <2>1, <3>2
      <4>2. QED
        BY <3>2, <4>1 DEF IsMessage
    <3>3. QED
      BY <3>1, <3>2
  <2>2. QED
    BY <2>1
<1>5. \A i \in 1 .. n : IsMessage(i, n)' <=> i = s /\ fin /\ frames'[s].op = "text"
  <2>1. ASSUME NEW i \in 1 .. n, i < s PROVE ~IsMessage(i, n)'
    <3>1. s - 1 \in i .. n - 1 /\ frames'[s - 1].fin
      BY <1>1, <1>2, <2>1
    <3>2. QED
      BY <3>1 DEF IsMessage
  <2>2. ASSUME NEW i \in 1 .. n, i > s PROVE ~IsMessage(i, n)'
    <3>1. frames'[i].op = "cont"
      BY <1>1, <1>2, <2>2
    <3>2. QED
      BY <3>1 DEF IsMessage
  <2>3. IsMessage(s, n)' <=> fin /\ frames'[s].op = "text"
    <3>1. s <= n
      BY <1>1
    <3>2. QED
      BY <1>1, <1>2, <3>1 DEF IsMessage
  <2>4. \A i \in 1 .. n : i < s \/ i > s \/ i = s
    BY <1>1
  <2>5. QED
    BY <2>1, <2>2, <2>3, <2>4
<1>6. TextMessages' = TextMessages \union
        (IF fin /\ frames'[s].op = "text" THEN {FramesFrom(s, n)} ELSE {})
  <2>1. \A m : m \in TextMessages' <=> \E i, j \in 1 .. n : IsMessage(i, j)' /\ m = FramesFrom(i, j)
    <3>1. (\A m : m \in TextMessages <=>
             \E i, j \in 1 .. Len(frames) : IsMessage(i, j) /\ m = FramesFrom(i, j))'
      BY TextMessagesAre, PTL
    <3>2. QED
      BY <1>1, <3>1
  <2>2. \A m : m \in TextMessages <=> \E i, j \in 1 .. n - 1 : IsMessage(i, j) /\ m = FramesFrom(i, j)
    BY <1>0, <1>1, TextMessagesAre
  <2>3. \A i : i \in 1 .. n <=> i \in 1 .. n - 1 \/ i = n
    BY <1>1
  <2>4. s \in 1 .. n /\ n \in 1 .. n
    BY <1>1
  <2>5. ASSUME NEW m, m \in TextMessages'
        PROVE  m \in TextMessages \/ (fin /\ frames'[s].op = "text" /\ m = FramesFrom(s, n))
    <3>1. PICK i \in 1 .. n, j \in 1 .. n : IsMessage(i, j)' /\ m = FramesFrom(i, j)
      BY <2>1, <2>5
    <3>2. CASE j = n
      BY <1>5, <3>1, <3>2
    <3>3. CASE j \in 1 .. n - 1
      BY <1>4, <2>2, <3>1, <3>3
    <3>4. QED
      BY <2>3, <3>1, <3>2, <3>3
  <2>6. ASSUME NEW m, m \in TextMessages PROVE m \in TextMessages'
    <3>1. PICK i \in 1 .. n - 1, j \in 1 .. n - 1 : IsMessage(i, j) /\ m = FramesFrom(i, j)
      BY <2>2, <2>6
    <3>2. i \in 1 .. n /\ j \in 1 .. n /\ IsMessage(i, j)'
      BY <1>4, <2>3, <3>1
    <3>3. QED
      BY <2>1, <3>1, <3>2
  <2>7. ASSUME fin, frames'[s].op = "text" PROVE FramesFrom(s, n) \in TextMessages'
    <3>1. IsMessage(s, n)'
      BY <1>5, <2>4, <2>7
    <3>2. QED
      BY <2>1, <2>4, <3>1
  <2>8. QED
    BY <2>5, <2>6, <2>7
<1>7. FramesFrom(s, n) \in Seq(Nat) /\ FramesFrom(s, n)[1] = s
  BY <1>1 DEF FramesFrom
<1>8. \A i \in 1 .. Len(messages) : messages[i] \in Seq(Nat) /\ messages[i][1] \in Nat /\ messages[i][1] < s
  <2>1. ASSUME NEW i \in 1 .. Len(messages) PROVE messages[i][1] \in Nat /\ messages[i][1] < s
    <3>1. messages[i] \in TextMessages
      BY DEF FramesInv, FramesAsSent
    <3>2. PICK a \in 1 .. n - 1, b \in 1 .. n - 1 : IsMessage(a, b) /\ messages[i] = FramesFrom(a, b)
      BY <1>0, <1>1, <3>1, TextMessagesAre
    <3>3. a <= b /\ frames[b].fin
      BY <3>2 DEF IsMessage
    <3>4. b < s
      BY <1>1, <1>2, <3>3
    <3>5. FramesFrom(a, b)[1] = a
      BY <3>3 DEF FramesFrom
    <3>6. QED
      BY <1>1, <3>2, <3>3, <3>4, <3>5
  <2>2. \A i \in 1 .. Len(messages) : messages[i] \in Seq(Nat)
    BY DEF FramesInv
  <2>3. QED
    BY <2>1, <2>2
<1>9. /\ messages' \in Seq(Seq(Nat))
      /\ {messages'[i] : i \in 1..Len(messages')} = TextMessages'
      /\ \A i, j \in 1..Len(messages') : i < j => messages'[i][1] < messages'[j][1]
  <2> DEFINE e == FramesFrom(s, n)
  <2>1. /\ messages \in Seq(Seq(Nat)) /\ Len(messages) \in Nat
        /\ {messages[i] : i \in 1..Len(messages)} = TextMessages
        /\ \A i, j \in 1..Len(messages) : i < j => messages[i][1] < messages[j][1]
    BY DEF FramesInv, FramesAsSent
  <2>2. CASE fin /\ frames'[s].op = "text"
    <3>1. messages' = Append(messages, e)
      BY <1>3, <2>2
    <3>2. e \in Seq(Nat) /\ e[1] = s
      BY <1>7
    <3> HIDE DEF e
    <3>3. /\ messages' \in Seq(Seq(Nat)) /\ Len(messages') = Len(messages) + 1
          /\ \A i \in 1 .. Len(messages) : messages'[i] = messages[i]
          /\ messages'[Len(messages) + 1] = e
          /\ {messages'[i] : i \in 1 .. Len(messages')}
               = {messages[i] : i \in 1 .. Len(messages)} \union {e}
      BY <2>1, <3>1, <3>2, OneMoreHeld
    <3>4. TextMessages' = TextMessages \union {e}
      BY <1>6, <2>2 DEF e
    <3>5. ASSUME NEW i \in 1 .. Len(messages'), NEW j \in 1 .. Len(messages'), i < j
          PROVE  messages'[i][1] < messages'[j][1]
      <4> DEFINE l == Len(messages)
      <4>0. l \in Nat /\ i \in 1 .. l + 1 /\ j \in 1 .. l + 1
        BY <2>1, <3>3
      <4> HIDE DEF l
      <4>1. i \in 1 .. l /\ (j \in 1 .. l \/ j = l + 1)
        BY <3>5, <4>0
      <4> USE DEF l
      <4>2. QED
        BY <1>8, <2>1, <3>2, <3>3, <3>5, <4>1
    <3>6. QED
      BY <2>1, <3>3, <3>4, <3>5
  <2>3. CASE ~(fin /\ frames'[s].op = "text")
    <3>1. messages' = messages /\ TextMessages' = TextMessages
      BY <1>3, <1>6, <2>3
    <3>2. QED
      BY <2>1, <3>1
  <2>4. QED
    BY <2>2, <2>3
<1>10. FramesAsSent'
  <2>1. /\ {pongs[i] : i \in 1..Len(pongs)} = {i \in 1..Len(control) : control[i] = "ping"}
        /\ \A i, j \in 1..Len(pongs) : i < j => pongs[i] < pongs[j]
    BY DEF FramesInv, FramesAsSent
  <2>2. /\ {pongs'[i] : i \in 1..Len(pongs')} = {i \in 1..Len(control') : control'[i] = "ping"}
        /\ \A i, j \in 1..Len(pongs') : i < j => pongs'[i] < pongs'[j]
    BY <1>3, <2>1
  <2>3. QED
    BY <1>9, <2>2, Zenon DEF FramesAsSent
<1>11. ASSUME ~fin PROVE OpenFrom(s)'
  <2>1. parts' = FramesFrom(s, n)
    BY <1>3, <1>11
  <2>2. \A k \in s .. n : ~frames'[k].fin
    <3>1. \A k \in s .. n : k = n \/ k \in s .. n - 1
      BY <1>1
    <3>2. QED
      BY <1>1, <1>2, <1>11, <3>1
  <2>3. QED
    BY <1>1, <1>2, <2>1, <2>2 DEF OpenFrom, FramesFrom
<1>12. fin => ~Fragmented'
  BY <1>1 DEF Fragmented, Last
<1>13. QED
  BY <1>1, <1>3, <1>9, <1>10, <1>11, <1>12 DEF FramesInv

\* Whatever fragments and control frames a client sends, its text messages are dispatched
\* once, whole and in order, and its PINGs are answered in order (websocket.py 301-337).
THEOREM FramesHold == FramesSpec => []FramesAsSent
<1>1. FramesInv /\ [FramesNext]_frameVars => FramesInv'
  <2> SUFFICES ASSUME FramesInv, [FramesNext]_frameVars PROVE FramesInv'
    OBVIOUS
  <2>1. CASE UNCHANGED <<frames, control, parts, isText, messages, pongs>>
    <3>1. TextMessages' = TextMessages
      BY <2>1 DEF TextMessages, IsMessage, FramesFrom
    <3>2. FramesAsSent'
      BY <2>1, <3>1 DEF FramesInv, FramesAsSent
    <3>3. Fragmented' => \E s : OpenFrom(s)'
      BY <2>1 DEF FramesInv, Fragmented, OpenFrom, FramesFrom
    <3>4. QED
      BY <2>1, <3>2, <3>3 DEF FramesInv
  <2>2. QED
    BY <2>1, DataFrameStep, ControlFrameStep DEF FramesNext, EndFrame, frameVars
<1>2. FramesInv => FramesAsSent
  BY DEF FramesInv
<1>3. QED
  BY InitFrames, <1>1, <1>2, PTL DEF FramesSpec
=============================================================================
