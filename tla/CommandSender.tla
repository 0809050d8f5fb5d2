---------------------------- MODULE CommandSender ----------------------------
(***************************************************************************)
(* The sending half of events.py: command_to_server queues a command, and  *)
(* before it the string event that teaches the server its verb when the    *)
(* verb has no slot in the send table; write_events packs what has to be   *)
(* sent, numbers it, and notify_event_delivered frees it or queues it      *)
(* again.                                                                  *)
(*                                                                         *)
(* The packet layer is PacketChannel (client to server).  The server,      *)
(* external, is the engine's receiver (docs/event-system.md 2.2): it       *)
(* recovers the number from its low bits, keeps events that are ahead, and *)
(* processes them in order.                                                *)
(***************************************************************************)
EXTENDS PacketChannel, SequencesExt

CONSTANTS
    EVENT_SEQ_COUNT,  \* 0x80: event numbers on the wire
    ENTRY_COUNT,      \* 32: slots of the string table
    Verbs, NoVerb,    \* verbs the client uses; an empty slot
    MaxSpan,          \* bound: events from the oldest outstanding one to the newest
    MaxCommands,      \* bound: commands issued
    MaxPackets        \* bound: packets the client sends

ASSUME CommandAssumption ==
    /\ MAX_UNACKED \in Nat \ {0} /\ EVENT_SEQ_COUNT \in Nat \ {0}
    /\ ENTRY_COUNT \in Nat \ {0} /\ NoVerb \notin Verbs
    /\ MaxSpan \in Nat /\ MaxCommands \in Nat /\ MaxPackets \in Nat

VARIABLES
    issued,         \* history: the verbs command_to_server was called with
    outQueue,       \* _out_queue: events waiting, or waiting for their verdict
    nextSendSeq,    \* _next_send_seq; its low bits are on the wire
    slotToStr,      \* send_table: the verb in each slot
    lru,            \* send_table: slots, the most recently used last
    cargo,          \* the events in each packet
    nextRecvSeq,    \* server: events it has processed
    waiting,        \* server: events it has received but not processed
    serverTable,    \* server: what it was taught
    executed        \* server, history: the commands it ran, as what

clientVars == <<issued, outQueue, nextSendSeq, slotToStr, lru, cargo>>
serverVars == <<nextRecvSeq, waiting, serverTable, executed>>
vars == <<chan, clientVars, serverVars>>

Slots == 0 .. ENTRY_COUNT - 1

\* seq is -1 until the event is first written, packet is 0 unless it is in an
\* unacknowledged packet (sent_in_packet >= 0).
PendingEvent ==
    [kind : {"string", "command"}, slot : Slots, verb : Verbs,
     seq : Nat \union {-1}, packet : 0 .. sent]
WireEvent == [kind : {"string", "command"}, slot : Slots, verb : Verbs, seq : Nat]

TypeOK ==
    /\ sent \in Nat /\ received \in 0 .. sent /\ judged \in 0 .. received
    /\ taken \subseteq 1 .. received /\ delivered \subseteq taken
    /\ issued \in Seq(Verbs)
    /\ outQueue \in Seq(PendingEvent)
    /\ nextSendSeq \in Nat
    /\ slotToStr \in [Slots -> Verbs \union {NoVerb}]
    /\ lru \in Seq(Slots)
    /\ cargo \in [1 .. sent -> SUBSET WireEvent]
    /\ nextRecvSeq \in Nat
    /\ waiting \subseteq WireEvent
    /\ serverTable \in [Slots -> Verbs \union {NoVerb}]
    /\ executed \in Seq(Verbs \union {NoVerb})

\* The subsequence of q at the indices in I.
At(q, I) ==
    [k \in 1 .. Cardinality(I) |->
       q[CHOOSE i \in I : Cardinality({j \in I : j < i}) = k - 1]]

-----------------------------------------------------------------------------
(* ConnectionStringTable, send side *)

Known(v) == \E s \in Slots : slotToStr[s] = v
Free == {s \in Slots : slotToStr[s] = NoVerb}

\* get_send_id: the slot of v, else the first free one, else the one that was
\* not used for longest.
SendId(v) ==
    IF Known(v) THEN CHOOSE s \in Slots : slotToStr[s] = v
    ELSE IF Free # {} THEN Min(Free)
    ELSE Head(lru)

Touch(s) == Append(At(lru, {i \in DOMAIN lru : lru[i] # s}), s)

-----------------------------------------------------------------------------
(* The queue and the packets *)

Pending(kind, slot, v) ==
    [kind |-> kind, slot |-> slot, verb |-> v, seq |-> -1, packet |-> 0]

\* Mutant: a verb that takes over a slot is not taught.
QueuedUntaught(v) ==
    IF Known(v) \/ Free = {} THEN <<Pending("command", SendId(v), v)>>
    ELSE <<Pending("string", SendId(v), v), Pending("command", SendId(v), v)>>

\* What command_to_server queues for a verb.
Queued(v) ==
    IF Known(v) THEN <<Pending("command", SendId(v), v)>>
    ELSE <<Pending("string", SendId(v), v), Pending("command", SendId(v), v)>>

HasPendingEvents(q) == \E i \in DOMAIN q : q[i].packet = 0

\* write_events numbers the events that have no number yet, in queue order ...
Unnumbered(q) == {i \in DOMAIN q : q[i].seq = -1}

\* Mutant: an event sent again gets a number again.
NumberedAnew(q) ==
    [i \in DOMAIN q |->
       IF q[i].packet = 0
       THEN [q[i] EXCEPT !.seq =
               nextSendSeq + Cardinality({j \in DOMAIN q : j < i /\ q[j].packet = 0})]
       ELSE q[i]]

Numbered(q) ==
    [i \in DOMAIN q |->
       IF q[i].seq = -1
       THEN [q[i] EXCEPT !.seq =
               nextSendSeq + Cardinality({j \in Unnumbered(q) : j < i})]
       ELSE q[i]]

\* ... and packs those that are not in an unacknowledged packet.
Written(q) ==
    [i \in DOMAIN q |-> IF q[i].packet = 0 THEN [Numbered(q)[i] EXCEPT !.packet = sent + 1]
                        ELSE q[i]]
Packed(q) ==
    {[kind |-> Numbered(q)[i].kind, slot |-> q[i].slot, verb |-> q[i].verb,
      seq |-> Numbered(q)[i].seq] : i \in {j \in DOMAIN q : q[j].packet = 0}}

\* send_data_packet, if the window has room and if it is wanted; q is the queue.
SendPacket(q, want) ==
    IF want /\ sent - judged' < MAX_UNACKED /\ sent < MaxPackets
    THEN /\ sent' = sent + 1
         /\ outQueue' = Written(q)
         /\ nextSendSeq' = nextSendSeq + Cardinality(Unnumbered(q))
         /\ cargo' = [i \in 1 .. sent + 1 |-> IF i <= sent THEN cargo[i] ELSE Packed(q)]
    ELSE /\ outQueue' = q
         /\ UNCHANGED <<sent, nextSendSeq, cargo>>

\* Mutant: events of lost packets are freed too.
SurvivorsOfNeither ==
    At(outQueue, {i \in DOMAIN outQueue : outQueue[i].packet \notin 1 .. judged'})

\* notify_event_delivered for the packets judged now: events of delivered ones
\* go, those of lost ones wait again under their number.
Survivors ==
    At(outQueue, {i \in DOMAIN outQueue : outQueue[i].packet \notin delivered'})
Kept ==
    [i \in DOMAIN Survivors |->
       IF Survivors[i].packet \in 1 .. judged'
       THEN [Survivors[i] EXCEPT !.packet = 0] ELSE Survivors[i]]

-----------------------------------------------------------------------------
(* The client *)

\* How far the numbers run from the oldest outstanding event.
Span(q) ==
    LET numbers == {Numbered(q)[i].seq : i \in DOMAIN q}
    IN  IF numbers = {} THEN 0
        ELSE Max(numbers) - Min(numbers) + 1

\* command_to_server: queue, and flush at once (_request_send).
CommandToServer(v) ==
    /\ Len(issued) < MaxCommands
    /\ Span(outQueue \o Queued(v)) <= MaxSpan
    /\ issued' = Append(issued, v)
    /\ slotToStr' = [slotToStr EXCEPT ![SendId(v)] = v]
    /\ lru' = Touch(SendId(v))
    /\ Judge(judged)
    /\ SendPacket(outQueue \o Queued(v), TRUE)
    /\ UNCHANGED <<received, taken, serverVars>>

\* _keepalive_loop: a packet every tick, events or not.
Tick ==
    /\ sent - judged < MAX_UNACKED /\ sent < MaxPackets
    /\ Judge(judged)
    /\ SendPacket(outQueue, TRUE)
    /\ UNCHANGED <<received, taken, issued, slotToStr, lru, serverVars>>

\* _process_raw_packet: verdicts, and after a body what is pending is flushed.
Notified(hasBody) ==
    /\ \E k \in judged + 1 .. received : Judge(k)
    /\ SendPacket(Kept, hasBody /\ HasPendingEvents(Kept))
    /\ UNCHANGED <<received, taken, issued, slotToStr, lru, serverVars>>

-----------------------------------------------------------------------------
(* The server (external) *)

\* The least number >= nextRecvSeq with the low bits of seq.
Recovered(seq) ==
    LET ahead == (seq % EVENT_SEQ_COUNT) - (nextRecvSeq % EVENT_SEQ_COUNT)
    IN  nextRecvSeq + (ahead % EVENT_SEQ_COUNT)

Runnable == {ev \in waiting : ev.seq = nextRecvSeq}

ServerReceives ==
    /\ Runnable = {}
    /\ \E i \in received + 1 .. sent :
         /\ Take(i, TRUE)
         /\ waiting' = waiting \union
                         {[ev EXCEPT !.seq = Recovered(ev.seq)] : ev \in cargo[i]}
    /\ UNCHANGED <<clientVars, nextRecvSeq, serverTable, executed>>

ServerProcesses ==
    /\ \E ev \in Runnable :
         /\ waiting' = waiting \ {ev}
         /\ serverTable' = IF ev.kind = "string"
                           THEN [serverTable EXCEPT ![ev.slot] = ev.verb] ELSE serverTable
         /\ executed' = IF ev.kind = "command"
                        THEN Append(executed, serverTable[ev.slot]) ELSE executed
    /\ nextRecvSeq' = nextRecvSeq + 1
    /\ UNCHANGED <<chan, clientVars>>

Init ==
    /\ ChannelInit
    /\ issued = <<>> /\ outQueue = <<>> /\ nextSendSeq = 0
    /\ slotToStr = [s \in Slots |-> NoVerb] /\ lru = <<>>
    /\ cargo = [i \in {} |-> {}]
    /\ nextRecvSeq = 0 /\ waiting = {}
    /\ serverTable = [s \in Slots |-> NoVerb] /\ executed = <<>>

Next ==
    \/ \E v \in Verbs : CommandToServer(v)
    \/ Tick
    \/ \E hasBody \in BOOLEAN : Notified(hasBody)
    \/ ServerReceives \/ ServerProcesses

Spec == Init /\ [][Next]_vars
-----------------------------------------------------------------------------
(* Properties *)

\* The server runs exactly the commands issued, in order, each under its own
\* verb, although slots are reused while earlier commands are still in flight
\* and lost packets are sent again behind newer ones.
ExecutedAsIssued == IsPrefix(executed, issued)

\* An event the client has dropped from its queue has reached the server.
FreedMeansReceived ==
    \A n \in 0 .. nextSendSeq - 1 :
        \/ \E i \in DOMAIN outQueue : outQueue[i].seq = n
        \/ n < nextRecvSeq
        \/ \E ev \in waiting : ev.seq = n

\* When nothing is outstanding both ends hold the same string table.
TablesAgree ==
    outQueue = <<>> /\ waiting = {} => serverTable = slotToStr
=============================================================================
