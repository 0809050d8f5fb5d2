---------------------------- MODULE EventReceiver ----------------------------
(***************************************************************************)
(* The receiving half of events.py: guaranteed-ordered events from the     *)
(* server, numbered modulo EVENT_SEQ_COUNT, arrive in packets that may be  *)
(* lost and that the client may fail to decode and then NACKs, so that     *)
(* their events are sent again.  read_events must still dispatch every     *)
(* command once and in order.                                              *)
(*                                                                         *)
(* The packet layer is PacketChannel (server to client).  The server side, *)
(* external, is the engine as docs/event-system.md and the comments of     *)
(* read_events describe it: lost events are sent again with their own      *)
(* number, in order, and none is sent more than SERVER_EVENT_WINDOW past   *)
(* the oldest one it has no acknowledgement of.                            *)
(***************************************************************************)
EXTENDS PacketChannel, Sequences, FiniteSets

CONSTANTS
    EVENT_SEQ_COUNT,      \* 0x80: event numbers on the wire
    EVENT_SEQ_HALF,       \* 64: numbers this far on count as already seen
    SERVER_EVENT_WINDOW,  \* 126: the server's send window, in events
    Slots,                \* slots of the connection string table
    Texts, NoText,        \* strings the server sends; an empty slot
    Evictions,            \* may the server reuse a slot for another string?
    Overruns,             \* may a body end inside a command event?
    MaxEvents,            \* bound: events the server posts
    MaxPackets            \* bound: packets the server sends

ASSUME EventAssumption ==
    /\ MAX_UNACKED \in Nat \ {0}
    /\ EVENT_SEQ_HALF \in Nat \ {0} /\ EVENT_SEQ_COUNT = 2 * EVENT_SEQ_HALF
    /\ SERVER_EVENT_WINDOW \in Nat \ {0}
    /\ NoText \notin Texts
    /\ {Evictions, Overruns} \subseteq BOOLEAN
    /\ MaxEvents \in Nat /\ MaxPackets \in Nat

VARIABLES
    posted,      \* server: the events so far; event number n is posted[n + 1]
    rides,       \* server: the packet each of them was last sent in, 0 if it waits
    acked,       \* server: events it knows to be delivered and has freed
    cargo,       \* the events in each packet
    consumed,    \* client: events counted as consumed; _next_recv_event_seq is
                 \* its low bits
    recvTable,   \* client: recv_table, slot to text
    dispatched,  \* history: the commands handlers were called for, and as what
    cut,         \* history: the commands handlers were called for with a payload
                 \* that was cut off
    body         \* the body read_events is in, and what is left of it

eventVars == <<posted, rides, acked, cargo, consumed, recvTable, dispatched, cut, body>>
vars == <<chan, eventVars>>

Numbers == 0 .. Len(posted) - 1
Event(n) == posted[n + 1]

TypeOK ==
    /\ sent \in Nat /\ received \in 0 .. sent /\ judged \in 0 .. received
    /\ taken \subseteq 1 .. received /\ delivered \subseteq taken
    /\ posted \in Seq([kind : {"string", "command"}, slot : Slots, text : Texts])
    /\ acked \subseteq Numbers
    /\ rides \in [Numbers -> 0 .. sent]
    /\ cargo \in [1 .. sent -> SUBSET Numbers]
    /\ consumed \in Nat
    /\ recvTable \in [Slots -> Texts \union {NoText}]
    /\ dispatched \in Seq([event : Numbers, text : Texts \union {NoText}])
    /\ cut \subseteq Numbers
    /\ body \in [packet : 0 .. sent, left : SUBSET Numbers]

Idle == body.packet = 0

-----------------------------------------------------------------------------
(* The server (external) *)

\* The text the server's table holds for a slot: that of the last string event.
Meaning(slot, text) ==
    \E n \in Numbers :
        /\ Event(n).kind = "string" /\ Event(n).slot = slot /\ Event(n).text = text
        /\ \A k \in Numbers :
             Event(k).kind = "string" /\ Event(k).slot = slot => k <= n

Post ==
    /\ Len(posted) < MaxEvents
    /\ \E kind \in {"string", "command"}, slot \in Slots, text \in Texts :
         /\ kind = "command" => Meaning(slot, text)
         /\ kind = "string" => /\ ~Meaning(slot, text)
                               /\ Evictions \/ \A t \in Texts : ~Meaning(slot, t)
         /\ posted' = Append(posted, [kind |-> kind, slot |-> slot, text |-> text])
    /\ rides' = [n \in 0 .. Len(posted) |-> IF n \in Numbers THEN rides[n] ELSE 0]
    /\ UNCHANGED <<chan, acked, cargo, consumed, recvTable, dispatched, cut, body>>

Unacked == Numbers \ acked

\* Events that wait to be sent, or sent again, and that the window lets through.
Ready ==
    {n \in Unacked : rides[n] = 0 /\ \A u \in Unacked : n < u + SERVER_EVENT_WINDOW}

\* A packet with the first of the ready events, as many as fit.
ServerSends ==
    /\ sent < MaxPackets
    /\ SenderStep /\ sent' = sent + 1 /\ judged' = judged
    /\ \E last \in Ready :
         LET chosen == {n \in Ready : n <= last}
         IN  /\ cargo' = [i \in 1 .. sent + 1 |-> IF i <= sent THEN cargo[i] ELSE chosen]
             /\ rides' = [n \in Numbers |-> IF n \in chosen THEN sent + 1 ELSE rides[n]]
    /\ UNCHANGED <<posted, acked, consumed, recvTable, dispatched, cut, body>>

\* The verdicts arrive: events of delivered packets are freed, the others wait
\* again.  The client's acknowledgements never leave while it reads a body.
ServerNotified ==
    /\ Idle
    /\ SenderStep /\ sent' = sent /\ judged' > judged
    /\ acked' = acked \union {n \in Unacked : rides[n] \in delivered'}
    /\ rides' = [n \in Numbers |->
                   IF n \notin acked /\ rides[n] \in 1 .. judged' THEN 0 ELSE rides[n]]
    /\ UNCHANGED <<posted, cargo, consumed, recvTable, dispatched, cut, body>>

-----------------------------------------------------------------------------
(* The client: read_events *)

NoBody == [packet |-> 0, left |-> {}]

\* A packet arrives, maybe after some that were lost.
BeginBody ==
    /\ Idle
    /\ \E i \in received + 1 .. sent : body' = [packet |-> i, left |-> cargo[i]]
    /\ UNCHANGED <<chan, posted, rides, acked, cargo, consumed, recvTable, dispatched, cut>>

\* The next event in the body: events are packed in order.
NextInBody(n) == ~Idle /\ n \in body.left /\ \A k \in body.left : n <= k

\* Mutant: whatever comes is the expected event.
RelIgnored(n) == 0

\* Distance of event n from the expected one, as far as 7 bits tell.
Rel(n) == ((n % EVENT_SEQ_COUNT) - (consumed % EVENT_SEQ_COUNT)) % EVENT_SEQ_COUNT

\* Mutant: an event seen before counts as the expected one.
ExpectedOrSeen(n) == Rel(n) = 0 \/ Rel(n) >= EVENT_SEQ_HALF

Expected(n) == Rel(n) = 0

\* Mutant: a hole of one event is not noticed.
AheadByTwo(n) == 1 < Rel(n) /\ Rel(n) < EVENT_SEQ_HALF

Ahead(n) == 0 < Rel(n) /\ Rel(n) < EVENT_SEQ_HALF

\* The effect of an event's payload: a NetStringEvent maps its slot whether or
\* not it is dispatched, a command runs its handler only if dispatched.
Mapped(n) ==
    IF Event(n).kind = "string"
    THEN [recvTable EXCEPT ![Event(n).slot] = Event(n).text] ELSE recvTable
Handled(n) ==
    IF Event(n).kind = "command"
    THEN Append(dispatched, [event |-> n, text |-> recvTable[Event(n).slot]])
    ELSE dispatched

\* One turn of the loop: the expected event, or one seen before.
ReadEvent(n) ==
    /\ NextInBody(n) /\ ~Ahead(n)
    /\ recvTable' = Mapped(n)
    /\ dispatched' = IF Expected(n) THEN Handled(n) ELSE dispatched
    /\ consumed' = IF Expected(n) THEN consumed + 1 ELSE consumed
    /\ body' = [body EXCEPT !.left = @ \ {n}]
    /\ UNCHANGED <<chan, posted, rides, acked, cargo, cut>>

\* A whole body has been read, the ghost section too: the packet is taken.
AcceptBody ==
    /\ ~Idle /\ body.left = {}
    /\ Take(body.packet, TRUE)
    /\ body' = NoBody
    /\ UNCHANGED <<posted, rides, acked, cargo, consumed, recvTable, dispatched, cut>>

\* EventSequenceGapError: an event ahead of the expected one; NACK.
Gap(n) ==
    /\ NextInBody(n) /\ Ahead(n)
    /\ Take(body.packet, FALSE)
    /\ body' = NoBody
    /\ UNCHANGED <<posted, rides, acked, cargo, consumed, recvTable, dispatched, cut>>

\* The control header, an event or the ghost section does not decode; NACK.
DecodeFails ==
    /\ ~Idle
    /\ Take(body.packet, FALSE)
    /\ body' = NoBody
    /\ UNCHANGED <<posted, rides, acked, cargo, consumed, recvTable, dispatched, cut>>

\* Mutant: the number is consumed before the payload has been read.
OverrunConsumes(n) ==
    /\ Overruns /\ NextInBody(n) /\ ~Ahead(n)
    /\ Event(n).kind = "command"
    /\ cut' = IF Expected(n) THEN cut \union {n} ELSE cut
    /\ consumed' = IF Expected(n) THEN consumed + 1 ELSE consumed
    /\ Take(body.packet, FALSE)
    /\ body' = NoBody
    /\ UNCHANGED <<posted, rides, acked, cargo, recvTable, dispatched>>

\* The body ends inside the payload of a command: the handler runs with what
\* could be read, and bs.error is looked at only afterwards; NACK.
Overrun(n) ==
    /\ Overruns /\ NextInBody(n) /\ ~Ahead(n)
    /\ Event(n).kind = "command"
    /\ cut' = IF Expected(n) THEN cut \union {n} ELSE cut
    /\ Take(body.packet, FALSE)
    /\ body' = NoBody
    /\ UNCHANGED <<posted, rides, acked, cargo, consumed, recvTable, dispatched>>

Init ==
    /\ ChannelInit
    /\ posted = <<>> /\ rides = [n \in {} |-> 0] /\ acked = {}
    /\ cargo = [i \in {} |-> {}]
    /\ consumed = 0
    /\ recvTable = [s \in Slots |-> NoText]
    /\ dispatched = <<>> /\ cut = {}
    /\ body = NoBody

Next ==
    \/ Post \/ ServerSends \/ ServerNotified
    \/ BeginBody \/ AcceptBody \/ DecodeFails
    \/ \E n \in body.left : ReadEvent(n) \/ Gap(n) \/ Overrun(n)

Spec == Init /\ [][Next]_vars
-----------------------------------------------------------------------------
(* Properties *)

Commands == {n \in Numbers : Event(n).kind = "command"}

\* Exactly once and in order: when a handler runs for a command that was read
\* in full, handlers have run for all the commands before it and for no other
\* (the docs' promise that the NACK retry is "exactly-once").
InOrderOnce ==
    \A k \in 1 .. Len(dispatched) :
        {dispatched[j].event : j \in 1 .. k - 1}
            = {n \in Commands : n < dispatched[k].event}

\* A command that ran with a payload that was cut off is run again in full
\* before the server forgets it.
CutIsRedone ==
    \A n \in cut \intersect acked : \E k \in 1 .. Len(dispatched) : dispatched[k].event = n

\* An event the server has freed has been consumed: a gap packet or a NACKed
\* one is never acknowledged, or its events would be gone for good and every
\* later command discarded.
FreedMeansConsumed == \A n \in acked : n < consumed

\* A command runs under the verb the server meant, although string-table
\* slots are taught by events that are themselves re-sent.
RightVerb ==
    \A k \in 1 .. Len(dispatched) : dispatched[k].text = Event(dispatched[k].event).text
=============================================================================
