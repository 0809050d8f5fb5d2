------------------------------ MODULE GhostTable ------------------------------
(***************************************************************************)
(* The ghost table of phases.py: which ghosts exist, as the client sees    *)
(* it.  A class is on the wire only when a ghost is created, so the client *)
(* has to know of every update whether it is a creation, and nothing on    *)
(* the wire tells.  The table changes in two ways: events of the           *)
(* ghost-always burst scope ids at once, and the ghost section is staged   *)
(* and committed when all of it has been read.                             *)
(*                                                                         *)
(* The packet layer is PacketChannel (server to client).  The server,      *)
(* external, is the engine as docs/desync-recovery.md and the comments of  *)
(* _read_ghost_section describe it.  Events are those of the burst only:   *)
(* number 0 is GhostAlwaysStarting, number i scopes object i.  Their       *)
(* numbers do not wrap here (EventReceiver is about that), and the event   *)
(* of an object deleted meanwhile is sent without a class, which scopes    *)
(* nothing.                                                                *)
(***************************************************************************)
EXTENDS PacketChannel, FiniteSets

CONSTANTS
    IdCount,           \* ghost ids: 1 .. IdCount
    BurstSize,         \* the ghost-always objects have the first ids
    Classes, NoClass,  \* object classes; an id that is not in the table
    IdleEarly,         \* may the burst fall silent before it is complete?
    MaxScopes,         \* bound: objects the server scopes after the burst
    MaxPackets         \* bound: packets the server sends

ASSUME GhostAssumption ==
    /\ MAX_UNACKED \in Nat \ {0}
    /\ IdCount \in Nat /\ BurstSize \in 0 .. IdCount
    /\ NoClass \notin Classes /\ IdleEarly \in BOOLEAN
    /\ MaxScopes \in Nat /\ MaxPackets \in Nat

Ids == 1 .. IdCount
Events == 0 .. BurstSize

VARIABLES
    record,     \* server: GhostInfo of each id
    waiting,    \* server: burst events to be sent, or sent again
    rides,      \* server: the packet of each burst event in flight, or 0
    existing,   \* server: burst objects that have not been deleted
    scopes,     \* server: objects scoped after the burst
    normal,     \* server: has ReadyForNormalGhosts arrived?
    cargo,      \* what is in each packet
    consumed,   \* client: events consumed
    classes,    \* client: _ghost_classes
    count,      \* client: has _ghost_always_count been increased?
    ready,      \* client: the packet after which ReadyForNormalGhosts went out,
                \* 0 before (_ready_for_normal_sent)
    misread     \* history: has an update been taken for what it is not?

serverVars == <<record, waiting, rides, existing, scopes, normal, cargo>>
clientVars == <<consumed, classes, count, ready, misread>>
vars == <<chan, serverVars, clientVars>>

\* burst: scoped by an event; new: NotYetGhosted; ghosting: its creation is in
\* flight; kill: to be removed; killing: its removal is in flight.
GhostState == {"free", "burst", "new", "ghosting", "live", "kill", "killing"}
GhostInfo == [st : GhostState, class : Classes \union {NoClass}, packet : Nat]

\* What the server writes about an id: its class only when it creates it.
Operation == {"none", "create", "update", "remove"}
Cargo == [control : Ids \union {0}, events : SUBSET Events, scoped : SUBSET Events,
          ops : [Ids -> Operation], class : [Ids -> Classes \union {NoClass}]]

TypeOK ==
    /\ sent \in Nat /\ received \in 0 .. sent /\ judged \in 0 .. received
    /\ taken \subseteq 1 .. received /\ delivered \subseteq taken
    /\ record \in [Ids -> GhostInfo]
    /\ waiting \subseteq Events /\ rides \in [Events -> Nat]
    /\ existing \subseteq Ids /\ scopes \in Nat /\ normal \in BOOLEAN
    /\ cargo \in [1 .. sent -> Cargo]
    /\ consumed \in Nat
    /\ classes \in [Ids -> Classes \union {NoClass}]
    /\ count \in BOOLEAN /\ ready \in Nat /\ misread \in BOOLEAN

-----------------------------------------------------------------------------
(* The server (external) *)

Free == [st |-> "free", class |-> NoClass, packet |-> 0]

\* An object comes into scope and takes a free id ...
Scope(id) ==
    /\ normal /\ scopes < MaxScopes /\ record[id].st = "free"
    /\ \E c \in Classes :
         record' = [record EXCEPT ![id] = [st |-> "new", class |-> c, packet |-> 0]]
    /\ scopes' = scopes + 1
    /\ UNCHANGED <<chan, waiting, rides, existing, normal, cargo, clientVars>>

\* ... and out of it, or is deleted.
Unscope(id) ==
    /\ record[id].st \in {"new", "live"}
    /\ record' = [record EXCEPT ![id] = IF @.st = "new" THEN Free
                                        ELSE [@ EXCEPT !.st = "kill"]]
    /\ existing' = existing \ {id}
    /\ UNCHANGED <<chan, waiting, rides, scopes, normal, cargo, clientVars>>

OperationOn(info) ==
    CASE info.st = "new" -> "create"
      [] info.st = "live" -> "update"
      [] info.st = "kill" -> "remove"
      [] OTHER -> "none"

\* An id whose creation or removal is in flight is left alone.
Writable == {id \in Ids : OperationOn(record[id]) # "none"}
Live == {id \in Ids : record[id].st = "live"}

\* A packet: the control object, if its creation has been acknowledged, the
\* first of the waiting events, as many as fit but one at least, and some ghosts.
ServerSends ==
    /\ sent < MaxPackets
    /\ SenderStep /\ sent' = sent + 1 /\ judged' = judged
    /\ \E control \in Live \union {0}, last \in Events,
          some \in SUBSET (IF normal THEN Writable ELSE {}) :
         LET events == {e \in waiting : e <= last}
         IN  /\ events = {} => waiting = {}
             /\ events # {} \/ some # {}
             /\ cargo' = [i \in 1 .. sent + 1 |->
                  IF i <= sent THEN cargo[i]
                  ELSE [control |-> control, events |-> events,
                        scoped |-> events \intersect existing,
                        ops |-> [id \in Ids |-> IF id \in some
                                   THEN OperationOn(record[id]) ELSE "none"],
                        class |-> [id \in Ids |-> record[id].class]]]
             /\ waiting' = waiting \ events
             /\ rides' = [e \in Events |-> IF e \in events THEN sent + 1 ELSE rides[e]]
             /\ record' = [id \in Ids |->
                  IF id \in some /\ record[id].st = "new"
                  THEN [record[id] EXCEPT !.st = "ghosting", !.packet = sent + 1]
                  ELSE IF id \in some /\ record[id].st = "kill"
                  THEN [record[id] EXCEPT !.st = "killing", !.packet = sent + 1]
                  ELSE record[id]]
    /\ UNCHANGED <<existing, scopes, normal, clientVars>>

\* packetReceived and packetDropped: a lost creation or removal is done again.
AfterVerdict(info) ==
    IF info.packet \notin 1 .. judged' THEN info
    ELSE CASE info.st = "ghosting" /\ info.packet \in delivered' ->
                [info EXCEPT !.st = "live", !.packet = 0]
           [] info.st = "ghosting" /\ info.packet \notin delivered' ->
                [info EXCEPT !.st = "new", !.packet = 0]
           [] info.st = "killing" /\ info.packet \in delivered' -> Free
           [] info.st = "killing" /\ info.packet \notin delivered' ->
                [info EXCEPT !.st = "kill", !.packet = 0]

ServerNotified ==
    /\ SenderStep /\ sent' = sent /\ judged' > judged
    /\ record' = [id \in Ids |-> AfterVerdict(record[id])]
    /\ waiting' = waiting \union
         {e \in Events : rides[e] \in 1 .. judged' /\ rides[e] \notin delivered'}
    /\ rides' = [e \in Events |-> IF rides[e] \in 1 .. judged' THEN 0 ELSE rides[e]]
    /\ UNCHANGED <<existing, scopes, normal, cargo, clientVars>>

\* ReadyForNormalGhosts arrives, with or after the verdicts of its packet: the
\* server takes the objects of the burst to be there.
HearReady ==
    /\ ready # 0 /\ judged >= ready /\ ~normal
    /\ normal' = TRUE
    /\ record' = [id \in Ids |-> IF record[id].st = "burst"
                                 THEN [record[id] EXCEPT !.st = "live"] ELSE record[id]]
    /\ UNCHANGED <<chan, waiting, rides, existing, scopes, cargo, clientVars>>

-----------------------------------------------------------------------------
(* The client: read_packet_body *)

\* Events of the packet up to e leave no gap behind what was consumed.
NoGap(i, e) == \A k \in consumed .. e : k \in cargo[i].events

\* The table after the events of a packet that come before e: a scoping event
\* sets its class, whether it is new or not.
Scoped(i, e) ==
    [id \in Ids |-> IF id < e /\ id \in cargo[i].scoped THEN cargo[i].class[id]
                    ELSE classes[id]]
ConsumedBefore(i, e) ==
    Cardinality({k \in consumed .. e - 1 : k \in cargo[i].events}) + consumed

\* The idle check at the end of _read_body, whether the body decoded or not.
Ready(i) ==
    ready' \in IF ready = 0 /\ consumed' > 0 /\ count'
                    /\ (IdleEarly \/ consumed' = BurstSize + 1)
               THEN {0, i} ELSE {ready}

\* The body fails in the control header, or in front of or within event e: at a
\* gap, or because it does not decode.  An object event scopes its id before
\* its payload is read.
FailInEvents(i, e) ==
    /\ i \in received + 1 .. sent
    /\ e \in cargo[i].events
    /\ \A k \in cargo[i].events : k < e => NoGap(i, k)
    /\ \E reached \in {e} \union (IF NoGap(i, e) THEN {e + 1} ELSE {}) :
         /\ classes' = Scoped(i, reached)
         /\ count' = (count \/ \E k \in cargo[i].scoped : k < reached)
    /\ consumed' = ConsumedBefore(i, e)
    /\ Take(i, FALSE)
    /\ Ready(i)
    /\ UNCHANGED <<misread, serverVars>>

\* All events of the packet have been read.
EventsRead(i) == \A e \in cargo[i].events : NoGap(i, e)
AfterEvents(i) ==
    /\ consumed' = ConsumedBefore(i, BurstSize + 1)
    /\ count' = (count \/ cargo[i].scoped # {})

\* What the client takes the updates of a packet for.
Understood(i) ==
    /\ cargo[i].control # 0 => classes[cargo[i].control] # NoClass
    /\ \A id \in Ids :
         /\ cargo[i].ops[id] = "create" => Scoped(i, BurstSize + 1)[id] = NoClass
         /\ cargo[i].ops[id] = "update" => Scoped(i, BurstSize + 1)[id] # NoClass

\* staged, over the table after the events.
Staged(i, table, id) ==
    CASE cargo[i].ops[id] = "create" -> cargo[i].class[id]
      [] cargo[i].ops[id] = "remove" -> NoClass
      [] OTHER -> table[id]

\* Mutant: creations are recorded as they are read.
FailEagerly(i) ==
    /\ i \in received + 1 .. sent
    /\ EventsRead(i) /\ AfterEvents(i)
    /\ classes' = [id \in Ids |-> Staged(i, Scoped(i, BurstSize + 1), id)]
    /\ Take(i, FALSE)
    /\ Ready(i)
    /\ misread' = (misread \/ ~Understood(i))
    /\ UNCHANGED serverVars

\* The ghost section fails somewhere: nothing of it is kept.
FailInGhosts(i) ==
    /\ i \in received + 1 .. sent
    /\ EventsRead(i) /\ AfterEvents(i)
    /\ classes' = Scoped(i, BurstSize + 1)
    /\ Take(i, FALSE)
    /\ Ready(i)
    /\ misread' = (misread \/ ~Understood(i))
    /\ UNCHANGED serverVars

\* The whole body decodes: the section is committed.  (What comes of a body that
\* was misread is not modelled further.)
Commit(i) ==
    /\ i \in received + 1 .. sent
    /\ EventsRead(i) /\ AfterEvents(i) /\ Understood(i)
    /\ classes' = [id \in Ids |-> Staged(i, Scoped(i, BurstSize + 1), id)]
    /\ Take(i, TRUE)
    /\ Ready(i)
    /\ UNCHANGED <<misread, serverVars>>

Init ==
    /\ ChannelInit
    /\ record \in [Ids -> {Free} \union [st : {"burst"}, class : Classes, packet : {0}]]
    /\ \A id \in Ids : record[id].st = "burst" <=> id <= BurstSize
    /\ waiting = Events /\ rides = [e \in Events |-> 0]
    /\ existing = 1 .. BurstSize /\ scopes = 0 /\ normal = FALSE
    /\ cargo = [i \in {} |-> <<>>]
    /\ consumed = 0 /\ classes = [id \in Ids |-> NoClass]
    /\ count = FALSE /\ ready = 0 /\ misread = FALSE

Next ==
    \/ \E id \in Ids : Scope(id) \/ Unscope(id)
    \/ ServerSends \/ ServerNotified \/ HearReady
    \/ \E i \in received + 1 .. sent :
         \/ \E e \in Events : FailInEvents(i, e)
         \/ FailInGhosts(i)
         \/ Commit(i)

Spec == Init /\ [][Next]_vars
-----------------------------------------------------------------------------
(* Properties *)

\* The client never takes a creation for an update or an update for a
\* creation, nor meets a control object of unknown class: the lockstep
\* docs/desync-recovery.md promises of staging and NACKs.
NeverMisread == ~misread

\* Each id is in the client's table exactly when, and with the class with
\* which, the server must think so given what it still has to hear.
ViewsAgree ==
    \A id \in Ids :
        LET info == record[id]
            there == info.class   gone == NoClass
        IN  CASE info.st = "burst" -> consumed > id => classes[id] = there
              [] info.st \in {"live", "kill"} -> classes[id] = there
              [] info.st \in {"free", "new"} -> classes[id] = gone
              [] info.st = "ghosting" ->
                   classes[id] = IF info.packet \in taken THEN there ELSE gone
              [] info.st = "killing" ->
                   classes[id] = IF info.packet \in taken THEN gone ELSE there
=============================================================================
