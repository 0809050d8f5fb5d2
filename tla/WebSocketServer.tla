--------------------------- MODULE WebSocketServer ---------------------------
(***************************************************************************)
(* websocket.py: one task per event broadcasts it to the clients there are *)
(* when it starts, writing to one after the other and waiting at each      *)
(* whose buffer is full.  Tasks that are ready run first in, first out.    *)
(***************************************************************************)
EXTENDS Naturals, Sequences

CONSTANTS Clients

VARIABLES
  clients,    \* _clients, in the order an iteration finds them
  peer,       \* each client's connection
  full,       \* clients whose write buffer is full
  waiters,    \* tasks waiting at each client, in order
  casts,      \* the broadcast of each event
  castReady,  \* tasks that are ready to run
  got,        \* what was written to each client
  slow,       \* history: clients whose buffer was full once
  server      \* up, closing (stop() waits), down

wsVars == <<clients, peer, full, waiters, casts, castReady, got, slow, server>>

WsInit(enabled) ==
  /\ clients = <<>> /\ peer = [c \in Clients |-> "away"] /\ full = {}
  /\ waiters = [c \in Clients |-> <<>>] /\ casts = <<>> /\ castReady = <<>>
  /\ got = [c \in Clients |-> <<>>] /\ slow = {}
  /\ server = IF enabled THEN "up" ELSE "down"

Dead == {c \in Clients : peer[c] \in {"lost", "gone"}}

Members(s) == {s[i] : i \in 1..Len(s)}

\* The clients without those that are gone, in the same order.
Without(gone) ==
  {s \in UNION {[1..n -> Clients] : n \in 0..Len(clients)} :
     /\ Members(s) = Members(clients) \ gone
     /\ \A i, j \in 1..Len(s) : i < j =>
          \E k, l \in 1..Len(clients) : k < l /\ s[i] = clients[k] /\ s[j] = clients[l]}

-----------------------------------------------------------------------------
(* send()                                                                  *)

\* The task is created; due: the clients that are there now.
Cast ==
  /\ casts' = Append(casts, [started |-> FALSE, done |-> FALSE, todo |-> <<>>, at |-> {},
                             due |-> Members(clients)])
  /\ castReady' = Append(castReady, Len(casts) + 1)
  /\ UNCHANGED <<clients, peer, full, waiters, got, slow, server>>

\* Those the running task has yet to write to: the snapshot, when it starts.
Todo(e) == IF casts[e].started THEN casts[e].todo ELSE clients

\* Task e writes to the first n of its clients.  A write to a connection that is
\* closing is dropped; one that failed costs the client its place.
Writes(e, n) ==
  LET reached == {Todo(e)[i] : i \in 1..n}
  IN /\ got' = [c \in Clients |-> IF c \in reached /\ peer[c] = "open"
                                  THEN Append(got[c], e) ELSE got[c]]
     /\ clients' \in Without((reached \cup casts[e].at) \cap Dead)
     /\ castReady' = Tail(castReady)
     /\ UNCHANGED <<peer, server>>

Unstalled(e, n) == \A i \in 1..n : Todo(e)[i] \notin full

\* Mutant: the first client that fails ends the broadcast.
CastEndsAtError ==
  /\ castReady # <<>>
  /\ LET e == Head(castReady)
     IN \E n \in 0..Len(Todo(e)) :
          /\ n = Len(Todo(e)) \/ (n > 0 /\ Todo(e)[n] \in Dead)
          /\ Unstalled(e, n) /\ Writes(e, n)
          /\ casts' = [casts EXCEPT ![e].started = TRUE, ![e].done = TRUE]
  /\ UNCHANGED <<full, waiters, slow>>

CastEnds ==
  /\ castReady # <<>>
  /\ LET e == Head(castReady)
     IN /\ Unstalled(e, Len(Todo(e))) /\ Writes(e, Len(Todo(e)))
        /\ casts' = [casts EXCEPT ![e].started = TRUE, ![e].done = TRUE]
  /\ UNCHANGED <<full, waiters, slow>>

\* Mutant: after the wait the task writes to the same client once more.
CastWaitsTwice ==
  /\ castReady # <<>>
  /\ LET e == Head(castReady)
     IN \E n \in 1..Len(Todo(e)) :
          LET c == Todo(e)[n]
          IN /\ c \in full \/ peer[c] = "open"
             /\ Unstalled(e, n - 1) /\ Writes(e, n)
             /\ casts' = [casts EXCEPT ![e].started = TRUE, ![e].at = {c},
                                       ![e].todo = SubSeq(Todo(e), n, Len(Todo(e)))]
             /\ waiters' = [waiters EXCEPT ![c] = Append(@, e)]
             /\ full' = full \cup {c} /\ slow' = slow \cup {c}

\* drain(): the buffer of the n-th client is full, or becomes so now.
CastWaits ==
  /\ castReady # <<>>
  /\ LET e == Head(castReady)
     IN \E n \in 1..Len(Todo(e)) :
          LET c == Todo(e)[n]
          IN /\ c \in full \/ peer[c] = "open"
             /\ Unstalled(e, n - 1) /\ Writes(e, n)
             /\ casts' = [casts EXCEPT ![e].started = TRUE, ![e].at = {c},
                                       ![e].todo = SubSeq(Todo(e), n + 1, Len(Todo(e)))]
             /\ waiters' = [waiters EXCEPT ![c] = Append(@, e)]
             /\ full' = full \cup {c} /\ slow' = slow \cup {c}

\* Whoever waits at c goes on, when its buffer has room or its connection is lost.
Wake(c) ==
  /\ full' = full \ {c}
  /\ castReady' = castReady \o waiters[c]
  /\ waiters' = [waiters EXCEPT ![c] = <<>>]

Drains(c) ==
  /\ c \in full
  /\ Wake(c)
  /\ UNCHANGED <<clients, peer, casts, got, slow, server>>

-----------------------------------------------------------------------------
(* _on_client                                                              *)

Opens(c) ==
  /\ server = "up" /\ peer[c] = "away"
  /\ peer' = [peer EXCEPT ![c] = "handshake"]
  /\ UNCHANGED <<clients, full, waiters, casts, castReady, got, slow, server>>

\* Where in the set a client comes depends on its hash.
Insert(c) ==
  \E i \in 0..Len(clients) :
    clients' = SubSeq(clients, 1, i) \o <<c>> \o SubSeq(clients, i + 1, Len(clients))

\* Once stop() was called the read loop ends before it begins.
Joins(c) ==
  /\ peer[c] = "handshake"
  /\ IF server = "up" THEN Insert(c) /\ peer' = [peer EXCEPT ![c] = "open"]
     ELSE peer' = [peer EXCEPT ![c] = "closing"] /\ UNCHANGED clients
  /\ UNCHANGED <<full, waiters, casts, castReady, got, slow, server>>

HandshakeEnds(c) ==
  /\ peer[c] = "handshake"
  /\ peer' = [peer EXCEPT ![c] = "gone"]
  /\ UNCHANGED <<clients, full, waiters, casts, castReady, got, slow, server>>

\* A CLOSE frame ends the read loop.
CloseFrame(c) ==
  /\ peer[c] = "open"
  /\ peer' = [peer EXCEPT ![c] = "closing"]
  /\ clients' \in Without({c})
  /\ UNCHANGED <<full, waiters, casts, castReady, got, slow, server>>

\* The connection breaks; one that is closing ends when its buffer is empty.
Lost(c) ==
  /\ peer[c] \in {"open", "closing"}
  /\ peer' = [peer EXCEPT ![c] = "lost"]
  /\ Wake(c)
  /\ UNCHANGED <<clients, casts, got, slow, server>>

ReadLoopEnds(c) ==
  /\ peer[c] = "lost"
  /\ peer' = [peer EXCEPT ![c] = "gone"]
  /\ clients' \in Without({c})
  /\ UNCHANGED <<full, waiters, casts, castReady, got, slow, server>>

-----------------------------------------------------------------------------
(* stop()                                                                  *)

WsStop ==
  /\ server = "up" /\ server' = "closing"
  /\ peer' = [c \in Clients |-> IF c \in Members(clients) /\ peer[c] = "open"
                                THEN "closing" ELSE peer[c]]
  /\ clients' = <<>>
  /\ UNCHANGED <<full, waiters, casts, castReady, got, slow>>

\* wait_closed() waits for every connection that was accepted (Python 3.12).
WsStopped ==
  /\ server = "closing" /\ server' = "down"
  /\ \A c \in Clients : peer[c] \in {"away", "lost", "gone"}
  /\ UNCHANGED <<clients, peer, full, waiters, casts, castReady, got, slow>>

WsLoop ==
  CastEnds \/ CastWaits \/ WsStopped \/ \E c \in Clients : ReadLoopEnds(c)

WsPeer(c) ==
  Opens(c) \/ Joins(c) \/ HandshakeEnds(c) \/ CloseFrame(c) \/ Lost(c) \/ Drains(c)

-----------------------------------------------------------------------------
\* Each event at most once, and in order unless another client's buffer was full.
WsInOrder ==
  \A c \in Clients :
    LET g == got[c]
    IN \A i, j \in 1..Len(g) :
         i < j => g[i] # g[j] /\ (slow \subseteq {c} => g[i] < g[j])

\* A broadcast that is over has reached every client that was there when the event
\* happened and still is.
WsReaches ==
  \A e \in 1..Len(casts), c \in Clients :
    casts[e].done /\ c \in casts[e].due /\ peer[c] = "open" => e \in Members(got[c])

WsOver == server = "down" /\ clients = <<>>
=============================================================================
