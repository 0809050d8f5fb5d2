------------------------------ MODULE Handshake ------------------------------
(***************************************************************************)
(* The out-of-band connection protocol of netconn.py: connect() with its   *)
(* retransmissions, the receive pump, the keep-alive task and _shutdown,   *)
(* all of them asyncio tasks on one loop.  A task runs until it awaits, so *)
(* an action is what happens between two awaits.  The coroutine of         *)
(* connect() sees the connection state only when it polls it, every 20 ms; *)
(* the pump may have changed it several times by then.  When connect()     *)
(* returns False its caller, main._run, tears the attempt down at once,    *)
(* with no await in between.                                               *)
(*                                                                         *)
(* The server (external; docs/handshake.md 2) answers a ChallengeRequest   *)
(* without keeping state, and accepts or rejects a ConnectRequest.         *)
(***************************************************************************)
EXTENDS Integers, SequencesExt

CONSTANTS
    CHALLENGE_RETRY_COUNT,  \* 4
    CONNECT_RETRY_COUNT,    \* 4
    Reorders,               \* may the network change the order of datagrams?
    MaxQueue                \* bound: datagrams in flight each way

ASSUME HandshakeAssumption ==
    /\ CHALLENGE_RETRY_COUNT \in Nat \ {0} /\ CONNECT_RETRY_COUNT \in Nat \ {0}
    /\ Reorders \in BOOLEAN /\ MaxQueue \in Nat

VARIABLES
    state,      \* ConnState
    digest,     \* has the address digest arrived?
    attempt,    \* where the coroutine of connect() is
    tries,      \* requests sent in this phase
    pump,       \* is _recv_pump running?
    keepalive,  \* is _keepalive_loop running?
    shutdowns,  \* the _shutdown calls under way: their state argument and place
    done,       \* _done_event
    open,       \* is the socket open?
    toServer, toClient,  \* datagrams in flight
    server,     \* does the server have a connection for this attempt?
    accepted    \* history: has the server ever accepted it?

client == <<state, digest, attempt, tries, pump, keepalive, shutdowns, done, open>>
vars == <<client, toServer, toClient, server, accepted>>

Awaiting == {"awaiting_challenge_response", "awaiting_connect_response"}
Terminal == {"disconnected", "rejected", "timed_out"}
ConnState == Awaiting \union Terminal \union {"connected"}
Shutdowns == [to : Terminal, at : {"keepalive", "pump", "end"}]

TypeOK ==
    /\ state \in ConnState
    /\ attempt \in {"none", "challenge", "connect", "ok", "failed"}
    /\ tries \in 0 .. CHALLENGE_RETRY_COUNT \union 0 .. CONNECT_RETRY_COUNT
    /\ shutdowns \subseteq Shutdowns
    /\ {digest, pump, keepalive, done, open, server, accepted} \subseteq BOOLEAN
    /\ toServer \in Seq({"ChallengeRequest", "ConnectRequest", "Disconnect"})
    /\ toClient \in Seq({"ChallengeResponse", "ConnectAccept", "ConnectReject",
                         "Disconnect"})

-----------------------------------------------------------------------------
(* The network: datagrams may be lost, and overtake each other if Reorders. *)

Put(q, m) == IF Len(q) < MaxQueue THEN {q, Append(q, m)} ELSE {q}
Arrivals(q) == IF Reorders THEN DOMAIN q ELSE DOMAIN q \intersect {1}

-----------------------------------------------------------------------------
(* connect() and _run_handshake *)

Connect ==
    /\ attempt = "none"
    /\ attempt' = "challenge" /\ state' = "awaiting_challenge_response"
    /\ tries' = 1 /\ pump' = TRUE
    /\ toServer' \in Put(toServer, "ChallengeRequest")
    /\ UNCHANGED <<digest, keepalive, shutdowns, done, open, toClient, server, accepted>>

\* disconnect(): the datagram goes out only if the server has answered so far.
SendDisconnect ==
    toServer' \in IF open /\ digest THEN Put(toServer, "Disconnect") ELSE {toServer}

\* connect() returns False and the caller disconnects: no keep-alive task runs
\* yet, so _shutdown cancels the pump before its first await.
Fail ==
    /\ attempt' = "failed" /\ pump' = FALSE
    /\ shutdowns' = shutdowns \union {[to |-> "disconnected", at |-> "end"]}
    /\ SendDisconnect

TimeOut == Fail /\ state' = "timed_out" /\ done' = TRUE /\ UNCHANGED tries

\* A request on a closed socket raises, and connect() returns False.
Abandon == Fail /\ UNCHANGED <<state, done, tries>>

\* Mutant: the requests are not counted.
RetryChallengeUncounted ==
    /\ attempt = "challenge" /\ tries < CHALLENGE_RETRY_COUNT
    /\ open
    /\ toServer' \in Put(toServer, "ChallengeRequest")
    /\ UNCHANGED <<state, attempt, tries, pump, shutdowns, done>>
    /\ UNCHANGED <<digest, keepalive, open, toClient, server, accepted>>

\* The 2.5 s of one ChallengeRequest are over: the next one.
RetryChallenge ==
    /\ attempt = "challenge" /\ tries < CHALLENGE_RETRY_COUNT
    /\ \/ /\ open
          /\ tries' = tries + 1
          /\ toServer' \in Put(toServer, "ChallengeRequest")
          /\ UNCHANGED <<state, attempt, pump, shutdowns, done>>
       \/ ~open /\ Abandon
    /\ UNCHANGED <<digest, keepalive, open, toClient, server, accepted>>

\* The challenge phase ends: the state has moved on, or time is up.
EndChallenge ==
    /\ attempt = "challenge"
    /\ state # "awaiting_challenge_response" \/ tries = CHALLENGE_RETRY_COUNT
    /\ \/ ~digest /\ TimeOut
       \/ /\ digest /\ state \in {"connected", "rejected"}
          /\ attempt' = "connect" /\ tries' = CONNECT_RETRY_COUNT
          /\ UNCHANGED <<state, pump, shutdowns, done, toServer>>
       \/ digest /\ state \notin {"connected", "rejected"} /\ ~open /\ Abandon
       \/ /\ digest /\ state \notin {"connected", "rejected"} /\ open
          /\ attempt' = "connect" /\ tries' = 1
          /\ toServer' \in Put(toServer, "ConnectRequest")
          /\ UNCHANGED <<state, pump, shutdowns, done>>
    /\ UNCHANGED <<digest, keepalive, open, toClient, server, accepted>>

RetryConnect ==
    /\ attempt = "connect" /\ tries < CONNECT_RETRY_COUNT
    /\ state \notin {"connected", "rejected"}
    /\ \/ /\ open
          /\ tries' = tries + 1
          /\ toServer' \in Put(toServer, "ConnectRequest")
          /\ UNCHANGED <<state, attempt, pump, shutdowns, done>>
       \/ ~open /\ Abandon
    /\ UNCHANGED <<digest, keepalive, open, toClient, server, accepted>>

\* Mutant: what is not a rejection counts as an acceptance.
EndConnectUnlessRejected ==
    /\ attempt = "connect"
    /\ state # "awaiting_connect_response" \/ tries = CONNECT_RETRY_COUNT
    /\ \/ /\ state # "rejected"
          /\ attempt' = "ok" /\ keepalive' = TRUE
          /\ UNCHANGED <<state, tries, pump, shutdowns, done, toServer>>
       \/ /\ state = "rejected"
          /\ Fail /\ done' = TRUE
          /\ UNCHANGED <<state, tries, keepalive>>
    /\ UNCHANGED <<digest, open, toClient, server, accepted>>

\* The answer has come, or time is up.
EndConnect ==
    /\ attempt = "connect"
    /\ state # "awaiting_connect_response" \/ tries = CONNECT_RETRY_COUNT
    /\ \/ /\ state = "connected"
          /\ attempt' = "ok" /\ keepalive' = TRUE
          /\ UNCHANGED <<state, tries, pump, shutdowns, done, toServer>>
       \/ /\ state = "rejected"
          /\ Fail /\ done' = TRUE
          /\ UNCHANGED <<state, tries, keepalive>>
       \/ state \notin {"connected", "rejected"} /\ TimeOut /\ UNCHANGED keepalive
    /\ UNCHANGED <<digest, open, toClient, server, accepted>>

-----------------------------------------------------------------------------
(* _recv_pump and _handle_oob *)

\* No packet type is checked against the state it arrives in.
Handle(m) ==
    CASE m = "ChallengeResponse" ->
           /\ digest' = TRUE /\ state' = "awaiting_connect_response"
           /\ UNCHANGED shutdowns
      [] m = "ConnectAccept" -> state' = "connected" /\ UNCHANGED <<digest, shutdowns>>
      [] m = "ConnectReject" -> state' = "rejected" /\ UNCHANGED <<digest, shutdowns>>
      [] m = "Disconnect" ->
           /\ shutdowns' = shutdowns \union {[to |-> "disconnected", at |-> "keepalive"]}
           /\ UNCHANGED <<digest, state>>

Receive ==
    /\ pump
    /\ \E i \in Arrivals(toClient) :
         /\ toClient' = RemoveAt(toClient, i)
         /\ Handle(toClient[i])
    /\ UNCHANGED <<attempt, tries, pump, keepalive, done, open, toServer, server, accepted>>

-----------------------------------------------------------------------------
(* _keepalive_loop, _shutdown and disconnect *)

\* The loop ends by itself once the state is not connected any more.
KeepaliveEnds ==
    /\ keepalive /\ state # "connected"
    /\ keepalive' = FALSE
    /\ UNCHANGED <<state, digest, attempt, tries, pump, shutdowns, done, open,
                   toServer, toClient, server, accepted>>

\* The server has been silent too long; the loop itself runs _shutdown, whose
\* cancellation of the loop it swallows.
ServerSilent ==
    /\ keepalive /\ state = "connected"
    /\ keepalive' = FALSE
    /\ shutdowns' = shutdowns \union {[to |-> "timed_out", at |-> "pump"]}
    /\ UNCHANGED <<state, digest, attempt, tries, pump, done, open,
                   toServer, toClient, server, accepted>>

\* disconnect(), from main, a bridge or the desync escalation.  Two calls at the
\* same place of _shutdown are one: they go on alike.
Disconnect ==
    /\ attempt # "none"
    /\ SendDisconnect
    /\ shutdowns' = shutdowns \union {[to |-> "disconnected", at |-> "keepalive"]}
    /\ UNCHANGED <<state, digest, attempt, tries, pump, keepalive, done, open,
                   toClient, server, accepted>>

\* _shutdown awaits the keep-alive task, then the pump, if they run.
StopKeepalive(s) ==
    /\ s.at = "keepalive"
    /\ keepalive' = FALSE
    /\ shutdowns' = (shutdowns \ {s}) \union {[s EXCEPT !.at = "pump"]}
    /\ UNCHANGED <<state, digest, attempt, tries, pump, done, open,
                   toServer, toClient, server, accepted>>

\* Mutant: the pump is left running.
StopPumpNot(s) ==
    /\ s.at = "pump" \/ (s.at = "keepalive" /\ ~keepalive)
    /\ shutdowns' = (shutdowns \ {s}) \union {[s EXCEPT !.at = "end"]}
    /\ UNCHANGED <<state, digest, attempt, tries, pump, keepalive, done, open,
                   toServer, toClient, server, accepted>>

StopPump(s) ==
    /\ s.at = "pump" \/ (s.at = "keepalive" /\ ~keepalive)
    /\ pump' = FALSE
    /\ shutdowns' = (shutdowns \ {s}) \union {[s EXCEPT !.at = "end"]}
    /\ UNCHANGED <<state, digest, attempt, tries, keepalive, done, open,
                   toServer, toClient, server, accepted>>

\* The new state and the events; client.disconnect then closes the socket.
FinishShutdown(s) ==
    /\ s.at = "end"
    /\ state' = s.to /\ done' = TRUE
    /\ open' \in {open, FALSE}
    /\ shutdowns' = shutdowns \ {s}
    /\ UNCHANGED <<digest, attempt, tries, pump, keepalive, toServer, toClient,
                   server, accepted>>

Shutdown(s) == StopKeepalive(s) \/ StopPump(s) \/ FinishShutdown(s)

-----------------------------------------------------------------------------
(* The server (external) *)

ServerAnswers ==
    /\ \E i \in Arrivals(toServer) :
         /\ toServer' = RemoveAt(toServer, i)
         /\ \/ /\ toServer[i] = "ChallengeRequest"
               /\ toClient' \in Put(toClient, "ChallengeResponse")
               /\ UNCHANGED <<server, accepted>>
            \/ /\ toServer[i] = "ConnectRequest"
               /\ server' = TRUE /\ accepted' = TRUE
               /\ toClient' \in Put(toClient, "ConnectAccept")
            \/ /\ toServer[i] = "ConnectRequest" /\ ~accepted
               /\ toClient' \in Put(toClient, "ConnectReject")
               /\ UNCHANGED <<server, accepted>>
            \/ /\ toServer[i] = "Disconnect"
               /\ server' = FALSE
               /\ UNCHANGED <<toClient, accepted>>
    /\ UNCHANGED client

ServerDrops ==
    /\ server
    /\ server' = FALSE
    /\ toClient' \in Put(toClient, "Disconnect")
    /\ UNCHANGED <<client, toServer, accepted>>

Init ==
    /\ state = "disconnected" /\ digest = FALSE
    /\ attempt = "none" /\ tries = 0
    /\ pump = FALSE /\ keepalive = FALSE /\ shutdowns = {}
    /\ done = FALSE /\ open = TRUE
    /\ toServer = <<>> /\ toClient = <<>>
    /\ server = FALSE /\ accepted = FALSE

Next ==
    \/ Connect \/ RetryChallenge \/ EndChallenge \/ RetryConnect \/ EndConnect
    \/ Receive \/ KeepaliveEnds \/ ServerSilent \/ Disconnect
    \/ \E s \in shutdowns : Shutdown(s)
    \/ ServerAnswers \/ ServerDrops

\* The loop runs every task that can run; timers expire.  Nothing is assumed of
\* the network and the server.
Fairness ==
    /\ WF_vars(RetryChallenge) /\ WF_vars(EndChallenge)
    /\ WF_vars(RetryConnect) /\ WF_vars(EndConnect)
    /\ WF_vars(KeepaliveEnds)
    /\ \A s \in Shutdowns : WF_vars(s \in shutdowns /\ Shutdown(s))

Spec == Init /\ [][Next]_vars /\ Fairness
-----------------------------------------------------------------------------
(* Properties *)

\* connect() returns True only if the server has accepted this attempt.
TrueMeansAccepted == attempt = "ok" => accepted

\* connect() always returns, whatever is lost and whoever tears the
\* connection down meanwhile.
ConnectReturns == attempt \in {"challenge", "connect"} ~> attempt \in {"ok", "failed"}

\* A shutdown stops both tasks for good, also when it races with connect()
\* starting the keep-alive task or with another shutdown.
ShutdownStops == shutdowns # {} ~> [](~pump /\ ~keepalive)

\* An established connection does not go back to the handshake, nor is it
\* rejected afterwards (docs/handshake.md:109-111).
Forward ==
    [][state = "connected" => state' \in {"connected", "disconnected", "timed_out"}]_vars
=============================================================================
