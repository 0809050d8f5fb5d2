--------------------------- MODULE HandshakeProofs ---------------------------
(***************************************************************************)
(* Theorems about Handshake, for any number of retransmissions, any queue  *)
(* and a network that loses and reorders.                                  *)
(***************************************************************************)
EXTENDS Handshake, SequenceTheorems, TLAPS

ToClient == {"ChallengeResponse", "ConnectAccept", "ConnectReject", "Disconnect"}
ToServer == {"ChallengeRequest", "ConnectRequest", "Disconnect"}

\* Whatever says that the connection was accepted comes from the server's accepting it:
\* a datagram on its way, the state the pump set, the result of connect().
Accepts ==
    /\ \A i \in 1 .. Len(toClient) : toClient[i] = "ConnectAccept" => accepted
    /\ state = "connected" => accepted
    /\ TrueMeansAccepted

HandshakeInv == TypeOK /\ Accepts

-----------------------------------------------------------------------------
(* The network *)

\* A datagram that is sent is lost, or joins those in flight.
LEMMA PutKeeps ==
    ASSUME NEW D, NEW q \in Seq(D), NEW m \in D, NEW r \in Put(q, m)
    PROVE  /\ r \in Seq(D)
           /\ \A i \in 1 .. Len(r) : r[i] = m \/ \E j \in 1 .. Len(q) : r[i] = q[j]
<1>1. CASE r = q
    BY <1>1
<1>2. CASE r = Append(q, m)
    <2>1. /\ r \in Seq(D) /\ Len(q) \in Nat /\ Len(r) = Len(q) + 1
          /\ \A i \in 1 .. Len(q) : r[i] = q[i]
          /\ r[Len(q) + 1] = m
        BY <1>2, AppendProperties
    <2> QED  BY <2>1
<1> QED  BY <1>1, <1>2 DEF Put

\* A datagram that arrives was in flight, and the others stay.
LEMMA RemoveKeeps ==
    ASSUME NEW D, NEW q \in Seq(D), NEW k \in Arrivals(q)
    PROVE  /\ k \in 1 .. Len(q) /\ q[k] \in D
           /\ RemoveAt(q, k) \in Seq(D)
           /\ \A i \in 1 .. Len(RemoveAt(q, k)) :
                \E j \in 1 .. Len(q) : RemoveAt(q, k)[i] = q[j]
<1>1. k \in 1 .. Len(q) /\ Len(q) \in Nat
    BY DEF Arrivals
<1> DEFINE a == SubSeq(q, 1, k - 1)
           b == SubSeq(q, k + 1, Len(q))
<1>2. /\ a \in Seq(D) /\ Len(a) = k - 1
      /\ \A i \in 1 .. Len(a) : a[i] = q[i]
    BY <1>1
<1>3. /\ b \in Seq(D) /\ Len(b) = Len(q) - k
      /\ \A i \in 1 .. Len(b) : b[i] = q[k + i]
    BY <1>1
<1>4. RemoveAt(q, k) = a \o b
    BY DEF RemoveAt
<1> HIDE DEF a, b
<1>5. /\ a \o b \in Seq(D) /\ Len(a \o b) = Len(q) - 1
      /\ \A i \in 1 .. Len(q) - 1 : (a \o b)[i] = IF i <= k - 1 THEN a[i] ELSE b[i - (k - 1)]
    <2>1. /\ a \o b \in Seq(D) /\ Len(a \o b) = Len(a) + Len(b)
          /\ \A i \in 1 .. Len(a) + Len(b) :
               (a \o b)[i] = IF i <= Len(a) THEN a[i] ELSE b[i - Len(a)]
        BY <1>2, <1>3, ConcatProperties
    <2>2. Len(a) = k - 1 /\ Len(a) + Len(b) = Len(q) - 1
        BY <1>1, <1>2, <1>3
    <2> QED  BY <2>1, <2>2
<1>6. ASSUME NEW i \in 1 .. Len(q) - 1
      PROVE  \E j \in 1 .. Len(q) : (a \o b)[i] = q[j]
    <2>1. CASE i <= k - 1
        <3>1. (a \o b)[i] = q[i] /\ i \in 1 .. Len(q)
            BY <1>1, <1>2, <1>5, <2>1
        <3> QED  BY <3>1
    <2>2. CASE i > k - 1
        <3>1. i - (k - 1) \in 1 .. Len(b) /\ k + (i - (k - 1)) = i + 1
            BY <1>1, <1>3, <2>2
        <3>2. (a \o b)[i] = q[i + 1] /\ i + 1 \in 1 .. Len(q)
            BY <1>1, <1>3, <1>5, <2>2, <3>1
        <3> QED  BY <3>2
    <2>3. i <= k - 1 \/ i > k - 1
        BY <1>1
    <2> QED  BY <2>1, <2>2, <2>3
<1>7. q[k] \in D
    BY <1>1, ElementOfSeq
<1> QED  BY <1>1, <1>4, <1>5, <1>6, <1>7

-----------------------------------------------------------------------------
(* The steps *)

\* Before connect() nothing has been accepted, and nothing says so.
LEMMA InitHandshakeInv == Init => HandshakeInv
<1> SUFFICES ASSUME Init PROVE HandshakeInv
    OBVIOUS
<1>1. TypeOK
    <2>1. tries \in 0 .. CHALLENGE_RETRY_COUNT \union 0 .. CONNECT_RETRY_COUNT
        BY HandshakeAssumption DEF Init
    <2>2. toServer \in Seq(ToServer) /\ toClient \in Seq(ToClient)
        BY DEF Init
    <2> QED  BY <2>1, <2>2 DEF Init, TypeOK, ConnState, Terminal, ToServer, ToClient
<1>2. Accepts
    BY DEF Init, Accepts, TrueMeansAccepted
<1> QED  BY <1>1, <1>2 DEF HandshakeInv

\* A step of the client that does not receive sends at most one datagram, does not make
\* the connection CONNECTED, and returns True only if it is.
LEMMA ClientKeeps ==
    ASSUME HandshakeInv,
           UNCHANGED <<toClient, accepted>>, server' \in BOOLEAN,
           state' \in {state} \union Awaiting \union Terminal,
           attempt' \in {"none", "challenge", "connect", "ok", "failed"},
           attempt' = "ok" => attempt = "ok" \/ state = "connected",
           tries' \in {0, 1, tries, CONNECT_RETRY_COUNT}
             \/ (tries' = tries + 1
                 /\ (tries < CHALLENGE_RETRY_COUNT \/ tries < CONNECT_RETRY_COUNT)),
           shutdowns' \subseteq Shutdowns,
           {digest', pump', keepalive', done', open'} \subseteq BOOLEAN,
           toServer' \in Seq(ToServer)
    PROVE  HandshakeInv'
<1>1. /\ TypeOK /\ Accepts
      /\ CHALLENGE_RETRY_COUNT \in Nat \ {0} /\ CONNECT_RETRY_COUNT \in Nat \ {0}
    BY HandshakeAssumption DEF HandshakeInv
<1>2. state' \in ConnState
    BY <1>1 DEF TypeOK, ConnState
<1>3. tries' \in 0 .. CHALLENGE_RETRY_COUNT \union 0 .. CONNECT_RETRY_COUNT
    BY <1>1 DEF TypeOK
<1>4. TypeOK'
    BY <1>1, <1>2, <1>3 DEF TypeOK, ToServer
<1>5. Accepts'
    <2>1. \A i \in 1 .. Len(toClient') : toClient'[i] = "ConnectAccept" => accepted'
        BY <1>1 DEF Accepts
    <2>2. state' = "connected" => state = "connected"
        BY DEF Awaiting, Terminal
    <2> QED  BY <1>1, <2>1, <2>2 DEF Accepts, TrueMeansAccepted
<1> QED  BY <1>4, <1>5 DEF HandshakeInv

\* connect(), its retransmissions and its end.
LEMMA ConnectKeeps ==
    ASSUME HandshakeInv,
           Connect \/ RetryChallenge \/ EndChallenge \/ RetryConnect \/ EndConnect
    PROVE  HandshakeInv'
<1>1. /\ TypeOK /\ toServer \in Seq(ToServer) /\ shutdowns \subseteq Shutdowns
      /\ {digest, pump, keepalive, done, open, server} \subseteq BOOLEAN
    BY DEF HandshakeInv, TypeOK, ToServer
<1>2. \A m \in ToServer : Put(toServer, m) \subseteq Seq(ToServer)
    BY <1>1, PutKeeps
<1>3. {"ChallengeRequest", "ConnectRequest", "Disconnect"} \subseteq ToServer
    BY DEF ToServer
<1>4. [to |-> "disconnected", at |-> "end"] \in Shutdowns
    BY DEF Shutdowns, Terminal
<1>5. ASSUME Fail PROVE /\ attempt' = "failed" /\ pump' = FALSE
                        /\ shutdowns' \subseteq Shutdowns /\ toServer' \in Seq(ToServer)
    BY <1>1, <1>2, <1>3, <1>4, <1>5 DEF Fail, SendDisconnect
<1>6. CASE Connect
    BY <1>1, <1>2, <1>3, <1>6, ClientKeeps DEF Connect, Awaiting
<1>7. CASE RetryChallenge
    <2>1. CASE ~open /\ Abandon
        BY <1>1, <1>5, <1>7, <2>1, ClientKeeps DEF RetryChallenge, Abandon
    <2>2. CASE open
        BY <1>1, <1>2, <1>3, <1>7, <2>2, ClientKeeps DEF RetryChallenge
    <2> QED  BY <1>7, <2>1, <2>2 DEF RetryChallenge
<1>8. CASE EndChallenge
    <2>1. CASE TimeOut \/ Abandon
        BY <1>1, <1>5, <1>8, <2>1, ClientKeeps
        DEF EndChallenge, TimeOut, Abandon, Terminal
    <2>2. CASE ~(TimeOut \/ Abandon)
        BY <1>1, <1>2, <1>3, <1>8, <2>2, ClientKeeps DEF EndChallenge
    <2> QED  BY <2>1, <2>2
<1>9. CASE RetryConnect
    <2>1. CASE ~open /\ Abandon
        BY <1>1, <1>5, <1>9, <2>1, ClientKeeps DEF RetryConnect, Abandon
    <2>2. CASE open
        BY <1>1, <1>2, <1>3, <1>9, <2>2, ClientKeeps DEF RetryConnect
    <2> QED  BY <1>9, <2>1, <2>2 DEF RetryConnect
<1>10. CASE EndConnect
    <2>1. CASE state = "connected" /\ attempt' = "ok"
        BY <1>1, <1>10, <2>1, ClientKeeps DEF EndConnect, Fail, TimeOut
    <2>2. CASE Fail
        BY <1>1, <1>5, <1>10, <2>2, ClientKeeps DEF EndConnect, TimeOut, Terminal
    <2> QED  BY <1>10, <2>1, <2>2 DEF EndConnect, TimeOut
<1> QED  BY <1>6, <1>7, <1>8, <1>9, <1>10

\* The keep-alive task and the teardowns.
LEMMA TeardownKeeps ==
    ASSUME HandshakeInv,
           KeepaliveEnds \/ ServerSilent \/ Disconnect \/ \E s \in shutdowns : Shutdown(s)
    PROVE  HandshakeInv'
<1>1. /\ TypeOK /\ toServer \in Seq(ToServer) /\ shutdowns \subseteq Shutdowns
      /\ attempt \in {"none", "challenge", "connect", "ok", "failed"}
      /\ {digest, pump, keepalive, done, open, server} \subseteq BOOLEAN
    BY DEF HandshakeInv, TypeOK, ToServer
<1>2. \A m \in ToServer : Put(toServer, m) \subseteq Seq(ToServer)
    BY <1>1, PutKeeps
<1>3. CASE KeepaliveEnds
    BY <1>1, <1>3, ClientKeeps DEF KeepaliveEnds
<1>4. CASE ServerSilent
    <2>1. [to |-> "timed_out", at |-> "pump"] \in Shutdowns
        BY DEF Shutdowns, Terminal
    <2> QED  BY <1>1, <1>4, <2>1, ClientKeeps DEF ServerSilent
<1>5. CASE Disconnect
    <2>1. [to |-> "disconnected", at |-> "keepalive"] \in Shutdowns
        BY DEF Shutdowns, Terminal
    <2>2. "Disconnect" \in ToServer
        BY DEF ToServer
    <2> QED  BY <1>1, <1>2, <1>5, <2>1, <2>2, ClientKeeps DEF Disconnect, SendDisconnect
<1>6. ASSUME NEW s \in shutdowns, Shutdown(s) PROVE HandshakeInv'
    <2>1. s \in Shutdowns /\ s.to \in Terminal
        BY <1>1 DEF Shutdowns
    <2>2. [s EXCEPT !.at = "pump"] \in Shutdowns /\ [s EXCEPT !.at = "end"] \in Shutdowns
        BY <2>1 DEF Shutdowns
    <2>3. CASE StopKeepalive(s)
        BY <1>1, <2>2, <2>3, ClientKeeps DEF StopKeepalive
    <2>4. CASE StopPump(s)
        BY <1>1, <2>2, <2>4, ClientKeeps DEF StopPump
    <2>5. CASE FinishShutdown(s)
        BY <1>1, <2>1, <2>5, ClientKeeps DEF FinishShutdown
    <2> QED  BY <1>6, <2>3, <2>4, <2>5 DEF Shutdown
<1> QED  BY <1>3, <1>4, <1>5, <1>6

\* The pump: only an accept that was on its way makes the connection CONNECTED.
LEMMA ReceiveKeeps == ASSUME HandshakeInv, Receive PROVE HandshakeInv'
<1>1. PICK i \in Arrivals(toClient) : toClient' = RemoveAt(toClient, i) /\ Handle(toClient[i])
    BY DEF Receive
<1>2. /\ UNCHANGED <<attempt, tries, pump, keepalive, done, open, toServer, server, accepted>>
      /\ TypeOK /\ Accepts /\ toClient \in Seq(ToClient) /\ shutdowns \subseteq Shutdowns
      /\ digest \in BOOLEAN /\ state \in ConnState
    BY DEF Receive, HandshakeInv, TypeOK, ToClient
<1>3. /\ i \in 1 .. Len(toClient) /\ toClient[i] \in ToClient
      /\ toClient' \in Seq(ToClient)
      /\ \A j \in 1 .. Len(toClient') : \E n \in 1 .. Len(toClient) : toClient'[j] = toClient[n]
    BY <1>1, <1>2, RemoveKeeps
<1>4. /\ digest' \in BOOLEAN /\ state' \in ConnState /\ shutdowns' \subseteq Shutdowns
      /\ state' = "connected" => state = "connected" \/ toClient[i] = "ConnectAccept"
    <2>1. [to |-> "disconnected", at |-> "keepalive"] \in Shutdowns
        BY DEF Shutdowns, Terminal
    <2>2. CASE toClient[i] = "ChallengeResponse"
        BY <1>1, <1>2, <2>2 DEF Handle, ConnState, Awaiting
    <2>3. CASE toClient[i] = "ConnectAccept"
        BY <1>1, <1>2, <2>3 DEF Handle, ConnState
    <2>4. CASE toClient[i] = "ConnectReject"
        BY <1>1, <1>2, <2>4 DEF Handle, ConnState, Terminal
    <2>5. CASE toClient[i] = "Disconnect"
        BY <1>1, <1>2, <2>1, <2>5 DEF Handle
    <2> QED  BY <1>3, <2>2, <2>3, <2>4, <2>5 DEF ToClient
<1>5. TypeOK'
    BY <1>2, <1>3, <1>4 DEF TypeOK, ToClient
<1>6. Accepts'
    <2>1. \A j \in 1 .. Len(toClient') : toClient'[j] = "ConnectAccept" => accepted'
        BY <1>2, <1>3 DEF Accepts
    <2>2. state' = "connected" => accepted'
        BY <1>2, <1>3, <1>4 DEF Accepts
    <2> QED  BY <1>2, <2>1, <2>2 DEF Accepts, TrueMeansAccepted
<1> QED  BY <1>5, <1>6 DEF HandshakeInv

\* The server: an accept leaves it when it has accepted.
LEMMA ServerKeeps == ASSUME HandshakeInv, ServerAnswers \/ ServerDrops PROVE HandshakeInv'
<1>1. /\ UNCHANGED client /\ TypeOK /\ Accepts
      /\ toServer \in Seq(ToServer) /\ toClient \in Seq(ToClient)
      /\ server \in BOOLEAN /\ accepted \in BOOLEAN
    BY DEF ServerAnswers, ServerDrops, HandshakeInv, TypeOK, ToServer, ToClient
<1>2. toServer' \in Seq(ToServer)
    <2>1. CASE toServer' = toServer
        BY <1>1, <2>1
    <2>2. ASSUME NEW i \in Arrivals(toServer), toServer' = RemoveAt(toServer, i)
          PROVE  toServer' \in Seq(ToServer)
        BY <1>1, <2>2, RemoveKeeps
    <2> QED  BY <2>1, <2>2 DEF ServerAnswers, ServerDrops
<1>3. /\ server' \in BOOLEAN /\ accepted' \in BOOLEAN /\ (accepted => accepted')
      /\ \/ toClient' = toClient
         \/ \E m \in ToClient : toClient' \in Put(toClient, m) /\ (m = "ConnectAccept" => accepted')
    BY <1>1 DEF ServerAnswers, ServerDrops, ToClient
<1>4. /\ toClient' \in Seq(ToClient)
      /\ \A i \in 1 .. Len(toClient') : toClient'[i] = "ConnectAccept" => accepted'
    <2>1. CASE toClient' = toClient
        BY <1>1, <1>3, <2>1 DEF Accepts
    <2>2. ASSUME NEW m \in ToClient, toClient' \in Put(toClient, m),
                 m = "ConnectAccept" => accepted'
          PROVE  /\ toClient' \in Seq(ToClient)
                 /\ \A i \in 1 .. Len(toClient') : toClient'[i] = "ConnectAccept" => accepted'
        <3>1. /\ toClient' \in Seq(ToClient)
              /\ \A i \in 1 .. Len(toClient') :
                   toClient'[i] = m \/ \E j \in 1 .. Len(toClient) : toClient'[i] = toClient[j]
            BY <1>1, <2>2, PutKeeps
        <3> QED  BY <1>1, <1>3, <2>2, <3>1 DEF Accepts
    <2> QED  BY <1>3, <2>1, <2>2
<1>5. TypeOK'
    BY <1>1, <1>2, <1>3, <1>4 DEF TypeOK, client, ToServer, ToClient
<1>6. Accepts'
    BY <1>1, <1>3, <1>4 DEF Accepts, TrueMeansAccepted, client
<1> QED  BY <1>5, <1>6 DEF HandshakeInv

-----------------------------------------------------------------------------
(* Theorems *)

\* The handshake keeps its types, and nothing says accepted that was not.
THEOREM HandshakeInvariant == Spec => []HandshakeInv
<1>1. Init => HandshakeInv
    BY InitHandshakeInv
<1>2. HandshakeInv /\ [Next]_vars => HandshakeInv'
    <2> SUFFICES ASSUME HandshakeInv, [Next]_vars PROVE HandshakeInv'
        OBVIOUS
    <2>1. CASE Connect \/ RetryChallenge \/ EndChallenge \/ RetryConnect \/ EndConnect
        BY <2>1, ConnectKeeps
    <2>2. CASE Receive
        BY <2>2, ReceiveKeeps
    <2>3. CASE KeepaliveEnds \/ ServerSilent \/ Disconnect \/ \E s \in shutdowns : Shutdown(s)
        BY <2>3, TeardownKeeps
    <2>4. CASE ServerAnswers \/ ServerDrops
        BY <2>4, ServerKeeps
    <2>5. CASE UNCHANGED vars
        BY <2>5 DEF vars, client, HandshakeInv, TypeOK, Accepts, TrueMeansAccepted
    <2> QED  BY <2>1, <2>2, <2>3, <2>4, <2>5 DEF Next
<1> QED  BY <1>1, <1>2, PTL DEF Spec

\* connect() returns True only if the server has accepted this attempt, however requests
\* and answers are lost, repeated and reordered, and whoever tears the connection down
\* meanwhile (netconn.py 241-312).
THEOREM TrueMeansAcceptedHolds == Spec => []TrueMeansAccepted
<1>1. HandshakeInv => TrueMeansAccepted
    BY DEF HandshakeInv, Accepts
<1> QED  BY <1>1, HandshakeInvariant, PTL
=============================================================================
