---------------------------- MODULE RunLoopProofs ----------------------------
(***************************************************************************)
(* Theorems about RunLoop, for any number of attempts, any queue and any   *)
(* limit on the streak.                                                    *)
(***************************************************************************)
EXTENDS RunLoop, SequenceTheorems, TLAPS

Limit == BODY_FAIL_STREAK_LIMIT

Statuses == {"disconnected", "connecting", "awaiting_challenge_response", "connected",
             "ingame_loggedout", "timed_out", "rejected", "reconnecting"}

Clients == [connState : Statuses, loggedIn : BOOLEAN,
            lastEmit : {<<>>} \cup (Statuses \X BOOLEAN),
            streak : 0..Limit, abortStarted : BOOLEAN]

ConnStates == {"none", "awaiting_challenge_response", "connected", "disconnected",
               "timed_out", "rejected"}

Conns == [attempt : Nat, state : ConnStates, pump : BOOLEAN]

Typed ==
  /\ TypeOK
  /\ conn \in Conns /\ client \in Clients /\ told \in Statuses \X BOOLEAN
  /\ hist \in [stale : BOOLEAN, run : 0..Limit, longest : 0..Limit]

\* What was emitted last, if anything was since the last reset, is what is known.
Known == ConsumersKnow /\ client.lastEmit \in {<<>>, told}

Counted == AbortIff /\ client.streak = hist.run

\* The socket is that of the connection, which is gone before the next attempt.
OneSocket ==
  /\ socket \in {0, conn.attempt}
  /\ loop \in {"top", "resolving", "opening"} => conn = NoConn
  /\ loop \in {"resolving", "opening"} => attempt # 0
  /\ loop \in {"handshake", "running"} => conn.attempt # 0
  /\ loop = "waiting" => socket = 0
  /\ conn.attempt = 0 => tasks = {}

\* Datagrams are queued in the order of their attempts, so that the accept of an
\* attempt comes behind everything of those before it.
Queued ==
  /\ \A i, j \in 1..Len(queue) : i <= j => queue[i].attempt <= queue[j].attempt
  /\ conn.state = "connected" =>
       \A i \in 1..Len(queue) : queue[i].kind \in Bodies => queue[i].attempt = conn.attempt

RunInv == Typed /\ Known /\ Counted /\ OneSocket /\ Queued /\ NeverStale

-----------------------------------------------------------------------------
(* Status reports *)

\* A report brings the consumers to the status of the client it is made for.
LEMMA Reported ==
  ASSUME NEW c \in Clients, told \in Statuses \X BOOLEAN, c.lastEmit \in {<<>>, told},
         Reports(c)
  PROVE  /\ client' \in Clients
         /\ client'.connState = c.connState /\ client'.loggedIn = c.loggedIn
         /\ client'.streak = c.streak /\ client'.abortStarted = c.abortStarted
         /\ told' = <<c.connState, c.loggedIn>> /\ client'.lastEmit = told'
         /\ told' \in Statuses \X BOOLEAN
<1> DEFINE key == <<c.connState, c.loggedIn>>
<1>1. key \in Statuses \X BOOLEAN /\ key # <<>>
  BY DEF Clients
<1>2. client' = [c EXCEPT !.lastEmit = key] /\ told' = IF key = c.lastEmit THEN told ELSE key
  BY DEF Reports
<1>3. told' = key
  BY <1>1, <1>2
<1> QED  BY <1>1, <1>2, <1>3 DEF Clients

\* A change of state, with its report.
LEMMA StateSet ==
  ASSUME NEW c \in Clients, told \in Statuses \X BOOLEAN, c.lastEmit \in {<<>>, told},
         NEW cn \in Conns, NEW state \in ConnStates \ {"none"}, SetState(cn, state, c)
  PROVE  /\ conn' = [cn EXCEPT !.state = state] /\ conn' \in Conns
         /\ client' \in Clients
         /\ client'.connState = (IF state = cn.state THEN c.connState ELSE state)
         /\ client'.loggedIn = (c.loggedIn /\ (state = cn.state \/ state \notin Terminal))
         /\ client'.streak = c.streak /\ client'.abortStarted = c.abortStarted
         /\ told' = <<client'.connState, client'.loggedIn>> /\ client'.lastEmit = told'
         /\ told' \in Statuses \X BOOLEAN
<1> DEFINE d == IF state = cn.state THEN c ELSE Entered(c, state)
<1>1. conn' = [cn EXCEPT !.state = state] /\ conn' \in Conns
  BY DEF SetState, Conns
<1>2. /\ d \in Clients /\ d.lastEmit = c.lastEmit
      /\ d.connState = (IF state = cn.state THEN c.connState ELSE state)
      /\ d.loggedIn = (c.loggedIn /\ (state = cn.state \/ state \notin Terminal))
      /\ d.streak = c.streak /\ d.abortStarted = c.abortStarted
  BY DEF Clients, Entered, ConnStates, Statuses, Terminal
<1>3. Reports(d)
  BY DEF SetState
<1> HIDE DEF d
<1>4. /\ client' \in Clients
      /\ client'.connState = d.connState /\ client'.loggedIn = d.loggedIn
      /\ client'.streak = d.streak /\ client'.abortStarted = d.abortStarted
      /\ told' = <<d.connState, d.loggedIn>> /\ client'.lastEmit = told'
      /\ told' \in Statuses \X BOOLEAN
  BY <1>2, <1>3, Reported
<1> QED  BY <1>1, <1>2, <1>4

-----------------------------------------------------------------------------
(* Each part of the invariant over the steps that disturb it *)

\* The constants the proofs count with.
LEMMA Bounds == Limit \in Nat \ {0} /\ MaxAttempts \in Nat \ {0}
  BY RunLoopAssumption DEF Limit

\* Before the first connect there is nothing to disagree about.
LEMMA InitRunInv == Init => RunInv
<1> SUFFICES ASSUME Init PROVE RunInv
  OBVIOUS
<1> USE Bounds
<1>1. client \in Clients
  BY DEF Init, FreshClient, Clients, Statuses
<1>2. conn \in Conns /\ told \in Statuses \X BOOLEAN
  BY DEF Init, Statuses, NoConn, Conns, ConnStates
<1>3. queue \in Seq([attempt : 1..attempt, kind : Kinds])
  BY DEF Init
<1>4. conn.attempt \in {0, attempt} /\ (conn.attempt = 0 => conn = NoConn)
  BY DEF Init, NoConn
<1>5. TypeOK
  <2>1. {stop, resolved} \subseteq BOOLEAN
    BY DEF Init
  <2>2. attempt \in 0..MaxAttempts /\ socket \in 0..attempt
    BY DEF Init
  <2>3. /\ loop \in {"top", "resolving", "opening", "handshake", "running", "closing",
                   "waiting", "leaving", "done"}
        /\ session \in {"new", "open", "over"}
        /\ tasks \subseteq {"server", "desync", "silent", "bridge"}
    BY DEF Init
  <2> QED  BY <1>3, <1>4, <2>1, <2>2, <2>3 DEF TypeOK
<1>6. Typed
  BY <1>1, <1>2, <1>5 DEF Typed, Init
<1>7. Known
  BY DEF Init, Known, ConsumersKnow, FreshClient, NoConn
<1>8. Counted
  BY DEF Init, Counted, AbortIff, FreshClient, Limit
<1>9. OneSocket /\ Queued /\ NeverStale
  BY DEF Init, OneSocket, Queued, NeverStale, NoConn
<1> QED  BY <1>6, <1>7, <1>8, <1>9 DEF RunInv

\* A step of the loop that only moves on, and the signal.
LEMMA Moves ==
  ASSUME RunInv, UNCHANGED <<conn, status, socket, queue, session, tasks, attempt, hist>>,
         loop' \in {"opening", "closing", "leaving", "running", loop},
         loop' = "opening" => loop \in {"resolving", "opening"},
         loop' = "running" => loop \in {"handshake", "running"},
         stop' \in BOOLEAN, resolved' \in BOOLEAN
  PROVE  RunInv'
<1>1. Typed'
  BY DEF RunInv, Typed, TypeOK, status
<1>2. Known' /\ Counted' /\ Queued' /\ NeverStale'
  BY DEF RunInv, Known, ConsumersKnow, Counted, AbortIff, Queued, NeverStale, status
<1>3. OneSocket'
  BY DEF RunInv, OneSocket, status
<1> QED  BY <1>1, <1>2, <1>3 DEF RunInv

\* A change of state of the connection: the status told stays in step with it.
LEMMA StateChange ==
  ASSUME RunInv, NEW cn \in Conns, cn.state = conn.state,
         NEW state \in ConnStates \ {"none"},
         state \in Terminal \cup {"connected"} \/ cn.state = "none",
         SetState(cn, state, client)
  PROVE  /\ conn' = [cn EXCEPT !.state = state] /\ conn' \in Conns
         /\ client' \in Clients /\ told' \in Statuses \X BOOLEAN
         /\ client'.streak = client.streak /\ client'.abortStarted = client.abortStarted
         /\ Known'
<1>1. /\ client \in Clients /\ told \in Statuses \X BOOLEAN
      /\ client.lastEmit \in {<<>>, told}
  BY DEF RunInv, Typed, Known
<1>2. /\ conn' = [cn EXCEPT !.state = state] /\ conn' \in Conns
      /\ client' \in Clients
      /\ client'.connState = (IF state = cn.state THEN client.connState ELSE state)
      /\ client'.loggedIn = (client.loggedIn /\ (state = cn.state \/ state \notin Terminal))
      /\ client'.streak = client.streak /\ client'.abortStarted = client.abortStarted
      /\ told' = <<client'.connState, client'.loggedIn>> /\ client'.lastEmit = told'
      /\ told' \in Statuses \X BOOLEAN
  BY <1>1, StateSet
<1>3. /\ client.connState \in {"connected", "ingame_loggedout"} <=> conn.state = "connected"
      /\ client.loggedIn => conn.state = "connected"
  BY <1>1 DEF RunInv, Known, ConsumersKnow, Clients
<1>4. conn'.state = state
  BY <1>2 DEF Conns
<1>5. CASE state = cn.state
  BY <1>2, <1>3, <1>4, <1>5 DEF Known, ConsumersKnow
<1>6. CASE state # cn.state /\ state = "connected"
  BY <1>2, <1>4, <1>6 DEF Known, ConsumersKnow
<1>7. CASE state # cn.state /\ state # "connected"
  <2>1. client'.connState = state /\ state \notin {"connected", "ingame_loggedout"}
    BY <1>2, <1>7 DEF ConnStates
  <2>2. ~client'.loggedIn
    BY <1>2, <1>3, <1>7
  <2> QED  BY <1>2, <1>4, <1>7, <2>1, <2>2 DEF Known, ConsumersKnow
<1> QED  BY <1>2, <1>5, <1>6, <1>7

\* A connect, from the top of the loop or after a reset: there is no connection.
LEMMA Connects ==
  ASSUME RunInv, NEW c \in Clients, c.lastEmit \in {<<>>, told}, ~c.loggedIn,
         Connect(c), conn' = NoConn, tasks = {}, socket = 0,
         c.streak = hist'.run,
         hist' \in [stale : BOOLEAN, run : 0..Limit, longest : 0..Limit],
         ~hist'.stale,
         c.abortStarted <=> hist'.longest >= Limit
  PROVE  RunInv'
<1> DEFINE d == [c EXCEPT !.connState = "connecting"]
<1>1. /\ d \in Clients /\ d.lastEmit = c.lastEmit /\ d.connState = "connecting"
      /\ d.loggedIn = c.loggedIn /\ d.streak = c.streak /\ d.abortStarted = c.abortStarted
  BY DEF Clients, Statuses
<1>2. Reports(d)
  BY DEF Connect
<1>3. told \in Statuses \X BOOLEAN
  BY DEF RunInv, Typed
<1> HIDE DEF d
<1>4. /\ client' \in Clients /\ client'.connState = "connecting" /\ ~client'.loggedIn
      /\ client'.streak = c.streak /\ client'.abortStarted = c.abortStarted
      /\ told' = <<client'.connState, client'.loggedIn>> /\ client'.lastEmit = told'
      /\ told' \in Statuses \X BOOLEAN
  BY <1>1, <1>2, <1>3, Reported
<1>5. /\ attempt' = attempt + 1 /\ attempt' \in 1..MaxAttempts /\ attempt \in Nat
      /\ loop' \in {"opening", "resolving"} /\ tasks' = {} /\ socket' = 0
      /\ UNCHANGED <<stop, queue, resolved, session>>
  BY Bounds DEF RunInv, Typed, TypeOK, Connect, network
<1>6. NoConn \in Conns /\ NoConn.attempt = 0 /\ NoConn.state = "none"
  BY DEF NoConn, Conns, ConnStates
<1>7. Typed'
  <2>1. [attempt : 1..attempt, kind : Kinds] \subseteq [attempt : 1..attempt', kind : Kinds]
    BY <1>5
  <2>2. queue' \in Seq([attempt : 1..attempt', kind : Kinds])
    <3>1. queue \in Seq([attempt : 1..attempt, kind : Kinds])
      BY DEF RunInv, Typed, TypeOK
    <3>2. queue' = queue
      BY <1>5
    <3> HIDE DEF NoConn, d
    <3> DEFINE S == [attempt : 1..attempt, kind : Kinds]
    <3> DEFINE T == [attempt : 1..attempt', kind : Kinds]
    <3>3. S \subseteq T /\ queue \in Seq(S)
      BY <2>1, <3>1
    <3> HIDE DEF S, T
    <3>4. queue \in Seq(T)
      BY <3>3, SeqMonotonic
    <3> QED  BY <3>2, <3>4 DEF T
  <2>3. TypeOK'
    BY <1>5, <1>6, <2>2 DEF RunInv, Typed, TypeOK
  <2> QED  BY <1>4, <1>6, <2>3 DEF Typed
<1>8. Known'
  BY <1>4, <1>6 DEF Known, ConsumersKnow
<1>9. Counted'
  BY <1>4 DEF Counted, AbortIff, Limit
<1>10. OneSocket'
  BY <1>5, <1>6 DEF OneSocket
<1>11. Queued'
  BY <1>5, <1>6 DEF RunInv, Queued
<1>12. NeverStale'
  BY DEF NeverStale
<1> QED  BY <1>7, <1>8, <1>9, <1>10, <1>11, <1>12 DEF RunInv

-----------------------------------------------------------------------------
(* The steps *)

\* Steps of the loop that only look: at a resolved host, an accepted handshake, a drop.
LEMMA LoopMoves ==
  ASSUME RunInv, Resolve \/ CannotResolve \/ HandshakeOk \/ SeesDrop \/ SeesStop \/ Signal
  PROVE  RunInv'
<1>1. TypeOK
  BY DEF RunInv, Typed
<1>2. /\ UNCHANGED <<conn, status, socket, queue, session, tasks, attempt, hist>>
      /\ loop' \in {"opening", "closing", "leaving", "running", loop}
      /\ loop' = "opening" => loop \in {"resolving", "opening"}
      /\ loop' = "running" => loop \in {"handshake", "running"}
      /\ stop' \in BOOLEAN /\ resolved' \in BOOLEAN
  BY <1>1 DEF TypeOK, Resolve, CannotResolve, HandshakeOk, SeesDrop, SeesStop, Signal,
              AttemptOver, Goes, network
<1> QED  BY <1>2, Moves

\* The two connects: the first one, and that after a reset.
LEMMA ConnectMoves == ASSUME RunInv, FirstConnect \/ NextAttempt PROVE RunInv'
<1>1. CASE FirstConnect
  <2>1. conn = NoConn /\ conn.state = "none" /\ tasks = {} /\ socket = 0
    BY <1>1 DEF RunInv, OneSocket, FirstConnect, NoConn
  <2>2. /\ client \in Clients /\ client.lastEmit \in {<<>>, told} /\ ~client.loggedIn
        /\ client.abortStarted <=> hist.longest >= Limit
        /\ client.streak = hist.run
        /\ hist \in [stale : BOOLEAN, run : 0..Limit, longest : 0..Limit]
        /\ ~hist.stale
    BY <2>1 DEF RunInv, Typed, Known, ConsumersKnow, Counted, AbortIff, NeverStale, Clients,
                Limit
  <2>3. Connect(client) /\ conn' = NoConn /\ hist' = hist
    BY <1>1, <2>1 DEF FirstConnect
  <2> QED  BY <2>1, <2>2, <2>3, Connects
<1>2. CASE NextAttempt
  <2>1. tasks = {} /\ socket = 0 /\ conn' = NoConn /\ Connect(FreshClient)
    BY <1>2 DEF RunInv, OneSocket, NextAttempt
  <2>2. /\ FreshClient \in Clients /\ FreshClient.lastEmit = <<>> /\ ~FreshClient.loggedIn
        /\ ~FreshClient.abortStarted /\ FreshClient.streak = 0
    BY Bounds DEF FreshClient, Clients, Statuses
  <2>3. /\ hist' \in [stale : BOOLEAN, run : 0..Limit, longest : 0..Limit]
        /\ ~hist'.stale /\ hist'.run = 0 /\ hist'.longest = 0
    <3>1. hist \in [stale : BOOLEAN, run : 0..Limit, longest : 0..Limit] /\ ~hist.stale
      BY DEF RunInv, Typed, NeverStale
    <3>2. hist' = [hist EXCEPT !.run = 0, !.longest = 0]
      BY <1>2 DEF NextAttempt
    <3>3. 0 \in 0..Limit
      BY Bounds
    <3> QED  BY <3>1, <3>2, <3>3
  <2>4. FreshClient.abortStarted <=> hist'.longest >= Limit
    BY <2>2, <2>3, Bounds
  <2> QED  BY <2>1, <2>2, <2>3, <2>4, Connects
<1> QED  BY <1>1, <1>2

\* A step that leaves the connection not standing, with the queue as it was.
LEMMA Falls ==
  ASSUME RunInv, Known', OneSocket',
         conn' \in Conns, client' \in Clients, told' \in Statuses \X BOOLEAN,
         client'.streak = client.streak, client'.abortStarted = client.abortStarted,
         conn'.attempt \in {0, attempt}, conn'.attempt = 0 => conn' = NoConn,
         conn'.state # "connected",
         UNCHANGED <<stop, attempt, queue, hist, resolved>>,
         tasks' \subseteq tasks, session' \in {"new", "open", "over"},
         loop' \in {loop, "handshake", "closing", "leaving", "waiting", "done"}
  PROVE  RunInv'
<1>1. Typed'
  <2>1. TypeOK /\ attempt \in Nat
    BY Bounds DEF RunInv, Typed, TypeOK
  <2>2. socket' \in 0..attempt'
    BY <2>1 DEF OneSocket
  <2>3. TypeOK'
    BY <2>1, <2>2 DEF TypeOK
  <2> QED  BY <2>3 DEF RunInv, Typed
<1>2. Counted' /\ NeverStale'
  BY DEF RunInv, Counted, AbortIff, NeverStale
<1>3. Queued'
  BY DEF RunInv, Queued
<1> QED  BY <1>1, <1>2, <1>3 DEF RunInv

\* The socket is bound and the handshake starts.
LEMMA Opens == ASSUME RunInv, Open PROVE RunInv'
<1> DEFINE cn == [NoConn EXCEPT !.attempt = attempt, !.pump = TRUE]
<1>1. /\ attempt \in Nat \ {0} /\ conn = NoConn
      /\ SetState(cn, "awaiting_challenge_response", client)
  BY Bounds DEF RunInv, Typed, TypeOK, OneSocket, Open
<1>2. cn \in Conns /\ cn.state = conn.state /\ cn.state = "none" /\ cn.attempt = attempt
  BY <1>1 DEF NoConn, Conns, ConnStates
<1> HIDE DEF cn
<1>3. /\ conn' = [cn EXCEPT !.state = "awaiting_challenge_response"] /\ conn' \in Conns
      /\ client' \in Clients /\ told' \in Statuses \X BOOLEAN
      /\ client'.streak = client.streak /\ client'.abortStarted = client.abortStarted
      /\ Known'
  BY <1>1, <1>2, StateChange DEF ConnStates
<1>4. conn'.attempt = attempt /\ conn'.state = "awaiting_challenge_response"
  BY <1>2, <1>3 DEF Conns
<1>5. /\ UNCHANGED <<stop, attempt, queue, hist, resolved, tasks>>
      /\ session' = "new" /\ loop' = "handshake" /\ socket' = attempt
  BY DEF Open, Goes
<1>6. OneSocket'
  BY <1>1, <1>4, <1>5 DEF OneSocket
<1> QED  BY <1>1, <1>3, <1>4, <1>5, <1>6, Falls

\* A handshake that is rejected or never answered.
LEMMA HandshakeFailsKeeps == ASSUME RunInv, HandshakeFails PROVE RunInv'
<1>1. /\ UNCHANGED <<stop, attempt, queue, hist, resolved, tasks, session, socket>>
      /\ loop' \in {"leaving", "closing"} /\ loop = "handshake"
      /\ conn.state # "connected"
  BY DEF HandshakeFails, AttemptOver, Goes, network
<1>2. /\ conn \in Conns /\ client \in Clients /\ told \in Statuses \X BOOLEAN /\ Known
      /\ conn.attempt \in {0, attempt} /\ conn.attempt # 0
      /\ session \in {"new", "open", "over"} /\ socket \in {0, conn.attempt}
  BY <1>1 DEF RunInv, Typed, TypeOK, OneSocket
<1>3. /\ conn' \in Conns /\ client' \in Clients /\ told' \in Statuses \X BOOLEAN
      /\ client'.streak = client.streak /\ client'.abortStarted = client.abortStarted
      /\ Known' /\ conn'.attempt = conn.attempt /\ conn'.state # "connected"
  <2>1. CASE conn.state = "rejected"
    <3>1. UNCHANGED <<conn, client, told>>
      BY <2>1 DEF HandshakeFails, status
    <3> QED  BY <1>1, <1>2, <3>1 DEF Known, ConsumersKnow
  <2>2. CASE conn.state # "rejected"
    <3>1. SetState(conn, "timed_out", client)
      BY <2>2 DEF HandshakeFails
    <3>2. /\ conn' = [conn EXCEPT !.state = "timed_out"] /\ conn' \in Conns
          /\ client' \in Clients /\ told' \in Statuses \X BOOLEAN
          /\ client'.streak = client.streak /\ client'.abortStarted = client.abortStarted
          /\ Known'
      BY <1>2, <3>1, StateChange DEF ConnStates, Terminal
    <3> QED  BY <1>2, <3>2 DEF Conns
  <2> QED  BY <2>1, <2>2
<1>4. OneSocket'
  BY <1>1, <1>2, <1>3 DEF OneSocket
<1> QED  BY <1>1, <1>2, <1>3, <1>4, Falls

\* The teardown between two attempts, with its reconnecting status.
LEMMA CloseAttemptKeeps == ASSUME RunInv, CloseAttempt PROVE RunInv'
<1> DEFINE c == [client EXCEPT !.connState = "reconnecting", !.loggedIn = FALSE]
<1>1. /\ client \in Clients /\ conn \in Conns /\ told \in Statuses \X BOOLEAN
      /\ client.lastEmit \in {<<>>, told}
      /\ conn.attempt \in {0, attempt} /\ (conn.attempt = 0 => conn = NoConn)
      /\ session \in {"new", "open", "over"}
      /\ (conn.attempt = 0 => tasks = {})
  BY DEF RunInv, Typed, TypeOK, Known, OneSocket
<1>2. /\ c \in Clients /\ c.lastEmit = client.lastEmit /\ c.connState = "reconnecting"
      /\ ~c.loggedIn /\ c.streak = client.streak /\ c.abortStarted = client.abortStarted
  BY <1>1 DEF Clients, Statuses
<1>3. Reports(c)
  BY DEF CloseAttempt
<1> HIDE DEF c
<1>4. /\ client' \in Clients /\ told' \in Statuses \X BOOLEAN
      /\ client'.connState = "reconnecting" /\ ~client'.loggedIn
      /\ client'.streak = client.streak /\ client'.abortStarted = client.abortStarted
      /\ told' = <<client'.connState, client'.loggedIn>> /\ client'.lastEmit = told'
  BY <1>1, <1>2, <1>3, Reported
<1>5. /\ UNCHANGED <<stop, attempt, queue, hist, resolved, tasks, session>>
      /\ loop' = "waiting" /\ socket' = 0
      /\ conn' = [conn EXCEPT !.state = IF conn.attempt = 0 THEN @ ELSE "disconnected",
                              !.pump = FALSE]
  BY DEF CloseAttempt, Goes
<1>6. /\ conn' \in Conns /\ conn'.attempt = conn.attempt /\ conn'.state # "connected"
      /\ conn.attempt = 0 => conn' = NoConn
  <2>1. CASE conn.attempt = 0
    <3>1. conn = NoConn /\ conn' = [conn EXCEPT !.state = conn.state, !.pump = FALSE]
      BY <1>1, <1>5, <2>1
    <3>2. conn' = NoConn
      BY <3>1 DEF NoConn
    <3>3. NoConn \in Conns /\ NoConn.state # "connected"
      BY DEF NoConn, Conns, ConnStates
    <3>4. conn' \in Conns /\ conn'.attempt = conn.attempt /\ conn'.state # "connected"
      BY <3>1, <3>2, <3>3
    <3> QED  BY <3>2, <3>4
  <2>2. CASE conn.attempt # 0
    BY <1>1, <1>5, <2>2 DEF Conns, ConnStates
  <2> QED  BY <2>1, <2>2
<1>7. Known'
  BY <1>4, <1>6 DEF Known, ConsumersKnow
<1>8. OneSocket'
  BY <1>1, <1>5, <1>6 DEF OneSocket
<1> QED  BY <1>1, <1>4, <1>5, <1>6, <1>7, <1>8, Falls

\* The teardown of the finally block.
LEMMA Leaves == ASSUME RunInv, Leave PROVE RunInv'
<1>1. /\ UNCHANGED <<stop, attempt, queue, hist, resolved, tasks, session>>
      /\ loop' = "done" /\ socket' = 0 /\ Closes(client)
  BY DEF Leave, Goes, Closes
<1>2. /\ conn \in Conns /\ client \in Clients /\ told \in Statuses \X BOOLEAN /\ Known
      /\ conn.attempt \in {0, attempt} /\ (conn.attempt = 0 => conn = NoConn)
      /\ session \in {"new", "open", "over"} /\ (conn.attempt = 0 => tasks = {})
      /\ client.lastEmit \in {<<>>, told}
  BY DEF RunInv, Typed, TypeOK, OneSocket, Known
<1>3. /\ conn' \in Conns /\ client' \in Clients /\ told' \in Statuses \X BOOLEAN
      /\ client'.streak = client.streak /\ client'.abortStarted = client.abortStarted
      /\ Known' /\ conn'.attempt = conn.attempt /\ conn'.state # "connected"
      /\ conn.attempt = 0 => conn' = NoConn
  <2>1. CASE conn.attempt = 0
    <3>1. conn' = conn /\ conn = NoConn /\ conn'.state = "none" /\ Reports(client)
      BY <1>1, <1>2, <2>1 DEF Closes, NoConn
    <3>2. /\ client' \in Clients
          /\ client'.connState = client.connState /\ client'.loggedIn = client.loggedIn
          /\ client'.streak = client.streak /\ client'.abortStarted = client.abortStarted
          /\ told' = <<client.connState, client.loggedIn>> /\ client'.lastEmit = told'
          /\ told' \in Statuses \X BOOLEAN
      BY <1>2, <3>1, Reported
    <3> QED  BY <1>2, <3>1, <3>2 DEF Known, ConsumersKnow
  <2>2. CASE conn.attempt # 0
    <3> DEFINE cn == [conn EXCEPT !.pump = FALSE]
    <3>1. /\ SetState(cn, "disconnected", client)
          /\ cn \in Conns /\ cn.state = conn.state /\ cn.attempt = conn.attempt
      BY <1>1, <1>2, <2>2 DEF Closes, Conns
    <3> HIDE DEF cn
    <3>2. /\ conn' = [cn EXCEPT !.state = "disconnected"] /\ conn' \in Conns
          /\ client' \in Clients /\ told' \in Statuses \X BOOLEAN
          /\ client'.streak = client.streak /\ client'.abortStarted = client.abortStarted
          /\ Known'
      BY <3>1, StateChange DEF ConnStates, Terminal
    <3> QED  BY <2>2, <3>1, <3>2 DEF Conns
  <2> QED  BY <2>1, <2>2
<1>4. OneSocket'
  BY <1>1, <1>2, <1>3 DEF OneSocket
<1> QED  BY <1>1, <1>2, <1>3, <1>4, Falls

\* A teardown somebody else asked for ends.
LEMMA TaskEnds == ASSUME RunInv, NEW t \in tasks, FinishTask(t) PROVE RunInv'
<1> DEFINE cn == [conn EXCEPT !.pump = FALSE]
           state == IF t = "silent" THEN "timed_out" ELSE "disconnected"
<1>1. /\ UNCHANGED <<loop, stop, attempt, queue, hist, resolved, session>>
      /\ tasks' = tasks \ {t} /\ socket' \in {0, socket} /\ SetState(cn, state, client)
  BY DEF FinishTask
<1>2. /\ conn \in Conns /\ conn.attempt # 0
      /\ conn.attempt \in {0, attempt}
      /\ session \in {"new", "open", "over"} /\ socket \in {0, conn.attempt}
  BY DEF RunInv, Typed, TypeOK, OneSocket
<1>3. cn \in Conns /\ cn.state = conn.state /\ cn.attempt = conn.attempt
  BY <1>2 DEF Conns
<1>4. state \in ConnStates \ {"none"} /\ state \in Terminal /\ state # "connected"
  BY DEF ConnStates, Terminal
<1> HIDE DEF cn, state
<1>5. /\ conn' = [cn EXCEPT !.state = state] /\ conn' \in Conns
      /\ client' \in Clients /\ told' \in Statuses \X BOOLEAN
      /\ client'.streak = client.streak /\ client'.abortStarted = client.abortStarted
      /\ Known'
  BY <1>1, <1>3, <1>4, StateChange
<1>6. conn'.attempt = conn.attempt /\ conn'.state # "connected"
  BY <1>3, <1>4, <1>5 DEF Conns
<1>7. OneSocket'
  <2>1. loop \notin {"top", "resolving", "opening"}
    BY <1>2 DEF RunInv, OneSocket, NoConn
  <2> QED  BY <1>1, <1>2, <1>6, <2>1 DEF RunInv, OneSocket
<1> QED  BY <1>1, <1>2, <1>5, <1>6, <1>7, Falls

\* A step that touches neither the connection nor the queue nor the status.
LEMMA Aside ==
  ASSUME RunInv, UNCHANGED <<loop, stop, attempt, conn, queue, resolved, session, hist>>,
         UNCHANGED <<client, told>> \/ Reports([client EXCEPT !.loggedIn = FALSE]),
         socket' \in {0, socket},
         tasks' \subseteq {"server", "desync", "silent", "bridge"},
         conn.attempt = 0 => tasks' = {}
  PROVE  RunInv'
<1> DEFINE c == [client EXCEPT !.loggedIn = FALSE]
<1>1. /\ client \in Clients /\ conn \in Conns /\ told \in Statuses \X BOOLEAN
      /\ client.lastEmit \in {<<>>, told} /\ TypeOK /\ attempt \in Nat
  BY Bounds DEF RunInv, Typed, TypeOK, Known
<1>2. /\ client' \in Clients /\ told' \in Statuses \X BOOLEAN
      /\ client'.streak = client.streak /\ client'.abortStarted = client.abortStarted
      /\ Known'
  <2>1. CASE UNCHANGED <<client, told>>
    BY <1>1, <2>1 DEF RunInv, Known, ConsumersKnow
  <2>2. CASE Reports(c)
    <3>1. /\ c \in Clients /\ c.lastEmit = client.lastEmit /\ c.connState = client.connState
          /\ ~c.loggedIn /\ c.streak = client.streak /\ c.abortStarted = client.abortStarted
      BY <1>1 DEF Clients
    <3> HIDE DEF c
    <3>2. /\ client' \in Clients
          /\ client'.connState = c.connState /\ client'.loggedIn = c.loggedIn
          /\ client'.streak = c.streak /\ client'.abortStarted = c.abortStarted
          /\ told' = <<c.connState, c.loggedIn>> /\ client'.lastEmit = told'
          /\ told' \in Statuses \X BOOLEAN
      BY <1>1, <2>2, <3>1, Reported
    <3> QED  BY <3>1, <3>2 DEF RunInv, Known, ConsumersKnow
  <2> QED  BY <2>1, <2>2
<1>3. TypeOK'
  BY <1>1 DEF TypeOK
<1>4. Typed'
  BY <1>2, <1>3 DEF RunInv, Typed
<1>5. Counted' /\ Queued' /\ NeverStale'
  BY <1>2 DEF RunInv, Counted, AbortIff, Queued, NeverStale
<1>6. OneSocket'
  BY DEF RunInv, OneSocket
<1> QED  BY <1>2, <1>4, <1>5, <1>6 DEF RunInv

\* The server falls silent, or a bridge disconnects or logs out.
LEMMA AsideMoves ==
  ASSUME RunInv, ServerSilent \/ UserDisconnects \/ UserLogsOut PROVE RunInv'
<1>1. /\ tasks \subseteq {"server", "desync", "silent", "bridge"}
      /\ conn.attempt = 0 => tasks = {}
      /\ loop = "running" => conn.attempt # 0
  BY DEF RunInv, Typed, TypeOK, OneSocket
<1>2. CASE ServerSilent
  BY <1>1, <1>2, Aside DEF ServerSilent, Begins, status, network
<1>3. CASE UserDisconnects
  BY <1>1, <1>3, Aside DEF UserDisconnects, UserActs, Begins, status
<1>4. CASE UserLogsOut
  BY <1>1, <1>4, Aside DEF UserLogsOut, UserActs
<1> QED  BY <1>2, <1>3, <1>4

\* A datagram is queued behind those of its own and of earlier attempts.
LEMMA Arrives == ASSUME RunInv, NEW kind \in Kinds, Arrive(kind) PROVE RunInv'
<1> DEFINE D == [attempt : 1..attempt, kind : Kinds]
           d == [attempt |-> socket, kind |-> kind]
<1>1. /\ TypeOK /\ attempt \in Nat /\ queue \in Seq(D) /\ conn.attempt \in {0, attempt}
      /\ socket \in {0, conn.attempt}
  BY Bounds DEF RunInv, Typed, TypeOK, OneSocket
<1>2. /\ UNCHANGED <<loop, stop, attempt, conn, client, told, socket, resolved, tasks, hist>>
      /\ socket # 0 /\ queue' = Append(queue, d)
      /\ session' \in {"open", "over", session}
  BY DEF Arrive, status
<1>3. d \in D /\ d.attempt = attempt /\ conn.attempt = attempt
  BY <1>1, <1>2
<1>4. \A i \in 1..Len(queue) : queue[i].attempt <= attempt
  <2>1. ASSUME NEW i \in 1..Len(queue) PROVE queue[i].attempt <= attempt
    <3>1. queue[i] \in D
      <4> HIDE DEF D
      <4> QED  BY <1>1, ElementOfSeq
    <3> QED  BY <1>1, <3>1
  <2> QED  BY <2>1
<1>5. /\ queue' \in Seq(D) /\ Len(queue) \in Nat /\ Len(queue') = Len(queue) + 1
      /\ \A i \in 1..Len(queue) : queue'[i] = queue[i]
      /\ queue'[Len(queue) + 1] = d
  <2> HIDE DEF D, d
  <2> QED  BY <1>1, <1>2, <1>3, AppendProperties
<1>6. Typed'
  <2>1. TypeOK'
    BY <1>1, <1>2, <1>5 DEF TypeOK
  <2> QED  BY <1>2, <2>1 DEF RunInv, Typed
<1>7. Queued'
  <2>1. ASSUME NEW i \in 1..Len(queue'), NEW j \in 1..Len(queue'), i <= j
        PROVE  queue'[i].attempt <= queue'[j].attempt
    <3>1. CASE j \in 1..Len(queue)
      <4>1. i \in 1..Len(queue)
        BY <1>5, <2>1, <3>1
      <4> QED  BY <1>5, <2>1, <3>1, <4>1 DEF RunInv, Queued
    <3>2. CASE j = Len(queue) + 1
      <4>1. queue'[j].attempt = attempt
        BY <1>3, <1>5, <3>2
      <4>2. CASE i \in 1..Len(queue)
        BY <1>4, <1>5, <4>1, <4>2
      <4>3. CASE i = j
        BY <1>1, <4>1, <4>3
      <4> QED  BY <1>5, <2>1, <3>2, <4>2, <4>3
    <3> QED  BY <1>5, <2>1, <3>1, <3>2
  <2>2. ASSUME conn'.state = "connected", NEW i \in 1..Len(queue'),
               queue'[i].kind \in Bodies
        PROVE  queue'[i].attempt = conn'.attempt
    <3>1. CASE i \in 1..Len(queue)
      BY <1>2, <1>5, <2>2, <3>1 DEF RunInv, Queued
    <3>2. CASE i = Len(queue) + 1
      BY <1>2, <1>3, <1>5, <3>2
    <3> QED  BY <1>5, <2>2, <3>1, <3>2
  <2> QED  BY <2>1, <2>2 DEF Queued
<1>8. Known' /\ Counted' /\ NeverStale'
  BY <1>2 DEF RunInv, Known, ConsumersKnow, Counted, AbortIff, NeverStale
<1>9. OneSocket'
  BY <1>2 DEF RunInv, OneSocket
<1> QED  BY <1>6, <1>7, <1>8, <1>9 DEF RunInv

\* Reading the first datagram leaves the others in order.
LEMMA Dequeued ==
  ASSUME RunInv, queue # <<>>, queue' = Tail(queue), UNCHANGED attempt
  PROVE  /\ queue' \in Seq([attempt : 1..attempt, kind : Kinds])
         /\ Head(queue) \in [attempt : 1..attempt, kind : Kinds]
         /\ Head(queue) = queue[1] /\ 1 \in 1..Len(queue)
         /\ \A i, j \in 1..Len(queue') : i <= j => queue'[i].attempt <= queue'[j].attempt
         /\ \A i \in 1..Len(queue') :
              /\ queue'[i] \in [attempt : 1..attempt, kind : Kinds]
              /\ Head(queue).attempt <= queue'[i].attempt
              /\ \E j \in 1..Len(queue) : queue'[i] = queue[j]
<1> DEFINE D == [attempt : 1..attempt, kind : Kinds]
<1>1. queue \in Seq(D)
  BY DEF RunInv, Typed, TypeOK
<1>2. \A i, j \in 1..Len(queue) : i <= j => queue[i].attempt <= queue[j].attempt
  BY DEF RunInv, Queued
<1> HIDE DEF D
<1>3. /\ queue' \in Seq(D) /\ Head(queue) \in D /\ Head(queue) = queue[1]
      /\ Len(queue) \in Nat \ {0} /\ Len(queue') = Len(queue) - 1
      /\ \A i \in 1..Len(queue') : queue'[i] = queue[i + 1]
  BY <1>1
<1>4. \A i \in 1..Len(queue') : i + 1 \in 1..Len(queue) /\ 1 <= i + 1
  BY <1>3
<1>5. 1 \in 1..Len(queue)
  BY <1>3
<1>6. \A i, j \in 1..Len(queue') : i <= j => queue'[i].attempt <= queue'[j].attempt
  BY <1>2, <1>3, <1>4
<1>7. ASSUME NEW i \in 1..Len(queue')
      PROVE  /\ queue'[i] \in D /\ Head(queue).attempt <= queue'[i].attempt
             /\ \E j \in 1..Len(queue) : queue'[i] = queue[j]
  <2>1. queue'[i] = queue[i + 1] /\ i + 1 \in 1..Len(queue) /\ 1 <= i + 1
    BY <1>3, <1>4
  <2>2. queue'[i] \in D
    BY <1>3, ElementOfSeq
  <2>3. queue[1].attempt <= queue[i + 1].attempt
    BY <1>2, <1>5, <2>1
  <2> QED  BY <1>3, <2>1, <2>2, <2>3
<1> QED  BY <1>3, <1>5, <1>6, <1>7 DEF D

\* A body that fails: the streak and its history count together.
LEMMA BadBodies ==
  ASSUME RunInv, BadBody
  PROVE  /\ client' \in Clients /\ Known /\ UNCHANGED told
         /\ client'.connState = client.connState /\ client'.loggedIn = client.loggedIn
         /\ client'.lastEmit = client.lastEmit
         /\ Counted' /\ tasks' \in {tasks, tasks \cup {"desync"}}
         /\ hist' \in [stale : BOOLEAN, run : 0..Limit, longest : 0..Limit]
         /\ hist'.stale = hist.stale
<1> DEFINE streak == CountTo(client.streak)
           aborts == streak >= Limit /\ ~client.abortStarted
<1>1. /\ client \in Clients /\ hist \in [stale : BOOLEAN, run : 0..Limit, longest : 0..Limit]
      /\ client.streak = hist.run /\ Known
      /\ client.abortStarted <=> hist.longest >= Limit
      /\ client.streak \in 0..Limit /\ hist.longest \in 0..Limit /\ Limit \in Nat \ {0}
  BY Bounds DEF RunInv, Typed, Counted, AbortIff, Limit, Clients
<1>2. streak \in 0..Limit
  BY <1>1 DEF CountTo, Limit
<1>3. /\ client' = [client EXCEPT !.streak = streak, !.abortStarted = @ \/ aborts]
      /\ hist' = [hist EXCEPT !.run = streak,
                              !.longest = IF streak > @ THEN streak ELSE @]
      /\ tasks' \in {tasks, tasks \cup {"desync"}} /\ UNCHANGED told
  BY <1>1 DEF BadBody, Begins, Limit
<1> HIDE DEF streak
<1>4. /\ client' \in Clients /\ client'.streak = streak
      /\ client'.connState = client.connState /\ client'.loggedIn = client.loggedIn
      /\ client'.lastEmit = client.lastEmit
      /\ client'.abortStarted = (client.abortStarted \/ aborts)
  BY <1>1, <1>2, <1>3 DEF Clients
<1>5. /\ hist' \in [stale : BOOLEAN, run : 0..Limit, longest : 0..Limit]
      /\ hist'.stale = hist.stale /\ hist'.run = streak
      /\ hist'.longest = IF streak > hist.longest THEN streak ELSE hist.longest
  BY <1>1, <1>2, <1>3
<1>6. client'.abortStarted <=> hist'.longest >= Limit
  <2>1. CASE client.abortStarted
    <3>1. client'.abortStarted
      BY <1>4, <2>1
    <3>2. hist.longest >= Limit /\ hist'.longest >= hist.longest
      BY <1>1, <1>2, <1>5, <2>1
    <3>3. hist'.longest >= Limit
      BY <1>1, <1>5, <3>2
    <3> QED  BY <3>1, <3>3
  <2>2. CASE ~client.abortStarted
    <3>1. client'.abortStarted <=> streak >= Limit
      BY <1>4, <2>2
    <3>2. hist'.longest >= Limit <=> streak >= Limit
      BY <1>1, <1>2, <1>5, <2>2
    <3> QED  BY <3>1, <3>2
  <2> QED  BY <2>1, <2>2
<1> QED  BY <1>1, <1>3, <1>4, <1>5, <1>6 DEF Counted, AbortIff, Limit

\* A body that decodes, while the connection stands: the streak ends.
LEMMA GoodBodies ==
  ASSUME RunInv, GoodBody, conn.state = "connected", UNCHANGED conn
  PROVE  /\ client' \in Clients /\ told' \in Statuses \X BOOLEAN /\ Known' /\ Counted'
         /\ tasks' = tasks
         /\ hist' \in [stale : BOOLEAN, run : 0..Limit, longest : 0..Limit]
         /\ hist'.stale = hist.stale
<1> DEFINE e == [client EXCEPT !.streak = 0]
<1>1. /\ client \in Clients /\ hist \in [stale : BOOLEAN, run : 0..Limit, longest : 0..Limit]
      /\ client.lastEmit \in {<<>>, told} /\ told \in Statuses \X BOOLEAN
      /\ client.abortStarted <=> hist.longest >= Limit
      /\ client.connState \in {"connected", "ingame_loggedout"} /\ Limit \in Nat \ {0}
  BY Bounds DEF RunInv, Typed, Known, ConsumersKnow, Counted, AbortIff, Limit
<1>2. /\ e \in Clients /\ e.streak = 0 /\ e.connState = client.connState
      /\ e.lastEmit = client.lastEmit /\ e.abortStarted = client.abortStarted
  BY <1>1 DEF Clients
<1>3. PICK c \in After(e) : Reports(c)
  BY DEF GoodBody
<1> HIDE DEF e
<1>4. /\ c \in Clients /\ c.connState \in {"connected", "ingame_loggedout"}
      /\ c.lastEmit = client.lastEmit /\ c.streak = 0
      /\ c.abortStarted = client.abortStarted
  <2>1. CASE c = e
    BY <1>1, <1>2, <2>1
  <2>2. CASE c = [e EXCEPT !.connState = "ingame_loggedout"]
    BY <1>1, <1>2, <2>2 DEF Clients, Statuses
  <2>3. CASE c = [e EXCEPT !.loggedIn = TRUE]
    BY <1>1, <1>2, <2>3 DEF Clients
  <2> QED  BY <1>3, <2>1, <2>2, <2>3 DEF After
<1>5. /\ client' \in Clients
      /\ client'.connState = c.connState /\ client'.loggedIn = c.loggedIn
      /\ client'.streak = c.streak /\ client'.abortStarted = c.abortStarted
      /\ told' = <<c.connState, c.loggedIn>> /\ client'.lastEmit = told'
      /\ told' \in Statuses \X BOOLEAN
  BY <1>1, <1>3, <1>4, Reported
<1>6. Known'
  BY <1>4, <1>5 DEF Known, ConsumersKnow
<1>7. hist' = [hist EXCEPT !.run = 0] /\ tasks' = tasks
  BY DEF GoodBody
<1>8. /\ hist' \in [stale : BOOLEAN, run : 0..Limit, longest : 0..Limit]
      /\ hist'.stale = hist.stale /\ hist'.run = 0 /\ hist'.longest = hist.longest
  BY <1>1, <1>7
<1>9. Counted'
  BY <1>1, <1>4, <1>5, <1>8 DEF Counted, AbortIff, Limit
<1> QED  BY <1>5, <1>6, <1>7, <1>8, <1>9

\* The pump reads the datagram at the head of the queue.
LEMMA PumpKeeps == ASSUME RunInv, Pump PROVE RunInv'
<1> DEFINE d == Head(queue)
           D == [attempt : 1..attempt, kind : Kinds]
<1>1. /\ TypeOK /\ conn \in Conns /\ client \in Clients /\ told \in Statuses \X BOOLEAN
      /\ hist \in [stale : BOOLEAN, run : 0..Limit, longest : 0..Limit] /\ ~hist.stale
      /\ Known /\ Counted /\ conn.attempt \in {0, attempt} /\ attempt \in Nat
      /\ (conn.attempt = 0 => conn = NoConn) /\ socket \in {0, conn.attempt}
      /\ tasks \subseteq {"server", "desync", "silent", "bridge"}
  BY Bounds DEF RunInv, Typed, TypeOK, OneSocket, NeverStale
<1>2. /\ UNCHANGED <<loop, stop, attempt, socket, resolved, session>>
      /\ queue # <<>> /\ queue' = Tail(queue) /\ conn.pump
      /\ IF d.kind \in Bodies THEN Process(d) ELSE HandleOob(d)
  BY DEF Pump
<1>3. /\ queue' \in Seq(D) /\ d \in D /\ d = queue[1] /\ 1 \in 1..Len(queue)
      /\ \A i, j \in 1..Len(queue') : i <= j => queue'[i].attempt <= queue'[j].attempt
      /\ \A i \in 1..Len(queue') :
           /\ queue'[i] \in D /\ d.attempt <= queue'[i].attempt
           /\ \E j \in 1..Len(queue) : queue'[i] = queue[j]
  BY <1>2, Dequeued
<1>4. conn.attempt = attempt /\ attempt # 0
  BY <1>1, <1>2 DEF NoConn
<1> HIDE DEF d
\* What is left to show of any kind of datagram.
<1>5. ASSUME conn' \in Conns, conn'.attempt = conn.attempt,
             client' \in Clients, told' \in Statuses \X BOOLEAN, Known', Counted',
             hist' \in [stale : BOOLEAN, run : 0..Limit, longest : 0..Limit], ~hist'.stale,
             tasks' \subseteq {"server", "desync", "silent", "bridge"},
             conn'.state = "connected" =>
               \/ conn.state = "connected"
               \/ d.attempt = attempt
      PROVE  RunInv'
  <2>1. TypeOK'
    BY <1>1, <1>2, <1>3, <1>4, <1>5 DEF TypeOK
  <2>2. Typed'
    BY <1>5, <2>1 DEF Typed
  <2>3. OneSocket'
    BY <1>1, <1>2, <1>4, <1>5 DEF RunInv, OneSocket, NoConn
  <2>4. ASSUME conn'.state = "connected", NEW i \in 1..Len(queue'), queue'[i].kind \in Bodies
        PROVE  queue'[i].attempt = conn'.attempt
    <3>1. CASE conn.state = "connected"
      <4>1. PICK j \in 1..Len(queue) : queue'[i] = queue[j]
        BY <1>3
      <4> QED  BY <1>5, <2>4, <3>1, <4>1 DEF RunInv, Queued
    <3>2. CASE d.attempt = attempt
      BY <1>1, <1>3, <1>4, <1>5, <3>2, SMTT(30)
    <3> QED  BY <1>5, <2>4, <3>1, <3>2
  <2>5. Queued'
    BY <1>3, <2>4 DEF Queued
  <2> QED  BY <1>5, <2>2, <2>3, <2>5 DEF RunInv, NeverStale
\* A datagram that is ignored, or makes a teardown begin.
<1>6. CASE /\ UNCHANGED <<conn, client, told, hist>>
           /\ tasks' \in {tasks, tasks \cup {"server"}}
  <2>1. Known' /\ Counted'
    BY <1>1, <1>6 DEF Known, ConsumersKnow, Counted, AbortIff
  <2> QED  BY <1>1, <1>5, <1>6, <2>1
<1>7. CASE d.kind \in Bodies /\ conn.state = "connected"
  <2>1. d.attempt = conn.attempt
    BY <1>3, <1>7 DEF RunInv, Queued
  <2>2. UNCHANGED conn /\ (BadBody \/ GoodBody)
    BY <1>2, <1>7, <2>1 DEF Process
  <2>3. CASE BadBody
    <3>1. /\ client' \in Clients /\ UNCHANGED told
          /\ client'.connState = client.connState /\ client'.loggedIn = client.loggedIn
          /\ client'.lastEmit = client.lastEmit
          /\ Counted' /\ tasks' \in {tasks, tasks \cup {"desync"}}
          /\ hist' \in [stale : BOOLEAN, run : 0..Limit, longest : 0..Limit]
          /\ hist'.stale = hist.stale
      BY <2>3, BadBodies
    <3>2. Known'
      BY <1>1, <2>2, <3>1 DEF Known, ConsumersKnow
    <3> QED  BY <1>1, <1>5, <1>7, <2>2, <3>1, <3>2
  <2>4. CASE GoodBody
    <3>1. /\ client' \in Clients /\ told' \in Statuses \X BOOLEAN /\ Known' /\ Counted'
          /\ tasks' = tasks
          /\ hist' \in [stale : BOOLEAN, run : 0..Limit, longest : 0..Limit]
          /\ hist'.stale = hist.stale
      BY <1>7, <2>2, <2>4, GoodBodies
    <3> QED  BY <1>1, <1>5, <1>7, <2>2, <3>1
  <2> QED  BY <2>2, <2>3, <2>4
<1>8. CASE /\ d.kind \notin Bodies /\ d.attempt = conn.attempt /\ d.kind # "disconnect"
  <2> DEFINE state == IF d.kind = "accept" THEN "connected" ELSE "rejected"
  <2>1. SetState(conn, state, client) /\ UNCHANGED <<tasks, hist>>
    BY <1>2, <1>8 DEF HandleOob
  <2>2. state \in ConnStates \ {"none"} /\ state \in Terminal \cup {"connected"}
    BY DEF ConnStates, Terminal
  <2> HIDE DEF state
  <2>3. /\ conn' = [conn EXCEPT !.state = state] /\ conn' \in Conns
        /\ client' \in Clients /\ told' \in Statuses \X BOOLEAN
        /\ client'.streak = client.streak /\ client'.abortStarted = client.abortStarted
        /\ Known'
    BY <1>1, <2>1, <2>2, StateChange
  <2>4. conn'.attempt = conn.attempt
    BY <1>1, <2>3 DEF Conns
  <2>5. Counted'
    BY <1>1, <2>1, <2>3 DEF Counted, AbortIff
  <2> QED  BY <1>1, <1>4, <1>5, <1>8, <2>1, <2>3, <2>4, <2>5
<1>9. QED
  <2>1. CASE d.kind \in Bodies /\ conn.state # "connected"
    BY <1>2, <1>6, <2>1 DEF Process, Ignored, status
  <2>2. CASE d.kind \notin Bodies /\ d.attempt # conn.attempt
    BY <1>2, <1>6, <2>2 DEF HandleOob, Ignored, status
  <2>3. CASE d.kind \notin Bodies /\ d.attempt = conn.attempt /\ d.kind = "disconnect"
    BY <1>2, <1>6, <2>3 DEF HandleOob, Begins, status
  <2> QED  BY <1>7, <1>8, <2>1, <2>2, <2>3

-----------------------------------------------------------------------------
(* Theorems *)

\* Whatever the order of signals, teardowns, datagrams and bridge actions, the parts
\* of the run loop agree: the invariant the properties below follow from.
THEOREM RunInvariant == Spec => []RunInv
<1>1. Init => RunInv
  BY InitRunInv
<1>2. RunInv /\ [Next]_vars => RunInv'
  <2> SUFFICES ASSUME RunInv, [Next]_vars PROVE RunInv'
    OBVIOUS
  <2>1. CASE LoopStep
    BY <2>1, ConnectMoves, LoopMoves, Opens, HandshakeFailsKeeps, CloseAttemptKeeps, Leaves
    DEF LoopStep
  <2>2. CASE Signal
    BY <2>2, LoopMoves
  <2>3. CASE Pump
    BY <2>3, PumpKeeps
  <2>4. CASE ServerSilent \/ UserDisconnects \/ UserLogsOut
    BY <2>4, AsideMoves
  <2>5. CASE \E kind \in Kinds : Arrive(kind)
    BY <2>5, Arrives
  <2>6. CASE \E t \in tasks : FinishTask(t)
    BY <2>6, TaskEnds
  <2>7. CASE UNCHANGED vars
    BY <2>7 DEF vars, network, status, RunInv, Typed, TypeOK, Known, ConsumersKnow, Counted,
                AbortIff, OneSocket, Queued, NeverStale
  <2> QED  BY <2>1, <2>2, <2>3, <2>4, <2>5, <2>6, <2>7 DEF Next
<1> QED  BY <1>1, <1>2, PTL DEF Spec

\* Every variable of the run loop keeps its type (main.py 370-420).
THEOREM RunLoopTyping == Spec => []TypeOK
<1>1. RunInv => TypeOK
  BY DEF RunInv, Typed
<1> QED  BY <1>1, RunInvariant, PTL

\* The pump never reads a body of an earlier attempt: the transport's queue outlives
\* the socket, but the accept of an attempt is queued behind everything of the earlier
\* ones, and bodies are only read once it has been (transport.py 80, netconn.py 485).
THEOREM NeverStaleHolds == Spec => []NeverStale
<1>1. RunInv => NeverStale
  BY DEF RunInv
<1> QED  BY <1>1, RunInvariant, PTL

\* The status told last is the client's status, and logged in or in the game only
\* while the connection stands (client.py 1025-1054).
THEOREM ConsumersKnowHolds == Spec => []ConsumersKnow
<1>1. RunInv => ConsumersKnow
  BY DEF RunInv, Known
<1> QED  BY <1>1, RunInvariant, PTL

\* A connection is given up for its bodies exactly if as many of its own as the limit
\* failed in a row (client.py 388-482).
THEOREM AbortIffHolds == Spec => []AbortIff
<1>1. RunInv => AbortIff
  BY DEF RunInv, Counted
<1> QED  BY <1>1, RunInvariant, PTL
=============================================================================
