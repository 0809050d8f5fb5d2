------------------------------- MODULE RunLoop -------------------------------
(***************************************************************************)
(* The run loop of main.py with AotClient's connect, disconnect and reset: *)
(* one attempt after another on one UdpTransport, whose receive queue      *)
(* outlives the socket.  The steps of one handshake and of one teardown    *)
(* are Handshake's; here each is a wait that anything may happen in.       *)
(***************************************************************************)
EXTENDS Naturals, Sequences

CONSTANTS
  AutoReconnect,           \* AUTO_RECONNECT
  HostConfigured,          \* AOT_SERVER_HOST is set
  BODY_FAIL_STREAK_LIMIT,
  MaxAttempts,             \* bounds: attempts, datagrams queued, bridge actions
  MaxQueue,
  MaxUser

ASSUME RunLoopAssumption ==
  /\ {AutoReconnect, HostConfigured} \subseteq BOOLEAN
  /\ {BODY_FAIL_STREAK_LIMIT, MaxAttempts} \subseteq Nat \ {0}
  /\ {MaxQueue, MaxUser} \subseteq Nat

VARIABLES
  loop,      \* where _main is
  stop,      \* the stop event
  attempt,   \* number of the current connect()
  conn,      \* NetConnection of the client; none when conn.attempt = 0
  client,    \* AotClient's status, login flag and failure streak
  told,      \* the status its consumers were told last
  socket,    \* attempt whose socket is open, 0 if none
  queue,     \* UdpTransport._queue
  tasks,     \* who else is tearing the connection down
  resolved,  \* _resolved_host is known
  session,   \* the server's view of the attempt of this socket
  user,      \* bridge actions so far
  hist       \* history: stale body read, failures in a row, longest such run

status == <<client, told>>
network == <<socket, queue, resolved, session>>
vars == <<loop, stop, attempt, conn, status, network, tasks, user, hist>>

NoConn == [attempt |-> 0, state |-> "none", pump |-> FALSE]

\* _build_protocol_stack
FreshClient == [connState |-> "disconnected", loggedIn |-> FALSE, lastEmit |-> <<>>,
                streak |-> 0, abortStarted |-> FALSE]

Init ==
  /\ loop = "top" /\ stop = FALSE /\ attempt = 0
  /\ conn = NoConn /\ client = FreshClient /\ told = <<"disconnected", FALSE>>
  /\ socket = 0 /\ queue = <<>> /\ tasks = {}
  /\ resolved = FALSE /\ session = "new" /\ user = 0
  /\ hist = [stale |-> FALSE, run |-> 0, longest |-> 0]

-----------------------------------------------------------------------------
(* Status reports.                                                         *)

\* _set_connection: c, unless its status is what was emitted last.
Reports(c) ==
  LET key == <<c.connState, c.loggedIn>>
  IN /\ client' = [c EXCEPT !.lastEmit = key]
     /\ told' = IF key = c.lastEmit THEN told ELSE key

Terminal == {"disconnected", "timed_out", "rejected"}

\* Mutant: the login flag outlives the connection.
EnteredLoggedIn(c, state) == [c EXCEPT !.connState = state]

\* _on_conn_state
Entered(c, state) ==
  [c EXCEPT !.connState = state, !.loggedIn = @ /\ state \notin Terminal]

\* NetConnection._set_state, with on_state_change; c is the client before it.
SetState(cn, state, c) ==
  /\ conn' = [cn EXCEPT !.state = state]
  /\ Reports(IF state = cn.state THEN c ELSE Entered(c, state))

\* AotClient.disconnect, its last part: the pump has stopped, the socket closes.
Closes(c) ==
  /\ socket' = 0
  /\ IF conn.attempt = 0 THEN Reports(c) /\ UNCHANGED conn
     ELSE SetState([conn EXCEPT !.pump = FALSE], "disconnected", c)

-----------------------------------------------------------------------------
(* The loop of _main.                                                      *)

Goes(to) ==
  /\ loop' = to
  /\ UNCHANGED <<stop, attempt, tasks, user>>

\* The attempt is over: leave, or tear it down and try again.
AttemptOver == Goes(IF stop \/ ~AutoReconnect THEN "leaving" ELSE "closing")

\* AotClient.connect up to its first wait.
Connect(c) ==
  /\ ~stop /\ attempt < MaxAttempts
  /\ attempt' = attempt + 1
  /\ Reports([c EXCEPT !.connState = "connecting"])
  /\ loop' = IF HostConfigured \/ resolved THEN "opening" ELSE "resolving"
  /\ UNCHANGED <<stop, network, tasks, user>>

FirstConnect ==
  /\ loop = "top"
  /\ Connect(client)
  /\ UNCHANGED <<conn, hist>>

Resolve ==
  /\ loop = "resolving"
  /\ Goes("opening")
  /\ resolved' = TRUE
  /\ UNCHANGED <<conn, status, socket, queue, session, hist>>

\* MasterServerError
CannotResolve ==
  /\ loop = "resolving"
  /\ AttemptOver
  /\ UNCHANGED <<conn, status, network, hist>>

\* The socket is bound and the connection made; its pump and handshake start.
Open ==
  /\ loop = "opening"
  /\ Goes("handshake")
  /\ socket' = attempt
  /\ SetState([NoConn EXCEPT !.attempt = attempt, !.pump = TRUE],
              "awaiting_challenge_response", client)
  /\ session' = "new"
  /\ UNCHANGED <<queue, resolved, hist>>

HandshakeOk ==
  /\ loop = "handshake" /\ conn.state = "connected"
  /\ Goes("running")
  /\ UNCHANGED <<conn, status, network, hist>>

\* Rejected, torn down from elsewhere, or never answered.
HandshakeFails ==
  /\ loop = "handshake" /\ conn.state # "connected"
  /\ AttemptOver
  /\ IF conn.state = "rejected" THEN UNCHANGED <<conn, status>>
     ELSE SetState(conn, "timed_out", client)
  /\ UNCHANGED <<network, hist>>

\* Mutant: the loop waits for the stop event only.
SeesDropNot ==
  /\ loop = "running" /\ stop
  /\ AttemptOver
  /\ UNCHANGED <<conn, status, network, hist>>

\* The poll of is_connected, once a second, or the stop event.
SeesDrop ==
  /\ loop = "running" /\ (stop \/ conn.state # "connected")
  /\ AttemptOver
  /\ UNCHANGED <<conn, status, network, hist>>

\* disconnect("reconnecting"), then mark_reconnecting.
CloseAttempt ==
  /\ loop = "closing"
  /\ Goes("waiting")
  /\ socket' = 0
  /\ conn' = [conn EXCEPT !.state = IF conn.attempt = 0 THEN @ ELSE "disconnected",
                          !.pump = FALSE]
  /\ Reports([client EXCEPT !.connState = "reconnecting", !.loggedIn = FALSE])
  /\ UNCHANGED <<queue, resolved, session, hist>>

\* The wait is over: reset() and the next connect().  Other teardowns wait for the
\* same two tasks as CloseAttempt, and have ended by then.
NextAttempt ==
  /\ loop = "waiting" /\ tasks = {}
  /\ Connect(FreshClient)
  /\ conn' = NoConn
  /\ hist' = [hist EXCEPT !.run = 0, !.longest = 0]

\* Mutant: the wait between two attempts is a plain sleep.
SeesStopLate ==
  /\ loop = "top" /\ stop
  /\ Goes("leaving")
  /\ UNCHANGED <<conn, status, network, hist>>

SeesStop ==
  /\ loop \in {"top", "waiting"} /\ stop
  /\ Goes("leaving")
  /\ UNCHANGED <<conn, status, network, hist>>

\* The finally block.
Leave ==
  /\ loop = "leaving"
  /\ Goes("done")
  /\ Closes(client)
  /\ UNCHANGED <<queue, resolved, session, hist>>

Signal ==
  /\ ~stop /\ loop # "done"
  /\ stop' = TRUE
  /\ UNCHANGED <<loop, attempt, conn, status, network, tasks, user, hist>>

-----------------------------------------------------------------------------
(* The receive pump.                                                       *)

\* A teardown that two ask for at once is one: the second finds nothing to do.
Begins(who) == tasks' = tasks \cup {who}

\* What a body that decodes may end with: the mission load, or the login.
After(c) == {c, [c EXCEPT !.connState = "ingame_loggedout"], [c EXCEPT !.loggedIn = TRUE]}

\* Mutant: a body that decodes does not end the streak.
GoodBodyKeepsStreak ==
  /\ hist' = [hist EXCEPT !.run = 0]
  /\ \E c \in After(client) : Reports(c)
  /\ UNCHANGED tasks

GoodBody ==
  /\ hist' = [hist EXCEPT !.run = 0]
  /\ \E c \in After([client EXCEPT !.streak = 0]) : Reports(c)
  /\ UNCHANGED tasks

\* The counts stay at the limit once they reach it.
CountTo(n) == IF n < BODY_FAIL_STREAK_LIMIT THEN n + 1 ELSE n

\* _note_body_failure, and _on_fatal_desync once the streak is too long.
BadBody ==
  LET streak == CountTo(client.streak)
      aborts == streak >= BODY_FAIL_STREAK_LIMIT /\ ~client.abortStarted
      run == CountTo(hist.run)
  IN /\ client' = [client EXCEPT !.streak = streak, !.abortStarted = @ \/ aborts]
     /\ hist' = [hist EXCEPT !.run = run, !.longest = IF run > @ THEN run ELSE @]
     /\ IF aborts THEN Begins("desync") ELSE UNCHANGED tasks
     /\ UNCHANGED told

Bodies == {"good", "bad"}

Ignored == UNCHANGED <<conn, status, tasks, hist>>

\* Mutant: the body is read whatever the state of the connection.
ProcessAlways(d) ==
  IF d.attempt # conn.attempt
  THEN hist' = [hist EXCEPT !.stale = TRUE] /\ UNCHANGED <<conn, status, tasks>>
  ELSE /\ IF d.kind = "bad" THEN BadBody ELSE GoodBody
       /\ UNCHANGED conn

\* _process_raw_packet: data counts only while connected.
Process(d) ==
  IF conn.state # "connected" THEN Ignored
  ELSE IF d.attempt # conn.attempt
  THEN hist' = [hist EXCEPT !.stale = TRUE] /\ UNCHANGED <<conn, status, tasks>>
  ELSE /\ IF d.kind = "bad" THEN BadBody ELSE GoodBody
       /\ UNCHANGED conn

\* _handle_oob: the other datagrams carry the number of their attempt.
HandleOob(d) ==
  IF d.attempt # conn.attempt THEN Ignored
  ELSE IF d.kind = "disconnect"
  THEN Begins("server") /\ UNCHANGED <<conn, status, hist>>
  ELSE /\ SetState(conn, IF d.kind = "accept" THEN "connected" ELSE "rejected", client)
       /\ UNCHANGED <<tasks, hist>>

Pump ==
  /\ conn.pump /\ queue # <<>>
  /\ queue' = Tail(queue)
  /\ LET d == Head(queue) IN IF d.kind \in Bodies THEN Process(d) ELSE HandleOob(d)
  /\ UNCHANGED <<loop, stop, attempt, socket, resolved, session, user>>

\* A datagram of the server reaches the open socket, whether or not a pump runs.
Arrive(kind) ==
  /\ socket # 0 /\ Len(queue) < MaxQueue
  /\ CASE kind \in {"accept", "reject"} -> session = "new" /\ loop = "handshake"
       [] kind = "disconnect"           -> session = "open"
       [] kind \in Bodies               -> session # "new"
  /\ queue' = Append(queue, [attempt |-> socket, kind |-> kind])
  /\ session' = CASE kind = "accept"     -> "open"
                  [] kind = "disconnect" -> "over"
                  [] OTHER               -> session
  /\ UNCHANGED <<loop, stop, attempt, conn, status, socket, resolved, tasks, user, hist>>

-----------------------------------------------------------------------------
(* Other teardowns, and what the bridges do.                               *)

\* The keep-alive task finds the server silent.
ServerSilent ==
  /\ loop = "running" /\ conn.state = "connected"
  /\ "silent" \notin tasks
  /\ Begins("silent")
  /\ UNCHANGED <<loop, stop, attempt, conn, status, network, user, hist>>

\* _shutdown has stopped the tasks of the connection.
FinishTask(t) ==
  /\ tasks' = tasks \ {t}
  /\ SetState([conn EXCEPT !.pump = FALSE],
              IF t = "silent" THEN "timed_out" ELSE "disconnected", client)
  /\ socket' = IF t = "bridge" THEN 0 ELSE socket
  /\ UNCHANGED <<loop, stop, attempt, queue, resolved, session, user, hist>>

UserActs ==
  /\ user < MaxUser /\ user' = user + 1
  /\ UNCHANGED <<loop, stop, attempt, conn, queue, resolved, session, hist>>

\* act_disconnect: without a connection it only closes the socket.
UserDisconnects ==
  /\ UserActs /\ loop # "done"
  /\ IF conn.attempt = 0 THEN socket' = 0 /\ UNCHANGED tasks
                         ELSE Begins("bridge") /\ UNCHANGED socket
  /\ UNCHANGED status

UserLogsOut ==
  /\ UserActs /\ loop # "done"
  /\ Reports([client EXCEPT !.loggedIn = FALSE])
  /\ UNCHANGED <<socket, tasks>>

-----------------------------------------------------------------------------
LoopStep ==
  \/ FirstConnect \/ Resolve \/ CannotResolve \/ Open \/ HandshakeOk \/ HandshakeFails
  \/ SeesDrop \/ CloseAttempt \/ NextAttempt \/ SeesStop \/ Leave

Kinds == Bodies \cup {"accept", "reject", "disconnect"}

Next ==
  \/ LoopStep \/ Signal \/ Pump \/ ServerSilent \/ UserDisconnects \/ UserLogsOut
  \/ \E kind \in Kinds : Arrive(kind)
  \/ \E t \in tasks : FinishTask(t)

Spec == Init /\ [][Next]_vars

\* Every wait of the loop is bounded by a timeout, and a teardown waits for two
\* cancelled tasks only.
FairSpec ==
  /\ Spec
  /\ WF_vars(LoopStep) /\ WF_vars(\E t \in tasks : FinishTask(t))

-----------------------------------------------------------------------------
TypeOK ==
  /\ loop \in {"top", "resolving", "opening", "handshake", "running", "closing", "waiting",
               "leaving", "done"}
  /\ {stop, resolved} \subseteq BOOLEAN
  /\ attempt \in 0..MaxAttempts /\ socket \in 0..attempt
  /\ session \in {"new", "open", "over"}
  /\ conn.attempt \in {0, attempt} /\ (conn.attempt = 0 => conn = NoConn)
  /\ queue \in Seq([attempt : 1..attempt, kind : Kinds])
  /\ tasks \subseteq {"server", "desync", "silent", "bridge"}

\* A body of an earlier attempt is never read by a later one, although datagrams that
\* arrive after the pump has stopped stay queued (transport.py 80, netconn.py 485).
NeverStale == ~hist.stale

\* The status told last is the client's status, also across attempts and whatever
\* order teardowns end in, and it is only logged in or in the game while the connection
\* stands (client.py 1025-1054).
ConsumersKnow ==
  /\ told = <<client.connState, client.loggedIn>>
  /\ told[1] \in {"connected", "ingame_loggedout"} <=> conn.state = "connected"
  /\ told[2] => conn.state = "connected"

\* A connection is given up for its bodies exactly if so many of its own failed in a
\* row, however failures and successes alternate (client.py 388-482).
AbortIff == client.abortStarted <=> hist.longest >= BODY_FAIL_STREAK_LIMIT

\* After a signal the program ends, wherever the loop is, with the socket closed and
\* the pump stopped (main.py 381-420).
StopFinishes == stop ~> (loop = "done" /\ socket = 0 /\ ~conn.pump)

\* A connection given up is noticed: the loop goes on to the next attempt, or ends.
AbortReconnects == client.abortStarted ~> loop \in {"waiting", "done"}
=============================================================================
