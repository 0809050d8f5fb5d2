--------------------------- MODULE WebSocketFrames ---------------------------
(***************************************************************************)
(* websocket.py, receiving: frames of one client become messages.  The     *)
(* client follows RFC 6455: fragments of one message in order, control     *)
(* frames anywhere between them.                                           *)
(***************************************************************************)
EXTENDS Naturals, Sequences, SequencesExt

CONSTANTS MaxFrames  \* bound: frames sent

VARIABLES
  frames,     \* history: the data frames sent, [op, fin, part]
  control,    \* history: the control frames sent
  parts,      \* of the reader: fragments of the message
  isText,     \* message_is_text
  messages,   \* text messages dispatched
  pongs,      \* PINGs answered
  loop        \* the read loop: reading, ended

frameVars == <<frames, control, parts, isText, messages, pongs, loop>>

FramesInit ==
  /\ frames = <<>> /\ control = <<>> /\ parts = <<>> /\ isText = FALSE
  /\ messages = <<>> /\ pongs = <<>> /\ loop = "reading"

Sent == Len(frames) + Len(control)

\* The client is in the middle of a message.
Fragmented == frames # <<>> /\ ~Last(frames).fin

\* Mutant: a fragment takes the place of the ones before it.
GatheredLast(op, part) == <<part>>

\* The fragments with this frame.
Gathered(op, part) == IF op = "cont" THEN Append(parts, part) ELSE <<part>>

DataFrame(op, fin) ==
  /\ loop = "reading" /\ Sent < MaxFrames
  /\ (op = "cont") = Fragmented
  /\ LET part == Len(frames) + 1
         text == IF op = "cont" THEN isText ELSE op = "text"
     IN /\ frames' = Append(frames, [op |-> op, fin |-> fin, part |-> part])
        /\ isText' = text
        /\ parts' = IF fin THEN <<>> ELSE Gathered(op, part)
        /\ messages' = IF fin /\ text THEN Append(messages, Gathered(op, part)) ELSE messages
  /\ UNCHANGED <<control, pongs, loop>>

\* A PING is answered; PONG and unknown opcodes are passed over.
ControlFrame(op) ==
  /\ loop = "reading" /\ Sent < MaxFrames
  /\ control' = Append(control, op)
  /\ pongs' = IF op = "ping" THEN Append(pongs, Len(control')) ELSE pongs
  /\ UNCHANGED <<frames, parts, isText, messages, loop>>

\* CLOSE, the end of the stream, within a frame too, or a length above the limit.
EndFrame ==
  /\ loop = "reading"
  /\ loop' = "ended"
  /\ UNCHANGED <<frames, control, parts, isText, messages, pongs>>

FramesNext ==
  \/ \E op \in {"text", "binary", "cont"}, fin \in BOOLEAN : DataFrame(op, fin)
  \/ \E op \in {"ping", "pong", "other"} : ControlFrame(op)
  \/ EndFrame

FramesSpec == FramesInit /\ [][FramesNext]_frameVars

-----------------------------------------------------------------------------
FramesFrom(i, j) == [k \in 1 .. j - i + 1 |-> i + k - 1]

\* The frames from i to j are one text message.
IsMessage(i, j) ==
  /\ frames[i].op = "text" /\ frames[j].fin /\ i <= j
  /\ \A k \in i .. j - 1 : ~frames[k].fin

\* The parts of each text message that was sent completely.
TextMessages ==
  LET sent == (1..Len(frames)) \X (1..Len(frames))
  IN {FramesFrom(p[1], p[2]) : p \in {q \in sent : IsMessage(q[1], q[2])}}

\* Every text message of a WebSocket client is dispatched once and whole, in order, however
\* it is fragmented (websocket.py 301-337); and every PING is answered, with its own
\* payload, in order.
FramesAsSent ==
  /\ {messages[i] : i \in 1..Len(messages)} = TextMessages
  /\ \A i, j \in 1..Len(messages) : i < j => messages[i][1] < messages[j][1]
  /\ {pongs[i] : i \in 1..Len(pongs)} = {i \in 1..Len(control) : control[i] = "ping"}
  /\ \A i, j \in 1..Len(pongs) : i < j => pongs[i] < pongs[j]
=============================================================================
