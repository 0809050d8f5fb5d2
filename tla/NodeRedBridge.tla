---------------------------- MODULE NodeRedBridge ----------------------------
(***************************************************************************)
(* nodered.py: one connection after another to Node-RED, and one task per  *)
(* event that writes it to the connection there is, if any.                *)
(***************************************************************************)
EXTENDS Naturals, Sequences

VARIABLES
  run,        \* the run task: connecting, up, sleeping, ended
  link,       \* the current writer: none, open, full, closing, lost
  connected,  \* _connected
  number,     \* connections made so far
  sends,      \* the send of each event
  sendReady,  \* tasks that are ready to run
  drains,     \* tasks waiting in drain(), in order
  lines,      \* what was written to this connection
  bridge      \* up, closing (stop() waits), down

nrVars == <<run, link, connected, number, sends, sendReady, drains, lines, bridge>>

NrInit(enabled) ==
  /\ run = IF enabled THEN "connecting" ELSE "ended"
  /\ bridge = IF enabled THEN "up" ELSE "down"
  /\ link = "none" /\ connected = FALSE /\ number = 0
  /\ sends = <<>> /\ sendReady = <<>> /\ drains = <<>> /\ lines = <<>>

-----------------------------------------------------------------------------
(* send()                                                                  *)

\* due: the connection there is now, 0 if none.
Send ==
  /\ sends' = Append(sends, [done |-> FALSE,
                             due |-> IF run = "up" /\ link \in {"open", "full"}
                                     THEN number ELSE 0])
  /\ sendReady' = Append(sendReady, Len(sends) + 1)
  /\ UNCHANGED <<run, link, connected, number, drains, lines, bridge>>

Done(e) == sends' = [sends EXCEPT ![e].done = TRUE]

Runs(e) ==
  /\ sendReady # <<>> /\ e = Head(sendReady)
  /\ sendReady' = Tail(sendReady)
  /\ UNCHANGED <<run, number, bridge>>

\* Not connected, or the writer is closing, which drops what is written.
Drops(e) ==
  /\ Runs(e) /\ Done(e)
  /\ ~connected \/ link \in {"none", "closing"}
  /\ UNCHANGED <<link, connected, drains, lines>>

\* write(), and drain() unless the buffer is full now.
WritesLine(e) ==
  /\ Runs(e)
  /\ connected /\ link \in {"open", "full"}
  /\ lines' = Append(lines, e)
  /\ \/ link = "open" /\ Done(e) /\ UNCHANGED <<link, drains>>
     \/ link' = "full" /\ drains' = Append(drains, e) /\ UNCHANGED sends
  /\ UNCHANGED connected

\* ConnectionError, in this call or after a wait.
Fails(e) ==
  /\ Runs(e) /\ Done(e)
  /\ connected /\ link = "lost"
  /\ connected' = FALSE
  /\ UNCHANGED <<link, drains, lines>>

\* The buffer has room again: the waiting tasks return.
DrainsLine ==
  /\ link = "full" /\ link' = "open"
  /\ sends' = [e \in 1..Len(sends) |->
                 IF \E i \in 1..Len(drains) : drains[i] = e
                 THEN [sends[e] EXCEPT !.done = TRUE] ELSE sends[e]]
  /\ drains' = <<>>
  /\ UNCHANGED <<run, connected, number, sendReady, lines, bridge>>

-----------------------------------------------------------------------------
(* _run()                                                                  *)

ConnectOk ==
  /\ run = "connecting"
  /\ run' = "up" /\ link' = "open" /\ connected' = TRUE
  /\ number' = number + 1 /\ lines' = <<>>
  /\ UNCHANGED <<sends, sendReady, drains, bridge>>

\* Mutant: a connect that fails ends the run task.
ConnectFailsForGood ==
  /\ run = "connecting"
  /\ run' = "ended"
  /\ UNCHANGED <<link, connected, number, sends, sendReady, drains, lines, bridge>>

ConnectFails ==
  /\ run = "connecting"
  /\ run' = IF bridge = "up" THEN "sleeping" ELSE "ended"
  /\ UNCHANGED <<link, connected, number, sends, sendReady, drains, lines, bridge>>

\* Node-RED goes away: the tasks in drain() fail at their next turn.
LinkLost ==
  /\ link \in {"open", "full", "closing"}
  /\ link' = "lost"
  /\ sendReady' = sendReady \o drains /\ drains' = <<>>
  /\ UNCHANGED <<run, connected, number, sends, lines, bridge>>

\* The read loop gets the end of the stream.
SeesEof ==
  /\ run = "up" /\ link = "lost"
  /\ run' = IF bridge = "up" THEN "sleeping" ELSE "ended"
  /\ connected' = FALSE
  /\ UNCHANGED <<link, number, sends, sendReady, drains, lines, bridge>>

\* The retry delay, a second at least, outlasts all that is ready.
DelayOver ==
  /\ run = "sleeping" /\ sendReady = <<>>
  /\ run' = IF bridge = "up" THEN "connecting" ELSE "ended"
  /\ UNCHANGED <<link, connected, number, sends, sendReady, drains, lines, bridge>>

-----------------------------------------------------------------------------
(* stop()                                                                  *)

\* Mutant: the run task is left to itself.
EndsAlone ==
  /\ bridge' = "down" /\ link' = "none" /\ connected' = FALSE
  /\ UNCHANGED run

\* The run task is cancelled, wherever it waits.
Ends ==
  /\ bridge' = "down" /\ link' = "none" /\ connected' = FALSE
  /\ run' = "ended"

\* The writer closes; what is in its buffer still has to go.
NrStop ==
  /\ bridge = "up"
  /\ IF link \in {"open", "full"}
     THEN bridge' = "closing" /\ link' = "closing" /\ UNCHANGED <<run, connected>>
     ELSE Ends
  /\ UNCHANGED <<number, sends, sendReady, drains, lines>>

NrStopped ==
  /\ bridge = "closing" /\ link = "lost"
  /\ Ends
  /\ UNCHANGED <<number, sends, sendReady, drains, lines>>

NrSendStep ==
  \E e \in 1..Len(sends) : Drops(e) \/ WritesLine(e) \/ Fails(e)

NrLoop == NrSendStep \/ SeesEof \/ DelayOver \/ NrStopped

-----------------------------------------------------------------------------
NrInOrder == \A i, j \in 1..Len(lines) : i < j => lines[i] < lines[j]

\* No event is dropped that happens on a connection that lasts.
NrReaches ==
  \A e \in 1..Len(sends) :
    sends[e].done /\ sends[e].due = number /\ number > 0 /\ link \in {"open", "full"}
      => \E i \in 1..Len(lines) : lines[i] = e

NrOver == bridge = "down" /\ run = "ended" /\ ~connected /\ link = "none"
=============================================================================
