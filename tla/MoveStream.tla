----------------------------- MODULE MoveStream -----------------------------
(***************************************************************************)
(* phases.py _write_moves: each packet carries the idle moves the server   *)
(* has not acknowledged.  Numbers wrap; packets get lost, their order is   *)
(* kept (the window drops the ones that come late).                        *)
(***************************************************************************)
EXTENDS Integers, Sequences

CONSTANTS
  MoveSpace,     \* 2^32 in the code
  MaxMoveCount,  \* MAX_MOVE_COUNT: 30
  MaxMoves,      \* bound: moves generated
  MaxInFlight,   \* bound: packets on their way, each way
  MaxMissed,     \* bound: packets to the server lost in a row
  MaxUnacked     \* bound: moves not acknowledged

ASSUME MoveStreamAssumption ==
  /\ {MoveSpace, MaxMoveCount, MaxMoves, MaxInFlight, MaxMissed, MaxUnacked}
       \subseteq Nat \ {0}
  /\ MoveSpace > MaxUnacked /\ MoveSpace > 2 * (MaxMoveCount + MaxMissed)

VARIABLES
  nextMove,    \* _next_move_id
  moveAck,     \* last_move_ack
  generated,   \* history: moves generated, nextMove without the wrap
  up,          \* packets to the server, [start, count, first]
  down,        \* acknowledgements to the client
  lastAck,     \* engine: mLastMoveAck
  waiting,     \* engine: moves on the server's list
  expects,     \* history: the number of the move lastAck stands for
  missed,      \* history: packets lost since one was received
  gap          \* history: the server has left out moves

moveVars == <<nextMove, moveAck, generated, up, down, lastAck, waiting, expects, missed, gap>>

MovesInit ==
  /\ nextMove = 0 /\ moveAck = 0 /\ generated = 0 /\ up = <<>> /\ down = <<>>
  /\ lastAck = 0 /\ waiting = 0 /\ expects = 0 /\ missed = 0 /\ gap = FALSE

\* Mutant: the stream starts at the newest move, whatever was acknowledged.
NewestOnly(next) == 1

\* The moves that are not acknowledged, at most MaxMoveCount; one when there is none.
Pending(next) ==
  LET pending == (next - moveAck) % MoveSpace
  IN IF pending > MaxMoveCount THEN MaxMoveCount ELSE IF pending > 0 THEN pending ELSE 1

Start(next) ==
  LET pending == (next - moveAck) % MoveSpace
  IN IF pending = 0 THEN moveAck ELSE (next - Pending(next)) % MoveSpace

WriteMoves ==
  /\ generated < MaxMoves /\ Len(up) < MaxInFlight
  /\ (nextMove - moveAck) % MoveSpace < MaxUnacked
  /\ generated' = generated + 1
  /\ nextMove' = (nextMove + 1) % MoveSpace
  /\ up' = Append(up, [start |-> Start(nextMove'), count |-> Pending(nextMove'),
                       first |-> generated' - Pending(nextMove')])
  /\ UNCHANGED <<moveAck, down, lastAck, waiting, expects, missed, gap>>

LoseMoves ==
  /\ up # <<>> /\ up' = Tail(up)
  /\ missed < MaxMissed /\ missed' = missed + 1
  /\ UNCHANGED <<nextMove, moveAck, generated, down, lastAck, waiting, expects, gap>>

\* moveReadPacket: skip = mLastMoveAck - start, as a signed number; moves it has are
\* skipped, and a start ahead of it is followed.
ServerReads ==
  /\ up # <<>> /\ up' = Tail(up) /\ missed' = 0
  /\ LET m == Head(up)
         skip == ((lastAck - m.start + MoveSpace \div 2) % MoveSpace) - (MoveSpace \div 2)
         new == IF skip < 0 THEN m.count ELSE IF skip > m.count THEN 0 ELSE m.count - skip
     IN /\ lastAck' = ((IF skip < 0 THEN m.start ELSE lastAck) + new) % MoveSpace
        /\ waiting' = waiting + new
        /\ expects' = IF m.first + m.count > expects THEN m.first + m.count ELSE expects
        /\ gap' = (gap \/ (m.first > expects /\ missed < MaxMoveCount))
  /\ UNCHANGED <<nextMove, moveAck, generated, down>>

\* A control object consumes a move; without one they stay on the list.
ServerTicks ==
  /\ waiting > 0 /\ waiting' = waiting - 1
  /\ UNCHANGED <<nextMove, moveAck, generated, up, down, lastAck, expects, missed, gap>>

\* The header of the server's packets: the moves that are done.
ServerWrites ==
  /\ Len(down) < MaxInFlight
  /\ down' = Append(down, (lastAck - waiting) % MoveSpace)
  /\ UNCHANGED <<nextMove, moveAck, generated, up, lastAck, waiting, expects, missed, gap>>

\* _read_control_header, or the packet is lost.
ReadHeader ==
  /\ down # <<>> /\ down' = Tail(down)
  /\ moveAck' \in {moveAck, Head(down)}
  /\ UNCHANGED <<nextMove, generated, up, lastAck, waiting, expects, missed, gap>>

MovesNext ==
  WriteMoves \/ LoseMoves \/ ServerReads \/ ServerTicks \/ ServerWrites \/ ReadHeader

MovesSpec == MovesInit /\ [][MovesNext]_moveVars

-----------------------------------------------------------------------------
\* The server takes every move once and in order, unless MAX_MOVE_COUNT packets in a row
\* are lost, its number stands for the move the client means, and a packet is never without
\* a move (phases.py 802-843).
MovesInOrder ==
  /\ ~gap
  /\ lastAck = expects % MoveSpace
  /\ \A i \in 1..Len(up) : up[i].count >= 1 /\ up[i].start = up[i].first % MoveSpace
=============================================================================
