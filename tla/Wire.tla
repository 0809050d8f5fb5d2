-------------------------------- MODULE Wire --------------------------------
(***************************************************************************)
(* The pairs of a writer and a reader that only share a wire: the fields   *)
(* of a packet, the lines of Node-RED, the frames of a WebSocket client,   *)
(* the move stream, the poses of the objects.  They do not interact, so a  *)
(* behaviour has one of them.                                              *)
(***************************************************************************)
EXTENDS BitStream, NodeRedLines, WebSocketFrames, MoveStream, ObjectPositions

VARIABLE pair

vars == <<pair, bitVars, lineVars, frameVars, moveVars, positionVars>>

Init ==
  /\ pair \in {"fields", "lines", "frames", "moves", "poses"}
  /\ BitInit /\ LinesInit /\ FramesInit /\ MovesInit /\ PositionsInit
  /\ pair = "fields" \/ freqs = CHOOSE t \in Tables : TRUE

FieldSteps ==
  /\ pair = "fields" /\ BitNext
  /\ UNCHANGED <<pair, lineVars, frameVars, moveVars, positionVars>>

LineSteps ==
  /\ pair = "lines" /\ LinesNext
  /\ UNCHANGED <<pair, bitVars, frameVars, moveVars, positionVars>>

FrameSteps ==
  /\ pair = "frames" /\ FramesNext
  /\ UNCHANGED <<pair, bitVars, lineVars, moveVars, positionVars>>

MoveSteps ==
  /\ pair = "moves" /\ MovesNext
  /\ UNCHANGED <<pair, bitVars, lineVars, frameVars, positionVars>>

PoseSteps ==
  /\ pair = "poses" /\ PositionsNext
  /\ UNCHANGED <<pair, bitVars, lineVars, frameVars, moveVars>>

Next == FieldSteps \/ LineSteps \/ FrameSteps \/ MoveSteps \/ PoseSteps

Spec == Init /\ [][Next]_vars

-----------------------------------------------------------------------------
\* What is read without an error is what was written (bitstream.py, events.py 360-423):
\* every kind of field, with the string buffers of both sides agreeing field after field.
\* And a packet that was cut is noticed at the field where the cut is (181-190), although
\* the reader goes on in the zeros behind it; a whole one never raises the error. The
\* Huffman tree both rest on (478-545) is sound: whatever the frequencies, compaction loses
\* no byte, codes are unambiguous, and no byte has a longer code than a rarer one.
ReadBack == CodesSound /\ BitsReadBack /\ BitsCutIsSeen
=============================================================================
