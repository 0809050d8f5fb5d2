---------------------------- MODULE NodeRedLines ----------------------------
(***************************************************************************)
(* nodered.py, receiving: chunks of a connection are cut into lines, and   *)
(* lines into a verb and its arguments.                                    *)
(* A line is a sequence of bytes: "a" and "b" stand for letters, "T" for   *)
(* an upper-case one, " " for white space, "q" for a quote; the pair "hi", *)
(* "lo" encodes one character, "?" replaces what cannot be decoded.        *)
(***************************************************************************)
EXTENDS Naturals, Sequences, SequencesExt

CONSTANTS
  FreeTextVerbs,  \* _FREE_TEXT_VERBS
  Orders,         \* what a flow sends: [line, verb, args], verb "none" for a blank line
  MaxOrders       \* bound: lines sent

VARIABLES
  sentLines,   \* what was sent on this connection
  wire,        \* bytes on their way
  buffer,      \* the partial line
  handled      \* commands of this connection

lineVars == <<sentLines, wire, buffer, handled>>

LinesInit == sentLines = <<>> /\ wire = <<>> /\ buffer = <<>> /\ handled = <<>>

-----------------------------------------------------------------------------
(* parse_line                                                              *)

Lower(c) == IF c = "T" THEN "t" ELSE c

LeftStripped(s) ==
  LET n == CHOOSE n \in 0..Len(s) :
             (n = Len(s) \/ s[n + 1] # " ") /\ \A i \in 1..n : s[i] = " "
  IN SubSeq(s, n + 1, Len(s))

Stripped(s) == Reverse(LeftStripped(Reverse(LeftStripped(s))))

FirstWord(s) ==
  LET n == CHOOSE n \in 0..Len(s) :
             (n = Len(s) \/ s[n + 1] = " ") /\ \A i \in 1..n : s[i] # " "
  IN SubSeq(s, 1, n)

\* One character of shlex: a quote opens and closes, white space ends a word.
Shlex(t, c) ==
  CASE c = "q" -> [t EXCEPT !.quoted = ~@, !.open = TRUE]
    [] c = " " /\ ~t.quoted ->
         [t EXCEPT !.words = IF t.open THEN Append(@, t.word) ELSE @,
                   !.word = <<>>, !.open = FALSE]
    [] OTHER -> [t EXCEPT !.word = Append(@, c), !.open = TRUE]

\* str.split: quotes are letters.
Split(t, c) ==
  IF c = "q" THEN [t EXCEPT !.word = Append(@, c), !.open = TRUE] ELSE Shlex(t, c)

Words(s, quotes) ==
  FoldLeft(LAMBDA t, c : IF quotes THEN Shlex(t, c) ELSE Split(t, c),
           [words |-> <<>>, word |-> <<>>, open |-> FALSE, quoted |-> FALSE],
           Append(s, " "))

\* Mutant: there is no second try when a quote is not closed.
ArgsOfShlex(s) == Words(s, TRUE).words

Args(s) ==
  LET quoted == Words(s, TRUE) IN IF quoted.quoted THEN Words(s, FALSE).words ELSE quoted.words

ParseLine(line) ==
  LET s == Stripped(line)
      verb == FirstWord(s)
      lowered == [i \in 1..Len(verb) |-> Lower(verb[i])]
      rest == LeftStripped(SubSeq(s, Len(verb) + 1, Len(s)))
  IN [verb |-> lowered,
      args |-> IF rest = <<>> THEN <<>>
               ELSE IF lowered \in FreeTextVerbs THEN <<rest>> ELSE Args(rest)]

-----------------------------------------------------------------------------
(* _read_loop                                                              *)

\* decode(errors="replace") of one chunk: a character that is cut is replaced.
Decoded(chunk) ==
  LET step(s, c) ==
        IF c = "lo" THEN IF s # <<>> /\ Last(s) = "hi" THEN Append(Front(s), "char")
                         ELSE Append(s, "?")
        ELSE Append(s, c)
      cut(c) == IF c = "hi" THEN "?" ELSE c
      s == FoldLeft(step, <<>>, chunk)
  IN [i \in 1..Len(s) |-> cut(s[i])]

\* One character: a line feed completes a line.
Consume(t, c) ==
  IF c # "lf" THEN [t EXCEPT !.buffer = Append(@, c)]
  ELSE [buffer |-> <<>>,
        handled |-> IF Stripped(t.buffer) = <<>> THEN t.handled
                    ELSE Append(t.handled, ParseLine(t.buffer))]

SendLine(o) ==
  /\ Len(sentLines) < MaxOrders
  /\ sentLines' = Append(sentLines, o)
  /\ wire' = Append(wire \o o.line, "lf")
  /\ UNCHANGED <<buffer, handled>>

\* read() returns the first n bytes that are there.
ReadChunk(n) ==
  /\ n \in 1..Len(wire)
  /\ wire' = SubSeq(wire, n + 1, Len(wire))
  /\ LET t == FoldLeft(Consume, [buffer |-> buffer, handled |-> handled],
                       Decoded(SubSeq(wire, 1, n)))
     IN buffer' = t.buffer /\ handled' = t.handled
  /\ UNCHANGED sentLines

\* The connection breaks; the next one starts with an empty buffer.
NextConnection ==
  /\ sentLines # <<>>
  /\ sentLines' = <<>> /\ wire' = <<>> /\ buffer' = <<>> /\ handled' = <<>>

LinesNext ==
  NextConnection \/ (\E o \in Orders : SendLine(o)) \/ \E n \in 1..Len(wire) : ReadChunk(n)

-----------------------------------------------------------------------------
Meant == SelectSeq(sentLines, LAMBDA o : o.verb # "none")

\* However TCP cuts the stream, Node-RED's commands arrive whole, once and in order, with
\* the verbs and arguments the flow meant (nodered.py 147-178, 346-358).
LinesAsSent ==
  /\ Len(handled) <= Len(Meant)
  /\ \A i \in 1..Len(handled) :
       handled[i] = [verb |-> Meant[i].verb, args |-> Meant[i].args]
  /\ wire = <<>> => Len(handled) = Len(Meant)
=============================================================================
