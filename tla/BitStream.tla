------------------------------ MODULE BitStream ------------------------------
(***************************************************************************)
(* bitstream.py and the argument codec of events.py: the Huffman tree is   *)
(* built, fields are written to one packet, and a reader takes the same    *)
(* kinds of fields from what of the packet arrived.                        *)
(* Bits are 0 or 1, a byte has ByteBits of them, a string is a sequence of *)
(* bytes, and a float is a number of Unit-ths.                             *)
(***************************************************************************)
EXTENDS Integers, Sequences, FiniteSets, SequencesExt

CONSTANTS
  ByteBits,     \* 8 in the code
  LengthBits,   \* bits of a string's length and of a prefix length: 8
  NumberBits,   \* the three sizes of an integer argument: <<7, 15, 31>>
  SlotBits,     \* STRING_TABLE_ENTRY_BIT_SIZE: 5
  Unit,         \* floats are multiples of 1/Unit
  Tables,       \* frequency tables
  Fields,       \* what may be written
  MaxFields     \* bound: fields in a packet, by table

Bytes == 0 .. 2^ByteBits - 1

MaxLen == 2^LengthBits - 1

ASSUME BitStreamAssumption ==
  /\ {ByteBits, LengthBits, SlotBits, Unit} \subseteq Nat \ {0}
  /\ Tables \subseteq [Bytes -> Nat] /\ MaxFields \in [Tables -> Nat]

VARIABLES
  freqs,      \* _CHAR_FREQS
  wraps,      \* the trees that are left to merge
  nodes,      \* the two children of each inner node; a leaf s is -(s + 1)
  codes,      \* each byte's code, once the tree is built
  out,        \* bits written
  fields,     \* fields written, and where each ends
  written,    \* the writer's string buffer
  packet,     \* bits that arrived
  pos, error, \* of the reader
  read,       \* the reader's string buffer
  got         \* fields read

bitVars ==
  <<freqs, wraps, nodes, codes, out, fields, written, packet, pos, error, read, got>>

Smaller(a, b) == IF a < b THEN a ELSE b

NoPacket == <<"none">>

BitInit ==
  /\ freqs \in Tables
  /\ wraps = [i \in 1..Cardinality(Bytes) |-> [index |-> -i, pop |-> freqs[i - 1] + 1]]
  /\ nodes = <<>> /\ codes = <<>>
  /\ out = <<>> /\ fields = <<>> /\ written = <<>>
  /\ packet = NoPacket /\ pos = 0 /\ error = FALSE /\ read = <<>> /\ got = <<>>

-----------------------------------------------------------------------------
(* _HuffmanProcessor._build                                                *)

\* The first of the trees with the smallest population.
Lowest(among) ==
  CHOOSE i \in among :
    \A j \in among \ {i} : IF i < j THEN wraps[i].pop <= wraps[j].pop
                                    ELSE wraps[i].pop < wraps[j].pop

\* The two are replaced by a node at the smaller index; the last tree fills the gap.
Compacted(i, j, node) ==
  LET last == Len(wraps)
      low == Smaller(i, j)
  IN [k \in 1..last - 1 |->
        IF k = low THEN node ELSE IF k = i + j - low THEN wraps[last] ELSE wraps[k]]

Merge ==
  /\ Len(wraps) > 1
  /\ LET i == Lowest(1..Len(wraps))
         j == Lowest(1..Len(wraps) \ {i})
     IN /\ nodes' = Append(nodes, <<wraps[i].index, wraps[j].index>>)
        /\ wraps' = Compacted(i, j, [index |-> Len(nodes) + 1,
                                     pop |-> wraps[i].pop + wraps[j].pop])
  /\ UNCHANGED <<freqs, codes, out, fields, written, packet, pos, error, read, got>>

Root == Len(nodes)

\* The leaves below a node, each with the bits that lead to it.
Paths ==
  LET below[i \in Int] ==
        IF i < 0 THEN {<<-(i + 1), <<>>>>}
        ELSE UNION {{<<p[1], <<b>> \o p[2]>> : p \in below[nodes[i][b + 1]]} : b \in {0, 1}}
  IN below[Root]

GenerateCodes ==
  /\ Len(wraps) = 1 /\ codes = <<>>
  /\ codes' = [s \in Bytes |-> (CHOOSE p \in Paths : p[1] = s)[2]]
  /\ UNCHANGED <<freqs, wraps, nodes, out, fields, written, packet, pos, error, read, got>>

-----------------------------------------------------------------------------
(* Writing                                                                 *)

\* write_int: the low n bits, the lowest first.
Bits(v, n) == [i \in 1..n |-> (v \div 2^(i - 1)) % 2]

SignedBits(v, n) == IF v < 0 THEN <<1>> \o Bits(-v, n - 1) ELSE <<0>> \o Bits(v, n - 1)

RangeBits(a, b) ==
  CHOOSE n \in 0 .. b - a + 1 : 2^n >= b - a + 1 /\ \A m \in 0..n - 1 : 2^m < b - a + 1

\* int(f * (2^n - 1)), and the same of (f + 1) / 2.
Level(v, n) == (v * (2^n - 1)) \div Unit
SignedLevel(v, n) == ((v + Unit) * (2^n - 1)) \div (2 * Unit)

\* write_buffer: at most max bytes, raw unless the codes are shorter.
HuffBits(s, max) ==
  LET cut == SubSeq(s, 1, Smaller(Len(s), Smaller(max, MaxLen)))
      packed == FlattenSeq([i \in 1..Len(cut) |-> codes[cut[i]]])
      raw == FlattenSeq([i \in 1..Len(cut) |-> Bits(cut[i], ByteBits)])
  IN IF Len(packed) >= Len(raw) THEN <<0>> \o Bits(Len(cut), LengthBits) \o raw
     ELSE <<1>> \o Bits(Len(cut), LengthBits) \o packed

ByteAt(s, i) == IF i <= Len(s) THEN s[i] ELSE 0

\* How much of s the string buffer already has.
Prefix(s, max) ==
  LET same(n) == \A i \in 1..n : s[i] = ByteAt(written, i) /\ s[i] # 0
  IN CHOOSE n \in 0..Smaller(Len(s), max) :
       same(n) /\ (n < Smaller(Len(s), max) => ~same(n + 1))

StringBits(s, max) ==
  LET n == Prefix(s, max)
  IN IF n > 2
     THEN <<1>> \o Bits(n, LengthBits) \o HuffBits(SubSeq(s, n + 1, Len(s)), max - n)
     ELSE <<0>> \o HuffBits(s, max)

\* _write_integer
NumberField(v) ==
  LET mag == IF v < 0 THEN -v ELSE v
  IN <<IF v < 0 THEN 1 ELSE 0>> \o
     (IF mag < 2^NumberBits[1] THEN <<1>> \o Bits(mag, NumberBits[1])
      ELSE IF mag < 2^NumberBits[2] THEN <<0, 1>> \o Bits(mag, NumberBits[2])
      ELSE <<0, 0>> \o Bits(mag, NumberBits[3]))

\* align_byte: zeros up to the next byte.
Padding(n) == [i \in 1 .. (-n) % ByteBits |-> 0]

FieldBits(f) ==
  CASE f.kind = "flag" -> <<f.v>>
    [] f.kind = "int" -> Bits(f.v, f.n)
    [] f.kind = "signed" -> SignedBits(f.v, f.n)
    [] f.kind = "ranged" -> Bits(f.v - f.from, RangeBits(f.from, f.to))
    [] f.kind = "float" -> Bits(Level(f.v, f.n), f.n)
    [] f.kind = "signed_float" -> Bits(SignedLevel(f.v, f.n), f.n)
    [] f.kind = "align" -> Padding(Len(out))
    [] f.kind = "string" -> StringBits(f.v, f.max)
    [] f.kind = "null_arg" -> Bits(0, 2)
    [] f.kind = "text_arg" -> Bits(1, 2) \o StringBits(f.v, MaxLen)
    [] f.kind = "tag_arg" -> Bits(2, 2) \o Bits(f.v, SlotBits)
    [] f.kind = "number_arg" -> Bits(3, 2) \o NumberField(f.v)

Limit(f) == IF f.kind = "string" THEN f.max ELSE MaxLen

\* Mutant: the whole string goes to the buffer, also when its end is not sent.
BufferWhole(f) == IF f.kind \in {"string", "text_arg"} THEN f.v ELSE written

\* The string buffer after f is written.
Buffer(f) ==
  IF f.kind \in {"string", "text_arg"} THEN SubSeq(f.v, 1, Smaller(Len(f.v), Limit(f)))
  ELSE written

Write(f) ==
  /\ codes # <<>> /\ packet = NoPacket /\ Len(fields) < MaxFields[freqs]
  /\ out' = out \o FieldBits(f)
  /\ fields' = Append(fields, [field |-> f, end |-> Len(out')])
  /\ written' = Buffer(f)
  /\ UNCHANGED <<freqs, wraps, nodes, codes, packet, pos, error, read, got>>

\* get_bytes(); the first k bytes arrive.
Arrive ==
  /\ codes # <<>> /\ packet = NoPacket /\ fields # <<>>
  /\ LET all == out \o Padding(Len(out))
     IN \E k \in 0 .. Len(all) \div ByteBits : packet' = SubSeq(all, 1, k * ByteBits)
  /\ UNCHANGED <<freqs, wraps, nodes, codes, out, fields, written, pos, error, read, got>>

-----------------------------------------------------------------------------
(* Reading: each operator takes a position and returns [v, at], the value  *)
(* and the position behind it                                              *)

\* read_flag: zero behind the end.
Bit(p) == IF p < Len(packet) THEN packet[p + 1] ELSE 0

\* read_int, and read_bytes.
IntAt(p, n) ==
  LET low[i \in 0..n] == IF i = 0 THEN 0 ELSE low[i - 1] + Bit(p + i - 1) * 2^(i - 1)
  IN [v |-> low[n], at |-> p + n]

SignedAt(p, n) ==
  LET r == IntAt(p + 1, n - 1) IN [r EXCEPT !.v = IF Bit(p) = 1 THEN -@ ELSE @]

\* One leaf: down the tree to a byte.
LeafAt(p) ==
  LET walk[i \in Int, q \in Nat] ==
        IF i < 0 THEN [v |-> -(i + 1), at |-> q] ELSE walk[nodes[i][Bit(q) + 1], q + 1]
  IN walk[Root, p]

\* read_buffer
HuffAt(p) ==
  LET n == IntAt(p + 1, LengthBits)
      step[k \in Nat, q \in Nat] ==
        IF k = 0 THEN [v |-> <<>>, at |-> q]
        ELSE LET first == IF Bit(p) = 1 THEN LeafAt(q) ELSE IntAt(q, ByteBits)
                 rest == step[k - 1, first.at]
             IN [rest EXCEPT !.v = <<first.v>> \o @]
  IN step[n.v, n.at]

\* read_string
StringAt(p) ==
  IF Bit(p) = 0 THEN HuffAt(p + 1)
  ELSE LET n == IntAt(p + 1, LengthBits)
       IN [HuffAt(n.at) EXCEPT !.v = [i \in 1..n.v |-> ByteAt(read, i)] \o @]

NumberAt(p) ==
  LET k == IF Bit(p + 1) = 1 THEN 1 ELSE IF Bit(p + 2) = 1 THEN 2 ELSE 3
      r == IntAt(p + 1 + Smaller(k, 2), NumberBits[k])
  IN [r EXCEPT !.v = IF Bit(p) = 1 THEN -@ ELSE @]

\* unpack_string; an argument's kind is read, not known.
ArgAt(p) ==
  CASE IntAt(p, 2).v = 0 -> [v |-> <<>>, at |-> p + 2]
    [] IntAt(p, 2).v = 1 -> StringAt(p + 2)
    [] IntAt(p, 2).v = 2 -> IntAt(p + 2, SlotBits)
    [] IntAt(p, 2).v = 3 -> NumberAt(p + 2)

\* A field of the kind of f.
FieldAt(f, p) ==
  CASE f.kind = "flag" -> IntAt(p, 1)
    [] f.kind \in {"int", "float", "signed_float"} -> IntAt(p, f.n)
    [] f.kind = "signed" -> SignedAt(p, f.n)
    [] f.kind = "ranged" -> LET r == IntAt(p, RangeBits(f.from, f.to))
                            IN [r EXCEPT !.v = @ + f.from]
    [] f.kind = "align" -> [v |-> 0, at |-> p + Len(Padding(p))]
    [] f.kind = "string" -> StringAt(p)
    [] f.kind \in {"null_arg", "text_arg", "tag_arg", "number_arg"} -> ArgAt(p)

IsString(f, p) ==
  f.kind = "string" \/ (f.kind \in {"null_arg", "text_arg", "tag_arg", "number_arg"}
                        /\ IntAt(p, 2).v = 1)

\* A bit behind the end was read.
Behind(p) == p > Len(packet)

Read ==
  /\ packet # NoPacket /\ Len(got) < Len(fields)
  /\ LET f == fields[Len(got) + 1].field
         r == FieldAt(f, pos)
     IN /\ pos' = r.at
        /\ error' = (error \/ Behind(r.at))
        /\ got' = Append(got, [v |-> r.v, error |-> error'])
        /\ read' = IF IsString(f, pos) THEN r.v ELSE read
  /\ UNCHANGED <<freqs, wraps, nodes, codes, out, fields, written, packet>>

BitNext == Merge \/ GenerateCodes \/ (\E f \in Fields : Write(f)) \/ Arrive \/ Read

-----------------------------------------------------------------------------
Unambiguous ==
  \A s, t \in Bytes : s # t => ~IsPrefix(codes[s], codes[t])

\* The trees that are left hold every byte once; the codes are unambiguous, and no byte
\* has a longer code than a rarer one.
CodesSound ==
  /\ FoldLeft(LAMBDA n, w : n + w.pop, 0, wraps)
       = FoldLeft(LAMBDA n, s : n + freqs[s - 1] + 1, 0, [i \in 1..Cardinality(Bytes) |-> i])
  /\ codes # <<>> =>
       /\ Unambiguous
       /\ \A s, t \in Bytes : freqs[s] > freqs[t] => Len(codes[s]) <= Len(codes[t])

\* What a field is read as: itself, a string up to what was sent of it, a float the
\* nearest level below.
Means(f, v) ==
  CASE f.kind \in {"flag", "int", "signed", "ranged", "tag_arg", "number_arg"} -> v = f.v
    [] f.kind = "float" -> v * Unit <= f.v * (2^f.n - 1) /\ f.v * (2^f.n - 1) < (v + 1) * Unit
    [] f.kind = "signed_float" ->
         /\ (2 * v + 1 - 2^f.n) * Unit <= f.v * (2^f.n - 1)
         /\ f.v * (2^f.n - 1) < (2 * v + 3 - 2^f.n) * Unit
    [] f.kind \in {"string", "text_arg"} -> v = SubSeq(f.v, 1, Smaller(Len(f.v), Limit(f)))
    [] f.kind = "null_arg" -> v = <<>>
    [] f.kind = "align" -> TRUE

BitsReadBack ==
  \A i \in 1..Len(got) : ~got[i].error => Means(fields[i].field, got[i].v)

BitsCutIsSeen ==
  \A i \in 1..Len(got) : got[i].error = (fields[i].end > Len(packet))
=============================================================================
