------------------------------- MODULE MCWire -------------------------------
(* A small instance of Wire for TLC: four bytes, strings of at most seven. *)
EXTENDS Wire

MCTables == [Bytes -> {0, 1, 3}]

\* Fields are written under tables whose codes have lengths 1, 2, 3 and 3, and all 2.
MCMaxFields ==
  [t \in MCTables |-> IF <<t[0], t[1], t[2], t[3]>> \in {<<0, 3, 1, 0>>, <<1, 1, 1, 1>>}
                      THEN 3 ELSE 0]

MCNumberBits == <<1, 2, 3>>

MCFields ==
  {[kind |-> "flag", v |-> 1],
   [kind |-> "int", n |-> 3, v |-> 5],
   [kind |-> "signed", n |-> 3, v |-> -3],
   [kind |-> "ranged", from |-> 2, to |-> 4, v |-> 4],
   [kind |-> "float", n |-> 2, v |-> 4],
   [kind |-> "signed_float", n |-> 2, v |-> -2],
   [kind |-> "align"],
   [kind |-> "string", v |-> <<1, 1, 2, 1, 1, 1, 1, 1>>, max |-> 7],
   [kind |-> "string", v |-> <<1, 1, 2, 1>>, max |-> 3],
   [kind |-> "string", v |-> <<1, 1, 2, 3, 0>>, max |-> 7],
   [kind |-> "null_arg"],
   [kind |-> "text_arg", v |-> <<1, 1, 2, 1, 3>>],
   [kind |-> "tag_arg", v |-> 2],
   [kind |-> "number_arg", v |-> -7],
   [kind |-> "number_arg", v |-> 2]}

\* Blank lines, free text, quoted words, and a quote that is not closed.
MCOrders ==
  {[line |-> <<" ">>, verb |-> "none", args |-> <<>>],
   [line |-> <<"f", " ", " ", "a", " ", " ", "b", " ">>, verb |-> <<"f">>,
    args |-> <<<<"a", " ", " ", "b">>>>],
   [line |-> <<"T", " ", "q", "a", " ", "q", "b", " ", "q", "q">>, verb |-> <<"t">>,
    args |-> <<<<"a", " ", "b">>, <<>>>>],
   [line |-> <<"t", " ", "a", " ", "q", "b">>, verb |-> <<"t">>,
    args |-> <<<<"a">>, <<"q", "b">>>>]}

MCFreeTextVerbs == {<<"f">>}
=============================================================================
