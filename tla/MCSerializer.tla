---------------------------- MODULE MCSerializer ----------------------------
(***************************************************************************)
(* Serializer with nodes of two bytes, varint groups of two bits and       *)
(* numbers of five, so that the last group is not full, as in the code.    *)
(***************************************************************************)
EXTENDS Serializer

Simple ==
    {Number("byte", 7), Number("fixed", 19), Number("fixed", 0)}
    \cup {Number("uint", n) : n \in {0, 3, 4, 15, 16, 31}}
    \cup {Number("int", n) : n \in {-16, -2, -1, 0, 1, 2, 15}}
    \cup {String(b) : b \in {<<>>, <<5>>, <<5, 6>>}}

Container(of, parts) == [type |-> "container", of |-> of, parts |-> parts]
Result(code, val) == [type |-> "result", code |-> code, msg |-> <<6>>, val |-> val]

Compound ==
    {Container(<<"int">>, <<>>), Container(<<"int">>, <<Number("int", -16)>>),
     Container(<<"string">>, <<String(<<5>>), String(<<>>)>>),
     Container(<<"byte">>, [i \in 1..5 |-> Number("byte", i)]),
     Container(<<"string", "uint">>,
        <<String(<<5>>), Number("uint", 4), String(<<>>), Number("uint", 31)>>),
     [type |-> "tuple", of |-> <<"uint", "string">>,
      parts |-> <<Number("uint", 16), String(<<5, 6>>)>>],
     Result(0, Number("int", 15)), Result(0, String(<<>>))}

MCScripts ==
    {<<>>} \cup {<<x>> : x \in Simple \cup Compound \cup {Result(1, Number("int", 0))}}
    \cup {<<x, y>> : x \in Simple \cup Compound, y \in Simple \cup {Result(1, Number("int", 0))}}

MCRawData == {<<1>>, <<2, 3, 4>>}
=============================================================================
