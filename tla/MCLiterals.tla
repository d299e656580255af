----------------------------- MODULE MCLiterals -----------------------------
\* Two functions of different shape; keys that are equal and keys that look it: 1 and
\* True, -1 and 1; a name the checker does not know that stands for a function it does.
EXTENDS Iterators

Number(n, name) == [syntax |-> "int", val |-> name, int |-> n]
Zero == Number(0, "0")
One == Number(1, "1")
True == [syntax |-> "bool", val |-> "1", int |-> 1]
MinusOne == [syntax |-> "minus", val |-> "-1", int |-> 1]
String(s) == [syntax |-> "string", val |-> s, int |-> 0]

MCNames == {"f", "g"}
MCShape == [n \in MCNames |-> IF n = "f" THEN "(x)" ELSE "(x, y)"]

Stars(run, known) == [star |-> TRUE, known |-> known, run |-> run]
F == Callable("f")
G == Callable("g")
MCElements == {Plain(F), Plain(G), Plain(Opaque("g")), Plain(One), Plain(String("a")),
               Stars(<<F, G>>, TRUE), Stars(<<>>, FALSE), Stars(<<F>>, FALSE)}

Item(key, val) == [spread |-> "no", key |-> key, val |-> val]
MCItems == {Item(Zero, F), Item(One, F), Item(True, G), Item(String("a"), F), Item(String("a"), G), Item(String("b"), G),
            Item(F, G), Item(F, One), Item(G, MinusOne), Item(Opaque("f"), One), Item(Opaque("1"), F),
            [spread |-> "empty", key |-> Zero, val |-> F], [spread |-> "other", key |-> String("b"), val |-> F]}
MCKeys == {Zero, One, True, MinusOne, String("a"), String("b")}
MCFields == <<"a", "b">>
MCSides == {SequenceDisplay("list", <<Plain(F)>>), SequenceDisplay("list", <<Plain(G), Plain(F)>>), SequenceDisplay("tuple", <<Plain(G)>>),
            SequenceDisplay("list", <<>>), SequenceDisplay("list", <<Stars(<<>>, FALSE)>>),
            DictDisplay(<<Item(String("a"), F)>>), DictDisplay(<<Item(One, G), Item(Zero, F)>>), DictDisplay(<<>>),
            DictDisplay(<<Item(F, One), Item(G, One)>>)}
NoneKnown == {}
=============================================================================
