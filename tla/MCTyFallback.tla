---------------------------- MODULE MCTyFallback ----------------------------
(***************************************************************************)
(* Instances of TyFallback: the calls and overloads a file may bring.      *)
(***************************************************************************)
EXTENDS TyFallback

Plain(g, h, d) == [group |-> g, hover |-> h, def |-> d, static |-> FALSE]
Dynamic(h) == [group |-> 0, hover |-> h, def |-> "null", static |-> TRUE]
Has(c, o) == [calls |-> c, overloads |-> o]

UpToLength(n, S) == UNION {[1..k -> S] : k \in 1..n}

\* Every kind of answer, alone or in a hover group, one of whose members ty
\* may take for unreachable.
AnyCall ==
    {Plain(0, "asks", "loc"), Plain(0, "arms", "null"), Plain(1, "named", "null"),
     Plain(1, "type", "loc"), Plain(1, "null", "null"), Dynamic("named")}
CheckWorks == {Has(c, <<>>) : c \in UpToLength(2, AnyCall)}

\* What a fix run meets, file after file on one server: deferred calls it can
\* rewrite or must decline, and overloads whose arm ty selects.
FileWorks ==
    {Has(<<Plain(0, "named", "null")>>, <<>>),
     Has(<<Plain(0, "null", "loc")>>, <<"named">>),
     Has(<<>>, <<"named", "arms">>)}

\* A group of two calls, the first of them unreachable.
HalfDeadGroup ==
    {Has(<<Plain(1, "null", "null"), Plain(1, "type", "loc")>>, <<>>)}

\* A call of an instance's class, whose diagnostic is the indexed one.
InstanceClass == {Has(<<Dynamic("named")>>, <<>>)}
=============================================================================
