--------------------------- MODULE MCCallRewrite ----------------------------
\* Signatures of up to three parameters and calls of up to three arguments.
EXTENDS CallRewrite

CONSTANTS MaxParameters, MaxArguments,
          Unusual \* whether functions may call their first parameter self

NamesAt(first) == <<{first}, {"q", "__q"}, {"r"}>>

\* Parameters named __x are not after one that may be given by name, which the
\* typing rules forbid.
Typed(arm) ==
    \A i \in DOMAIN arm : arm[i].name \in Private =>
        /\ arm[i].group = "args"
        /\ \A j \in 1 .. i - 1 : arm[j].group = "args" => arm[j].name \in {"self", "cls", "__q"}

Parameters(i, first) == [name : NamesAt(first)[i], group : Groups]
Arms(first) ==
    {arm \in UNION {{<<>>},
                    {<<a>> : a \in Parameters(1, first)},
                    {<<a, b>> : a \in Parameters(1, first), b \in Parameters(2, first)},
                    {<<a, b, c>> : a \in Parameters(1, first), b \in Parameters(2, first),
                                   c \in Parameters(3, first)}} :
        Legal(arm) /\ Typed(arm) /\ Len(arm) <= MaxParameters}
Methods(first) == {arm \in Arms(first) : arm # <<>> /\ arm[1].group \in {"posonly", "args"}}

Of(kind, method, arms) == {[kind |-> kind, method |-> method, arms |-> <<arm>>] : arm \in arms}
Overloaded(kind, method, arms) ==
    {[kind |-> kind, method |-> method, arms |-> <<a, b>>] : a \in arms, b \in arms}
Plain(arms) == {arm \in arms : Len(arm) \in 2 .. 3 /\ \A i \in DOMAIN arm : arm[i].group = "args"
                                                /\ arm[i].name \notin Private}

Usual ==
    Of("function", "plain", Arms("p")) \cup Of("staticmethod", "plain", Arms("p"))
    \cup Of("classmethod", "plain", Methods("cls"))
    \cup UNION {Of("method", m, Methods("self")) : m \in {"plain", "init", "call", "descriptor", "cached"}}
    \cup Overloaded("function", "plain", Plain(Arms("p")))
    \cup UNION {Overloaded("method", m, Plain(Methods("self"))) : m \in {"plain", "init", "call"}}

AllCallees == IF Unusual THEN Of("function", "plain", Arms("self")) ELSE Usual

\* The last argument may be of any shape, and all of them precise.
AllArguments ==
    {s \in UNION {[1 .. n -> AllShapes] : n \in 0 .. MaxArguments} :
        \/ \A i \in DOMAIN s : i < Len(s) => s[i] = "plain"
        \/ \A i \in DOMAIN s : s[i] = "precise"}
Calls ==
    [shapes : AllArguments, keywords : {{}}, boundary : {"none"}]
    \cup [shapes : {[i \in 1 .. n |-> "plain"] : n \in 1 .. MaxArguments},
          keywords : {{}, {"q"}, {"r"}, {NoName}}, boundary : AllBoundaries]
PrivateNames == {"__q"}

ASSUME CustomaryAssumption == Unusual \/ (Customary /\ PrivateComeFirst)
=============================================================================
