---------------------------- MODULE MCModuleIndex ---------------------------
\* Instances of ModuleIndex for TLC.  "own" and "sub" are checked files, sub's
\* class deriving from own's; "p" and "q" derive from each other; p is reached
\* through the package "nil", which does not exist, and "lib" through "bad",
\* which does not parse.
EXTENDS ModuleIndex

TheModules == {"own", "sub", "p", "q", "nil", "bad", "lib"}
TheEager == {"own", "sub"}
TheKind == [m \in TheModules |->
    CASE m = "nil" -> "absent" [] m = "bad" -> "unparsable" [] OTHER -> "good"]
TheRoute == [m \in TheModules |->
    CASE m = "p" -> <<"nil", "p">> [] m = "q" -> <<"p", "q">>
      [] m = "lib" -> <<"bad", "lib">> [] OTHER -> <<m>>]
TheBases == [m \in TheModules |->
    CASE m = "sub" -> <<"own">> [] m = "p" -> <<"q">> [] m = "q" -> <<"p">>
      [] OTHER -> <<>>]

\* The same, with q resolved without p.
ShortRoute == [TheRoute EXCEPT !["q"] = <<"q">>]

Does(kind, name) == [kind |-> kind, name |-> name]

\* One file rebinds or loads, and calls; the other makes or calls, and calls.
Mixed == {[f1 |-> <<a, b>>, f2 |-> <<c, d>>] :
    a \in {Does("rebind", "own"), Does("rebind", "p"), Does("make", "lib")},
    b \in {Does("call", "lib"), Does("call", "p"), Does("call", "sub")},
    c \in {Does("make", "p"), Does("make", "lib")},
    d \in {Does("call", "own"), Does("call", "sub"), Does("call", "q")}}

\* Two files reach two modules that derive from each other from either side.
Across == {[f1 |-> <<Does("make", "p")>>, f2 |-> <<Does("make", "q")>>]}

\* One file rebinds a method of a module that the other one's call loads.
Lazy == {[f1 |-> <<Does("rebind", "lib"), Does("rebind", "p")>>,
          f2 |-> <<Does("call", "lib"), Does("call", "p")>>]}
=============================================================================
