------------------------- MODULE CallRewriteProofs -------------------------
(***************************************************************************)
(* Theorems about CallRewrite (src/src/check.rs, check_call and            *)
(* call_fix_insertions, and src/src/index.rs, max_positional): a fix keeps *)
(* what each argument is bound to, a call that it gave names is not        *)
(* reported again, what is reported can be named and what is not cannot,   *)
(* for every customary callee, call and way of naming it that the          *)
(* properties do not exclude.                                              *)
(*                                                                         *)
(* First the text: what is inserted in front of an argument is what is     *)
(* read there.  Then the binding: names given to the last arguments by     *)
(* position, of the parameters they are for, change nothing.  Then the     *)
(* numbers: a call with the maximum reported left by position is within    *)
(* what the next visit allows; IInv is inductive, by an action each; the   *)
(* maximum is the number of parameters that have no name to give.          *)
(***************************************************************************)
EXTENDS CallRewrite, SequenceLemmas, FiniteSetTheorems

(***************************************************************************)
(* Where the names go                                                      *)
(***************************************************************************)
\* A token is a number, a name or one of these (strings, as the provers are told).
Token == Nat \cup STRING \cup {"f(", "g(", "(", ")", ",", "y", "for", "v:=", "*"}

\* An argument has a token and a comma; one in parentheses, or a call, has more.
LEMMA ArgumentLength ==
  ASSUME NEW args \in Seq(Arg), NEW i \in DOMAIN args
  PROVE  /\ Argument(args, i) \in Seq(Token)
         /\ Len(Argument(args, i)) \in Nat /\ Len(Argument(args, i)) >= 2
         /\ args[i].shape \in {"nested", "parenthesized"} => Len(Argument(args, i)) >= 4
  <1> DEFINE shape == args[i].shape
             name == args[i].name
             fixed == args[i].fixed
             pre == IF name = NoName THEN <<>> ELSE <<name>>
             val == Value(i, shape, fixed)
  <1>1. args[i] \in Arg /\ i \in Nat
    BY ElementOfSeq, LenProperties
  <1>2. shape \in AllShapes /\ name \in STRING \cup {NoName}
    BY <1>1 DEF Arg
  <1>3. Argument(args, i) = (pre \o val) \o <<",">>
    BY DEF Argument
  <1> HIDE DEF shape, fixed
  <1>4. pre \in Seq(Token)
    <2>1. name # NoName => name \in Token
      BY <1>2 DEF Token
    <2> HIDE DEF name
    <2> <<>> \in Seq(Token) /\ (name # NoName => <<name>> \in Seq(Token))
      BY <2>1
    <2> QED
      OBVIOUS
  <1>5. /\ val \in Seq(Token) /\ Len(val) >= 1
        /\ shape \in {"nested", "parenthesized"} => Len(val) >= 3
    <2>0. i \in Token /\ "(" \in Token /\ ")" \in Token /\ "g(" \in Token /\ "y" \in Token
          /\ "for" \in Token /\ "v:=" \in Token /\ "*" \in Token
      BY <1>1 DEF Token
    <2>1. CASE shape \in {"plain", "precise"}
      <3> val = <<i>>
        BY <2>1 DEF Value
      <3> QED
        BY <2>0, <2>1
    <2>2. CASE shape = "parenthesized"
      <3> val = <<"(", i, ")">>
        BY <2>2 DEF Value
      <3> QED
        BY <2>0, <2>2
    <2>3. CASE shape = "nested"
      <3>1. CASE fixed
        <4> val = <<"g(", "y", i, ")">>
          BY <2>3, <3>1 DEF Value
        <4> QED
          BY <2>0, <2>3
      <3>2. CASE ~fixed
        <4> val = <<"g(", i, ")">>
          BY <2>3, <3>2 DEF Value
        <4> QED
          BY <2>0, <2>3
      <3> QED
        BY <3>1, <3>2
    <2>4. CASE shape = "generator"
      <3> val = <<i, "for">>
        BY <2>4 DEF Value
      <3> QED
        BY <2>0, <2>4
    <2>5. CASE shape = "walrus"
      <3> val = <<"v:=", i>>
        BY <2>5 DEF Value
      <3> QED
        BY <2>0, <2>5
    <2>6. CASE shape = "starred"
      <3> val = <<"*", i>>
        BY <2>6 DEF Value
      <3> QED
        BY <2>0, <2>6
    <2> QED
      BY <1>2, <2>1, <2>2, <2>3, <2>4, <2>5, <2>6 DEF AllShapes
  <1> HIDE DEF pre, val
  <1>6. pre \o val \in Seq(Token) /\ Len(pre \o val) = Len(pre) + Len(val)
    BY <1>4, <1>5, ConcatProperties
  <1>7. <<",">> \in Seq(Token) /\ Len(<<",">>) = 1
    BY DEF Token
  <1>8. /\ Argument(args, i) \in Seq(Token)
        /\ Len(Argument(args, i)) = (Len(pre) + Len(val)) + 1
    <2> DEFINE head == pre \o val
               comma == <<",">>
    <2>1. head \in Seq(Token) /\ comma \in Seq(Token) /\ Len(comma) = 1
      BY <1>6, <1>7
    <2>2. Argument(args, i) = head \o comma /\ Len(head) = Len(pre) + Len(val)
      BY <1>3, <1>6
    <2> HIDE DEF head, comma
    <2>3. head \o comma \in Seq(Token) /\ Len(head \o comma) = Len(head) + Len(comma)
      BY <2>1, ConcatProperties
    <2> QED
      BY <2>1, <2>2, <2>3
  <1>9. Len(pre) \in Nat /\ Len(val) \in Nat
    BY <1>4, <1>5, LenProperties
  <1> QED
    BY <1>5, <1>8, <1>9 DEF shape

\* The text before an argument ends with the one before it.
LEMMA BeforeNext ==
  ASSUME NEW args \in Seq(Arg), NEW i \in DOMAIN args
  PROVE  /\ Before(args, i) \in Seq(Token)
         /\ Before(args, i + 1) = Before(args, i) \o Argument(args, i)
  <1> DEFINE part(j) == IF j = 1 THEN <<"f(">> ELSE Argument(args, j - 1)
             parts == [j \in 1 .. i |-> part(j)]
             more == [j \in 1 .. i + 1 |-> part(j)]
  <1>1. i \in 1 .. Len(args) /\ Len(args) \in Nat /\ DOMAIN args = 1 .. Len(args)
    BY LenProperties
  <1>2. \A j \in 1 .. i + 1 : part(j) \in Seq(Token)
    <2> TAKE j \in 1 .. i + 1
    <2>1. CASE j = 1
      BY <2>1 DEF Token
    <2>2. CASE j # 1
      <3> j - 1 \in DOMAIN args
        BY <1>1, <2>2
      <3> Argument(args, j - 1) \in Seq(Token)
        BY ArgumentLength
      <3> QED
        BY <2>2
    <2> QED
      BY <2>1, <2>2
  <1>3. part(i + 1) = Argument(args, i)
    BY <1>1
  <1> HIDE DEF part
  <1>4. parts \in Seq(Seq(Token)) /\ Len(parts) = i
    BY <1>1, <1>2
  <1>5. more = Append(parts, part(i + 1))
    BY <1>1, <1>2
  <1>6. Before(args, i) = FlattenSeq(parts) /\ Before(args, i + 1) = FlattenSeq(more)
    BY DEF Before, part
  <1> HIDE DEF parts, more
  <1>7. FlattenSeq(more) = FlattenSeq(parts) \o part(i + 1)
    BY <1>1, <1>2, <1>4, <1>5, FlattenAppend
  <1> QED
    BY <1>3, <1>4, <1>6, <1>7, FlattenType

\* Later arguments are further right, by the length of those between.
LEMMA BeforeGrows ==
  ASSUME NEW args \in Seq(Arg), NEW i \in DOMAIN args
  PROVE  /\ Len(Before(args, i)) \in Nat
         /\ \A j \in DOMAIN args :
               i < j => Len(Before(args, j)) >= Len(Before(args, i)) + Len(Argument(args, i))
  <1> DEFINE at(j) == Len(Before(args, j))
             len(j) == Len(Argument(args, j))
             P == {k \in Nat : i + 1 + k <= Len(args) => at(i + 1 + k) >= at(i) + len(i)}
  <1>1. i \in 1 .. Len(args) /\ Len(args) \in Nat /\ DOMAIN args = 1 .. Len(args)
    BY LenProperties
  <1>2. \A j \in 1 .. Len(args) :
           at(j) \in Nat /\ len(j) \in Nat /\ at(j + 1) = at(j) + len(j) /\ at(j + 1) \in Nat
    <2> TAKE j \in 1 .. Len(args)
    <2>1. j \in DOMAIN args
      BY <1>1
    <2>2. /\ Before(args, j) \in Seq(Token)
          /\ Before(args, j + 1) = Before(args, j) \o Argument(args, j)
      BY <2>1, BeforeNext
    <2>3. Argument(args, j) \in Seq(Token)
      BY <2>1, ArgumentLength
    <2>4. at(j + 1) = at(j) + len(j)
      BY <2>2, <2>3, ConcatProperties
    <2>5. at(j) \in Nat /\ len(j) \in Nat
      BY <2>2, <2>3, LenProperties
    <2> QED
      BY <2>4, <2>5
  <1> HIDE DEF at, len
  <1>3. 0 \in P
    <2> (i + 1) + 0 = i + 1
      BY <1>1
    <2> QED
      BY <1>1, <1>2
  <1>4. ASSUME NEW k \in Nat, k \in P
        PROVE  k + 1 \in P
    <2> SUFFICES ASSUME i + 1 + (k + 1) <= Len(args)
                 PROVE  at(i + 1 + (k + 1)) >= at(i) + len(i)
      OBVIOUS
    <2> DEFINE m == i + 1 + k
    <2>1. m \in 1 .. Len(args) /\ i + 1 + (k + 1) = m + 1
      BY <1>1
    <2>2. at(m) >= at(i) + len(i)
      BY <1>4, <2>1
    <2> HIDE DEF m
    <2>3. at(m + 1) = at(m) + len(m) /\ at(m) \in Nat /\ len(m) \in Nat
      BY <1>2, <2>1
    <2>4. at(i) \in Nat /\ len(i) \in Nat
      BY <1>1, <1>2
    <2>5. at(m + 1) >= at(i) + len(i)
      BY <2>2, <2>3, <2>4
    <2> QED
      BY <2>1, <2>5
  <1> HIDE DEF P
  <1>5. \A k \in Nat : k \in P
    BY <1>3, <1>4, NatInd
  <1>6. ASSUME NEW j \in DOMAIN args, i < j
        PROVE  at(j) >= at(i) + len(i)
    <2>1. j - (i + 1) \in Nat /\ i + 1 + (j - (i + 1)) = j /\ j <= Len(args)
      BY <1>1, <1>6
    <2> QED
      BY <1>5, <2>1 DEF P
  <1>7. at(i) \in Nat
    BY <1>1, <1>2
  <1> QED
    BY <1>6, <1>7 DEF at, len

\* The insertions that give these arguments their names.
NameEdits(S, nm) == {[at |-> ArgumentStart(call.args, i), name |-> nm[i]] : i \in S}

\* What Python reads in front of an argument is the name it was given, and nothing
\* of its neighbours or of the calls nested in them.
LEMMA NamesAreRead ==
  ASSUME call.args \in Seq(Arg), NEW S \in SUBSET DOMAIN call.args, NEW nm,
         insertions = NestedInsertions(call.args) \cup NameEdits(S, nm),
         NEW i \in DOMAIN call.args
  PROVE  /\ i \in S => NamesBefore(i) = {nm[i]}
         /\ i \notin S => NamesBefore(i) = {}
  <1> DEFINE args == call.args
             at(j) == Len(Before(args, j))
             len(j) == Len(Argument(args, j))
             places == at(i) + 1 .. at(i) + (IF args[i].shape = "parenthesized" THEN 2 ELSE 1)
             nested == {j \in DOMAIN args : args[j].shape = "nested" /\ ~args[j].fixed}
             inner == {[at |-> at(j) + 2, name |-> "y"] : j \in nested}
             outer == {[at |-> at(j) + 1, name |-> nm[j]] : j \in S}
  <1>1. insertions = inner \cup outer
    BY Zenon DEF NestedInsertions, NameEdits, ArgumentStart
  <1>2. NamesBefore(i) = {e.name : e \in {e \in insertions : e.at \in places}}
    BY Zenon DEF NamesBefore
  <1>3. args \in Seq(Arg) /\ i \in DOMAIN args /\ S \subseteq DOMAIN args
    OBVIOUS
  <1> HIDE DEF args
  <1>4. /\ \A e \in insertions :
              \/ \E j \in nested : e.at = at(j) + 2
              \/ \E j \in S : e.name = nm[j] /\ e.at = at(j) + 1
        /\ \A j \in S : \E e \in insertions : e.name = nm[j] /\ e.at = at(j) + 1
    <2> HIDE DEF at, nested
    <2>1. ASSUME NEW e \in inner
          PROVE  \E j \in nested : e.at = at(j) + 2
      <3> PICK j \in nested : e = [at |-> at(j) + 2, name |-> "y"]
        OBVIOUS
      <3> QED
        OBVIOUS
    <2>2. ASSUME NEW e \in outer
          PROVE  \E j \in S : e.name = nm[j] /\ e.at = at(j) + 1
      <3> PICK j \in S : e = [at |-> at(j) + 1, name |-> nm[j]]
        OBVIOUS
      <3> QED
        OBVIOUS
    <2>3. ASSUME NEW j \in S
          PROVE  \E e \in outer : e.name = nm[j] /\ e.at = at(j) + 1
      <3> DEFINE e == [at |-> at(j) + 1, name |-> nm[j]]
      <3> e \in outer /\ e.name = nm[j] /\ e.at = at(j) + 1
        OBVIOUS
      <3> QED
        OBVIOUS
    <2> HIDE DEF inner, outer
    <2> QED
      BY <1>1, <2>1, <2>2, <2>3
  <1>5. \A n : n \in NamesBefore(i) <=> \E e \in insertions : e.at \in places /\ e.name = n
    <2> HIDE DEF places
    <2> QED
      BY <1>2
  <1>6. /\ \A j \in DOMAIN args :
              /\ j \in Nat /\ at(j) \in Nat /\ len(j) \in Nat /\ len(j) >= 2
              /\ args[j].shape \in {"nested", "parenthesized"} => len(j) >= 4
        /\ \A j, k \in DOMAIN args : j < k => at(k) >= at(j) + len(j)
    <2>1. ASSUME NEW j \in DOMAIN args
          PROVE  /\ j \in Nat /\ at(j) \in Nat /\ len(j) \in Nat /\ len(j) >= 2
                 /\ args[j].shape \in {"nested", "parenthesized"} => len(j) >= 4
                 /\ \A k \in DOMAIN args : j < k => at(k) >= at(j) + len(j)
      <3>1. /\ len(j) \in Nat /\ len(j) >= 2
            /\ args[j].shape \in {"nested", "parenthesized"} => len(j) >= 4
        BY <1>3, ArgumentLength
      <3>2. at(j) \in Nat /\ \A k \in DOMAIN args : j < k => at(k) >= at(j) + len(j)
        BY <1>3, BeforeGrows
      <3>3. j \in Nat
        BY <1>3, LenProperties
      <3> QED
        BY <3>1, <3>2, <3>3
    <2> QED
      BY <2>1
  <1> HIDE DEF at, len, inner, outer
  <1>7. ASSUME NEW j \in DOMAIN args, at(j) + 1 \in places
        PROVE  j = i
    <2>1. at(i) \in Nat /\ at(j) \in Nat /\ at(j) + 1 >= at(i) + 1 /\ at(j) + 1 <= at(i) + 2
      BY <1>3, <1>6, <1>7
    <2>2. ~(j < i)
      <3> SUFFICES ASSUME j < i
                   PROVE  FALSE
        OBVIOUS
      <3>1. at(i) >= at(j) + len(j) /\ len(j) \in Nat /\ len(j) >= 2
        BY <1>3, <1>6
      <3> QED
        BY <2>1, <3>1
    <2>3. ~(i < j)
      <3> SUFFICES ASSUME i < j
                   PROVE  FALSE
        OBVIOUS
      <3>1. at(j) >= at(i) + len(i) /\ len(i) \in Nat /\ len(i) >= 2
        BY <1>3, <1>6
      <3> QED
        BY <2>1, <3>1
    <2> QED
      BY <1>3, <1>6, <2>2, <2>3
  <1>8. ASSUME NEW j \in nested
        PROVE  at(j) + 2 \notin places
    <2>0. j \in DOMAIN args /\ args[j].shape = "nested" /\ j \in Nat /\ i \in Nat
      BY <1>3, <1>6
    <2>1. CASE j = i
      BY <1>6, <2>0, <2>1
    <2>2. CASE j < i
      <3>1. at(i) >= at(j) + len(j) /\ len(j) \in Nat /\ len(j) >= 4 /\ at(i) \in Nat /\ at(j) \in Nat
        BY <1>3, <1>6, <2>0, <2>2
      <3> QED
        BY <3>1
    <2>3. CASE i < j
      <3>1. /\ at(j) >= at(i) + len(i) /\ len(i) \in Nat /\ len(i) >= 2
            /\ at(i) \in Nat /\ at(j) \in Nat
        BY <1>3, <1>6, <2>0, <2>3
      <3> QED
        BY <3>1
    <2> QED
      BY <2>0, <2>1, <2>2, <2>3
  <1>9. at(i) + 1 \in places
    BY <1>3, <1>6
  <1> HIDE DEF places, nested
  <1>10. CASE i \in S
    <2>1. nm[i] \in NamesBefore(i)
      BY <1>4, <1>5, <1>9, <1>10
    <2>2. \A n \in NamesBefore(i) : n = nm[i]
      BY <1>3, <1>4, <1>5, <1>7, <1>8
    <2> QED
      BY <1>10, <2>1, <2>2
  <1>11. CASE i \notin S
    <2>1. \A n : n \notin NamesBefore(i)
      BY <1>3, <1>4, <1>5, <1>7, <1>8, <1>11
    <2> QED
      BY <1>11, <2>1
  <1> QED
    BY <1>10, <1>11

\* The argument a with the name n, its nested calls fixed or not.
WithName(a, n, b) == [a EXCEPT !.name = n, !.fixed = b]

\* It is an argument of the same shape.
LEMMA ArgumentNamed ==
  ASSUME NEW a \in Arg, NEW n \in STRING \cup {NoName}, NEW b \in BOOLEAN
  PROVE  /\ WithName(a, n, b) \in Arg
         /\ WithName(a, n, b).name = n /\ WithName(a, n, b).shape = a.shape
  BY DEF Arg, WithName

\* The call read has these names besides those it had, and the same arguments.
LEMMA RereadCall ==
  ASSUME call \in [args : Seq(Arg), keywords : SUBSET STRING], Reread,
         NEW S \in SUBSET ByPosition(call.args), NEW nm \in [S -> STRING],
         \A i \in DOMAIN call.args :
            /\ i \in S => NamesBefore(i) = {nm[i]}
            /\ i \notin S => NamesBefore(i) = {}
  PROVE  /\ call' \in [args : Seq(Arg), keywords : {call.keywords}]
         /\ DOMAIN call'.args = DOMAIN call.args /\ Len(call'.args) = Len(call.args)
         /\ \A i \in DOMAIN call.args :
               /\ call'.args[i].shape = call.args[i].shape
               /\ i \in S => call'.args[i].name = nm[i]
               /\ i \notin S => call'.args[i].name = call.args[i].name
  <1> DEFINE new(i) == IF call.args[i].name = NoName /\ NamesBefore(i) # {}
                       THEN CHOOSE n \in NamesBefore(i) : TRUE ELSE call.args[i].name
             fixed(i) == call.args[i].shape = "nested"
             arg(i) == WithName(call.args[i], new(i), fixed(i))
             args == [i \in DOMAIN call.args |-> arg(i)]
  <1>1. call' = [call EXCEPT !.args = args]
    BY Zenon DEF Reread, WithName
  <1>2. /\ call.args \in Seq(Arg) /\ S \subseteq DOMAIN call.args
        /\ \A i \in S : call.args[i].name = NoName
    BY DEF ByPosition
  <1>3. \A i \in DOMAIN call.args :
           /\ call.args[i] \in Arg
           /\ i \in S => new(i) = nm[i]
           /\ i \notin S => new(i) = call.args[i].name
    <2> TAKE i \in DOMAIN call.args
    <2>1. call.args[i] \in Arg
      BY <1>2, ElementOfSeq, LenProperties
    <2>2. CASE i \in S
      <3> NamesBefore(i) = {nm[i]} /\ call.args[i].name = NoName
        BY <1>2, <2>2
      <3> QED
        BY <2>1, <2>2
    <2>3. CASE i \notin S
      <3> NamesBefore(i) = {}
        BY <2>3
      <3> QED
        BY <2>1, <2>3
    <2> QED
      BY <2>2, <2>3
  <1>4. \A i \in DOMAIN call.args : new(i) \in STRING \cup {NoName}
    <2> HIDE DEF new
    <2> QED
      BY <1>3 DEF Arg
  <1> HIDE DEF new
  <1>5. \A i \in DOMAIN call.args :
           arg(i) \in Arg /\ arg(i).name = new(i) /\ arg(i).shape = call.args[i].shape
    <2> SUFFICES ASSUME NEW i \in DOMAIN call.args
                 PROVE  arg(i) \in Arg /\ arg(i).name = new(i) /\ arg(i).shape = call.args[i].shape
      OBVIOUS
    <2> DEFINE a == call.args[i]
               n == new(i)
               b == fixed(i)
    <2>1. a \in Arg /\ n \in STRING \cup {NoName}
      BY <1>3, <1>4
    <2>2. b \in BOOLEAN
      BY Zenon
    <2> HIDE DEF a, n, b
    <2>3. /\ WithName(a, n, b) \in Arg
          /\ WithName(a, n, b).name = n /\ WithName(a, n, b).shape = a.shape
      BY <2>1, <2>2, ArgumentNamed, Zenon
    <2> QED
      BY <2>3, Zenon DEF a, n, b
  <1> HIDE DEF arg, fixed
  <1>6. DOMAIN call.args = 1 .. Len(call.args) /\ Len(call.args) \in Nat
    <2> DEFINE s == call.args
    <2>1. s \in Seq(Arg)
      BY <1>2
    <2> HIDE DEF s
    <2>2. DOMAIN s = 1 .. Len(s) /\ Len(s) \in Nat
      BY <2>1, LenProperties
    <2> QED
      BY <2>2 DEF s
  <1>7. /\ args \in Seq(Arg) /\ Len(args) = Len(call.args) /\ DOMAIN args = DOMAIN call.args
        /\ \A i \in DOMAIN call.args : args[i] = arg(i)
    BY <1>5, <1>6
  <1> HIDE DEF args
  <1>8. /\ call' \in [args : Seq(Arg), keywords : {call.keywords}]
        /\ call'.args = args
    BY <1>1, <1>7
  <1> QED
    BY <1>3, <1>5, <1>7, <1>8

(***************************************************************************)
(* What names do to the binding of a call                                  *)
(***************************************************************************)
\* The definition selected is one of Python's, and supplies a receiver at most.
LEMMA SelectedFacts ==
  ASSUME SiteIsGiven
  PROVE  /\ Selected \in Seq([name : STRING, group : Groups]) /\ Legal(Selected)
         /\ Supplied(site.base) \in {0, 1}
         /\ DOMAIN Selected = 1 .. Len(Selected) /\ Len(Selected) \in Nat
  <1>1. callee \in Callable /\ site.arm \in DOMAIN callee.arms /\ Legal(Selected)
    BY InputsAssumption DEF SiteIsGiven, Selected
  <1>2. /\ callee.arms \in Seq(Seq([name : STRING, group : Groups]))
        /\ callee.kind \in {"function", "method", "classmethod", "staticmethod"}
    BY <1>1 DEF Callable
  <1>3. Selected \in Seq([name : STRING, group : Groups])
    BY <1>1, <1>2, ElementOfSeq, LenProperties DEF Selected
  <1>4. Supplied(site.base) \in {0, 1}
    BY <1>2 DEF Supplied
  <1> HIDE DEF Selected
  <1> QED
    BY <1>1, <1>3, <1>4, LenProperties

\* What kind a parameter is that is passed by position.
LEMMA KindFacts ==
  ASSUME NEW p \in [name : STRING, group : Groups]
  PROVE  /\ p.group = "posonly" => KindOf(p) = "PositionalOnly"
         /\ p.group = "args" => KindOf(p) \in {"PositionalOnly", "PositionalOrKeyword"}
         /\ p.group = "vararg" => KindOf(p) = "VarPositional"
         /\ p.group = "kwonly" => KindOf(p) = "KeywordOnly"
         /\ p.group = "kwarg" => KindOf(p) = "VarKeyword"
         /\ p.group \in {"posonly", "args", "vararg", "kwonly", "kwarg"}
  <1>1. p.group \in {"posonly", "args", "vararg", "kwonly", "kwarg"}
    BY DEF Groups, Rank
  <1>2. CASE p.group = "posonly"
    BY <1>2 DEF KindOf
  <1>3. CASE p.group = "args"
    BY <1>3 DEF KindOf
  <1>4. CASE p.group = "vararg"
    BY <1>4 DEF KindOf
  <1>5. CASE p.group = "kwonly"
    BY <1>5 DEF KindOf
  <1>6. CASE p.group = "kwarg"
    BY <1>6 DEF KindOf
  <1> QED
    BY <1>1, <1>2, <1>3, <1>4, <1>5, <1>6

\* The call gets more names: those of the parameters that its arguments are for.
Named(args) == {i \in DOMAIN args : args[i].name # NoName}
Renaming(arm, s, args, keywords, S, after) ==
    /\ S \subseteq ByPosition(args) /\ DOMAIN after = DOMAIN args
    /\ \A i \in S :
          /\ i + s \in DOMAIN arm
          /\ arm[i + s].name \notin keywords /\ \A j \in DOMAIN args : arm[i + s].name # args[j].name
          /\ KindOf(arm[i + s]) \in {"PositionalOrKeyword", "KeywordOnly"}
          /\ after[i].name = arm[i + s].name
    /\ \A i \in DOMAIN args : i \notin S => after[i].name = args[i].name

\* What Python asks of a call's names and positions, condition by condition.
Taken(arm, s, args) == {Slot(arm, s, i) : i \in ByPosition(args)} \cup (1 .. s)
Passed(args, keywords) == {args[i].name : i \in Named(args)} \cup (keywords \ {NoName})
Fits(arm, s, args, n) ==
    /\ ParameterNamed(arm, n) \cap Taken(arm, s, args) = {}
    /\ ParameterNamed(arm, n) # {} \/ GroupIn(arm, "kwarg")

\* Accepts, by the arguments named and what is passed by name.
LEMMA AcceptsIs ==
  ASSUME NEW arm, NEW s, NEW args, NEW keywords
  PROVE  Accepts(arm, s, args, keywords) <=>
            /\ \A i, j \in Named(args) : args[i].name = args[j].name => i = j
            /\ \A i \in Named(args) : args[i].name \notin keywords
            /\ \A i \in ByPosition(args) : Slot(arm, s, i) # 0 \/ GroupIn(arm, "vararg")
            /\ \A n \in Passed(args, keywords) : Fits(arm, s, args, n)
  BY Zenon DEF Accepts, Named, Passed, Fits, Taken

\* Parameters have distinct names, not empty.
LEMMA LegalNames ==
  ASSUME NEW arm \in Seq([name : STRING, group : Groups]), Legal(arm)
  PROVE  /\ DOMAIN arm = 1 .. Len(arm) /\ Len(arm) \in Nat
         /\ \A i \in DOMAIN arm : arm[i].name # NoName
         /\ \A i, j \in DOMAIN arm : arm[i].name = arm[j].name => i = j
  <1>1. DOMAIN arm = 1 .. Len(arm) /\ Len(arm) \in Nat
    BY LenProperties
  <1>2. /\ \A i \in DOMAIN arm : arm[i].name # NoName
        /\ \A i, j \in DOMAIN arm : i < j => arm[i].name # arm[j].name
    BY DEF Legal
  <1> QED
    BY <1>1, <1>2

\* The call is one that Python accepts, without *args.
Renamable(arm, s, args, keywords, S, after) ==
    /\ arm \in Seq([name : STRING, group : Groups]) /\ Legal(arm) /\ ~GroupIn(arm, "vararg")
    /\ s \in {0, 1} /\ args \in Seq(Arg)
    /\ Renaming(arm, s, args, keywords, S, after) /\ Accepts(arm, s, args, keywords)

\* Python accepts the call that gets more names, and binds its arguments as before.
LEMMA NamesAccepted ==
  ASSUME NEW arm, NEW s, NEW args, NEW keywords, NEW S, NEW after,
         Renamable(arm, s, args, keywords, S, after)
  PROVE  /\ Accepts(arm, s, after, keywords)
         /\ \A i \in DOMAIN args : Bound(arm, s, after, i) = Bound(arm, s, args, i)
         /\ \A i \in ByPosition(args) : i + s \in Positional(arm) /\ Slot(arm, s, i) = i + s
         /\ ByPosition(after) = ByPosition(args) \ S
  <1>0. /\ arm \in Seq([name : STRING, group : Groups]) /\ Legal(arm) /\ ~GroupIn(arm, "vararg")
        /\ s \in {0, 1} /\ args \in Seq(Arg)
        /\ Renaming(arm, s, args, keywords, S, after) /\ Accepts(arm, s, args, keywords)
    BY DEF Renamable
  <1> USE <1>0
  <1>1. /\ \A i, j \in Named(args) : args[i].name = args[j].name => i = j
        /\ \A i \in Named(args) : args[i].name \notin keywords
        /\ \A i \in ByPosition(args) : Slot(arm, s, i) # 0 \/ GroupIn(arm, "vararg")
        /\ \A n \in Passed(args, keywords) : Fits(arm, s, args, n)
    BY AcceptsIs
  <1>2. /\ DOMAIN arm = 1 .. Len(arm) /\ Len(arm) \in Nat
        /\ \A i \in DOMAIN arm : arm[i].name # NoName
        /\ \A i, j \in DOMAIN arm : arm[i].name = arm[j].name => i = j
    BY LegalNames
  <1>3. \A i \in ByPosition(args) : i + s \in Positional(arm) /\ Slot(arm, s, i) = i + s
    BY <1>1 DEF Slot
  <1>4. \A i \in DOMAIN args : i \in Nat /\ i >= 1
    <2> DOMAIN args = 1 .. Len(args) /\ Len(args) \in Nat
      BY LenProperties
    <2> QED
      OBVIOUS
  <1>5. \A i \in S : /\ i \in ByPosition(args) /\ i \in DOMAIN args /\ args[i].name = NoName
                     /\ i + s \in DOMAIN arm
                     /\ after[i].name = arm[i + s].name /\ after[i].name # NoName
                     /\ after[i].name \notin keywords
                     /\ KindOf(arm[i + s]) \in {"PositionalOrKeyword", "KeywordOnly"}
                     /\ \A j \in DOMAIN args : after[i].name # args[j].name
    BY <1>2 DEF Renaming, ByPosition
  <1>6. /\ \A i \in DOMAIN args : i \notin S => after[i].name = args[i].name
        /\ DOMAIN after = DOMAIN args
    BY DEF Renaming
  <1>7. \A i : i \in Named(after) <=> i \in Named(args) \/ i \in S
    BY <1>5, <1>6 DEF Named
  <1>8. \A i : i \in ByPosition(after) <=> i \in ByPosition(args) /\ i \notin S
    BY <1>5, <1>6 DEF ByPosition
  <1>9. \A i \in S : ParameterNamed(arm, after[i].name) = {i + s}
    BY <1>2, <1>5 DEF ParameterNamed
  <1>10. Taken(arm, s, after) \subseteq Taken(arm, s, args)
    BY <1>8 DEF Taken
  <1>11. \A i \in S : i + s \notin Taken(arm, s, after)
    <2> SUFFICES ASSUME NEW i \in S
                 PROVE  i + s \notin Taken(arm, s, after)
      OBVIOUS
    <2>1. i \in DOMAIN args
      BY <1>5
    <2>2. i \in Nat /\ i >= 1
      BY <1>4, <2>1
    <2>3. i + s \notin 1 .. s
      BY <2>2
    <2>4. \A j \in ByPosition(after) : Slot(arm, s, j) = j + s /\ j # i /\ j \in DOMAIN args
      BY <1>3, <1>8 DEF ByPosition
    <2>5. \A j \in ByPosition(after) : Slot(arm, s, j) # i + s
      BY <1>4, <2>2, <2>4
    <2> QED
      BY <2>3, <2>5 DEF Taken
  <1>12. \A i, j \in Named(after) : after[i].name = after[j].name => i = j
    <2> SUFFICES ASSUME NEW i \in Named(after), NEW j \in Named(after), after[i].name = after[j].name
                 PROVE  i = j
      OBVIOUS
    <2>0. i \in DOMAIN args /\ j \in DOMAIN args
      BY <1>5, <1>7 DEF Named
    <2>1. CASE i \in S /\ j \in S
      <3>1. i + s \in DOMAIN arm /\ j + s \in DOMAIN arm /\ arm[i + s].name = arm[j + s].name
        BY <1>5, <2>1
      <3>2. i + s = j + s
        BY <1>2, <3>1
      <3>3. i \in Nat /\ j \in Nat
        BY <1>4, <2>0
      <3> QED
        BY <3>2, <3>3
    <2>2. CASE i \in S /\ j \notin S
      BY <1>5, <1>6, <2>0, <2>2
    <2>3. CASE i \notin S /\ j \in S
      BY <1>5, <1>6, <2>0, <2>3
    <2>4. CASE i \notin S /\ j \notin S
      BY <1>1, <1>6, <1>7, <2>0, <2>4
    <2> QED
      BY <2>1, <2>2, <2>3, <2>4
  <1>13. \A i \in Named(after) : after[i].name \notin keywords
    <2> SUFFICES ASSUME NEW i \in Named(after)
                 PROVE  after[i].name \notin keywords
      OBVIOUS
    <2>1. CASE i \in S
      BY <1>5, <2>1
    <2>2. CASE i \notin S
      BY <1>1, <1>6, <1>7, <2>2 DEF Named
    <2> QED
      BY <2>1, <2>2
  <1>14. \A n \in Passed(after, keywords) : n \in Passed(args, keywords) \/ \E i \in S : n = after[i].name
    <2> SUFFICES ASSUME NEW i \in Named(after)
                 PROVE  after[i].name \in Passed(args, keywords) \/ i \in S
      BY DEF Passed
    <2>2. CASE i \notin S
      BY <1>6, <1>7, <2>2 DEF Named, Passed
    <2> QED
      BY <2>2
  <1>15. \A n \in Passed(after, keywords) : Fits(arm, s, after, n)
    <2> SUFFICES ASSUME NEW n \in Passed(after, keywords)
                 PROVE  Fits(arm, s, after, n)
      OBVIOUS
    <2>1. CASE n \in Passed(args, keywords)
      BY <1>1, <1>10, <2>1 DEF Fits
    <2>2. CASE \E i \in S : n = after[i].name
      BY <1>9, <1>11, <2>2 DEF Fits
    <2> QED
      BY <1>14, <2>1, <2>2
  <1>16. \A i \in ByPosition(after) : Slot(arm, s, i) # 0 \/ GroupIn(arm, "vararg")
    BY <1>1, <1>8
  <1>17. Accepts(arm, s, after, keywords)
    BY <1>12, <1>13, <1>15, <1>16, AcceptsIs
  <1>18. \A i \in DOMAIN args : Bound(arm, s, after, i) = Bound(arm, s, args, i)
    <2> SUFFICES ASSUME NEW i \in DOMAIN args
                 PROVE  Bound(arm, s, after, i) = Bound(arm, s, args, i)
      OBVIOUS
    <2>1. CASE i \in S
      <3>1. Bound(arm, s, args, i) = i + s
        BY <1>3, <1>5, <2>1 DEF Bound
      <3>2. after[i].name # NoName /\ ParameterNamed(arm, after[i].name) = {i + s}
        BY <1>5, <1>9, <2>1
      <3>3. Bound(arm, s, after, i) = i + s
        BY <3>2 DEF Bound
      <3> QED
        BY <3>1, <3>3
    <2>2. CASE i \notin S
      <3> after[i].name = args[i].name
        BY <1>6, <2>2
      <3> QED
        BY DEF Bound
    <2> QED
      BY <2>1, <2>2
  <1>19. ByPosition(after) = ByPosition(args) \ S
    BY <1>8
  <1> QED
    BY <1>3, <1>17, <1>18, <1>19

\* What the call reaches when there is no boundary that renames it.
LEMMA ReachedIs ==
  ASSUME site.boundary \in {"none", "competing"}
  PROVE  Reached(Selected) = Selected /\ ReachedSupplied = Supplied(site.base)
  BY DEF Reached, ReachedSupplied, Renames

\* What a plan gives is a renaming of the call.
LEMMA CanNameRenames ==
  ASSUME SiteIsGiven, NamesComeLast, NEW n, CanName(n), ~ReceiverByDefinition,
         NEW S, S = {j \in ByPosition(call.args) : j > n},
         NEW after, DOMAIN after = DOMAIN call.args,
         \A i \in DOMAIN call.args :
            /\ i \in S => after[i].name = For(i).name
            /\ i \notin S => after[i].name = call.args[i].name
  PROVE  Renaming(Selected, Supplied(site.base), call.args, call.keywords, S, after)
  <1>0. PassedOver = Supplied(site.base)
    BY DEF PassedOver
  <1>1. \A i \in S : i \in DOMAIN call.args /\ i \in ByPosition(call.args) /\ i > n
    BY DEF ByPosition
  <1>2. \A i \in S :
           /\ i + Supplied(site.base) \in DOMAIN Selected
           /\ For(i).name \notin call.keywords
           /\ \A j \in DOMAIN call.args : For(i).name # call.args[j].name
           /\ KindOf(For(i)) \in {"PositionalOrKeyword", "KeywordOnly"}
    <2> SUFFICES ASSUME NEW i \in S
                 PROVE  /\ i + Supplied(site.base) \in DOMAIN Selected
                        /\ For(i).name \notin call.keywords
                        /\ \A j \in DOMAIN call.args : For(i).name # call.args[j].name
                        /\ KindOf(For(i)) \in {"PositionalOrKeyword", "KeywordOnly"}
      OBVIOUS
    <2>1. /\ i + Supplied(site.base) \in DOMAIN Selected
          /\ For(i).name \notin call.keywords \cup {call.args[j].name : j \in DOMAIN call.args}
          /\ KindOf(For(i)) \in {"PositionalOrKeyword", "KeywordOnly"}
      BY <1>0, <1>1, Zenon DEF CanName
    <2> QED
      BY <2>1, Zenon
  <1>3. \A i \in S : For(i) = Selected[i + Supplied(site.base)]
    BY <1>0 DEF For
  <1> DEFINE arm == Selected
             s == Supplied(site.base)
             args == call.args
             keywords == call.keywords
  <1>4. \A i \in S :
           /\ i + s \in DOMAIN arm /\ arm[i + s].name \notin keywords
           /\ \A j \in DOMAIN args : arm[i + s].name # args[j].name
           /\ KindOf(arm[i + s]) \in {"PositionalOrKeyword", "KeywordOnly"}
           /\ after[i].name = arm[i + s].name
    <2> SUFFICES ASSUME NEW i \in S
                 PROVE  /\ i + s \in DOMAIN arm /\ arm[i + s].name \notin keywords
                        /\ \A j \in DOMAIN args : arm[i + s].name # args[j].name
                        /\ KindOf(arm[i + s]) \in {"PositionalOrKeyword", "KeywordOnly"}
                        /\ after[i].name = arm[i + s].name
      OBVIOUS
    <2>1. For(i) = arm[i + s]
      BY <1>3
    <2>2. after[i].name = For(i).name
      BY <1>1
    <2> QED
      BY <1>2, <2>1, <2>2, Zenon
  <1>5. S \subseteq ByPosition(args) /\ DOMAIN after = DOMAIN args
    OBVIOUS
  <1>6. \A i \in DOMAIN args : i \notin S => after[i].name = args[i].name
    OBVIOUS
  <1>7. Renaming(arm, s, args, keywords, S, after)
    <2> HIDE DEF arm, s, args, keywords
    <2> QED
      BY <1>4, <1>5, <1>6, Zenon DEF Renaming
  <1> QED
    BY <1>7

\* The call a plan makes keeps what the call means.
LEMMA NamingKeeps ==
  ASSUME SiteIsGiven, NamesComeLast, NEW n, CanName(n), ~OverrideUnseen, ~ReceiverByDefinition,
         NEW S, S = {j \in ByPosition(call.args) : j > n}, S # {},
         NEW after, after.keywords = call.keywords, DOMAIN after.args = DOMAIN call.args,
         \A i \in DOMAIN call.args :
            /\ i \in S => after.args[i].name = For(i).name
            /\ i \notin S => after.args[i].name = call.args[i].name
  PROVE  Keeps(call, after)
  <1> DEFINE arm == Selected
             s == Supplied(site.base)
  <1>1. /\ arm \in Seq([name : STRING, group : Groups]) /\ Legal(arm) /\ s \in {0, 1}
        /\ DOMAIN arm = 1 .. Len(arm)
    BY SelectedFacts
  <1>2. call.args \in Seq(Arg) /\ \A i \in DOMAIN call.args : i \in Nat /\ i >= 1
    <2>1. call.args \in Seq(Arg)
      BY DEF NamesComeLast
    <2> HIDE DEF NamesComeLast
    <2>2. DOMAIN call.args = 1 .. Len(call.args) /\ Len(call.args) \in Nat
      BY <2>1, LenProperties
    <2> QED
      BY <2>1, <2>2
  <1>3. /\ n \in Nat /\ site.boundary \in {"none", "competing"} /\ ~GroupIn(arm, "vararg")
        /\ \A i \in Receiver : i <= n
    BY DEF CanName
  <1>4. Renaming(arm, s, call.args, call.keywords, S, after.args)
    BY CanNameRenames
  <1>5. Reached(Selected) = arm /\ ReachedSupplied = s
    BY <1>3, ReachedIs
  <1> SUFFICES ASSUME Accepts(arm, s, call.args, call.keywords)
               PROVE  /\ Accepts(arm, s, after.args, after.keywords)
                      /\ \A i \in DOMAIN after.args :
                            Bound(arm, s, after.args, i) = Bound(arm, s, call.args, i)
                      /\ \A i \in MustStay(call.args) \cup (Receiver \cap DOMAIN after.args) :
                            after.args[i].name = NoName
    BY <1>5, Zenon DEF Keeps
  <1> HIDE DEF arm, s
  <1>6. /\ Accepts(arm, s, after.args, call.keywords)
        /\ \A i \in DOMAIN call.args : Bound(arm, s, after.args, i) = Bound(arm, s, call.args, i)
        /\ \A i \in ByPosition(call.args) : i + s \in Positional(arm) /\ Slot(arm, s, i) = i + s
    <2> DEFINE args == call.args
               keywords == call.keywords
               new == after.args
    <2>1. /\ args \in Seq(Arg) /\ Renaming(arm, s, args, keywords, S, new)
          /\ Accepts(arm, s, args, keywords)
      BY <1>2, <1>4
    <2>2. /\ arm \in Seq([name : STRING, group : Groups]) /\ Legal(arm) /\ s \in {0, 1}
          /\ ~GroupIn(arm, "vararg")
      BY <1>1, <1>3
    <2> HIDE DEF args, keywords, new
    <2>4. Renamable(arm, s, args, keywords, S, new)
      BY <2>1, <2>2 DEF Renamable
    <2>3. /\ Accepts(arm, s, new, keywords)
          /\ \A i \in DOMAIN args : Bound(arm, s, new, i) = Bound(arm, s, args, i)
          /\ \A i \in ByPosition(args) : i + s \in Positional(arm) /\ Slot(arm, s, i) = i + s
      BY <2>4, NamesAccepted
    <2> QED
      BY <2>3, Zenon DEF args, keywords, new
  <1>7. ASSUME NEW i \in MustStay(call.args)
        PROVE  after.args[i].name = NoName
    <2>1. /\ i \in ByPosition(call.args)
          /\ \/ Slot(arm, s, i) = 0 \/ KindOf(arm[Slot(arm, s, i)]) = "PositionalOnly"
             \/ \E j \in ByPosition(call.args) : Slot(arm, s, j) = 0
             \/ site.boundary = "competing" /\ i = 1
      BY <1>7 DEF MustStay, arm, s
    <2>2. i \in DOMAIN call.args /\ call.args[i].name = NoName
      BY <2>1 DEF ByPosition
    <2>3. SUFFICES ASSUME i \in S
                   PROVE  FALSE
      BY <2>2
    <2>4. \A j \in ByPosition(call.args) : Slot(arm, s, j) # 0
      <3> TAKE j \in ByPosition(call.args)
      <3>1. j \in DOMAIN call.args /\ Slot(arm, s, j) = j + s
        BY <1>6 DEF ByPosition
      <3> QED
        BY <1>1, <1>2, <3>1
    <2>5. /\ KindOf(For(i)) \in {"PositionalOrKeyword", "KeywordOnly"}
          /\ site.boundary = "competing" /\ i = 1 => For(i).group = "kwonly"
      BY <2>1, <2>3, Zenon DEF CanName
    <2>6. For(i) = arm[i + s] /\ Slot(arm, s, i) = i + s /\ arm[i + s].group \in {"posonly", "args"}
      BY <1>6, <2>1 DEF For, PassedOver, arm, s, Positional
    <2> QED
      BY <2>1, <2>4, <2>5, <2>6
  <1>8. ASSUME NEW i \in Receiver \cap DOMAIN call.args
        PROVE  after.args[i].name = NoName
    <2>1. i = 1 /\ i <= n
      BY <1>3 DEF Receiver
    <2>2. PICK j \in ByPosition(call.args) : j > n
      OBVIOUS
    <2>3. j \in DOMAIN call.args /\ call.args[j].name = NoName /\ j \in Nat /\ i < j
      BY <1>2, <1>3, <2>1, <2>2 DEF ByPosition
    <2>4. call.args[i].name = NoName
      BY <2>3 DEF NamesComeLast
    <2>5. i \notin S
      BY <1>3, <2>1
    <2> QED
      BY <2>4, <2>5
  <1> QED
    BY <1>6, <1>7, <1>8

\* What keeps the meaning of a call that does keeps the meaning of the first.
LEMMA KeepsTransitive ==
  ASSUME NEW a, NEW b, NEW c, DOMAIN a.args = DOMAIN b.args, DOMAIN b.args = DOMAIN c.args,
         \A i \in DOMAIN a.args : a.args[i].name = NoName, Keeps(a, b), Keeps(b, c)
  PROVE  Keeps(a, c)
  <1> DEFINE arm == Reached(Selected)
             s == ReachedSupplied
             slot(i) == Slot(Selected, Supplied(site.base), i)
  <1> SUFFICES ASSUME Accepts(arm, s, a.args, a.keywords)
               PROVE  /\ Accepts(arm, s, c.args, c.keywords)
                      /\ \A i \in DOMAIN c.args :
                            Bound(arm, s, c.args, i) = Bound(arm, s, a.args, i)
                      /\ \A i \in MustStay(a.args) \cup (Receiver \cap DOMAIN c.args) :
                            c.args[i].name = NoName
    BY Zenon DEF Keeps
  <1>1. /\ Accepts(arm, s, b.args, b.keywords)
        /\ \A i \in DOMAIN b.args : Bound(arm, s, b.args, i) = Bound(arm, s, a.args, i)
        /\ \A i \in MustStay(a.args) \cup (Receiver \cap DOMAIN b.args) : b.args[i].name = NoName
    BY Zenon DEF Keeps
  <1>2. /\ Accepts(arm, s, c.args, c.keywords)
        /\ \A i \in DOMAIN c.args : Bound(arm, s, c.args, i) = Bound(arm, s, b.args, i)
        /\ \A i \in MustStay(b.args) \cup (Receiver \cap DOMAIN c.args) : c.args[i].name = NoName
    BY <1>1, Zenon DEF Keeps
  <1> HIDE DEF arm, s
  <1>3. MustStay(a.args) \subseteq MustStay(b.args)
    <2> SUFFICES ASSUME NEW i \in MustStay(a.args)
                 PROVE  i \in MustStay(b.args)
      OBVIOUS
    <2>1. \A x, k : k \in MustStay(x) <=>
             /\ k \in ByPosition(x) /\ k \notin Receiver
             /\ \/ slot(k) = 0 \/ KindOf(Selected[slot(k)]) = "PositionalOnly"
                \/ \E j \in ByPosition(x) : slot(j) = 0
                \/ site.boundary = "competing" /\ k = 1
      BY DEF MustStay
    <2> HIDE DEF slot
    <2>2. i \in ByPosition(a.args) /\ i \notin Receiver
      BY <2>1
    <2>3. i \in ByPosition(b.args)
      BY <1>1, <2>2 DEF ByPosition
    <2>4. \A j \in ByPosition(a.args) : slot(j) = 0 => j \in ByPosition(b.args)
      <3> SUFFICES ASSUME NEW j \in ByPosition(a.args), slot(j) = 0
                   PROVE  j \in ByPosition(b.args)
        OBVIOUS
      <3>1. j \in MustStay(a.args) \/ j \in Receiver
        BY <2>1
      <3> QED
        BY <1>1, <3>1 DEF ByPosition
    <2> QED
      BY <2>1, <2>2, <2>3, <2>4
  <1> QED
    BY <1>1, <1>2, <1>3

\* A call with the same names has the same meaning.
LEMMA KeepsAlike ==
  ASSUME NEW a, NEW b, NEW c, b.keywords = c.keywords,
         DOMAIN a.args = DOMAIN b.args, DOMAIN b.args = DOMAIN c.args,
         \A i \in DOMAIN b.args : c.args[i].name = b.args[i].name, Keeps(a, b)
  PROVE  Keeps(a, c)
  <1> DEFINE arm == Reached(Selected)
             s == ReachedSupplied
  <1>1. ByPosition(c.args) = ByPosition(b.args)
    BY DEF ByPosition
  <1>2. \A i \in DOMAIN b.args : Bound(arm, s, c.args, i) = Bound(arm, s, b.args, i)
    <2> DEFINE B(m, i) == IF m = NoName THEN Slot(arm, s, i)
                          ELSE IF ParameterNamed(arm, m) = {} THEN Len(arm) + 1
                               ELSE CHOOSE j \in ParameterNamed(arm, m) : TRUE
    <2>1. \A args, i : Bound(arm, s, args, i) = B(args[i].name, i)
      BY Zenon DEF Bound
    <2> HIDE DEF B, arm, s
    <2> QED
      BY <2>1
  <1>3. Named(c.args) = Named(b.args)
    BY DEF Named
  <1>4. /\ Taken(arm, s, c.args) = Taken(arm, s, b.args)
        /\ Passed(c.args, c.keywords) = Passed(b.args, b.keywords)
    <2>1. \A i \in Named(b.args) : c.args[i].name = b.args[i].name
      BY DEF Named
    <2> HIDE DEF arm, s
    <2> QED
      BY <1>1, <1>3, <2>1 DEF Taken, Passed
  <1>5. Accepts(arm, s, b.args, b.keywords) => Accepts(arm, s, c.args, c.keywords)
    <2> HIDE DEF arm, s
    <2>1. \A i \in Named(b.args) : c.args[i].name = b.args[i].name
      BY DEF Named
    <2>2. \A m : Fits(arm, s, c.args, m) <=> Fits(arm, s, b.args, m)
      BY <1>4 DEF Fits
    <2>3. ASSUME Accepts(arm, s, b.args, b.keywords)
          PROVE  Accepts(arm, s, c.args, c.keywords)
      <3>1. /\ \A i, j \in Named(b.args) : b.args[i].name = b.args[j].name => i = j
            /\ \A i \in Named(b.args) : b.args[i].name \notin b.keywords
            /\ \A i \in ByPosition(b.args) : Slot(arm, s, i) # 0 \/ GroupIn(arm, "vararg")
            /\ \A m \in Passed(b.args, b.keywords) : Fits(arm, s, b.args, m)
        BY <2>3, AcceptsIs
      <3> QED
        BY <1>1, <1>3, <1>4, <2>1, <2>2, <3>1, AcceptsIs
    <2> QED
      BY <2>3
  <1> SUFFICES ASSUME Accepts(arm, s, a.args, a.keywords)
               PROVE  /\ Accepts(arm, s, c.args, c.keywords)
                      /\ \A i \in DOMAIN c.args :
                            Bound(arm, s, c.args, i) = Bound(arm, s, a.args, i)
                      /\ \A i \in MustStay(a.args) \cup (Receiver \cap DOMAIN c.args) :
                            c.args[i].name = NoName
    BY Zenon DEF Keeps
  <1>6. /\ Accepts(arm, s, b.args, b.keywords)
        /\ \A i \in DOMAIN b.args : Bound(arm, s, b.args, i) = Bound(arm, s, a.args, i)
        /\ \A i \in MustStay(a.args) \cup (Receiver \cap DOMAIN b.args) : b.args[i].name = NoName
    BY Zenon DEF Keeps
  <1>7. \A i \in MustStay(a.args) \cup (Receiver \cap DOMAIN c.args) : i \in DOMAIN b.args
    BY DEF MustStay, ByPosition
  <1> QED
    BY <1>2, <1>5, <1>6, <1>7

(***************************************************************************)
(* Another visit                                                           *)
(***************************************************************************)
\* What a call means, and what a visit reports, depends on the callee and on how
\* the call names it.
LEMMA SiteUnchanged ==
  ASSUME UNCHANGED <<callee, site>>
  PROVE  /\ Selected' = Selected /\ Supplied(site.base)' = Supplied(site.base)
         /\ Receiver' = Receiver /\ Reached(Selected)' = Reached(Selected)
         /\ ReachedSupplied' = ReachedSupplied
         /\ DunderByName' = DunderByName /\ SiteIsGiven' = SiteIsGiven
         /\ OverrideUnseen' = OverrideUnseen /\ ReceiverByDefinition' = ReceiverByDefinition
  <1>1. Selected' = Selected
    BY DEF Selected
  <1>2. Supplied(site.base)' = Supplied(site.base)
    BY DEF Supplied
  <1>3. Receiver' = Receiver
    BY <1>2 DEF Receiver
  <1>4. Reached(Selected)' = Reached(Selected) /\ ReachedSupplied' = ReachedSupplied
    BY <1>1, <1>2 DEF Reached, ReachedSupplied
  <1>5. DunderByName' = DunderByName
    BY DEF DunderByName
  <1>6. SiteIsGiven' = SiteIsGiven
    BY DEF SiteIsGiven, Reachable, Possible, Hovers, Supplied, Askable
  <1>7. OverrideUnseen' = OverrideUnseen /\ ReceiverByDefinition' = ReceiverByDefinition
    BY <1>2 DEF OverrideUnseen, IsAttribute, ReceiverByDefinition
  <1> QED
    BY <1>1, <1>2, <1>3, <1>4, <1>5, <1>6, <1>7

\* A step that leaves the definition and the text as they were keeps the meaning of
\* the call if what it makes of the call does.
LEMMA KeepsUnchanged ==
  ASSUME UNCHANGED <<callee, site, original>>, Keeps(original, call')
  PROVE  Keeps(original, call)'
  <1>1. /\ Selected' = Selected /\ Supplied(site.base)' = Supplied(site.base)
        /\ Receiver' = Receiver /\ Reached(Selected)' = Reached(Selected)
        /\ ReachedSupplied' = ReachedSupplied
    BY SiteUnchanged
  <1>2. MustStay(original.args)' = MustStay(original.args)
    BY <1>1 DEF MustStay
  <1> QED
    BY <1>1, <1>2 DEF Keeps

\* A visit of the same definition reports the same for as many arguments.
LEMMA VisitedUnchanged ==
  ASSUME UNCHANGED <<callee, site>>
  PROVE  \A m : PositionalCount' = m => Visited(PositionalCount)' = Visited(m)
  <1>1. Selected' = Selected /\ Supplied(site.base)' = Supplied(site.base)
    BY SiteUnchanged
  <1>2. Signatures' = Signatures
    BY DEF Signatures
  <1>3. Shown(Selected)' = Shown(Selected) /\ Answers' = Answers
    BY <1>1, <1>2 DEF Shown, Answers
  <1>4. /\ MethodShown' = MethodShown /\ MethodAnswered' = MethodAnswered
        /\ Requirement' = Requirement /\ Unjudged' = Unjudged
    BY <1>1 DEF MethodShown, MethodAnswered, Mapped, HasOwner, Requirement, Unjudged
  <1>5. \A m : PositionalCount' = m => IndexedReport(PositionalCount)' = IndexedReport(m)
    BY <1>1, <1>2, <1>4 DEF IndexedReport, IsUnbound, IsBoundInstance, Allowance
  <1>6. \A m : PositionalCount' = m =>
           Violation(Answers, MethodAnswered, PositionalCount)' = Violation(Answers, MethodAnswered, m)
    BY <1>3, <1>4 DEF Violation
  <1>7. \A m : PositionalCount' = m =>
           TyReport(Shown(Selected), PositionalCount)' = TyReport(Shown(Selected), m)
    <2>1. Stripped(Shown(Selected))' = Stripped(Shown(Selected))
      BY <1>3 DEF Stripped
    <2> QED
      BY <1>3, <1>4, <2>1 DEF TyReport, Violation
  <1> QED
    BY <1>5, <1>6, <1>7 DEF Visited

\* What is read is the call with the names planned.
LEMMA RereadNames ==
  ASSUME IInv, Reread
  PROVE  \E n, S :
            /\ S \subseteq ByPosition(call.args)
            /\ S # {} => /\ n \in 0 .. Len(call.args) /\ CanName(n)
                         /\ S = {j \in ByPosition(call.args) : j > n}
                         /\ ~DunderByName => Visited(n) = {}
            /\ call' \in [args : Seq(Arg), keywords : {call.keywords}]
            /\ DOMAIN call'.args = DOMAIN call.args /\ Len(call'.args) = Len(call.args)
            /\ \A i \in DOMAIN call.args :
                  /\ call'.args[i].shape = call.args[i].shape
                  /\ i \in S => call'.args[i].name = For(i).name /\ For(i).name \in STRING
                  /\ i \notin S => call'.args[i].name = call.args[i].name
  <1>1. call \in [args : Seq(Arg), keywords : SUBSET STRING] /\ call.args \in Seq(Arg)
    BY DEF IInv, NamesComeLast
  <1>2. \E n, S :
            /\ S \subseteq ByPosition(call.args)
            /\ S # {} => /\ n \in 0 .. Len(call.args) /\ CanName(n)
                         /\ S = {j \in ByPosition(call.args) : j > n}
                         /\ ~DunderByName => Visited(n) = {}
            /\ insertions = NestedInsertions(call.args)
                 \cup {[at |-> ArgumentStart(call.args, i), name |-> For(i).name] : i \in S}
    <2>1. \/ insertions = NestedInsertions(call.args)
          \/ \E n \in 0 .. Len(call.args) :
                /\ insertions = NestedInsertions(call.args)
                     \cup {[at |-> ArgumentStart(call.args, i), name |-> For(i).name] :
                              i \in {j \in ByPosition(call.args) : j > n}}
                /\ CanName(n)
                /\ ~DunderByName => Visited(n) = {}
      BY Zenon DEF IInv, PlanIsSound, Reread
    <2>2. CASE insertions = NestedInsertions(call.args)
      <3> DEFINE edits == {[at |-> ArgumentStart(call.args, i), name |-> For(i).name] : i \in {}}
      <3>1. edits = {}
        BY Zenon
      <3>2. insertions = NestedInsertions(call.args) \cup edits
        <4> HIDE DEF edits
        <4> QED
          BY <2>2, <3>1
      <3> QED
        BY <3>2, Zenon
    <2>3. CASE \E n \in 0 .. Len(call.args) :
                /\ insertions = NestedInsertions(call.args)
                     \cup {[at |-> ArgumentStart(call.args, i), name |-> For(i).name] :
                              i \in {j \in ByPosition(call.args) : j > n}}
                /\ CanName(n)
                /\ ~DunderByName => Visited(n) = {}
      <3>1. PICK n \in 0 .. Len(call.args) :
                /\ insertions = NestedInsertions(call.args)
                     \cup {[at |-> ArgumentStart(call.args, i), name |-> For(i).name] :
                              i \in {j \in ByPosition(call.args) : j > n}}
                /\ CanName(n)
                /\ ~DunderByName => Visited(n) = {}
        BY <2>3, Zenon
      <3> DEFINE S == {j \in ByPosition(call.args) : j > n}
      <3>2. S \subseteq ByPosition(call.args)
        OBVIOUS
      <3>3. insertions = NestedInsertions(call.args)
              \cup {[at |-> ArgumentStart(call.args, i), name |-> For(i).name] : i \in S}
        BY <3>1
      <3> QED
        BY <3>1, <3>2, <3>3, Zenon
    <2> QED
      BY <2>1, <2>2, <2>3, Zenon
  <1>3. PICK n, S :
            /\ S \subseteq ByPosition(call.args)
            /\ S # {} => /\ n \in 0 .. Len(call.args) /\ CanName(n)
                         /\ S = {j \in ByPosition(call.args) : j > n}
                         /\ ~DunderByName => Visited(n) = {}
            /\ insertions = NestedInsertions(call.args)
                 \cup {[at |-> ArgumentStart(call.args, i), name |-> For(i).name] : i \in S}
    BY <1>2, Zenon
  <1>4. \A i \in S : i \in DOMAIN call.args /\ For(i).name \in STRING
    <2> SUFFICES ASSUME NEW i \in S
                 PROVE  i \in DOMAIN call.args /\ For(i).name \in STRING
      OBVIOUS
    <2>1. i \in ByPosition(call.args) /\ i > n /\ CanName(n)
      BY <1>3
    <2>2. i + PassedOver \in DOMAIN Selected
      BY <2>1, Zenon DEF CanName
    <2>3. Selected \in Seq([name : STRING, group : Groups])
      BY SelectedFacts DEF IInv
    <2>4. For(i) \in [name : STRING, group : Groups]
      BY <2>2, <2>3, ElementOfSeq, LenProperties DEF For
    <2> QED
      BY <2>1, <2>4 DEF ByPosition
  <1> DEFINE nm == [i \in S |-> For(i).name]
  <1>5. nm \in [S -> STRING] /\ \A i \in S : nm[i] = For(i).name
    BY <1>4
  <1>6. insertions = NestedInsertions(call.args) \cup NameEdits(S, nm)
    <2>1. NameEdits(S, nm)
            = {[at |-> ArgumentStart(call.args, i), name |-> For(i).name] : i \in S}
      BY <1>5, Zenon DEF NameEdits
    <2> QED
      BY <1>3, <2>1, Zenon
  <1> HIDE DEF nm
  <1>7. S \in SUBSET DOMAIN call.args /\ S \in SUBSET ByPosition(call.args)
    BY <1>3, <1>4
  <1>8. \A i \in DOMAIN call.args : /\ i \in S => NamesBefore(i) = {nm[i]}
                                    /\ i \notin S => NamesBefore(i) = {}
    BY <1>1, <1>6, <1>7, NamesAreRead, Zenon
  <1>9. /\ call' \in [args : Seq(Arg), keywords : {call.keywords}]
        /\ DOMAIN call'.args = DOMAIN call.args /\ Len(call'.args) = Len(call.args)
        /\ \A i \in DOMAIN call.args :
              /\ call'.args[i].shape = call.args[i].shape
              /\ i \in S => call'.args[i].name = nm[i]
              /\ i \notin S => call'.args[i].name = call.args[i].name
    BY <1>1, <1>5, <1>7, <1>8, RereadCall, Zenon
  <1>10. \A i \in DOMAIN call.args :
            i \in S => call'.args[i].name = For(i).name /\ For(i).name \in STRING
    BY <1>4, <1>5, <1>9, Zenon
  <1> QED
    BY <1>3, <1>9, <1>10, Zenon

\* The arguments by position of a call that unpacks none are counted.
LEMMA CountIs ==
  ASSUME NEW n \in Nat, ~Unpacks, ByPosition(call.args) = 1 .. n
  PROVE  PositionalCount = n
  <1>1. {i \in DOMAIN call.args : call.args[i].name = NoName /\ call.args[i].shape # "starred"}
          = ByPosition(call.args)
    BY DEF Unpacks, ByPosition
  <1>2. PositionalCount = Cardinality(1 .. n)
    BY <1>1 DEF PositionalCount
  <1> QED
    BY <1>2, FS_Interval

\* Reading the call rewritten keeps the invariant.
LEMMA RereadStep ==
  ASSUME IInv, Reread
  PROVE  IInv'
  <1>1. PICK n, S :
            /\ S \subseteq ByPosition(call.args)
            /\ S # {} => /\ n \in 0 .. Len(call.args) /\ CanName(n)
                         /\ S = {j \in ByPosition(call.args) : j > n}
                         /\ ~DunderByName => Visited(n) = {}
            /\ call' \in [args : Seq(Arg), keywords : {call.keywords}]
            /\ DOMAIN call'.args = DOMAIN call.args /\ Len(call'.args) = Len(call.args)
            /\ \A i \in DOMAIN call.args :
                  /\ call'.args[i].shape = call.args[i].shape
                  /\ i \in S => call'.args[i].name = For(i).name /\ For(i).name \in STRING
                  /\ i \notin S => call'.args[i].name = call.args[i].name
    BY RereadNames, Zenon
  <1>2. /\ UNCHANGED <<callee, site, original, report>>
        /\ phase' = IF call = original /\ call' # call THEN "visit" ELSE "done"
    BY DEF Reread
  <1>3. /\ SiteIsGiven /\ NamesComeLast
        /\ OverrideUnseen \/ ReceiverByDefinition \/ Keeps(original, call)
        /\ call \in [args : Seq(Arg), keywords : SUBSET STRING]
        /\ original \in [args : Seq(Arg), keywords : {call.keywords}]
        /\ Len(original.args) = Len(call.args)
        /\ \A i \in DOMAIN call.args :
              original.args[i].shape = call.args[i].shape /\ original.args[i].name = NoName
        /\ \A i, j \in DOMAIN call.args :
              i < j /\ call.args[j].name = NoName => call.args[i].name = NoName
        /\ Unpacks => \A i \in DOMAIN call.args : call.args[i].name = NoName
    BY DEF IInv, NamesComeLast
  <1>4. /\ DOMAIN call.args = 1 .. Len(call.args) /\ Len(call.args) \in Nat
        /\ DOMAIN original.args = DOMAIN call.args
    <2> DEFINE a == call.args
               o == original.args
    <2>1. a \in Seq(Arg) /\ o \in Seq(Arg) /\ Len(o) = Len(a)
      BY <1>3
    <2> HIDE DEF a, o
    <2>2. DOMAIN a = 1 .. Len(a) /\ Len(a) \in Nat /\ DOMAIN o = DOMAIN a
      BY <2>1, LenProperties
    <2> QED
      BY <2>2 DEF a, o
  <1>5. \A i \in S : For(i).name # NoName
    <2> SUFFICES ASSUME NEW i \in S
                 PROVE  For(i).name # NoName
      OBVIOUS
    <2>1. i + PassedOver \in DOMAIN Selected
      BY <1>1, Zenon DEF CanName
    <2>2. \A j \in DOMAIN Selected : Selected[j].name # NoName
      BY <1>3, SelectedFacts, LegalNames
    <2> QED
      BY <2>1, <2>2 DEF For
  <1>6. \A i \in DOMAIN call.args :
           call'.args[i].name = NoName <=> i \in ByPosition(call.args) /\ i \notin S
    BY <1>1, <1>5 DEF ByPosition
  <1>7. Unpacks' <=> Unpacks
    BY <1>1 DEF Unpacks
  <1>8. S # {} => ~Unpacks
    BY <1>1, Zenon DEF CanName
  <1>9. NamesComeLast'
    <2>1. call' \in [args : Seq(Arg), keywords : SUBSET STRING]
      BY <1>1, <1>3
    <2>2. original' \in [args : Seq(Arg), keywords : {call'.keywords}]
      BY <1>1, <1>2, <1>3
    <2>3. /\ Len(original'.args) = Len(call'.args)
          /\ \A i \in DOMAIN call'.args :
                original'.args[i].shape = call'.args[i].shape /\ original'.args[i].name = NoName
      BY <1>1, <1>2, <1>3
    <2>4. \A i, j \in DOMAIN call'.args :
             i < j /\ call'.args[j].name = NoName => call'.args[i].name = NoName
      <3> SUFFICES ASSUME NEW i \in DOMAIN call.args, NEW j \in DOMAIN call.args,
                          i < j, call'.args[j].name = NoName
                   PROVE  call'.args[i].name = NoName
        BY <1>1
      <3>1. j \in ByPosition(call.args) /\ j \notin S
        BY <1>6
      <3>2. i \in ByPosition(call.args)
        BY <1>3, <3>1 DEF ByPosition
      <3>3. i \notin S
        <4> SUFFICES ASSUME i \in S
                     PROVE  FALSE
          OBVIOUS
        <4>1. n \in 0 .. Len(call.args) /\ S = {k \in ByPosition(call.args) : k > n}
          BY <1>1
        <4>2. i > n /\ ~(j > n)
          BY <3>1, <4>1
        <4> QED
          BY <1>4, <4>1, <4>2
      <3> QED
        BY <1>6, <3>2, <3>3
    <2>5. Unpacks' => \A i \in DOMAIN call'.args : call'.args[i].name = NoName
      <3> SUFFICES ASSUME Unpacks, NEW i \in DOMAIN call.args
                   PROVE  call'.args[i].name = NoName
        BY <1>1, <1>7
      <3>1. S = {} /\ call.args[i].name = NoName
        BY <1>3, <1>8
      <3> QED
        BY <1>6, <3>1 DEF ByPosition
    <2> QED
      BY <2>1, <2>2, <2>3, <2>4, <2>5 DEF NamesComeLast
  <1>10. ASSUME ~OverrideUnseen, ~ReceiverByDefinition
         PROVE  Keeps(original, call')
    <2>0. Keeps(original, call)
      BY <1>3, <1>10
    <2>1. CASE S = {}
      <3>1. \A i \in DOMAIN call.args : call'.args[i].name = call.args[i].name
        BY <1>1, <2>1
      <3> QED
        BY <1>1, <1>3, <1>4, <2>0, <3>1, KeepsAlike
    <2>2. CASE S # {}
      <3>1. Keeps(call, call')
        BY <1>1, <1>3, <1>10, <2>2, NamingKeeps
      <3> QED
        BY <1>1, <1>3, <1>4, <2>0, <3>1, KeepsTransitive
    <2> QED
      BY <2>1, <2>2
  <1>11. (OverrideUnseen \/ ReceiverByDefinition \/ Keeps(original, call))'
    BY <1>2, <1>10, KeepsUnchanged, SiteUnchanged
  <1>12. SiteIsGiven'
    BY <1>2, <1>3, SiteUnchanged
  <1>13. NamedIsClean'
    <2> SUFFICES ASSUME phase' = "visit", ~DunderByName',
                        NEW k \in DOMAIN call'.args, call'.args[k].name # NoName
                 PROVE  Visited(PositionalCount)' = {}
      BY DEF NamedIsClean
    <2>1. call = original
      BY <1>2
    <2>2. ByPosition(call.args) = 1 .. Len(call.args)
      BY <1>3, <1>4, <2>1 DEF ByPosition
    <2>3. k \in S
      BY <1>1, <1>4, <1>6, <2>2
    <2>4. /\ n \in 0 .. Len(call.args) /\ Visited(n) = {}
          /\ S = {j \in ByPosition(call.args) : j > n}
      BY <1>1, <1>2, <2>3, SiteUnchanged
    <2>5. ByPosition(call'.args) = 1 .. n
      <3>1. ByPosition(call'.args) = (1 .. Len(call.args)) \ S
        BY <1>1, <1>4, <1>6, <2>2 DEF ByPosition
      <3> QED
        BY <1>4, <2>2, <2>4, <3>1
    <2>6. PositionalCount' = n
      <3>1. {i \in DOMAIN call'.args : call'.args[i].name = NoName /\ call'.args[i].shape # "starred"}
              = ByPosition(call'.args)
        BY <1>7, <1>8, <2>3 DEF Unpacks, ByPosition
      <3>2. PositionalCount' = Cardinality(1 .. n)
        BY <2>5, <3>1 DEF PositionalCount
      <3> QED
        BY <1>4, <2>4, <3>2, FS_Interval
    <2> QED
      BY <1>2, <2>4, <2>6, VisitedUnchanged
  <1>14. phase' \in {"visit", "done"}
    BY <1>2
  <1>15. PlanIsSound' /\ FixIsFinal'
    BY <1>14 DEF PlanIsSound, FixIsFinal
  <1> QED
    BY <1>2, <1>9, <1>11, <1>12, <1>13, <1>14, <1>15 DEF IInv, ReportIsVisited

(***************************************************************************)
(* Maxima                                                                  *)
(***************************************************************************)
\* Some number of finitely many is the greatest.
LEMMA GreatestOf ==
  ASSUME NEW k \in Nat \ {0}, NEW f \in [1 .. k -> Nat]
  PROVE  \E i \in 1 .. k : \A j \in 1 .. k : f[j] <= f[i]
  <1> DEFINE P == {n \in Nat : n < k => \E i \in 1 .. n + 1 : \A j \in 1 .. n + 1 : f[j] <= f[i]}
  <1>1. 0 \in P
    OBVIOUS
  <1>2. ASSUME NEW n \in Nat, n \in P
        PROVE  n + 1 \in P
    <2> SUFFICES ASSUME n + 1 < k
                 PROVE  \E i \in 1 .. (n + 1) + 1 : \A j \in 1 .. (n + 1) + 1 : f[j] <= f[i]
      OBVIOUS
    <2>1. PICK i \in 1 .. n + 1 : \A j \in 1 .. n + 1 : f[j] <= f[i]
      BY <1>2
    <2> DEFINE m == (n + 1) + 1
    <2>2. m \in 1 .. k /\ \A j \in 1 .. m : j \in 1 .. k /\ (j = m \/ j \in 1 .. n + 1)
      OBVIOUS
    <2>3. i \in 1 .. m /\ f[i] \in Nat /\ f[m] \in Nat /\ \A j \in 1 .. m : f[j] \in Nat
      BY <2>2
    <2> HIDE DEF m
    <2>4. CASE f[m] <= f[i]
      BY <2>1, <2>2, <2>3, <2>4 DEF m
    <2>5. CASE f[i] <= f[m]
      <3> \A j \in 1 .. m : f[j] <= f[m]
        BY <2>1, <2>2, <2>3, <2>5
      <3> m \in 1 .. m
        BY DEF m
      <3> QED
        BY DEF m
    <2> QED
      BY <2>3, <2>4, <2>5
  <1> HIDE DEF P
  <1>3. \A n \in Nat : n \in P
    BY <1>1, <1>2, NatInd
  <1>4. k - 1 \in Nat /\ k - 1 < k /\ (k - 1) + 1 = k
    OBVIOUS
  <1> QED
    BY <1>3, <1>4 DEF P

\* The maximum of what finitely many values give, and another, is one of them.
LEMMA MaxIs ==
  ASSUME NEW k \in Nat \ {0}, NEW f \in [1 .. k -> Nat]
  PROVE  LET S == {f[i] : i \in 1 .. k}
         IN Max(S) \in S /\ Max(S) \in Nat /\ \A y \in S : y <= Max(S)
  <1> DEFINE S == {f[i] : i \in 1 .. k}
  <1>1. \A y \in S : y \in Nat
    OBVIOUS
  <1>2. \E x \in S : \A y \in S : x >= y
    <2>1. PICK i \in 1 .. k : \A j \in 1 .. k : f[j] <= f[i]
      BY GreatestOf
    <2>2. f[i] \in S /\ \A y \in S : f[i] >= y
      BY <2>1
    <2> QED
      BY <2>2
  <1> HIDE DEF S
  <1>3. Max(S) \in S /\ \A y \in S : Max(S) >= y
    BY <1>2 DEF Max
  <1>4. Max(S) \in S /\ Max(S) \in Nat /\ \A y \in S : y <= Max(S)
    BY <1>1, <1>3
  <1> QED
    BY <1>4 DEF S

\* The maximum of a family and one more number.
LEMMA MaxOfMore ==
  ASSUME NEW k \in Nat \ {0}, NEW f \in [1 .. k -> Nat], NEW a \in Nat
  PROVE  LET m == Max({f[i] : i \in 1 .. k} \cup {a})
         IN /\ m \in Nat /\ a <= m /\ \A i \in 1 .. k : f[i] <= m
            /\ m = a \/ \E i \in 1 .. k : m = f[i]
  <1> DEFINE g == [i \in 1 .. k + 1 |-> IF i <= k THEN f[i] ELSE a]
             S == {f[i] : i \in 1 .. k} \cup {a}
             T == {g[i] : i \in 1 .. k + 1}
  <1>1. g \in [1 .. k + 1 -> Nat] /\ k + 1 \in Nat \ {0}
    OBVIOUS
  <1>2. \A i \in 1 .. k : i \in 1 .. k + 1 /\ g[i] = f[i]
    OBVIOUS
  <1>3. k + 1 \in 1 .. k + 1 /\ g[k + 1] = a
    OBVIOUS
  <1>4. \A i \in 1 .. k + 1 : i \in 1 .. k \/ i = k + 1
    OBVIOUS
  <1> HIDE DEF g
  <1>5. S = T
    BY <1>2, <1>3, <1>4
  <1>6. Max(T) \in T /\ Max(T) \in Nat /\ \A y \in T : y <= Max(T)
    BY <1>1, MaxIs
  <1> HIDE DEF T
  <1>7. Max(S) \in S /\ Max(S) \in Nat /\ \A y \in S : y <= Max(S)
    BY <1>5, <1>6
  <1>8. /\ Max(S) \in Nat /\ a <= Max(S) /\ \A i \in 1 .. k : f[i] <= Max(S)
        /\ Max(S) = a \/ \E i \in 1 .. k : Max(S) = f[i]
    <2> DEFINE m == Max(S)
    <2>1. m \in S /\ m \in Nat /\ a <= m /\ \A i \in 1 .. k : f[i] <= m
      BY <1>7
    <2> HIDE DEF m
    <2>2. /\ m \in Nat /\ a <= m /\ \A i \in 1 .. k : f[i] <= m
          /\ m = a \/ \E i \in 1 .. k : m = f[i]
      BY <2>1
    <2> QED
      BY <2>2 DEF m
  <1> QED
    BY <1>8

(***************************************************************************)
(* What a signature takes by position                                      *)
(***************************************************************************)
Sig == Seq([name : STRING, kind : Kinds])

\* The maximum and the number that could be taken are naturals.
LEMMA MaxPositionalType ==
  ASSUME NEW signature \in Sig, NEW method
  PROVE  MaxPositional(signature, method) \in Nat /\ CouldTake(signature) \in Nat
  <1>1. IsFiniteSet(DOMAIN signature)
    <2>1. DOMAIN signature = 1 .. Len(signature) /\ Len(signature) \in Nat
      BY LenProperties DEF Sig
    <2> QED
      BY <2>1, FS_Interval
  <1>2. \A S \in SUBSET DOMAIN signature : Cardinality(S) \in Nat
    BY <1>1, FS_Subset, FS_CardinalityType
  <1>3. MaxPositional(signature, method) \in Nat
    BY <1>2 DEF MaxPositional
  <1>4. CouldTake(signature) \in Nat
    BY <1>2 DEF CouldTake
  <1> QED
    BY <1>3, <1>4

(***************************************************************************)
(* Signatures and the way a call names its callee                          *)
(***************************************************************************)
LEMMA SignatureIs ==
  ASSUME NEW arm \in Seq([name : STRING, group : Groups])
  PROVE  /\ SignatureOf(arm) \in Sig /\ Len(SignatureOf(arm)) = Len(arm)
         /\ DOMAIN arm = 1 .. Len(arm) /\ Len(arm) \in Nat
         /\ DOMAIN SignatureOf(arm) = 1 .. Len(arm)
         /\ \A i \in DOMAIN arm : /\ SignatureOf(arm)[i].name = arm[i].name
                                  /\ SignatureOf(arm)[i].kind = KindOf(arm[i])
  <1>1. DOMAIN arm = 1 .. Len(arm) /\ Len(arm) \in Nat
    BY LenProperties
  <1>2. \A i \in DOMAIN arm : arm[i] \in [name : STRING, group : Groups]
    BY <1>1, ElementOfSeq
  <1>3. \A i \in DOMAIN arm : KindOf(arm[i]) \in Kinds
    <2> TAKE i \in DOMAIN arm
    <2> DEFINE q == arm[i]
    <2>1. q \in [name : STRING, group : Groups]
      BY <1>2
    <2> HIDE DEF q
    <2>2. KindOf(q) \in Kinds
      BY <2>1, KindFacts DEF Kinds
    <2> QED
      BY <2>2 DEF q
  <1> DEFINE entry(i) == [name |-> arm[i].name, kind |-> KindOf(arm[i])]
  <1>4. \A i \in DOMAIN arm :
           /\ entry(i) \in [name : STRING, kind : Kinds]
           /\ entry(i).name = arm[i].name /\ entry(i).kind = KindOf(arm[i])
    <2> TAKE i \in DOMAIN arm
    <2> arm[i].name \in STRING
      BY <1>2
    <2> QED
      BY <1>3
  <1>5. SignatureOf(arm) = [i \in DOMAIN arm |-> entry(i)]
    BY DEF SignatureOf
  <1> HIDE DEF entry
  <1>6. SignatureOf(arm) \in [1 .. Len(arm) -> [name : STRING, kind : Kinds]]
    BY <1>1, <1>4, <1>5
  <1>7. \A i \in DOMAIN arm : SignatureOf(arm)[i] = entry(i)
    BY <1>5
  <1>8. SignatureOf(arm) \in Sig /\ Len(SignatureOf(arm)) = Len(arm)
    BY <1>1, <1>6, FcnIsSeq DEF Sig
  <1> QED
    BY <1>1, <1>4, <1>5, <1>7, <1>8

\* What there is to know of each definition of a callee.
LEMMA ArmFacts ==
  ASSUME SiteIsGiven, Customary, NEW i \in DOMAIN callee.arms
  PROVE  /\ callee.arms[i] \in Seq([name : STRING, group : Groups])
         /\ Legal(callee.arms[i])
         /\ Signatures[i] = SignatureOf(callee.arms[i]) /\ Signatures[i] \in Sig
         /\ callee.kind \in {"function", "staticmethod"} =>
               FirstName(Signatures[i]) \notin {"self", "cls"}
         /\ callee.kind \in {"classmethod", "method"} =>
               /\ 1 \in Positional(callee.arms[i]) /\ 1 \in DOMAIN callee.arms[i]
               /\ FirstName(Signatures[i]) = IF callee.kind = "method" THEN "self" ELSE "cls"
         /\ \A j \in DOMAIN callee.arms[i] : j > 1 => callee.arms[i][j].name \notin {"self", "cls"}
  <1> DEFINE arm == callee.arms[i]
  <1>1. callee \in Callable /\ callee.arms \in Seq(Seq([name : STRING, group : Groups]))
    BY InputsAssumption DEF SiteIsGiven, Callable
  <1>2. arm \in Seq([name : STRING, group : Groups]) /\ Legal(arm)
    BY <1>1, InputsAssumption, ElementOfSeq, LenProperties DEF SiteIsGiven
  <1>3. Signatures[i] = SignatureOf(arm)
    BY DEF Signatures
  <1>4. FirstName(Signatures[i]) = FirstName(arm)
    <2> HIDE DEF arm
    <2>1. /\ SignatureOf(arm) \in Sig /\ Len(SignatureOf(arm)) = Len(arm)
          /\ DOMAIN arm = 1 .. Len(arm) /\ Len(arm) \in Nat
          /\ \A j \in DOMAIN arm : SignatureOf(arm)[j].name = arm[j].name
      BY <1>2, SignatureIs
    <2>2. CASE arm = <<>>
      <3> SignatureOf(arm) = <<>>
        BY <2>1, <2>2, EmptySeq DEF Sig
      <3> QED
        BY <1>3, <2>2 DEF FirstName
    <2>3. CASE arm # <<>>
      <3>1. Len(arm) # 0
        BY <1>2, <2>3, EmptySeq
      <3>2. SignatureOf(arm) # <<>> /\ SignatureOf(arm)[1].name = arm[1].name
        BY <2>1, <3>1, EmptySeq DEF Sig
      <3> QED
        BY <1>3, <2>3, <3>2 DEF FirstName
    <2> QED
      BY <2>2, <2>3
  <1>5. /\ callee.kind \in {"function", "staticmethod"} => FirstName(arm) \notin {"self", "cls"}
        /\ callee.kind \in {"classmethod", "method"} =>
              /\ 1 \in Positional(arm)
              /\ arm[1].name = IF callee.kind = "method" THEN "self" ELSE "cls"
        /\ \A j \in DOMAIN arm : j > 1 => arm[j].name \notin {"self", "cls"}
    BY DEF Customary, SiteIsGiven
  <1>6. SignatureOf(arm) \in Sig
    BY <1>2, SignatureIs
  <1> HIDE DEF arm
  <1>7. 1 \in Positional(arm) => 1 \in DOMAIN arm /\ arm # <<>>
    BY <1>2, EmptySeq, LenProperties DEF Positional
  <1>8. arm # <<>> => FirstName(arm) = arm[1].name
    BY DEF FirstName
  <1>9. callee.kind \in {"classmethod", "method"} =>
           /\ 1 \in Positional(arm) /\ 1 \in DOMAIN arm
           /\ FirstName(arm) = IF callee.kind = "method" THEN "self" ELSE "cls"
    BY <1>5, <1>7, <1>8
  <1> QED
    BY <1>2, <1>3, <1>4, <1>5, <1>6, <1>9 DEF arm

\* The names a definition can be reached by.
LEMMA BaseFacts ==
  ASSUME SiteIsGiven
  PROVE  /\ callee.kind \in {"function", "method", "classmethod", "staticmethod"}
         /\ callee.method \in {"plain", "init", "call"} \cup Descriptors
         /\ callee.method # "plain" => callee.kind = "method"
         /\ callee.kind = "function" => site.base \in {"none", "module"}
         /\ callee.kind \in {"classmethod", "staticmethod"} =>
               site.base \in {"class", "dotted", "instance", "other"}
         /\ callee.kind = "method" /\ callee.method = "plain" =>
               site.base \in {"class", "dotted", "instance", "other"}
         /\ callee.method = "init" => site.base \in {"none", "module", "class", "dotted", "other"}
         /\ callee.method = "call" =>
               site.base \in {"none", "class", "dotted", "instance", "other"}
         /\ callee.method \in Descriptors => site.base \in {"class", "instance"}
         /\ callee.arms # <<>> /\ DOMAIN callee.arms = 1 .. Len(callee.arms)
         /\ Len(callee.arms) \in Nat \ {0} /\ 1 \in DOMAIN callee.arms
         /\ Supplied(site.base) = IF \/ callee.kind \in {"function", "staticmethod"}
                                     \/ callee.kind = "method" /\ site.base \in {"class", "dotted"}
                                  THEN 0 ELSE 1
  <1>1. /\ callee \in Callable /\ callee.arms # <<>>
        /\ callee.method # "plain" => callee.kind = "method"
    BY InputsAssumption DEF SiteIsGiven
  <1>2. /\ callee.arms \in Seq(Seq([name : STRING, group : Groups]))
        /\ callee.kind \in {"function", "method", "classmethod", "staticmethod"}
        /\ callee.method \in {"plain", "init", "call"} \cup Descriptors
    BY <1>1 DEF Callable
  <1>3. site.base \in AllBases /\ Reachable(callee, site.base)
    BY InputsAssumption DEF SiteIsGiven
  <1>4. /\ callee.kind = "function" => site.base \in {"none", "module"}
        /\ callee.kind \in {"classmethod", "staticmethod"} =>
               site.base \in {"class", "dotted", "instance", "other"}
    BY <1>3 DEF Reachable
  <1>5. /\ callee.kind = "method" /\ callee.method = "plain" =>
               site.base \in {"class", "dotted", "instance", "other"}
        /\ callee.method = "init" => site.base \in {"none", "module", "class", "dotted", "other"}
        /\ callee.method = "call" =>
               site.base \in {"none", "class", "dotted", "instance", "other"}
        /\ callee.method \in Descriptors => site.base \in {"class", "instance"}
    BY <1>1, <1>3 DEF Reachable, AllBases, Descriptors
  <1>6. DOMAIN callee.arms = 1 .. Len(callee.arms) /\ Len(callee.arms) \in Nat \ {0}
    <2> DEFINE a == callee.arms
    <2>1. a \in Seq(Seq([name : STRING, group : Groups])) /\ a # <<>>
      BY <1>1, <1>2
    <2> HIDE DEF a
    <2>2. DOMAIN a = 1 .. Len(a) /\ Len(a) \in Nat \ {0}
      BY <2>1, LenProperties, EmptySeq
    <2> QED
      BY <2>2 DEF a
  <1>7. Supplied(site.base) = IF \/ callee.kind \in {"function", "staticmethod"}
                                 \/ callee.kind = "method" /\ site.base \in {"class", "dotted"}
                              THEN 0 ELSE 1
    BY <1>2 DEF Supplied
  <1> QED
    BY <1>1, <1>2, <1>4, <1>5, <1>6, <1>7

(***************************************************************************)
(* What a plan names                                                       *)
(***************************************************************************)
\* The arguments by position come first, and are counted.
LEMMA PositionsComeFirst ==
  ASSUME NamesComeLast
  PROVE  \E m \in 0 .. Len(call.args) :
            ByPosition(call.args) = 1 .. m /\ (~Unpacks => PositionalCount = m)
  <1> DEFINE args == call.args
             B == ByPosition(args)
             P == {n \in Nat : n <= Len(args) => \E m \in 0 .. n : B \cap (1 .. n) = 1 .. m}
  <1>1. DOMAIN args = 1 .. Len(args) /\ Len(args) \in Nat
    <2>1. args \in Seq(Arg)
      BY DEF NamesComeLast
    <2> HIDE DEF args
    <2> QED
      BY <2>1, LenProperties
  <1>2. B \subseteq 1 .. Len(args) /\ \A i, j \in DOMAIN args : i < j /\ j \in B => i \in B
    BY <1>1 DEF NamesComeLast, ByPosition
  <1> HIDE DEF args, B
  <1>3. 0 \in P
    BY <1>1
  <1>4. ASSUME NEW n \in Nat, n \in P
        PROVE  n + 1 \in P
    <2> SUFFICES ASSUME n + 1 <= Len(args)
                 PROVE  \E m \in 0 .. n + 1 : B \cap (1 .. n + 1) = 1 .. m
      OBVIOUS
    <2>1. PICK m \in 0 .. n : B \cap (1 .. n) = 1 .. m
      BY <1>1, <1>4
    <2>2. CASE n + 1 \in B
      <3>1. \A i \in 1 .. n + 1 : i \in B
        BY <1>1, <1>2, <2>2
      <3>2. B \cap (1 .. n + 1) = 1 .. n + 1
        BY <3>1
      <3> QED
        BY <3>2
    <2>3. CASE n + 1 \notin B
      <3>1. B \cap (1 .. n + 1) = B \cap (1 .. n)
        BY <2>3
      <3> QED
        BY <2>1, <3>1
    <2> QED
      BY <2>2, <2>3
  <1> HIDE DEF P
  <1>5. \A n \in Nat : n \in P
    BY <1>3, <1>4, NatInd
  <1>6. PICK m \in 0 .. Len(args) : B \cap (1 .. Len(args)) = 1 .. m
    BY <1>1, <1>5 DEF P
  <1>7. B = 1 .. m /\ m \in Nat
    <2>1. B \cap (1 .. Len(args)) = B
      BY <1>2
    <2>2. B = 1 .. m
      BY <1>6, <2>1, Zenon
    <2>3. m \in Nat
      BY <1>1
    <2> QED
      BY <2>2, <2>3, Zenon
  <1>8. ~Unpacks => PositionalCount = m
    BY <1>7, CountIs DEF B, args
  <1>9. m \in 0 .. Len(call.args) /\ ByPosition(call.args) = 1 .. m
    BY <1>6, <1>7 DEF args, B
  <1> QED
    BY <1>8, <1>9

\* The parameters of this signature after the first k are those of the arguments.
Stands(signature, k) ==
    \A i \in Nat \ {0} : i + k \in DOMAIN signature =>
        /\ i + PassedOver \in DOMAIN Selected
        /\ signature[i + k].name = For(i).name
        /\ signature[i + k].kind = KindOf(For(i))

\* The code plans names for the arguments after the first n, from a signature that
\* stands for the one found.
Plannable(signature, method, max, explicit, attribute, n) ==
    LET k == Skip(signature, method, explicit, attribute)
    IN /\ n \in Nat /\ n = Start(max, explicit) /\ k \in {0, 1} /\ Stands(signature, k)
       /\ CanInsert(signature, method, max, PositionalCount, explicit, attribute)

\* These edits name the arguments after the first n, which may be named.
NamesAfter(edits, n) ==
    /\ ~Unpacks /\ n \in 0 .. Len(call.args)
    /\ edits = {[at |-> ArgumentStart(call.args, i), name |-> For(i).name] :
                   i \in {j \in ByPosition(call.args) : j > n}}
    /\ \E i \in ByPosition(call.args) : i > n
    /\ \A i \in ByPosition(call.args) : i > n =>
          /\ i + PassedOver \in DOMAIN Selected
          /\ For(i).name \notin call.keywords \cup {call.args[j].name : j \in DOMAIN call.args}
          /\ KindOf(For(i)) \in {"PositionalOrKeyword", "KeywordOnly"}

\* A plan gives the arguments after the first n the names of the parameters that
\* they are for.
LEMMA PlanNames ==
  ASSUME NamesComeLast, NEW signature, NEW method, NEW max, NEW explicit, NEW attribute,
         NEW n, Plannable(signature, method, max, explicit, attribute, n)
  PROVE  NamesAfter(Insertions(signature, method, max, PositionalCount, explicit, attribute), n)
  <1> DEFINE k == Skip(signature, method, explicit, attribute)
  <1>0. /\ n \in Nat /\ n = Start(max, explicit) /\ k \in {0, 1} /\ Stands(signature, k)
        /\ CanInsert(signature, method, max, PositionalCount, explicit, attribute)
    BY Zenon DEF Plannable
  <1>01. k = Skip(signature, method, explicit, attribute)
    OBVIOUS
  <1> HIDE DEF k
  <1> USE <1>0
  <1> DEFINE S == {j \in ByPosition(call.args) : j > n}
  <1>1. ~Unpacks
    BY Zenon DEF CanInsert
  <1>2. PICK m \in 0 .. Len(call.args) : ByPosition(call.args) = 1 .. m /\ PositionalCount = m
    BY <1>1, PositionsComeFirst, Zenon
  <1>3. {j \in 1 .. PositionalCount : j > Start(max, explicit)} = S
    BY <1>2
  <1>4. Len(call.args) \in Nat
    <2> DEFINE a == call.args
    <2>1. a \in Seq(Arg)
      BY DEF NamesComeLast
    <2> HIDE DEF a
    <2>2. Len(a) \in Nat
      BY <2>1, LenProperties
    <2> QED
      BY <2>2 DEF a
  <1>5. /\ S # {}
        /\ \A i \in S : i + k \in DOMAIN signature /\ Nameable(signature[i + k])
    BY <1>3, <1>01, Zenon DEF CanInsert
  <1>6. \A i \in S :
           /\ i + PassedOver \in DOMAIN Selected
           /\ signature[i + k].name = For(i).name
           /\ signature[i + k].kind = KindOf(For(i))
    <2> SUFFICES ASSUME NEW i \in S
                 PROVE  /\ i + PassedOver \in DOMAIN Selected
                        /\ signature[i + k].name = For(i).name
                        /\ signature[i + k].kind = KindOf(For(i))
      OBVIOUS
    <2>1. i \in Nat \ {0} /\ i + k \in DOMAIN signature
      BY <1>2, <1>5
    <2> QED
      BY <2>1 DEF Stands
  <1>7. \A i \in S :
           /\ For(i).name \notin call.keywords \cup {call.args[j].name : j \in DOMAIN call.args}
           /\ KindOf(For(i)) \in {"PositionalOrKeyword", "KeywordOnly"}
    <2> SUFFICES ASSUME NEW i \in S
                 PROVE  /\ For(i).name \notin call.keywords
                                             \cup {call.args[j].name : j \in DOMAIN call.args}
                        /\ KindOf(For(i)) \in {"PositionalOrKeyword", "KeywordOnly"}
      OBVIOUS
    <2> DEFINE q == signature[i + k]
    <2>1. /\ q.kind \in {"PositionalOrKeyword", "KeywordOnly"}
          /\ q.name \notin call.keywords \cup {call.args[j].name : j \in DOMAIN call.args}
      BY <1>5, Zenon DEF Nameable
    <2>2. q.name = For(i).name /\ q.kind = KindOf(For(i))
      BY <1>6
    <2> HIDE DEF q, S
    <2> QED
      BY <2>1, <2>2, Zenon
  <1>8. n \in 0 .. Len(call.args)
    BY <1>2, <1>4, <1>5
  <1>9. Insertions(signature, method, max, PositionalCount, explicit, attribute)
          = {[at |-> ArgumentStart(call.args, i), name |-> For(i).name] : i \in S}
    <2>1. Insertions(signature, method, max, PositionalCount, explicit, attribute)
            = {[at |-> ArgumentStart(call.args, i), name |-> signature[i + k].name] : i \in S}
      BY <1>3, <1>01, Zenon DEF Insertions
    <2> HIDE DEF S
    <2> QED
      BY <1>6, <2>1, Zenon
  <1>10. \E i \in ByPosition(call.args) : i > n
    BY <1>5
  <1>11. \A i \in ByPosition(call.args) : i > n =>
               /\ i + PassedOver \in DOMAIN Selected
               /\ For(i).name \notin call.keywords \cup {call.args[j].name : j \in DOMAIN call.args}
               /\ KindOf(For(i)) \in {"PositionalOrKeyword", "KeywordOnly"}
    <2>1. \A i \in ByPosition(call.args) : i > n => i \in S
      OBVIOUS
    <2> HIDE DEF S
    <2> QED
      BY <1>6, <1>7, <2>1, Zenon
  <1> QED
    BY <1>1, <1>8, <1>9, <1>10, <1>11, Zenon DEF NamesAfter

(***************************************************************************)
(* What the index reports                                                  *)
(***************************************************************************)
\* The signatures that the index judges a call by, what it counts and the maximum it
\* reports.
First == FirstName(Signatures[1])
Effective ==
    [i \in DOMAIN Signatures |-> IF IsUnbound(First) \/ IsBoundInstance(First)
                                 THEN WithoutLeadingSelf(Signatures[i]) ELSE Signatures[i]]
Count(n) == IF IsUnbound(First) /\ n > 0 THEN n - 1 ELSE n
IndexedMax == Max({MaxPositional(Effective[i], callee.method) : i \in DOMAIN Effective}
                    \cup {Allowance(Effective)})

\* IndexedReport in the names above.
LEMMA IndexedReportIs ==
  ASSUME NEW n
  PROVE  IndexedReport(n) =
            IF \/ Unjudged
               \/ Count(n) <= Allowance(Effective)
               \/ \E i \in DOMAIN Effective : ~Exceeds(Effective[i], callee.method, Count(n))
            THEN {} ELSE {[count |-> Count(n), max |-> IndexedMax]}
  BY Zenon DEF IndexedReport, Effective, Count, IndexedMax, First

\* A receiver that is passed over is that of a method.
LEMMA EffectiveIs ==
  ASSUME SiteIsGiven, Customary
  PROVE  /\ DOMAIN Effective = DOMAIN callee.arms /\ DOMAIN Signatures = DOMAIN callee.arms
         /\ \A i \in DOMAIN callee.arms :
               /\ Effective[i] \in Sig
               /\ Effective[i] = IF IsUnbound(First) \/ IsBoundInstance(First)
                                 THEN Tail(Signatures[i]) ELSE Signatures[i]
         /\ callee.kind # "method" => ~IsUnbound(First) /\ ~IsBoundInstance(First)
         /\ callee.kind = "method" => First = "self"
  <1>1. DOMAIN Signatures = DOMAIN callee.arms
    BY DEF Signatures
  <1>2. /\ 1 \in DOMAIN callee.arms
        /\ callee.kind \in {"function", "method", "classmethod", "staticmethod"}
    BY BaseFacts
  <1>3. /\ callee.kind # "method" => First # "self"
        /\ callee.kind = "method" => First = "self"
    BY <1>2, ArmFacts DEF First
  <1>4. callee.kind # "method" => ~IsUnbound(First) /\ ~IsBoundInstance(First)
    BY <1>3 DEF IsUnbound, IsBoundInstance
  <1>5. ASSUME NEW i \in DOMAIN callee.arms
        PROVE  /\ Effective[i] \in Sig
               /\ Effective[i] = IF IsUnbound(First) \/ IsBoundInstance(First)
                                 THEN Tail(Signatures[i]) ELSE Signatures[i]
    <2>1. /\ Signatures[i] \in Sig
          /\ callee.kind = "method" => FirstName(Signatures[i]) = "self"
          /\ callee.kind = "method" => 1 \in DOMAIN callee.arms[i]
          /\ callee.arms[i] \in Seq([name : STRING, group : Groups])
          /\ Signatures[i] = SignatureOf(callee.arms[i])
      BY ArmFacts
    <2>2. CASE IsUnbound(First) \/ IsBoundInstance(First)
      <3>1. callee.kind = "method"
        BY <1>4, <2>2
      <3>2. Effective[i] = Tail(Signatures[i])
        BY <1>1, <2>1, <2>2, <3>1 DEF Effective, WithoutLeadingSelf
      <3>3. Signatures[i] # <<>>
        <4> DEFINE arm == callee.arms[i]
        <4>1. 1 \in DOMAIN arm /\ arm \in Seq([name : STRING, group : Groups])
          BY <2>1, <3>1
        <4>2. Signatures[i] = SignatureOf(arm)
          BY <2>1
        <4> HIDE DEF arm
        <4>3. Len(SignatureOf(arm)) = Len(arm) /\ DOMAIN arm = 1 .. Len(arm) /\ Len(arm) \in Nat
          BY <4>1, SignatureIs
        <4>4. Len(SignatureOf(arm)) # 0
          BY <4>1, <4>3
        <4> QED
          BY <2>1, <4>2, <4>4, EmptySeq DEF Sig
      <3> QED
        BY <2>1, <2>2, <3>2, <3>3, HeadTailProperties DEF Sig
    <2>3. CASE ~(IsUnbound(First) \/ IsBoundInstance(First))
      BY <1>1, <2>1, <2>3 DEF Effective
    <2> QED
      BY <2>2, <2>3
  <1>6. DOMAIN Effective = DOMAIN callee.arms
    BY <1>1 DEF Effective
  <1> QED
    BY <1>1, <1>3, <1>4, <1>5, <1>6

\* A class beside whose constructor stands another takes one argument by position.
LEMMA RequirementIs == Requirement = IF site.boundary = "competing" THEN 1 ELSE 0
  <1> DEFINE arm == <<[name |-> "cls", group |-> "posonly"], [name |-> "x", group |-> "posonly"],
                      [name |-> "args", group |-> "vararg"], [name |-> "kwargs", group |-> "kwarg"]>>
             kind == <<"PositionalOnly", "PositionalOnly", "VarPositional", "VarKeyword">>
  <1>1. Competitor = SignatureOf(arm)
    BY DEF Competitor
  <1>2. DOMAIN arm = 1 .. 4
    OBVIOUS
  <1>3. \A i \in 1 .. 4 : KindOf(arm[i]) = kind[i]
    BY DEF KindOf
  <1> HIDE DEF arm
  <1>4. DOMAIN Competitor = 1 .. 4 /\ \A i \in 1 .. 4 : Competitor[i].kind = kind[i]
    BY <1>1, <1>2, <1>3 DEF SignatureOf
  <1>5. Where(Competitor, "PositionalOnly") \ {1} = {2}
    BY <1>4 DEF Where
  <1>6. Cardinality({2}) = 1
    BY FS_Singleton
  <1> QED
    BY <1>5, <1>6 DEF Requirement

\* The maximum is that of a signature, or what the boundary allows, whichever is more.
LEMMA IndexedFacts ==
  ASSUME SiteIsGiven, Customary
  PROVE  /\ Allowance(Effective) \in Nat /\ IndexedMax \in Nat
         /\ Allowance(Effective) <= IndexedMax /\ Allowance(Effective) <= 1
         /\ site.boundary # "competing" => Allowance(Effective) = 0
         /\ \A i \in DOMAIN Effective : MaxPositional(Effective[i], callee.method) <= IndexedMax
         /\ \/ IndexedMax = Allowance(Effective)
            \/ \E i \in DOMAIN Effective : IndexedMax = MaxPositional(Effective[i], callee.method)
         /\ site.boundary = "competing" /\ Allowance(Effective) = 0 =>
               \A i \in DOMAIN Effective : CouldTake(Effective[i]) = 0
  <1> DEFINE k == Len(callee.arms)
             could == [i \in 1 .. k |-> CouldTake(Effective[i])]
             most == [i \in 1 .. k |-> MaxPositional(Effective[i], callee.method)]
  <1>1. k \in Nat \ {0} /\ DOMAIN Effective = 1 .. k /\ \A i \in 1 .. k : Effective[i] \in Sig
    BY BaseFacts, EffectiveIs
  <1> HIDE DEF k
  <1>2. could \in [1 .. k -> Nat] /\ most \in [1 .. k -> Nat]
    <2>1. \A i \in 1 .. k : /\ CouldTake(Effective[i]) \in Nat
                            /\ MaxPositional(Effective[i], callee.method) \in Nat
      BY <1>1, MaxPositionalType
    <2> QED
      BY <2>1
  <1>3. /\ {could[i] : i \in 1 .. k} = {CouldTake(Effective[i]) : i \in DOMAIN Effective}
        /\ {most[i] : i \in 1 .. k}
             = {MaxPositional(Effective[i], callee.method) : i \in DOMAIN Effective}
    BY <1>1
  <1>4. \A i \in DOMAIN Effective : /\ could[i] = CouldTake(Effective[i])
                                    /\ most[i] = MaxPositional(Effective[i], callee.method)
    BY <1>1
  <1> HIDE DEF could, most
  <1> DEFINE c == Max({CouldTake(Effective[i]) : i \in DOMAIN Effective})
  <1>5. c \in Nat /\ \A i \in DOMAIN Effective : could[i] <= c
    <2> DEFINE S == {could[i] : i \in 1 .. k}
    <2>1. Max(S) \in Nat /\ \A y \in S : y <= Max(S)
      BY <1>1, <1>2, MaxIs
    <2>2. \A i \in DOMAIN Effective : could[i] \in S
      BY <1>1
    <2>3. Max(S) = c
      BY <1>3
    <2> HIDE DEF S, c
    <2> QED
      BY <2>1, <2>2, <2>3
  <1>6. Allowance(Effective) = IF c < Requirement THEN c ELSE Requirement
    BY Zenon DEF Allowance
  <1>7. Requirement = IF site.boundary = "competing" THEN 1 ELSE 0
    BY RequirementIs
  <1> HIDE DEF c
  <1>8. /\ Allowance(Effective) \in Nat /\ Allowance(Effective) <= 1
        /\ site.boundary # "competing" => Allowance(Effective) = 0
    BY <1>5, <1>6, <1>7
  <1>9. site.boundary = "competing" /\ Allowance(Effective) = 0 => c = 0
    BY <1>5, <1>6, <1>7
  <1>10. site.boundary = "competing" /\ Allowance(Effective) = 0 =>
            \A i \in DOMAIN Effective : CouldTake(Effective[i]) = 0
    <2>1. \A i \in DOMAIN Effective : could[i] \in Nat
      BY <1>1, <1>2
    <2> QED
      BY <1>4, <1>5, <1>9, <2>1
  <1>11. /\ IndexedMax \in Nat /\ Allowance(Effective) <= IndexedMax
         /\ \A i \in 1 .. k : most[i] <= IndexedMax
         /\ IndexedMax = Allowance(Effective) \/ \E i \in 1 .. k : IndexedMax = most[i]
    <2>1. IndexedMax = Max({most[i] : i \in 1 .. k} \cup {Allowance(Effective)})
      BY <1>3, Zenon DEF IndexedMax
    <2> QED
      BY <1>1, <1>2, <1>8, <2>1, MaxOfMore
  <1> QED
    BY <1>1, <1>4, <1>8, <1>10, <1>11

\* Nothing is reported of the maximum, nor below that of a signature.
LEMMA CleanAtMost ==
  ASSUME SiteIsGiven, Customary, NEW n, Count(n) \in Nat,
         \/ Count(n) = IndexedMax
         \/ \E i \in DOMAIN Effective : Count(n) <= MaxPositional(Effective[i], callee.method)
  PROVE  IndexedReport(n) = {}
  <1>1. /\ Allowance(Effective) \in Nat /\ IndexedMax \in Nat
        /\ \/ IndexedMax = Allowance(Effective)
           \/ \E i \in DOMAIN Effective : IndexedMax = MaxPositional(Effective[i], callee.method)
    BY IndexedFacts
  <1>2. \A i \in DOMAIN Effective : MaxPositional(Effective[i], callee.method) \in Nat
    BY EffectiveIs, MaxPositionalType
  <1>3. \/ Count(n) <= Allowance(Effective)
        \/ \E i \in DOMAIN Effective : Count(n) <= MaxPositional(Effective[i], callee.method)
    BY <1>1, <1>2
  <1>4. \A i \in DOMAIN Effective :
           Count(n) <= MaxPositional(Effective[i], callee.method) =>
              ~Exceeds(Effective[i], callee.method, Count(n))
    BY <1>2 DEF Exceeds
  <1> QED
    BY <1>3, <1>4, IndexedReportIs

(***************************************************************************)
(* Parameters that collect                                                 *)
(***************************************************************************)
\* A signature without *args is that of a definition without, its receiver aside.
LEMMA NoVararg ==
  ASSUME NEW arm \in Seq([name : STRING, group : Groups]),
         \/ Where(SignatureOf(arm), "VarPositional") = {}
         \/ 1 \in Positional(arm) /\ Where(Tail(SignatureOf(arm)), "VarPositional") = {}
  PROVE  ~GroupIn(arm, "vararg")
  <1> DEFINE sig == SignatureOf(arm)
  <1> SUFFICES ASSUME NEW j \in DOMAIN arm, arm[j].group = "vararg"
               PROVE  FALSE
    BY DEF GroupIn
  <1>1. /\ sig \in Sig /\ Len(sig) = Len(arm) /\ DOMAIN arm = 1 .. Len(arm) /\ Len(arm) \in Nat
        /\ DOMAIN sig = 1 .. Len(arm)
        /\ \A i \in DOMAIN arm : sig[i].kind = KindOf(arm[i])
    BY SignatureIs
  <1>2. KindOf(arm[j]) = "VarPositional"
    <2> DEFINE q == arm[j]
    <2>1. q \in [name : STRING, group : Groups] /\ q.group = "vararg"
      BY <1>1, ElementOfSeq
    <2> HIDE DEF q
    <2>2. KindOf(q) = "VarPositional"
      BY <2>1, KindFacts
    <2> QED
      BY <2>2 DEF q
  <1>3. j \in DOMAIN sig /\ sig[j].kind = "VarPositional"
    BY <1>1, <1>2
  <1> HIDE DEF sig
  <1>4. CASE Where(sig, "VarPositional") = {}
    BY <1>3, <1>4 DEF Where
  <1>5. CASE 1 \in Positional(arm) /\ Where(Tail(sig), "VarPositional") = {}
    <2>1. j # 1
      BY <1>5 DEF Positional
    <2>2. sig # <<>>
      BY <1>1, EmptySeq DEF Sig
    <2>3. /\ Tail(sig) \in Seq([name : STRING, kind : Kinds]) /\ Len(Tail(sig)) = Len(arm) - 1
          /\ \A i \in 1 .. Len(Tail(sig)) : Tail(sig)[i] = sig[i + 1]
      BY <1>1, <2>2, HeadTailProperties DEF Sig
    <2>4. j - 1 \in 1 .. Len(Tail(sig)) /\ (j - 1) + 1 = j
      BY <1>1, <2>1, <2>3
    <2>5. DOMAIN Tail(sig) = 1 .. Len(Tail(sig))
      BY <2>3, LenProperties
    <2>6. j - 1 \in Where(Tail(sig), "VarPositional")
      BY <1>3, <2>3, <2>4, <2>5 DEF Where
    <2> QED
      BY <1>5, <2>6
  <1> QED
    BY <1>4, <1>5 DEF sig

\* A call that the index reports is of definitions without *args.
LEMMA ReportedNoVararg ==
  ASSUME SiteIsGiven, Customary, NEW n, IndexedReport(n) # {}, NEW i \in DOMAIN callee.arms
  PROVE  ~GroupIn(callee.arms[i], "vararg") /\ ~Unjudged
  <1>1. ~Unjudged /\ \A j \in DOMAIN Effective :
           Exceeds(Effective[j], callee.method, Count(n))
    BY IndexedReportIs
  <1>2. Where(Effective[i], "VarPositional") = {}
    BY <1>1, EffectiveIs DEF Exceeds
  <1>3. /\ callee.arms[i] \in Seq([name : STRING, group : Groups])
        /\ Signatures[i] = SignatureOf(callee.arms[i])
        /\ callee.kind = "method" => 1 \in Positional(callee.arms[i])
    BY ArmFacts
  <1>4. \/ Effective[i] = Signatures[i]
        \/ Effective[i] = Tail(Signatures[i]) /\ callee.kind = "method"
    BY EffectiveIs
  <1>5. ~GroupIn(callee.arms[i], "vararg")
    <2> DEFINE arm == callee.arms[i]
    <2>1. /\ arm \in Seq([name : STRING, group : Groups])
          /\ \/ Where(SignatureOf(arm), "VarPositional") = {}
             \/ 1 \in Positional(arm) /\ Where(Tail(SignatureOf(arm)), "VarPositional") = {}
      BY <1>2, <1>3, <1>4
    <2> HIDE DEF arm
    <2>2. ~GroupIn(arm, "vararg")
      BY <2>1, NoVararg
    <2> QED
      BY <2>2 DEF arm
  <1> QED
    BY <1>1, <1>5

(***************************************************************************)
(* Receivers                                                               *)
(***************************************************************************)
\* Whether the receiver is an argument of the call, as the code tells.
Explicit == IsUnbound(First) \/ IsExplicitDunder(First)

\* A first parameter is called self or cls where it is a receiver, and only there.
LEMMA FirstIs ==
  ASSUME SiteIsGiven, Customary
  PROVE  /\ callee.kind \in {"function", "staticmethod"} => First \notin {"self", "cls"}
         /\ callee.kind = "classmethod" => First = "cls"
         /\ callee.kind = "method" => First = "self"
  BY BaseFacts, ArmFacts DEF First

\* The receiver that the call or the code passes over is the one Python supplies.
LEMMA ExplicitIs ==
  ASSUME SiteIsGiven, Customary, callee.method \notin Descriptors
  PROVE  /\ Explicit <=> callee.kind = "method" /\ site.base \in {"class", "dotted"}
         /\ Explicit <=> Receiver # {}
         /\ Receiver \subseteq {1}
         /\ (site.hover = "none" \/ Len(callee.arms) > 1) /\ ~DunderByName =>
               (IsUnbound(First) <=> Explicit)
  <1>1. /\ callee.kind \in {"function", "method", "classmethod", "staticmethod"}
        /\ callee.method \in {"plain", "init", "call"}
        /\ callee.method # "plain" => callee.kind = "method"
        /\ Supplied(site.base) = IF \/ callee.kind \in {"function", "staticmethod"}
                                    \/ callee.kind = "method" /\ site.base \in {"class", "dotted"}
                                 THEN 0 ELSE 1
    BY BaseFacts
  <1>2. /\ callee.kind # "method" => First # "self"
        /\ callee.kind = "method" => First = "self"
    BY <1>1, FirstIs
  <1>3. Explicit <=> callee.kind = "method" /\ site.base \in {"class", "dotted"}
    BY <1>1, <1>2 DEF Explicit, IsUnbound, IsExplicitDunder
  <1>4. Receiver = IF callee.kind = "method" /\ site.base \in {"class", "dotted"} THEN {1} ELSE {}
    BY <1>1 DEF Receiver
  <1>5. (site.hover = "none" \/ Len(callee.arms) > 1) /\ ~DunderByName =>
           (IsUnbound(First) <=> Explicit)
    BY <1>1, <1>2 DEF Explicit, IsUnbound, IsExplicitDunder, DunderByName
  <1> QED
    BY <1>3, <1>4, <1>5

\* What the fix skips in the signature is what Python supplies.
LEMMA SkipIs ==
  ASSUME SiteIsGiven, Customary, callee.method \notin Descriptors,
         NEW i \in DOMAIN callee.arms,
         Explicit \/ ~(callee.method \in {"init", "call"} /\ IsAttribute)
  PROVE  Skip(Signatures[i], callee.method, Explicit, IsAttribute) = Supplied(site.base)
  <1>1. /\ callee.kind \in {"function", "method", "classmethod", "staticmethod"}
        /\ callee.method \in {"plain", "init", "call"}
        /\ callee.method # "plain" => callee.kind = "method"
        /\ callee.kind = "function" => site.base \in {"none", "module"}
        /\ callee.kind = "classmethod" => site.base # "none"
        /\ callee.kind = "method" /\ callee.method = "plain" => site.base # "none"
        /\ Supplied(site.base) = IF \/ callee.kind \in {"function", "staticmethod"}
                                    \/ callee.kind = "method" /\ site.base \in {"class", "dotted"}
                                 THEN 0 ELSE 1
    BY BaseFacts
  <1>2. /\ callee.kind \in {"function", "staticmethod"} =>
               FirstName(Signatures[i]) \notin {"self", "cls"}
        /\ callee.kind \in {"classmethod", "method"} => FirstName(Signatures[i]) \in {"self", "cls"}
    BY ArmFacts
  <1>3. Explicit <=> callee.kind = "method" /\ site.base \in {"class", "dotted"}
    BY ExplicitIs
  <1>4. Skip(Signatures[i], callee.method, Explicit, IsAttribute)
           = IF ~Explicit /\ (\/ callee.method \in {"init", "call"}
                              \/ site.base # "none" /\ FirstName(Signatures[i]) \in {"self", "cls"})
             THEN 1 ELSE 0
    BY Zenon DEF Skip, IsAttribute
  <1> DEFINE b == ~Explicit /\ (\/ callee.method \in {"init", "call"}
                                \/ site.base # "none" /\ FirstName(Signatures[i]) \in {"self", "cls"})
  <1>5. b <=> ~(\/ callee.kind \in {"function", "staticmethod"}
                \/ callee.kind = "method" /\ site.base \in {"class", "dotted"})
    BY <1>1, <1>2, <1>3
  <1> QED
    BY <1>1, <1>4, <1>5, Zenon

\* The parameters that a signature names are those the arguments are for.
LEMMA ShiftedNames ==
  ASSUME SiteIsGiven, Customary, Signatures[site.arm] = SignatureOf(Selected),
         ~ReceiverByDefinition
  PROVE  Stands(Signatures[site.arm], Supplied(site.base))
  <1>1. Selected \in Seq([name : STRING, group : Groups])
    BY SelectedFacts
  <1> DEFINE arm == Selected
             d == Supplied(site.base)
  <1>0. PassedOver = d
    BY DEF PassedOver
  <1>2. \A i : For(i) = arm[i + d]
    BY <1>0, Zenon DEF For
  <1> HIDE DEF arm, d
  <1>3. /\ DOMAIN arm = DOMAIN SignatureOf(arm)
        /\ \A i \in DOMAIN arm : /\ SignatureOf(arm)[i].name = arm[i].name
                                 /\ SignatureOf(arm)[i].kind = KindOf(arm[i])
    BY <1>1, SignatureIs DEF arm
  <1>4. \A i \in Nat \ {0} : i + d \in DOMAIN SignatureOf(arm) =>
            /\ i + d \in DOMAIN arm
            /\ SignatureOf(arm)[i + d].name = For(i).name
            /\ SignatureOf(arm)[i + d].kind = KindOf(For(i))
    BY <1>2, <1>3
  <1> QED
    BY <1>0, <1>4 DEF Stands, arm, d

(***************************************************************************)
(* What a visit plans is sound                                             *)
(***************************************************************************)
\* The first argument of a class with a __new__ that takes none by position is for a
\* parameter that takes none.
LEMMA CompetingTakesNone ==
  ASSUME SiteIsGiven, Customary, site.boundary = "competing", Allowance(Effective) = 0,
         1 + PassedOver \in DOMAIN Selected,
         KindOf(For(1)) \in {"PositionalOrKeyword", "KeywordOnly"}
  PROVE  For(1).group = "kwonly"
  <1>1. site.base \in {"none", "module"} /\ callee.method = "init"
    BY DEF SiteIsGiven, Possible
  <1>2. site.arm \in DOMAIN callee.arms /\ Selected = callee.arms[site.arm]
    BY DEF SiteIsGiven, Selected
  <1>3. PassedOver = 1
    BY <1>1, BaseFacts DEF PassedOver
  <1>4. ~IsUnbound(First) /\ ~IsBoundInstance(First)
    BY <1>1 DEF IsUnbound, IsBoundInstance, Descriptors
  <1> DEFINE sig == SignatureOf(Selected)
             could == {i \in DOMAIN sig \ {1} : sig[i].kind \in {"PositionalOnly", "PositionalOrKeyword"}}
  <1>5. Effective[site.arm] = sig
    BY <1>2, <1>4, EffectiveIs, ArmFacts
  <1>6. /\ DOMAIN Selected = 1 .. Len(Selected) /\ Len(Selected) \in Nat
        /\ Selected \in Seq([name : STRING, group : Groups])
    BY SelectedFacts
  <1>7. /\ DOMAIN sig = 1 .. Len(Selected)
        /\ \A i \in DOMAIN Selected : sig[i].kind = KindOf(Selected[i])
    BY <1>6, SignatureIs
  <1>8. CouldTake(sig) = 0
    BY <1>2, <1>5, EffectiveIs, IndexedFacts
  <1>9. CouldTake(sig) = Cardinality(could)
    BY Zenon DEF CouldTake
  <1> HIDE DEF sig
  <1>10. could = {}
    <2>1. could \in SUBSET (1 .. Len(Selected))
      BY <1>7
    <2> HIDE DEF could
    <2>2. IsFiniteSet(could)
      <3> IsFiniteSet(1 .. Len(Selected))
        BY <1>6, FS_Interval
      <3> QED
        BY <2>1, FS_Subset
    <2> QED
      BY <1>8, <1>9, <2>2, FS_EmptySet
  <1>11. 2 \in DOMAIN Selected /\ For(1) = Selected[2]
    BY <1>3 DEF For
  <1>12. KindOf(Selected[2]) # "PositionalOrKeyword"
    BY <1>6, <1>7, <1>10, <1>11
  <1> DEFINE q == Selected[2]
  <1>13. q \in [name : STRING, group : Groups]
    BY <1>6, <1>11, ElementOfSeq
  <1>14. KindOf(q) = "KeywordOnly"
    BY <1>11, <1>12
  <1> HIDE DEF q
  <1>15. q.group = "kwonly"
    BY <1>13, <1>14, KindFacts
  <1> QED
    BY <1>11, <1>15 DEF q

\* The gates leave no boundary but an override that is not looked for.
LEMMA NotDeclined ==
  ASSUME SiteIsGiven, Customary, site.hover = "none", ~IndexedDeclines,
         Explicit \/ ~(callee.method \in {"init", "call"} /\ IsAttribute)
  PROVE  \/ site.boundary \in {"none", "competing", "ignored", "excluded", "property", "special"}
         \/ OverrideUnseen
  <1>1. /\ site.boundary \in AllBoundaries /\ Possible(callee, site.base, site.boundary)
        /\ ~(site.boundary = "opaque" /\ site.base = "none")
    BY DEF SiteIsGiven, Askable
  <1>2. callee.kind = "method" => First = "self"
    BY FirstIs
  <1>3. site.boundary \notin {"synthesized", "text", "private"}
    BY DEF IndexedDeclines
  <1>4. site.boundary # "mixed"
    BY <1>1, <1>2 DEF Possible, IndexedDeclines, MixedBinding, First
  <1>5. site.boundary # "opaque"
    BY <1>1 DEF Possible, IndexedDeclines, OpaqueReceiver
  <1>6. site.boundary \notin {"inheritedSelf", "inheritedConstructor", "imported"}
    BY <1>1 DEF Possible, IndexedDeclines, InheritedSelf, InheritedConstructor, ImportedCallable,
                IsAttribute
  <1>7. site.boundary = "override" => OverrideUnseen
    <2> SUFFICES ASSUME site.boundary = "override", IsAttribute
                 PROVE  FALSE
      BY DEF OverrideUnseen
    <2>1. callee.method # "plain" /\ site.base # "instance"
      BY DEF IndexedDeclines, DispatchesToOverride
    <2>2. callee.method = "call" /\ site.base = "other"
      BY <1>1, <2>1 DEF Possible, IsAttribute
    <2> QED
      BY <2>2 DEF Explicit, IsUnbound, IsExplicitDunder
  <1> QED
    BY <1>1, <1>3, <1>4, <1>5, <1>6, <1>7 DEF AllBoundaries

\* A plan that the index makes.
LEMMA JudgeNames ==
  ASSUME SiteIsGiven, NamesComeLast, Customary, Len(callee.arms) = 1, site.hover = "none",
         IndexedReport(PositionalCount) # {}, ~IndexedDeclines,
         CanInsert(Signatures[1], callee.method, IndexedMax, PositionalCount, Explicit, IsAttribute)
  PROVE  \E n \in 0 .. Len(call.args) :
            /\ Insertions(Signatures[1], callee.method, IndexedMax, PositionalCount, Explicit,
                          IsAttribute)
                 = {[at |-> ArgumentStart(call.args, i), name |-> For(i).name] :
                       i \in {j \in ByPosition(call.args) : j > n}}
            /\ CanName(n)
            /\ \E i \in ByPosition(call.args) : i > n
            /\ ~DunderByName => Visited(n) = {}
  <1> DEFINE n == Start(IndexedMax, Explicit)
             k == Supplied(site.base)
  <1>1. /\ callee.method \notin Descriptors
        /\ Explicit \/ ~(callee.method \in {"init", "call"} /\ IsAttribute)
    BY Zenon DEF CanInsert
  <1>2. site.arm = 1 /\ 1 \in DOMAIN callee.arms /\ Selected = callee.arms[1]
    BY BaseFacts DEF SiteIsGiven, Selected
  <1>3. /\ IndexedMax \in Nat /\ Allowance(Effective) \in Nat
        /\ Allowance(Effective) <= IndexedMax
    BY IndexedFacts
  <1>4. n = IF Explicit THEN IndexedMax + 1 ELSE IndexedMax
    BY DEF Start
  <1>5. k \in {0, 1} /\ k = Skip(Signatures[1], callee.method, Explicit, IsAttribute)
    <2>1. k \in {0, 1}
      BY SelectedFacts
    <2>2. k = Skip(Signatures[1], callee.method, Explicit, IsAttribute)
      BY <1>1, <1>2, SkipIs, Zenon
    <2> QED
      BY <2>1, <2>2, Zenon
  <1>60. ~ReceiverByDefinition /\ PassedOver = k
    BY DEF ReceiverByDefinition, PassedOver
  <1>6. Stands(Signatures[1], k)
    <2>1. Signatures[site.arm] = SignatureOf(Selected)
      BY <1>2, ArmFacts
    <2> QED
      BY <1>2, <1>60, <2>1, ShiftedNames
  <1>7. n \in Nat
    BY <1>3, <1>4
  <1>8. n = Start(IndexedMax, Explicit)
    OBVIOUS
  <1> HIDE DEF n, k
  <1>9. NamesAfter(Insertions(Signatures[1], callee.method, IndexedMax, PositionalCount, Explicit,
                              IsAttribute), n)
    <2>1. Plannable(Signatures[1], callee.method, IndexedMax, Explicit, IsAttribute, n)
      BY <1>5, <1>6, <1>7, <1>8, Zenon DEF Plannable
    <2> QED
      BY <2>1, PlanNames, Zenon
  <1>10. ~GroupIn(Selected, "vararg") /\ ~Unjudged
    BY <1>2, ReportedNoVararg
  <1>11. site.boundary \in {"none", "competing"} \/ OverrideUnseen
    BY <1>1, <1>10, NotDeclined DEF Unjudged
  <1>12. \A i \in Receiver : i <= n
    BY <1>1, <1>3, <1>4, ExplicitIs
  <1>13. site.boundary = "competing" /\ 1 > n /\ 1 \in ByPosition(call.args) =>
            For(1).group = "kwonly"
    <2>1. 1 > n => Allowance(Effective) = 0
      BY <1>3, <1>4
    <2> QED
      BY <1>9, <2>1, CompetingTakesNone DEF NamesAfter
  <1>14. CanName(n)
    BY <1>7, <1>9, <1>10, <1>11, <1>12, <1>13, Zenon DEF CanName, NamesAfter
  <1>15. ~DunderByName => Visited(n) = {}
    <2> SUFFICES ASSUME ~DunderByName
                 PROVE  Visited(n) = {}
      OBVIOUS
    <2>1. IsUnbound(First) <=> Explicit
      BY <1>1, ExplicitIs
    <2>2. Count(n) = IndexedMax
      BY <1>3, <1>4, <2>1 DEF Count
    <2>3. IndexedReport(n) = {}
      BY <1>3, <2>2, CleanAtMost
    <2> QED
      BY <2>3 DEF Visited, Answered
  <1> QED
    BY <1>9, <1>14, <1>15, Zenon DEF NamesAfter

\* ty shows a callable, which is what it takes without its receiver, and the code
\* strips the receiver of a method named through its class.
Shows == site.hover \notin {"none"} \cup Answered
ShownSignature == Shown(Selected)
ShownExplicit == Stripped(ShownSignature)
ShownEffective == IF ShownExplicit THEN Tail(ShownSignature) ELSE ShownSignature
ShownMax == MaxPositional(ShownEffective, "plain")
ShownCount(n) == IF ShownExplicit /\ n > 0 THEN n - 1 ELSE n

\* What is shown of a definition lacks the receiver that Python supplies.
LEMMA ShownArm ==
  ASSUME SiteIsGiven, Customary, NEW i \in DOMAIN callee.arms
  PROVE  Shown(callee.arms[i]) = IF Supplied(site.base) = 1 THEN Tail(SignatureOf(callee.arms[i]))
                                 ELSE SignatureOf(callee.arms[i])
  <1> DEFINE arm == callee.arms[i]
             sig == SignatureOf(arm)
             d == Supplied(site.base)
  <1>1. /\ arm \in Seq([name : STRING, group : Groups])
        /\ callee.kind \in {"classmethod", "method"} => 1 \in DOMAIN arm
    BY ArmFacts
  <1>2. d \in {0, 1} /\ (d = 1 => callee.kind \in {"classmethod", "method"})
    BY BaseFacts
  <1>3. Shown(arm) = SubSeq(sig, d + 1, Len(arm))
    BY Zenon DEF Shown
  <1> HIDE DEF arm, d
  <1>4. /\ sig \in Seq([name : STRING, kind : Kinds]) /\ Len(sig) = Len(arm)
        /\ DOMAIN arm = 1 .. Len(arm)
    BY <1>1, SignatureIs DEF Sig
  <1> HIDE DEF sig
  <1>5. CASE d = 0
    <2>1. Shown(arm) = SubSeq(sig, 1, Len(sig))
      BY <1>3, <1>4, <1>5
    <2> QED
      BY <1>4, <1>5, <2>1, SubSeqFull DEF arm, d, sig
  <1>6. CASE d = 1
    <2>1. sig # <<>>
      BY <1>1, <1>2, <1>4, <1>6, EmptySeq
    <2>2. Shown(arm) = SubSeq(sig, 2, Len(sig))
      BY <1>3, <1>4, <1>6
    <2> QED
      BY <1>4, <1>6, <2>1, <2>2, TailIsSubSeq DEF arm, d, sig
  <1> QED
    BY <1>2, <1>5, <1>6

\* What ty shows lacks the receiver, and is read as explicit when it was passed.
LEMMA ShownIs ==
  ASSUME SiteIsGiven, Customary, Shows
  PROVE  /\ ShownExplicit <=> callee.kind = "method" /\ site.base \in {"class", "dotted"}
         /\ SignatureOf(Selected) \in Sig
         /\ ShownEffective = IF callee.kind \in {"function", "staticmethod"}
                             THEN SignatureOf(Selected) ELSE Tail(SignatureOf(Selected))
         /\ ShownEffective \in Sig
         /\ callee.kind \in {"classmethod", "method"} =>
               1 \in Positional(Selected) /\ SignatureOf(Selected) # <<>>
         /\ Stands(ShownSignature, 0)
         /\ FirstName(ShownEffective) \notin {"self", "cls"}
  <1> DEFINE arm == Selected
             sig == SignatureOf(arm)
             d == Supplied(site.base)
             q == ShownSignature
  <1>1. site.arm \in DOMAIN callee.arms /\ arm = callee.arms[site.arm]
    BY DEF SiteIsGiven, Selected
  <1>2. /\ arm \in Seq([name : STRING, group : Groups])
        /\ Signatures[site.arm] = sig /\ sig \in Sig
        /\ callee.kind \in {"function", "staticmethod"} => FirstName(sig) \notin {"self", "cls"}
        /\ callee.kind \in {"classmethod", "method"} =>
              /\ 1 \in Positional(arm) /\ 1 \in DOMAIN arm
              /\ FirstName(sig) = IF callee.kind = "method" THEN "self" ELSE "cls"
        /\ \A j \in DOMAIN arm : j > 1 => arm[j].name \notin {"self", "cls"}
    BY <1>1, ArmFacts
  <1>3. /\ callee.kind \in {"function", "method", "classmethod", "staticmethod"}
        /\ d = IF \/ callee.kind \in {"function", "staticmethod"}
                  \/ callee.kind = "method" /\ site.base \in {"class", "dotted"}
               THEN 0 ELSE 1
    BY BaseFacts
  <1>4. d = 0 /\ callee.kind = "method" => site.hover = "def"
    BY DEF SiteIsGiven, Hovers, Shows, Answered
  <1>5. q = IF d = 1 THEN Tail(sig) ELSE sig
    BY <1>1, ShownArm DEF ShownSignature
  <1>6. ShownExplicit <=> site.hover = "def" /\ FirstName(q) \in {"self", "cls"}
    BY Zenon DEF Stripped, ShownExplicit
  <1>7. PassedOver = d
    BY DEF PassedOver, ReceiverByDefinition, Shows, Answered
  <1>11. d = 0 => q = sig
    BY <1>5
  <1>12. d = 1 => q = Tail(sig)
    BY <1>5
  <1> HIDE DEF q, arm, d
  <1>8. /\ Len(sig) = Len(arm) /\ DOMAIN arm = 1 .. Len(arm) /\ Len(arm) \in Nat
        /\ DOMAIN sig = 1 .. Len(arm)
        /\ \A i \in DOMAIN arm : sig[i].name = arm[i].name /\ sig[i].kind = KindOf(arm[i])
    BY <1>2, SignatureIs
  <1> HIDE DEF sig
  <1>9. sig \in Seq([name : STRING, kind : Kinds])
    BY <1>2 DEF Sig
  <1>10. callee.kind \in {"classmethod", "method"} => sig # <<>>
    BY <1>2, <1>8, <1>9, EmptySeq
  <1>15. sig # <<>> =>
           /\ Tail(sig) \in Sig /\ Len(Tail(sig)) = Len(arm) - 1
           /\ \A i \in 1 .. Len(Tail(sig)) : Tail(sig)[i] = sig[i + 1]
    BY <1>8, <1>9, HeadTailProperties DEF Sig
  <1>19. sig # <<>> => FirstName(Tail(sig)) \notin {"self", "cls"}
    <2> SUFFICES ASSUME sig # <<>>
                 PROVE  FirstName(Tail(sig)) \notin {"self", "cls"}
      OBVIOUS
    <2>1. CASE Tail(sig) = <<>>
      BY <2>1 DEF FirstName, NoName
    <2>2. CASE Tail(sig) # <<>>
      <3> DEFINE t == Tail(sig)
      <3>1. t \in Seq([name : STRING, kind : Kinds]) /\ t # <<>>
        BY <1>15, <2>2 DEF Sig
      <3> HIDE DEF t
      <3>2. Len(t) \in Nat /\ Len(t) # 0
        BY <3>1, LenProperties, EmptySeq
      <3>3. Len(t) = Len(arm) - 1 /\ (1 \in 1 .. Len(t) => t[1] = sig[2])
        BY <1>15 DEF t
      <3>4. t[1] = sig[2] /\ 2 \in DOMAIN arm
        BY <1>8, <3>2, <3>3
      <3>5. t[1].name \notin {"self", "cls"}
        BY <1>2, <1>8, <3>4
      <3> QED
        BY <3>1, <3>5 DEF FirstName, t
    <2> QED
      BY <2>1, <2>2
  <1>13. ShownExplicit <=> callee.kind = "method" /\ site.base \in {"class", "dotted"}
    BY <1>2, <1>3, <1>4, <1>6, <1>10, <1>11, <1>12, <1>19
  <1>14. ShownEffective = IF callee.kind \in {"function", "staticmethod"} THEN sig ELSE Tail(sig)
    <2>1. ShownEffective = IF ShownExplicit THEN Tail(q) ELSE q
      BY Zenon DEF ShownEffective, q
    <2> QED
      BY <1>3, <1>11, <1>12, <1>13, <2>1
  <1>16. ShownEffective \in Sig
    BY <1>2, <1>3, <1>10, <1>14, <1>15
  <1>17. Stands(q, 0)
    <2> SUFFICES ASSUME NEW i \in Nat \ {0}, i + 0 \in DOMAIN q
                 PROVE  /\ i + d \in DOMAIN arm
                        /\ q[i + 0].name = For(i).name /\ q[i + 0].kind = KindOf(For(i))
      BY <1>7 DEF Stands, arm
    <2>1. For(i) = arm[i + d] /\ i + 0 = i
      BY <1>7 DEF For, arm
    <2>2. CASE d = 0
      BY <1>8, <1>11, <2>1, <2>2
    <2>3. CASE d = 1
      <3>1. sig # <<>>
        BY <1>3, <1>10, <2>3
      <3>2. /\ Tail(sig) \in Sig /\ Len(Tail(sig)) = Len(arm) - 1
            /\ \A j \in 1 .. Len(Tail(sig)) : Tail(sig)[j] = sig[j + 1]
        BY <1>15, <3>1
      <3>3. DOMAIN Tail(sig) = 1 .. Len(Tail(sig)) /\ i \in DOMAIN Tail(sig)
        BY <1>12, <2>1, <2>3, <3>2, LenProperties DEF Sig
      <3>4. q[i] = sig[i + 1] /\ i + 1 \in DOMAIN arm
        BY <1>8, <1>12, <2>3, <3>2, <3>3
      <3> QED
        BY <1>8, <2>1, <2>3, <3>4
    <2> QED
      BY <1>3, <2>2, <2>3
  <1>18. callee.kind \in {"classmethod", "method"} => 1 \in Positional(arm)
    BY <1>2
  <1>20. FirstName(ShownEffective) \notin {"self", "cls"}
    BY <1>2, <1>3, <1>10, <1>14, <1>19
  <1> QED
    BY <1>2, <1>10, <1>13, <1>14, <1>16, <1>17, <1>18, <1>20 DEF q, arm, sig

\* A callable that is shown is read like a function.
LEMMA MethodIs == SiteIsGiven => MethodShown = "plain"
  BY BaseFacts DEF MethodShown, Mapped

\* What is reported of one signature.
LEMMA ViolationIs ==
  ASSUME NEW signature \in Sig, NEW method, NEW n
  PROVE  Violation(<<signature>>, method, n) =
            IF Unjudged \/ ~Exceeds(signature, method, n) THEN {}
            ELSE {[count |-> n, max |-> MaxPositional(signature, method)]}
  <1> DEFINE m == MaxPositional(signature, method)
             one == <<signature>>
             f == [i \in 1 .. 1 |-> m]
  <1>1. m \in Nat
    BY MaxPositionalType
  <1>2. DOMAIN one = 1 .. 1 /\ one[1] = signature
    OBVIOUS
  <1>3. \A i \in DOMAIN one : one[i] = signature
    BY <1>2
  <1> HIDE DEF one, m
  <1>4. {MaxPositional(one[i], method) : i \in DOMAIN one} = {f[i] : i \in 1 .. 1}
    BY <1>2, <1>3 DEF m
  <1>5. Max({f[i] : i \in 1 .. 1}) = m
    <2>1. f \in [1 .. 1 -> Nat]
      BY <1>1
    <2> DEFINE S == {f[i] : i \in 1 .. 1}
    <2>3. \A y \in S : y = m
      OBVIOUS
    <2> HIDE DEF f
    <2>2. Max(S) \in S
      <3>1. 1 \in Nat \ {0}
        OBVIOUS
      <3> QED
        BY <2>1, <3>1, MaxIs, Zenon
    <2> HIDE DEF S
    <2> QED
      BY <2>2, <2>3 DEF S
  <1>6. (\E i \in DOMAIN one : ~Exceeds(one[i], method, n)) <=> ~Exceeds(signature, method, n)
    BY <1>2, <1>3
  <1>7. Violation(one, method, n) =
            IF Unjudged \/ (\E i \in DOMAIN one : ~Exceeds(one[i], method, n)) THEN {}
            ELSE {[count |-> n, max |-> Max({MaxPositional(one[i], method) : i \in DOMAIN one})]}
    BY Zenon DEF Violation
  <1>8. Max({MaxPositional(one[i], method) : i \in DOMAIN one}) = m
    BY <1>4, <1>5, Zenon
  <1>9. Violation(one, method, n) =
            IF Unjudged \/ ~Exceeds(signature, method, n) THEN {} ELSE {[count |-> n, max |-> m]}
    BY <1>6, <1>7, <1>8, Zenon
  <1> QED
    BY <1>9, Zenon DEF one, m

\* TyReport in the names above.
LEMMA TyReportIs ==
  ASSUME SiteIsGiven, Customary, Shows, NEW n
  PROVE  TyReport(ShownSignature, n) =
            IF Unjudged \/ ~Exceeds(ShownEffective, "plain", ShownCount(n)) THEN {}
            ELSE {[count |-> ShownCount(n), max |-> ShownMax]}
  <1>1. TyReport(ShownSignature, n) = Violation(<<ShownEffective>>, MethodShown, ShownCount(n))
    BY Zenon DEF TyReport, ShownExplicit, ShownEffective, ShownCount
  <1>2. ShownEffective \in Sig /\ MethodShown = "plain"
    BY ShownIs, MethodIs
  <1> QED
    BY <1>1, <1>2, ViolationIs, Zenon DEF ShownMax

\* ty shows one overload among the others in what has no receiver.
LEMMA UnambiguousIs ==
  ASSUME SiteIsGiven, Customary, Shows, Unambiguous(ShownEffective)
  PROVE  callee.kind \in {"function", "staticmethod"} /\ callee.method = "plain"
  <1>1. /\ callee.kind \in {"function", "method", "classmethod", "staticmethod"}
        /\ callee.method # "plain" => callee.kind = "method"
        /\ DOMAIN Signatures = DOMAIN callee.arms
    BY BaseFacts, EffectiveIs
  <1> DEFINE S == {i \in DOMAIN Signatures : Signatures[i] = ShownEffective}
  <1>2. Cardinality(S) = 1
    BY Zenon DEF Unambiguous
  <1>3. S # {}
    BY <1>2, FS_EmptySet
  <1>4. PICK i \in DOMAIN callee.arms : Signatures[i] = ShownEffective
    BY <1>1, <1>3
  <1>5. FirstName(Signatures[i]) \notin {"self", "cls"}
    BY <1>4, ShownIs
  <1>6. callee.kind \in {"classmethod", "method"} =>
           FirstName(Signatures[i]) = IF callee.kind = "method" THEN "self" ELSE "cls"
    BY ArmFacts
  <1> QED
    BY <1>1, <1>5, <1>6

\* What is visited of a call with the names that ty's answer gives is clean.
LEMMA ShownIsClean ==
  ASSUME SiteIsGiven, Customary, Shows, Where(ShownEffective, "VarPositional") = {}, ~DunderByName,
         Len(callee.arms) = 1 \/ callee.kind \in {"function", "staticmethod"},
         NEW n, n = IF ShownExplicit THEN ShownMax + 1 ELSE ShownMax
  PROVE  Visited(n) = {}
  <1> DEFINE sig == SignatureOf(Selected)
  <1>1. /\ ShownExplicit <=> callee.kind = "method" /\ site.base \in {"class", "dotted"}
        /\ callee.kind \in {"function", "staticmethod"} => ShownEffective = sig
        /\ ShownEffective \in Sig
    BY ShownIs
  <1>2. ShownMax \in Nat
    BY <1>1, MaxPositionalType DEF ShownMax
  <1>3. ShownCount(n) = ShownMax
    BY <1>2 DEF ShownCount
  <1>4. CASE Len(callee.arms) = 1
    <2>1. Visited(n) = TyReport(ShownSignature, n)
      BY <1>4 DEF Visited, Shows, ShownSignature
    <2>2. ~Exceeds(ShownEffective, "plain", ShownCount(n))
      BY <1>2, <1>3 DEF Exceeds, ShownMax
    <2> QED
      BY <2>1, <2>2, TyReportIs, Zenon
  <1>5. CASE Len(callee.arms) # 1
    <2>1. Visited(n) = IndexedReport(n)
      BY <1>5 DEF Visited, Shows
    <2>2. site.arm \in DOMAIN callee.arms /\ Selected = callee.arms[site.arm]
      BY DEF SiteIsGiven, Selected
    <2>3. /\ callee.kind \in {"function", "staticmethod"}
          /\ callee.method # "plain" => callee.kind = "method"
      BY <1>5, BaseFacts
    <2>4. ~IsUnbound(First) /\ Effective[site.arm] = sig /\ DOMAIN Effective = DOMAIN callee.arms
      BY <2>2, <2>3, EffectiveIs, ArmFacts
    <2>5. Count(n) = ShownMax /\ ShownMax = MaxPositional(Effective[site.arm], callee.method)
      BY <1>1, <1>2, <2>3, <2>4 DEF Count, ShownMax
    <2> QED
      BY <1>2, <2>1, <2>2, <2>4, <2>5, CleanAtMost
  <1> QED
    BY <1>4, <1>5

\* What ty may be asked about is behind no boundary, once nothing declines.
LEMMA TyReaches ==
  ASSUME SiteIsGiven, site.hover # "none", ~TyDeclines, ~TyOverride, ~Unjudged,
         site.hover # "overloads" \/ Len(callee.arms) > 1
  PROVE  site.boundary = "none" \/ OverrideUnseen
  <1>1. site.boundary \in TyBoundaries
    BY DEF SiteIsGiven, Askable
  <1>2. site.boundary \in {"none", "override"}
    BY <1>1 DEF TyBoundaries, TyDeclines, Unjudged
  <1>3. Len(callee.arms) \in Nat \ {0}
    BY BaseFacts
  <1>4. site.hover \in {"def", "definition", "bound", "binder", "type", "overloads"}
    BY DEF SiteIsGiven, Hovers
  <1>5. site.boundary = "override" => OverrideUnseen
    <2> SUFFICES ASSUME site.boundary = "override", IsAttribute
                 PROVE  Len(callee.arms) = 1 /\ site.hover \in {"def", "type", "binder"}
      BY DEF OverrideUnseen
    <2>1. site.hover \notin {"bound", "definition"} /\ ~(Len(callee.arms) > 1)
      BY Zenon DEF TyOverride
    <2>2. \A k \in Nat \ {0} : ~(k > 1) => k = 1
      OBVIOUS
    <2>3. Len(callee.arms) = 1
      BY <1>3, <2>1, <2>2, Zenon
    <2>4. site.hover # "overloads"
      BY <2>1, Zenon
    <2> QED
      BY <1>4, <2>1, <2>3, <2>4
  <1> QED
    BY <1>2, <1>5

\* A plan that ty's answer gives.
LEMMA TyNames ==
  ASSUME SiteIsGiven, NamesComeLast, Customary, Shows, ~TyDeclines, ~TyOverride, ~Unjudged,
         callee.method \notin Descriptors,
         Len(callee.arms) = 1 \/ callee.kind \in {"function", "staticmethod"},
         Where(ShownEffective, "VarPositional") = {},
         CanInsert(ShownSignature, "plain", ShownMax, PositionalCount, ShownExplicit, FALSE)
  PROVE  \E n \in 0 .. Len(call.args) :
            /\ Insertions(ShownSignature, "plain", ShownMax, PositionalCount, ShownExplicit, FALSE)
                 = {[at |-> ArgumentStart(call.args, i), name |-> For(i).name] :
                       i \in {j \in ByPosition(call.args) : j > n}}
            /\ CanName(n)
            /\ \E i \in ByPosition(call.args) : i > n
            /\ ~DunderByName => Visited(n) = {}
  <1> DEFINE n == Start(ShownMax, ShownExplicit)
  <1>1. /\ ShownExplicit <=> callee.kind = "method" /\ site.base \in {"class", "dotted"}
        /\ SignatureOf(Selected) \in Sig
        /\ ShownEffective = IF callee.kind \in {"function", "staticmethod"}
                            THEN SignatureOf(Selected) ELSE Tail(SignatureOf(Selected))
        /\ ShownEffective \in Sig
        /\ callee.kind \in {"classmethod", "method"} => 1 \in Positional(Selected)
        /\ Stands(ShownSignature, 0)
    BY ShownIs
  <1>2. ShownMax \in Nat
    BY <1>1, MaxPositionalType DEF ShownMax
  <1>3. n = IF ShownExplicit THEN ShownMax + 1 ELSE ShownMax
    BY DEF Start
  <1>4. callee.kind \in {"function", "method", "classmethod", "staticmethod"}
    BY BaseFacts
  <1>5. Skip(ShownSignature, "plain", ShownExplicit, FALSE) = 0
    BY DEF Skip
  <1>6. n \in Nat /\ n = Start(ShownMax, ShownExplicit)
    BY <1>2, <1>3
  <1> HIDE DEF n
  <1>7. NamesAfter(Insertions(ShownSignature, "plain", ShownMax, PositionalCount,
                              ShownExplicit, FALSE), n)
    <2>1. Plannable(ShownSignature, "plain", ShownMax, ShownExplicit, FALSE, n)
      <3> DEFINE k == Skip(ShownSignature, "plain", ShownExplicit, FALSE)
      <3>1. k \in {0, 1} /\ Stands(ShownSignature, k)
        BY <1>1, <1>5
      <3> QED
        BY <1>6, <3>1, Zenon DEF Plannable
    <2> QED
      BY <2>1, PlanNames, Zenon
  <1>8. site.boundary = "none" \/ OverrideUnseen
    BY TyReaches DEF Shows, Answered
  <1>9. ~GroupIn(Selected, "vararg")
    <2> DEFINE arm == Selected
    <2>1. /\ arm \in Seq([name : STRING, group : Groups])
          /\ \/ Where(SignatureOf(arm), "VarPositional") = {}
             \/ 1 \in Positional(arm) /\ Where(Tail(SignatureOf(arm)), "VarPositional") = {}
      BY <1>1, <1>4, SelectedFacts
    <2> HIDE DEF arm
    <2>2. ~GroupIn(arm, "vararg")
      BY <2>1, NoVararg
    <2> QED
      BY <2>2 DEF arm
  <1>10. \A i \in Receiver : i <= n
    <2>1. /\ ShownExplicit <=> Receiver # {}
          /\ Receiver \subseteq {1}
      BY <1>1, ExplicitIs
    <2> QED
      BY <1>2, <1>3, <2>1
  <1>11. CanName(n)
    <2>1. site.boundary # "competing" /\ (site.boundary \in {"none", "competing"} \/ OverrideUnseen)
      BY <1>8 DEF OverrideUnseen
    <2> QED
      BY <1>6, <1>7, <1>9, <1>10, <2>1, Zenon DEF CanName, NamesAfter
  <1>12. ~DunderByName => Visited(n) = {}
    BY <1>3, ShownIsClean
  <1> QED
    BY <1>7, <1>11, <1>12, Zenon DEF NamesAfter

\* What is known of the one definition of a __call__.
DefinedMax == MaxPositional(Signatures[1], "call")

\* A plan that the place of a definition gives.
LEMMA DefinitionNames ==
  ASSUME SiteIsGiven, NamesComeLast, Customary, site.hover = "definition", callee.method = "call",
         Len(callee.arms) = 1, ~TyDeclines, ~TyOverride, ~Unjudged,
         Where(Signatures[1], "VarPositional") = {},
         CanInsert(Signatures[1], "call", DefinedMax, PositionalCount, FALSE, FALSE)
  PROVE  \E n \in 0 .. Len(call.args) :
            /\ Insertions(Signatures[1], "call", DefinedMax, PositionalCount, FALSE, FALSE)
                 = {[at |-> ArgumentStart(call.args, i), name |-> For(i).name] :
                       i \in {j \in ByPosition(call.args) : j > n}}
            /\ CanName(n)
            /\ \E i \in ByPosition(call.args) : i > n
            /\ Visited(n) = {}
  <1> DEFINE n == Start(DefinedMax, FALSE)
             sig == Signatures[1]
  <1>1. site.arm = 1 /\ 1 \in DOMAIN callee.arms /\ Selected = callee.arms[1]
    BY BaseFacts DEF SiteIsGiven, Selected
  <1>2. /\ sig \in Sig /\ sig = SignatureOf(Selected)
        /\ Selected \in Seq([name : STRING, group : Groups])
    BY <1>1, ArmFacts
  <1>3. DefinedMax \in Nat
    BY <1>2, MaxPositionalType DEF DefinedMax
  <1>4. n = DefinedMax
    BY DEF Start
  <1>5. PassedOver = 1 /\ (ReceiverByDefinition \/ Receiver = {})
    BY BaseFacts DEF PassedOver, ReceiverByDefinition, Receiver
  <1>6. Skip(sig, "call", FALSE, FALSE) = 1
    BY DEF Skip
  <1>7. Stands(sig, 1)
    <2> DEFINE arm == Selected
    <2>1. \A i : For(i) = arm[i + 1]
      BY <1>5, Zenon DEF For
    <2> HIDE DEF arm, sig
    <2>2. /\ DOMAIN arm = DOMAIN sig
          /\ \A i \in DOMAIN arm : sig[i].name = arm[i].name /\ sig[i].kind = KindOf(arm[i])
      BY <1>2, SignatureIs DEF arm
    <2> QED
      BY <1>5, <2>1, <2>2 DEF Stands, arm
  <1>8. n \in Nat /\ n = Start(DefinedMax, FALSE)
    BY <1>3, <1>4
  <1> HIDE DEF n, sig
  <1>9. NamesAfter(Insertions(sig, "call", DefinedMax, PositionalCount, FALSE, FALSE), n)
    <2>1. Plannable(sig, "call", DefinedMax, FALSE, FALSE, n)
      <3> DEFINE k == Skip(sig, "call", FALSE, FALSE)
      <3>1. k \in {0, 1} /\ Stands(sig, k)
        BY <1>6, <1>7
      <3>2. CanInsert(sig, "call", DefinedMax, PositionalCount, FALSE, FALSE)
        BY Zenon DEF sig
      <3> QED
        BY <1>8, <3>1, <3>2, Zenon DEF Plannable
    <2> QED
      BY <2>1, PlanNames, Zenon
  <1>10. site.boundary = "none" \/ OverrideUnseen
    BY TyReaches
  <1>11. ~GroupIn(Selected, "vararg")
    <2> DEFINE arm == Selected
    <2>1. arm \in Seq([name : STRING, group : Groups]) /\ Where(SignatureOf(arm), "VarPositional") = {}
      BY <1>2 DEF sig
    <2> HIDE DEF arm
    <2>2. ~GroupIn(arm, "vararg")
      BY <2>1, NoVararg
    <2> QED
      BY <2>2 DEF arm
  <1>12. CanName(n)
    <2>1. site.boundary # "competing" /\ (site.boundary \in {"none", "competing"} \/ OverrideUnseen)
      BY <1>10 DEF OverrideUnseen
    <2>2. ReceiverByDefinition \/ \A i \in Receiver : i <= n
      BY <1>5
    <2> QED
      BY <1>8, <1>9, <1>11, <2>1, <2>2, Zenon DEF CanName, NamesAfter
  <1>13. Visited(n) = {}
    <2>1. Visited(n) = Violation(Signatures, "call", n)
      BY DEF Visited, Answers, MethodAnswered, Mapped, Answered
    <2>2. ~Exceeds(sig, "call", n)
      BY <1>3, <1>4 DEF Exceeds, DefinedMax, sig
    <2>3. 1 \in DOMAIN Signatures
      BY <1>1, EffectiveIs
    <2> QED
      BY <2>1, <2>2, <2>3 DEF Violation, sig
  <1> QED
    BY <1>9, <1>12, <1>13, Zenon DEF NamesAfter, sig

\* The plan as the invariant has it.
SoundPlan(planned) ==
    \/ planned = NestedInsertions(call.args)
    \/ \E n \in 0 .. Len(call.args) :
          /\ planned = NestedInsertions(call.args)
               \cup {[at |-> ArgumentStart(call.args, i), name |-> For(i).name] :
                        i \in {j \in ByPosition(call.args) : j > n}}
          /\ CanName(n)
          /\ \E i \in ByPosition(call.args) : i > n
          /\ ~DunderByName => Visited(n) = {}

\* A plan stays sound as long as the call does.
LEMMA SoundUnchanged ==
  ASSUME UNCHANGED <<callee, site, call>>, SoundPlan(insertions')
  PROVE  PlanIsSound'
  <1>1. /\ Selected' = Selected /\ Supplied(site.base)' = Supplied(site.base)
        /\ Receiver' = Receiver /\ DunderByName' = DunderByName
        /\ OverrideUnseen' = OverrideUnseen /\ ReceiverByDefinition' = ReceiverByDefinition
    BY SiteUnchanged
  <1>2. PassedOver' = PassedOver /\ \A i : For(i)' = For(i)
    BY <1>1 DEF For, PassedOver
  <1>3. Unpacks' <=> Unpacks
    BY DEF Unpacks
  <1>4. \A n : CanName(n)' <=> CanName(n)
    BY <1>1, <1>2, <1>3 DEF CanName
  <1>5. \A n : Visited(n)' = Visited(n)
    <2>1. Signatures' = Signatures
      BY DEF Signatures
    <2>2. Shown(Selected)' = Shown(Selected) /\ Answers' = Answers
      BY <1>1, <2>1 DEF Shown, Answers
    <2>3. /\ MethodShown' = MethodShown /\ MethodAnswered' = MethodAnswered
          /\ Requirement' = Requirement /\ Unjudged' = Unjudged
      BY DEF MethodShown, MethodAnswered, Mapped, HasOwner, Requirement, Unjudged
    <2>4. \A n : IndexedReport(n)' = IndexedReport(n)
      BY <2>1, <2>3 DEF IndexedReport, IsUnbound, IsBoundInstance, Allowance
    <2>5. \A n : Violation(Answers, MethodAnswered, n)' = Violation(Answers, MethodAnswered, n)
      BY <2>2, <2>3 DEF Violation
    <2>6. Stripped(Shown(Selected))' = Stripped(Shown(Selected))
      BY <2>2 DEF Stripped
    <2>7. \A n : TyReport(Shown(Selected), n)' = TyReport(Shown(Selected), n)
      BY <2>2, <2>3, <2>6 DEF TyReport, Violation
    <2> QED
      BY <2>4, <2>5, <2>7 DEF Visited
  <1>6. call' = call
    OBVIOUS
  <1>7. CASE insertions' = NestedInsertions(call.args)
    BY <1>6, <1>7 DEF PlanIsSound
  <1>8. CASE insertions' # NestedInsertions(call.args)
    <2>1. PICK n \in 0 .. Len(call.args) :
            /\ insertions' = NestedInsertions(call.args)
                 \cup {[at |-> ArgumentStart(call.args, i), name |-> For(i).name] :
                          i \in {j \in ByPosition(call.args) : j > n}}
            /\ CanName(n)
            /\ \E i \in ByPosition(call.args) : i > n
            /\ ~DunderByName => Visited(n) = {}
      BY <1>8, Zenon DEF SoundPlan
    <2>2. {[at |-> ArgumentStart(call'.args, i), name |-> For(i)'.name] :
              i \in {j \in ByPosition(call'.args) : j > n}}
            = {[at |-> ArgumentStart(call.args, i), name |-> For(i).name] :
                  i \in {j \in ByPosition(call.args) : j > n}}
      BY <1>2, <1>6, Zenon
    <2>3. /\ n \in 0 .. Len(call'.args)
          /\ insertions' = NestedInsertions(call'.args)
               \cup {[at |-> ArgumentStart(call'.args, i), name |-> For(i)'.name] :
                        i \in {j \in ByPosition(call'.args) : j > n}}
          /\ CanName(n)'
          /\ \E i \in ByPosition(call'.args) : i > n
          /\ ~DunderByName' => Visited(n)' = {}
      BY <1>1, <1>4, <1>5, <1>6, <2>1, <2>2, Zenon
    <2> QED
      BY <2>3, Zenon DEF PlanIsSound
  <1> QED
    BY <1>7, <1>8

\* A visit keeps the invariant.
LEMMA VisitKeeps ==
  ASSUME IInv, phase = "visit", UNCHANGED <<callee, site, call, original>>, phase' = "planned",
         SoundPlan(insertions'), report' = Visited(PositionalCount)
  PROVE  IInv'
  <1>1. SiteIsGiven' /\ (DunderByName' <=> DunderByName)
    BY SiteUnchanged DEF IInv
  <1>2. NamesComeLast'
    BY DEF IInv, NamesComeLast, Unpacks
  <1>3. OverrideUnseen' \/ ReceiverByDefinition' \/ Keeps(original, call)'
    BY SiteUnchanged, KeepsUnchanged DEF IInv
  <1>4. PlanIsSound'
    BY SoundUnchanged
  <1>5. NamedIsClean'
    BY DEF NamedIsClean
  <1>6. FixIsFinal'
    BY <1>1 DEF FixIsFinal, IInv, NamedIsClean
  <1>7. ReportIsVisited'
    <2>1. PositionalCount' = PositionalCount
      BY DEF PositionalCount
    <2> QED
      BY <2>1, VisitedUnchanged, Zenon DEF ReportIsVisited
  <1> QED
    BY <1>1, <1>2, <1>3, <1>4, <1>5, <1>6, <1>7 DEF IInv

\* A plan made of these insertions.
LEMMA PlanFacts ==
  ASSUME NEW edits, NEW declines, Plan(edits, declines)
  PROVE  /\ insertions' = NestedInsertions(call.args) \cup edits
         /\ phase' = "planned" /\ UNCHANGED <<callee, site, call, original>>
  BY DEF Plan

\* A plan without names is sound.
LEMMA NoNames ==
  ASSUME insertions' = NestedInsertions(call.args) \cup {}
  PROVE  SoundPlan(insertions')
  BY DEF SoundPlan

\* The maximum of the one report.
LEMMA TheReport ==
  ASSUME NEW R, NEW c, NEW m, R = {[count |-> c, max |-> m]}
  PROVE  (CHOOSE r \in R : TRUE).max = m
  <1> DEFINE x == [count |-> c, max |-> m]
             r == CHOOSE r \in R : TRUE
  <1>1. x \in R /\ \A y \in R : y = x
    OBVIOUS
  <1>2. r \in R
    BY <1>1, Zenon
  <1>3. r = x
    BY <1>1, <1>2, Zenon
  <1>4. x.max = m
    OBVIOUS
  <1> HIDE DEF r, x
  <1>5. r.max = m
    BY <1>3, <1>4
  <1> QED
    BY <1>5 DEF r

\* A visit with one definition in the index (Judge).
LEMMA JudgeStep ==
  ASSUME Customary, IInv, Judge
  PROVE  IInv'
  <1>1. /\ phase = "visit" /\ site.hover = "none" /\ Len(callee.arms) = 1
        /\ report' = IndexedReport(PositionalCount)
    BY DEF Judge
  <1>2. SiteIsGiven /\ NamesComeLast
    BY DEF IInv
  <1>3. report' = Visited(PositionalCount)
    BY <1>1 DEF Visited, Answered
  <1>4. CASE report' = {}
    <2>1. Plan({}, FALSE)
      BY <1>4, Zenon DEF Judge
    <2> QED
      BY <1>1, <1>3, <2>1, PlanFacts, NoNames, VisitKeeps
  <1>5. CASE report' # {}
    <2> DEFINE r == CHOOSE r \in report' : TRUE
    <2>1. r.max = IndexedMax
      <3>1. report' = {[count |-> Count(PositionalCount), max |-> IndexedMax]}
        BY <1>1, <1>5, IndexedReportIs, Zenon
      <3> QED
        BY <3>1, TheReport, Zenon
    <2> HIDE DEF r
    <2>2. First = FirstName(Signatures[1])
      BY DEF First
    <2>3. \/ /\ ~IndexedDeclines
             /\ CanInsert(Signatures[1], callee.method, r.max, PositionalCount, Explicit, IsAttribute)
             /\ Plan(Insertions(Signatures[1], callee.method, r.max, PositionalCount, Explicit,
                                IsAttribute), FALSE)
          \/ Plan({}, TRUE)
      BY <1>5, Zenon DEF Judge, r, Explicit, First
    <2>4. CASE Plan({}, TRUE)
      BY <1>1, <1>3, <2>4, PlanFacts, NoNames, VisitKeeps
    <2>5. CASE /\ ~IndexedDeclines
               /\ CanInsert(Signatures[1], callee.method, r.max, PositionalCount, Explicit,
                            IsAttribute)
               /\ Plan(Insertions(Signatures[1], callee.method, r.max, PositionalCount, Explicit,
                                  IsAttribute), FALSE)
      <3> DEFINE edits == Insertions(Signatures[1], callee.method, IndexedMax, PositionalCount,
                                     Explicit, IsAttribute)
      <3>1. Plan(edits, FALSE)
        BY <2>1, <2>5, Zenon
      <3>2. \E n \in 0 .. Len(call.args) :
               /\ edits = {[at |-> ArgumentStart(call.args, i), name |-> For(i).name] :
                              i \in {j \in ByPosition(call.args) : j > n}}
               /\ CanName(n)
               /\ \E i \in ByPosition(call.args) : i > n
               /\ ~DunderByName => Visited(n) = {}
        <4>1. IndexedReport(PositionalCount) # {} /\ ~IndexedDeclines
          BY <1>1, <1>5, <2>5
        <4>2. CanInsert(Signatures[1], callee.method, IndexedMax, PositionalCount, Explicit,
                        IsAttribute)
          BY <2>1, <2>5, Zenon
        <4> QED
          BY <1>1, <1>2, <4>1, <4>2, JudgeNames, Zenon
      <3> HIDE DEF edits
      <3>3. /\ insertions' = NestedInsertions(call.args) \cup edits
            /\ phase' = "planned" /\ UNCHANGED <<callee, site, call, original>>
        BY <3>1, PlanFacts
      <3>4. SoundPlan(insertions')
        BY <3>2, <3>3, Zenon DEF SoundPlan
      <3> QED
        BY <1>1, <1>3, <3>3, <3>4, VisitKeeps
    <2> QED
      BY <2>3, <2>4, <2>5, Zenon
  <1> QED
    BY <1>4, <1>5

\* What the plan of a call that ty shows does.
LEMMA TyPlanKeeps ==
  ASSUME Customary, IInv, phase = "visit", Shows, ~Unjudged,
         Len(callee.arms) = 1 \/ callee.kind \in {"function", "staticmethod"},
         Where(ShownEffective, "VarPositional") = {}, report' = Visited(PositionalCount),
         TyPlan(ShownSignature, "plain", ShownMax, ShownExplicit)
  PROVE  IInv'
  <1>1. SiteIsGiven /\ NamesComeLast
    BY DEF IInv
  <1> DEFINE edits == Insertions(ShownSignature, "plain", ShownMax, PositionalCount,
                                 ShownExplicit, FALSE)
  <1>2. \/ Plan({}, TRUE)
        \/ /\ ~TyDeclines /\ ~TyOverride /\ callee.method \notin Descriptors
           /\ CanInsert(ShownSignature, "plain", ShownMax, PositionalCount, ShownExplicit, FALSE)
           /\ Plan(edits, FALSE)
    BY Zenon DEF TyPlan
  <1>3. CASE Plan({}, TRUE)
    BY <1>3, PlanFacts, NoNames, VisitKeeps
  <1>4. CASE /\ ~TyDeclines /\ ~TyOverride /\ callee.method \notin Descriptors
             /\ CanInsert(ShownSignature, "plain", ShownMax, PositionalCount, ShownExplicit, FALSE)
             /\ Plan(edits, FALSE)
    <2>1. \E n \in 0 .. Len(call.args) :
             /\ edits = {[at |-> ArgumentStart(call.args, i), name |-> For(i).name] :
                            i \in {j \in ByPosition(call.args) : j > n}}
             /\ CanName(n)
             /\ \E i \in ByPosition(call.args) : i > n
             /\ ~DunderByName => Visited(n) = {}
      BY <1>1, <1>4, TyNames, Zenon
    <2> HIDE DEF edits
    <2>2. /\ insertions' = NestedInsertions(call.args) \cup edits
          /\ phase' = "planned" /\ UNCHANGED <<callee, site, call, original>>
      BY <1>4, PlanFacts
    <2>3. SoundPlan(insertions')
      BY <2>1, <2>2, Zenon DEF SoundPlan
    <2> QED
      BY <2>2, <2>3, VisitKeeps
  <1> QED
    BY <1>2, <1>3, <1>4, Zenon

\* A visit of a callable that ty shows (Resolve).
LEMMA ResolveStep ==
  ASSUME Customary, IInv, Resolve
  PROVE  IInv'
  <1>1. /\ phase = "visit" /\ Shows /\ Len(callee.arms) = 1
        /\ report' = TyReport(ShownSignature, PositionalCount)
        /\ IF report' = {} THEN Plan({}, FALSE)
           ELSE TyPlan(ShownSignature, MethodShown, (CHOOSE r \in report' : TRUE).max, ShownExplicit)
    BY Zenon DEF Resolve, Shows, ShownSignature, ShownExplicit
  <1>2. report' = Visited(PositionalCount)
    BY <1>1 DEF Visited, Shows, ShownSignature
  <1>3. SiteIsGiven /\ MethodShown = "plain"
    BY MethodIs DEF IInv
  <1>4. CASE report' = {}
    BY <1>1, <1>2, <1>4, PlanFacts, NoNames, VisitKeeps
  <1>5. CASE report' # {}
    <2>1. report' =
             IF Unjudged \/ ~Exceeds(ShownEffective, "plain", ShownCount(PositionalCount)) THEN {}
             ELSE {[count |-> ShownCount(PositionalCount), max |-> ShownMax]}
      BY <1>1, <1>3, TyReportIs, Zenon
    <2>2. /\ ~Unjudged /\ Exceeds(ShownEffective, "plain", ShownCount(PositionalCount))
          /\ report' = {[count |-> ShownCount(PositionalCount), max |-> ShownMax]}
      BY <1>5, <2>1, Zenon
    <2>3. (CHOOSE r \in report' : TRUE).max = ShownMax
      BY <2>2, TheReport, Zenon
    <2>4. TyPlan(ShownSignature, "plain", ShownMax, ShownExplicit)
      BY <1>1, <1>3, <1>5, <2>3, Zenon
    <2>5. Where(ShownEffective, "VarPositional") = {}
      BY <2>2, Zenon DEF Exceeds
    <2> QED
      BY <1>1, <1>2, <2>2, <2>4, <2>5, TyPlanKeeps
  <1> QED
    BY <1>4, <1>5

\* A visit of what ty knows in another way (ResolveAnswer).
LEMMA ResolveAnswerStep ==
  ASSUME Customary, IInv, ResolveAnswer
  PROVE  IInv'
  <1> DEFINE m == (CHOOSE r \in report' : TRUE).max
             planned == site.hover = "definition" /\ callee.method = "call" /\ Len(callee.arms) = 1
  <1>1. /\ phase = "visit" /\ site.hover \in Answered
        /\ report' = Violation(Answers, MethodAnswered, PositionalCount)
        /\ IF report' = {} THEN Plan({}, FALSE)
           ELSE IF planned THEN TyPlan(Answers[1], MethodAnswered, m, FALSE)
                ELSE Plan({}, TRUE)
    BY Zenon DEF ResolveAnswer
  <1>2. report' = Visited(PositionalCount)
    BY <1>1 DEF Visited
  <1>3. SiteIsGiven /\ NamesComeLast
    BY DEF IInv
  <1>4. CASE Plan({}, FALSE) \/ Plan({}, TRUE)
    BY <1>1, <1>2, <1>4, PlanFacts, NoNames, VisitKeeps
  <1>5. CASE report' # {} /\ planned /\ TyPlan(Answers[1], MethodAnswered, m, FALSE)
    <2>1. Answers = Signatures /\ MethodAnswered = "call"
      BY <1>5 DEF Answers, MethodAnswered, Mapped
    <2> DEFINE sig == Signatures[1]
    <2>2. sig \in Sig /\ Signatures = <<sig>>
      <3>1. 1 \in DOMAIN callee.arms
        BY <1>3, BaseFacts
      <3>2. sig \in Sig
        BY <1>3, <3>1, ArmFacts
      <3>3. DOMAIN callee.arms = 1 .. 1
        BY <1>3, <1>5, BaseFacts
      <3>4. \A i \in 1 .. 1 : i = 1
        OBVIOUS
      <3>5. Signatures = [i \in 1 .. 1 |-> SignatureOf(callee.arms[i])]
        BY <3>3 DEF Signatures
      <3>6. \A x : [i \in 1 .. 1 |-> x] = <<x>>
        OBVIOUS
      <3>7. [i \in 1 .. 1 |-> SignatureOf(callee.arms[i])] = [i \in 1 .. 1 |-> SignatureOf(callee.arms[1])]
        BY <3>4
      <3>8. Signatures = <<SignatureOf(callee.arms[1])>>
        BY <3>5, <3>6, <3>7, Zenon
      <3>9. sig = SignatureOf(callee.arms[1])
        BY <3>3, <3>4, <3>5
      <3> QED
        BY <3>2, <3>8, <3>9, Zenon
    <2> HIDE DEF sig
    <2>3. report' = IF Unjudged \/ ~Exceeds(sig, "call", PositionalCount) THEN {}
                    ELSE {[count |-> PositionalCount, max |-> MaxPositional(sig, "call")]}
      BY <1>1, <2>1, <2>2, ViolationIs, Zenon
    <2>4. /\ ~Unjudged /\ Exceeds(sig, "call", PositionalCount)
          /\ report' = {[count |-> PositionalCount, max |-> MaxPositional(sig, "call")]}
      BY <1>5, <2>3, Zenon
    <2>5. m = DefinedMax
      BY <2>4, TheReport, Zenon DEF DefinedMax, sig
    <2> HIDE DEF m, planned
    <2>6. TyPlan(Signatures[1], "call", DefinedMax, FALSE)
      BY <1>5, <2>1, <2>5, Zenon
    <2> DEFINE edits == Insertions(Signatures[1], "call", DefinedMax, PositionalCount, FALSE, FALSE)
    <2>7. \/ Plan({}, TRUE)
          \/ /\ ~TyDeclines /\ ~TyOverride
             /\ CanInsert(Signatures[1], "call", DefinedMax, PositionalCount, FALSE, FALSE)
             /\ Plan(edits, FALSE)
      BY <2>6, Zenon DEF TyPlan
    <2>8. CASE Plan({}, TRUE)
      BY <1>1, <1>2, <2>8, PlanFacts, NoNames, VisitKeeps
    <2>9. CASE /\ ~TyDeclines /\ ~TyOverride
               /\ CanInsert(Signatures[1], "call", DefinedMax, PositionalCount, FALSE, FALSE)
               /\ Plan(edits, FALSE)
      <3>1. Where(Signatures[1], "VarPositional") = {}
        BY <2>4, Zenon DEF Exceeds, sig
      <3>2. \E n \in 0 .. Len(call.args) :
               /\ edits = {[at |-> ArgumentStart(call.args, i), name |-> For(i).name] :
                              i \in {j \in ByPosition(call.args) : j > n}}
               /\ CanName(n)
               /\ \E i \in ByPosition(call.args) : i > n
               /\ Visited(n) = {}
        BY <1>3, <1>5, <2>4, <2>9, <3>1, DefinitionNames, Zenon DEF planned
      <3> HIDE DEF edits
      <3>3. /\ insertions' = NestedInsertions(call.args) \cup edits
            /\ phase' = "planned" /\ UNCHANGED <<callee, site, call, original>>
        BY <2>9, PlanFacts
      <3>4. SoundPlan(insertions')
        BY <3>2, <3>3, Zenon DEF SoundPlan
      <3> QED
        BY <1>1, <1>2, <3>3, <3>4, VisitKeeps
    <2> QED
      BY <2>7, <2>8, <2>9, Zenon
  <1> QED
    BY <1>1, <1>4, <1>5, Zenon

\* A visit of an overload, judged by the index or by the arm ty selects.
LEMMA OverloadedStep ==
  ASSUME Customary, IInv, JudgeOverloaded
  PROVE  IInv'
  <1>1. /\ phase = "visit" /\ Len(callee.arms) > 1 /\ site.hover \notin Answered
        /\ report' = IndexedReport(PositionalCount)
        /\ \/ Plan({}, FALSE) \/ Plan({}, TRUE)
           \/ report' # {} /\ Shows /\ SelectArm(ShownSignature)
    <2>1. /\ phase = "visit" /\ Len(callee.arms) > 1 /\ site.hover \notin Answered
          /\ report' = IndexedReport(PositionalCount)
      BY Zenon DEF JudgeOverloaded
    <2>2. IF report' = {} THEN Plan({}, FALSE)
          ELSE IF site.hover = "none" THEN Plan({}, TRUE) ELSE SelectArm(ShownSignature)
      BY Zenon DEF JudgeOverloaded, ShownSignature
    <2>3. CASE report' = {}
      BY <2>1, <2>2, <2>3, Zenon
    <2>4. CASE report' # {} /\ site.hover = "none"
      BY <2>1, <2>2, <2>4, Zenon
    <2>5. CASE report' # {} /\ site.hover # "none"
      <3>1. Shows
        BY <2>1, <2>5 DEF Shows
      <3> QED
        BY <2>1, <2>2, <2>5, <3>1, Zenon
    <2> QED
      BY <2>3, <2>4, <2>5, Zenon
  <1>2. SiteIsGiven
    BY DEF IInv
  <1>3. report' = Visited(PositionalCount)
    <2>1. Len(callee.arms) # 1
      <3>1. Len(callee.arms) \in Nat \ {0}
        BY <1>2, BaseFacts
      <3>2. Len(callee.arms) > 1
        BY <1>1, Zenon
      <3>3. \A n \in Nat : n > 1 => n # 1
        OBVIOUS
      <3> QED
        BY <3>1, <3>2, <3>3, Zenon
    <2> QED
      BY <1>1, <2>1, Zenon DEF Visited
  <1>4. CASE Plan({}, FALSE) \/ Plan({}, TRUE)
    BY <1>1, <1>3, <1>4, PlanFacts, NoNames, VisitKeeps
  <1>5. CASE report' # {} /\ Shows /\ SelectArm(ShownSignature)
    <2> DEFINE method == Mapped(HasOwner \/ site.hover = "type")
               max == MaxPositional(ShownEffective, method)
    <2>1. \/ Plan({}, TRUE)
          \/ /\ Unambiguous(ShownEffective)
             /\ Exceeds(ShownEffective, method, ShownCount(PositionalCount))
             /\ TyPlan(ShownSignature, method, max, ShownExplicit)
      BY <1>5, Zenon DEF SelectArm, ShownExplicit, ShownEffective, ShownCount
    <2>2. CASE Plan({}, TRUE)
      BY <1>1, <1>3, <2>2, PlanFacts, NoNames, VisitKeeps
    <2>3. CASE /\ Unambiguous(ShownEffective)
               /\ Exceeds(ShownEffective, method, ShownCount(PositionalCount))
               /\ TyPlan(ShownSignature, method, max, ShownExplicit)
      <3>1. callee.kind \in {"function", "staticmethod"} /\ callee.method = "plain"
        BY <1>2, <1>5, <2>3, UnambiguousIs
      <3>2. method = "plain" /\ max = ShownMax
        BY <3>1 DEF Mapped, ShownMax
      <3> HIDE DEF method, max
      <3>3. Where(ShownEffective, "VarPositional") = {}
        BY <2>3, Zenon DEF Exceeds
      <3>4. TyPlan(ShownSignature, "plain", ShownMax, ShownExplicit)
        BY <2>3, <3>2, Zenon
      <3>5. ~Unjudged
        BY <1>1, <1>5, IndexedReportIs
      <3> QED
        BY <1>1, <1>3, <1>5, <3>1, <3>3, <3>4, <3>5, TyPlanKeeps
    <2> QED
      BY <2>1, <2>2, <2>3, Zenon
  <1> QED
    BY <1>1, <1>4, <1>5, Zenon

\* Splicing leaves the call and its plan alone.
LEMMA RewriteStep ==
  ASSUME IInv, Rewrite
  PROVE  IInv'
  <1>1. /\ phase = "planned" /\ phase' = "spliced"
        /\ UNCHANGED <<callee, site, call, original, insertions>>
    BY DEF Rewrite
  <1>2. SiteIsGiven'
    BY <1>1, SiteUnchanged DEF IInv
  <1>3. NamesComeLast'
    BY <1>1 DEF IInv, NamesComeLast, Unpacks
  <1>4. OverrideUnseen' \/ ReceiverByDefinition' \/ Keeps(original, call)'
    BY <1>1, SiteUnchanged, KeepsUnchanged DEF IInv
  <1>5. SoundPlan(insertions)
    BY <1>1, Zenon DEF IInv, PlanIsSound, SoundPlan
  <1>6. PlanIsSound'
    BY <1>1, <1>5, SoundUnchanged
  <1> QED
    BY <1>1, <1>2, <1>3, <1>4, <1>6 DEF IInv, NamedIsClean, FixIsFinal, ReportIsVisited

(***************************************************************************)
(* The invariant                                                           *)
(***************************************************************************)
\* A call is given without names, and keeps its own meaning.
LEMMA InitHolds ==
  ASSUME Init
  PROVE  IInv
  <1>1. PICK base \in Bases, s \in Situations, arm \in DOMAIN callee.arms :
          /\ Reachable(callee, base) /\ Possible(callee, base, s.boundary)
          /\ \E hover \in Hovers(base) :
                /\ Askable(base, s.boundary, hover)
                /\ site = [base |-> base, boundary |-> s.boundary, hover |-> hover, arm |-> arm]
          /\ call = [args |-> [i \in DOMAIN s.shapes |->
                                 [shape |-> s.shapes[i], name |-> NoName, fixed |-> FALSE]],
                     keywords |-> s.keywords]
    BY Zenon DEF Init
  <1>2. callee \in Callees /\ original = call /\ phase = "visit"
    BY DEF Init
  <1>3. /\ s.shapes \in Seq(AllShapes) /\ s.keywords \in SUBSET STRING
        /\ s.boundary \in AllBoundaries
    BY InputsAssumption
  <1>4. SiteIsGiven
    <2>1. PICK hover \in Hovers(base) :
                /\ Askable(base, s.boundary, hover)
                /\ site = [base |-> base, boundary |-> s.boundary, hover |-> hover, arm |-> arm]
      BY <1>1, Zenon
    <2>2. /\ site.base = base /\ site.boundary = s.boundary /\ site.hover = hover
          /\ site.arm = arm
      BY <2>1
    <2> QED
      BY <1>1, <1>2, <1>3, <2>1, <2>2 DEF SiteIsGiven
  <1> DEFINE arg(i) == [shape |-> s.shapes[i], name |-> NoName, fixed |-> FALSE]
  <1>5. \A i \in DOMAIN s.shapes : /\ arg(i) \in Arg /\ arg(i).name = NoName
    <2> SUFFICES ASSUME NEW i \in DOMAIN s.shapes
                 PROVE  /\ arg(i) \in Arg /\ arg(i).name = NoName
      OBVIOUS
    <2> DEFINE sh == s.shapes[i]
    <2>1. sh \in AllShapes
      BY <1>3, ElementOfSeq, LenProperties
    <2> HIDE DEF sh
    <2>2. [shape |-> sh, name |-> NoName, fixed |-> FALSE] \in Arg
      <3> FALSE \in BOOLEAN /\ NoName \in STRING \cup {NoName}
        OBVIOUS
      <3> QED
        BY <2>1, Zenon DEF Arg
    <2>3. [shape |-> sh, name |-> NoName, fixed |-> FALSE].name = NoName
      BY Zenon
    <2> QED
      BY <2>2, <2>3, Zenon DEF sh
  <1>6. call = [args |-> [i \in DOMAIN s.shapes |-> arg(i)], keywords |-> s.keywords]
    BY <1>1, Zenon
  <1> HIDE DEF arg
  <1> DEFINE args == [i \in DOMAIN s.shapes |-> arg(i)]
  <1>7. args \in Seq(Arg) /\ \A i \in DOMAIN args : args[i].name = NoName
    <2>1. DOMAIN s.shapes = 1 .. Len(s.shapes) /\ Len(s.shapes) \in Nat
      BY <1>3, LenProperties
    <2>2. args \in [1 .. Len(s.shapes) -> Arg]
      BY <1>5, <2>1
    <2>3. \A i \in DOMAIN args : args[i].name = NoName
      BY <1>5
    <2> HIDE DEF args
    <2> QED
      BY <2>1, <2>2, <2>3, FcnIsSeq
  <1>8. call.args = args /\ call.keywords = s.keywords
    BY <1>6
  <1> HIDE DEF args
  <1>9. call \in [args : Seq(Arg), keywords : {s.keywords}]
    BY <1>6, <1>7 DEF args
  <1>10. \A i \in DOMAIN call.args : call.args[i].name = NoName
    BY <1>7, <1>8
  <1>11. NamesComeLast
    BY <1>2, <1>3, <1>8, <1>9, <1>10 DEF NamesComeLast
  <1>12. Keeps(original, call)
    <2>1. \A i \in MustStay(call.args) \cup (Receiver \cap DOMAIN call.args) :
             call.args[i].name = NoName
      BY <1>10 DEF MustStay, ByPosition
    <2> QED
      BY <1>2, <2>1, Zenon DEF Keeps
  <1>13. PlanIsSound /\ FixIsFinal
    BY <1>2 DEF PlanIsSound, FixIsFinal
  <1>14. NamedIsClean
    BY <1>10 DEF NamedIsClean
  <1> QED
    BY <1>2, <1>4, <1>11, <1>12, <1>13, <1>14 DEF IInv, ReportIsVisited

\* Every step keeps the invariant.
LEMMA NextHolds ==
  ASSUME Customary, IInv, [Next]_vars
  PROVE  IInv'
  <1>1. CASE Judge
    BY <1>1, JudgeStep
  <1>2. CASE Resolve
    BY <1>2, ResolveStep
  <1>3. CASE JudgeOverloaded
    BY <1>3, OverloadedStep
  <1>7. CASE ResolveAnswer
    BY <1>7, ResolveAnswerStep
  <1>4. CASE Rewrite
    BY <1>4, RewriteStep
  <1>5. CASE Reread
    BY <1>5, RereadStep
  <1>6. CASE UNCHANGED vars
    <2>1. UNCHANGED <<callee, site, call, original, phase, insertions, report>>
      BY <1>6 DEF vars
    <2>2. SiteIsGiven' /\ (DunderByName' <=> DunderByName)
      BY <2>1, SiteUnchanged DEF IInv
    <2>3. NamesComeLast'
      BY <2>1 DEF IInv, NamesComeLast, Unpacks
    <2>4. OverrideUnseen' \/ ReceiverByDefinition' \/ Keeps(original, call)'
      BY <2>1, SiteUnchanged, KeepsUnchanged DEF IInv
    <2>5. PlanIsSound'
      <3>1. CASE phase \in {"planned", "spliced"}
        <4>1. SoundPlan(insertions')
          BY <2>1, <3>1, Zenon DEF IInv, PlanIsSound, SoundPlan
        <4> QED
          BY <2>1, <4>1, SoundUnchanged
      <3>2. CASE phase \notin {"planned", "spliced"}
        BY <2>1, <3>2 DEF PlanIsSound
      <3> QED
        BY <3>1, <3>2
    <2>6. NamedIsClean' /\ ReportIsVisited'
      <3>1. PositionalCount' = PositionalCount
        BY <2>1 DEF PositionalCount
      <3>2. Visited(PositionalCount)' = Visited(PositionalCount)
        BY <2>1, <3>1, VisitedUnchanged
      <3> QED
        BY <2>1, <2>2, <3>2 DEF IInv, NamedIsClean, ReportIsVisited
    <2>7. FixIsFinal'
      BY <2>1, <2>2 DEF IInv, FixIsFinal
    <2> QED
      BY <2>1, <2>2, <2>3, <2>4, <2>5, <2>6, <2>7 DEF IInv
  <1> QED
    BY <1>1, <1>2, <1>3, <1>4, <1>5, <1>6, <1>7 DEF Next

(***************************************************************************)
(* What may be reported                                                    *)
(***************************************************************************)
\* The parameters of a definition that only take what is passed by position, its
\* receiver aside.
Leading == IF callee.kind \in {"classmethod", "method"} THEN 1 ELSE 0
Only(arm) == {x \in DOMAIN arm : x > Leading /\ KindOf(arm[x]) = "PositionalOnly"}

\* A set of numbers after b, with all below each, has the first c after b if it has as
\* many members.
LEMMA FirstOf ==
  ASSUME NEW b \in Nat, NEW n \in Nat, NEW T \in SUBSET (b + 1 .. n),
         \A x \in T : \A y \in b + 1 .. x : y \in T,
         NEW c \in Nat, c <= Cardinality(T)
  PROVE  b + 1 .. b + c \subseteq T
  <1> SUFFICES ASSUME NEW y \in b + 1 .. b + c, y \notin T
               PROVE  FALSE
    OBVIOUS
  <1>1. T \subseteq b + 1 .. y - 1
    OBVIOUS
  <1>2. /\ IsFiniteSet(b + 1 .. y - 1)
        /\ Cardinality(b + 1 .. y - 1) = IF b + 1 > y - 1 THEN 0 ELSE (y - 1) - (b + 1) + 1
    <2>1. b + 1 \in Int /\ y - 1 \in Int
      OBVIOUS
    <2> QED
      BY <2>1, FS_Interval
  <1>3. IsFiniteSet(T) /\ Cardinality(T) <= Cardinality(b + 1 .. y - 1)
    BY <1>1, <1>2, FS_Subset
  <1>4. Cardinality(T) \in Nat
    BY <1>3, FS_CardinalityType
  <1>5. Cardinality(b + 1 .. y - 1) < c
    BY <1>2
  <1>6. Cardinality(b + 1 .. y - 1) \in Nat
    BY <1>2, FS_CardinalityType
  <1> QED
    BY <1>3, <1>4, <1>5, <1>6

\* Numbers moved by k are as many.
LEMMA ShiftedCardinality ==
  ASSUME NEW n \in Nat, NEW S \in SUBSET (1 .. n), NEW k \in Nat, NEW T,
         \A i \in S : i + k \in T, \A x \in T : x \in Nat /\ x - k \in S
  PROVE  IsFiniteSet(S) /\ IsFiniteSet(T) /\ Cardinality(S) = Cardinality(T)
  <1> DEFINE f == [i \in S |-> i + k]
  <1>1. IsFiniteSet(S)
    <2> IsFiniteSet(1 .. n)
      BY FS_Interval
    <2> QED
      BY FS_Subset
  <1>2. f \in Injection(S, T)
    BY DEF Injection, IsInjective
  <1>3. f \in Surjection(S, T)
    <2>1. \A x \in T : x - k \in S /\ f[x - k] = x
      OBVIOUS
    <2>2. f \in [S -> T]
      OBVIOUS
    <2> HIDE DEF f
    <2> QED
      BY <2>1, <2>2 DEF Surjection
  <1> HIDE DEF f
  <1>4. ExistsBijection(S, T)
    BY <1>2, <1>3 DEF ExistsBijection, Bijection
  <1> QED
    BY <1>1, <1>4, FS_Bijection

\* Those parameters come first among the ones that are not supplied.
LEMMA OnlyComeFirst ==
  ASSUME SiteIsGiven, Customary, PrivateComeFirst, NEW i \in DOMAIN callee.arms
  PROVE  LET arm == callee.arms[i]
         IN /\ Only(arm) \in SUBSET (Leading + 1 .. Len(arm)) /\ Len(arm) \in Nat
            /\ DOMAIN arm = 1 .. Len(arm)
            /\ \A x \in Only(arm) : \A y \in Leading + 1 .. x : y \in Only(arm)
            /\ IsFiniteSet(Only(arm)) /\ Cardinality(Only(arm)) \in Nat
  <1> DEFINE arm == callee.arms[i]
  <1>1. arm \in Seq([name : STRING, group : Groups]) /\ Legal(arm)
    BY ArmFacts
  <1>2. /\ callee \in Callees
        /\ \A j \in DOMAIN arm : arm[j].group = "args" /\ arm[j].name \in Private =>
              \A k \in 1 .. j - 1 :
                  \/ arm[k].group = "posonly" \/ arm[k].name \in Private
                  \/ k = 1 /\ callee.kind \in {"classmethod", "method"}
    BY DEF SiteIsGiven, PrivateComeFirst
  <1> HIDE DEF arm
  <1>3. DOMAIN arm = 1 .. Len(arm) /\ Len(arm) \in Nat
    BY <1>1, LenProperties
  <1>4. Leading \in {0, 1} /\ (callee.kind \in {"classmethod", "method"} => Leading = 1)
    BY DEF Leading
  <1>5. Only(arm) \in SUBSET (Leading + 1 .. Len(arm))
    BY <1>3, <1>4 DEF Only
  <1>6. ASSUME NEW x \in Only(arm), NEW y \in Leading + 1 .. x
        PROVE  y \in Only(arm)
    <2>1. /\ x \in 1 .. Len(arm) /\ x > Leading /\ KindOf(arm[x]) = "PositionalOnly"
          /\ y \in 1 .. Len(arm) /\ y > Leading /\ y <= x
      BY <1>3, <1>4 DEF Only
    <2>2. arm[x] \in [name : STRING, group : Groups] /\ arm[y] \in [name : STRING, group : Groups]
      BY <1>1, <1>3, <2>1, ElementOfSeq
    <2>3. CASE y = x
      BY <2>3
    <2>4. CASE y < x
      <3>1. Rank[arm[y].group] <= Rank[arm[x].group]
        BY <1>1, <1>3, <2>1, <2>4 DEF Legal
      <3>2. \/ arm[x].group = "posonly"
            \/ arm[x].group = "args" /\ arm[x].name \in Private
        BY <2>1, <2>2, KindFacts DEF KindOf
      <3>3. arm[y].group = "posonly" \/ (arm[y].group = "args" /\ arm[x].group = "args")
        <4>1. /\ arm[y].group \in {"posonly", "args", "vararg", "kwonly", "kwarg"}
              /\ arm[x].group \in {"posonly", "args"}
          BY <2>2, <3>2, KindFacts
        <4>2. /\ Rank["posonly"] = 1 /\ Rank["args"] = 2 /\ Rank["vararg"] = 3
              /\ Rank["kwonly"] = 4 /\ Rank["kwarg"] = 5
          BY DEF Rank
        <4>3. arm[y].group \notin {"vararg", "kwonly", "kwarg"}
          BY <3>1, <4>1, <4>2
        <4>4. arm[x].group = "posonly" => arm[y].group # "args"
          BY <3>1, <4>2
        <4> QED
          BY <4>1, <4>3, <4>4
      <3>4. arm[y].group = "args" => arm[y].name \in Private
        <4> SUFFICES ASSUME arm[y].group = "args"
                     PROVE  arm[y].name \in Private
          OBVIOUS
        <4>1. y \in 1 .. x - 1 /\ ~(y = 1 /\ callee.kind \in {"classmethod", "method"})
          BY <1>4, <2>1, <2>4
        <4> QED
          BY <1>2, <1>3, <2>1, <3>2, <3>3, <4>1
      <3>5. KindOf(arm[y]) = "PositionalOnly"
        BY <3>3, <3>4 DEF KindOf
      <3> QED
        BY <1>3, <2>1, <3>5 DEF Only
    <2> QED
      BY <2>1, <2>3, <2>4
  <1>7. IsFiniteSet(Only(arm)) /\ Cardinality(Only(arm)) \in Nat
    <2>1. IsFiniteSet(Leading + 1 .. Len(arm))
      BY <1>3, <1>4, FS_Interval
    <2> QED
      BY <1>5, <2>1, FS_Subset, FS_CardinalityType
  <1> QED
    BY <1>3, <1>5, <1>6, <1>7 DEF arm

\* Without *args the maximum is the number of those parameters.
LEMMA MaxIsOnly ==
  ASSUME NEW signature, NEW method, method \in {"plain", "init", "call"},
         Where(signature, "VarPositional") = {}
  PROVE  MaxPositional(signature, method)
           = Cardinality({x \in DOMAIN signature \ (IF method \in {"init", "call"} THEN {1} ELSE {}) :
                             signature[x].kind = "PositionalOnly"})
  <1>1. ~DescriptorSelf(signature, method) /\ method # "descriptor"
    BY DEF DescriptorSelf, Descriptors
  <1> QED
    BY <1>1 DEF MaxPositional

\* A definition without *args takes by position only what these are, and a receiver that
\* is neither passed over nor of a name that may be given.
LEMMA RoomOf ==
  ASSUME SiteIsGiven, Customary, PrivateComeFirst, NEW i \in DOMAIN callee.arms,
         ~GroupIn(callee.arms[i], "vararg")
  PROVE  LET arm == callee.arms[i]
             sig == SignatureOf(arm)
         IN /\ Where(sig, "VarPositional") = {}
            /\ Leading = 1 =>
                  /\ Where(Tail(sig), "VarPositional") = {}
                  /\ MaxPositional(Tail(sig), "plain") = Cardinality(Only(arm))
                  /\ MaxPositional(sig, "init") = Cardinality(Only(arm))
                  /\ MaxPositional(sig, "call") = Cardinality(Only(arm))
            /\ Cardinality(Only(arm)) <= MaxPositional(sig, "plain")
            /\ Leading = 0 \/ arm[1].group # "posonly" =>
                  MaxPositional(sig, "plain") = Cardinality(Only(arm))
            /\ MaxPositional(sig, "plain") <= Cardinality(Only(arm)) + 1
  <1> DEFINE arm == callee.arms[i]
             sig == SignatureOf(arm)
  <1>1. /\ arm \in Seq([name : STRING, group : Groups])
        /\ Leading = 1 => 1 \in Positional(arm) /\ arm[1].name \in {"self", "cls"}
    <2>1. Leading = 1 => callee.kind \in {"classmethod", "method"}
      BY DEF Leading
    <2>2. callee.kind \in {"classmethod", "method"} =>
             1 \in Positional(arm) /\ arm[1].name \in {"self", "cls"}
      BY DEF SiteIsGiven, Customary
    <2> QED
      BY <2>1, <2>2, ArmFacts
  <1>2. ~GroupIn(arm, "vararg")
    OBVIOUS
  <1>3. Only(arm) \in SUBSET DOMAIN arm /\ IsFiniteSet(Only(arm))
    BY OnlyComeFirst, Zenon DEF Only
  <1> HIDE DEF arm
  <1>4. /\ sig \in Sig /\ Len(sig) = Len(arm) /\ DOMAIN arm = 1 .. Len(arm) /\ Len(arm) \in Nat
        /\ DOMAIN sig = 1 .. Len(arm)
        /\ \A x \in DOMAIN arm : sig[x].kind = KindOf(arm[x])
    BY <1>1, SignatureIs
  <1> HIDE DEF sig
  <1>5. \A x \in DOMAIN arm : KindOf(arm[x]) # "VarPositional"
    <2> SUFFICES ASSUME NEW x \in DOMAIN arm
                 PROVE  KindOf(arm[x]) # "VarPositional"
      OBVIOUS
    <2> DEFINE p == arm[x]
    <2>1. p \in [name : STRING, group : Groups]
      BY <1>1, <1>4, ElementOfSeq
    <2>2. p.group # "vararg"
      BY <1>2 DEF GroupIn
    <2> HIDE DEF p
    <2>3. KindOf(p) # "VarPositional"
      BY <2>1, <2>2, KindFacts
    <2> QED
      BY <2>3 DEF p
  <1>6. Where(sig, "VarPositional") = {}
    BY <1>4, <1>5 DEF Where
  <1>7. Leading \in {0, 1}
    BY DEF Leading
  <1>8. Only(arm) = {x \in DOMAIN arm : x > Leading /\ KindOf(arm[x]) = "PositionalOnly"}
    BY DEF Only
  <1>9. ASSUME Leading = 1
        PROVE  /\ Where(Tail(sig), "VarPositional") = {}
               /\ MaxPositional(Tail(sig), "plain") = Cardinality(Only(arm))
               /\ MaxPositional(sig, "init") = Cardinality(Only(arm))
               /\ MaxPositional(sig, "call") = Cardinality(Only(arm))
    <2> DEFINE t == Tail(sig)
    <2>1. 1 \in DOMAIN arm
      BY <1>1, <1>9 DEF Positional
    <2>2. sig # <<>>
      BY <1>4, <2>1, EmptySeq DEF Sig
    <2>3. /\ Len(t) = Len(arm) - 1 /\ DOMAIN t = 1 .. Len(arm) - 1
          /\ \A x \in 1 .. Len(arm) - 1 : t[x] = sig[x + 1]
      BY <1>4, <2>2, HeadTailProperties, LenProperties DEF Sig
    <2> HIDE DEF t
    <2>4. \A x \in DOMAIN t : x + 1 \in DOMAIN arm /\ t[x].kind = KindOf(arm[x + 1])
      BY <1>4, <2>3
    <2>5. Where(t, "VarPositional") = {}
      BY <1>5, <2>4 DEF Where
    <2> DEFINE S == {x \in DOMAIN t : t[x].kind = "PositionalOnly"}
               R == {x \in DOMAIN sig \ {1} : sig[x].kind = "PositionalOnly"}
    <2>6. MaxPositional(t, "plain") = Cardinality(S)
      <3>1. {x \in DOMAIN t \ (IF "plain" \in {"init", "call"} THEN {1} ELSE {}) :
                t[x].kind = "PositionalOnly"} = S
        OBVIOUS
      <3> QED
        BY <2>5, <3>1, MaxIsOnly
    <2>7. Cardinality(S) = Cardinality(Only(arm))
      <3>1. \A x \in S : x + 1 \in Only(arm)
        BY <1>8, <1>9, <2>3, <2>4
      <3>2. \A x \in Only(arm) : x \in Nat /\ x - 1 \in S
        <4> SUFFICES ASSUME NEW x \in Only(arm)
                     PROVE  x \in Nat /\ x - 1 \in S
          OBVIOUS
        <4>1. x \in 1 .. Len(arm) /\ x > 1 /\ KindOf(arm[x]) = "PositionalOnly"
          BY <1>4, <1>8, <1>9
        <4>2. x - 1 \in DOMAIN t /\ (x - 1) + 1 = x
          BY <1>4, <2>3, <4>1
        <4> QED
          BY <2>4, <4>1, <4>2
      <3>3. S \in SUBSET (1 .. Len(arm) - 1) /\ Len(arm) - 1 \in Nat
        BY <1>4, <2>1, <2>3
      <3> HIDE DEF S
      <3> QED
        BY <3>1, <3>2, <3>3, ShiftedCardinality
    <2>8. R = Only(arm)
      BY <1>4, <1>8, <1>9
    <2>9. /\ MaxPositional(sig, "init") = Cardinality(R)
          /\ MaxPositional(sig, "call") = Cardinality(R)
      <3>1. /\ {x \in DOMAIN sig \ (IF "init" \in {"init", "call"} THEN {1} ELSE {}) :
                   sig[x].kind = "PositionalOnly"} = R
            /\ {x \in DOMAIN sig \ (IF "call" \in {"init", "call"} THEN {1} ELSE {}) :
                   sig[x].kind = "PositionalOnly"} = R
        OBVIOUS
      <3> HIDE DEF R
      <3> QED
        BY <1>6, <3>1, MaxIsOnly
    <2> QED
      BY <2>5, <2>6, <2>7, <2>8, <2>9 DEF t
  <1> DEFINE A == {x \in DOMAIN sig : sig[x].kind = "PositionalOnly"}
  <1>10. MaxPositional(sig, "plain") = Cardinality(A)
    <2>1. {x \in DOMAIN sig \ (IF "plain" \in {"init", "call"} THEN {1} ELSE {}) :
              sig[x].kind = "PositionalOnly"} = A
      OBVIOUS
    <2> HIDE DEF A
    <2> QED
      BY <1>6, <2>1, MaxIsOnly
  <1>11. Only(arm) \subseteq A
    BY <1>4, <1>8
  <1>12. Cardinality(Only(arm)) <= Cardinality(A)
    <2>1. A \in SUBSET (1 .. Len(arm))
      BY <1>4
    <2>2. IsFiniteSet(A)
      <3> IsFiniteSet(1 .. Len(arm))
        BY <1>4, FS_Interval
      <3> HIDE DEF A
      <3> QED
        BY <2>1, FS_Subset
    <2> HIDE DEF A
    <2> QED
      BY <1>11, <2>2, FS_Subset
  <1>13. Leading = 0 \/ arm[1].group # "posonly" => A = Only(arm)
    <2>1. CASE Leading = 0
      BY <1>4, <1>8, <2>1
    <2>2. CASE Leading = 1 /\ arm[1].group # "posonly"
      <3> DEFINE p == arm[1]
      <3>1. p.group = "args" /\ p.name \notin Private
        BY <1>1, <2>2 DEF Positional, PrivateComeFirst
      <3> HIDE DEF p
      <3>2. KindOf(p) # "PositionalOnly"
        BY <3>1 DEF KindOf
      <3>3. 1 \notin A
        BY <1>4, <3>2 DEF p
      <3> QED
        BY <1>4, <1>8, <2>2, <3>3
    <2> QED
      BY <1>7, <2>1, <2>2
  <1>14. A \subseteq Only(arm) \cup {1}
    BY <1>4, <1>7, <1>8
  <1> HIDE DEF A
  <1>15. Cardinality(A) <= Cardinality(Only(arm)) + 1
    <2>1. Cardinality(Only(arm)) \in Nat
      BY <1>3, FS_CardinalityType
    <2>2. /\ IsFiniteSet(Only(arm) \cup {1})
          /\ Cardinality(Only(arm) \cup {1})
               = IF 1 \in Only(arm) THEN Cardinality(Only(arm)) ELSE Cardinality(Only(arm)) + 1
      BY <1>3, FS_AddElement
    <2>3. IsFiniteSet(A) /\ Cardinality(A) <= Cardinality(Only(arm) \cup {1})
      BY <1>14, <2>2, FS_Subset
    <2>4. Cardinality(A) \in Nat
      BY <2>3, FS_CardinalityType
    <2> QED
      BY <2>1, <2>2, <2>3, <2>4
  <1> QED
    BY <1>6, <1>7, <1>9, <1>10, <1>12, <1>13, <1>15 DEF arm, sig

\* That is the maximum the index has for a definition, besides what a boundary allows.
LEMMA IndexedRoom ==
  ASSUME SiteIsGiven, Customary, PrivateComeFirst, ~DunderByName, NEW i \in DOMAIN callee.arms,
         site.hover = "none" \/ Len(callee.arms) > 1, ~GroupIn(callee.arms[i], "vararg")
  PROVE  LET arm == callee.arms[i]
             most == MaxPositional(Effective[i], callee.method)
         IN /\ Where(Effective[i], "VarPositional") = {} /\ most \in Nat
            /\ Cardinality(Only(arm)) <= most
            /\ ~ /\ Leading = 1 /\ arm[1].group = "posonly" /\ callee.method = "plain"
                 /\ \/ callee.kind = "classmethod" \/ site.base = "other"
                    \/ site.boundary = "mixed"
               => most = Cardinality(Only(arm))
  <1> DEFINE arm == callee.arms[i]
             sig == SignatureOf(arm)
             only == Cardinality(Only(arm))
  <1>1. /\ callee.method \in {"plain", "init", "call"}
        /\ callee.method # "plain" => callee.kind = "method"
        /\ callee.method = "plain" \/ site.base \notin {"class", "dotted", "instance"}
        /\ callee.kind \in {"function", "method", "classmethod", "staticmethod"}
        /\ callee.kind = "method" /\ callee.method = "plain" =>
              site.base \in {"class", "dotted", "instance", "other"}
    BY BaseFacts DEF DunderByName, Descriptors
  <1>2. /\ Signatures[i] = sig /\ Effective[i] \in Sig
        /\ Effective[i] = IF IsUnbound(First) \/ IsBoundInstance(First) THEN Tail(sig) ELSE sig
        /\ callee.kind # "method" => ~IsUnbound(First) /\ ~IsBoundInstance(First)
        /\ callee.kind = "method" => First = "self"
    BY EffectiveIs, ArmFacts
  <1>3. /\ Where(sig, "VarPositional") = {}
        /\ Leading = 1 =>
              /\ Where(Tail(sig), "VarPositional") = {}
              /\ MaxPositional(Tail(sig), "plain") = only
              /\ MaxPositional(sig, "init") = only
              /\ MaxPositional(sig, "call") = only
        /\ only <= MaxPositional(sig, "plain")
        /\ Leading = 0 \/ arm[1].group # "posonly" => MaxPositional(sig, "plain") = only
    BY RoomOf
  <1>4. only \in Nat
    BY OnlyComeFirst
  <1>5. MaxPositional(Effective[i], callee.method) \in Nat
    BY <1>2, MaxPositionalType
  <1>6. Leading = IF callee.kind \in {"classmethod", "method"} THEN 1 ELSE 0
    BY DEF Leading
  <1> HIDE DEF arm, sig, only
  <1>7. CASE IsUnbound(First) \/ IsBoundInstance(First)
    <2>1. callee.kind = "method" /\ callee.method = "plain"
      BY <1>1, <1>2, <1>7 DEF IsUnbound, IsBoundInstance
    <2>2. Leading = 1 /\ Effective[i] = Tail(sig)
      BY <1>2, <1>6, <1>7, <2>1
    <2> QED
      BY <1>3, <1>4, <1>5, <2>1, <2>2 DEF arm, only
  <1>8. CASE ~(IsUnbound(First) \/ IsBoundInstance(First))
    <2>1. Effective[i] = sig
      BY <1>2, <1>8
    <2>2. CASE callee.method \in {"init", "call"}
      <3>1. Leading = 1
        BY <1>1, <1>6, <2>2
      <3> QED
        BY <1>3, <1>4, <1>5, <2>1, <2>2, <3>1 DEF arm, only
    <2>3. CASE callee.method = "plain"
      <3>1. callee.kind = "method" => site.base = "other" \/ site.boundary = "mixed"
        BY <1>1, <1>2, <1>8, <2>3 DEF IsUnbound, IsBoundInstance, Descriptors
      <3>2. Leading = 1 => \/ callee.kind = "classmethod" \/ site.base = "other"
                           \/ site.boundary = "mixed"
        BY <1>6, <3>1
      <3>3. Leading \in {0, 1}
        BY <1>6
      <3> QED
        BY <1>3, <1>4, <1>5, <2>1, <2>3, <3>2, <3>3 DEF arm, only
    <2> QED
      BY <1>1, <2>2, <2>3
  <1> QED
    BY <1>7, <1>8

\* And the one ty shows.
LEMMA ShownRoom ==
  ASSUME SiteIsGiven, Customary, PrivateComeFirst, Shows,
         ~GroupIn(Selected, "vararg")
  PROVE  /\ Where(ShownEffective, "VarPositional") = {}
         /\ ShownMax = Cardinality(Only(Selected)) /\ ShownMax \in Nat
  <1> DEFINE arm == Selected
             sig == SignatureOf(arm)
             only == Cardinality(Only(arm))
  <1>1. site.arm \in DOMAIN callee.arms /\ Selected = callee.arms[site.arm]
    BY DEF SiteIsGiven, Selected
  <1>2. /\ Where(sig, "VarPositional") = {}
        /\ Leading = 1 =>
              /\ Where(Tail(sig), "VarPositional") = {}
              /\ MaxPositional(Tail(sig), "plain") = only
        /\ Leading = 0 \/ arm[1].group # "posonly" => MaxPositional(sig, "plain") = only
    BY <1>1, RoomOf
  <1>3. only \in Nat
    BY <1>1, OnlyComeFirst
  <1>4. ShownEffective = IF callee.kind \in {"function", "staticmethod"} THEN sig ELSE Tail(sig)
    BY ShownIs
  <1>5. Leading = IF callee.kind \in {"function", "staticmethod"} THEN 0 ELSE 1
    BY BaseFacts DEF Leading
  <1> HIDE DEF arm, sig, only
  <1>7. Where(ShownEffective, "VarPositional") = {} /\ MaxPositional(ShownEffective, "plain") = only
    BY <1>2, <1>4, <1>5
  <1> QED
    BY <1>3, <1>7 DEF ShownMax, arm, only

\* And the one ty gives of a definition in another way, the receiver of which is not an
\* argument.
LEMMA AnsweredRoom ==
  ASSUME SiteIsGiven, Customary, PrivateComeFirst, ~DunderByName, site.hover \in Answered,
         NEW i \in DOMAIN callee.arms
  PROVE  LET arm == callee.arms[i]
             most == MaxPositional(Answers[i], MethodAnswered)
         IN /\ Answers[i] \in Sig /\ DOMAIN Answers = DOMAIN callee.arms /\ most \in Nat
            /\ Where(Answers[i], "VarPositional") = {} => ~GroupIn(arm, "vararg")
            /\ ~GroupIn(arm, "vararg") =>
                  /\ Where(Answers[i], "VarPositional") = {}
                  /\ Cardinality(Only(arm)) <= most
                  /\ ReceiverByDefinition => most <= Cardinality(Only(arm)) + 1
                  /\ ReceiverByDefinition
                        \/ (/\ Supplied(site.base) = 1 /\ arm[1].group = "posonly"
                            /\ callee.method = "plain" /\ site.hover = "definition")
                        \/ most = Cardinality(Only(arm))
  <1> DEFINE arm == callee.arms[i]
             sig == SignatureOf(arm)
             only == Cardinality(Only(arm))
             s == Supplied(site.base)
  <1>1. /\ arm \in Seq([name : STRING, group : Groups]) /\ Signatures[i] = sig /\ sig \in Sig
        /\ DOMAIN Signatures = DOMAIN callee.arms
        /\ callee.kind \in {"classmethod", "method"} => 1 \in Positional(arm) /\ sig # <<>>
    <2>1. callee.kind \in {"classmethod", "method"} => 1 \in Positional(arm) /\ 1 \in DOMAIN arm
      BY ArmFacts
    <2>2. /\ arm \in Seq([name : STRING, group : Groups]) /\ Signatures[i] = sig /\ sig \in Sig
          /\ DOMAIN Signatures = DOMAIN callee.arms
      BY ArmFacts, EffectiveIs
    <2> HIDE DEF arm
    <2>3. Len(sig) = Len(arm) /\ DOMAIN arm = 1 .. Len(arm)
      BY <2>2, SignatureIs
    <2>4. 1 \in DOMAIN arm => sig # <<>>
      BY <2>2, <2>3, EmptySeq DEF Sig
    <2> QED
      BY <2>1, <2>2, <2>4
  <1>2. /\ s \in {0, 1} /\ (s = 1 => callee.kind \in {"classmethod", "method"})
        /\ callee.kind \in {"function", "method", "classmethod", "staticmethod"}
        /\ callee.method # "plain" => callee.kind = "method"
        /\ callee.kind \in {"function", "staticmethod"} => s = 0
        /\ callee.kind = "classmethod" => s = 1
    BY BaseFacts
  <1>3. Leading = IF callee.kind \in {"classmethod", "method"} THEN 1 ELSE 0
    BY DEF Leading
  <1>4. only \in Nat
    BY OnlyComeFirst
  <1>5. ~GroupIn(arm, "vararg") =>
            /\ Where(sig, "VarPositional") = {}
            /\ Leading = 1 =>
                  /\ Where(Tail(sig), "VarPositional") = {}
                  /\ MaxPositional(Tail(sig), "plain") = only
                  /\ MaxPositional(sig, "init") = only
                  /\ MaxPositional(sig, "call") = only
            /\ only <= MaxPositional(sig, "plain")
            /\ Leading = 0 \/ arm[1].group # "posonly" => MaxPositional(sig, "plain") = only
            /\ MaxPositional(sig, "plain") <= only + 1
    BY RoomOf
  <1>6. \/ Where(sig, "VarPositional") = {}
        \/ 1 \in Positional(arm) /\ Where(Tail(sig), "VarPositional") = {}
        => ~GroupIn(arm, "vararg")
    BY <1>1, NoVararg
  <1>7. CASE site.hover = "definition"
    <2>1. Answers = Signatures /\ MethodAnswered = callee.method
      BY <1>7 DEF Answers, MethodAnswered, Mapped
    <2>2. callee.method # "plain" => callee.method \in {"init", "call"} /\ s = 1
      BY <1>7, BaseFacts DEF DunderByName
    <2>3. ReceiverByDefinition <=> callee.kind = "method" /\ s = 0
      BY <1>7 DEF ReceiverByDefinition
    <2>4. MaxPositional(sig, callee.method) \in Nat
      BY <1>1, MaxPositionalType
    <2> HIDE DEF arm, sig, only, s
    <2>5. CASE callee.method = "plain"
      <3>1. ReceiverByDefinition \/ (s = 1 /\ arm[1].group = "posonly")
                \/ Leading = 0 \/ arm[1].group # "posonly"
        BY <1>2, <1>3, <2>3
      <3> QED
        BY <1>1, <1>5, <1>6, <1>7, <2>1, <2>4, <2>5, <3>1 DEF arm, only, s
    <2>6. CASE callee.method # "plain"
      BY <1>1, <1>2, <1>3, <1>4, <1>5, <1>6, <2>1, <2>2, <2>3, <2>4, <2>6 DEF arm, only, s
    <2> QED
      BY <2>5, <2>6
  <1>8. CASE site.hover = "overloads"
    <2>1. MethodAnswered = "plain" /\ ~ReceiverByDefinition
      BY <1>8 DEF MethodAnswered, Mapped, ReceiverByDefinition
    <2>2. ~(callee.kind = "method" /\ s = 0)
      BY <1>8 DEF SiteIsGiven, Hovers
    <2>3. Answers[i] = IF s = 1 THEN Tail(sig) ELSE sig
      BY <1>8, ShownArm DEF Answers
    <2>4. DOMAIN Answers = DOMAIN callee.arms
      BY <1>8 DEF Answers
    <2> HIDE DEF arm, sig, only, s
    <2>5. s = 1 <=> Leading = 1
      BY <1>2, <1>3, <2>2
    <2>6. sig # <<>> => Tail(sig) \in Sig
      BY <1>1, HeadTailProperties DEF Sig
    <2>7. Answers[i] \in Sig
      BY <1>1, <1>2, <2>3, <2>6
    <2>8. MaxPositional(Answers[i], "plain") \in Nat
      BY <2>7, MaxPositionalType
    <2>9. Leading \in {0, 1}
      BY <1>3
    <2>10. CASE s = 1
      BY <1>1, <1>2, <1>4, <1>5, <1>6, <2>1, <2>3, <2>4, <2>5, <2>7, <2>8, <2>10 DEF arm, only
    <2>11. CASE s = 0
      BY <1>4, <1>5, <1>6, <2>1, <2>3, <2>4, <2>5, <2>7, <2>8, <2>9, <2>11 DEF arm, only
    <2> QED
      BY <1>2, <2>10, <2>11
  <1> QED
    BY <1>7, <1>8 DEF Answered

\* The arguments by position that could get a name, the receiver's left out, are as many
\* as the visit counts.
Surplus(m) == IF Receiver # {} /\ m > 0 THEN m - 1 ELSE m

\* A receiver is an argument where Python does not supply it.
LEMMA ReceiverIs ==
  ASSUME SiteIsGiven
  PROVE  /\ Supplied(site.base) \in {0, 1} /\ Leading \in {0, 1}
         /\ Receiver = IF Leading = 1 /\ Supplied(site.base) = 0 THEN {1} ELSE {}
         /\ Supplied(site.base) = 1 => Leading = 1
         /\ site.boundary = "competing" => Supplied(site.base) = 1 /\ callee.method = "init"
                                           /\ site.base \in {"none", "module"}
  <1>1. site.boundary = "competing" => callee.method = "init" /\ site.base \in {"none", "module"}
    BY DEF SiteIsGiven, Possible
  <1>2. /\ callee.kind \in {"function", "method", "classmethod", "staticmethod"}
        /\ callee.method # "plain" => callee.kind = "method"
        /\ Supplied(site.base) = IF \/ callee.kind \in {"function", "staticmethod"}
                                    \/ callee.kind = "method" /\ site.base \in {"class", "dotted"}
                                 THEN 0 ELSE 1
    BY BaseFacts
  <1> QED
    BY <1>1, <1>2 DEF Leading, Receiver

\* What a visit counts.
LEMMA SurplusIs ==
  ASSUME SiteIsGiven, Customary, ~DunderByName, NEW m \in Nat
  PROVE  /\ Surplus(m) \in Nat
         /\ site.hover = "none" \/ Len(callee.arms) > 1 => Count(m) = Surplus(m)
         /\ Shows => ShownCount(m) = Surplus(m)
         /\ site.hover \in Answered /\ ~ReceiverByDefinition => Surplus(m) = m
  <1>1. site.hover = "none" \/ Len(callee.arms) > 1 => (IsUnbound(First) <=> Receiver # {})
    <2> SUFFICES ASSUME site.hover = "none" \/ Len(callee.arms) > 1
                 PROVE  IsUnbound(First) <=> Receiver # {}
      OBVIOUS
    <2>1. callee.method \notin Descriptors
      BY BaseFacts DEF DunderByName, Descriptors
    <2> QED
      BY <2>1, ExplicitIs
  <1>2. Shows => (ShownExplicit <=> Receiver # {})
    BY ShownIs, BaseFacts DEF Receiver
  <1>3. site.hover \in Answered /\ ~ReceiverByDefinition => Receiver = {}
    BY DEF Receiver, ReceiverByDefinition, Answered, SiteIsGiven, Hovers
  <1> QED
    BY <1>1, <1>2, <1>3 DEF Count, ShownCount, Surplus

\* What ty shows has *args when the definition does.
LEMMA ShownNoVararg ==
  ASSUME SiteIsGiven, Customary, Shows, Where(ShownEffective, "VarPositional") = {}
  PROVE  ~GroupIn(Selected, "vararg")
  <1> DEFINE arm == Selected
  <1>1. /\ arm \in Seq([name : STRING, group : Groups])
        /\ \/ Where(SignatureOf(arm), "VarPositional") = {}
           \/ 1 \in Positional(arm) /\ Where(Tail(SignatureOf(arm)), "VarPositional") = {}
    BY SelectedFacts, ShownIs, BaseFacts
  <1> HIDE DEF arm
  <1>2. ~GroupIn(arm, "vararg")
    BY <1>1, NoVararg
  <1> QED
    BY <1>2 DEF arm

\* Who is visited: a call that the index judges, one that ty shows, or one it knows of in
\* another way.
LEMMA VisitedIs ==
  ASSUME SiteIsGiven, NEW m
  PROVE  \/ /\ site.hover = "none" \/ Len(callee.arms) > 1
            /\ Visited(m) = IndexedReport(m)
         \/ Shows /\ Len(callee.arms) = 1 /\ Visited(m) = TyReport(ShownSignature, m)
         \/ /\ site.hover \in Answered /\ site.boundary # "competing"
            /\ Visited(m) = Violation(Answers, MethodAnswered, m)
  <1>1. Len(callee.arms) \in Nat \ {0}
    BY BaseFacts
  <1>2. Len(callee.arms) = 1 \/ Len(callee.arms) > 1
    <2>1. \A k \in Nat \ {0} : k = 1 \/ k > 1
      OBVIOUS
    <2> QED
      BY <1>1, <2>1, Zenon
  <1>3. site.hover \in Answered => site.boundary # "competing"
    BY DEF SiteIsGiven, Askable, TyBoundaries, Answered
  <1>4. CASE site.hover \in Answered
    BY <1>3, <1>4, Zenon DEF Visited
  <1>5. CASE Shows /\ Len(callee.arms) = 1
    BY <1>5 DEF Visited, Shows, ShownSignature
  <1>6. CASE site.hover \notin Answered /\ ~(Shows /\ Len(callee.arms) = 1)
    BY <1>2, <1>6 DEF Visited, Shows
  <1> QED
    BY <1>4, <1>5, <1>6

\* What is reported of a definition known in another way is more than its maximum.
LEMMA AnswerReported ==
  ASSUME SiteIsGiven, Customary, PrivateComeFirst, ~DunderByName, site.hover \in Answered,
         NEW m \in Nat, NEW r \in Violation(Answers, MethodAnswered, m)
  PROVE  /\ r.count = m /\ r.max \in Nat /\ r.max < m
         /\ \A i \in DOMAIN callee.arms :
               /\ Exceeds(Answers[i], MethodAnswered, m)
               /\ MaxPositional(Answers[i], MethodAnswered) <= r.max
  <1> DEFINE k == Len(callee.arms)
             most == [i \in 1 .. k |-> MaxPositional(Answers[i], MethodAnswered)]
             S == {most[i] : i \in 1 .. k}
  <1>1. k \in Nat \ {0} /\ DOMAIN callee.arms = 1 .. k
    BY BaseFacts
  <1> HIDE DEF k
  <1>2. DOMAIN Answers = 1 .. k
    <2>1. 1 \in DOMAIN callee.arms
      BY <1>1
    <2> QED
      BY <1>1, <2>1, AnsweredRoom
  <1>3. most \in [1 .. k -> Nat]
    <2>1. \A i \in 1 .. k : MaxPositional(Answers[i], MethodAnswered) \in Nat
      BY <1>1, AnsweredRoom
    <2> QED
      BY <2>1
  <1>4. S = {MaxPositional(Answers[i], MethodAnswered) : i \in DOMAIN Answers}
    BY <1>2
  <1>5. \A i \in 1 .. k : most[i] = MaxPositional(Answers[i], MethodAnswered) /\ most[i] \in S
    OBVIOUS
  <1>6. \A y \in S : \E i \in 1 .. k : y = most[i]
    OBVIOUS
  <1> HIDE DEF most
  <1>7. Max(S) \in S /\ Max(S) \in Nat /\ \A y \in S : y <= Max(S)
    BY <1>1, <1>3, MaxIs, Zenon
  <1> HIDE DEF S
  <1>8. /\ r = [count |-> m, max |-> Max(S)]
        /\ \A i \in DOMAIN Answers : Exceeds(Answers[i], MethodAnswered, m)
    BY <1>4 DEF Violation
  <1>9. r.count = m /\ r.max = Max(S)
    BY <1>8
  <1>10. Max(S) < m
    <2>1. PICK i \in 1 .. k : Max(S) = most[i]
      BY <1>6, <1>7
    <2>2. m > most[i]
      BY <1>2, <1>5, <1>8 DEF Exceeds
    <2> QED
      BY <1>3, <2>1, <2>2
  <1> QED
    BY <1>1, <1>2, <1>5, <1>7, <1>8, <1>9, <1>10

\* A visit reports more arguments than there is room for.
LEMMA ReportedRoom ==
  ASSUME SiteIsGiven, Customary, PrivateComeFirst, ~DunderByName, ~ReceiverByDefinition,
         NEW m \in Nat, NEW r \in Visited(m)
  PROVE  /\ r.count = Surplus(m) /\ r.max \in Nat /\ r.max < r.count
         /\ Cardinality(Only(Selected)) <= r.max /\ ~GroupIn(Selected, "vararg")
         /\ site.boundary = "competing" => Allowance(Effective) <= r.max
  <1>1. site.arm \in DOMAIN callee.arms /\ Selected = callee.arms[site.arm]
    BY DEF SiteIsGiven, Selected
  <1>2. Cardinality(Only(Selected)) \in Nat
    BY <1>1, OnlyComeFirst
  <1>3. /\ Surplus(m) \in Nat
        /\ site.hover = "none" \/ Len(callee.arms) > 1 => Count(m) = Surplus(m)
        /\ Shows => ShownCount(m) = Surplus(m)
        /\ site.hover \in Answered => Surplus(m) = m
    BY SurplusIs
  <1>4. CASE /\ site.hover = "none" \/ Len(callee.arms) > 1
             /\ Visited(m) = IndexedReport(m)
    <2>1. r \in IndexedReport(m) /\ Count(m) = Surplus(m)
      BY <1>3, <1>4
    <2>2. /\ r = [count |-> Count(m), max |-> IndexedMax]
          /\ ~(Count(m) <= Allowance(Effective))
          /\ \A i \in DOMAIN Effective : Exceeds(Effective[i], callee.method, Count(m))
      BY <2>1, IndexedReportIs
    <2>3. r.count = Count(m) /\ r.max = IndexedMax
      BY <2>2
    <2>4. /\ Allowance(Effective) \in Nat /\ IndexedMax \in Nat
          /\ Allowance(Effective) <= IndexedMax
          /\ \A i \in DOMAIN Effective : MaxPositional(Effective[i], callee.method) <= IndexedMax
          /\ \/ IndexedMax = Allowance(Effective)
             \/ \E i \in DOMAIN Effective : IndexedMax = MaxPositional(Effective[i], callee.method)
      BY IndexedFacts
    <2>5. \A i \in DOMAIN Effective : Count(m) > MaxPositional(Effective[i], callee.method)
      BY <2>2 DEF Exceeds
    <2>6. IndexedMax < Count(m)
      BY <1>3, <2>1, <2>2, <2>4, <2>5
    <2>7. ~GroupIn(Selected, "vararg")
      BY <1>1, <2>1, ReportedNoVararg
    <2>8. site.arm \in DOMAIN Effective
      BY <1>1, EffectiveIs
    <2>9. /\ MaxPositional(Effective[site.arm], callee.method) \in Nat
          /\ Cardinality(Only(Selected)) <= MaxPositional(Effective[site.arm], callee.method)
      BY <1>1, <1>4, <2>7, IndexedRoom
    <2>10. Cardinality(Only(Selected)) <= IndexedMax
      BY <1>2, <2>4, <2>8, <2>9
    <2> QED
      BY <1>3, <2>1, <2>3, <2>4, <2>6, <2>7, <2>10
  <1>5. CASE Shows /\ Len(callee.arms) = 1 /\ Visited(m) = TyReport(ShownSignature, m)
    <2> DEFINE count == ShownCount(m)
    <2>1. r \in TyReport(ShownSignature, m) /\ count = Surplus(m)
      BY <1>3, <1>5
    <2>2. TyReport(ShownSignature, m) =
             IF Unjudged \/ ~Exceeds(ShownEffective, "plain", count) THEN {}
             ELSE {[count |-> count, max |-> ShownMax]}
      BY <1>5, TyReportIs, Zenon
    <2> HIDE DEF count
    <2>4. /\ Exceeds(ShownEffective, "plain", count)
          /\ r = [count |-> count, max |-> ShownMax]
      BY <2>1, <2>2
    <2>5. r.count = count /\ r.max = ShownMax
      BY <2>4
    <2>6. Where(ShownEffective, "VarPositional") = {} /\ count > ShownMax
      BY <2>4 DEF Exceeds, ShownMax
    <2>7. ~GroupIn(Selected, "vararg")
      BY <1>5, <2>6, ShownNoVararg
    <2>8. ShownMax = Cardinality(Only(Selected)) /\ ShownMax \in Nat
      BY <1>5, <2>7, ShownRoom
    <2>9. site.boundary # "competing"
      BY <1>5 DEF SiteIsGiven, Askable, TyBoundaries, Shows
    <2> QED
      BY <1>2, <1>3, <2>1, <2>5, <2>6, <2>7, <2>8, <2>9
  <1>6. CASE /\ site.hover \in Answered /\ site.boundary # "competing"
             /\ Visited(m) = Violation(Answers, MethodAnswered, m)
    <2>1. Surplus(m) = m /\ r \in Violation(Answers, MethodAnswered, m)
      BY <1>3, <1>6
    <2>2. /\ r.count = m /\ r.max \in Nat /\ r.max < m
          /\ Exceeds(Answers[site.arm], MethodAnswered, m)
          /\ MaxPositional(Answers[site.arm], MethodAnswered) <= r.max
      BY <1>1, <1>6, <2>1, AnswerReported
    <2>3. Where(Answers[site.arm], "VarPositional") = {}
      BY <2>2 DEF Exceeds
    <2>4. /\ ~GroupIn(Selected, "vararg") /\ MaxPositional(Answers[site.arm], MethodAnswered) \in Nat
          /\ Cardinality(Only(Selected)) <= MaxPositional(Answers[site.arm], MethodAnswered)
      BY <1>1, <1>6, <2>3, AnsweredRoom
    <2> QED
      BY <1>2, <1>6, <2>1, <2>2, <2>4
  <1> QED
    BY <1>4, <1>5, <1>6, VisitedIs

\* A visit that reports nothing has room for all arguments.
LEMMA CleanRoom ==
  ASSUME SiteIsGiven, Customary, PrivateComeFirst, ~DunderByName, NEW m \in Nat,
         Visited(m) = {}, Len(callee.arms) = 1, ~Unjudged,
         ~GroupIn(Selected, "vararg"), ~RoomForReceiver
  PROVE  \/ Surplus(m) <= Cardinality(Only(Selected))
         \/ Surplus(m) <= 1 /\ site.boundary = "competing"
  <1>1. site.arm \in DOMAIN callee.arms /\ Selected = callee.arms[site.arm]
    BY DEF SiteIsGiven, Selected
  <1>2. Cardinality(Only(Selected)) \in Nat
    BY <1>1, OnlyComeFirst
  <1>3. /\ Surplus(m) \in Nat
        /\ site.hover = "none" => Count(m) = Surplus(m)
        /\ Shows => ShownCount(m) = Surplus(m)
        /\ site.hover \in Answered /\ ~ReceiverByDefinition => Surplus(m) = m
    BY SurplusIs
  <1>4. CASE site.hover = "none"
    <2>1. IndexedReport(m) = {}
      BY <1>4 DEF Visited, Answered
    <2>2. \/ Count(m) <= Allowance(Effective)
          \/ \E i \in DOMAIN Effective : ~Exceeds(Effective[i], callee.method, Count(m))
      <3> SUFFICES ASSUME ~(Count(m) <= Allowance(Effective)),
                          ~\E i \in DOMAIN Effective :
                               ~Exceeds(Effective[i], callee.method, Count(m))
                   PROVE  FALSE
        OBVIOUS
      <3>1. IndexedReport(m) = {[count |-> Count(m), max |-> IndexedMax]}
        BY IndexedReportIs
      <3> QED
        BY <2>1, <3>1
    <2>3. CASE Count(m) <= Allowance(Effective)
      <3>1. /\ Allowance(Effective) \in Nat /\ Allowance(Effective) <= 1
            /\ site.boundary # "competing" => Allowance(Effective) = 0
        BY IndexedFacts
      <3> QED
        BY <1>2, <1>3, <1>4, <2>3, <3>1
    <2>4. CASE \E i \in DOMAIN Effective : ~Exceeds(Effective[i], callee.method, Count(m))
      <3>1. PICK i \in DOMAIN Effective : ~Exceeds(Effective[i], callee.method, Count(m))
        BY <2>4
      <3>2. i = site.arm
        BY <1>1, <3>1, EffectiveIs, BaseFacts
      <3>3. ~ /\ Leading = 1 /\ Selected[1].group = "posonly" /\ callee.method = "plain"
              /\ \/ callee.kind = "classmethod" \/ site.base = "other"
                 \/ site.boundary = "mixed"
        <4>1. /\ Leading = 1 => callee.kind \in {"classmethod", "method"}
              /\ site.boundary = "mixed" => site.base = "instance"
          <5>1. Possible(callee, site.base, site.boundary)
            BY DEF SiteIsGiven
          <5>2. site.boundary = "mixed" => site.base = "instance"
            BY <5>1 DEF Possible
          <5>3. Leading = 1 => callee.kind \in {"classmethod", "method"}
            BY DEF Leading
          <5> QED
            BY <5>2, <5>3
        <4>2. /\ Leading = 1
              /\ \/ callee.kind = "classmethod" \/ site.base = "other"
                 \/ site.boundary = "mixed"
              => Supplied(site.base) = 1
          BY <4>1, BaseFacts
        <4> QED
          BY <1>4, <4>2, Zenon DEF RoomForReceiver
      <3>4. /\ Where(Effective[i], "VarPositional") = {}
            /\ MaxPositional(Effective[i], callee.method) = Cardinality(Only(Selected))
        BY <1>1, <1>4, <3>2, <3>3, IndexedRoom
      <3>5. ~(Count(m) > Cardinality(Only(Selected)))
        BY <3>1, <3>4 DEF Exceeds
      <3> QED
        BY <1>2, <1>3, <1>4, <3>5
    <2> QED
      BY <2>2, <2>3, <2>4
  <1>5. CASE Shows
    <2> DEFINE count == ShownCount(m)
    <2>1. TyReport(ShownSignature, m) = {}
      BY <1>5 DEF Visited, Shows, ShownSignature
    <2>2. TyReport(ShownSignature, m) =
             IF Unjudged \/ ~Exceeds(ShownEffective, "plain", count) THEN {}
             ELSE {[count |-> count, max |-> ShownMax]}
      BY <1>5, TyReportIs, Zenon
    <2>3. count = Surplus(m)
      BY <1>3, <1>5
    <2> HIDE DEF count
    <2>4. ~Exceeds(ShownEffective, "plain", count)
      BY <2>1, <2>2
    <2>5. /\ Where(ShownEffective, "VarPositional") = {}
          /\ ShownMax = Cardinality(Only(Selected))
      BY <1>5, ShownRoom
    <2>6. ~(count > Cardinality(Only(Selected)))
      BY <2>4, <2>5 DEF Exceeds, ShownMax
    <2> QED
      BY <1>2, <1>3, <2>3, <2>6
  <1>6. CASE site.hover \in Answered
    <2> DEFINE most == MaxPositional(Answers[site.arm], MethodAnswered)
    <2>1. /\ DOMAIN Answers = DOMAIN callee.arms /\ most \in Nat
          /\ Where(Answers[site.arm], "VarPositional") = {}
          /\ ReceiverByDefinition => most <= Cardinality(Only(Selected)) + 1
          /\ ReceiverByDefinition \/ most = Cardinality(Only(Selected))
      BY <1>1, <1>6, AnsweredRoom DEF RoomForReceiver
    <2>2. Violation(Answers, MethodAnswered, m) = {}
      BY <1>6 DEF Visited
    <2>3. \E i \in DOMAIN Answers : ~Exceeds(Answers[i], MethodAnswered, m)
      BY <2>2, Zenon DEF Violation
    <2>4. ~Exceeds(Answers[site.arm], MethodAnswered, m)
      BY <1>1, <2>1, <2>3, BaseFacts
    <2>5. ~(m > most)
      BY <2>1, <2>4 DEF Exceeds
    <2> HIDE DEF most
    <2>6. ReceiverByDefinition => Receiver # {}
      BY DEF ReceiverByDefinition, Receiver
    <2>7. ReceiverByDefinition => Surplus(m) = IF m > 0 THEN m - 1 ELSE m
      BY <2>6 DEF Surplus
    <2> QED
      BY <1>2, <1>3, <1>6, <2>1, <2>5, <2>7
  <1> QED
    BY <1>4, <1>5, <1>6 DEF Shows

\* The arguments of an accepted call that must stay by position, without *args.
LEMMA StayIs ==
  ASSUME SiteIsGiven, NEW m \in Nat, ByPosition(call.args) = 1 .. m,
         ~GroupIn(Selected, "vararg"), Valid(call.args, call.keywords)
  PROVE  /\ \A i \in 1 .. m : i + Supplied(site.base) \in Positional(Selected)
         /\ MustStay(call.args) =
               {i \in (1 .. m) \ Receiver :
                   \/ KindOf(Selected[i + Supplied(site.base)]) = "PositionalOnly"
                   \/ site.boundary = "competing" /\ i = 1}
  <1> DEFINE s == Supplied(site.base)
             slot == [i \in 1 .. m |-> Slot(Selected, s, i)]
  <1>1. \A i \in 1 .. m : Slot(Selected, s, i) # 0
    BY Zenon DEF Valid, Accepts
  <1>2. ASSUME NEW i \in 1 .. m
        PROVE  i + s \in Positional(Selected) /\ Slot(Selected, s, i) = i + s
    BY <1>1 DEF Slot
  <1>3. MustStay(call.args) =
           {i \in (1 .. m) \ Receiver :
              \/ slot[i] = 0 \/ KindOf(Selected[slot[i]]) = "PositionalOnly"
              \/ \E j \in 1 .. m : slot[j] = 0
              \/ site.boundary = "competing" /\ i = 1}
    BY DEF MustStay
  <1>4. \A i \in 1 .. m : slot[i] = i + s /\ slot[i] # 0
    BY <1>1, <1>2
  <1> HIDE DEF slot, s
  <1>5. MustStay(call.args) =
           {i \in (1 .. m) \ Receiver :
              \/ KindOf(Selected[i + s]) = "PositionalOnly"
              \/ site.boundary = "competing" /\ i = 1}
    BY <1>3, <1>4
  <1> QED
    BY <1>2, <1>5 DEF s

\* The arguments that could get a name, and those of them for parameters of no name, among
\* the parameters.
LEMMA SurplusAre ==
  ASSUME SiteIsGiven, NEW m \in Nat
  PROVE  LET s == Supplied(site.base)
             r == IF Receiver = {} THEN 0 ELSE 1
         IN /\ r \in {0, 1} /\ r + s = Leading /\ (1 .. m) \ Receiver = r + 1 .. m
            /\ Surplus(m) = Cardinality((1 .. m) \ Receiver)
            /\ Surplus(m) \in Nat /\ IsFiniteSet((1 .. m) \ Receiver)
            /\ \A i \in (1 .. m) \ Receiver : i + s \in Leading + 1 .. Leading + Surplus(m)
  <1> DEFINE s == Supplied(site.base)
             r == IF Receiver = {} THEN 0 ELSE 1
  <1>1. /\ r \in {0, 1} /\ s \in {0, 1} /\ Leading \in {0, 1} /\ r + s = Leading
        /\ Receiver = IF r = 1 THEN {1} ELSE {}
    BY ReceiverIs
  <1>2. Surplus(m) = IF r = 1 /\ m > 0 THEN m - 1 ELSE m
    BY DEF Surplus
  <1> HIDE DEF r, s
  <1>3. (1 .. m) \ Receiver = r + 1 .. m
    BY <1>1
  <1>4. /\ Surplus(m) = Cardinality(r + 1 .. m) /\ Surplus(m) \in Nat
        /\ IsFiniteSet(r + 1 .. m)
    <2>1. r + 1 \in Int /\ m \in Int
      BY <1>1
    <2>2. /\ IsFiniteSet(r + 1 .. m)
          /\ Cardinality(r + 1 .. m) = IF r + 1 > m THEN 0 ELSE m - (r + 1) + 1
      BY <2>1, FS_Interval
    <2> QED
      BY <1>1, <1>2, <2>2
  <1>5. \A i \in r + 1 .. m : i + s \in Leading + 1 .. Leading + Surplus(m)
    BY <1>1, <1>2
  <1> QED
    BY <1>1, <1>3, <1>4, <1>5 DEF r, s

\* A call judged has its arguments by position first, and they are what was visited.
LEMMA JudgedIs ==
  ASSUME IInv, Judged, ~Unpacks
  PROVE  \E m \in Nat : ByPosition(call.args) = 1 .. m /\ report = Visited(m)
  <1>1. NamesComeLast /\ report = Visited(PositionalCount)
    BY DEF IInv, Judged, ReportIsVisited
  <1>2. PICK m \in 0 .. Len(call.args) :
           ByPosition(call.args) = 1 .. m /\ (~Unpacks => PositionalCount = m)
    BY <1>1, PositionsComeFirst
  <1>3. m \in Nat
    OBVIOUS
  <1> QED
    BY <1>1, <1>2, <1>3

\* A constructor that takes an argument by position could take one.
LEMMA CouldTakeOne ==
  ASSUME SiteIsGiven, Customary, site.boundary = "competing", site.arm \in DOMAIN callee.arms,
         Selected = callee.arms[site.arm], 2 \in Positional(Selected)
  PROVE  CouldTake(Effective[site.arm]) # 0
  <1> DEFINE arm == Selected
             sig == SignatureOf(arm)
  <1>1. callee.method = "init" /\ site.base \in {"none", "module"}
    BY ReceiverIs
  <1>2. Effective[site.arm] = sig
    <2>1. ~IsUnbound(First) /\ ~IsBoundInstance(First)
      BY <1>1 DEF IsUnbound, IsBoundInstance
    <2> QED
      BY <2>1, EffectiveIs, ArmFacts
  <1>3. arm \in Seq([name : STRING, group : Groups]) /\ 2 \in Positional(arm)
    BY ArmFacts
  <1> HIDE DEF arm
  <1>4. /\ DOMAIN arm = 1 .. Len(arm) /\ Len(arm) \in Nat /\ DOMAIN sig = 1 .. Len(arm)
        /\ \A x \in DOMAIN arm : sig[x].kind = KindOf(arm[x])
    BY <1>3, SignatureIs
  <1> HIDE DEF sig
  <1>5. 2 \in DOMAIN arm /\ KindOf(arm[2]) \in {"PositionalOnly", "PositionalOrKeyword"}
    <2> DEFINE p == arm[2]
    <2>1. 2 \in DOMAIN arm /\ p.group \in {"posonly", "args"}
      BY <1>3 DEF Positional
    <2>2. p \in [name : STRING, group : Groups]
      BY <1>3, <1>4, <2>1, ElementOfSeq
    <2> HIDE DEF p
    <2>3. KindOf(p) \in {"PositionalOnly", "PositionalOrKeyword"}
      BY <2>1, <2>2, KindFacts
    <2> QED
      BY <2>1, <2>3 DEF p
  <1> DEFINE C == {x \in DOMAIN sig \ {1} : sig[x].kind \in {"PositionalOnly", "PositionalOrKeyword"}}
  <1>6. 2 \in C
    BY <1>4, <1>5
  <1>7. IsFiniteSet(C)
    <2>1. C \in SUBSET (1 .. Len(arm)) /\ IsFiniteSet(1 .. Len(arm))
      BY <1>4, FS_Interval
    <2> HIDE DEF C
    <2> QED
      BY <2>1, FS_Subset
  <1>8. CouldTake(sig) = Cardinality(C)
    BY DEF CouldTake
  <1> HIDE DEF C
  <1>9. Cardinality(C) # 0
    BY <1>6, <1>7, FS_EmptySet
  <1> QED
    BY <1>2, <1>8, <1>9

\* What is reported is more than what must stay by position.
LEMMA ActionableIsSound ==
  ASSUME Customary, PrivateComeFirst, IInv
  PROVE  ReportIsActionable
  <1> SUFFICES ASSUME Judged, report # {}, ~Unpacks, ~DunderByName, ~ReceiverByDefinition,
                      Valid(call.args, call.keywords)
               PROVE  /\ ByPosition(call.args) \ Receiver # MustStay(call.args)
                      /\ \A r \in report : Cardinality(MustStay(call.args)) <= r.max
    BY DEF ReportIsActionable
  <1>1. SiteIsGiven
    BY DEF IInv
  <1>2. PICK m \in Nat : ByPosition(call.args) = 1 .. m /\ report = Visited(m)
    BY JudgedIs
  <1>3. \A r \in report :
           /\ r.count = Surplus(m) /\ r.max \in Nat /\ r.max < r.count
           /\ Cardinality(Only(Selected)) <= r.max /\ ~GroupIn(Selected, "vararg")
           /\ site.boundary = "competing" => Allowance(Effective) <= r.max
    BY <1>1, <1>2, ReportedRoom
  <1>4. ~GroupIn(Selected, "vararg")
    BY <1>3
  <1> DEFINE s == Supplied(site.base)
             M == MustStay(call.args)
             D == (1 .. m) \ Receiver
  <1>5. /\ \A i \in 1 .. m : i + s \in Positional(Selected)
        /\ M = {i \in D : \/ KindOf(Selected[i + s]) = "PositionalOnly"
                          \/ site.boundary = "competing" /\ i = 1}
    BY <1>1, <1>2, <1>4, StayIs
  <1>6. /\ s \in {0, 1} /\ Leading \in {0, 1}
        /\ site.boundary = "competing" => s = 1 /\ callee.method = "init"
                                          /\ site.base \in {"none", "module"}
        /\ s = 1 => Leading = 1
    BY <1>1, ReceiverIs
  <1>7. /\ Surplus(m) = Cardinality(D) /\ Surplus(m) \in Nat /\ IsFiniteSet(D)
        /\ \A i \in D : i + s \in Leading + 1 .. Leading + Surplus(m)
    BY <1>1, SurplusAre
  <1>8. site.arm \in DOMAIN callee.arms /\ Selected = callee.arms[site.arm]
    BY <1>1 DEF SiteIsGiven, Selected
  <1>9. /\ Only(Selected) \in SUBSET (Leading + 1 .. Len(Selected)) /\ Len(Selected) \in Nat
        /\ \A x \in Only(Selected) : \A y \in Leading + 1 .. x : y \in Only(Selected)
        /\ IsFiniteSet(Only(Selected)) /\ Cardinality(Only(Selected)) \in Nat
    BY <1>1, <1>8, OnlyComeFirst
  <1>10. Only(Selected) = {x \in DOMAIN Selected : x > Leading /\ KindOf(Selected[x]) = "PositionalOnly"}
    BY DEF Only
  <1>11. Positional(Selected) \subseteq DOMAIN Selected
    BY DEF Positional
  <1>12. D \subseteq 1 .. m /\ ByPosition(call.args) \ Receiver = D
    BY <1>2
  <1> HIDE DEF D, M, s
  <1>13. IsFiniteSet(M) /\ Cardinality(M) \in Nat
    <2>1. M \in SUBSET D
      BY <1>5
    <2> QED
      BY <1>7, <2>1, FS_Subset, FS_CardinalityType
  <1>14. \A i \in D : KindOf(Selected[i + s]) = "PositionalOnly" => i + s \in Only(Selected)
    BY <1>5, <1>6, <1>7, <1>10, <1>11, <1>12
  <1>15. ASSUME NEW r \in report
         PROVE  Cardinality(M) <= r.max
    <2>1. /\ r.max \in Nat /\ Cardinality(Only(Selected)) <= r.max
          /\ site.boundary = "competing" => Allowance(Effective) <= r.max
      BY <1>3
    <2>2. CASE \A i \in M : i + s \in Only(Selected)
      <3> DEFINE f == [i \in M |-> i + s]
      <3>1. \A i \in M : i \in Nat
        BY <1>5, <1>12
      <3>2. f \in Injection(M, Only(Selected))
        BY <1>6, <2>2, <3>1 DEF Injection, IsInjective
      <3> HIDE DEF f
      <3>3. Cardinality(M) <= Cardinality(Only(Selected))
        BY <1>9, <3>2, FS_Injection
      <3> QED
        BY <1>9, <1>13, <2>1, <3>3
    <2>3. CASE \E i \in M : i + s \notin Only(Selected)
      <3>1. site.boundary = "competing" /\ 1 \in M /\ 1 + s \notin Only(Selected)
        BY <1>5, <1>14, <2>3
      <3>2. s = 1 /\ Leading = 1 /\ 2 \in Positional(Selected) /\ 2 \notin Only(Selected)
        BY <1>5, <1>6, <1>12, <3>1
      <3>3. Only(Selected) = {}
        <4> SUFFICES ASSUME NEW x \in Only(Selected)
                     PROVE  FALSE
          OBVIOUS
        <4>1. x \in Nat /\ x >= 2 /\ 2 \in Leading + 1 .. x
          BY <1>9, <3>2
        <4> QED
          BY <1>9, <3>2, <4>1
      <3>4. M = {1}
        <4>1. \A i \in M : i = 1
          BY <1>5, <1>14, <3>3
        <4> QED
          BY <3>1, <4>1
      <3>5. Cardinality(M) = 1
        BY <3>4, FS_Singleton
      <3>6. Allowance(Effective) >= 1
        <4>1. Allowance(Effective) \in Nat
          BY <1>1, IndexedFacts
        <4>2. CouldTake(Effective[site.arm]) # 0
          BY <1>1, <1>6, <1>8, <3>1, <3>2, CouldTakeOne
        <4>3. site.arm \in DOMAIN Effective
          BY <1>1, <1>8, EffectiveIs
        <4>4. Allowance(Effective) # 0
          BY <1>1, <3>1, <4>2, <4>3, IndexedFacts
        <4> QED
          BY <4>1, <4>4
      <3>7. Allowance(Effective) \in Nat
        BY <1>1, IndexedFacts
      <3> QED
        BY <2>1, <3>1, <3>5, <3>6, <3>7
    <2> QED
      BY <2>2, <2>3
  <1>16. D # M
    <2>1. PICK r \in report : TRUE
      OBVIOUS
    <2>2. r.count = Surplus(m) /\ r.max \in Nat /\ r.max < r.count
      BY <1>3
    <2>3. Cardinality(M) <= r.max
      BY <1>15
    <2> QED
      BY <1>7, <1>13, <2>2, <2>3
  <1> QED
    BY <1>12, <1>15, <1>16 DEF M

\* A call that is clean passes by position what it must, and *args.
LEMMA CleanIsSound ==
  ASSUME Customary, PrivateComeFirst, IInv
  PROVE  CleanIsStrict
  <1> SUFFICES ASSUME Judged, report = {}, ~Unpacks, Len(callee.arms) = 1,
                      ~Unjudged, ~GroupIn(Selected, "vararg"),
                      ~RoomForReceiver, ~DunderByName, Valid(call.args, call.keywords)
               PROVE  ByPosition(call.args) \ Receiver \subseteq MustStay(call.args)
    BY DEF CleanIsStrict
  <1>1. SiteIsGiven
    BY DEF IInv
  <1>2. PICK m \in Nat : ByPosition(call.args) = 1 .. m /\ report = Visited(m)
    BY JudgedIs
  <1>3. \/ Surplus(m) <= Cardinality(Only(Selected))
        \/ Surplus(m) <= 1 /\ site.boundary = "competing"
    BY <1>1, <1>2, CleanRoom
  <1> DEFINE s == Supplied(site.base)
             D == (1 .. m) \ Receiver
  <1>4. /\ \A i \in 1 .. m : i + s \in Positional(Selected)
        /\ MustStay(call.args) =
              {i \in D : \/ KindOf(Selected[i + s]) = "PositionalOnly"
                         \/ site.boundary = "competing" /\ i = 1}
    BY <1>1, <1>2, StayIs
  <1>5. /\ s \in {0, 1} /\ Leading \in {0, 1}
        /\ site.boundary = "competing" => s = 1
        /\ s = 1 => Leading = 1
    BY <1>1, ReceiverIs
  <1>6. /\ Surplus(m) \in Nat
        /\ \A i \in D : i + s \in Leading + 1 .. Leading + Surplus(m)
    BY <1>1, SurplusAre
  <1>7. site.arm \in DOMAIN callee.arms /\ Selected = callee.arms[site.arm]
    BY <1>1 DEF SiteIsGiven, Selected
  <1>8. /\ Only(Selected) \in SUBSET (Leading + 1 .. Len(Selected)) /\ Len(Selected) \in Nat
        /\ \A x \in Only(Selected) : \A y \in Leading + 1 .. x : y \in Only(Selected)
    BY <1>1, <1>7, OnlyComeFirst
  <1>9. ByPosition(call.args) \ Receiver = D /\ D \subseteq 1 .. m
    BY <1>2
  <1> HIDE DEF D, s
  <1>10. CASE Surplus(m) <= Cardinality(Only(Selected))
    <2>1. Leading + 1 .. Leading + Surplus(m) \subseteq Only(Selected)
      BY <1>5, <1>6, <1>8, <1>10, FirstOf
    <2>2. \A i \in D : KindOf(Selected[i + s]) = "PositionalOnly"
      BY <1>6, <2>1 DEF Only
    <2> QED
      BY <1>4, <1>9, <2>2
  <1>11. CASE Surplus(m) <= 1 /\ site.boundary = "competing"
    <2>1. \A i \in D : i = 1
      <3> SUFFICES ASSUME NEW i \in D
                   PROVE  i = 1
        OBVIOUS
      <3>1. i \in Nat \ {0} /\ i + s \in Leading + 1 .. Leading + Surplus(m)
        BY <1>6, <1>9
      <3>2. s = 1 /\ Leading = 1
        BY <1>5, <1>11
      <3> QED
        BY <1>6, <1>11, <3>1, <3>2
    <2> QED
      BY <1>4, <1>9, <1>11, <2>1
  <1> QED
    BY <1>3, <1>10, <1>11

(***************************************************************************)
(* Theorems                                                                *)
(***************************************************************************)
\* However a call names its callee, and whether the index, a hover of ty, the place of a
\* definition or an overload resolves it, the names that a fix inserts leave each argument
\* bound to the parameter it was bound to, and stay off what must be passed by position
\* (call_fix_insertions, record_ty_fix): all but an override that no check looks for, and
\* Class.__call__(receiver, ...) known by its definition only, which do go wrong
\* (OverrideUnseen, ReceiverByDefinition).
THEOREM FixKeepsWhatIsBound ==
  ASSUME Customary
  PROVE  Spec => []FixKeepsBinding
  <1>1. IInv => FixKeepsBinding
    BY DEF IInv, FixKeepsBinding
  <1> QED
    BY InitHolds, NextHolds, <1>1, PTL DEF Spec

\* A call that a fix gave names is not reported at its next visit, by the index or by
\* ty: to fix twice is to fix once (check_call, violation_max_positional), unless the
\* callee is a dunder called by its name (DunderByName).
THEOREM FixedIsClean ==
  ASSUME Customary
  PROVE  Spec => []FixIsFinal
  <1>1. IInv => FixIsFinal
    BY DEF IInv
  <1> QED
    BY InitHolds, NextHolds, <1>1, PTL DEF Spec

\* A diagnostic is only issued when some argument can get a name, and its maximum leaves
\* room for all that must stay by position (max_positional_at_call_site,
\* constructor_positional_allowance): no report that a caller cannot follow, dunders
\* called by their name (DunderByName) and receivers taken for arguments
\* (ReceiverByDefinition) aside.
THEOREM ReportsCanBeFollowed ==
  ASSUME Customary, PrivateComeFirst
  PROVE  Spec => []ReportIsActionable
  <1>1. IInv => ReportIsActionable
    BY ActionableIsSound
  <1> QED
    BY InitHolds, NextHolds, <1>1, PTL DEF Spec

\* A call of one definition without *args that is judged and let pass has all arguments
\* named that can be (check_call, resolve_pending_with_ty), one that a receiver left in the
\* count makes room for aside (RoomForReceiver, DunderByName).
THEOREM CleanCallsAreStrict ==
  ASSUME Customary, PrivateComeFirst
  PROVE  Spec => []CleanIsStrict
  <1>1. IInv => CleanIsStrict
    BY CleanIsSound
  <1> QED
    BY InitHolds, NextHolds, <1>1, PTL DEF Spec
=============================================================================
