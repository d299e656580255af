------------------------------- MODULE Literals -------------------------------
(***************************************************************************)
(* Which callable an item of a literal container is: what the call checker *)
(* answers for an expression like {"a": f}["a"] or [f, g].pop(0), beside   *)
(* what Python evaluates it to (src/check.rs, resolve_callee and           *)
(* resolve_literal_container_item with the operations on containers they   *)
(* call).  A wrong answer is a false report, and a fix of a call by the    *)
(* parameter names of another function.                                    *)
(*                                                                         *)
(* A behaviour writes a container expression from the inside out, display  *)
(* by display and wrapper by wrapper, and then one operation on it.  An    *)
(* expression carries what the checker finds in it for every key (found,   *)
(* computed from its parts as the recursion of the source does) and the    *)
(* object Python makes of it (value).  Names resolve as module Scopes says *)
(* and are given here by what they are called and what they hold.          *)
(***************************************************************************)
EXTENDS Integers, FiniteSets, Sequences, SequencesExt

CONSTANTS
    Names,           \* the functions that names of the program resolve to
    Elements,        \* what a sequence display may contain
    Items,           \* what a dict display, or the keywords of a call, may contain
    Keys,            \* the keys asked for
    Fields,          \* the fields of the record class, in order
    Sides,           \* the other operand of binary expressions
    MaxItems,        \* bound: elements of a display
    MaxForms,        \* bound: expressions around a display
    Approximations   \* what the checker is known to get wrong, that programs may use

Known == {"keys that are not literals", "popitem of repeated keys", "default factories behind wrappers",
          "lists of mappings", "starred arguments of records"}

ASSUME LiteralsAssumption ==
    /\ \A k \in Keys : k.int \in Nat
    /\ MaxItems \in Nat /\ MaxForms \in Nat
    /\ Approximations \subseteq Known

VARIABLES
    expr,    \* the container expression written so far
    asked    \* the operation on it, when it has been written: the callable found, and
             \* what the operation yields

vars == <<expr, asked>>

Unknown == "?"        \* the checker resolves nothing
Raises == "raises"    \* the evaluation raises, so that no call happens

(***************************************************************************)
(* An atom is an expression that is not a container: the syntax it is      *)
(* written in, the object it is (by a name for it) and, of a number, its   *)
(* magnitude.  An opaque atom is a name the checker knows nothing of.      *)
(* Elements are atoms or starred containers, which expand to a run of      *)
(* atoms; the checker knows the run of a starred display only.  Items of a *)
(* dict have a key unless they spread another mapping: an empty display    *)
(* ("empty") or one with the item's key ("other").                         *)
(***************************************************************************)
Literal == {"int", "float", "bool", "string", "none"}
Callable(f) == [syntax |-> "name", val |-> f, int |-> 0]
Opaque(f) == [syntax |-> "opaque", val |-> f, int |-> 0]
Plain(a) == [star |-> FALSE, known |-> TRUE, run |-> <<a>>]

Resolve(a) == IF a.syntax = "name" THEN a.val ELSE Unknown

SameLiteralKey(a, b) == a.syntax \in Literal /\ b.syntax \in Literal /\ a.val = b.val

Expanded(elts) == FoldLeft(LAMBDA run, e : run \o e.run, <<>>, elts)
KnownWidths(elts) == \A i \in DOMAIN elts : elts[i].known
NoStars(elts) == \A i \in DOMAIN elts : ~elts[i].star

\* Mutated: an index from the end that misses the first element.
LiteralSequenceIndexFromEnd(k, len) ==
    CASE k.syntax \in {"int", "plus"} /\ k.int < len -> k.int + 1
      [] k.syntax = "minus" /\ k.int \in 1 .. len - 1 -> len - k.int + 1
      [] OTHER -> 0

\* The position, from 1, that a literal index selects among len; 0 when none.
LiteralSequenceIndex(k, len) ==
    CASE k.syntax \in {"int", "plus"} /\ k.int < len -> k.int + 1
      [] k.syntax = "minus" /\ k.int \in 1 .. len -> len - k.int + 1
      [] OTHER -> 0

At(run, k) == LET i == LiteralSequenceIndex(k, Len(run))
              IN IF i = 0 THEN Unknown ELSE Resolve(run[i])

Keyed(item) == item.spread = "no"
AllKeyed(items) == \A i \in DOMAIN items : Keyed(items[i])
OnlyStaticItems(items) == \A i \in DOMAIN items : items[i].spread \in {"no", "empty"}

\* The last item of that key: Python keeps the last value of a repeated key.
Selected(items, k) ==
    LET i == SelectLastInSeq(items, LAMBDA item : Keyed(item) /\ SameLiteralKey(item.key, k))
    IN IF i = 0 THEN Unknown ELSE Resolve(items[i].val)

\* The first of several attempts that resolves.
FirstFound(answers) ==
    LET i == SelectInSeq(answers, LAMBDA a : a # Unknown) IN IF i = 0 THEN Unknown ELSE answers[i]

\* One answer for every element, or none.
Homogeneous(atoms) ==
    IF atoms # <<>> /\ \A i \in DOMAIN atoms : Resolve(atoms[i]) = Resolve(atoms[1])
    THEN Resolve(atoms[1]) ELSE Unknown

\* The bounds of a slice, each absent (<<>>) or an integer; the position of the sequence
\* that the selected item of the slice has.
Clamp(n, low, high) == IF n < low THEN low ELSE IF n > high THEN high ELSE n
LiteralSliceOriginalIndex(lower, upper, step, len, k) ==
    LET stride == IF step = <<>> THEN 1 ELSE step[1]
        Normalize(n) == LET m == IF n < 0 THEN n + len ELSE n
                        IN IF stride > 0 THEN Clamp(m, 0, len) ELSE Clamp(m, -1, len - 1)
        start == IF lower # <<>> THEN Normalize(lower[1]) ELSE IF stride > 0 THEN 0 ELSE len - 1
        stop == IF upper # <<>> THEN Normalize(upper[1]) ELSE IF stride > 0 THEN len ELSE -1
        out == CASE stride > 0 /\ start < stop -> (stop - start - 1) \div stride + 1
                 [] stride < 0 /\ start > stop -> (start - stop - 1) \div (-stride) + 1
                 [] OTHER -> 0
        i == LiteralSequenceIndex(k, out)
    IN IF stride = 0 \/ i = 0 THEN 0 ELSE start + (i - 1) * stride + 1

------------------------------------------------------------------------------
(* What Python makes of an expression: a sequence has a run of objects, a   *)
(* mapping entries in order, each key once, and what it answers for a       *)
(* missing key.                                                             *)

Value(class, run, entries, missing) ==
    [class |-> class, run |-> run, entries |-> entries, missing |-> missing]
Error == Value("error", <<>>, <<>>, Raises)
Sequence(class, run) == Value(class, run, <<>>, Raises)
Mapping(class, entries) == Value(class, <<>>, entries, Raises)

Sequences == {"list", "tuple", "collections.UserList"}
IsSequence(v) == v.class \in Sequences
IsMapping(v) == v.class \notin Sequences \cup {"set", "error", "pairs"}
Objects(atoms) == [i \in DOMAIN atoms |-> atoms[i].val]

Put(entries, key, val) ==
    LET i == SelectInSeq(entries, LAMBDA e : e[1] = key)
    IN IF i = 0 THEN Append(entries, <<key, val>>) ELSE [entries EXCEPT ![i] = <<key, val>>]
Entries(items) ==
    FoldLeft(LAMBDA es, it : IF it.spread = "empty" THEN es ELSE Put(es, it.key.val, it.val.val), <<>>, items)
Merged(left, right) == FoldLeft(LAMBDA es, e : Put(es, e[1], e[2]), left, right)

Stored(v, key, otherwise) ==
    LET i == SelectInSeq(v.entries, LAMBDA e : e[1] = key)
    IN IF i = 0 THEN otherwise ELSE v.entries[i][2]

Indexed(run, k) ==
    LET n == IF k.syntax = "minus" THEN Len(run) - k.int + 1 ELSE k.int + 1
    IN IF k.syntax \in {"int", "plus", "minus", "bool"} /\ n \in DOMAIN run THEN run[n] ELSE Raises

Lookup(v, k) ==
    CASE IsSequence(v) -> Indexed(v.run, k)
      [] IsMapping(v) -> Stored(v, k.val, v.missing)
      [] OTHER -> Raises

\* Iterating a mapping gives its keys.
Iterated(v) == IF IsMapping(v) THEN [i \in DOMAIN v.entries |-> v.entries[i][1]] ELSE v.run

Truthy(v) == v.run # <<>> \/ v.entries # <<>>

\* Python's slice, by its definition: the items with index start + n * step before stop.
Sliced(run, lower, upper, step) ==
    LET len == Len(run)
        s == IF step = <<>> THEN 1 ELSE step[1]
        End(n) == IF n < 0 THEN n + len ELSE n
        Within(x) == /\ x \in 0 .. len - 1
                     /\ lower # <<>> => IF s > 0 THEN x >= End(lower[1]) ELSE x <= End(lower[1])
                     /\ upper # <<>> => IF s > 0 THEN x < End(upper[1]) ELSE x > End(upper[1])
        first == IF s > 0 THEN (IF lower = <<>> THEN 0 ELSE Clamp(End(lower[1]), 0, len))
                 ELSE (IF lower = <<>> THEN len - 1 ELSE Clamp(End(lower[1]), -1, len - 1))
        at == SelectSeq([n \in 1 .. len |-> first + (n - 1) * s], Within)
    IN [n \in DOMAIN at |-> run[at[n] + 1]]

------------------------------------------------------------------------------
(* Expressions.                                                             *)

Nothing == [k \in Keys |-> Unknown]
NoArgument == [form |-> "none", class |-> "", elts |-> <<>>, items |-> <<>>, found |-> Nothing, missing |-> Raises]
Argument(e) == [form |-> e.form, class |-> e.class, elts |-> e.elts, items |-> e.items, found |-> e.found,
                missing |-> IF e.value.missing = Raises THEN e.arg.missing ELSE e.value.missing]

Expr(form, class, elts, items, found, value, arg, depth) ==
    [form |-> form, class |-> class, elts |-> elts, items |-> items, found |-> found,
     value |-> value, arg |-> arg, depth |-> depth]

Call(class, e, found, value) == Expr("call", class, <<>>, <<>>, found, value, Argument(e), e.depth + 1)
Binary(form, e, found, value) == Expr(form, "", <<>>, <<>>, found, value, [NoArgument EXCEPT !.missing = Argument(e).missing], e.depth + 1)

\* There is no default factory inside, which the checker would take for an item.
NoFactory(argument) == argument.missing = Raises \/ "default factories behind wrappers" \in Approximations

ListOrTuple(e) == e.form \in {"list", "tuple"}

\* A display: of a list or tuple by index, of a dict by key, of a set never.
StarredSequenceItem(elts) == [k \in Keys |-> IF KnownWidths(elts) THEN At(Expanded(elts), k) ELSE Unknown]
DictItem(items) == [k \in Keys |-> IF OnlyStaticItems(items) THEN Selected(items, k) ELSE Unknown]
SequenceDisplay(form, elts) ==
    Expr(form, "", elts, <<>>, IF form = "set" THEN Nothing ELSE StarredSequenceItem(elts),
         Sequence(form, Objects(Expanded(elts))), NoArgument, 0)
DictDisplay(items) == Expr("dict", "", <<>>, items, DictItem(items), Mapping("dict", Entries(items)), NoArgument, 0)
\* A list of (key, value) tuples: its items are tuples, which resolve to nothing.
PairsDisplay(items) == Expr("pairs", "", <<>>, items, Nothing, Value("pairs", <<>>, Entries(items), Raises), NoArgument, 0)

\* What is definitely known of an operand's truth from its display alone.
ContainerTruthiness(e) ==
    CASE ListOrTuple(e) \/ e.form = "set" ->
            IF e.elts = <<>> THEN {FALSE} ELSE IF \E i \in DOMAIN e.elts : ~e.elts[i].star THEN {TRUE} ELSE {}
      [] e.form = "dict" ->
            IF e.items = <<>> THEN {FALSE} ELSE IF \E i \in DOMAIN e.items : Keyed(e.items[i]) THEN {TRUE} ELSE {}
      [] OTHER -> {}

\* Mutated: the first operand with such an item.
FirstOperandItem(op, es, k) == FirstFound([i \in DOMAIN es |-> es[i].found[k]])

\* a or b, a and b: every operand that may be the result must have the same item.
BooleanContainerItem(op, es, k) ==
    LET candidate(i) == es[i].found[k]
        truth(i) == LET known == ContainerTruthiness(es[i])
                    IN IF known = {} /\ candidate(i) # Unknown THEN {TRUE} ELSE known
        stops == op = "or"
        MayReturn(i) == i = Len(es) \/ truth(i) # {~stops}
        MayContinue(i) == truth(i) # {stops}
        returned == {i \in DOMAIN es : MayReturn(i) /\ \A j \in 1 .. i - 1 : MayContinue(j)}
        found == {candidate(i) : i \in returned}
    IN IF Cardinality(found) = 1 THEN CHOOSE c \in found : TRUE ELSE Unknown
BooleanValue(op, es) ==
    LET i == SelectInSeq(es, LAMBDA e : Truthy(e.value) = (op = "or"))
    IN es[IF i = 0 THEN Len(es) ELSE i].value

\* UserList of a dict display: its keys, each once.
UserListOfDict(items) ==
    LET Same(a, b) == SameLiteralKey(a, b) \/ (Resolve(a) # Unknown /\ Resolve(a) = Resolve(b))
        keys == FoldLeft(LAMBDA ks, it : IF \E i \in DOMAIN ks : Same(ks[i], it.key) THEN ks ELSE Append(ks, it.key),
                         <<>>, items)
    IN [k \in Keys |-> IF AllKeyed(items) THEN At(keys, k) ELSE Unknown]

------------------------------------------------------------------------------
(* Writing an expression.                                                   *)

Writable == asked = {} /\ expr.depth < MaxForms /\ expr.value.class # "error"
Write(e) == expr' = e /\ UNCHANGED asked

\* Displays, element by element.
AddElement ==
    /\ asked = {} /\ expr.form \in {"list", "tuple", "set"} /\ Len(expr.elts) < MaxItems
    /\ \E e \in Elements : Write(SequenceDisplay(expr.form, Append(expr.elts, e)))
AddItem ==
    /\ asked = {} /\ expr.form \in {"dict", "pairs"} /\ Len(expr.items) < MaxItems
    /\ \E item \in Items :
        /\ item.key.syntax \in Literal \cup {"name"} \/ "keys that are not literals" \in Approximations
        /\ expr.form = "pairs" => Keyed(item)
        /\ Write(IF expr.form = "dict" THEN DictDisplay(Append(expr.items, item))
                 ELSE PairsDisplay(Append(expr.items, item)))

\* A named tuple, a dataclass or a namespace called with keywords, and with mappings
\* spread among them; a keyword given twice, or that no field has, raises.
Keyword(items, name) ==
    LET i == SelectInSeq(items, LAMBDA it : Keyed(it) /\ it.key.val = name)
    IN IF i = 0 THEN Unknown ELSE Resolve(items[i].val)
Keywords(class, items) ==
    LET given == SelectSeq(items, LAMBDA it : it.spread # "empty")
        names == {given[i].key.val : i \in DOMAIN given}
        Of(name) == IF name \in names THEN Stored(Mapping("", Entries(items)), name, Raises) ELSE "default"
    IN IF \/ Cardinality(names) < Len(given)
          \/ class # "types.SimpleNamespace" /\ ~(names \subseteq Range(Fields))
       THEN Error
       ELSE IF class = "types.SimpleNamespace" THEN Mapping(class, Entries(items))
       ELSE Mapping(class, [i \in DOMAIN Fields |-> <<Fields[i], Of(Fields[i])>>])
Records == {"namedtuple", "dataclass", "types.SimpleNamespace"}
Construct ==
    /\ Writable /\ expr.form = "dict"
    /\ \A i \in DOMAIN expr.items : expr.items[i].key.syntax = "string"
    /\ \E class \in Records :
        Write(Expr("call", class, <<>>, expr.items, Nothing, Keywords(class, expr.items), NoArgument, expr.depth + 1))

\* e.copy(): of a list or dict display, a mapping proxy, or a UserList.
CopyMethod ==
    /\ Writable
    /\ LET copied == \/ expr.form \in {"list", "dict"}
                     \/ expr.class \in {"types.MappingProxyType", "collections.UserList"}
       IN Write(Call("copy", expr, IF copied THEN expr.found ELSE Nothing,
                     IF expr.value.class \in Records \cup {"tuple"} THEN Error
                     ELSE IF expr.value.class = "types.MappingProxyType" THEN [expr.value EXCEPT !.class = "dict"]
                     ELSE expr.value))

\* copy.copy and copy.deepcopy of anything; a mapping proxy cannot be copied.
CopyFunction ==
    Writable /\ Write(Call("copy.copy", expr, expr.found,
                           IF expr.value.class = "types.MappingProxyType" THEN Error ELSE expr.value))

UserList ==
    /\ Writable /\ expr.form # "pairs" /\ expr.value.class \notin Records
    /\ expr.form # "dict" /\ IsMapping(expr.value) => "lists of mappings" \in Approximations
    /\ Write(Call("collections.UserList", expr,
                  IF expr.form = "dict" THEN UserListOfDict(expr.items) ELSE expr.found,
                  Sequence("collections.UserList", Iterated(expr.value))))

DictFromKeys ==
    /\ Writable /\ ListOrTuple(expr)
    /\ \E f \in Names :
        LET found == [k \in Keys |-> IF \E i \in DOMAIN expr.elts : /\ ~expr.elts[i].star
                                                                    /\ SameLiteralKey(expr.elts[i].run[1], k)
                                     THEN f ELSE Unknown]
            pairs == [i \in DOMAIN Expanded(expr.elts) |-> <<Expanded(expr.elts)[i].val, f>>]
        IN Write(Call("dict.fromkeys", expr, found, Mapping("dict", Merged(<<>>, pairs))))

\* defaultdict(lambda: f), and with a mapping, which no subscript is resolved in.
DefaultDict ==
    /\ Writable
    /\ \E f \in Names :
        \/ expr.form = "dict" /\ expr.items = <<>>
           /\ Write(Expr("call", "collections.defaultdict", <<>>, <<>>, [k \in Keys |-> f],
                         Value("collections.defaultdict", <<>>, <<>>, f), NoArgument, expr.depth + 1))
        \/ IsMapping(expr.value) /\ expr.value.class \notin Records
           /\ Write(Call("collections.defaultdict", expr, Nothing,
                         Value("collections.defaultdict", <<>>, expr.value.entries, f)))

\* Mappings that present the items of another: copies of it, or views of it.
Views == {"collections.ChainMap", "types.MappingProxyType"}
Copies == {"collections.OrderedDict", "collections.UserDict", "weakref.WeakValueDictionary"}
FactoryOnly(e) == e.class = "collections.defaultdict" /\ e.arg.form = "none"
Wrap ==
    /\ Writable
    /\ \E class \in Views \cup Copies :
        /\ expr.form = "pairs" => class \in {"collections.OrderedDict", "collections.UserDict"}
        /\ IsMapping(expr.value) \/ expr.form = "pairs"
        /\ expr.value.class \notin Records
        /\ Write(Call(class, expr, IF class \in Copies /\ FactoryOnly(expr) THEN Nothing ELSE expr.found,
                      Value(class, <<>>, expr.value.entries, IF class \in Views THEN expr.value.missing ELSE Raises)))

\* WeakKeyDictionary of a dict display, whose items no subscript is resolved in.
WeakKeyDictionary ==
    /\ Writable /\ expr.form = "dict"
    /\ Write(Call("weakref.WeakKeyDictionary", expr, Nothing,
                  Mapping("weakref.WeakKeyDictionary", expr.value.entries)))

NewChild ==
    /\ Writable /\ expr.class = "collections.ChainMap"
    /\ Write(Call("new_child", expr, expr.found, expr.value))

\* a if c else b: the same item on both sides.
Conditional ==
    /\ Writable
    /\ \E other \in Sides : \E v \in {expr.value, other.value} :
        Write(Binary("if", expr, [k \in Keys |-> IF expr.found[k] = other.found[k] THEN expr.found[k] ELSE Unknown], v))

\* A default factory makes a candidate of an empty mapping, which is false.
Boolean ==
    /\ Writable
    /\ \E op \in {"or", "and"}, other \in Sides : \E es \in {<<expr, other>>, <<other, expr>>} :
        /\ \A i \in 1 .. 2 : NoFactory(Argument(es[i]))
        /\ \A i \in 1 .. 2 : es[i].value.class \notin Records
        /\ Write(Binary("bool", expr, [k \in Keys |-> BooleanContainerItem(op, es, k)], BooleanValue(op, es)))

\* left + right, and operator.concat(left, right), which expands starred displays.
Joined(e, other) == e.elts \o other.elts
Add ==
    /\ Writable /\ ListOrTuple(expr)
    /\ \E other \in Sides :
        /\ other.form = expr.form
        /\ Write(Binary("add", expr,
                        [k \in Keys |-> IF NoStars(Joined(expr, other)) THEN At(Expanded(Joined(expr, other)), k) ELSE Unknown],
                        Sequence(expr.form, expr.value.run \o other.value.run)))
Concat ==
    /\ Writable /\ ListOrTuple(expr)
    /\ \E other \in Sides :
        /\ other.form = expr.form
        /\ Write(Call("operator.concat", expr, StarredSequenceItem(Joined(expr, other)),
                      Sequence(expr.form, expr.value.run \o other.value.run)))
\* sum([group, ...], start) of lists without stars.
SumOfLists ==
    /\ Writable /\ expr.form = "list"
    /\ \E start \in Sides :
        LET all == Joined(start, expr)
        IN /\ start.form = "list"
           /\ Write(Call("builtins.sum", expr,
                         [k \in Keys |-> IF NoStars(all) THEN At(Expanded(all), k) ELSE Unknown],
                         Sequence("list", start.value.run \o expr.value.run)))

Multiply ==
    /\ Writable /\ ListOrTuple(expr)
    /\ \E n \in 0 .. 2 :
        LET Times(run) == IF n = 0 \/ run = <<>> THEN <<>>
                          ELSE [i \in 1 .. Len(run) * n |-> run[((i - 1) % Len(run)) + 1]]
        IN Write(Binary("multiply", expr,
                        [k \in Keys |-> IF NoStars(expr.elts) THEN At(Times(Expanded(expr.elts)), k) ELSE Unknown],
                        Sequence(expr.form, Times(expr.value.run))))

Bounds == {<<>>} \cup {<<n>> : n \in -3 .. 3}
SliceItem(elts, lower, upper, step) ==
    [k \in Keys |->
        LET i == LiteralSliceOriginalIndex(lower, upper, step, Len(elts), k)
        IN IF NoStars(elts) /\ i # 0 THEN Resolve(elts[i].run[1]) ELSE Unknown]
Slice ==
    /\ Writable /\ ListOrTuple(expr)
    /\ \E lower \in Bounds, upper \in Bounds, step \in {<<>>, <<-2>>, <<-1>>, <<2>>} :
        Write(Binary("slice", expr, SliceItem(expr.elts, lower, upper, step),
                     Sequence(expr.form, Sliced(expr.value.run, lower, upper, step))))
\* itemgetter(slice(lower, upper))(e)
ItemGetterSlice ==
    /\ Writable /\ ListOrTuple(expr)
    /\ \E lower \in Bounds, upper \in Bounds :
        Write(Call("operator.itemgetter", expr, SliceItem(expr.elts, lower, upper, <<>>),
                   Sequence(expr.form, Sliced(expr.value.run, lower, upper, <<>>))))

\* left | right of dict displays, and of such unions: the right side first.
Union ==
    /\ Writable /\ expr.form \in {"dict", "union"}
    /\ \E other \in Sides :
        LET items == expr.items \o other.items
        IN /\ other.form = "dict"
           /\ Write(Expr("union", "", <<>>, items,
                         [k \in Keys |-> IF AllKeyed(items) THEN Selected(items, k) ELSE Unknown],
                         Mapping("dict", Merged(expr.value.entries, other.value.entries)), NoArgument, expr.depth + 1))

\* The fields of a record by name: nt._asdict(), dataclasses.asdict(d), vars(ns).
AsDict ==
    /\ Writable /\ expr.class \in Records
    /\ LET Field(k) == /\ k.syntax = "string"
                       /\ expr.class = "dataclass" => k.val \in Range(Fields)
       IN Write(Call("asdict", expr, [k \in Keys |-> IF Field(k) THEN Keyword(expr.items, k.val) ELSE Unknown],
                     [expr.value EXCEPT !.class = "dict"]))
\* And by position: dataclasses.astuple(d), nt._replace(field=f).
FieldAt(k) == LET i == LiteralSequenceIndex(k, Len(Fields)) IN IF i = 0 THEN Unknown ELSE Fields[i]
AsTuple ==
    /\ Writable /\ expr.class = "dataclass"
    /\ Write(Call("astuple", expr, [k \in Keys |-> Keyword(expr.items, FieldAt(k))],
                  Sequence("tuple", [i \in DOMAIN Fields |-> expr.value.entries[i][2]])))
Replace ==
    /\ Writable /\ expr.class = "namedtuple"
    /\ \E f \in Names, replaced \in Range(Fields) :
        LET Item(k) == IF FieldAt(k) = replaced THEN f ELSE Keyword(expr.items, FieldAt(k))
        IN Write(Call("_replace", expr, [k \in Keys |-> Item(k)],
                      Sequence("tuple", [i \in DOMAIN Fields |->
                                           IF Fields[i] = replaced THEN f ELSE expr.value.entries[i][2]])))
\* nt._make([...]): an element for each field, or it raises; a star counts as one element.
Make ==
    /\ Writable /\ ListOrTuple(expr)
    /\ NoStars(expr.elts) \/ "starred arguments of records" \in Approximations
    /\ LET elts == [i \in DOMAIN expr.elts |-> IF expr.elts[i].star THEN Opaque("*") ELSE expr.elts[i].run[1]]
       IN Write(Call("_make", expr, [k \in Keys |-> IF Len(elts) = Len(Fields) THEN At(elts, k) ELSE Unknown],
                     IF Len(expr.value.run) = Len(Fields) THEN Sequence("tuple", expr.value.run) ELSE Error))

------------------------------------------------------------------------------
(* The operation that is called: what is found and what it yields.          *)

Ask(found, yields) == asked' = {[found |-> found, yields |-> yields]} /\ UNCHANGED expr
Askable == asked = {} /\ expr.value.class # "error"

\* e[k], e.__getitem__(k), operator.getitem(e, k), operator.itemgetter(k)(e).
GetItem == Askable /\ expr.value.class \notin Records /\ \E k \in Keys : Ask(expr.found[k], Lookup(expr.value, k))

\* The mapping a method is resolved in, and whether a default may be chosen: only when
\* every key of a display is a literal and none is the key.
DefaultChosen(e, k) ==
    /\ e.form = "dict" /\ k.syntax \in Literal
    /\ \A i \in DOMAIN e.items : /\ Keyed(e.items[i]) /\ e.items[i].key.syntax \in Literal
                                 /\ ~SameLiteralKey(e.items[i].key, k)

\* e.get(k), e.get(k, default); a default of <<>> is none.
Getters == Views \cup Copies \cup {"collections.defaultdict"}
DictGet(k, default) ==
    LET mapping == IF expr.form = "dict" THEN Argument(expr) ELSE expr.arg
    IN IF ~(expr.form = "dict" \/ expr.class \in Getters) \/ mapping.form = "none" THEN Unknown
       ELSE IF mapping.found[k] # Unknown THEN mapping.found[k]
       ELSE IF default # <<>> /\ DefaultChosen(mapping, k) THEN default[1] ELSE Unknown
\* WeakKeyDictionary({f: g}).get(f): by literal key, or by the same name.
WeakKeyDictGet(k) ==
    LET Same(a) == SameLiteralKey(a, k) \/ (a.syntax \in {"name", "opaque"} /\ a = k)
        i == SelectLastInSeq(expr.arg.items, LAMBDA item : Same(item.key))
    IN IF expr.class = "weakref.WeakKeyDictionary" /\ AllKeyed(expr.arg.items) /\ i # 0
       THEN Resolve(expr.arg.items[i].val) ELSE Unknown

Defaults == {<<>>} \cup {<<f>> : f \in Names}
Given(default) == IF default = <<>> THEN "None" ELSE default[1]
Get ==
    /\ Askable /\ IsMapping(expr.value) /\ expr.value.class \notin Records
    /\ NoFactory(expr.arg)
    /\ \E k \in Keys, default \in Defaults : Ask(FirstFound(<<DictGet(k, default), IF default = <<>> THEN WeakKeyDictGet(k) ELSE Unknown>>),
            Stored(expr.value, k.val, Given(default)))

\* e.setdefault(k, default), of any receiver; views are read through, or refuse it.
KnownMissing(k) ==
    \/ expr.form = "dict" /\ AllKeyed(expr.items)
       /\ ~\E i \in DOMAIN expr.items : SameLiteralKey(expr.items[i].key, k)
    \/ expr.class = "collections.OrderedDict" /\ expr.arg.form = "dict" /\ expr.arg.items = <<>>
    \/ FactoryOnly(expr)
LiteralSetDefault(k, f) ==
    IF ~FactoryOnly(expr) /\ expr.found[k] # Unknown THEN expr.found[k]
    ELSE IF k.syntax \in Literal /\ KnownMissing(k) THEN f ELSE Unknown
SetDefault ==
    /\ Askable /\ IsMapping(expr.value) /\ expr.value.class \notin Records \cup {"types.MappingProxyType"}
    /\ FactoryOnly(expr) \/ expr.class = "collections.ChainMap" \/ NoFactory(Argument(expr))
    /\ \E k \in Keys, f \in Names :
        Ask(LiteralSetDefault(k, f),
            Stored(expr.value, k.val, IF expr.value.class = "collections.ChainMap" /\ expr.value.missing # Raises
                                      THEN expr.value.missing ELSE f))

\* e.pop(k), e.pop(k, default).
Popped == {"collections.ChainMap", "collections.OrderedDict", "collections.UserDict"}
WeakValueDictPop(k) == IF expr.class = "weakref.WeakValueDictionary" THEN expr.arg.found[k] ELSE Unknown
CollectionsMappingPop(k, default) ==
    LET mapping == IF expr.form = "dict" THEN Argument(expr) ELSE expr.arg
    IN IF expr.form # "dict" /\ expr.class \notin Popped THEN Unknown
       ELSE IF mapping.found[k] # Unknown THEN mapping.found[k]
       ELSE IF default # <<>> /\ DefaultChosen(mapping, k) THEN default[1] ELSE Unknown
Pop ==
    /\ Askable /\ IsMapping(expr.value) /\ expr.value.class \notin Records \cup {"types.MappingProxyType"}
    /\ NoFactory(expr.arg)
    /\ \E k \in Keys, default \in Defaults :
        Ask(FirstFound(<<IF default = <<>> THEN WeakValueDictPop(k) ELSE Unknown, CollectionsMappingPop(k, default)>>),
            Stored(expr.value, k.val, IF default = <<>> THEN Raises ELSE default[1]))

\* e.popitem()[1] and [0]: the last item of the display, the first of a UserDict's.
EndOf(items, first) == IF AllKeyed(items) /\ items # <<>> THEN {items[IF first THEN 1 ELSE Len(items)]} ELSE {}
ValueOf(ends) == IF ends = {} THEN Unknown ELSE Resolve((CHOOSE e \in ends : TRUE).val)
KeyOf(ends) == IF ends = {} THEN Unknown ELSE Resolve((CHOOSE e \in ends : TRUE).key)
OrderedDictPopItemValue ==
    IF expr.class \in {"collections.OrderedDict", "collections.UserDict"} /\ expr.arg.form \in {"dict", "pairs"}
    THEN ValueOf(EndOf(expr.arg.items, expr.class = "collections.UserDict")) ELSE Unknown
LiteralDictPopItemValue == IF expr.form = "dict" THEN ValueOf(EndOf(expr.items, FALSE)) ELSE Unknown
WeakDictPopItemValue(class) ==
    IF expr.class = class /\ expr.arg.form = "dict" THEN ValueOf(EndOf(expr.arg.items, FALSE)) ELSE Unknown
WeakKeyDictPopItemKey ==
    IF expr.class = "weakref.WeakKeyDictionary" /\ expr.arg.form = "dict"
    THEN KeyOf(EndOf(expr.arg.items, FALSE)) ELSE Unknown
RepeatedKeys(items) == \E i, j \in DOMAIN items : i # j /\ items[i].key.val = items[j].key.val
PopItem ==
    /\ Askable /\ IsMapping(expr.value) /\ expr.value.class \notin Records \cup Views /\ expr.value.entries # <<>>
    /\ RepeatedKeys(expr.items \o expr.arg.items) => "popitem of repeated keys" \in Approximations
    /\ LET entry == expr.value.entries[IF expr.value.class = "collections.UserDict" THEN 1 ELSE Len(expr.value.entries)]
       IN \/ Ask(FirstFound(<<OrderedDictPopItemValue, LiteralDictPopItemValue,
                              WeakDictPopItemValue("weakref.WeakValueDictionary"),
                              WeakDictPopItemValue("weakref.WeakKeyDictionary")>>), entry[2])
          \/ Ask(WeakKeyDictPopItemKey, entry[1])
=============================================================================
