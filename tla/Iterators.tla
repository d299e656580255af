------------------------------ MODULE Iterators ------------------------------
(***************************************************************************)
(* The operations on a literal container that yield some element of it, or *)
(* the first item of an iterator over it: pop, choice, next and the        *)
(* iterators of builtins, itertools and collections (src/check.rs,         *)
(* resolve_callee, next_result_signature, deque_result_signature).  With   *)
(* module Literals, which writes the container.                            *)
(*                                                                         *)
(* Several of them answer a signature without parameter names, the shape   *)
(* of a callable, because elements of one shape are judged alike.  What an *)
(* operation may yield is a set: the order of a set, a random choice and   *)
(* the predicate of a filter are not the checker's to know.                *)
(***************************************************************************)
EXTENDS Literals

CONSTANTS
    Shape,           \* the signature of each function without its parameter names
    Habits           \* what these operations are known to get wrong, that programs may use

KnownHabits == {"defaults of next", "starred arguments of iterators", "bounded deques",
                "elements after a star", "predecessors of sorter graphs"}

ASSUME IteratorsAssumption == DOMAIN Shape = Names /\ Habits \subseteq KnownHabits

\* A starred element is an atom of its own, which resolves to nothing.
Atoms(elts) == [i \in DOMAIN elts |-> IF elts[i].star THEN Opaque("*") ELSE elts[i].run[1]]
KeyAtoms(items) == [i \in DOMAIN items |-> IF Keyed(items[i]) THEN items[i].key ELSE Opaque("*")]
ValueAtoms(items) == [i \in DOMAIN items |-> items[i].val]

UnnamedSignature(a) == IF Resolve(a) = Unknown THEN Unknown ELSE Shape[Resolve(a)]
ShapeOf(val) == IF val = Raises THEN Raises ELSE IF val \in Names THEN Shape[val] ELSE "none"
Common(shapes) == IF Cardinality(shapes) = 1 THEN CHOOSE s \in shapes : TRUE ELSE Unknown
Signature(atoms) == Common({UnnamedSignature(atoms[i]) : i \in DOMAIN atoms})

SequenceForms == {"list", "tuple"}
IterableForms == {"list", "tuple", "set"}
DefiniteEmptyIterable(e) == e.form \in IterableForms \cup {"dict"} /\ e.elts = <<>> /\ e.items = <<>>

\* The elements of a display of one of these forms have one callable, or one shape.
HomogeneousOf(forms, e) == IF e.form \in forms THEN Homogeneous(Atoms(e.elts)) ELSE Unknown
HomogeneousSequence(e) == HomogeneousOf(SequenceForms, e)
HomogeneousMappingKeys(e) == IF e.form = "dict" THEN Homogeneous(KeyAtoms(e.items)) ELSE Unknown
LiteralIterable(e) == IF e.form \in IterableForms THEN Signature(Atoms(e.elts)) ELSE Unknown
LiteralMappingKeys(e) == IF e.form = "dict" THEN Signature(KeyAtoms(e.items)) ELSE Unknown
LiteralMappingValues(e) == IF e.form = "dict" /\ AllKeyed(e.items) THEN Signature(ValueAtoms(e.items)) ELSE Unknown

Display == Askable /\ expr.depth = 0
Some(vals) == IF vals = {} THEN {Raises} ELSE vals
Run == Range(expr.value.run)
KeysOf(v) == {v.entries[i][1] : i \in DOMAIN v.entries}
ValuesOf(v) == {v.entries[i][2] : i \in DOMAIN v.entries}
First(e) == IF IsMapping(e.value) THEN Some({Iterated(e.value)[i] : i \in {1} \cap DOMAIN e.value.entries})
            ELSE IF e.form = "set" THEN Some(Range(e.value.run)) ELSE Some({e.value.run[i] : i \in {1} \cap DOMAIN e.value.run})
AskAny(found, yields) == \E y \in yields : Ask(found, y)
AskShape(found, yields) == \E y \in yields : Ask(found, ShapeOf(y))

------------------------------------------------------------------------------
(* Some element.                                                            *)

LiteralListPop ==
    FirstFound(<<HomogeneousOf({"list"}, expr),
                 IF expr.class = "collections.UserList" /\ expr.arg.form \in SequenceForms
                 THEN Homogeneous(Atoms(expr.arg.elts)) ELSE Unknown>>)
LiteralSetPop == HomogeneousOf({"set"}, expr)
PopElement ==
    /\ Askable /\ (expr.form \in {"list", "set"} \/ expr.class = "collections.UserList")
    /\ AskAny(FirstFound(<<LiteralListPop, LiteralSetPop>>), Some(Run))

\* heapq.heappop([...]) and heapq.heapreplace([...], f).
HeapqResult(replacement) ==
    LET element == HomogeneousOf({"list"}, expr)
    IN IF replacement = <<>> \/ replacement[1] = element THEN element ELSE Unknown
Heapq == Display /\ expr.form = "list" /\ \E r \in Defaults : AskAny(HeapqResult(r), Some(Run))

\* One of a population, and an item of a selection from it.
RandomChoice == HomogeneousSequence(expr)
RandomSampleElement == HomogeneousSequence(expr)
HeapqSelectionElement == HomogeneousSequence(expr)
StatisticsSelector(operation) ==
    IF operation \in {"median_low", "median_high"} /\ Len(expr.elts) # 1 THEN Unknown ELSE HomogeneousSequence(expr)
StatisticsMultimodeElement == HomogeneousSequence(expr)
WeakSetPop == HomogeneousSequence(expr)
PreservingBuiltin == HomogeneousOf(IterableForms, expr)
CounterMostCommonKey == FirstFound(<<HomogeneousSequence(expr), HomogeneousMappingKeys(expr)>>)
CounterPopItemKey == HomogeneousMappingKeys(expr)
Select ==
    /\ Display /\ expr.form \in IterableForms
    /\ \/ \E found \in {RandomChoice, RandomSampleElement, HeapqSelectionElement, StatisticsMultimodeElement,
                        WeakSetPop, PreservingBuiltin, CounterMostCommonKey,
                        StatisticsSelector("mode"), StatisticsSelector("median_low")} : AskAny(found, Some(Run))
SelectKey ==
    /\ Display /\ expr.form = "dict"
    /\ \E found \in {CounterMostCommonKey, CounterPopItemKey} : AskAny(found, Some(KeysOf(expr.value)))

\* sorted([...])[k]: any element, when there are that many.
SortedSubscript(k) ==
    IF expr.form \in IterableForms /\ LiteralSequenceIndex(k, Len(expr.elts)) # 0 THEN PreservingBuiltin ELSE Unknown
Sorted == Display /\ expr.form \in IterableForms /\ \E k \in Keys : AskAny(SortedSubscript(k), Some(Run))

\* min and max of an empty display, and next of an iterator over one, with a default.
NextEmptyDefault(f) == IF DefiniteEmptyIterable(expr) THEN f ELSE Unknown
MinMaxEmptyDefault(f) == IF DefiniteEmptyIterable(expr) THEN f ELSE Unknown
EmptyDefault ==
    /\ Display /\ expr.form \in IterableForms \cup {"dict"}
    /\ \E f \in Names :
        \/ AskAny(NextEmptyDefault(f), IF First(expr) = {Raises} THEN {f} ELSE First(expr))
        \/ AskAny(FirstFound(<<MinMaxEmptyDefault(f), PreservingBuiltin>>),
                  IF Some(Run \cup KeysOf(expr.value)) = {Raises} THEN {f} ELSE Some(Run \cup KeysOf(expr.value)))

\* deque(e)[k], and pop and popleft of one: shapes.  A bounded deque keeps the last items.
DequeItem(k) == LET i == LiteralSequenceIndex(k, Len(expr.elts))
                IN IF i = 0 THEN Unknown ELSE UnnamedSignature(Atoms(expr.elts)[i])
Deque ==
    /\ Display /\ expr.form \in SequenceForms
    /\ NoStars(expr.elts) \/ "elements after a star" \in Habits
    /\ \E k \in Keys, bounded \in BOOLEAN :
        /\ bounded => "bounded deques" \in Habits
        /\ AskShape(DequeItem(k), {Indexed(IF bounded THEN SubSeq(expr.value.run, 2, Len(expr.value.run)) ELSE expr.value.run, k)})
DequePop == Display /\ expr.form \in SequenceForms /\ AskShape(Signature(Atoms(expr.elts)), Some(Run))

\* ts.get_ready()[0] of a TopologicalSorter: a node without predecessors, and the values
\* of the graph are predecessors.
TopologicalSorterGraph == HomogeneousMappingKeys(expr)
GetReady ==
    /\ Display /\ expr.form = "dict" /\ AllKeyed(expr.items) /\ expr.items # <<>>
    /\ \E independent \in BOOLEAN :
        /\ independent \/ "predecessors of sorter graphs" \in Habits
        /\ AskAny(TopologicalSorterGraph, IF independent THEN KeysOf(expr.value)
                                          ELSE Some(ValuesOf(expr.value) \ KeysOf(expr.value)))

------------------------------------------------------------------------------
(* The fields of a record by name.                                          *)

\* A namespace's attributes, from keywords and spread displays, each once; a spread of
\* something else leaves all unknown.
SimpleNamespaceAttribute(name) ==
    IF \E i \in DOMAIN expr.items : expr.items[i].spread = "other"
       \/ \E j \in DOMAIN expr.items : i # j /\ Keyed(expr.items[i]) /\ Keyed(expr.items[j])
                                        /\ expr.items[i].key = expr.items[j].key
    THEN Unknown ELSE Keyword(expr.items, name)
DataclassConstructorField(name) ==
    IF expr.class = "dataclass" /\ name \in Range(Fields) THEN Keyword(expr.items, name) ELSE Unknown
NamedTupleConstructorField(name) == IF expr.class = "namedtuple" THEN Keyword(expr.items, name) ELSE Unknown
NamedTupleMakeField(name) ==
    LET i == SelectInSeq(Fields, LAMBDA f : f = name)
    IN IF expr.class = "_make" /\ i \in DOMAIN expr.arg.elts THEN Resolve(Atoms(expr.arg.elts)[i]) ELSE Unknown
FieldNames == {k.val : k \in {key \in Keys : key.syntax = "string"}}
Attribute ==
    /\ Askable /\ expr.class \in Records \cup {"_make"}
    /\ \E name \in FieldNames :
        LET namespace == IF expr.class = "types.SimpleNamespace" THEN SimpleNamespaceAttribute(name) ELSE Unknown
            i == SelectInSeq(Fields, LAMBDA f : f = name)
        IN Ask(FirstFound(<<namespace, DataclassConstructorField(name), NamedTupleConstructorField(name), NamedTupleMakeField(name)>>),
               IF expr.class # "_make" THEN Stored(expr.value, name, Raises)
               ELSE IF i \in DOMAIN expr.value.run THEN expr.value.run[i] ELSE Raises)

\* getattr(namespace, name, default) and inspect.getattr_static(namespace, name): the
\* default of a namespace that has no spread.
GetAttrSimpleNamespace(name, default) ==
    IF Keyword(expr.items, name) # Unknown THEN Keyword(expr.items, name)
    ELSE IF default # <<>> /\ AllKeyed(expr.items) /\ ~\E i \in DOMAIN expr.items : expr.items[i].key.val = name
         THEN default[1] ELSE Unknown
GetAttrStatic(name) == Keyword(expr.items, name)
GetAttr ==
    /\ Askable /\ expr.class = "types.SimpleNamespace"
    /\ \E name \in FieldNames, default \in Defaults :
        Ask(GetAttrSimpleNamespace(name, default), Stored(expr.value, name, IF default = <<>> THEN Raises ELSE default[1]))

------------------------------------------------------------------------------
(* The first item of an iterator.                                           *)

\* next(iter(e)) of a display, of a UserList, a deque or a group of one, and of the keys,
\* values or items of a mapping or of a view of one.
NextIterLiteral(view) ==
    LET source == IF expr.depth = 0 THEN Argument(expr) ELSE expr.arg
        behind == expr.form = "dict" \/ (expr.class \in Views \cup Copies /\ source.form = "dict")
    IN CASE view = "" /\ expr.form \in IterableForms -> Homogeneous(Atoms(expr.elts))
         [] view = "" /\ expr.class = "collections.UserList" /\ source.form \in IterableForms ->
                Homogeneous(Atoms(source.elts))
         [] view \in {"", "keys"} /\ behind -> Homogeneous(KeyAtoms(source.items))
         [] view = "values" /\ behind -> Homogeneous(ValueAtoms(source.items))
         [] OTHER -> Unknown
NextIter ==
    /\ Askable /\ expr.value.class \notin Records /\ expr.form # "pairs"
    /\ \/ AskAny(NextIterLiteral(""), IF IsMapping(expr.value) THEN Some(KeysOf(expr.value)) ELSE First(expr))
       \/ IsMapping(expr.value) /\ AskAny(NextIterLiteral("keys"), Some(KeysOf(expr.value)))
       \/ IsMapping(expr.value) /\ AskAny(NextIterLiteral("values"), Some(ValuesOf(expr.value)))

\* e.__iter__().__next__(), iter(e).__next__(), and the same of values and items.
ExplicitSequenceNext == HomogeneousOf(IterableForms, expr)
ExplicitBuiltinNext == HomogeneousOf(IterableForms, expr)
ExplicitDictNext ==
    IF expr.form = "dict" /\ AllKeyed(expr.items) THEN Homogeneous(ValueAtoms(expr.items)) ELSE Unknown
ExplicitNext ==
    /\ Display
    /\ \/ expr.form \in IterableForms /\ \E found \in {ExplicitSequenceNext, ExplicitBuiltinNext} : AskAny(found, First(expr))
       \/ expr.form = "dict" /\ AskAny(ExplicitDictNext, Some(ValuesOf(expr.value)))

\* next(it, default): the answers below disregard a default, which only an iterator that
\* can be empty although its display is not will yield.
OrDefault(yields, mayEnd, f) == yields \cup (IF mayEnd /\ "defaults of next" \in Habits THEN {f} ELSE {})

GeneratorExpressionItem == LiteralIterable(expr)
ReversedItem == LiteralIterable(expr)
ReduceResult == LiteralIterable(expr)
WeakSetCopyItem == LiteralIterable(expr)
BuiltinIteratorItem(fn, other) ==
    CASE fn \in {"iter", "map", "filter"} -> LiteralIterable(expr)
      [] fn = "reversed" -> IF expr.form \in SequenceForms THEN LiteralIterable(expr) ELSE Unknown
      [] fn \in {"enumerate", "zip 0"} -> LiteralIterable(expr)
      [] fn = "zip 1" -> LiteralIterable(other)
      [] OTHER -> Unknown
NextBuiltin ==
    /\ Display /\ expr.form \in IterableForms
    /\ \/ \E found \in {GeneratorExpressionItem, ReversedItem, ReduceResult, WeakSetCopyItem} : AskShape(found, Some(Run))
       \/ \E f \in Names, fn \in {"iter", "map", "filter", "reversed", "enumerate"} :
            AskShape(BuiltinIteratorItem(fn, expr), OrDefault(Some(Run), fn = "filter", f))
       \/ \E other \in Sides, fn \in {"zip 0", "zip 1"} :
            /\ other.form \in IterableForms
            /\ AskShape(BuiltinIteratorItem(fn, other),
                        IF Run = {} \/ other.value.run = <<>> THEN {Raises}
                        ELSE IF fn = "zip 0" THEN Run ELSE Range(other.value.run))

\* The iterators of itertools over one iterable; those that may end early, in spite of a
\* display that is not empty, and those that yield tuples, of which an item is taken.
ItertoolsItem(operation, index) ==
    CASE operation \in {"cycle", "tee", "chain", "accumulate", "islice", "compress", "dropwhile", "takewhile",
                        "filterfalse", "groupby", "pairwise", "permutations", "combinations"} -> LiteralIterable(expr)
      [] operation = "batched" ->
            IF expr.form \in SequenceForms /\ index \in DOMAIN expr.elts
            THEN UnnamedSignature(Atoms(expr.elts)[index]) ELSE Unknown
      [] OTHER -> Unknown
NextItertools ==
    /\ Display /\ expr.form \in IterableForms
    /\ \/ \E f \in Names, operation \in {"cycle", "accumulate"} : AskShape(ItertoolsItem(operation, 0), Some(Run))
       \/ \E f \in Names, operation \in {"islice", "compress", "takewhile", "filterfalse", "permutations"} :
            AskShape(ItertoolsItem(operation, 0), OrDefault(Some(Run), TRUE, f))
       \/ \E index \in 1 .. MaxItems :
            /\ NoStars(expr.elts) \/ "elements after a star" \in Habits
            /\ AskShape(ItertoolsItem("batched", index),
                        IF expr.form = "set" THEN Some(Run)
                        ELSE IF index \in DOMAIN expr.value.run THEN {expr.value.run[index]} ELSE {Raises})

\* chain, product and zip_longest over several iterables, of which the first may be
\* starred: then it stands for any number of them.
ChainItem(es) ==
    LET kept == {i \in DOMAIN es : ~DefiniteEmptyIterable(es[i])}
    IN Common({LiteralIterable(es[i]) : i \in kept})
ProductItem(es, repeat, index) ==
    IF index > Len(es) * repeat THEN Unknown ELSE LiteralIterable(es[((index - 1) % Len(es)) + 1])
NextOfSeveral ==
    /\ Display /\ expr.form \in IterableForms
    /\ \E other \in Sides :
        LET es == <<expr, other>> IN
        /\ other.form \in IterableForms
        /\ \/ AskShape(ChainItem(es), Some(Run \cup Range(other.value.run)))
           \/ \E repeat \in 1 .. 2, index \in 1 .. 4, starred \in BOOLEAN :
                /\ starred => "starred arguments of iterators" \in Habits
                /\ AskShape(ProductItem(es, repeat, index),
                         IF starred THEN {Raises} \cup Names
                         ELSE IF index > 2 * repeat \/ Run = {} \/ other.value.run = <<>> THEN {Raises}
                         ELSE Range(es[((index - 1) % 2) + 1].value.run))

\* iter of values, keys and items of a dict display or of a view of one: shapes.
ViewSource(classes) == IF expr.form = "dict" THEN Argument(expr)
                       ELSE IF expr.class \in classes THEN expr.arg ELSE NoArgument
DictValuesItem == LiteralMappingValues(ViewSource(Views \cup Copies))
DictViewItem(key) ==
    LET source == ViewSource({"collections.ChainMap", "collections.OrderedDict"})
    IN IF key THEN LiteralMappingKeys(source) ELSE LiteralMappingValues(source)
WeakKeyDictionaryItem ==
    IF expr.class = "weakref.WeakKeyDictionary" THEN LiteralMappingKeys(expr.arg) ELSE Unknown
NextOfView ==
    /\ Askable /\ IsMapping(expr.value) /\ expr.value.class \notin Records
    /\ \/ AskShape(DictValuesItem, Some(ValuesOf(expr.value)))
       \/ AskShape(DictViewItem(FALSE), Some(ValuesOf(expr.value)))
       \/ \E found \in {DictViewItem(TRUE), WeakKeyDictionaryItem} : AskShape(found, Some(KeysOf(expr.value)))

------------------------------------------------------------------------------
(* Counters: displays whose values are counts.                              *)

Counts == {"int", "minus"}
IsCounter(e) == e.form = "dict" /\ \A i \in DOMAIN e.items : Keyed(e.items[i]) /\ e.items[i].val.syntax \in Counts
Count(a) == IF a.syntax = "minus" THEN -a.int ELSE a.int
CountOf(e, key) == \* of the object: the last item with it
    LET i == SelectLastInSeq(e.items, LAMBDA it : it.key.val = key) IN IF i = 0 THEN 0 ELSE Count(e.items[i].val)

\* The entries the checker sees: the last count of each key, keys told apart by name.
SameCounterKey(a, b) == SameLiteralKey(a, b) \/ (a.syntax \in {"name", "opaque"} /\ a = b)
CounterEntries(e) ==
    {i \in DOMAIN e.items : ~\E j \in DOMAIN e.items : j > i /\ SameCounterKey(e.items[i].key, e.items[j].key)}
Total(op, l, r) ==
    CASE op = "+" -> l + r
      [] op = "-" -> l - r
      [] op = "&" -> IF l < r THEN l ELSE r
      [] op = "|" -> IF l > r THEN l ELSE r
CounterBinaryItem(op, left, right) ==
    LET Side(e, other, Of(_, _)) ==
            {UnnamedSignature(e.items[i].key) : i \in {j \in CounterEntries(e) :
                LET same == {o \in CounterEntries(other) : SameCounterKey(other.items[o].key, e.items[j].key)}
                IN Of(Count(e.items[j].val), {Count(other.items[o].val) : o \in same})}}
        InLeft(n, others) == Total(op, n, IF others = {} THEN 0 ELSE CHOOSE m \in others : TRUE) > 0
        OnlyRight(n, others) == others = {} /\ op # "&" /\ Total(op, 0, n) > 0
    IN Common(Side(left, right, InLeft) \cup Side(right, left, OnlyRight))
CounterUnaryPlusItem(e) ==
    Common({UnnamedSignature(e.items[i].key) : i \in {j \in DOMAIN e.items : Count(e.items[j].val) > 0}})
CounterElementsItem(e) == FirstFound(<<LiteralIterable(e), LiteralMappingKeys(e)>>)

NextOfCounter ==
    /\ Display /\ IsCounter(expr) /\ expr.items # <<>>
    /\ \/ AskShape(CounterUnaryPlusItem(expr), Some({k \in KeysOf(expr.value) : CountOf(expr, k) > 0}))
       \/ AskShape(CounterElementsItem(expr), Some({k \in KeysOf(expr.value) : CountOf(expr, k) > 0}))
       \/ \E op \in {"+", "-", "&", "|"}, other \in Sides :
            /\ IsCounter(other)
            /\ AskShape(CounterBinaryItem(op, expr, other),
                        Some({k \in KeysOf(expr.value) \cup KeysOf(other.value) :
                                Total(op, CountOf(expr, k), CountOf(other, k)) > 0}))

------------------------------------------------------------------------------
Init ==
    /\ expr \in {SequenceDisplay(form, <<>>) : form \in IterableForms} \cup {DictDisplay(<<>>), PairsDisplay(<<>>)}
    /\ asked = {}

Displays == AddElement \/ AddItem \/ Construct
Containers ==
    \/ CopyMethod \/ CopyFunction \/ UserList \/ DictFromKeys \/ DefaultDict \/ Wrap \/ WeakKeyDictionary \/ NewChild
    \/ Conditional \/ Boolean \/ Add \/ Concat \/ SumOfLists \/ Multiply \/ Slice \/ ItemGetterSlice \/ Union
    \/ AsDict \/ AsTuple \/ Replace \/ Make
Operations ==
    \/ GetItem \/ Get \/ SetDefault \/ Pop \/ PopItem \/ PopElement \/ Heapq \/ Select \/ SelectKey \/ Sorted
    \/ EmptyDefault \/ Deque \/ DequePop \/ GetReady \/ Attribute \/ GetAttr
    \/ NextIter \/ ExplicitNext \/ NextBuiltin \/ NextItertools \/ NextOfSeveral \/ NextOfView
    \/ NextOfCounter

Next == Displays \/ Containers \/ Operations

Spec == Init /\ [][Next]_vars

------------------------------------------------------------------------------
\* What is resolved is what runs: when an operation on a container is resolved to a
\* callable (or to the shape of one) and evaluates at all, it evaluates to that callable
\* (to one of that shape).  Anything else is a false report, or a fix that names the
\* parameters of another function (resolve_callee, "unambiguous callable").
ResolvedIsEvaluated == \A a \in asked : a.found # Unknown /\ a.yields # Raises => a.found = a.yields

\* Nothing plain is missed: an item of a display of names and literal keys, without stars
\* or spreads, asked for by a literal, is resolved whenever it is a function (issues #790
\* and #827: "so the call is fixable").
PlainItemsResolve ==
    LET Plainly(a) == a.syntax \in Literal \cup {"name"}
    IN /\ expr.depth = 0
       /\ expr.form \in {"list", "tuple"} => \A i \in DOMAIN expr.elts : ~expr.elts[i].star /\ Plainly(expr.elts[i].run[1])
       /\ expr.form = "dict" => \A i \in DOMAIN expr.items : /\ Keyed(expr.items[i])
                                                             /\ Plainly(expr.items[i].key) /\ Plainly(expr.items[i].val)
       => \A k \in Keys : k.syntax \in {"int", "minus", "string"} /\ Lookup(expr.value, k) \in Names
                            => expr.found[k] = Lookup(expr.value, k)
=============================================================================
