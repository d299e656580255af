----------------------------- MODULE DataModels -----------------------------
(***************************************************************************)
(* The constructors the index makes up for classes that Python writes one  *)
(* for (src/index/data_model.rs synthesize_data_constructor, and the       *)
(* functional forms of src/index.rs), beside those Python gives them.      *)
(*                                                                         *)
(* The classes of a module are indexed one after another; each has bases   *)
(* among the earlier ones, annotated fields and perhaps a constructor of   *)
(* its own.  `python` follows dataclasses._process_class and NamedTuple:   *)
(* fields are collected along the method resolution order, and a field     *)
(* made again keeps its place.                                             *)
(***************************************************************************)
EXTENDS Integers, FiniteSets, FiniteSetsExt, Sequences, SequencesExt

CONSTANTS
    MaxClasses, MaxFields,  \* bounds: classes, and fields of all of them
    MaxPeculiar,            \* bound: classes and fields that are not the plainest kind
    Approximations          \* what the index is known to get wrong, that programs may use

Known == {"keyword-only fields", "redefined fields", "inherited constructors", "class variables elsewhere",
          "make_dataclass without init", "bases of make_dataclass", "bases in common"}

DataModelsAssumption ==
    /\ {MaxClasses, MaxFields, MaxPeculiar} \subseteq Nat
    /\ Approximations \subseteq Known

VARIABLES
    classes,      \* the classes indexed so far: [maker, bases, fields, written]
    models,       \* data_models: of each class, {} or its [kind, init, runtime]
    signatures,   \* of each class, {} or its constructor: the parameters after the receiver
    synthesized,  \* the classes whose constructor the index made up
    python        \* of each class, by Python: [mro, fields, own, constructor]

modelVars == <<classes, models, signatures, synthesized, python>>

May(a) == a \in Approximations
Dataclasses == {"dataclass", "dataclass(init=False)"}
Functional == {"make_dataclass", "make_dataclass(init=False)", "NamedTuple()"}
Makers == {"undecorated", "NamedTuple"} \cup Dataclasses \cup Functional
Sorts == {"plain", "ClassVar", "InitVar", "init=False", "kw_only", "KW_ONLY"}
Sentinel == [name |-> 0, sort |-> "KW_ONLY"] \* _: KW_ONLY, whatever follows it by keyword only
Names(fields) == [n \in DOMAIN fields |-> fields[n].name]
Of(sorts, fields) == Names(SelectSeq(fields, LAMBDA f : f.sort \in sorts))

\* A written constructor is told apart by its class alone.
Written(c) == <<[name |-> c, kind |-> "written"]>>
ByName(names) == [n \in DOMAIN names |-> [name |-> names[n], kind |-> "PositionalOrKeyword"]]

------------------------------------------------------------------------------
(* The index.                                                               *)

ExtendUnique(fields, new) == fields \o SelectSeq(new, LAMBDA f : f \notin Range(fields))

OwnConstructorFields(class, kind) ==
    IF kind = "Dataclass" THEN Of(Sorts \ {"ClassVar", "init=False"}, class.fields)
    ELSE Of(Sorts \ {"ClassVar"}, class.fields)
WithSentinel(class) == Of({"plain", "init=False", "kw_only", "KW_ONLY"}, class.fields) \* mutated
OwnRuntimeFields(class) == Of({"plain", "init=False", "kw_only"}, class.fields)

BaseModels(class) ==
    LET ids == SelectSeq(class.bases, LAMBDA b : models[b] # {})
    IN [n \in DOMAIN ids |-> CHOOSE m \in models[ids[n]] : TRUE]
Inherits(class, kind) == \E m \in Range(BaseModels(class)) : m.kind = kind

\* What kind of fields a class has, if any.
KindOf(class) ==
    IF class.maker \in Dataclasses \/ Inherits(class, "Dataclass") THEN "Dataclass"
    ELSE IF class.maker = "NamedTuple" \/ Inherits(class, "NamedTuple") THEN "NamedTuple"
    ELSE "none"

\* The fields of the bases, the last base first.
AsWritten(class, kind) == SelectSeq(BaseModels(class), LAMBDA m : m.kind = kind) \* mutated
LastFirst(class, kind) == Reverse(SelectSeq(BaseModels(class), LAMBDA m : m.kind = kind))
BaseFields(class, kind, what) ==
    FoldLeft(LAMBDA fields, m : ExtendUnique(fields, m[what]), <<>>, LastFirst(class, kind))

ClassModel(class) ==
    LET kind == KindOf(class)
        init == BaseFields(class, kind, "init")
        runtime == BaseFields(class, kind, "runtime")
        own == ExtendUnique(init, OwnConstructorFields(class, kind))
    IN IF class.maker \in Dataclasses
       THEN [kind |-> kind, init |-> own, runtime |-> ExtendUnique(runtime, OwnRuntimeFields(class))]
       ELSE IF kind = "NamedTuple" /\ class.maker = "NamedTuple"
       THEN [kind |-> kind, init |-> own, runtime |-> own]
       ELSE [kind |-> kind, init |-> init, runtime |-> runtime]

\* NamedTuple("N", [...]) and make_dataclass("N", [...]).
FunctionalNamedTuple(class) ==
    [kind |-> "NamedTuple", init |-> Names(class.fields), runtime |-> Names(class.fields)]
MakeDataclass(class) ==
    [kind |-> "Dataclass", init |-> Of(Sorts \ {"init=False"}, class.fields),
     runtime |-> Of(Sorts \ {"InitVar"}, class.fields)]

ModelOf(class) ==
    CASE class.maker = "NamedTuple()" -> {FunctionalNamedTuple(class)}
      [] class.maker = "make_dataclass" -> {MakeDataclass(class)}
      [] class.maker = "make_dataclass(init=False)" -> {}
      [] OTHER -> IF KindOf(class) = "none" THEN {} ELSE {ClassModel(class)}

\* A class that writes a constructor has it indexed before one is made up.
Synthesizes(class, model) ==
    model # {} /\ ~class.written /\ class.maker # "dataclass(init=False)"

SynthesizeDataConstructor(class) ==
    LET c == Len(classes) + 1
        model == ModelOf(class)
    IN /\ models' = Append(models, model)
       /\ signatures' = Append(signatures, IF class.written THEN {Written(c)}
                                           ELSE IF Synthesizes(class, model) THEN {ByName(m.init) : m \in model}
                                           ELSE {})
       /\ synthesized' = IF Synthesizes(class, model) THEN synthesized \cup {c} ELSE synthesized

------------------------------------------------------------------------------
(* Python.                                                                  *)

\* C3: the next class is the first that heads a list and is in the tail of none.
RECURSIVE Merge(_)
Merge(lists) ==
    LET ls == SelectSeq(lists, LAMBDA l : l # <<>>)
        next == {n \in DOMAIN ls : \A m \in DOMAIN ls : Head(ls[n]) \notin Range(Tail(ls[m]))}
        c == Head(ls[CHOOSE n \in next : \A m \in next : n <= m])
    IN IF ls = <<>> THEN <<>>
       ELSE IF next = {} THEN <<0>>
       ELSE <<c>> \o Merge([n \in DOMAIN ls |-> IF Head(ls[n]) = c THEN Tail(ls[n]) ELSE ls[n]])
Linearized(bases) == Merge([n \in DOMAIN bases |-> python[bases[n]].mro] \o <<bases>>)

\* dict.update: a field made again keeps its place.
Update(fields, new) ==
    [n \in DOMAIN fields |->
        LET again == {m \in DOMAIN new : new[m].name = fields[n].name}
        IN IF again = {} THEN fields[n] ELSE new[CHOOSE m \in again : TRUE]]
    \o SelectSeq(new, LAMBDA f : f.name \notin Range(Names(fields)))

\* The fields a dataclass declares: the sentinel is none, and those after it are keyword-only.
Declared(fields) ==
    LET after == {n \in DOMAIN fields : \E m \in 1 .. n - 1 : fields[m] = Sentinel}
        sorts == [s \in Sorts |-> CASE s = "plain" -> "kw_only" [] s = "InitVar" -> "kw_only InitVar"
                                     [] OTHER -> s]
        marked == [n \in DOMAIN fields |-> IF n \in after THEN [fields[n] EXCEPT !.sort = sorts[@]]
                                           ELSE fields[n]]
    IN SelectSeq(marked, LAMBDA f : f # Sentinel)

Generated(fields) ==
    LET named == Of({"kw_only", "kw_only InitVar"}, fields)
    IN ByName(Of({"plain", "InitVar"}, fields))
       \o [n \in DOMAIN named |-> [name |-> named[n], kind |-> "KeywordOnly"]]

Collected(ids, own) == Update(FoldLeft(Update, <<>>, [n \in DOMAIN ids |-> python[ids[n]].fields]), own)
Plain(fields) == [n \in DOMAIN fields |-> [fields[n] EXCEPT !.sort = "plain"]]
PythonClass(class, c) ==
    LET mro == Linearized(class.bases)
        tuple == class.maker \in {"NamedTuple", "NamedTuple()"}
        decorated == class.maker \in Dataclasses \cup {"make_dataclass", "make_dataclass(init=False)"}
        heir == {n \in DOMAIN mro : python[mro[n]].fields # <<>>}
        fields == IF tuple THEN Plain(class.fields)
                  ELSE IF decorated THEN Collected(Reverse(mro), Declared(class.fields))
                  ELSE IF heir = {} THEN <<>> ELSE python[mro[CHOOSE n \in heir : \A m \in heir : n <= m]].fields
        made == {n \in DOMAIN mro : python[mro[n]].own # {}}
        own == IF class.written THEN {Written(c)}
               ELSE IF tuple \/ (decorated /\ class.maker \notin {"dataclass(init=False)", "make_dataclass(init=False)"})
               THEN {Generated(fields)} ELSE {}
    IN [mro |-> <<c>> \o mro, fields |-> fields, own |-> own,
        constructor |-> IF own # {} \/ made = {} THEN own
                        ELSE python[mro[CHOOSE n \in made : \A m \in made : n <= m]].own]

------------------------------------------------------------------------------
(* Modules: sequences of classes.                                           *)

AllFields == UNION {Range(classes[c].fields) : c \in DOMAIN classes}
Peculiar(class) ==
    (IF class.maker = "dataclass" THEN 0 ELSE 1) + (IF class.written THEN 1 ELSE 0)
    + Cardinality({n \in DOMAIN class.fields : class.fields[n].sort # "plain"})
Peculiarity == FoldLeft(LAMBDA n, class : n + Peculiar(class), 0, classes)
Count == FoldLeft(LAMBDA n, class : n + Len(class.fields), 0, classes)

TupleKind(b) == \E m \in models[b] : m.kind = "NamedTuple"

\* Bases without an ancestor in common, or above which every class has one base.
Apart(bases) ==
    Len(bases) < 2
    \/ Range(python[bases[1]].mro) \cap Range(python[bases[2]].mro) = {}
    \/ \A b \in Range(bases) : \A c \in Range(python[b].mro) : Len(classes[c].bases) < 2

\* What Python and the typing rules let a module do, and what is left to the approximations.
Legal(class) ==
    /\ 0 \notin Range(Linearized(class.bases))
    /\ class.maker \in {"NamedTuple", "NamedTuple()"} => class.bases = <<>> /\ ~class.written
    /\ class.maker \in Functional => ~class.written
    /\ class.maker \in Functional /\ class.bases # <<>> => May("bases of make_dataclass")
    /\ class.maker = "make_dataclass(init=False)" => May("make_dataclass without init")
    /\ class.maker \in Dataclasses => \A b \in Range(class.bases) : ~TupleKind(b)
    /\ \A b \in Range(class.bases) : TupleKind(b) => Len(class.bases) = 1
    /\ \A f \in Range(class.fields) :
          /\ f = Sentinel => class.maker \in Dataclasses \cup {"undecorated"}
          /\ class.maker \in {"NamedTuple", "NamedTuple()"} => f.sort \in {"plain", "ClassVar"}
          /\ f.sort = "ClassVar" /\ class.maker \notin Dataclasses \cup {"undecorated"} => May("class variables elsewhere")
          /\ \A g \in AllFields : f.name = g.name /\ f # Sentinel /\ {f.sort, g.sort} # {"plain"} => May("redefined fields")
    /\ May("bases in common") \/ Apart(class.bases)
    /\ class.maker = "undecorated" /\ KindOf(class) = "Dataclass" =>
          \/ May("inherited constructors")
          \/ Len(class.bases) = 1 /\ (class.written \/ class.bases[1] \in synthesized)

\* Fields are numbered in the order they first appear.
Fields(n) == [name : 1..n, sort : Sorts \ {"KW_ONLY"}] \cup {Sentinel}
Lists(room) ==
    LET next == Cardinality({f.name : f \in AllFields \ {Sentinel}}) + 1
    IN {l \in {<<>>} \cup {<<f>> : f \in Fields(next)} \cup {<<f, g>> : f \in Fields(next), g \in Fields(next + 1)} :
            /\ Len(l) <= room
            /\ Len(l) = 2 => l[1].name # l[2].name /\ l[2].name <= Max({next, l[1].name + 1})}
BaseLists(n) == {<<>>} \cup {<<b>> : b \in 1..n} \cup {<<a, b>> : a \in 1..n, b \in 1..n}

Declarable ==
    [maker : Makers, bases : {b \in BaseLists(Len(classes)) : IsInjective(b)},
     fields : Lists(MaxFields - Count), written : BOOLEAN]

IndexClass ==
    /\ Len(classes) < MaxClasses
    /\ \E class \in {class \in Declarable : Peculiarity + Peculiar(class) <= MaxPeculiar /\ Legal(class)} :
          /\ SynthesizeDataConstructor(class)
          /\ classes' = Append(classes, class)
          /\ python' = Append(python, PythonClass(class, Len(classes) + 1))

InitModels ==
    /\ classes = <<>> /\ models = <<>> /\ signatures = <<>> /\ synthesized = {} /\ python = <<>>

SpecModels == InitModels /\ [][IndexClass]_modelVars

\* PROPERTY.

\* A class that has, or inherits, fields which no argument by position is for.
KeywordOnly(c) ==
    \E b \in Range(python[c].mro) : \E f \in Range(classes[b].fields) : f.sort \in {"kw_only", "KW_ONLY"}

\* The constructor filed for a class is the one calling the class runs, whether the index
\* made it up or found it, and a class that gets one of its own from Python has one filed,
\* classes with keyword-only fields aside; the fields by position are those that
\* dataclasses.fields and the tuple have, a sentinel among them or not.
ConstructorsAreGenerated ==
    \A c \in DOMAIN classes :
        /\ \/ KeywordOnly(c) /\ ~May("keyword-only fields")
           \/ /\ \A s \in signatures[c] : python[c].constructor = {s}
              /\ python[c].own # {} => signatures[c] # {}
        /\ \A m \in models[c] : m.runtime = Of({"plain", "init=False", "kw_only"}, python[c].fields)
=============================================================================
