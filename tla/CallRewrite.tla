----------------------------- MODULE CallRewrite -----------------------------
(***************************************************************************)
(* How one call is judged and rewritten (src/src/check.rs: check_call,     *)
(* plan_builtin_fix_for_violation, call_fix_insertions and their relatives *)
(* for calls that ty resolves; src/src/signature.rs).                      *)
(*                                                                         *)
(* A call names its callee in one of Python's ways, through a name, a      *)
(* module, a class or an instance, which decides whether the receiver is   *)
(* an argument of the call.  The checker compares the positional arguments *)
(* with what the signature takes by position only, and the fixer gives the *)
(* surplus its parameters' names.  What Python binds is the reference.     *)
(* A rewritten call is visited again.                                      *)
(***************************************************************************)
EXTENDS Naturals, Sequences, FiniteSets, SequencesExt

CONSTANTS
    Callees,    \* the definitions called: [kind, method, arms], see IsCallee
    Bases,      \* the ways a callee is named, a subset of AllBases
    Situations, \* the calls: [shapes, keywords, boundary], the positional arguments,
                \* the names passed by keyword (NoName for **kw), and what stands
                \* between the call and the definition found
    Private     \* the parameter names __x

\* def parameters as written, in the order def requires, then as the signature
\* model reads them
Rank == [posonly |-> 1, args |-> 2, vararg |-> 3, kwonly |-> 4, kwarg |-> 5]
Groups == DOMAIN Rank
Kinds == {"PositionalOnly", "PositionalOrKeyword", "VarPositional", "KeywordOnly", "VarKeyword"}
AllShapes == {"plain", "precise", "parenthesized", "nested", "generator", "walrus", "starred"}
AllBases == {"none", "module", "class", "dotted", "instance", "other"}
AllBoundaries == {"none", "ignored", "excluded", "property", "special", "synthesized", "text",
                  "mixed", "opaque", "override", "inheritedSelf", "inheritedConstructor",
                  "private", "imported", "competing"}

\* __get__ and __set__; that of functools.cached_property is told apart.
Descriptors == {"descriptor", "cached"}

\* An argument, with the name it is passed by, if not by position, and whether the
\* calls nested in it were fixed.
NoName == ""
Arg == [shape : AllShapes, name : STRING \cup {NoName}, fixed : BOOLEAN]

\* def accepts these parameters.
Legal(arm) ==
    /\ \A i \in DOMAIN arm : arm[i].name # NoName
    /\ \A i, j \in DOMAIN arm : i < j =>
          /\ arm[i].name # arm[j].name
          /\ Rank[arm[i].group] <= Rank[arm[j].group]
          /\ arm[i].group = arm[j].group => arm[i].group \notin {"vararg", "kwarg"}

Callable == [kind : {"function", "method", "classmethod", "staticmethod"},
             method : {"plain", "init", "call"} \cup Descriptors,
             arms : Seq(Seq([name : STRING, group : Groups]))]

ASSUME InputsAssumption ==
    /\ Callees \subseteq Callable
    /\ \A c \in Callees :
          /\ c.arms # <<>> /\ \A i \in DOMAIN c.arms : Legal(c.arms[i])
          /\ c.method # "plain" => c.kind = "method"
    /\ Bases \subseteq AllBases
    /\ Situations \subseteq [shapes : Seq(AllShapes), keywords : SUBSET STRING,
                            boundary : AllBoundaries]

VARIABLES
    callee,     \* the definition found: its arms are the overloads
    site,       \* [base, boundary, hover, arm]: how the call names it, what ty shows if
                \* it has to be asked, and the arm that the arguments select
    call,       \* [args, keywords]: the arguments, those given a name included
    original,   \* history: the call before it was rewritten
    text,       \* the tokens of the source
    phase,      \* visit, planned, spliced, done
    report,     \* {} or the diagnostic: [count, max]
    insertions, \* [at, name], planned for the file
    declined    \* whether a fix was declined

vars == <<callee, site, call, original, text, phase, report, insertions, declined>>

(***************************************************************************)
(* Signatures                                                              *)
(***************************************************************************)
\* push_param for each group in turn; a parameter named __x is positional-only.
KindOf(p) ==
    CASE p.group = "posonly" -> "PositionalOnly"
      [] p.group = "args" /\ p.name \in Private -> "PositionalOnly"
      [] p.group = "args" /\ p.name \notin Private -> "PositionalOrKeyword"
      [] p.group = "vararg" -> "VarPositional"
      [] p.group = "kwonly" -> "KeywordOnly"
      [] p.group = "kwarg" -> "VarKeyword"

\* signature_from_parameters
SignatureOf(arm) == [i \in DOMAIN arm |-> [name |-> arm[i].name, kind |-> KindOf(arm[i])]]
Signatures == [i \in DOMAIN callee.arms |-> SignatureOf(callee.arms[i])]

FirstName(signature) == IF signature = <<>> THEN NoName ELSE signature[1].name
Where(signature, kind) == {i \in DOMAIN signature : signature[i].kind = kind}

\* descriptor_self_still_present
DescriptorSelf(signature, method) == method \in Descriptors /\ FirstName(signature) = "self"

\* Mutant of MaxPositional: positional-only parameters are not told apart.
MaxPositionalStrict(signature, method) ==
    Cardinality({i \in DOMAIN signature :
        /\ signature[i].kind = "PositionalOrKeyword"
        /\ \E star \in Where(signature, "VarPositional") : i <= star})

\* max_positional_at_call_site, for a callee that is not ignored: the receiver of
\* a constructor, callable or descriptor is passed over, the instance given to a
\* descriptor counts unless a keyword may give it (is_cached_property_get), and what
\* precedes *args may be positional.
MaxPositional(signature, method) ==
    LET skipped == IF method \in {"init", "call"} \/ DescriptorSelf(signature, method)
                   THEN {1} ELSE {}
        instance == IF method = "descriptor" /\ DescriptorSelf(signature, method)
                    THEN {2} ELSE {}
    IN Cardinality({i \in DOMAIN signature \ skipped :
          \/ i \in instance
          \/ signature[i].kind = "PositionalOnly"
          \/ /\ signature[i].kind = "PositionalOrKeyword"
             /\ \E star \in Where(signature, "VarPositional") : i <= star})

\* Mutant of Exceeds: one positional argument too many goes unnoticed.
ExceedsByTwo(signature, method, count) ==
    Where(signature, "VarPositional") = {} /\ count > MaxPositional(signature, method) + 1

\* call_exceeds_positional_limit
Exceeds(signature, method, count) ==
    Where(signature, "VarPositional") = {} /\ count > MaxPositional(signature, method)

(***************************************************************************)
(* How the call names its callee                                           *)
(***************************************************************************)
\* call_is_attribute
IsAttribute == site.base # "none"

\* is_unbound_class_method_call: Class.method(receiver, ...), and the dunders
\* too when the class is reached through a module.
IsUnbound(first) ==
    /\ first = "self"
    /\ \/ site.base = "class" /\ callee.method = "plain"
       \/ site.base = "dotted" /\ callee.method \notin Descriptors

\* is_explicit_dunder_receiver_call
IsExplicitDunder(first) ==
    first = "self" /\ callee.method \in {"init", "call"} /\ site.base \in {"class", "dotted"}

\* is_bound_instance_method_call, for both branches of a conditional callee
IsBoundInstance(first) ==
    /\ first = "self" /\ callee.method \notin Descriptors
    /\ site.base = "instance" /\ site.boundary # "mixed"

\* without_leading_self
WithoutLeadingSelf(signature) ==
    IF FirstName(signature) = "self" THEN Tail(signature) ELSE signature

\* positional_argument_count
PositionalCount == Cardinality({i \in DOMAIN call.args :
                        call.args[i].name = NoName /\ call.args[i].shape # "starred"})

\* The __new__, or the metaclass's __call__, that a class called behind the boundary
\* "competing" has beside the constructor found: (cls, x, /, *args, **kwargs).
Competitor == SignatureOf(<<[name |-> "cls", group |-> "posonly"],
                            [name |-> "x", group |-> "posonly"],
                            [name |-> "args", group |-> "vararg"],
                            [name |-> "kwargs", group |-> "kwarg"]>>)

\* constructor_positional_allowance: what it takes by position only, the receiver
\* aside, and no more than the constructor found could take.  (What that one takes by
\* position only is in its own maximum.)
Requirement ==
    IF site.boundary = "competing"
    THEN Cardinality(Where(Competitor, "PositionalOnly") \ {1}) ELSE 0
CouldTake(signature) ==
    Cardinality({i \in DOMAIN signature \ {1} :
        signature[i].kind \in {"PositionalOnly", "PositionalOrKeyword"}})
Allowance(signatures) ==
    LET could == Max({CouldTake(signatures[i]) : i \in DOMAIN signatures})
    IN IF could < Requirement THEN could ELSE Requirement

(***************************************************************************)
(* Judging a call that the index resolves                                  *)
(***************************************************************************)
\* Callees that no call of is judged, by the ignore_names of the configuration, as
\* their first argument decides what is called (singledispatch, itemgetter), as what
\* they return is called, or as a type checker reads their call (TypeVar, cast).
Unjudged == site.boundary \in {"ignored", "excluded", "property", "special"}

\* The count and maximum that check_call reports, if anything, of a call with n
\* positional arguments.
IndexedReport(n) ==
    LET first == FirstName(Signatures[1])
        stripped == IsUnbound(first) \/ IsBoundInstance(first)
        effective == [i \in DOMAIN Signatures |->
            IF stripped THEN WithoutLeadingSelf(Signatures[i]) ELSE Signatures[i]]
        count == IF IsUnbound(first) /\ n > 0 THEN n - 1 ELSE n
        maxima == {MaxPositional(effective[i], callee.method) : i \in DOMAIN effective}
    IN IF \/ Unjudged
          \/ count <= Allowance(effective)
          \/ \E i \in DOMAIN effective : ~Exceeds(effective[i], callee.method, count)
       THEN {}
       ELSE {[count |-> count, max |-> Max(maxima \cup {Allowance(effective)})]}

\* What stands in between is a fact of the program, and the gates below are the forms
\* of a call for which the fixer looks for it.
\* call_may_dispatch_to_override_with_different_parameter_names: a method that the
\* attribute of the call names, not an instance that is the attribute.
DispatchesToOverride ==
    /\ site.boundary = "override" /\ IsAttribute
    /\ callee.method = "plain" \/ site.base = "instance"

\* call_uses_imported_callable_boundary
ImportedCallable == site.boundary = "imported" /\ ~IsAttribute

\* call_uses_opaque_receiver_boundary: the receiver is a name.
OpaqueReceiver == site.boundary = "opaque" /\ site.base = "instance"

\* self_call_uses_inherited_method_boundary
InheritedSelf == site.boundary = "inheritedSelf" /\ site.base = "instance"

\* constructor_call_uses_inherited_boundary
InheritedConstructor ==
    site.boundary = "inheritedConstructor" /\ callee.method = "init" /\ site.base \in {"none", "module"}

\* conditional_callee_has_mixed_receiver_binding: one branch names the class, the
\* other an instance, which differ for a first parameter self.
MixedBinding == site.boundary = "mixed" /\ FirstName(Signatures[1]) = "self"

\* Mutant of IndexedDeclines: overriding methods are not looked for.
IndexedDeclinesLess ==
    \/ site.boundary \in {"synthesized", "text", "private"}
    \/ MixedBinding \/ OpaqueReceiver
    \/ InheritedSelf \/ InheritedConstructor \/ ImportedCallable

\* The gates of plan_builtin_fix_for_violation, besides the signature's own:
\* something may make the call reach another definition than the one found, or
\* show the text of the call as data.
IndexedDeclines ==
    \/ site.boundary \in {"synthesized", "text", "private"}
    \/ MixedBinding \/ OpaqueReceiver \/ DispatchesToOverride
    \/ InheritedSelf \/ InheritedConstructor \/ ImportedCallable

(***************************************************************************)
(* call_fix_insertions                                                     *)
(***************************************************************************)
\* Mutant of Start: one argument too many stays as it is.
StartLate(max, explicit) == max + 1

\* The first argument to rewrite.
Start(max, explicit) == IF explicit THEN max + 1 ELSE max

\* The parameters that no argument of the call stands for.
Skip(signature, method, explicit, attribute) ==
    IF ~explicit /\ (\/ method \in {"init", "call"}
                     \/ attribute /\ FirstName(signature) \in {"self", "cls"})
    THEN 1 ELSE 0

\* f( *xs) or f( **kw)
Unpacks ==
    \/ \E i \in DOMAIN call.args : call.args[i].shape = "starred"
    \/ NoName \in call.keywords

\* A parameter that may be given its name.
Nameable(parameter) ==
    /\ parameter.kind \in {"PositionalOrKeyword", "KeywordOnly"}
    /\ parameter.name \notin Private
    /\ parameter.name \notin call.keywords \cup {call.args[i].name : i \in DOMAIN call.args}

\* Whether each surplus argument gets the name of a parameter, and none would
\* need parentheses of its own.
CanInsert(signature, method, max, count, explicit, attribute) ==
    LET skip == Skip(signature, method, explicit, attribute)
        surplus == {i \in 1 .. count : i > Start(max, explicit)}
    IN /\ ~Unpacks /\ method \notin Descriptors
       /\ explicit \/ ~(method \in {"init", "call"} /\ attribute)
       /\ surplus # {}
       /\ \A i \in surplus :
             /\ i + skip \in DOMAIN signature
             /\ Nameable(signature[i + skip])
             /\ call.args[i].shape \notin {"generator", "walrus"}

(***************************************************************************)
(* The text of the call                                                    *)
(***************************************************************************)
\* The tokens of an argument whose value is the number i; a nested call is
\* flagged as well and gets the name y for its argument.
Value(i, shape, fixed) ==
    CASE shape \in {"plain", "precise"} -> <<i>>
      [] shape = "parenthesized" -> <<"(", i, ")">>
      [] shape = "nested" -> IF fixed THEN <<"g(", "y", i, ")">> ELSE <<"g(", i, ")">>
      [] shape = "generator" -> <<i, "for">>
      [] shape = "walrus" -> <<"v:=", i>>
      [] shape = "starred" -> <<"*", i>>

Argument(args, i) ==
    (IF args[i].name = NoName THEN <<>> ELSE <<args[i].name>>)
        \o Value(i, args[i].shape, args[i].fixed) \o <<",">>

\* The tokens before argument i, and of the whole call.
Before(args, i) == FlattenSeq([j \in 1 .. i |-> IF j = 1 THEN <<"f(">>
                                                ELSE Argument(args, j - 1)])
Render(args) == Before(args, Len(args) + 1) \o <<")">>

\* Where the name of argument i goes: before its parentheses (parenthesized_range).
ArgumentStart(args, i) == Len(Before(args, i)) + 1

\* The insertions of the calls nested in this one.
NestedInsertions(args) ==
    {[at |-> Len(Before(args, i)) + 2, name |-> "y"] :
        i \in {j \in DOMAIN args : args[j].shape = "nested" /\ ~args[j].fixed}}

\* The insertions that name the surplus arguments.
Insertions(signature, method, max, count, explicit, attribute) ==
    {[at |-> ArgumentStart(call.args, i),
      name |-> signature[i + Skip(signature, method, explicit, attribute)].name] :
        i \in {j \in 1 .. count : j > Start(max, explicit)}}

\* Mutant of Spliced: each offset is used as if the text had not grown.
SplicedUpwards(source, edits) ==
    FoldLeft(LAMBDA out, e : SubSeq(out, 1, e.at - 1) \o <<e.name>>
                                \o SubSeq(out, e.at, Len(out)),
             source, SetToSortSeq(edits, LAMBDA e, f : e.at < f.at))

\* apply_insertions: from the highest offset down.
Spliced(source, edits) ==
    FoldLeft(LAMBDA out, e : SubSeq(out, 1, e.at - 1) \o <<e.name>>
                                \o SubSeq(out, e.at, Len(out)),
             source, SetToSortSeq(edits, LAMBDA e, f : e.at > f.at))

(***************************************************************************)
(* What Python does                                                        *)
(***************************************************************************)
\* The leading parameters that Python supplies itself.
Supplied(base) ==
    CASE callee.kind \in {"function", "staticmethod"} -> 0
      [] callee.kind = "classmethod" -> 1
      [] callee.kind = "method" -> IF base \in {"class", "dotted"} THEN 0 ELSE 1

\* The parameters a definition of these declares by position: its first ones.
Positional(arm) == {i \in DOMAIN arm : arm[i].group \in {"posonly", "args"}}
GroupIn(arm, g) == \E i \in DOMAIN arm : arm[i].group = g

\* The arguments by position, and whether Python accepts the call.
ByPosition(args) == {i \in DOMAIN args : args[i].name = NoName}
Slot(arm, supplied, i) ==
    IF i + supplied \in Positional(arm) THEN i + supplied ELSE 0
ParameterNamed(arm, name) ==
    {j \in DOMAIN arm : arm[j].name = name /\ KindOf(arm[j]) \in
                            {"PositionalOrKeyword", "KeywordOnly"}}

\* What argument i is bound to: a parameter, *args (0) or **kwargs (Len + 1).
Bound(arm, supplied, args, i) ==
    IF args[i].name = NoName THEN Slot(arm, supplied, i)
    ELSE IF ParameterNamed(arm, args[i].name) = {} THEN Len(arm) + 1
         ELSE CHOOSE j \in ParameterNamed(arm, args[i].name) : TRUE

Accepts(arm, supplied, args, keywords) ==
    LET named == {i \in DOMAIN args : args[i].name # NoName}
        names == {args[i].name : i \in named} \cup (keywords \ {NoName})
        taken == {Slot(arm, supplied, i) : i \in ByPosition(args)} \cup (1 .. supplied)
    IN /\ \A i, j \in named : args[i].name = args[j].name => i = j
       /\ \A i \in named : args[i].name \notin keywords
       /\ \A i \in ByPosition(args) : Slot(arm, supplied, i) # 0 \/ GroupIn(arm, "vararg")
       /\ \A n \in names :
             /\ ParameterNamed(arm, n) \cap taken = {}
             /\ ParameterNamed(arm, n) # {} \/ GroupIn(arm, "kwarg")

\* The definition the call reaches, and what it is given: the one found, or,
\* behind a boundary, one with other names or another receiver.
Renames == {"opaque", "override", "inheritedSelf", "inheritedConstructor", "private",
            "imported", "synthesized", "property"}
Reached(arm) ==
    IF site.boundary \in Renames
    THEN [i \in DOMAIN arm |-> IF arm[i].group = "args" THEN [arm[i] EXCEPT !.name = "other"]
                               ELSE arm[i]]
    ELSE arm
ReachedSupplied ==
    IF site.boundary = "mixed" THEN 1 - Supplied(site.base) ELSE Supplied(site.base)

Selected == callee.arms[site.arm]
Valid(args, keywords) == Accepts(Selected, Supplied(site.base), args, keywords)

(***************************************************************************)
(* Visiting, planning and rewriting                                        *)
(***************************************************************************)
\* The names a definition can be reached by: that of a function, of a class that is
\* constructed, of an instance that is called, or an attribute of these; "other" is an
\* attribute of any other expression, as super() or an attribute that is called.
Reachable(c, base) ==
    CASE c.kind = "function" -> base \in {"none", "module"}
      [] c.kind \in {"classmethod", "staticmethod"} ->
            base \in {"class", "dotted", "instance", "other"}
      [] c.kind = "method" /\ c.method = "plain" ->
            base \in {"class", "dotted", "instance", "other"}
      [] c.kind = "method" /\ c.method = "init" -> base # "instance"
      [] c.kind = "method" /\ c.method = "call" -> base # "module"
      [] c.kind = "method" /\ c.method \in Descriptors -> base \in {"class", "instance"}

\* The boundaries that can stand in between.
Possible(c, base, boundary) ==
    CASE boundary \in {"none", "ignored", "text", "private"} -> TRUE
      [] boundary = "excluded" -> c.method \in {"plain", "call"}
      [] boundary = "special" -> base \in {"none", "module"} /\ c.method \in {"plain", "init"}
      [] boundary = "override" ->
            \/ c.method = "plain" /\ base \in {"instance", "other"}
            \/ c.method = "call" /\ base \in {"none", "instance", "other"}
      [] boundary = "opaque" -> base = "none" \/ (base = "instance" /\ c.method = "plain")
      [] boundary = "inheritedSelf" -> base = "instance" /\ c.method = "plain"
      [] boundary = "property" ->
            c.kind = "method" /\ c.method = "plain" /\ base \in {"instance", "other"}
      [] boundary \in {"inheritedConstructor", "synthesized", "competing"} ->
            base \in {"none", "module"} /\ c.method = "init"
      [] boundary = "mixed" -> c.kind = "method" /\ c.method = "plain" /\ base = "instance"
      [] boundary = "imported" -> c.kind = "function" /\ base = "none"

\* ty is asked about the calls that the index does not resolve, and which arm of
\* several a call selects.  A hover shows a definition without an owner ("def"), a
\* method bound to its owner, which is a class or the Self of the method around the
\* call ("bound", "binder"), the type of a callable ("type"), which has no receiver,
\* or all the arms of one ("overloads"); else ty is asked for the place of the
\* definition.  It is not asked, or of no help, about the others ("none").
Answered == {"overloads", "definition"}
Hovers(base) ==
    {"none", "def", "definition"}
    \cup (IF Supplied(base) = 1 THEN {"bound"} ELSE {})
    \cup (IF Supplied(base) = 1 /\ base = "other" THEN {"binder"} ELSE {})
    \cup (IF callee.kind = "method" /\ Supplied(base) = 0 THEN {} ELSE {"type"})
    \cup (IF (callee.kind = "method" /\ Supplied(base) = 0) \/ Len(callee.arms) = 1
          THEN {} ELSE {"overloads"})

\* The index finds no definition for names it knows nothing of, and ty none for what
\* is a matter of the index; it names the type of a function of many dispatches.
TyBoundaries ==
    {"none", "ignored", "excluded", "special", "text", "opaque", "override", "private", "imported"}
Askable(base, boundary, hover) ==
    IF hover = "none" THEN ~(boundary = "opaque" /\ base = "none")
    ELSE boundary \in TyBoundaries /\ (boundary = "excluded" => hover = "type")

Init ==
    /\ callee \in Callees
    /\ \E base \in Bases, s \in Situations, arm \in DOMAIN callee.arms :
          /\ Reachable(callee, base) /\ Possible(callee, base, s.boundary)
          /\ \E hover \in Hovers(base) :
                /\ Askable(base, s.boundary, hover)
                /\ site = [base |-> base, boundary |-> s.boundary, hover |-> hover, arm |-> arm]
          /\ call = [args |-> [i \in DOMAIN s.shapes |->
                                 [shape |-> s.shapes[i], name |-> NoName, fixed |-> FALSE]],
                     keywords |-> s.keywords]
    /\ original = call
    /\ text = Render(call.args)
    /\ phase = "visit" /\ report = {} /\ insertions = {} /\ declined = FALSE

\* What the file's other calls, those nested in this one, have planned.
Plan(edits, declines) ==
    /\ insertions' = NestedInsertions(call.args) \cup edits
    /\ declined' = declines
    /\ phase' = "planned"
    /\ UNCHANGED <<callee, site, call, original, text>>

\* check_call, with plan_builtin_fix_for_violation when there is one signature.
Judge ==
    /\ phase = "visit" /\ site.hover = "none" /\ Len(callee.arms) = 1
    /\ report' = IndexedReport(PositionalCount)
    /\ IF report' = {} THEN Plan({}, FALSE)
       ELSE LET r == CHOOSE r \in report' : TRUE
                signature == Signatures[1]
                first == FirstName(signature)
                explicit == IsUnbound(first) \/ IsExplicitDunder(first)
            IN IF ~IndexedDeclines /\ CanInsert(signature, callee.method, r.max,
                                        PositionalCount, explicit, IsAttribute)
               THEN Plan(Insertions(signature, callee.method, r.max, PositionalCount,
                                    explicit, IsAttribute), FALSE)
               ELSE Plan({}, TRUE)

(***************************************************************************)
(* Calls that ty resolves                                                  *)
(***************************************************************************)
\* ty shows a bound callable without its receiver, with its owner or not; the receiver
\* of an unbound one is shown.
Shown(arm) == SubSeq(SignatureOf(arm), Supplied(site.base) + 1, Len(arm))
HasOwner == site.hover \in {"bound", "binder"}

\* strip_unbound_receiver
Stripped(shown) == site.hover = "def" /\ FirstName(shown) \in {"self", "cls"}

\* signature_mapping_fullname: a dunder whose receiver is not shown is read like any
\* function.
Mapped(omitted) == IF omitted THEN "plain" ELSE callee.method

\* Mutant of MethodShown: the receiver is taken to be shown unless the owner is.
MethodShownByOwner == Mapped(HasOwner \/ site.hover = "type")

\* A hover that shows one callable: also the receiver of a dunder is never shown there,
\* or is stripped as explicit (receiver_already_omitted).
MethodShown == Mapped(HasOwner \/ site.hover = "type" \/ callee.method # "plain")

\* violation_max_positional, of all the signatures that ty gives
Violation(signatures, method, n) ==
    IF \/ Unjudged
       \/ \E i \in DOMAIN signatures : ~Exceeds(signatures[i], method, n)
    THEN {}
    ELSE {[count |-> n, max |-> Max({MaxPositional(signatures[i], method) :
                                        i \in DOMAIN signatures})]}

\* ty_hover_signature_is_safe_for_fix
HoverIsSafe == site.hover = "binder" => PositionalCount # 1

\* rewrite_args_are_statically_precise and callable_name_is_private_keyword_boundary;
\* the text shown as data.
TyDeclines == site.boundary \in {"opaque", "imported", "private", "text"}

\* The override check of ty_call_fix_insertions, for an attribute that names the method
\* or holds an instance, and a callee whose class is named.
TyOverride ==
    /\ site.boundary = "override" /\ IsAttribute
    /\ site.hover \in {"bound", "definition"} \/ Len(callee.arms) > 1

\* record_ty_fix
TyPlan(signature, method, max, explicit) ==
    IF /\ ~TyDeclines /\ ~TyOverride /\ HoverIsSafe /\ callee.method \notin Descriptors
       /\ CanInsert(signature, method, max, PositionalCount, explicit, FALSE)
    THEN Plan(Insertions(signature, method, max, PositionalCount, explicit, FALSE), FALSE)
    ELSE Plan({}, TRUE)

\* What is reported of a callable shown and n positional arguments, the receiver's
\* dropped when it is shown.
TyReport(shown, n) ==
    LET strip == Stripped(shown)
    IN Violation(<<IF strip THEN Tail(shown) ELSE shown>>, MethodShown,
                 IF strip /\ n > 0 THEN n - 1 ELSE n)

\* resolve_pending_with_ty: a hover that shows one callable.
Resolve ==
    /\ phase = "visit" /\ site.hover \notin {"none"} \cup Answered
    /\ Len(callee.arms) = 1
    /\ LET shown == Shown(Selected)
       IN /\ report' = TyReport(shown, PositionalCount)
          /\ IF report' = {} THEN Plan({}, FALSE)
             ELSE LET r == CHOOSE r \in report' : TRUE
                  IN TyPlan(shown, MethodShown, r.max, Stripped(shown))

\* The signatures of a callable type that is overloaded, or those at the place of the
\* definition (DefFileIndex::resolve_at), receivers included; and the method they are of.
Answers ==
    IF site.hover = "definition" THEN Signatures
    ELSE [i \in DOMAIN callee.arms |-> Shown(callee.arms[i])]
MethodAnswered == Mapped(site.hover = "overloads")

\* resolve_pending_with_ty, for several callables or a definition: the fix is declined
\* but for the __call__ of an instance that has one definition.
ResolveAnswer ==
    /\ phase = "visit" /\ site.hover \in Answered
    /\ report' = Violation(Answers, MethodAnswered, PositionalCount)
    /\ IF report' = {} THEN Plan({}, FALSE)
       ELSE IF site.hover = "definition" /\ callee.method = "call" /\ Len(callee.arms) = 1
            THEN LET r == CHOOSE r \in report' : TRUE
                 IN TyPlan(Answers[1], MethodAnswered, r.max, FALSE)
            ELSE Plan({}, TRUE)

(***************************************************************************)
(* Overloads                                                               *)
(***************************************************************************)
\* selected_overload_arm_is_unambiguous: one candidate has these names and kinds.
Unambiguous(parameters) ==
    Cardinality({i \in DOMAIN Signatures : Signatures[i] = parameters}) = 1

\* arg_is_precise_for_overload_fix for the arguments that get a name.
Precise(start) == \A i \in 1 .. PositionalCount :
                     i > start => call.args[i].shape = "precise"

\* record_ty_overload_fix_pending, then record_selected_overload_fix with what ty
\* shows: the arm selected, or all of them.
SelectArm(shown) ==
    LET explicit == Stripped(shown)
        method == Mapped(HasOwner \/ site.hover = "type")
        effective == IF explicit THEN Tail(shown) ELSE shown
        count == IF explicit /\ PositionalCount > 0
                 THEN PositionalCount - 1 ELSE PositionalCount
        max == MaxPositional(effective, method)
    IN IF /\ ~IndexedDeclines
          /\ Unambiguous(effective) /\ Exceeds(effective, method, count)
          /\ Precise(Start(max, explicit))
       THEN TyPlan(shown, method, max, explicit)
       ELSE Plan({}, TRUE)

JudgeOverloaded ==
    /\ phase = "visit" /\ Len(callee.arms) > 1 /\ site.hover \notin Answered
    /\ report' = IndexedReport(PositionalCount)
    /\ IF report' = {} THEN Plan({}, FALSE)
       ELSE IF site.hover = "none" THEN Plan({}, TRUE)
            ELSE SelectArm(Shown(Selected))

\* The fixed file is what the insertions make of the text.
Rewrite ==
    /\ phase = "planned"
    /\ text' = Spliced(text, insertions)
    /\ phase' = "spliced"
    /\ UNCHANGED <<callee, site, call, original, report, insertions, declined>>

\* What was inserted in front of argument i, or between its parentheses and it.
NamesBefore(i) ==
    LET offset == Len(Before(call.args, i))
        places == offset + 1 ..
                  offset + (IF call.args[i].shape = "parenthesized" THEN 2 ELSE 1)
    IN {e.name : e \in {e \in insertions : e.at \in places}}

\* The call that Python reads in the text, and its next visit.
Reread ==
    /\ phase = "spliced"
    /\ call' = [call EXCEPT !.args = [i \in DOMAIN call.args |->
           [call.args[i] EXCEPT
              !.name = IF @ = NoName /\ NamesBefore(i) # {}
                       THEN CHOOSE n \in NamesBefore(i) : TRUE ELSE @,
              !.fixed = call.args[i].shape = "nested"]]]
    /\ phase' = IF call = original /\ call' # call THEN "visit" ELSE "done"
    /\ UNCHANGED <<callee, site, original, text, report, insertions, declined>>

Next == Judge \/ Resolve \/ ResolveAnswer \/ JudgeOverloaded \/ Rewrite \/ Reread

Spec == Init /\ [][Next]_vars

(***************************************************************************)
(* Properties                                                              *)
(***************************************************************************)
TypeOK ==
    /\ callee \in Callees /\ site.base \in Bases /\ site.arm \in DOMAIN callee.arms
    /\ \A i \in DOMAIN call.args :
          /\ call.args[i].shape \in AllShapes /\ call.args[i].fixed \in BOOLEAN
          /\ call.args[i].name = NoName \/ \E j \in DOMAIN Selected : Selected[j].name = call.args[i].name
    /\ Len(original.args) = Len(call.args)
    /\ phase \in {"visit", "planned", "spliced", "done"}
    /\ Cardinality(report) <= 1
    /\ \A r \in report : r.max < r.count /\ r.count <= Len(call.args)
    /\ \A e \in insertions : e.at \in 2 .. Len(text) + Cardinality(insertions)
    /\ declined \in BOOLEAN

Judged == phase = "planned" /\ call = original
Rewritten == call # original

\* The receiver passed to Class.method, which the checker does not ask to name.
Receiver == IF callee.kind = "method" /\ Supplied(site.base) = 0 THEN {1} ELSE {}

\* The arguments that Python takes by position only, what comes before *args when
\* it gets any included, and the first of a class whose __new__ says so.
MustStay(args) ==
    LET slot == [i \in ByPosition(args) |-> Slot(Selected, Supplied(site.base), i)]
    IN {i \in ByPosition(args) \ Receiver :
          \/ slot[i] = 0 \/ KindOf(Selected[slot[i]]) = "PositionalOnly"
          \/ \E j \in ByPosition(args) : slot[j] = 0
          \/ site.boundary = "competing" /\ i = 1}

\* What a call becomes has the meaning of the call: each argument is bound to the
\* parameter it was bound to, and what must be passed by position still is.
Keeps(before, after) ==
    Accepts(Reached(Selected), ReachedSupplied, before.args, before.keywords) =>
        /\ Accepts(Reached(Selected), ReachedSupplied, after.args, after.keywords)
        /\ \A i \in DOMAIN after.args :
              Bound(Reached(Selected), ReachedSupplied, after.args, i)
                = Bound(Reached(Selected), ReachedSupplied, before.args, i)
        /\ \A i \in MustStay(before.args) \cup (Receiver \cap DOMAIN after.args) :
              after.args[i].name = NoName

\* A method that a subclass overrides, called in a form whose override is not looked
\* for: an instance called by a name, or a callee whose class ty does not show.
OverrideUnseen ==
    /\ site.boundary = "override"
    /\ \/ ~IsAttribute
       \/ Len(callee.arms) = 1 /\ site.hover \in {"def", "type", "binder"}

\* Class.method(receiver, ...) of which ty shows only the place of the definition: the
\* receiver is taken for an argument.
ReceiverByDefinition ==
    site.hover = "definition" /\ callee.kind = "method" /\ Supplied(site.base) = 0

\* A fix changes how an argument is passed and never what it is, whatever the call
\* reaches behind a boundary (call_fix_insertions), the two forms aside that
\* FixSeesOverrides and FixLeavesReceiver show.
FixKeepsBinding ==
    Rewritten /\ ~OverrideUnseen /\ ~ReceiverByDefinition => Keeps(original, call)

\* A fix leaves a call alone that may dispatch to an override with other parameter names
\* (call_may_dispatch_to_override_with_different_parameter_names, the issue #1289 of
\* tests/fix.rs): any form of call, which the code does not do.
FixSeesOverrides == Rewritten /\ site.boundary = "override" => Keeps(original, call)

\* The receiver of Class.__call__(receiver, ...) stays by position (tests/fix.rs, issue
\* #1281): not when only the definition is known.
FixLeavesReceiver ==
    Rewritten => \A i \in Receiver \cap DOMAIN call.args : call.args[i].name = NoName

\* A dunder called by its name through a class or an instance, whose receiver the
\* count leaves in or takes out twice (the comment of is_unbound_class_method_call
\* keeps it out of scope), a hover that shows it aside.
DunderByName ==
    /\ callee.method # "plain" /\ site.base \in {"class", "dotted", "instance"}
    /\ site.hover \in {"none", "definition"} \/ Len(callee.arms) > 1

\* A call that got names is clean when it is visited again, by the index or by ty:
\* a second fix has nothing to do (check_call, call_exceeds_positional_limit).
FixIsFinal ==
    /\ phase = "planned" /\ \E i \in DOMAIN call.args : call.args[i].name # NoName
    /\ ~DunderByName
    => report = {}

\* A call is only reported for arguments its caller can name, and the maximum it
\* states leaves room for the others (max_positional_at_call_site).
ReportIsActionable ==
    /\ Judged /\ report # {} /\ ~Unpacks /\ ~DunderByName /\ ~ReceiverByDefinition
    /\ Valid(call.args, call.keywords)
    => /\ ByPosition(call.args) \ Receiver # MustStay(call.args)
       /\ \A r \in report : Cardinality(MustStay(call.args)) <= r.max

\* The receiver of a bound call that only dunders, and names of instances, strip
\* from a signature: declared positional-only, it leaves room for an argument.
RoomForReceiver ==
    /\ Supplied(site.base) = 1 /\ Selected[1].group = "posonly" /\ callee.method = "plain"
    /\ \/ site.hover = "definition"
       \/ site.hover = "none" /\ (\/ callee.kind = "classmethod"
                                  \/ site.base = "other" \/ site.boundary = "mixed")

\* A call that is judged and not reported passes by position only what it must,
\* except in front of *args (check_call, resolve_pending_with_ty).
CleanIsStrict ==
    /\ Judged /\ report = {} /\ ~Unpacks /\ Len(callee.arms) = 1
    /\ ~Unjudged /\ ~GroupIn(Selected, "vararg")
    /\ ~RoomForReceiver /\ ~DunderByName /\ Valid(call.args, call.keywords)
    => ByPosition(call.args) \ Receiver \subseteq MustStay(call.args)

\* The text spliced is that of the call rewritten, its nested calls and its
\* parentheses where they were (apply_insertions).
TextIsRewritten == phase # "spliced" => text = Render(call.args)

(***************************************************************************)
(* Why a fix keeps what a call means                                       *)
(***************************************************************************)
\* Receivers are parameters by position, and they and no others are called self and
\* cls, which is how the code tells them: without it the run of Unusual callees fails.
Customary ==
    \A c \in Callees : \A i \in DOMAIN c.arms :
        /\ \A j \in DOMAIN c.arms[i] : j > 1 => c.arms[i][j].name \notin {"self", "cls"}
        /\ c.kind \in {"function", "staticmethod"} => FirstName(c.arms[i]) \notin {"self", "cls"}
        /\ c.kind \in {"classmethod", "method"} =>
              /\ 1 \in Positional(c.arms[i])
              /\ c.arms[i][1].name = IF c.kind = "method" THEN "self" ELSE "cls"

\* Parameters by position only for their name, __x, follow no other that has a name to
\* give, receivers aside: the typing rules forbid it, and Python knows no such
\* parameters, which is why the code's maximum is not Python's without it.
PrivateComeFirst ==
    /\ Private \cap {"self", "cls"} = {}
    /\ \A c \in Callees : \A i \in DOMAIN c.arms : \A j \in DOMAIN c.arms[i] :
          c.arms[i][j].group = "args" /\ c.arms[i][j].name \in Private =>
              \A k \in 1 .. j - 1 :
                  \/ c.arms[i][k].group = "posonly" \/ c.arms[i][k].name \in Private
                  \/ k = 1 /\ c.kind \in {"classmethod", "method"}

\* The call and its callee are ones that the situations give.
SiteIsGiven ==
    /\ callee \in Callees /\ site.arm \in DOMAIN callee.arms
    /\ site.base \in Bases /\ Reachable(callee, site.base)
    /\ site.boundary \in AllBoundaries /\ Possible(callee, site.base, site.boundary)
    /\ site.hover \in Hovers(site.base)
    /\ Askable(site.base, site.boundary, site.hover)

\* Only names are added to a call, those of its last arguments.
NamesComeLast ==
    /\ call \in [args : Seq(Arg), keywords : SUBSET STRING]
    /\ original \in [args : Seq(Arg), keywords : {call.keywords}]
    /\ Len(original.args) = Len(call.args)
    /\ \A i \in DOMAIN call.args :
          original.args[i].shape = call.args[i].shape /\ original.args[i].name = NoName
    /\ \A i, j \in DOMAIN call.args :
          i < j /\ call.args[j].name = NoName => call.args[i].name = NoName
    /\ Unpacks => \A i \in DOMAIN call.args : call.args[i].name = NoName

\* What a visit reports of the call with n arguments by position.
Visited(n) ==
    IF site.hover \in Answered THEN Violation(Answers, MethodAnswered, n)
    ELSE IF site.hover # "none" /\ Len(callee.arms) = 1 THEN TyReport(Shown(Selected), n)
    ELSE IndexedReport(n)

\* The parameters that the fixer passes over, and the one it takes the i-th argument by
\* position to be for.
PassedOver == IF ReceiverByDefinition THEN 1 ELSE Supplied(site.base)
For(i) == Selected[i + PassedOver]

\* The call reaches the definition found, and the arguments after the first n can be
\* given the names of the parameters they are for.
CanName(n) ==
    /\ n \in Nat /\ ~Unpacks
    /\ site.boundary \in {"none", "competing"} \/ OverrideUnseen
    /\ ~GroupIn(Selected, "vararg")
    /\ ReceiverByDefinition \/ \A i \in Receiver : i <= n
    /\ \A i \in ByPosition(call.args) : i > n =>
          /\ i + PassedOver \in DOMAIN Selected
          /\ For(i).name \notin call.keywords \cup {call.args[j].name : j \in DOMAIN call.args}
          /\ KindOf(For(i)) \in {"PositionalOrKeyword", "KeywordOnly"}
          /\ site.boundary = "competing" /\ i = 1 => For(i).group = "kwonly"

\* A plan names all arguments after some, or none, and a visit of what it makes of the
\* call has nothing to report.
PlanIsSound ==
    phase \in {"planned", "spliced"} =>
        \/ insertions = NestedInsertions(call.args)
        \/ \E n \in 0 .. Len(call.args) :
              /\ insertions = NestedInsertions(call.args)
                   \cup {[at |-> ArgumentStart(call.args, i), name |-> For(i).name] :
                            i \in {j \in ByPosition(call.args) : j > n}}
              /\ CanName(n)
              /\ \E i \in ByPosition(call.args) : i > n
              /\ ~DunderByName => Visited(n) = {}

\* A call with names is clean at its next visit.
NamedIsClean ==
    /\ phase = "visit" /\ ~DunderByName /\ \E i \in DOMAIN call.args : call.args[i].name # NoName
    => Visited(PositionalCount) = {}

\* What is planned comes of the visit of the call as it is.
ReportIsVisited == phase = "planned" => report = Visited(PositionalCount)

IInv ==
    /\ phase \in {"visit", "planned", "spliced", "done"}
    /\ SiteIsGiven /\ NamesComeLast /\ PlanIsSound /\ NamedIsClean
    /\ OverrideUnseen \/ ReceiverByDefinition \/ Keeps(original, call)
    /\ ReportIsVisited /\ FixIsFinal
=============================================================================
