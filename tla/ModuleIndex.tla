----------------------------- MODULE ModuleIndex ----------------------------
(***************************************************************************)
(* The demand-driven definition index that the parallel scan workers share *)
(* (src/src/index.rs), as the two passes of a check use it                 *)
(* (src/src/check.rs discover_rebinding_exclusions, stream_scan_files).    *)
(*                                                                         *)
(* A query loads the modules on its way, each at most once: a worker       *)
(* claims a module, parses it outside any lock, first loads the modules    *)
(* its classes take their constructors from, then writes what it defines.  *)
(* Other workers that need the module wait for the claim.  Rebindings seen *)
(* in a file exclude a method for the whole program, so a first pass       *)
(* records them all before a second one judges any call.                   *)
(*                                                                         *)
(* Every module defines one class with one method, the same in all, and a  *)
(* name stands for its module, its class and its method.  Each file has a  *)
(* worker of its own.                                                      *)
(***************************************************************************)
EXTENDS Naturals, Sequences, Functions

CONSTANTS
    Modules,
    Eager,        \* the modules of the checked files, and what they derive from
    Kind,         \* whether a module's source is "good", "unparsable", "absent"
    Route,        \* the modules a query for a name resolves, in their order
    Bases,        \* the bases of a module's class, in order
    Files,
    Programs,     \* what the files may do: a sequence of operations for each
    ModuleBudget, \* MODULE_BUDGET: modules parsed on demand in a whole run
    QueryBudget   \* MAX_QUERY_MODULES: modules parsed for one query

ASSUME KindAssumption == Kind \in [Modules -> {"good", "unparsable", "absent"}]
ASSUME RouteAssumption ==
    Route \in [Modules -> Seq(Modules)] /\ Bases \in [Modules -> Seq(Modules)]
ASSUME EagerAssumption ==
    /\ Eager \subseteq Modules
    /\ \A m \in Eager : Kind[m] = "good" /\ Range(Bases[m]) \subseteq Eager
ASSUME BudgetAssumption == ModuleBudget \in Nat /\ QueryBudget \in Nat
ASSUME QueryAssumption == "query" \notin Modules

\* An operation rebinds a name (`C.m = f`, setattr), makes an instance
\* (`x = C()`, which queries the index in either pass) or calls the method.
Op == [kind : {"rebind", "make", "call"}, name : Modules]
ASSUME ProgramsAssumption == Programs \subseteq [Files -> Seq(Op)]

VARIABLES
    modules,     \* Inner.modules: "none", "indexing" or "indexed"
    budget,      \* Inner.budget
    signatures,  \* the names whose signature the store holds
    excluded,    \* Store.excluded
    known,       \* the modules whose class_bases the store holds
    memo,        \* Inner.cache: what a query for a name was answered
    program,     \* what the files do
    pass,        \* "discover", "judge" or "done"
    op,          \* each worker's next operation in its file
    stage,       \* where the worker is in it
    stack,       \* the modules it is loading, under the query that asked
    agenda,      \* the names it still looks the method up under, in order
    tried,       \* the names it has
    answer,      \* whether its last query found a definition
    subclasses,  \* the subclasses a rebinding found
    verdict,     \* what became of each operation that is a call, once judged
    parsed       \* history: how often each module was parsed

store == <<signatures, excluded, known>>
lookup == <<agenda, tried, answer, subclasses>>
vars == <<modules, budget, signatures, excluded, known, memo, program, pass,
          op, stage, stack, agenda, tried, answer, subclasses, verdict, parsed>>

Query == "query"
Stages == {"start", "exclude", "get", "resolve", "memo", "found", "class", "judge"}
Verdicts == {"none", "silent", "reported", "deferred"}
Frame == [mod : Modules \cup {Query}, step : {"claimed", "loading", "written"},
          todo : Seq(Modules), left : Nat]

TypeOK ==
    /\ modules \in [Modules -> {"none", "indexing", "indexed"}]
    /\ budget \in 0 .. ModuleBudget
    /\ signatures \subseteq Modules
    /\ excluded \subseteq Modules
    /\ known \subseteq Modules
    /\ memo \in [Modules -> {"unknown", "some", "none"}]
    /\ program \in Programs
    /\ pass \in {"discover", "judge", "done"}
    /\ op \in [Files -> Nat \ {0}]
    /\ stage \in [Files -> Stages]
    /\ agenda \in [Files -> Seq(Modules)]
    /\ tried \in [Files -> SUBSET Modules]
    /\ stack \in [Files -> Seq(Frame)]
    /\ answer \in [Files -> BOOLEAN]
    /\ subclasses \in [Files -> SUBSET Modules]
    /\ DOMAIN verdict = Files
    /\ \A f \in Files : verdict[f] \in [DOMAIN program[f] -> Verdicts]
    /\ parsed \in [Modules -> Nat]

\* build_index_with_sources has indexed the checked files, one after another.
Init ==
    /\ modules = [m \in Modules |-> IF m \in Eager THEN "indexed" ELSE "none"]
    /\ budget = ModuleBudget
    /\ signatures = Eager
    /\ excluded = {}
    /\ known = Eager
    /\ memo = [m \in Modules |-> "unknown"]
    /\ program \in Programs
    /\ pass = "discover"
    /\ op = [f \in Files |-> 1]
    /\ stage = [f \in Files |-> "start"]
    /\ stack = [f \in Files |-> <<>>]
    /\ agenda = [f \in Files |-> <<>>]
    /\ tried = [f \in Files |-> {}]
    /\ answer = [f \in Files |-> FALSE]
    /\ subclasses = [f \in Files |-> {}]
    /\ verdict = [f \in Files |-> [i \in DOMAIN program[f] |-> "none"]]
    /\ parsed = [m \in Modules |-> 0]

(***************************************************************************)
(* Reading the state                                                       *)
(***************************************************************************)
Ended(f) == op[f] > Len(program[f])
Current(f) == program[f][op[f]]
At(f, s) == ~Ended(f) /\ pass # "done" /\ stage[f] = s
Goto(f, s) == stage' = [stage EXCEPT ![f] = s]

Top(f) == stack[f][Len(stack[f])]
Loads(f, step) == stack[f] # <<>> /\ Top(f).step = step
Wants(f, m) == Loads(f, "loading") /\ Top(f).todo # <<>> /\ Head(Top(f).todo) = m

\* Mutant of Active: a worker does not know what it is loading itself.
ActiveNone(f) == {}

\* active_modules: what the worker is loading itself.
Active(f) == {stack[f][i].mod : i \in DOMAIN stack[f]}

\* The query a worker runs, as the bottom of its stack.
Ask(f, route) ==
    stack' = [stack EXCEPT ![f] =
        <<[mod |-> Query, step |-> "loading", todo |-> route, left |-> QueryBudget]>>]

\* The module on top is dealt with, at a cost to the query budget below it.
Return(f, cost) ==
    LET below == [stack[f][Len(stack[f]) - 1] EXCEPT !.todo = Tail(@), !.left = @ - cost]
    IN stack' = [stack EXCEPT ![f] = Append(SubSeq(@, 1, Len(@) - 2), below)]

Set(m, state) == modules' = [modules EXCEPT ![m] = state]

(***************************************************************************)
(* Loading modules: ensure_module, ensure_module_data_constructor_base     *)
(***************************************************************************)
\* Mutant of Settled: a claim held by another worker is taken for its result.
SettledOnceClaimed(m) == modules[m] # "none"

Settled(m) == modules[m] = "indexed"

SkipModule(f) ==
    /\ \E m \in Modules :
          /\ Wants(f, m)
          /\ m \in Active(f) \/ Settled(m)
    /\ stack' = [stack EXCEPT ![f][Len(stack[f])].todo = Tail(@)]
    /\ UNCHANGED <<modules, budget, store, memo, program, pass, op, stage,
                   lookup, verdict, parsed>>

\* Mutant of CanClaim: a claim held by another worker is not respected.
CanClaimAnyway(m) == modules[m] # "indexed"

CanClaim(m) == modules[m] = "none"

ClaimModule(f) ==
    /\ \E m \in Modules :
          /\ Wants(f, m)
          /\ m \notin Active(f)
          /\ CanClaim(m)
          /\ Set(m, "indexing")
          /\ stack' = [stack EXCEPT ![f] = Append(@,
                [mod |-> m, step |-> "claimed", todo |-> <<>>, left |-> 0])]
    /\ UNCHANGED <<budget, store, memo, program, pass, op, stage, lookup, verdict, parsed>>

\* claim_module yields and tries again while another worker holds the claim.
WaitForModule(f) ==
    /\ \E m \in Modules : Wants(f, m) /\ m \notin Active(f) /\ modules[m] = "indexing"
    /\ UNCHANGED vars

\* Mutant of AbandonedState: losing a query's race decides the module.
AbandonedStateIndexed == "indexed"

\* abandon: the module is left for a later query.
AbandonedState == "none"

\* Mutant of Affordable: the budget of the run is not looked at.
AffordableForQuery(left) == left > 0

\* A query with this many parses left may have one more.
Affordable(left) == left > 0 /\ budget > 0

\* No such module; or the query, or the run, has parsed enough of them.
MissModule(f) ==
    /\ Loads(f, "claimed")
    /\ LET m == Top(f).mod
           left == stack[f][Len(stack[f]) - 1].left
       IN \/ Kind[m] = "absent" /\ Set(m, "indexed")
          \/ Kind[m] # "absent" /\ left = 0 /\ Set(m, AbandonedState)
          \/ Kind[m] # "absent" /\ left > 0 /\ ~Affordable(left) /\ Set(m, "indexed")
    /\ Return(f, 0)
    /\ UNCHANGED <<budget, store, memo, program, pass, op, stage, lookup, verdict, parsed>>

\* Parse the module; then load what its constructor bases name, on a query
\* budget of its own.
ParseModule(f) ==
    /\ Loads(f, "claimed")
    /\ LET m == Top(f).mod
           n == Len(stack[f])
       IN /\ Kind[m] # "absent" /\ Affordable(stack[f][n - 1].left)
          /\ budget' = budget - 1
          /\ parsed' = [parsed EXCEPT ![m] = @ + 1]
          /\ \/ /\ Kind[m] = "unparsable"
                /\ Set(m, "indexed")
                /\ Return(f, 1)
             \/ /\ Kind[m] = "good"
                /\ stack' = [stack EXCEPT
                       ![f][n - 1].left = @ - 1,
                       ![f][n] = [@ EXCEPT !.step = "loading",
                                           !.todo = Bases[m],
                                           !.left = QueryBudget]]
                /\ UNCHANGED modules
    /\ UNCHANGED <<store, memo, program, pass, op, stage, lookup,
                   verdict>>

\* index_source_with_active: a definition takes its name off the exclusions.
IndexModule(f) ==
    /\ Loads(f, "loading") /\ Top(f).todo = <<>> /\ Top(f).mod # Query
    /\ signatures' = signatures \cup {Top(f).mod}
    /\ excluded' = excluded \ {Top(f).mod}
    /\ known' = known \cup {Top(f).mod}
    /\ stack' = [stack EXCEPT ![f][Len(stack[f])].step = "written"]
    /\ UNCHANGED <<modules, budget, memo, program, pass, op, stage, lookup, verdict, parsed>>

ReleaseModule(f) ==
    /\ Loads(f, "written")
    /\ Set(Top(f).mod, "indexed")
    /\ Return(f, 0)
    /\ UNCHANGED <<budget, store, memo, program, pass, op, stage, lookup, verdict, parsed>>

(***************************************************************************)
(* Queries: get, resolve_method                                            *)
(***************************************************************************)
Target(f) == Head(agenda[f])
QueryLoaded(f) == Loads(f, "loading") /\ Top(f).mod = Query /\ Top(f).todo = <<>>

\* A name tried before, or a base class whose method is excluded, is passed
\* over; get answers from its cache, or resolves the name.
Get(f) ==
    /\ At(f, "get") /\ agenda[f] # <<>>
    /\ \/ /\ \/ Target(f) \in tried[f]
             \/ Target(f) # Current(f).name /\ Target(f) \in excluded
          /\ agenda' = [agenda EXCEPT ![f] = Tail(@)]
          /\ UNCHANGED <<stage, stack, answer>>
       \/ /\ Target(f) \notin tried[f]
          /\ Target(f) = Current(f).name \/ Target(f) \notin excluded
          /\ IF memo[Target(f)] = "unknown"
             THEN Ask(f, Route[Target(f)]) /\ Goto(f, "resolve") /\ UNCHANGED answer
             ELSE /\ answer' = [answer EXCEPT ![f] = memo[Target(f)] = "some"]
                  /\ Goto(f, "found")
                  /\ UNCHANGED stack
          /\ UNCHANGED agenda
    /\ UNCHANGED <<modules, budget, store, memo, program, pass, op, tried,
                   subclasses, verdict, parsed>>

\* resolve_alias, once the modules on its way are loaded.
Resolve(f) ==
    /\ At(f, "resolve") /\ QueryLoaded(f)
    /\ answer' = [answer EXCEPT ![f] = Target(f) \in signatures]
    /\ stack' = [stack EXCEPT ![f] = <<>>]
    /\ Goto(f, "memo")
    /\ UNCHANGED <<modules, budget, store, memo, program, pass, op, agenda, tried,
                   subclasses, verdict, parsed>>

Memoize(f) ==
    /\ At(f, "memo")
    /\ memo' = [memo EXCEPT ![Target(f)] = IF answer[f] THEN "some" ELSE "none"]
    /\ Goto(f, "found")
    /\ UNCHANGED <<modules, budget, store, program, pass, op, stack, lookup,
                   verdict, parsed>>

\* The worker's file is done with an operation.
Advance(f) == op' = [op EXCEPT ![f] = @ + 1] /\ Goto(f, "start")

\* The method called is excluded under its own name.
Barred(f) == Target(f) = Current(f).name /\ Target(f) \in excluded

\* An instance is made once its class is looked up.  A method found is judged;
\* failing that, resolve_method loads the class and goes on to its bases.
Found(f) ==
    /\ At(f, "found")
    /\ \/ Current(f).kind = "make" /\ Advance(f) /\ UNCHANGED stack
       \/ /\ Current(f).kind = "call" /\ (answer[f] \/ Barred(f))
          /\ Goto(f, "judge")
          /\ UNCHANGED <<op, stack>>
       \/ /\ Current(f).kind = "call" /\ ~answer[f] /\ ~Barred(f)
          /\ Ask(f, <<Target(f)>>) /\ Goto(f, "class")
          /\ UNCHANGED op
    /\ UNCHANGED <<modules, budget, store, memo, program, pass, lookup, verdict,
                   parsed>>

LookInBases(f) ==
    /\ At(f, "class") /\ QueryLoaded(f)
    /\ stack' = [stack EXCEPT ![f] = <<>>]
    /\ agenda' = [agenda EXCEPT ![f] =
           (IF Head(@) \in known THEN Bases[Head(@)] ELSE <<>>) \o Tail(@)]
    /\ tried' = [tried EXCEPT ![f] = @ \cup {Target(f)}]
    /\ Goto(f, "get")
    /\ UNCHANGED <<modules, budget, store, memo, program, pass, op, answer,
                   subclasses, verdict, parsed>>

(***************************************************************************)
(* What a file does: CallChecker's walk of it, in either pass              *)
(***************************************************************************)
\* A set of classes that has, with a class, all that derive from it in a hierarchy.
Closed(S, class, hierarchy) ==
    \A m \in hierarchy : Range(Bases[m]) \cap (S \cup {class}) # {} => m \in S

\* The classes of a hierarchy that derive from a class, through classes of it: the
\* least set closed under deriving.
Derived(class, hierarchy) ==
    {m \in hierarchy : \A S \in SUBSET hierarchy : Closed(S, class, hierarchy) => m \in S}

\* The classes known to derive from a class.
Heirs(class) == Derived(class, known)

\* exclude_rebinding reads the class hierarchy under one lock ...
BeginRebind(f) ==
    /\ At(f, "start") /\ Current(f).kind = "rebind"
    /\ subclasses' = [subclasses EXCEPT ![f] = Heirs(Current(f).name)]
    /\ Goto(f, "exclude")
    /\ UNCHANGED <<modules, budget, store, memo, program, pass, op, stack, agenda,
                   tried, answer, verdict, parsed>>

\* ... and excludes the method and its overrides under another.
Rebind(f) ==
    /\ At(f, "exclude")
    /\ LET lost == {Current(f).name} \cup subclasses[f]
       IN signatures' = signatures \ lost /\ excluded' = excluded \cup lost
    /\ subclasses' = [subclasses EXCEPT ![f] = {}]
    /\ Advance(f)
    /\ UNCHANGED <<modules, budget, known, memo, program, pass, stack, agenda,
                   tried, answer, verdict, parsed>>

\* The first pass leaves check_call at once.
SkipCall(f) ==
    /\ At(f, "start") /\ Current(f).kind = "call" /\ pass = "discover"
    /\ Advance(f)
    /\ UNCHANGED <<modules, budget, store, memo, program, pass, stack, lookup,
                   verdict, parsed>>

LookUp(f) ==
    /\ At(f, "start")
    /\ \/ Current(f).kind = "make"
       \/ Current(f).kind = "call" /\ pass = "judge"
    /\ agenda' = [agenda EXCEPT ![f] = <<Current(f).name>>]
    /\ tried' = [tried EXCEPT ![f] = {}]
    /\ Goto(f, "get")
    /\ UNCHANGED <<modules, budget, store, memo, program, pass, op, stack, answer,
                   subclasses, verdict, parsed>>

\* What is called: the definition found, or the name itself.
Callee(f) == IF agenda[f] = <<>> THEN Current(f).name ELSE Target(f)

\* check_call: an excluded callee is let pass, one without a signature is left
\* to ty.
Judge(f) ==
    /\ \/ At(f, "judge")
       \/ At(f, "get") /\ agenda[f] = <<>>
    /\ LET v == IF Callee(f) \in excluded THEN "silent"
                ELSE IF memo[Callee(f)] = "some" THEN "reported" ELSE "deferred"
       IN verdict' = [verdict EXCEPT ![f][op[f]] = v]
    /\ Advance(f)
    /\ UNCHANGED <<modules, budget, store, memo, program, pass, stack, lookup,
                   parsed>>

\* Mutant of Discovered: calls are judged while rebindings are still found.
DiscoveredAnyway == pass = "discover"

Discovered == pass = "discover" /\ \A f \in Files : Ended(f)

\* discover_rebinding_exclusions returns before stream_scan_files begins.  Only
\* calls are judged, so only the second pass leaves verdicts.
BeginJudging ==
    /\ Discovered
    /\ \A f \in Files : stage[f] = "start"
    /\ pass' = "judge"
    /\ op' = [f \in Files |-> 1]
    /\ UNCHANGED <<modules, budget, store, memo, program, stage, stack, lookup,
                   verdict, parsed>>

End ==
    /\ pass = "judge" /\ \A f \in Files : Ended(f)
    /\ pass' = "done"
    /\ UNCHANGED <<modules, budget, store, memo, program, op, stage, stack,
                   lookup, verdict, parsed>>

\* The check is over.
Rest == pass = "done" /\ UNCHANGED vars

Load(f) ==
    \/ SkipModule(f) \/ ClaimModule(f) \/ WaitForModule(f) \/ MissModule(f)
    \/ ParseModule(f) \/ IndexModule(f) \/ ReleaseModule(f)

Walk(f) ==
    \/ BeginRebind(f) \/ Rebind(f) \/ SkipCall(f) \/ LookUp(f) \/ Get(f)
    \/ Resolve(f) \/ Memoize(f) \/ Found(f) \/ LookInBases(f) \/ Judge(f)

Work(f) == Load(f) \/ Walk(f)

Next == (\E f \in Files : Work(f)) \/ BeginJudging \/ End \/ Rest

Spec == Init /\ [][Next]_vars

\* Every scan worker is a thread the system keeps running; so is the one that
\* waits for them.
FairSpec ==
    Spec /\ (\A f \in Files : WF_vars(Work(f))) /\ WF_vars(BeginJudging \/ End)

(***************************************************************************)
(* Properties                                                              *)
(***************************************************************************)
\* No module is parsed twice, however many workers want it at once and however
\* often it was abandoned: a second parse would spend the run's budget again
\* and index every definition again (claim_module).
ParsedOnce == \A m \in Modules : parsed[m] <= 1

\* A query is only answered from modules that are indexed in full, unless its
\* own budget ran out on the way: a claim of another worker is waited for, and
\* what that worker writes is there when the wait ends.
AnswersAreComplete ==
    \A f \in Files :
        stage[f] = "resolve" /\ QueryLoaded(f) =>
            \A m \in Range(Route[Target(f)]) :
                \/ Top(f).left = 0
                \/ modules[m] = "indexed"
                   /\ (parsed[m] > 0 /\ Kind[m] = "good" => m \in known)

\* While the run has budget left, a module is only given up for good when it
\* cannot be had: one that a single query could not afford is still loaded by a
\* later one (ModuleIndexClaim::abandon).
DecidedIsFinal ==
    \A m \in Modules :
        budget > 0 /\ modules[m] = "indexed" /\ Kind[m] = "good" => m \in known

\* Some file rebinds the name, or the name of a class it derives from.
Rebound(n) ==
    \E f \in Files : \E i \in DOMAIN program[f] :
        /\ program[f][i].kind = "rebind"
        /\ \/ n = program[f][i].name
           \/ n \in Heirs(program[f][i].name)

Calls(f) == {i \in DOMAIN program[f] : program[f][i].kind = "call"}

\* How a call of a checked file's own method ends does not depend on the order
\* in which the workers run: it is let pass if any file rebinds the method, and
\* checked otherwise (discover_rebinding_exclusions).
JudgedAlike ==
    pass = "done" =>
        \A f \in Files : \A i \in Calls(f) :
            program[f][i].name \in Eager =>
                verdict[f][i] =
                    IF Rebound(program[f][i].name) THEN "silent" ELSE "reported"

\* The same of every method, those of modules loaded on demand included: "the
\* exclusion set is complete before the first judgement".
JudgedAlikeEverywhere ==
    pass = "done" =>
        \A f \in Files : \A i \in Calls(f) :
            Rebound(program[f][i].name) => verdict[f][i] = "silent"

\* Every file is judged in the end: no worker waits for a module for ever.
EveryFileJudged == <>(pass = "done")

(***************************************************************************)
(* The inductive invariant behind the safety properties                    *)
(***************************************************************************)
Frames(f) == DOMAIN stack[f]
Held(f, i) == stack[f][i].mod

\* A worker has a query at the bottom of its stack, and on each frame the module
\* that the frame below it asks for first.
StackInOrder ==
    \A f \in Files :
        /\ stage[f] \in {"resolve", "class"} <=> stack[f] # <<>>
        /\ \A i \in Frames(f) :
              /\ Held(f, i) = Query <=> i = 1
              /\ i = 1 => stack[f][i].step = "loading"
              /\ i < Len(stack[f]) =>
                    /\ stack[f][i].step = "loading" /\ stack[f][i].todo # <<>>
                    /\ Head(stack[f][i].todo) = Held(f, i + 1)

\* A module on a stack is claimed, and by no other worker.
ClaimsAreExclusive ==
    \A f, g \in Files : \A i \in Frames(f), j \in Frames(g) :
        i # 1 =>
            /\ modules[Held(f, i)] = "indexing"
            /\ Held(f, i) = Held(g, j) => f = g /\ i = j

\* A module that can be claimed, or is claimed only, has not been parsed.
ParsedWhenClaimed ==
    /\ \A m \in Modules : modules[m] = "none" => parsed[m] = 0
    /\ \A f \in Files : \A i \in Frames(f) :
          i # 1 /\ stack[f][i].step = "claimed" => parsed[Held(f, i)] = 0

\* A module parsed and let go is in the store.
ReleasedIsKnown ==
    /\ Eager \subseteq known /\ \A m \in Eager : modules[m] = "indexed"
    /\ \A f \in Files : \A i \in Frames(f) :
          stack[f][i].step = "written" => Held(f, i) \in known
    /\ \A m \in Modules :
          modules[m] = "indexed" /\ Kind[m] = "good" /\ parsed[m] > 0 => m \in known

\* A query has dealt with what it no longer has before it.
RouteIsWalked ==
    \A f \in Files : stage[f] = "resolve" =>
        \A m \in Range(Route[Target(f)]) :
            \/ m \in Range(stack[f][1].todo)
            \/ stack[f][1].left = 0
            \/ modules[m] = "indexed"

\* A worker between two operations has nothing in hand.
InHand ==
    \A f \in Files :
        /\ stage[f] # "start" => ~Ended(f)
        /\ stage[f] \in {"resolve", "memo", "found", "class", "judge"} => agenda[f] # <<>>

IInv ==
    /\ TypeOK
    /\ StackInOrder
    /\ ClaimsAreExclusive
    /\ ParsedWhenClaimed
    /\ ParsedOnce
    /\ ReleasedIsKnown
    /\ DecidedIsFinal
    /\ RouteIsWalked
    /\ InHand

(***************************************************************************)
(* The inductive invariant behind JudgedAlike                              *)
(***************************************************************************)
\* An operation takes the method of a checked file's class out of the store.
Takes(o, n) == o.kind = "rebind" /\ n \in {o.name} \cup Derived(o.name, Eager)

\* The exclusions of checked files' methods are those of the operations done.
ExclusionsAreDone ==
    \A n \in Eager :
        /\ n \in signatures <=> n \notin excluded
        /\ n \in excluded =>
              \E f \in Files : \E i \in DOMAIN program[f] : Takes(program[f][i], n)
        /\ \A f \in Files : \A i \in DOMAIN program[f] :
              Takes(program[f][i], n) /\ (pass # "discover" \/ i < op[f]) => n \in excluded

\* A rebinding under way, and nothing else, has read what derives from its class.
RebindingHasRead ==
    \A f \in Files :
        /\ stage[f] # "start" => (Current(f).kind = "rebind" <=> stage[f] = "exclude")
        /\ stage[f] = "exclude" =>
              subclasses[f] \cap Eager = Derived(Current(f).name, Eager)

\* Only an excluded method of a checked file is not found.
FoundUnlessExcluded ==
    /\ \A n \in Eager : memo[n] = "none" => n \in excluded
    /\ \A f \in Files :
          stage[f] = "memo" /\ Target(f) \in Eager /\ ~answer[f] => Target(f) \in excluded

\* A call of a checked file's method is looked up under its own name alone.
LookedUpByName ==
    \A f \in Files :
        pass = "judge" /\ stage[f] # "start" /\ Current(f).kind = "call"
        /\ Current(f).name \in Eager =>
            /\ stage[f] \in {"get", "resolve", "memo", "found", "judge"}
            /\ agenda[f] = <<Current(f).name>> /\ tried[f] = {}
            /\ stage[f] \in {"found", "judge"} =>
                  /\ memo[Current(f).name] # "unknown"
                  /\ answer[f] \/ Current(f).name \in excluded

\* What has been judged is judged by the exclusions, which are complete.
JudgedByExclusion ==
    \A f \in Files : \A i \in Calls(f) :
        program[f][i].name \in Eager /\ (pass = "done" \/ (pass = "judge" /\ i < op[f])) =>
            verdict[f][i] = IF program[f][i].name \in excluded THEN "silent" ELSE "reported"

JInv ==
    /\ IInv
    /\ ExclusionsAreDone
    /\ RebindingHasRead
    /\ FoundUnlessExcluded
    /\ LookedUpByName
    /\ JudgedByExclusion
=============================================================================
