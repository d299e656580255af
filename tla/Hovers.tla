-------------------------------- MODULE Hovers --------------------------------
(***************************************************************************)
(* Which deferred calls share one question to ty: while a module is        *)
(* walked, calls through one name are filed under the binding of the name  *)
(* that is in force, and whatever could make two of them mean different    *)
(* things withdraws them from their group, those already filed too         *)
(* (src/check.rs, note_hover_binding to take_pending_hover_groups).        *)
(*                                                                         *)
(* The walk is followed through one name and one attribute of it: bindings *)
(* of different names never meet, and the group of a call is that of its   *)
(* binding, as calls of different attributes or shapes have different      *)
(* keys.  Beside it the history keeps what Python's scoping and ty's       *)
(* inference go by: which scope binds the name, how often, and where it    *)
(* may have been narrowed.                                                 *)
(***************************************************************************)
EXTENDS Integers, FiniteSets, Sequences, SequencesExt

CONSTANTS
    MaxEvents,        \* bound: statements, mentions, calls and scopes of a module
    MaxDepth,         \* bound: scopes inside each other
    Approximations    \* what the checker is known to get wrong, that programs may use

Known == {"comprehensions and defaults of lambdas", "annotated names", "bindings of declared names",
          "bindings without a frame", "classes of one name"}

HoversAssumption ==
    /\ MaxEvents \in Nat /\ MaxDepth \in Nat \ {0}
    /\ Approximations \subseteq Known

VARIABLES
    scopes,      \* hover_scope_stack, the module first: [id, kind, frameStart, pendingStart]
    frames,      \* hover_group_frames: [ctx, shared, scope, start, inClass]
    pending,     \* hover_group_of_pending: the context of each deferred call, or None
    poisoned,    \* poisoned_hover_ctxs and the contexts of poisoned_hover_keys
    retro,       \* hover_retro_poisons: [ctx, from, to]
    ctxs,        \* next_hover_ctx
    selfs,       \* class_self_hover_ctxs: of each class, by its scope, its context, or None
    entered,     \* the scopes entered so far: [kind, class], a method's class or None
    calls,       \* of each deferred call: the scopes around it, and whether its name is the one followed
    history      \* what has happened to the name: [chain, what], the scopes around it

vars == <<scopes, frames, pending, poisoned, retro, ctxs, selfs, entered, calls, history>>
ghosts == <<entered, calls, history>>

None == 0
Scope == Last(scopes)

------------------------------------------------------------------------------
(* The code.                                                                *)

\* Frames of a class body are visible in the class body alone.
VisibleFrame ==
    SelectLastInSeq(frames, LAMBDA f : ~f.inClass \/ f.scope = Scope.id)
Context(i) == IF frames[i].shared # None THEN frames[i].shared ELSE frames[i].ctx

Slice(ctx, from) == [ctx |-> ctx, from |-> from + 1, to |-> Len(pending)]

\* Mutated: the calls filed under the shared context are left there.
PoisonFrameFromHere(i) ==
    /\ poisoned' = poisoned \cup {frames[i].ctx}
    /\ frames' = [frames EXCEPT ![i].shared = None]
    /\ UNCHANGED retro

\* Poisoning a frame ends the sharing of its method only, and withdraws what it filed.
PoisonFrame(i) ==
    /\ poisoned' = poisoned \cup {frames[i].ctx}
    /\ frames' = [frames EXCEPT ![i].shared = None]
    /\ retro' = IF frames[i].shared = None THEN retro
                ELSE retro \cup {Slice(frames[i].shared, frames[i].start)}

PoisonVisible ==
    LET i == VisibleFrame
    IN IF i = 0 THEN UNCHANGED <<frames, poisoned, retro>> ELSE PoisonFrame(i)

\* A frame of the scope's own; one it shadows loses what was filed since the scope began.
Opened(ctx) == [ctx |-> ctx, shared |-> None, scope |-> Scope.id, start |-> Scope.pendingStart,
                inClass |-> Scope.kind = "class"]
Shadowed(i) == IF i = 0 THEN {} ELSE {Slice(c, Scope.pendingStart) : c \in {frames[i].ctx, frames[i].shared} \ {None}}
NoteBinding ==
    LET i == VisibleFrame
    IN IF i # 0 /\ frames[i].scope = Scope.id THEN PoisonFrame(i) /\ UNCHANGED ctxs
       ELSE /\ retro' = retro \cup Shadowed(i)
            /\ frames' = Append(frames, Opened(ctxs + 1))
            /\ ctxs' = ctxs + 1
            /\ UNCHANGED poisoned

\* The group of a call: the context of the frame in force, unless the call stands before
\* the binding, as the element of a comprehension does.
GroupForCall == IF VisibleFrame = 0 THEN None ELSE Context(VisibleFrame)

\* What is left of the groups when the file has been walked.
TakeGroups ==
    [n \in DOMAIN pending |->
        IF pending[n] \in poisoned \/ \E r \in retro : r.ctx = pending[n] /\ n \in r.from .. r.to
        THEN None ELSE pending[n]]

------------------------------------------------------------------------------
(* The walk.                                                                *)

May(a) == a \in Approximations
Events == Len(SelectSeq(history, LAMBDA h : h.what # "parameter")) + Len(calls) + Len(entered) - 1
Room == Events < MaxEvents
Chain == [n \in DOMAIN scopes |-> scopes[n].id]
Happens(what) ==
    /\ Room
    /\ history' = Append(history, [chain |-> Chain, what |-> what])
    /\ UNCHANGED <<scopes, pending, selfs, entered, calls>>

Here == {history[n].what : n \in {n \in DOMAIN history : history[n].chain = Chain}}

\* An assignment, an import, a def, a class, a loop or with target.
Bind ==
    /\ "declared" \in Here => May("bindings of declared names")
    /\ NoteBinding
    /\ \/ Happens("bound")
       \/ May("annotated names") /\ Happens("annotated")

\* The name as a test, an operand of a comparison or of and, or, not, or an argument.
Narrow == PoisonVisible /\ Happens("narrowed") /\ UNCHANGED ctxs

\* An except clause, a case pattern, del or an augmented assignment: no frame is opened.
Rebind ==
    /\ (VisibleFrame = 0 \/ frames[VisibleFrame].scope # Scope.id) => May("bindings without a frame")
    /\ "declared" \in Here => May("bindings of declared names")
    /\ PoisonVisible /\ Happens("bound") /\ UNCHANGED ctxs

\* global: the name is the module's in this scope.
Declare ==
    /\ Scope.kind = "function" /\ Here = {}
    /\ ~\E n \in DOMAIN calls : IsPrefix(Chain, calls[n].chain)
    /\ PoisonVisible /\ Happens("declared") /\ UNCHANGED ctxs

\* The attribute, not called: read, tested or assigned.
Mention ==
    /\ poisoned' = poisoned \cup ({GroupForCall} \ {None})
    /\ Happens("mentioned")
    /\ UNCHANGED <<frames, retro, ctxs>>

\* A call through the name, or through another of the same spelling that no frame is opened
\* for: the variable of a comprehension, what its condition has narrowed the name to, or, in
\* a lambda's default, the name outside.
Call ==
    /\ Room
    /\ pending' = Append(pending, GroupForCall)
    /\ \E own \in BOOLEAN : /\ own \/ May("comprehensions and defaults of lambdas")
                            /\ calls' = Append(calls, [chain |-> Chain, own |-> own])
    /\ UNCHANGED <<scopes, frames, poisoned, retro, ctxs, selfs, entered, history>>

Deeper == Room /\ Len(scopes) < MaxDepth
NewScope(kind) ==
    [id |-> Len(entered) + 1, kind |-> kind, frameStart |-> Len(frames), pendingStart |-> Len(pending)]

EnterScope ==
    /\ Deeper
    /\ \E kind \in {"function", "class"} : /\ scopes' = Append(scopes, NewScope(kind))
                                           /\ entered' = Append(entered, [kind |-> kind, class |-> None])
    /\ selfs' = Append(selfs, None)
    /\ UNCHANGED <<frames, pending, poisoned, retro, ctxs, calls, history>>

\* A function or lambda with a parameter of that name.
ParameterFrame(scope, shared) ==
    [ctx |-> ctxs + 1, shared |-> shared, scope |-> scope.id, start |-> scope.pendingStart, inClass |-> FALSE]
EnterBound ==
    /\ Deeper
    /\ LET new == NewScope("function")
       IN /\ scopes' = Append(scopes, new)
          /\ frames' = Append(frames, ParameterFrame(new, None))
          /\ history' = Append(history, [chain |-> Append(Chain, new.id), what |-> "parameter"])
    /\ ctxs' = ctxs + 1 /\ selfs' = Append(selfs, None)
    /\ entered' = Append(entered, [kind |-> "function", class |-> None])
    /\ UNCHANGED <<pending, poisoned, retro, calls>>

\* A method whose plain self the name is: it shares the context of its class, which is
\* remembered by the name of the class.
Named(class) == {class} \cup {c \in 1..class : May("classes of one name") /\ entered[c].kind = "class"}
EnterMethod ==
    /\ Deeper /\ Scope.kind = "class"
    /\ \E class \in Named(Scope.id) :
        LET new == NewScope("function")
            shared == IF selfs[class] = None THEN ctxs + 2 ELSE selfs[class]
        IN /\ scopes' = Append(scopes, new)
           /\ frames' = Append(frames, ParameterFrame(new, shared))
           /\ history' = Append(history, [chain |-> Append(Chain, new.id), what |-> "parameter"])
           /\ ctxs' = IF selfs[class] = None THEN ctxs + 2 ELSE ctxs + 1
           /\ selfs' = Append([selfs EXCEPT ![class] = shared], None)
    /\ entered' = Append(entered, [kind |-> "function", class |-> Scope.id])
    /\ UNCHANGED <<pending, poisoned, retro, calls>>

Exit ==
    /\ Len(scopes) > 1
    /\ frames' = SubSeq(frames, 1, Scope.frameStart)
    /\ scopes' = Front(scopes)
    /\ UNCHANGED <<pending, poisoned, retro, ctxs, selfs, entered, calls, history>>

Init ==
    /\ scopes = <<[id |-> 1, kind |-> "module", frameStart |-> 0, pendingStart |-> 0]>>
    /\ frames = <<>> /\ pending = <<>> /\ poisoned = {} /\ retro = {} /\ ctxs = 0
    /\ selfs = <<None>> /\ entered = <<[kind |-> "module", class |-> None]>>
    /\ calls = <<>> /\ history = <<>>

Next == Bind \/ Narrow \/ Rebind \/ Declare \/ Mention \/ Call \/ EnterScope \/ EnterBound \/ EnterMethod \/ Exit

Spec == Init /\ [][Next]_vars

------------------------------------------------------------------------------
(* What the name means where it is called, by Python's scoping.             *)

Binding == {"parameter", "bound", "annotated"}
Bound(chain) == \E n \in DOMAIN history : history[n].chain = chain /\ history[n].what \in Binding
DeclaredIn(chain) == \E n \in DOMAIN history : history[n].chain = chain /\ history[n].what = "declared"

\* The scope whose variable the name is, as its chain: the module's where it is declared so.
Owning(chain) ==
    {n \in 1..Len(chain) : /\ n = Len(chain) \/ entered[chain[n]].kind # "class"
                           /\ LET c == SubSeq(chain, 1, n) IN Bound(c) \/ DeclaredIn(c)}
Owner(chain) ==
    LET ns == Owning(chain)
        n == CHOOSE n \in ns : \A m \in ns : m <= n
        c == SubSeq(chain, 1, n)
    IN IF ns = {} \/ DeclaredIn(c) THEN SubSeq(chain, 1, 1) ELSE c

Bindings(owner) == {n \in DOMAIN history : history[n].what \in Binding /\ Owner(history[n].chain) = owner}
Disturbances(call, owner) ==
    {n \in DOMAIN history : /\ history[n].what \in {"narrowed", "mentioned"}
                            /\ IsPrefix(history[n].chain, call.chain) /\ Owner(history[n].chain) = owner
                            /\ \E b \in Bindings(owner) : b < n}

\* The self of a method stands for those of all methods of its class.
Variable(owner) ==
    LET class == entered[Last(owner)].class IN IF class = None THEN owner ELSE <<"self of", class>>

\* PROPERTY.
Alike(a, b) ==
    LET ownerA == Owner(a.chain)
        ownerB == Owner(b.chain)
    IN /\ a.own /\ b.own /\ Variable(ownerA) = Variable(ownerB)
       /\ \A o \in {ownerA, ownerB} : /\ Cardinality(Bindings(o)) = 1
                                      /\ \A n \in Bindings(o) : history[n].what = "annotated" => (a.chain = o <=> b.chain = o)
       /\ Disturbances(a, ownerA) = {} /\ Disturbances(b, ownerB) = {}

\* Calls that share one question to ty when the module has been walked mean the same thing
\* through the same unnarrowed binding, in a module without Approximations.  Narrowing in one
\* method and a call in another take six events.  (take_pending_hover_groups)
GroupsHoverAlike ==
    Len(scopes) = 1 =>
        \A m, n \in DOMAIN calls : m # n /\ TakeGroups[m] # None /\ TakeGroups[m] = TakeGroups[n] => Alike(calls[m], calls[n])
=============================================================================
