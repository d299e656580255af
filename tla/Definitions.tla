----------------------------- MODULE Definitions -----------------------------
(***************************************************************************)
(* What the definition index knows of one name once it has walked the body *)
(* that binds it (src/index.rs, Store and the walkers index_stmt,          *)
(* index_stmt_fast, index_class_body and index_class_body_fast), beside    *)
(* what Python may have bound to the name by then.                         *)
(*                                                                         *)
(* A behaviour writes a body: each statement that binds the name, or opens *)
(* a suite, is an action, applied at once to the index and to the set of   *)
(* values the name may have.  Bodies end wherever no suite is open.        *)
(* Statements that leave a suite early (return, break, continue) are not   *)
(* written, and a call of the body itself, which may run before a later    *)
(* definition, is not the subject: it is judged as one that runs after it. *)
(***************************************************************************)
EXTENDS Integers, FiniteSets, Sequences, SequencesExt

CONSTANTS
    MaxStatements,   \* bound: statements of a body
    MaxDepth,        \* bound: suites inside one another
    MaxClauses,      \* bound: suites of one if or match statement
    Target,          \* the version of Python checked for: <<major, minor>>
    Approximations   \* what the index is known to get wrong, that bodies may use

Known == {"overloads in branches", "dispatch and decorators in branches", "loops that do not run", "definitions in handlers",
          "suites that raise", "unreachable suites", "undecided patterns", "exact versions",
          "exclusions undone in branches"}

ASSUME DefinitionsAssumption ==
    /\ MaxStatements \in Nat /\ MaxDepth \in Nat /\ MaxClauses \in Nat
    /\ Target \in Nat \X Nat
    /\ Approximations \subseteq Known

VARIABLES
    walker,    \* how the body is walked: as a module or a class, in full or fast; or what
               \* follows a class in its module
    index,     \* Store, as far as it is about the name
    live,      \* the values the name may have here; none where nothing gets
    blocks,    \* the suites open here, innermost last
    size       \* statements so far: a definition is named by its number

vars == <<walker, index, live, blocks, size>>

Ids == 1 .. MaxStatements

\* A value is the definitions a call of it runs one of (several for overloads), whether
\* its overloads still wait for their implementation, and whether it came from a
\* rebinding the index leaves alone by design.
Value == [arms : SUBSET Ids, waiting : BOOLEAN, ignored : BOOLEAN]
Something(ignored) == [arms |-> {}, waiting |-> FALSE, ignored |-> ignored]

------------------------------------------------------------------------------
(* The store.                                                              *)

Empty == [signatures |-> <<>>, excluded |-> FALSE, shadowed |-> 0, pending |-> FALSE,
          frames |-> <<>>]

Conditional(s) == s.frames # <<>>

Push(s) == [s EXCEPT !.frames = Append(@, FALSE)]
Pop(s) == [s EXCEPT !.frames = Front(@)]
Clear(s) == IF Conditional(s) THEN [s EXCEPT !.frames[Len(s.frames)] = FALSE] ELSE s

Exclude(s) == [s EXCEPT !.signatures = <<>>, !.excluded = TRUE]
ShadowOnly(s, place) == [s EXCEPT !.shadowed = place] \* mutant: the signature stays
ExcludeAfter(s, place) == [Exclude(s) EXCEPT !.shadowed = place]

RemoveBinding(s) ==
    IF Conditional(s) THEN s
    ELSE [s EXCEPT !.signatures = <<>>, !.excluded = FALSE, !.shadowed = 0, !.pending = FALSE]

InsertOverload(s, d) ==
    [s EXCEPT !.pending = TRUE,
              !.signatures = Append(IF s.pending THEN @ ELSE <<>>, d)]

\* mutant: the later definition wins, whichever branch it is in
InsertLastWins(s, d) ==
    IF s.signatures # <<>> THEN [s EXCEPT !.signatures[Len(s.signatures)] = d]
    ELSE [s EXCEPT !.signatures = Append(@, d)]

\* A second definition in one frame replaces the last one, one in a sibling's joins it.
InsertConditional(s, d) ==
    IF Last(s.frames) /\ s.signatures # <<>>
    THEN [s EXCEPT !.signatures[Len(s.signatures)] = d]
    ELSE [s EXCEPT !.signatures = Append(@, d), !.frames[Len(s.frames)] = TRUE]

InsertDefinition(s, d) ==
    IF s.pending THEN [s EXCEPT !.pending = FALSE]
    ELSE LET clean == [s EXCEPT !.excluded = FALSE] IN
         IF Conditional(s) THEN InsertConditional(clean, d)
         ELSE [clean EXCEPT !.signatures = <<d>>]

InsertRuntime(s, d) == [s EXCEPT !.pending = FALSE, !.excluded = FALSE, !.signatures = <<d>>]

\* functools.singledispatch takes its first argument by position only: such calls are left
\* alone, whatever signatures the name has.
Dispatch(s) == [s EXCEPT !.excluded = TRUE]

\* A call of the name is judged against these definitions.
Judged == ~index.excluded /\ index.signatures # <<>>

------------------------------------------------------------------------------
(* The tests of if statements and the patterns of match statements: what   *)
(* the index takes them for, and what they may turn out to be.             *)

Before(s, t) ==
    \E i \in DOMAIN t : /\ \A j \in 1 .. i - 1 : j \in DOMAIN s /\ s[j] = t[j]
                        /\ i \in DOMAIN s => s[i] < t[i]
Compares(op, s, t) ==
    \/ op \in {"<", "<="} /\ Before(s, t)
    \/ op \in {">", ">="} /\ Before(t, s)
    \/ op \in {"<=", ">=", "=="} /\ s = t
    \/ op = "!=" /\ s # t

Comparisons == {"<", "<=", ">", ">=", "==", "!="}

\* Outside the approximations a version is compared with the target's own the way typeshed
\* does it, as the two numbers of that leave open which release it is.
VersionTests ==
    LET others == {<<Target[1], Target[2] - 1>>, <<Target[1], Target[2] + 1>>} IN
    [op : Comparisons, bound : others] \cup [op : {"<", ">="}, bound : {Target}]
    \cup IF "exact versions" \in Approximations
         THEN [op : Comparisons, bound : {Target, Append(Target, 1)}] ELSE {}

VersionInfoCondition(test) == Compares(test.op, Target, SubSeq(test.bound, 1, 2))
VersionTruths(test) == {Compares(test.op, Append(Target, micro), test.bound) : micro \in 0 .. 2}

\* A test as the index reads it (TRUE, FALSE or undecided) and its possible outcomes.
Test(definite, outcomes) == [definite |-> definite, outcomes |-> outcomes]
Undecided == Test({TRUE, FALSE}, BOOLEAN)
Else == Test({TRUE}, {TRUE})
DefiniteIfTest == {Test({b}, {b}) : b \in BOOLEAN} \cup {Undecided}
                  \cup {Test({VersionInfoCondition(t)}, VersionTruths(t)) : t \in VersionTests}

\* A case by how its pattern compares with the literal matched, and whether it has a guard.
Cases == [pattern : {"same", "different", "any"}, guard : BOOLEAN]
         \cup IF "undecided patterns" \in Approximations
              THEN [pattern : {"other"}, guard : BOOLEAN] ELSE {}
PatternOutcomes(literal, case) ==
    LET matches == CASE case.pattern = "any" -> {TRUE}
                     [] literal /\ case.pattern = "same" -> {TRUE}
                     [] literal /\ case.pattern = "different" -> {FALSE}
                     [] OTHER -> BOOLEAN
    IN  IF case.guard THEN matches \cup {FALSE} ELSE matches

\* The cases taken for certain: the first that matches, if no guard comes before it.
DefiniteMatchCase(literal, cases) ==
    {k \in DOMAIN cases :
        /\ literal
        /\ cases[k].pattern \in {"same", "any"}
        /\ \A j \in 1 .. k : ~cases[j].guard
        /\ \A j \in 1 .. k - 1 : cases[j].pattern \notin {"same", "any"}}

------------------------------------------------------------------------------
(* Suites.                                                                 *)

\* An if, match, loop or with statement: the outcomes of its tests, the suites the index
\* walks, and whether in a frame of their own.
Branch(tests, walked, framed) ==
    [kind |-> "branch", tests |-> tests, walked |-> walked, framed |-> framed, at |-> 1,
     waiting |-> {}, exits |-> {}, raises |-> FALSE, reached |-> {}]
\* A try statement: a body, handlers, an else and a finally suite.
Try(handlers, raises) ==
    [kind |-> "try", tests |-> [i \in 1 .. handlers |-> BOOLEAN], walked |-> 1 .. handlers + 3,
     framed |-> FALSE, at |-> 1, waiting |-> {}, exits |-> {}, raises |-> raises,
     reached |-> live]

Top == Last(blocks)
HandlersOf(b) == 2 .. Len(b.tests) + 1
ElseOf(b) == Len(b.tests) + 2
InHandler(b) == b.kind = "try" /\ b.at \in HandlersOf(b)
Raising(b) == b.kind = "try" /\ b.at = 1 /\ b.raises
InFrame(b) == b.framed \/ (b.kind = "try" /\ b.at \in 2 .. ElseOf(b))
Framed == {i \in DOMAIN blocks : InFrame(blocks[i])}

\* The index sees a statement of a suite it walks; of a handler's own definitions, none.
Walked == \A i \in DOMAIN blocks : blocks[i].at \in blocks[i].walked
WalkedDefinition == Walked /\ ~(blocks # <<>> /\ InHandler(Top))

Seen(new) == IF Walked THEN new ELSE index
SeenDefinition(new) == IF WalkedDefinition THEN new ELSE index

IsClass == walker \in {"class", "fast class"}
AfterClass == walker = "after a class"
ClearsHandlers == walker = "module"

\* Values given in the body of a try statement are there when a handler runs.
Reaching(values) ==
    [i \in DOMAIN blocks |->
        IF blocks[i].kind = "try" /\ blocks[i].at = 1
        THEN [blocks[i] EXCEPT !.reached = @ \cup values] ELSE blocks[i]]

Statement(new, values) ==
    /\ size < MaxStatements /\ size' = size + 1
    /\ index' = new
    /\ live' = values
    /\ blocks' = Reaching(values)
    /\ UNCHANGED walker

------------------------------------------------------------------------------
(* Definitions.                                                            *)

Here == size + 1
Defined(d) == {[arms |-> {d}, waiting |-> FALSE, ignored |-> FALSE] : v \in live}

\* Not written outside the approximations: a rebinding of a definition in a suite that may
\* have been left before it,
MayBind ==
    "suites that raise" \in Approximations \/
        \A b \in Range(blocks) : Raising(b) => \A v \in b.reached : v.arms = {}
\* and a definition that nothing reaches but the index walks, one straight in the frame of
\* handlers that may run, and one in a branch that undoes an exclusion while others of the
\* statement still have a definition.
MayDefine ==
    /\ live # {} \/ ~WalkedDefinition \/ "unreachable suites" \in Approximations
    /\ MayBind
    /\ "definitions in handlers" \in Approximations \/
         \A i \in Framed : (\A j \in Framed : j <= i) =>
                               ~(InHandler(blocks[i]) /\ blocks[i].raises)
    /\ "exclusions undone in branches" \in Approximations \/
         \A b \in Range(blocks) : index.excluded =>
             \A v \in b.waiting \cup b.exits \cup b.reached : v.arms = {}
InEveryRun(approximation) ==
    \/ approximation \in Approximations
    \/ ~Conditional(index) /\ \A b \in Range(blocks) : ~Raising(b)

\* Overloads are followed by others or by their implementation; a stub ends without one.
Complete == \A v \in live : ~v.waiting

DefineFunction ==
    /\ MayDefine
    /\ Statement(SeenDefinition(InsertDefinition(index, Here)),
                 {IF v.waiting THEN [v EXCEPT !.waiting = FALSE]
                  ELSE [arms |-> {Here}, waiting |-> FALSE, ignored |-> FALSE] : v \in live})

DefineOverload ==
    /\ MayDefine /\ InEveryRun("overloads in branches")
    /\ Statement(SeenDefinition(InsertOverload(index, Here)),
                 {[arms |-> {Here} \cup IF v.waiting THEN v.arms ELSE {}, waiting |-> TRUE,
                   ignored |-> FALSE] : v \in live})

DefineDispatch ==
    /\ MayDefine /\ Complete /\ InEveryRun("dispatch and decorators in branches")
    /\ Statement(SeenDefinition(Dispatch(index)), Defined(Here))

DefineDecorated ==
    /\ MayDefine /\ Complete /\ InEveryRun("dispatch and decorators in branches")
    /\ Statement(SeenDefinition(InsertRuntime(index, Here)), Defined(Here))

------------------------------------------------------------------------------
(* Rebindings.                                                             *)

Rebound(ignored) == {Something(ignored) : v \in live}

\* f = ... in a module or a function.
Assign ==
    /\ Complete /\ MayBind
    /\ Statement(Seen(IF index.excluded THEN index ELSE RemoveBinding(index)),
                 Rebound(Walked /\ Conditional(index)))

\* f = lambda ... in a class: only a def indexed before it is given up.
AssignLambda ==
    /\ Complete /\ MayBind
    /\ Statement(Seen(IF Conditional(index) \/ index.signatures = <<>> THEN index
                      ELSE Exclude(index)),
                 Rebound(Walked /\ Conditional(index)))

\* f = g in a class, and del f: the index keeps what it has.
Alias ==
    /\ Complete
    /\ Statement(index, Rebound(TRUE))

\* C.f = ... in the module, after the class.
AssignAttribute ==
    /\ Complete /\ MayBind
    /\ Statement(Seen(IF Conditional(index) THEN index ELSE Exclude(index)),
                 Rebound(Walked /\ Conditional(index)))

LeaveClass ==
    /\ blocks = <<>>
    /\ walker' = "after a class"
    /\ UNCHANGED <<index, live, blocks, size>>

------------------------------------------------------------------------------
(* Compound statements.                                                    *)

\* new: the store the first suite starts from; entered: the values when its test is made.
Open(block, new, entered) ==
    LET runs == block.kind = "try" \/ TRUE \in block.tests[1]
        skipped == block.kind # "try" /\ FALSE \in block.tests[1]
    IN  /\ size < MaxStatements /\ size' = size + 1 /\ Complete
        /\ size + 1 < MaxStatements \/ entered # live \* there is something to put in it
        /\ Len(blocks) < MaxDepth
        /\ index' = IF Walked /\ block.framed THEN Push(new) ELSE new
        /\ live' = IF runs THEN entered ELSE {}
        /\ blocks' = Append(Reaching(live'),
                            [block EXCEPT !.framed = @ /\ Walked,
                                          !.waiting = IF skipped THEN live ELSE {}])
        /\ UNCHANGED walker

\* The suites walked: the first decided to be taken, or every one from the first that is
\* undecided, in a frame.
IfBlock(tests) ==
    LET open == {k \in DOMAIN tests : tests[k].definite # {FALSE}}
        first == CHOOSE k \in open : \A j \in open : k <= j
        outcomes == [k \in DOMAIN tests |-> tests[k].outcomes]
    IN  IF open = {} THEN Branch(outcomes, {}, FALSE)
        ELSE IF tests[first].definite = {TRUE} THEN Branch(outcomes, {first}, FALSE)
        ELSE Branch(outcomes, first .. Len(tests), TRUE)

OpenIf ==
    \E n \in 1 .. MaxClauses, last \in BOOLEAN : \E tests \in [1 .. n -> DefiniteIfTest] :
        LET clauses == IF last THEN Append(tests, Else) ELSE tests
        IN  Open(IfBlock(clauses), index, live)

MatchBlock(literal, cases) ==
    LET outcomes == [k \in DOMAIN cases |-> PatternOutcomes(literal, cases[k])]
        definite == DefiniteMatchCase(literal, cases)
    IN  IF definite # {} THEN Branch(outcomes, definite, FALSE)
        ELSE Branch(outcomes, DOMAIN cases, TRUE)

OpenMatch ==
    \E n \in 1 .. MaxClauses, literal \in BOOLEAN : \E cases \in [1 .. n -> Cases] :
        Open(MatchBlock(literal, cases), index, live)

\* A loop whose suite may not run, runs, or does not run and is not walked.  Unless in a
\* branch its suite has no frame: it is taken to run.
LoopBlock(outcomes) ==
    Branch(<<outcomes>>, IF outcomes = {FALSE} THEN {} ELSE {1}, Conditional(index))
LoopOutcomes ==
    {{TRUE}, {FALSE}}
    \cup IF Conditional(index) \/ "loops that do not run" \in Approximations
         THEN {BOOLEAN} ELSE {}

\* The target of a for or with statement: the name itself in a module, an attribute after
\* the class; a class body has its targets passed over.
Targeted(walks) ==
    CASE ~walks \/ IsClass -> index
      [] AfterClass -> IF Conditional(index) THEN index ELSE Exclude(index)
      [] OTHER -> IF index.signatures # <<>> THEN ExcludeAfter(index, Here) ELSE index
TargetIgnored == ~Walked \/ IsClass \/ (AfterClass /\ Conditional(index))

OpenWhile == \E outcomes \in LoopOutcomes : Open(LoopBlock(outcomes), index, live)
OpenFor ==
    MayBind /\ \E outcomes \in LoopOutcomes :
        Open(LoopBlock(outcomes), Targeted(Walked /\ outcomes # {FALSE}), Rebound(TargetIgnored))

WithBlock == Branch(<<{TRUE}>>, {1}, Conditional(index))
OpenWith == Open(WithBlock, index, live)
OpenWithAs == MayBind /\ Open(WithBlock, Targeted(Walked), Rebound(TargetIgnored))

OpenTry ==
    \E handlers \in 1 .. 2, raises \in BOOLEAN : Open(Try(handlers, raises), index, live)

------------------------------------------------------------------------------
(* The end of a suite.                                                     *)

Replaced(b) == [blocks EXCEPT ![Len(blocks)] = b]
WalksAt(k) ==
    /\ k \in Top.walked
    /\ \A i \in 1 .. Len(blocks) - 1 : blocks[i].at \in blocks[i].walked

NextClause ==
    /\ blocks # <<>> /\ Top.kind = "branch" /\ Top.at < Len(Top.tests)
    /\ LET b == Top
           k == b.at + 1
       IN  /\ live' = IF TRUE \in b.tests[k] THEN b.waiting ELSE {}
           /\ blocks' = Replaced([b EXCEPT !.at = k, !.exits = @ \cup live,
                                           !.waiting = IF FALSE \in b.tests[k] THEN @ ELSE {}])
           /\ index' = IF b.framed /\ WalksAt(k) THEN Clear(index) ELSE index
    /\ UNCHANGED <<walker, size>>

EndBranch ==
    /\ blocks # <<>> /\ Top.kind = "branch" /\ Top.at = Len(Top.tests)
    /\ live' = live \cup Top.exits \cup Top.waiting
    /\ index' = IF Top.framed THEN Pop(index) ELSE index
    /\ blocks' = Front(Reaching(live'))
    /\ UNCHANGED <<walker, size>>

\* From the body to the first handler, and from one to the next.
NextHandler ==
    /\ blocks # <<>> /\ Top.kind = "try" /\ Top.at + 1 \in HandlersOf(Top)
    /\ LET b == Top IN
       /\ live' = IF b.raises THEN b.reached ELSE {}
       /\ blocks' = Replaced(IF b.at = 1 THEN [b EXCEPT !.at = 2, !.waiting = live]
                             ELSE [b EXCEPT !.at = @ + 1, !.exits = @ \cup live])
       /\ index' = CASE ~Walked -> index
                     [] b.at = 1 -> Push(index)
                     [] ClearsHandlers -> Clear(index)
                     [] OTHER -> index
    /\ UNCHANGED <<walker, size>>

\* No walker clears the frame before the else suite.
TryElse ==
    /\ blocks # <<>> /\ Top.kind = "try" /\ Top.at + 1 = ElseOf(Top)
    /\ live' = Top.waiting
    /\ blocks' = Replaced([Top EXCEPT !.at = ElseOf(Top), !.exits = @ \cup live])
    /\ UNCHANGED <<walker, index, size>>

Finally ==
    /\ blocks # <<>> /\ Top.kind = "try" /\ Top.at = ElseOf(Top)
    /\ live' = live \cup Top.exits
    /\ blocks' = Replaced([Top EXCEPT !.at = ElseOf(Top) + 1])
    /\ index' = IF Walked THEN Pop(index) ELSE index
    /\ UNCHANGED <<walker, size>>

EndTry ==
    /\ blocks # <<>> /\ Top.kind = "try" /\ Top.at > ElseOf(Top)
    /\ blocks' = Front(Reaching(live))
    /\ UNCHANGED <<walker, index, live, size>>

------------------------------------------------------------------------------
Init ==
    /\ walker \in {"module", "fast module", "class", "fast class"}
    /\ index = Empty
    /\ live = {Something(FALSE)}
    /\ blocks = <<>>
    /\ size = 0

Define == DefineFunction \/ DefineOverload \/ DefineDispatch \/ DefineDecorated
Suites ==
    \/ OpenIf \/ OpenMatch \/ OpenWhile \/ OpenFor \/ OpenWith \/ OpenWithAs \/ OpenTry
    \/ NextClause \/ EndBranch \/ NextHandler \/ TryElse \/ Finally \/ EndTry

\* The walkers, and what statements bind a name where they walk.
IndexStmt == walker = "module" /\ (Define \/ Assign \/ Alias \/ Suites)
IndexStmtFast == walker = "fast module" /\ (Define \/ Assign \/ Alias \/ Suites)
IndexClassBody ==
    walker = "class" /\ (Define \/ AssignLambda \/ Alias \/ Suites \/ LeaveClass)
IndexClassBodyFast ==
    walker = "fast class" /\ (Define \/ AssignLambda \/ Alias \/ Suites \/ LeaveClass)
IndexAfterClass == AfterClass /\ (AssignAttribute \/ Suites)

Next ==
    IndexStmt \/ IndexStmtFast \/ IndexClassBody \/ IndexClassBodyFast \/ IndexAfterClass

Spec == Init /\ [][Next]_vars

------------------------------------------------------------------------------
Ended == blocks = <<>>

\* The state keeps its shape, and nothing of a statement's frames leaks into what follows.
Store == [signatures : Seq(Ids), excluded : BOOLEAN, shadowed : 0 .. MaxStatements,
          pending : BOOLEAN, frames : Seq(BOOLEAN)]
Block == [kind : {"branch", "try"}, tests : Seq(SUBSET BOOLEAN), walked : SUBSET Nat,
          framed : BOOLEAN, at : Nat, waiting : SUBSET Value, exits : SUBSET Value,
          raises : BOOLEAN, reached : SUBSET Value]
TypeOK ==
    /\ walker \in {"module", "fast module", "class", "fast class", "after a class"}
    /\ index \in Store /\ live \subseteq Value /\ blocks \in Seq(Block)
    /\ size \in 0 .. MaxStatements
    /\ Ended => index.frames = <<>>

\* A name that is judged is judged with every definition a call of it may run: a call is
\* reported only when it exceeds them all, so a definition lost would be a false report
\* (Store::insert_definition, "keep sibling-branch signatures").
LiveDefinitionsKept ==
    Ended /\ Judged => \A v \in live : v.arms \subseteq Range(index.signatures)

\* A name is never judged only with definitions no call can run any more: after a
\* rebinding the index does follow, the old definition is not used (Store::remove,
\* Store::exclude, issues #1098 and #1107).
CandidateIsLive ==
    Ended /\ Judged /\ live # {} =>
        \E v \in live : v.ignored \/ v.arms \cap Range(index.signatures) # {}
------------------------------------------------------------------------------
(* Why the two hold: the inductive invariant, for bodies written without   *)
(* the approximations.                                                     *)

\* The values of a statement that are not live now but may be where it ends: those its next
\* tests are made with, those its suites so far ended with, and those a handler may start with.
Untaken(b) == IF b.kind = "try" /\ b.at >= ElseOf(b) THEN {} ELSE b.waiting
LeftBy(b) == IF b.kind = "try" /\ b.at > ElseOf(b) THEN {} ELSE b.exits
Caught(b) == IF b.raises /\ b.at < ElseOf(b) THEN b.reached ELSE {}
Flow(b) == Untaken(b) \cup LeftBy(b) \cup Caught(b)

\* The suites the index does not walk are those nothing gets to.
Untakeable(b, k) == TRUE \notin b.tests[k] \/ \E j \in 1 .. k - 1 : FALSE \notin b.tests[j]
BranchOK(b) ==
    /\ b.at \in DOMAIN b.tests /\ ~b.raises
    /\ \A k \in DOMAIN b.tests : k \notin b.walked => Untakeable(b, k)
    /\ b.framed => \A j \in b.walked, k \in DOMAIN b.tests : j < k => k \in b.walked
    /\ (\E j \in 1 .. b.at : FALSE \notin b.tests[j]) => b.waiting = {}
    /\ (\A j \in 1 .. b.at - 1 : TRUE \notin b.tests[j]) => b.exits = {}
TryOK(b) ==
    /\ b.walked = 1 .. Len(b.tests) + 3 /\ b.at \in b.walked /\ ~b.framed
    /\ b.at = 1 => b.waiting = {} /\ b.exits = {}
BlockOK(b) == /\ b.tests # <<>> /\ \A k \in DOMAIN b.tests : b.tests[k] # {}
              /\ IF b.kind = "try" THEN TryOK(b) ELSE BranchOK(b)
BlocksOK == \A i \in DOMAIN blocks : BlockOK(blocks[i])

\* A definition is named by the statement that made it, and so is a value.
Held(b) == b.waiting \cup b.exits \cup b.reached
Numbered ==
    /\ Range(index.signatures) \subseteq 1 .. size
    /\ \A v \in live : v.arms \subseteq 1 .. size
    /\ \A i \in DOMAIN blocks : \A v \in Held(blocks[i]) : v.arms \subseteq 1 .. size

\* Nothing gets to a suite that is not taken, nor to the statements inside it.
NotTaken(b) == \/ b.kind = "branch" /\ Untakeable(b, b.at)
               \/ InHandler(b) /\ ~b.raises
Dead(i) == live = {} /\ \A j \in DOMAIN blocks : j > i => Held(blocks[j]) = {}
DeadSuites == \A i \in DOMAIN blocks : NotTaken(blocks[i]) => Dead(i)

\* A suite walked without a frame is the one that is taken; suites are walked in a frame
\* only where the index gets to.
WalkedTo(i) == \A j \in 1 .. i - 1 : blocks[j].at \in blocks[j].walked
Taken(b, k) == FALSE \notin b.tests[k] /\ \A j \in 1 .. k - 1 : TRUE \notin b.tests[j]
SuitesOK == \A i \in DOMAIN blocks : LET b == blocks[i] IN
    /\ b.framed => WalkedTo(i)
    /\ b.kind = "branch" /\ ~b.framed /\ WalkedTo(i) =>
           \A k \in b.walked \cap DOMAIN b.tests : Taken(b, k)

\* The frames are those of the statements with one, in order, as far as the index walks.
HasFrame(i) == WalkedTo(i) /\ InFrame(blocks[i])
Owns(owner) ==
    /\ \A k, l \in DOMAIN owner : k < l => owner[k] < owner[l]
    /\ \A i \in DOMAIN blocks : HasFrame(i) <=> \E k \in DOMAIN owner : owner[k] = i
\* A frame that has a definition is in a suite the index walks, and its last signature is
\* of no value that comes from another suite of its statement or of one around that.
Guarded(i) ==
    /\ blocks[i].at \in blocks[i].walked /\ ~InHandler(blocks[i])
    /\ index.signatures # <<>> =>
           \A j \in 1 .. i : (blocks[j].kind = "try" /\ blocks[j].at = 1) \/
               \A v \in Flow(blocks[j]) : Last(index.signatures) \notin v.arms
FramesOK ==
    \E owner \in [DOMAIN index.frames -> DOMAIN blocks] :
        Owns(owner) /\ \A k \in DOMAIN owner : index.frames[k] => Guarded(owner[k])

\* What may still be live is among the signatures of a name that is not excluded.
Kept(v) == v.arms \subseteq Range(index.signatures)
KeptOK ==
    ~index.excluded =>
        /\ \A v \in live : Kept(v)
        /\ \A i \in DOMAIN blocks : \A v \in Flow(blocks[i]) : Kept(v)

\* Overloads wait for their implementation where the index does, and in one place only.
AsIndexed(v) == v.waiting = index.pending /\ (v.waiting => v.arms # {})
WaitsHere(i) == LET b == blocks[i] IN
    /\ live = {} \/ Flow(b) = {}
    /\ \A j \in DOMAIN blocks : j = i \/ Flow(b) = {} \/ Flow(blocks[j]) = {}
    /\ Untaken(b) = {} \/ (LeftBy(b) = {} /\ b.kind = "try")
    /\ Caught(b) = {}
    /\ Raising(b) => live = {} /\ \A j \in DOMAIN blocks : j >= i => Flow(blocks[j]) = {}
WaitingOK ==
    /\ \A v \in live : AsIndexed(v)
    /\ \A i \in DOMAIN blocks : \A v \in Flow(blocks[i]) : AsIndexed(v)
    /\ index.pending => \A i \in DOMAIN blocks : WaitsHere(i)

\* Some value that gets to the end is of a definition judged, or the name is left alone.
Good(v) == v.ignored \/ v.arms \cap Range(index.signatures) # {}
GoodOK ==
    Judged => \/ \E v \in live : Good(v)
              \/ \E i \in DOMAIN blocks : \E v \in Untaken(blocks[i]) \cup LeftBy(blocks[i]) : Good(v)

IInv == /\ TypeOK /\ BlocksOK /\ Numbered /\ DeadSuites /\ SuitesOK
        /\ FramesOK /\ KeptOK /\ WaitingOK /\ GoodOK
=============================================================================
