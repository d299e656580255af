-------------------------------- MODULE Scopes --------------------------------
(***************************************************************************)
(* Which definition a call of one bare name is judged against, anywhere in *)
(* a module: the scope stack of the call checker (CallChecker, src/check.rs) *)
(* beside the namespaces Python keeps while the same statements run.       *)
(*                                                                         *)
(* A behaviour walks a module.  Every statement that binds, declares or    *)
(* deletes the name, and every function, class and comprehension entered   *)
(* or left, is an action; it changes the checker's scopes as the visitor   *)
(* does and Python's values as the language says.  Statements run in the   *)
(* order they are written and every one runs: suites that may not run are  *)
(* the subject of Definitions.  A value is named by the statement that     *)
(* made it.                                                                *)
(***************************************************************************)
EXTENDS Integers, Sequences, FiniteSetsExt, SequencesExt

CONSTANTS
    MaxStatements,   \* bound: statements that bind the name, and scopes entered
    MaxDepth,        \* bound: scopes inside one another, the module's included
    Approximations   \* what the checker is known to get wrong, that modules may use

Known == {"plain assignments", "names not seen yet", "statements of functions and classes",
          "class namespaces", "nonlocal definitions", "global declarations",
          "walrus in comprehensions", "names deleted outside"}

ScopesAssumption ==
    /\ MaxStatements \in Nat /\ MaxDepth \in Nat
    /\ Approximations \subseteq Known

VARIABLES
    frames,    \* the scopes open here, the module's first
    indexed,   \* whether the index, once complete, has the module's definition of the name
    fresh,     \* the definition nothing has touched since, and how deep it is
    size       \* statements so far

vars == <<frames, indexed, fresh, size>>

None == 0
TheDef == MaxStatements + 1   \* the module's own definition: the index holds one

\* What the checker keeps of the name in one scope.  Names, functions and imported modules
\* share a value; every field a binding method clears for it is cleared by its action here.
Scope == [names : 0 .. TheDef, function : 0 .. TheDef, instance : BOOLEAN, module : BOOLEAN,
          opaque : BOOLEAN, deleted : BOOLEAN, invalidated : BOOLEAN, touched : BOOLEAN]

EmptyScope == [names |-> None, function |-> None, instance |-> FALSE, module |-> FALSE,
               opaque |-> FALSE, deleted |-> FALSE, invalidated |-> FALSE, touched |-> FALSE]

\* A frame is that scope and what Python knows of the block: whether the name is local to
\* it, or declared to belong to another, its value, and how the block defines it.
Frame(kind, local, declares, value, scope) ==
    [kind |-> kind, local |-> local, declares |-> declares, value |-> value,
     style |-> "none", scope |-> scope]

Current == frames[Len(frames)]
Allows(approximation) == approximation \in Approximations

------------------------------------------------------------------------------
(* What the binding methods do to one scope.                               *)

Bound(s, v) == [s EXCEPT !.names = v, !.function = None, !.instance = FALSE, !.module = FALSE,
                         !.opaque = FALSE, !.touched = TRUE]

Define(s, v) == [Bound(s, v) EXCEPT !.deleted = FALSE, !.invalidated = FALSE]
DefineOverMark(s, v) == [Bound(s, v) EXCEPT !.function = v] \* mutant: the marks stay
DefineFunction(s, v) == [Define(s, v) EXCEPT !.function = v]
RecordInstance(s, v) == [Bound(s, v) EXCEPT !.instance = TRUE]
MarkOpaque(s) == [Bound(s, None) EXCEPT !.opaque = TRUE]
ClearInstanceBinding(s) == [Bound(s, None) EXCEPT !.opaque = s.opaque, !.module = s.module]
DefineModule(s) == [Bound(s, None) EXCEPT !.module = TRUE, !.touched = s.touched]
DefineImported(s, v) == [DefineModule(s) EXCEPT !.names = v]
Delete(s) == [MarkOpaque(s) EXCEPT !.deleted = TRUE]
Invalidate(s) == [MarkOpaque(s) EXCEPT !.invalidated = TRUE]

IsCallable(s) == s.function # None \/ s.names # None \/ s.module

\* A target bound by a loop, a destructuring, a walrus and the like counts only where some
\* scope knows the name.
Seen == \E i \in DOMAIN frames : IsCallable(frames[i].scope)
InvalidateIfCallable(s) == IF Seen THEN Invalidate(s) ELSE s

ShadowIfKnown(s) == IF IsCallable(s) THEN Invalidate(s) ELSE s \* mutant: not in a new scope
ShadowWithTarget(s) == IF IsCallable(s) THEN Invalidate(s) ELSE MarkOpaque(s)

\* A lambda that replaces a definition is not left to ty, one that replaces an import is.
AssignLambda(s, annotated) ==
    IF ~annotated /\ IsCallable(s) /\ ~s.module THEN Invalidate(s) ELSE MarkOpaque(s)

\* nonlocal: the nearest enclosing scope that has heard of the name.
Owns(f) == /\ f.kind # "class"
           /\ \/ f.scope.function # None \/ f.scope.names # None
              \/ f.scope.opaque \/ f.scope.touched
InvalidateNonlocal(fs) ==
    LET owners == {i \in 1 .. Len(fs) - 1 : Owns(fs[i])} IN
    IF fs[Len(fs)].declares # "nonlocal" \/ owners = {} THEN fs
    ELSE [fs EXCEPT ![Max(owners)].scope =
            [@ EXCEPT !.function = None, !.names = None, !.touched = TRUE,
                      !.invalidated = TRUE, !.opaque = TRUE]]

------------------------------------------------------------------------------
(* Resolution.                                                             *)

\* The nearest scope a test holds of, 0 if none.
Nearest(Test(_)) == Max({0} \cup {i \in DOMAIN frames : Test(frames[i].scope)})

ResolveLocalFunctionCall ==
    LET Stops(s) == s.deleted \/ s.opaque \/ s.invalidated \/ s.function # None \/ s.names # None
        i == Nearest(Stops)
        s == frames[i].scope
    IN  IF i = 0 \/ s.deleted \/ s.opaque \/ s.invalidated THEN None ELSE s.function

IsInvalidatedCallableName ==
    LET Stops(s) == s.deleted \/ s.invalidated \/ s.function # None \/ s.names # None \/ s.opaque
        i == Nearest(Stops)
    IN  i # 0 /\ (frames[i].scope.deleted \/ frames[i].scope.invalidated)

IsOpaqueLocal ==
    LET Stops(s) == s.names # None \/ s.opaque
        i == Nearest(Stops)
    IN  i # 0 /\ frames[i].scope.names = None

ResolveLocal ==
    LET Named(s) == s.names # None
        i == Nearest(Named)
    IN  IF i = 0 THEN None ELSE frames[i].scope.names

\* The name arm of resolve_callee, and the index's answer to what it finds.
ResolveCallee ==
    LET found == IF ResolveLocal # None THEN ResolveLocal ELSE TheDef IN
    IF \/ \E i \in DOMAIN frames : frames[i].scope.deleted
       \/ IsInvalidatedCallableName \/ IsOpaqueLocal
       \/ found = TheDef /\ ~indexed
    THEN None ELSE found

\* The definition a call here is judged against; a call of an instance, against the
\* __call__ of its class.
Outcome == IF ResolveLocalFunctionCall # None THEN ResolveLocalFunctionCall ELSE ResolveCallee

\* The value Python finds here: blocks see the functions around them, not the classes.
PythonValue ==
    LET n == Len(frames)
        homes == {1} \cup {i \in 1 .. n : frames[i].local /\ (frames[i].kind = "class" => i = n)}
    IN  IF frames[n].kind = "class" /\ frames[n].local /\ frames[n].value = None
        THEN frames[1].value
        ELSE frames[Max(homes)].value

------------------------------------------------------------------------------
(* Statements.                                                             *)

NotFresh == [value |-> None, depth |-> 0]

Init == /\ frames = <<Frame("module", TRUE, "none", None, EmptyScope)>>
        /\ indexed \in BOOLEAN
        /\ fresh = NotFresh
        /\ size = 0

\* The frame whose value a statement here changes.
Home ==
    LET n == Len(frames) IN
    IF Current.declares = "global" THEN 1
    ELSE IF Current.declares = "nonlocal"
         THEN Max({i \in 1 .. n - 1 : frames[i].kind = "function" /\ frames[i].local})
         ELSE Max({i \in 1 .. n : frames[i].kind # "comprehension"})

\* A statement that gives the name a new value v and leaves the scopes fs.
Binds(fs, v) == /\ size < MaxStatements
                /\ size' = size + 1
                /\ frames' = [fs EXCEPT ![Home].value = v]
                /\ UNCHANGED indexed

New == size + 1
Here(Method(_)) == [frames EXCEPT ![Len(frames)].scope = Method(@)]

MayBind == /\ Current.kind # "comprehension"
           /\ Current.local \/ Current.declares # "none"

\* Only an assignment looks at a nonlocal declaration, nothing looks at a global one.
DeclaredHere(assigns) ==
    CASE Current.declares = "none" -> TRUE
      [] Current.declares = "nonlocal" -> assigns \/ Allows("nonlocal definitions")
      [] Current.declares = "global" -> Allows("global declarations")

\* The index drops the module's definition when a later statement of the module rebinds it.
KeepsIndex == Current.kind = "module" => ~(indexed /\ Current.style # "none")

\* A name no scope knows leaves no mark: harmless if the module's definition is not indexed.
SeenOrUnindexed == Seen \/ ~indexed \/ Allows("names not seen yet")

\* Deletions, imports, augmented assignments and captures are seen at module level and in the
\* suites of for and with; elsewhere in functions and classes the walk passes them by.
Walked == IF Current.kind # "module" /\ Allows("statements of functions and classes")
          THEN BOOLEAN ELSE {TRUE}

VisitFunctionDef ==
    LET inClass == Current.kind = "class"
        v == IF Current.kind = "module" THEN TheDef ELSE New
        Visit(s) == IF inClass THEN s
                    ELSE IF Current.kind = "module" THEN Define(s, v) ELSE DefineFunction(s, v)
    IN  /\ MayBind /\ DeclaredHere(FALSE)
        /\ inClass => Allows("class namespaces")
        /\ Current.style = "none" \/ (Current.kind = "function" /\ Current.style = "def")
        /\ Binds([Here(Visit) EXCEPT ![Len(frames)].style = "def"], v)
        /\ fresh' = IF inClass \/ Current.declares # "none" \/ (v = TheDef /\ ~indexed)
                    THEN NotFresh ELSE [value |-> v, depth |-> Len(frames)]

\* A class inside a class inside a function is looked up under the wrong name.
VisitClassDef ==
    LET v == IF Current.kind = "module" THEN TheDef ELSE New
        Visit(s) == Define(s, v)
    IN  /\ MayBind /\ DeclaredHere(FALSE)
        /\ Current.kind = "class" /\ (\E i \in DOMAIN frames : frames[i].kind = "function")
           => Allows("class namespaces")
        /\ (\E i \in 1 .. Len(frames) - 1 : frames[i].scope.deleted)
           => Allows("names deleted outside")
        /\ Current.style = "none"
        /\ Binds([Here(Visit) EXCEPT ![Len(frames)].style = "class"], v)
        /\ fresh' = IF Current.kind = "class" \/ Current.declares # "none" \/ (v = TheDef /\ ~indexed)
                    THEN NotFresh ELSE [value |-> v, depth |-> Len(frames)]

\* name = value, whatever the value is told to be: an instance of a class the checker
\* knows, a lambda or an attribute of an object, or anything else.
Assign(kind) ==
    LET Visit(s) == CASE kind = "instance" -> RecordInstance(s, New)
                      [] kind = "lambda" -> AssignLambda(s, FALSE)
                      [] kind = "annotated lambda" -> AssignLambda(s, TRUE)
                      [] kind = "attribute" -> MarkOpaque(s)
                      [] kind = "other" -> ClearInstanceBinding(s)
    IN  /\ MayBind /\ DeclaredHere(TRUE) /\ KeepsIndex
        /\ kind = "other" =>
              \/ Current.scope.opaque \/ Current.declares = "nonlocal"
              \/ ~indexed /\ \A i \in 1 .. Len(frames) - 1 : ~IsCallable(frames[i].scope)
              \/ Allows("plain assignments")
        /\ Binds(InvalidateNonlocal(Here(Visit)), New)
        /\ fresh' = NotFresh
VisitAssign == \E kind \in {"instance", "lambda", "annotated lambda", "attribute", "other"} : Assign(kind)

\* name: annotation, which binds nothing.
VisitAnnotation ==
    /\ MayBind /\ Current.declares = "none"
    /\ Binds(Here(MarkOpaque), frames[Home].value)
    /\ fresh' = NotFresh

\* for name in ..., and targets that are destructured.
VisitFor ==
    /\ MayBind /\ DeclaredHere(FALSE) /\ KeepsIndex /\ SeenOrUnindexed
    /\ Binds(Here(InvalidateIfCallable), New)
    /\ fresh' = NotFresh

VisitWith ==
    /\ MayBind /\ DeclaredHere(FALSE) /\ KeepsIndex
    /\ Binds(Here(ShadowWithTarget), New)
    /\ fresh' = NotFresh

VisitAugAssign ==
    /\ MayBind /\ DeclaredHere(FALSE) /\ frames[Home].value # None /\ SeenOrUnindexed
    /\ \E walked \in Walked :
          Binds(IF walked THEN InvalidateNonlocal(Here(InvalidateIfCallable)) ELSE frames, New)
    /\ fresh' = NotFresh

\* name := ...; in a comprehension it belongs to the block around it.
VisitNamedExpr ==
    LET inside == Current.kind = "comprehension" IN
    /\ Current.declares = "none" /\ SeenOrUnindexed
    /\ frames[Home].local /\ frames[Home].declares = "none"
    /\ inside => Allows("walrus in comprehensions") /\ frames[Home].kind # "class"
    /\ Binds(Here(InvalidateIfCallable), New)
    /\ fresh' = NotFresh

\* Where nothing looks at a deletion a class goes on with the module's value.
VisitDelete ==
    /\ MayBind /\ DeclaredHere(FALSE) /\ frames[Home].value # None
    /\ \E walked \in Walked \cup (IF Current.kind = "function" THEN {FALSE} ELSE {}) :
          Binds(IF walked THEN Here(Delete) ELSE frames, None)
    /\ fresh' = NotFresh

\* except ... as name: bound for the handler, deleted at its end; not looked at in classes.
VisitExceptHandler ==
    LET Handled(s) == Delete(InvalidateIfCallable(s)) IN
    /\ MayBind /\ DeclaredHere(FALSE)
    /\ Current.kind = "class" => Allows("class namespaces")
    /\ Binds(IF Current.kind = "class" THEN frames ELSE Here(Handled), None)
    /\ fresh' = NotFresh

RecordPlainImport ==
    LET Visit(s) == DefineModule(InvalidateIfCallable(s)) IN
    /\ MayBind /\ DeclaredHere(FALSE) /\ SeenOrUnindexed
    /\ \E walked \in Walked : Binds(IF walked THEN Here(Visit) ELSE frames, New)
    /\ fresh' = NotFresh

RecordFromImport ==
    LET Visit(s) == DefineImported(InvalidateIfCallable(s), New) IN
    /\ MayBind /\ DeclaredHere(FALSE)
    /\ \E walked \in Walked : Binds(IF walked THEN Here(Visit) ELSE frames, New)
    /\ fresh' = NotFresh

\* match subject: case name, where the subject may be a callable the checker knows.
VisitIrrefutableCapture ==
    LET Visit(s, callable) == IF callable THEN Define(InvalidateIfCallable(s), New)
                              ELSE InvalidateIfCallable(s)
    IN  /\ MayBind /\ DeclaredHere(FALSE)
        /\ \E walked \in Walked, callable \in BOOLEAN :
              LET At(s) == Visit(s, callable) IN
              /\ callable \/ SeenOrUnindexed
              /\ Binds(IF walked THEN Here(At) ELSE frames, New)
        /\ fresh' = NotFresh

\* globals()["name"] = ..., from anywhere in the module.
VisitGlobalsSubscript ==
    /\ size < MaxStatements
    /\ IsCallable(frames[1].scope) \/ ~indexed \/ Allows("names not seen yet")
    /\ size' = New
    /\ frames' = [frames EXCEPT ![1].value = New,
                                ![1].scope = IF IsCallable(@) THEN Invalidate(@) ELSE @]
    /\ fresh' = NotFresh
    /\ UNCHANGED indexed

\* exec("name = ..."): a function's own variables are out of its reach.
VisitExecLiteral ==
    /\ Current.kind \in {"module", "function"} /\ Current.local /\ SeenOrUnindexed
    /\ Binds(Here(InvalidateIfCallable),
             IF Current.kind = "module" THEN New ELSE frames[Home].value)
    /\ fresh' = NotFresh

------------------------------------------------------------------------------
(* Scopes entered and left.                                                *)

Enters(frame) == /\ size < MaxStatements /\ Len(frames) < MaxDepth
                 /\ size' = New
                 /\ frames' = Append(frames, frame)
                 /\ UNCHANGED indexed

\* Functions, classes and comprehensions of a class do not see its names, the checker does.
LeavesClass == Current.kind = "class" /\ Current.scope.names # None => Allows("class namespaces")

EncloserBinds(bound) ==
    \E i \in DOMAIN frames : /\ frames[i].kind = "function" /\ frames[i].local
                             /\ bound => frames[i].value # None

\* A function whose parameters may have the name, or a method.
EnterFunction ==
    /\ Current.kind # "comprehension" /\ LeavesClass
    /\ \/ \E local \in BOOLEAN :
             /\ Enters(Frame("function", local, "none", None, EmptyScope))
             /\ UNCHANGED fresh
       \/ /\ Enters(Frame("function", TRUE, "none", New, MarkOpaque(EmptyScope)))
          /\ fresh' = NotFresh
       \/ /\ EncloserBinds(~Allows("names not seen yet"))
          /\ Enters(Frame("function", FALSE, "nonlocal", None, EmptyScope))
          /\ UNCHANGED fresh
       \/ /\ Allows("global declarations")
          /\ Enters(Frame("function", FALSE, "global", None, EmptyScope))
          /\ UNCHANGED fresh

EnterClass ==
    /\ Current.kind # "comprehension" /\ LeavesClass
    /\ \E local \in BOOLEAN :
          /\ local /\ EncloserBinds(FALSE) => Allows("class namespaces")
          /\ Enters(Frame("class", local, "none", None, EmptyScope))
    /\ UNCHANGED fresh

EnterComprehension ==
    /\ LeavesClass
    /\ \/ /\ Enters(Frame("comprehension", FALSE, "none", None, EmptyScope))
          /\ UNCHANGED fresh
       \/ /\ SeenOrUnindexed
          /\ Enters(Frame("comprehension", TRUE, "none", New, InvalidateIfCallable(EmptyScope)))
          /\ fresh' = NotFresh

Leave == /\ Len(frames) > 1
         /\ frames' = Front(frames)
         /\ fresh' = IF fresh.depth < Len(frames) THEN fresh ELSE NotFresh
         /\ UNCHANGED <<indexed, size>>

Next == \/ VisitFunctionDef \/ VisitClassDef \/ VisitAssign \/ VisitAnnotation \/ VisitFor
        \/ VisitWith \/ VisitAugAssign \/ VisitNamedExpr \/ VisitDelete \/ VisitExceptHandler
        \/ RecordPlainImport \/ RecordFromImport \/ VisitIrrefutableCapture
        \/ VisitGlobalsSubscript \/ VisitExecLiteral
        \/ EnterFunction \/ EnterClass \/ EnterComprehension \/ Leave

Spec == Init /\ [][Next]_vars

------------------------------------------------------------------------------
(* Properties.                                                             *)

\* Wherever a call may stand, the definition it is judged against is the value Python finds
\* under the name there: no rebinding of the forms that a module without Approximations may
\* use, in the scope of the call or one around it, leaves the checker with a definition the
\* call does not reach (resolve_local_function_call and the name arm of resolve_callee).
NoFalseResolution == Outcome # None /\ PythonValue # None => Outcome = PythonValue

\* A function or class just defined is what calls of its name are judged against, in its
\* own block and in blocks inside it, whatever an enclosing scope did with the name before
\* (is_invalidated_callable_name: a nearer binding replaces what an outer scope deleted or
\* invalidated).
FreshBindingResolves == fresh.value # None => Outcome = fresh.value
===============================================================================
