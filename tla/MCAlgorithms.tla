---------------------------- MODULE MCAlgorithms ----------------------------
(***************************************************************************)
(* Four parts of the checker that share no state, explored by one run: the *)
(* scopes of a name, the groups of deferred calls, the constructors of     *)
(* data models and the selection of files.  A behaviour is that of one     *)
(* part, and the others stay where they begin: the states of the parts add *)
(* up.                                                                     *)
(***************************************************************************)
EXTENDS Integers, Sequences

CONSTANTS
    MaxStatements, MaxBlocks,            \* the bounds of Scopes
    MaxEvents, MaxScopes,                \* of Hovers
    MaxClasses, MaxFields, MaxPeculiar,  \* of DataModels
    MaxEntries, MaxPath,                 \* of Selection
    Approximations                       \* none: those of the parts have different names

VARIABLES
    blocks, indexed, fresh, size,
    scopes, frames, pending, poisoned, retro, ctxs, selfs, entered, calls, history,
    classes, models, signatures, synthesized, python,
    tree, request

nameVars == <<blocks, indexed, fresh, size>>
hoverVars == <<scopes, frames, pending, poisoned, retro, ctxs, selfs, entered, calls, history>>
modelVars == <<classes, models, signatures, synthesized, python>>
selectionVars == <<tree, request>>

N == INSTANCE Scopes WITH frames <- blocks, MaxDepth <- MaxBlocks
H == INSTANCE Hovers WITH MaxDepth <- MaxScopes
D == INSTANCE DataModels
S == INSTANCE Selection WITH MaxDepth <- MaxPath

ASSUME AlgorithmsAssumption ==
    N!ScopesAssumption /\ H!HoversAssumption /\ D!DataModelsAssumption /\ S!SelectionAssumption

Init == N!Init /\ H!Init /\ D!InitModels /\ S!InitSelection

\* What has not begun.
NoNames == size = 0 /\ ~indexed
NoWalk == Len(entered) = 1 /\ history = <<>> /\ calls = <<>>
NoClasses == classes = <<>>
NoFiles == tree = S!Roots /\ request = {}

BindName == NoWalk /\ NoClasses /\ NoFiles /\ N!Next /\ UNCHANGED <<hoverVars, modelVars, selectionVars>>
Walk == NoNames /\ NoClasses /\ NoFiles /\ H!Next /\ UNCHANGED <<nameVars, modelVars, selectionVars>>
IndexClass == NoNames /\ NoWalk /\ NoFiles /\ D!IndexClass /\ UNCHANGED <<nameVars, hoverVars, selectionVars>>
AddEntry == NoNames /\ NoWalk /\ NoClasses /\ S!AddEntry /\ UNCHANGED <<nameVars, hoverVars, modelVars>>
RunCheck == NoNames /\ NoWalk /\ NoClasses /\ S!RunCheck /\ UNCHANGED <<nameVars, hoverVars, modelVars>>

Spec == /\ Init
        /\ [][BindName \/ Walk \/ IndexClass \/ AddEntry \/ RunCheck]_<<nameVars, hoverVars, modelVars, selectionVars>>

\* A call is judged against nothing but what Python finds under its name.
\* (src/check.rs resolve_local_function_call, resolve_callee; see Scopes)
NoFalseResolution == N!NoFalseResolution

\* A definition nothing has touched since is what calls are judged against.
\* (src/check.rs is_invalidated_callable_name; see Scopes)
FreshBindingResolves == N!FreshBindingResolves

\* Calls that share one question to ty mean the same.
\* (src/check.rs take_pending_hover_groups; see Hovers)
GroupsHoverAlike == H!GroupsHoverAlike

\* A made-up constructor is the one Python gives the class.
\* (src/index/data_model.rs synthesize_data_constructor; see DataModels)
ConstructorsAreGenerated == D!ConstructorsAreGenerated

\* The two walks over a whole project select the same files.
\* (src/check/file_selection.rs; see Selection)
WalksAgree == S!WalksAgree

\* What the results of a check depend on is fingerprinted.
\* (src/cache.rs compute_cache_fingerprints_with_project_files; see Selection)
SourcesAreFingerprinted == S!SourcesAreFingerprinted
=============================================================================
