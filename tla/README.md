# TLA+ models of strict-kwargs

`strict-kwargs` reports (and with `--fix` rewrites) calls that pass positional
arguments where keyword arguments could be used. This directory holds TLA+
models of its concurrent, fallible and stateful parts and of the algorithms that
decide what is reported and rewritten, TLC configurations that check them on
small instances, and proofs checked by TLAPS. All paths below
are relative to the repository; line numbers without a directory are in its
`src/`.

## 1. Inventory

A check is one process. It reads a sorted list of Python files, answers what it
can from an on-disk cache, scans the rest in a pool of worker threads that share
one definition index, hands calls it cannot judge to a few *shards* (threads,
each with its own `ty server` child process), merges the diagnostics, applies
`# noqa`, stores the results and prints them. A fix run (`check --fix`) works
file after file in one thread, with one ty server, and ends by writing all
fixes as one recoverable operation, journalled on disk.

| Component | Source | State it keeps | Operations | What is hard | What makes it correct |
|---|---|---|---|---|---|
| Fix writer and journal | `src/fix.rs` | destination, `.new`, `.old` and journal files | recover, prepare, stage, journal, move aside, move in, commit, roll back, clean up | crash or I/O error between any two file operations; files edited after a crash; several journals | no saved text is lost; all of a plan or none of it; nothing moved aside is forgotten |
| Fix runner | `src/check/fix_runner.rs`, `src/main.rs` | counts of rewritten and declined | recover, scan, resolve with ty, write | re-attempts that already counted | every diagnostic is rewritten or declined, once |
| ty client | `src/ty_resolver.rs` | request ids, buffer of early answers, OFF latch | open, ask, collect, absorb, reset | answers late, out of order, erroneous, missing; server death | every wait ends; an answer is used for its own request only |
| ty fallback | `src/check.rs` (`resolve_file_with_ty` ...) | pending calls, hover-group caches, attempts | hover phase, definition phase, overloads, retry | failed attempts leave half results; group caches | a file's diagnostics are a function of ty's answers, whatever went wrong on the way |
| Definition index | `src/index.rs` | module table with claims, signatures, exclusions, class bases, query cache, budgets | claim, parse, walk statements, index, abandon, get, exclude, resolve a method | parallel claims, claims held while waiting, budgets, rebindings found in any order; definitions in branches that may not run | a module is parsed once; verdicts independent of scheduling; no thread waits for ever; a name is judged with every definition a call may run |
| Constructor synthesis | `src/index/data_model.rs`, functional forms in `src/index.rs` | the models of the classes indexed so far | synthesize for a decorated, inherited or functional class | the order of fields over several bases; what a field's kind leaves out | the constructor filed is the one Python generates |
| Check pipeline | `src/check.rs` (`check_paths_impl`, `pipeline_phases`) | channels, in-order buffer, shard loads, error slot | preflight, discover, scan, release, assign, answer, join, finish | threads joined by bounded and unbounded channels; errors on either side | result of a serial check; reproducible streams; errors surface; it ends |
| Diagnostic cache | `src/cache.rs` | one manifest of entries and fingerprints | fingerprint, load, validate, look up, store, replace | dependencies that change, files that stop parsing, concurrent writers, checks of different selections | an entry is what a scan would find |
| Call checker | `src/check.rs` (`CallChecker`), `src/signature.rs` | scope stack, hover-group frames, pending calls, planned insertions | walk the statements of a file, look a callee up, judge a call, plan its fix, defer it to ty | rules of scopes, receivers and boundaries between a call and the definition found; values that flow through containers; calls that share one question to ty | judges the call Python would make; a fix keeps what every argument is bound to |
| File selection | `src/check/file_selection.rs`, walks of `src/cache.rs` | none | select, take the inventory, fingerprint | three walks with their own treatment of links, loops and exclusions | they agree; what a check depends on is fingerprinted |
| Configuration, resolver, noqa, decoding, limits | `config.rs`, `resolve.rs`, `noqa.rs`, `source.rs`, `limits.rs` | none | pure functions | boundary cases | agree with their references |
| Command line | `src/main.rs` | none | dispatch, exit code | - | the exit code tells what happened |

Interactions: the pipeline calls the index from every scan worker (shared
mutexes), sends pending calls over channels to the shards, and each shard runs
the ty fallback over its own client. The fix runner uses the same checker and
fallback in one thread, then the fix writer. The cache is read before and
written after the pipeline; what it fingerprints comes from the same walks that
select the files. Within a scan, the call checker looks names up in its scopes
and the index, judges with signatures that the index filed (or made up), and
leaves the rest to the fallback in groups.

`PROJECT.json` lists every component with its status, and under `hazards` what
is hard to test in this code, line by line, with the properties that cover it.

## 2. Modules

    FixJournal --INSTANCE--> AtomicFix        (refinement)
        ^  ^
        |  FixJournalProofs                                             (TLAPS)
    MCFixJournal
    TyFallback  <-- MCTyFallback
        ^
        TyFallbackProofs                                                (TLAPS)
    ModuleIndex <-- MCModuleIndex
        ^
        ModuleIndexProofs                                               (TLAPS)
    CheckPipeline <-- MCCheckPipeline
        ^
        CheckPipelineProofs --> SequenceLemmas                          (TLAPS)
    DiagCache   <-- MCDiagCache
        ^
        DiagCacheProofs                                                 (TLAPS)
    CallRewrite <-- MCCallRewrite
        ^
        CallRewriteProofs --> SequenceLemmas                            (TLAPS)
    Definitions <-- MCDefinitions
        ^
        DefinitionsProofs --> SequenceLemmas                            (TLAPS)
    Literals <-- Iterators <-- MCLiterals
    Scopes, Hovers, DataModels, Selection <--INSTANCE-- MCAlgorithms

`FixJournal`, `TyFallback`, `ModuleIndex`, `CheckPipeline` and `DiagCache` model
processes, threads, files and messages.
The others model algorithms: a behaviour *writes* a program, statement by
statement, each step does to the checker's state what the visitor does and
beside it to a reference state what Python does, and the properties compare the
two. They compose through facts: `CheckPipeline` takes the answer of a scan and
of ty as functions of the project (`ModuleIndex!JudgedAlike`,
`TyFallback!FiledIsExact`), `TyFallback` takes hover groups as given
(`Hovers!GroupsHoverAlike`), `ModuleIndex` takes what a module defines as given
(`Definitions`, `DataModels`), `CallRewrite` takes the definition a callee
resolves to as given (`Scopes`, `Literals`, `Iterators`), and `DiagCache` takes the set
of fingerprinted files as given (`Selection`).

**Approximations.** A static checker does not follow Python everywhere. Each
algorithm module names, in a constant `Approximations` (in `Iterators`
`Habits`), the constructs on which it does not, as found while modelling. The
programs of the runs avoid them; with one of them allowed the properties are
violated, which was checked for each. The properties therefore hold of the rest, and
the lists, in section 3, are as much a result as the properties.

### FixJournal, AtomicFix

`FixJournal` is `write_all_preserving_encoding`, `commit_prepared_fixes`,
`recover_fix_transactions` and the run around them. A run is its transaction
(its process id and counter in the file names). One action per file operation,
because a crash may fall between any two:

| Action | Code (`src/fix.rs`) |
|---|---|
| `StartRun` | the run lists its files and the journals in their directories |
| `OpenJournal`, `OpenOwnJournal` | `recover_journal`: read, look at `committed` |
| `RollEntry`, `RemoveFixed`, `RenameBackup`, `RemoveStaged` | `recover_journal`, one entry, last first |
| `CleanEntry`, `RemoveJournal`, `EndRecovery` | `cleanup_committed_transaction`, removal and directory sync |
| `PlanFixes`, `PrepareFile`, `EndPrepare` | analysis; `ensure_source_is_current` |
| `StageFile`, `WriteJournal` | staged `.new` files; the journal by write-and-rename |
| `MoveAside`, `MoveIn`, `CommitJournal` | the two renames of a file; the committed journal |
| `StagingError`, `CommitError`, `ResolveError`, `Crash` | what each error path does, at each place it may arise |
| `Save` | a person saves a file in an editor |

Every I/O error has two outcomes where the code syncs a directory *after* a
rename or a removal: the error is reported with the file operation done or not
done. `MustRestore` is `backup_must_be_restored`; a digest is the text it is
computed from. `latest` is history: what a person last saved at each path.

`AtomicFix` is the promise: all files of a plan change at once, or the plan is
given up; a file somebody saves meanwhile leaves the plan and keeps what was
saved. `FixJournal!CommitIsAtomic` states it of `view`, in which a file has the
text of the backup that recovery must restore, if there is one, and of `plan`,
the entries of a run that may still commit.

Not modelled: power loss (a process crash loses no rename already made); users
who delete files; two fix runs at once (the code takes no lock; the guard in
`Next` lets one run at a time); a file saved in the window between its check and
the rename that moves it aside (`Exposed`), which the renames cannot close and
the code does not claim to; leftovers that no property reads (`.json.tmp`, and
`.new` files of a crash before the journal).

### TyFallback

One shard and its client. `Work` is what a file brings: calls (with a hover
group, and what ty would say of their hover and definition) and, in a fix run,
overloads. `ClientStep` is `resolve_file_with_ty` with its attempts
(`BeginAttempt`, `Judge`), the hover and definition phases, asked in chunks of
`InFlight` and collected in order (`Ask`, `TakeCached`, `TakeNothing`,
`TakeBuffered`, `Timeout`, `Disconnect`), the nested definition request for an
ignore entry (`AskIgnore`), the `__class__` normalisation and the overload pass.
`Receive` and `Absorb` are a response arriving, in any order, as a result or as
an error; `ServerDies` may happen at any moment.

Abstracted: what a hover text means (five classes of it); requests of the server
to the client. Each response is used once. A file's diagnostics are a count for
each of its calls: what the properties say of them is which there are and how
often, and the code sorts them in the end. Left out of the inputs of `ty_fix`:
`instance.__class__` calls, counted twice there (`check.rs:15425`). The overload
pass remembers a failed start of the server, which then drops the calls of later
files (`check.rs:14784`): the model has it (`BeginOverloads`), `FiledIsExact` is
checked where it cannot happen. Section 3 has an instance of either. Not
modelled: insertions that are all known already (`check.rs:14534`).

### ModuleIndex

The shared index under the two passes of a check. Every module defines one
class with one method, so one name stands for all three; `Route` are the
modules a query for the name goes through (its prefixes and re-exports) and
`Bases` the bases of its class. A worker's `stack` is its call stack: the query,
and the modules it is loading for it, each with its own query budget.
`ClaimModule`, `WaitForModule`, `MissModule`, `ParseModule`, `IndexModule` and
`ReleaseModule` are `claim_module` and `ensure_module` (with the preloading of
constructor bases while the claim is held), `Get` to `LookInBases` are `get` and
`resolve_method`, `BeginRebind` and `Rebind` are `exclude_rebinding` (two locks),
`Judge` is `check_call`'s reading of the index. `BeginJudging` is the barrier
between the discovery pass and the scan. `Heirs`, the subclasses a rebinding
excludes, is the least set closed under deriving, which is what the search of
`inherits_from_bases_map` with its visited set finds; stated so, it can be
reasoned about. `verdict` keeps for each operation of a file what became of it.

Abstracted: what statements define; the `__init__`/`__new__` guesses; caps on
alias steps and depth. `Judge` reads exclusions and the cache in one step.
A name asked while its module could not be afforded stays unknown in the cache
(`memo`), as in the code.

### CheckPipeline

A whole check: preflight over the cache, discovery, scan workers, the
coordinator's receive, in-order release and greedy assignment, shards, joins,
deferred noqa, cache writes, final sort. A file of a project carries what its
scan would find; what ty answers of it is fixed (that it is a function of the
file is `TyFallback!FiledIsExact`; that scanning is one of the project is
`ModuleIndex!JudgedAlike`: the three compose through these two facts), and a
file that leaves ty no calls has no reports of it (`weight = 0`).
Diagnostics are `(path, line, code)` in sequences, since their order is output.
`Only` keeps the elements of a sequence that are in a set, in their order, as
the filters of the code do; `Sorted` puts them together path by path and
line by line, which is what a stable sort by path and line gives.

Assumed: cached entries stem from a check of the same project and paths. Which
of several errors is reported is left open (as in the code: the first to
arrive). Panics and skip warnings are left out.

### DiagCache

The one manifest on disk, two checks that may run at once and the person who
edits. `Open` is fingerprinting and `DiagnosticCache::open`, `Validate` is
`validate_project`, `Scan` answers from the entries kept, scans the misses and
stores (`cached_or_pending`, `put_all_borrowed`), `Replace` is
`write_manifest_atomic`, `Abandon` a failed write or a killed process;
`Edit`, `Delete` and `ChangeOutside` are what happens between. An entry carries
as history what it was found from, which the properties compare with the disk.

Abstracted: a file is its tokens (or none, when it does not parse) and its
layout; hashes are injective; timestamps, which only make fingerprints differ more
often, are left out. Excluded: an edit between a check's fingerprints and the
end of its scan (`Quiet`), which the code cannot notice: the result would be
stored under the older fingerprint. In the listed run no file is indexed
first as the base module of another (`LoadedFirst = {}`).

### CallRewrite

One call, its callee and its text. `Judge` is `check_call` over the index with
`plan_builtin_fix_for_violation` and `call_fix_insertions`; `Resolve` the hover phase
of `resolve_pending_with_ty` with `record_ty_fix`; `ResolveAnswer` its answers with several
signatures, and its definition phase; `JudgeOverloaded` the overload
pass with `record_selected_overload_fix`; `Rewrite` is `apply_insertions` on the
tokens of the call; `Reread` visits the rewritten call again. Signatures
(`signature.rs`) are operators of this module. The reference is Python's binding
of arguments to parameters (`Accepts`, `Bound`, mapped as external).

What ty shows decides where the receiver is. A `hover` is a `def` (with the receiver only if
it is not bound, so a dunder's is never taken for one of the parameters:
`MethodShown`), a bound method of a class or of `Self@...`, the type of a callable, one with
several arms, or the place of a definition, whose signatures have their receivers.
There the fix is declined but for a `__call__` with one definition, which gets the
full signature and no explicit receiver.

A `boundary` is what may stand between the call and the definition found, a fact of the
program: an ignored name, an exclusion (singledispatch, `itemgetter`), a property, a special form
(`TypeVar`, `cast`: these four end the judgement early, `Unjudged`), an override, an inherited
constructor, a metaclass or `__new__` that competes, and so on. That such a fact holds is an
input: how the index knows of an override, which of two classes inherits from the other,
whether a local name is opaque, is not translated here. What is
translated is for which *forms of call* the code asks (`DispatchesToOverride`,
`OpaqueReceiver`, `InheritedConstructor`, `TyOverride`, ...: an attribute or a name, a dunder or
not, a class or an instance), and what the call reaches when it does not ask
(`Reached`), so a form that is forgotten shows as a binding lost.
`f(*xs)` and `f(**kw)` are among the calls, and the `__get__` of `cached_property`
is told apart from other descriptors.

Excluded, each as a named predicate: dunders called by name through a class or
an instance (`DunderByName`, kept out of scope by the code's own comment);
`RoomForReceiver`; functions whose first parameter is called `self` (`Unusual`),
an override no check looks for (`OverrideUnseen`) and the receiver of
`Class.__call__(receiver, ...)` known by its definition only (`ReceiverByDefinition`), three
disagreements shown below. Types are left out: a hover of a `type[...]` is
only used for calls without an explicit receiver.

### Definitions

One name and the body that binds it. The five actions of `Next` are the five
walkers (`index_stmt`, `index_stmt_fast`, `index_class_body`,
`index_class_body_fast` and what follows a class in its module); their disjuncts
are the statements, which change `Store` (`insert_definition`, `remove`,
`exclude`, frames) and the set of values the name may have. Suites of `if`,
`match`, loops, `with` and `try` open and close blocks. Abstracted: names other
than the one followed, expressions, and early exits from suites.

### Scopes

One bare name through a module. An action per binding form the visitor handles
(`VisitFunctionDef` to `VisitExecLiteral`), and per scope entered or left; each
changes the checker's scope (`Scope`) as its method does and Python's namespaces
as the language says. `Outcome` is the lookup of a callee
(`resolve_local_function_call`, the name arm of `resolve_callee`). Not modelled:
parameters of lambdas, the tracking of container items, when the body of a function
runs relative to later statements, `exec` in a function that does not bind the
name, exclusions of local functions by the index.

### Literals, Iterators

One container expression, written from the inside out: displays, then wrappers
(copies, slices, unions, `sorted`, `deque`, `ChainMap`, ...), then one operation
on it. `Literals` carries what the checker finds under every key beside the value
Python builds; `Iterators` has the operations (`GetItem`, `Pop`, `Heapq`,
`NextIter`, `NextItertools`, `GetAttr`, ...), each with what
`resolve_callee` answers and the set of results Python allows. Callables are
names with a shape (their signature without the names of its parameters).

### Hovers

One name through a module and the frames that group deferred calls:
`note_hover_binding`, `poison_*`, `hover_group_for_call` and
`take_pending_hover_groups`. `Bind`, `Narrow`, `Rebind`, `Declare`, `Mention`,
`Call`, `EnterScope`, `EnterBound`, `EnterMethod` and `Exit` are what a walk may meet.
The history records, for the reference, which scope binds the name by Python's
rules and where its value may have been narrowed. Not modelled: the part of
`take_pending_hover_groups` about balancing calls; calls in the defaults of a
`def` and in the arguments of a class, which the code never visits.

### DataModels

`IndexClass` is `synthesize_data_constructor` and the functional forms, over modules
of up to four classes with any bases among the earlier ones; `python` is what
`dataclasses` and `NamedTuple` generate, along the C3 order. Fields are plain, `ClassVar`,
`InitVar`, `init=False`, keyword-only, or the sentinel `_: KW_ONLY`.

### Selection

`AddEntry` builds a file system of files, directories, links (broken, looping,
out of the project); `RunCheck` asks for a path of it with any
`exclude`, `force_exclude` and source roots. Three walks are operators:
`CollectPythonFiles`, the same with an inventory, and `HashPyFiles`. A pattern
is a name, with or without a trailing slash. Not modelled: `site-packages` of
`python_env` as roots, several paths in one check, unreadable directories.

### MCAlgorithms

Four of these share no state with one another; this module explores them in
one run, a behaviour being that of one part while the others stay at their
start, so that their states add up and do not multiply.

## 3. What the runs check

| Run | Instance | Shows |
|---|---|---|
| `fix_serial` | 2 files in 2 directories, 3 runs, 2 texts and their fixed forms | `LatestSurvives`: the text last saved is in its file (or its fixed form is), or in a backup. `NoOrphanBackup`: a journal covers every backup. `SavedTextOnlyMovesAside`: a run takes a saved text away only by backing it up. `CommitIsAtomic`: refinement of `AtomicFix`. `TypeOK` |
| `fix_shared` | 3 files, 2 in one directory, 2 runs | `SharedIsRestored`: after recovery a path lacks its file only if it is the one Python file of its directory |
| `ty_check` | 1 file of 1-2 calls of 6 kinds, 3 attempts | `FiledIsExact`: exactly the diagnostics the answers amount to, none twice. `ShardEnds` |
| `ty_fix` | 2 files, 2 requests in flight, 3 attempts, overloads | `FixesAddUp`: rewritten + declined = reported. `FatalNeedsTwoBadRequests` |
| `index` | 7 modules (missing, unparsable, mutually deriving, inherited), 2 workers, 54 programs, run budget 3, query budget 1 | `ParsedOnce`, `AnswersAreComplete`, `DecidedIsFinal`, `JudgedAlike`, `EveryFileJudged`, `TypeOK` |
| `pipeline` | 51 projects of 3-4 files, 2 shards, 3 lines, every subset cached | `ResultIsSerial`, `ErrorsAreNeverSwallowed`, `CacheHoldsSerial`, `ShardStreamsAreReproducible`, `PipelineEnds` |
| `diag_cache` | 2 files, 2 concurrent checks, 3 checks and 3 edits in all, 2 token streams and 2 layouts, the project or one file selected | `HitsAreCurrent`: an answer from the cache was found from what every file and the environment say now. `PositionsAreCurrent`: and at the positions of now, while all files parse. `SkippedIsNeverServed`. `ManifestIsOneSnapshot`: whoever wrote last, the entries belong to the fingerprint beside them |
| `call_rewrite` | every signature of up to 3 parameters, every way to name the callee, up to 3 arguments of 7 shapes or `**kw`, 14 boundaries, the index and 6 kinds of answers of ty | `FixKeepsBinding`, `FixIsFinal` (a second fix has nothing to do), `ReportIsActionable`, `CleanIsStrict`, `TextIsRewritten` |
| `definitions` | bodies of up to 4 statements, suites 2 deep, 2 clauses, Python 3.12 | `LiveDefinitionsKept`: a name that is judged keeps every definition a call may run. `CandidateIsLive`: and never only dead ones |
| `literals` | displays of 2, up to 3 forms around them, then any operation | `ResolvedIsEvaluated`: a callable resolved is the one evaluated. `PlainItemsResolve`: plain items are not missed |
| `algorithms` | Scopes: 5 statements, 4 scopes deep. Hovers: 5 events, 3 scopes deep. DataModels: 4 classes, 2 fields, 1 peculiarity. Selection: 3 entries, paths of 2 names | `NoFalseResolution`, `FreshBindingResolves`; `GroupsHoverAlike`; `ConstructorsAreGenerated`; `WalksAgree`, `SourcesAreFingerprinted` |
| `index_cycle` | 2 workers, two modules that derive from each other | *violated:* `EveryFileJudged`. Two workers that reach the modules from either side wait for each other's claim for ever, although `index.rs:752` calls the wait short |

Every property has a mutant in `PROJECT.json`: a plausible bug in one of the
mapped definitions under which its run finds it violated.

`AlgorithmsLarge.cfg` is a larger instance of `algorithms`, to be run by hand
(`tlc -config AlgorithmsLarge.cfg MCAlgorithms`, 4 minutes, 3.4 million states): 6
statements, 6 events and 2 peculiarities. It passes. Five events are too few for a
narrowing in one method and a call in another, six are not.

**Known disagreements.** Besides `index_cycle`, these cfgs each show the code
disagree with what the repository says of it; `PROJECT.json`, `findings`, quotes
the lines. They are run by hand.

| cfg (module) | Property violated | In short |
|---|---|---|
| `FixJournalSoleFile` (MCFixJournal) | `MissingIsRestored` | a crash between the two renames of the only Python file of a directory: recovery never looks there, the file stays missing |
| `FixJournalSelections` (MCFixJournal) | `LatestSurvives` | two crashed runs over different selections leave two backups of one file; the older wins, the newer text is dropped |
| `TyFallbackGroupDef` (MCTyFallback) | `LiveMembersJudged` | a null definition is cached for the hover group and silences its live members |
| `TyFallbackCountedTwice` (MCTyFallback) | `FixesAddUp` | an `instance.__class__` call that ty reports is declined twice, against the assertion of `fix_runner.rs:127` |
| `TyFallbackStartFailure` (MCTyFallback) | `FiledIsExact` | a server that does not start for an overload is not missed by the deferred calls of later files, although a failing start is called fatal (`check.rs:14616`) |
| `ModuleIndexLazy` (MCModuleIndex) | `JudgedAlikeEverywhere` | loading a module forgets the exclusions recorded for it, so a verdict depends on scheduling |
| `CheckPipelineWarm` (MCCheckPipeline) | `WarmIsCold` | a check answered from the cache alone lists `KW002` after the other diagnostics of its file, not by line |
| `DiagCacheBase` (MCDiagCache) | `HitsAreCurrent` | a file first loaded as the base module of another has no semantic fingerprint, and two missing ones count as equal (`cache.rs:678`) |
| `DiagCacheLayout` (MCDiagCache) | `PositionsAreAlwaysCurrent` | while another file does not parse, a file that was only laid out anew keeps its old positions (`cache.rs:713`) |
| `CallRewriteUnusual` (MCCallRewrite) | `FixKeepsBinding` | the fixer takes the first parameter of a module's function for a receiver if it is called `self` (`check.rs:13424`) |
| `CallRewriteOverride` (MCCallRewrite) | `FixSeesOverrides` | an instance called by a name, or a call's result called, is rewritten although a subclass overrides `__call__` (`check.rs:3514`) |
| `CallRewriteReceiver` (MCCallRewrite) | `FixLeavesReceiver` | `C.__call__(c, 1)` of which ty gives the place of the definition: the receiver gets the first parameter's name (`check.rs:15380`) |
| `DataModelsKeywordOnly` (DataModels) | `ConstructorsAreGenerated` | the sentinel `_: KW_ONLY` and what follows it are parameters by position of the constructor made up (`data_model.rs:265`) |
| `DefinitionsOverload` (MCDefinitions) | `LiveDefinitionsKept` | an overload under a condition removes the definitions before the branch (`index.rs:181`) |

The passing runs are the other half of these: `fix_serial` gives every run the
same selection, `index` resolves `q` through `p` so that workers enter the
cycle from one side, `JudgedAlike` speaks of the methods of checked files, and
`ResultIsSerial` asks for the order only of a run that scanned something.

The approximations, by module (a program that uses one may be judged against
another definition than Python's, or not alike twice):

* `Scopes`: plain assignments; names not seen yet; statements of functions and
  classes; class namespaces; nonlocal definitions; global declarations; a walrus
  in a comprehension; names deleted outside.
* `Definitions`: overloads, dispatch and decorators in branches; loops that do
  not run; definitions in handlers; suites that raise; unreachable suites;
  undecided patterns; exact versions (a comparison with the target's own, but `<` and
  `>=`, or with a release of it); exclusions undone in branches. The
  `else` suites of loops are never indexed.
* `Literals`: keys that are not literals; `popitem` of repeated keys; default
  factories behind wrappers; lists of mappings; starred arguments of records
  (shows with records of three fields).
  `Iterators`: defaults of `next`; starred arguments of iterators; bounded
  deques; predecessors of sorter graphs; elements after a star.
* `Hovers`: comprehensions and defaults of lambdas; annotated names; bindings of
  declared names; bindings without a frame; classes of one name (the third and
  fifth show at 6 events).
* `DataModels`: constructors of classes with keyword-only fields (their fields are
  checked); redefined fields; constructors an
  undecorated subclass inherits; class variables elsewhere than in a dataclass;
  `make_dataclass` without init, or with bases; bases in common.
* `Selection`: explicitly named files of pruned directories and paths outside
  the project are never fingerprinted; links left out of the inventory but
  imported; broken links in excluded directories fail one of the walks, links
  that loop there the other.
* `CallRewrite`: receivers of dunders called by name are left in or taken out
  twice (`c.__call__(1)`, `mod.C.__init__(c, 1)`).

**Bounds.** Two runs are needed for a recovery to meet what a crash left, three
for a recovery that crashed itself. Two files give a half-committed plan, three
a directory shared with one that is not. Two texts tell an edit from what was
there. `Runs` are symmetric (they are only ever compared for equality; the order
of journals comes from their entries); `LiveState` drops what a run that is over
kept in memory. Two requests in flight give every reordering of an answer
against the awaited one: `collect_until` and `absorb` are written for windows of
any width and their buffer is only read in windows wider than one, while
`TY_MAX_IN_FLIGHT` is 1 in the build, the width of `ty_check`. Three attempts are
the code's own number. Two workers
suffice for a race for a claim and a cycle of waits; the budgets are small enough
to run out and large enough not to always. Two shards instead of eight still
give the assigner a choice and one shard that fails beside one that does not.
Two checks suffice for a lost update of the manifest, the third reads what they
left; three edits change tokens, layout and parsing one after another. Three
parameters are a receiver, one that is passed by position and one that is not,
or one on either side of `*args`. Four statements are a definition, a branch, a
second definition in it and what follows; five in `Scopes` are a binding, a
scope, a declaration, a rebinding in it and what is called after. Two items of a
display tell first from last. Four classes are the least that make a diamond.
Three entries are a directory, a file and a link between them.

**Fairness.** `TyFallback!FairSpec`: weak fairness of the client's own steps, its
deadlines among them; the server owes nothing. `ModuleIndex!FairSpec`: each
worker is a thread the system runs, and so is the one that waits at the barrier;
spinning in `claim_module` is a stuttering step, so that it is no progress.
`CheckPipeline!FairSpec`: workers, coordinator and each shard are threads; no
strong fairness anywhere. The other modules have none: they make no liveness
claim (the cache has no loop that waits, and an algorithm ends with its input).

**Deadlock** checking is off where the system stops on purpose: in `FixJournal`
when every run is over, in `TyFallback` and `CheckPipeline` at their end, whose
being reached is itself checked (`ShardEnds`, `PipelineEnds`); in `DiagCache`
when edits and checks are used up; in the algorithms when the program is
written. It is on in `index` and `index_cycle`.

## 4. What is proved

Theorems hold for every value of the constants that the `ASSUME`s of the module
allow: any files, directories, runs, texts, modules, hierarchies, workers,
budgets, checks, edits, projects, shards, answers of ty, signatures, calls and bodies.
Eight modules hold them. Where a theorem needs more, that is an assumption of the theorem, named
below, and a cfg of section 3, or a mutant, shows that without it the theorem is false.

| Module | Theorem | Property | Assumes besides |
|---|---|---|---|
| `FixJournalProofs` | `TypeCorrect` | `TypeOK` | |
| | `OriginalsStayCovered` | `NoOrphanBackup` | |
| | `FixIsAtomic` | `CommitIsAtomic` (refinement) | `OneSelection` |
| | `SavedTextIsMovedAside` | `SavedTextOnlyMovesAside` (action property) | `OneSelection` |
| | `SharedFilesAreRestored` | `SharedIsRestored` | `OneSelection` |
| | `SavedTextSurvives` | `LatestSurvives` | `OneSelection`, `FixesOnce` |
| `ModuleIndexProofs` | `TypeCorrect` | `TypeOK` | |
| | `EachParsedOnce` | `ParsedOnce` | |
| | `NoneGivenUp` | `DecidedIsFinal` | |
| | `QueriesWait` | `AnswersAreComplete` | |
| | `OrderDoesNotMatter` | `JudgedAlike` | |
| `TyFallbackProofs` | `AnswersAreOwn` | `AnswersAreTrue` (part of `IInv`) | |
| | `OneBadRequestIsSurvived` | `FatalNeedsTwoBadRequests` | `Attempts >= 3` |
| | `RewritesAddUp` | `FixesAddUp` | `Unindexed` works |
| | `FilesAreExact` | `FiledIsExact` | `FixMode => ~StartFailures` |
| `DiagCacheProofs` | `CurrentHits` | `HitsAreCurrent` | `LoadedFirst = {}` |
| | `CurrentPositions` | `PositionsAreCurrent` | `LoadedFirst = {}` |
| | `SkippedAreNotServed` | `SkippedIsNeverServed` | `LoadedFirst = {}` |
| | `ManifestsAreSnapshots` | `ManifestIsOneSnapshot` | `LoadedFirst = {}` |
| `CheckPipelineProofs` | `TypeCorrect` | `TypeOK` | |
| | `PipelineIsSerial` | `ResultIsSerial` | |
| | `StoredIsSerial` | `CacheHoldsSerial` | |
| | `ErrorsNeverSwallowed` | `ErrorsAreNeverSwallowed` | |
| | `StreamsAreReproducible` | `ShardStreamsAreReproducible` | |
| `CallRewriteProofs` | `FixKeepsWhatIsBound` | `FixKeepsBinding` | `Customary` |
| | `FixedIsClean` | `FixIsFinal` | `Customary` |
| | `ReportsCanBeFollowed` | `ReportIsActionable` | `Customary`, `PrivateComeFirst` |
| | `CleanCallsAreStrict` | `CleanIsStrict` | `Customary`, `PrivateComeFirst` |
| `DefinitionsProofs` | `TypeCorrect` | `TypeOK` | `Approximations = {}` |
| | `DefinitionsKept` | `LiveDefinitionsKept` | `Approximations = {}` |
| | `CandidatesAreLive` | `CandidateIsLive` | `Approximations = {}` |

* `FixKeepsBinding` leaves out `OverrideUnseen` and `ReceiverByDefinition`,
  `ReportIsActionable` `ReceiverByDefinition` and `DunderByName` (see CallRewrite
  above): the theorems say nothing of these calls.
* `OneSelection`: every run is given the same files. With different ones a
  recovery may not see an older journal, and a saved text is lost
  (`FixJournalSelections`).
* `FixesOnce`: a fixed text has nothing left to fix, which is
  `CallRewrite!FixIsFinal`, proved there (`FixedIsClean`) for a call.
* `Attempts >= 3`: `TY_FILE_ATTEMPTS` is 3. With 2 one request ends the run: its
  deadline spoils the first attempt, its error, arriving late, the second (the
  mutant `LastAttemptEarly`).
* `Unindexed` works: in a run that plans rewrites no deferred call is one of an
  `instance.__class__` (`TyFallbackCountedTwice`).
* `FixMode => ~StartFailures`: where rewrites are planned the server starts
  (`TyFallbackStartFailure`). Without rewrites it may fail to.
* `LoadedFirst = {}`: no checked file is first loaded as the module of another's
  base. Otherwise a stale entry is served (`DiagCacheBase`).
* `Customary`: methods and class methods declare a receiver by position, called
  `self` and `cls`, and no function or static method has a first parameter, nor any
  callable a later one, of these names. The code tells receivers by their names (`check.rs:13424`); with a
  function whose first parameter is called `self` a fix changes a binding
  (`CallRewriteUnusual`). The callees of `call_rewrite` are customary, which
  `CustomaryAssumption` of `MCCallRewrite` checks.
* `PrivateComeFirst`: a parameter called `__x` follows no other that can be given by
  name, as the typing rules have it (checked by the same assumption). In
  `def f(a, __b)` the code counts one parameter by position only; `f(1)` is let pass
  although `a` could be named. A `__new__` that takes one argument beside
  `__init__(self, a, __b)` gives a report of the maximum 1, when two must stay.
* `Approximations = {}`: bodies use none of the constructs section 3 lists for
  `Definitions`. Each of them makes one of the two properties false by itself
  (`DefinitionsOverload` is one).

**The fix journal.** Assumptions are those `FixJournal` declares: files and
directories are numbered by their sort order, `DirOf` and `Fixed` are functions,
`Missing` is no text, and nobody types byte for byte what the fixer would write
(`UserTextAssumption`).

`NoOrphanBackup` is not inductive. A journal is removed when its loop has no
entries left, so the loop must have left no backup behind it (`ResolvedBehind`);
a rename aside makes a backup, so the journal must be there (`MovesAreJournaled`)
and the file in the plan (`PlannedTodo`); a journal must not disappear while
its own run moves files, which needs that only one run is at work (`OneLive`);
and planning replaces a run's entries, which must not be those of a journal on
disk (`JournalAfterPlan`). `IInv` is the conjunction. The module has one lemma
per conjunct, each split by action, and lemmas on `IsFirst`, `IsLast` and the
loops they share.

The refinement needs to know *which* texts are where. `AInv` adds to `IInv` that
what a run staged and moved aside is what it planned (`PlannedFixes`), that moves
and resolutions go through the entries in order (`MovesInOrder`,
`ResolvesAsRead`), and, the heart of it, why two recoveries suffice: a file is
missing only at the last entry a journal has moved (`LastIsMissing`), so a journal
that a recovery does not find (it looks only in directories that still have a
Python file) has one backup at most, of its first entry; no two journals have
backups in one directory (`Separate`), and the second recovery, in the
directories of the files about to be written, meets whatever the first one
went past there (`RecoveryIsEnough`). Then `view`, what each file holds once
recovery has run, is well defined, and equal to what was saved last unless it is
a fixed text (`ViewIsLatest`); for `LatestSurvives` also that a text is fixed
once (`ViewIsFixedAtMost`). `FixIsAtomic` shows `Init` to be
`Atomic!Init` and every step to be a step of `AtomicFix` or to leave `view` and
`plan` alone: the only one that changes several files is the rename that commits the
journal.

**The index.** `IInv` says of each worker's stack that it is a query followed by a
chain of claims, each the first thing the frame below asks for
(`StackInOrder`); that a claimed module is on one stack, once (`ClaimsAreExclusive`:
without it two workers could parse it); that a module not yet claimed, or claimed
only, was not parsed (`ParsedWhenClaimed`); that what is released is in the store
(`ReleasedIsKnown`); and that a query has dealt with what is behind it
(`RouteIsWalked`). `JInv` adds the two passes. The exclusions of checked files'
methods are at any time those of the rebindings done, no more and no less
(`ExclusionsAreDone`), although modules are loaded meanwhile and change the
hierarchy that rebindings read: the lemma `EagerHeirs` shows that which checked
classes derive from a class does not depend on what else is known, because what they
derive from is itself indexed from the start (`EagerAssumption`). So a rebinding that read the
hierarchy under one lock and excludes under another has not missed one
(`RebindingHasRead`); a query's stale answer is only ever stale for an excluded
name (`FoundUnlessExcluded`); and once the pass ends exclusions are those of the
programs, by which all calls are judged (`JudgedByExclusion`).

**The ty fallback.** `IInv` says that a phase asks and judges its calls in order, so
that at any time the calls judged are the first `Done` of those `Asked`
(`AsksInOrder`); that the server is there when it is asked (`AsksServer`); that ids
are fresh, no two responses under way have one, and a client that is on has nothing
to collect that has gone wrong (`IdsAreFresh`); and that what arrives under the id of
a call is the answer to it, or a null of a client that is off (`AnswersAreTrue`). It
holds under every order of answers, since the first thing an attempt does is to
ask under ids that no late answer has. Three invariants stand on it.
`BadRequestsSpoil` counts the attempts that are gone: none without a bad request,
two at most with one, and with two no response to it can still arrive. `Booked` is
`FixesAddUp` in the middle of a file, with the overloads decided so far.
`AllJudged` says, for a client that is on, what it has recorded: after `Done` hovers a
group has the first signature among its members (`HoversJudged`), the calls without
one are listed, and of those the definitions judge `Done`
(`DefinitionsJudged`); a client that is off may have recorded anything, which
`Judge` undoes. The reference of `FiledIsExact` names the first signature of a group by
CHOOSE over the calls before: the lemmas `HoverIsKept` and `DefIsKept` say that the
caches hold it. The many steps that use an answer are one step, `Takes`, in all three.

**The cache.** `IInv` says that a manifest, on disk or about to be written, is
`Sound` for the project it describes, and that a check's entries are sound for
the project as it is, or, until they are validated, for the one before. That
validation keeps a sound set sound is the lemma `RetainedEntries`; that an edit may
come between two checks, and a manifest be written late, changes nothing, since
soundness is relative to the fingerprints written beside the entries.

**The pipeline.** None of the four properties is inductive: three speak of the end,
and the streams of a shard follow from what the coordinator has released. `IInv` follows a
file through the threads. Once the discovery pass is over the index has recorded every
rebinding (`RebindingsKnown`), so what a scan finds depends on the file alone, wherever
it is on its way (`ScansAreComplete`). A file not yet released is to be scanned, in the
channel or held back, in one of these only, unless an error has made the coordinator
drop some (`EachInOnePlace`); hence a released file is the next in order, and what the
coordinator has gathered is a function of how far it is (`ReleasedInOrder`), as is
what each shard was sent (`DealtGreedily`). A file sent to a shard is in its queue
or answered, once (`AnsweredOnce`), and missing only where an error is remembered
(`NoneIsLost`); a shard ends only when the channels are closed. So when all threads are
joined either some error is known, and it is one a file has caused, or the
diagnostics are those of the cache, of all scans and of all answers, in some
order.

That this order does not matter is the other half. `Sorted` and `Entry` see of a list
only what it has of each file (`SameUpTo`), and `ApplyNoqa` over the files scanned gives
of each file what it gives of that file alone (`NoqaOfOwn`), of a file that was
answered from the cache what was there (`NoqaOfOthers`): a directive is judged by every
diagnostic of its file and by none of another. These lemmas, and those
on `Only` and `FlattenSeq` below them, are inductions over sequences. The library's
induction theorems take an operator and cannot be instantiated; here induction is over
*sets*: a set of naturals that has 0 and is closed under successor is `Nat` (`NatInd`,
from the well-foundedness of `<`), a set of sequences that has the empty one and is closed
under `Append` is `Seq(T)` (`SeqInd`). `RecursionTo` gives in the same way what a
recursive function like `Weight` satisfies.

**The call rewriter.** Neither property is inductive: `FixKeepsBinding` is about a call
that was read again and `FixIsFinal` about the report of the visit after that. `IInv`
says of the call that names were only added to its last arguments (`NamesComeLast`), of
a plan that it names all arguments by position after some n, or none, each with the name
of the parameter it is for, and that a visit of the call with n arguments by position
reports nothing (`PlanIsSound`), and of a call with names that its visit is
such a visit (`NamedIsClean`). Each way of resolving a call has to produce such a plan, and
this is where its arithmetic matters: the maximum reported counts the
receiver or not as the definition is bound, the arms of an overload each have
their own, and ty shows the signature with it or without (`RequirementIs`, `ShownArm`, `MethodIs`). `PositionsComeFirst` and `CountIs` say
which arguments `PositionalCount` counts, `SkipIs` and `ExplicitIs` that the
receiver the fix skips is the one Python supplies, `CleanAtMost`
that a call cut down to the maximum is clean, `CompetingTakesNone` that behind a competing
constructor only keyword-only parameters are named. That naming the last arguments
so keeps what all of them are bound to is `NamingKeeps`, where `Accepts` needs the names to be
fresh and the parameters nameable; and that Python reads the names planned, in
front of the arguments planned, in the spliced text is `NamesAreRead`: the token
sequence of an argument never ends where that of its neighbour starts to be named
(`BeforeNext`, `BeforeGrows`). The other two properties are about the numbers alone:
the report planned upon is that of the call as it stands (`ReportIsVisited`), and the
maximum is the number of parameters without a name to give, the receiver aside
(`IndexedRoom`, `ShownRoom`), which come first (`OnlyComeFirst`). Without `Reread` in the model, the names of a plan would
be those of the call by construction.

**The definitions.** What the index promises it promises of the end of a body, where no
suite is open; `IInv` has to say what becomes of a value on the way there. The values
that may still be live are those live now and the `Flow` of every open statement: of the
paths that take none of its suites yet (`Untaken`), those that have left one
(`LeftBy`) and those that a handler may start with (`Caught`). `KeptOK` and
`GoodOK` say of all of them what the two properties say of `live`. A definition in a branch
is inserted in front of, after or in place of others according to the innermost frame, so the proof
has to know what a frame stands for: the frames are those of the statements walked with one,
in order (`FramesOK` with `Owns`), and one that has a definition is `Guarded`: its
last signature, the one the next definition in that suite replaces, belongs to no value
that comes from another suite. Where there is no frame there must be nothing to lose:
a suite walked without a frame is the one taken (`SuitesOK`) and one not walked is
one nothing gets to (`DeadSuites`), which is where tests and patterns read by the index
(`VersionsDecided`, `PatternsDecided`) have to agree with Python. `WaitingOK` says that overloads
without their implementation are in one place at a time and where the index has them pending. The
steps are of three kinds, each with one proof: a statement that binds the name
(`Written`: it gives the name up, is alone, or is inserted), a statement that opens a suite
(`Opened`), and the innermost statement going on or ending (`Shifts`: no value is made or lost).

TLC checked each of these invariants, `IInv`, `AInv`, `JInv`, `BadRequestsSpoil`,
`Booked` and `AllJudged`, on the instances of the runs before it was proved, and still
can: name it as an `INVARIANT` in the cfg.

**Only model-checked**, and why:

* liveness (`ShardEnds`, `EveryFileJudged`, `PipelineEnds`): fairness and ENABLED are
  beyond the prover;
* of `CallRewrite`, that the spliced text is that of the call (`TextIsRewritten`): a fold
  over insertions sorted by their place;
* `Literals`, `Iterators`, `DataModels` and `Selection`: what they compute is recursive over
  expressions, class orders or paths;
* `Scopes` and `Hovers`: state machines without recursion, within the prover's reach, but
  not proved.

## 5. Not modelled

* *Source decoding* (`source.rs`), *nesting limits* (`limits.rs`), the *scanner
  of noqa comments* (`noqa.rs`): functions of bytes and tokens without state;
  what they yield is data of `DiagCache` (a file parses or not) and
  `CheckPipeline` (lines a directive covers).
* *Configuration* (`config.rs`): parsed and validated once before anything runs.
  What it decides is input to `Selection` and `CallRewrite`.
* *Module resolver* (`resolve.rs`): search paths and stub precedence, lookups
  without state; `ModuleIndex` has their result (`Kind`).
* *Command line*: options, exit codes and formats of output.
* Of the *call checker*: instances and attributes of tracked objects, generic
  aliases, the order in which one expression falls through the resolvers.
* Of the *index*: re-export edges and import aliases (data of `ModuleIndex`).
* Vendored stubs, scripts, benches, fuzz entry points, the library surface.
* Within the modelled parts: what each section above excludes.

## 6. Plan

1. *Done:* the fix writer with its refinement and the proofs of section 4; the
   ty fallback, module index, pipeline and diagnostic cache, with theirs; the judgement
   and rewriting of calls; the walkers of definitions; scopes, hover groups,
   literal containers and iterators, data models, file selection.
2. Proofs, next: `TextIsRewritten` of `CallRewrite`.
3. Confinement of a fix to the trees it was given; re-exports and import aliases of
   the index; attributes of tracked instances.
4. Resolver precedence, the noqa scanner, nesting limits and configuration
   defaults as operators beside reference definitions.
