--------------------------- MODULE CheckPipeline ----------------------------
(***************************************************************************)
(* One check of a project (src/src/check.rs check_paths_impl,              *)
(* pipeline_phases), from the cached results of an earlier check to the    *)
(* diagnostics it returns.                                                 *)
(*                                                                         *)
(* Files that miss the cache go through threads joined by channels: scan   *)
(* workers send what they found in any order, the coordinator releases it  *)
(* in the order of the sorted file list and hands the calls left to ty to  *)
(* the least loaded of several shards, and the shards answer in their own  *)
(* time.  What ty answers for one file is the subject of TyFallback, how   *)
(* definitions are loaded that of ModuleIndex: here a file has the         *)
(* diagnostics a serial check of it would give.                            *)
(***************************************************************************)
EXTENDS Naturals, Sequences, FiniteSets, SequencesExt

CONSTANTS
    Inputs,     \* the projects: sequences of files in the sorted order of paths
    ShardCount, \* TY_SHARD_COUNT
    Lines       \* 1 .. Lines are the lines of a file

\* What a scan makes of a file ("skipped": it cannot be decoded or, found in a
\* directory, not parsed; "failing": it ends the check), the names it rebinds,
\* its calls with too many positional arguments, the request weight of the
\* calls it leaves to ty and the lines ty reports (or whether ty fails on it),
\* the lines a noqa covers, those of them a `# noqa: KW001` names;
\* of a file that leaves ty no calls ty reports nothing.
File == {f \in [kind : {"good", "skipped", "failing"}, rebinds : SUBSET STRING,
                calls : Seq([line : 1 .. Lines, name : STRING]), weight : Nat,
                reports : Seq(1 .. Lines), tyFails : BOOLEAN,
                covered : SUBSET (1 .. Lines), named : SUBSET (1 .. Lines)] :
            f.weight = 0 => f.reports = <<>>}

ASSUME InputsAssumption == Inputs \subseteq Seq(File)
ASSUME ShardAssumption == ShardCount \in Nat \ {0} /\ Lines \in Nat

VARIABLES
    input,     \* the project
    cache,     \* DiagnosticCache.entries: what is stored for some of the files
    phase,     \* "open", "discover", "scan", "collect", "done" or "error"
    todo,      \* the files the running pass has not scanned yet
    excluded,  \* the names whose rebinding the index has recorded
    channel,   \* the outcomes on their way to the coordinator
    buffered,  \* InOrderReleaser.buffered
    next,      \* InOrderReleaser.next, in the list of files to scan
    loads,     \* TyShardAssigner.loads
    sent,      \* history: the files sent to each shard
    queue,     \* the files a shard has not answered
    shard,     \* "running", "failed" or "ended"
    slots,     \* the files with calls for ty, in the order of their release
    answers,   \* what the shards reported for a file
    senders,   \* whether the coordinator still holds the shards' channels
    failed,    \* consumer_err
    diagnostics,
    result     \* the diagnostics returned

vars == <<input, cache, phase, todo, excluded, channel, buffered, next, loads,
          sent, queue, shard, slots, answers, senders, failed, diagnostics, result>>

Shards == 1 .. ShardCount
Paths == DOMAIN input
Good(f) == input[f].kind = "good"
Diagnostic == [path : Paths, line : 1 .. Lines, code : {"KW001", "KW002"}]

\* The elements of a sequence that are in a set, in their order.
Only(s, S) == FlattenSeq([i \in DOMAIN s |-> IF s[i] \in S THEN <<s[i]>> ELSE <<>>])

\* The diagnostics of a file at some lines with some codes.
Of(f, lines, codes) == [path : {f}, line : lines, code : codes]

(***************************************************************************)
(* A file on its own                                                       *)
(***************************************************************************)
\* Diagnostics of a file at some lines.
Found(f, lines) == [i \in DOMAIN lines |-> [path |-> f, line |-> lines[i], code |-> "KW001"]]

\* The built-in pass reports the calls of methods not rebound.
Scan(f, rebound) ==
    LET calls == Only(input[f].calls, [line : 1 .. Lines, name : STRING \ rebound])
    IN Found(f, [i \in DOMAIN calls |-> calls[i].line])

\* resolve_file_with_ty
Resolved(f) == Found(f, input[f].reports)

\* By path and line, and stable, as par_sort_by is.
Sorted(ds) ==
    FlattenSeq([f \in Paths |->
        FlattenSeq([l \in 1 .. Lines |-> Only(ds, Of(f, {l}, {"KW001", "KW002"}))])])

\* Mutant of UnusedNoqa: a line is used by a diagnostic of any file.
UnusedNoqaAnywhere(ds, f) ==
    {l \in input[f].named : \A i \in DOMAIN ds : ds[i].line # l}

\* The directives of a file that suppressed nothing.
UnusedNoqa(ds, f) ==
    {l \in input[f].named : \A i \in DOMAIN ds : ~(ds[i].path = f /\ ds[i].line = l)}

\* apply_unused_noqa over the files scanned, in the order of their release.
ApplyNoqa(ds, files) ==
    Only(ds, {d \in Diagnostic :
                 d.path \in ToSet(files) => d.line \notin input[d.path].covered})
    \o FlattenSeq([i \in DOMAIN files |->
           LET unused == Only([l \in 1 .. Lines |-> l], UnusedNoqa(ds, files[i]))
           IN [j \in DOMAIN unused |->
                  [path |-> files[i], line |-> unused[j], code |-> "KW002"]]])

\* A cache entry: KW001 diagnostics, sorted when the manifest is read, and
\* then KW002 ones.
Entry(ds, f) ==
    Sorted(Only(ds, Of(f, 1 .. Lines, {"KW001"}))) \o Only(ds, Of(f, 1 .. Lines, {"KW002"}))

(***************************************************************************)
(* What a check ought to find: every file scanned after all rebindings are *)
(* known, one after another.                                               *)
(***************************************************************************)
AllRebound == UNION {input[f].rebinds : f \in {g \in Paths : Good(g)}}
Serial(f) ==
    IF Good(f) THEN ApplyNoqa(Scan(f, AllRebound) \o Resolved(f), <<f>>) ELSE <<>>
SerialResult == Sorted(FlattenSeq([f \in Paths |-> Serial(f)]))

(***************************************************************************)
(* Opening the check                                                       *)
(***************************************************************************)
\* An earlier check of the same project stored some files' results.
Init ==
    /\ input \in Inputs
    /\ \E hits \in SUBSET {f \in Paths : Good(f) /\ ~input[f].tyFails} :
           cache = [f \in hits |-> Entry(Serial(f), f)]
    /\ phase = "open" /\ todo = {} /\ excluded = {}
    /\ channel = <<>> /\ buffered = {} /\ next = 1
    /\ loads = [s \in Shards |-> 0] /\ sent = [s \in Shards |-> <<>>]
    /\ queue = [s \in Shards |-> <<>>] /\ shard = [s \in Shards |-> "running"]
    /\ slots = <<>> /\ answers = <<>> /\ senders = TRUE
    /\ failed = FALSE /\ diagnostics = <<>> /\ result = <<>>

\* files_to_scan, in order.
Misses == Only([f \in Paths |-> f], Paths \ DOMAIN cache)
Cached == FlattenSeq([f \in Paths |-> IF f \in DOMAIN cache THEN cache[f] ELSE <<>>])

\* skipped_cache_miss_warnings reads the misses of a partial cache in order, as
\* far as the first one the scan would not skip.
Preflight ==
    LET stops == {i \in DOMAIN Misses : input[Misses[i]].kind # "skipped"}
    IN IF Misses = <<>> THEN "cached"
       ELSE IF Len(Misses) = Len(input) THEN "scan"
       ELSE IF stops = {} THEN "cached"
       ELSE IF \E i \in stops : Good(Misses[i]) /\ \A j \in stops : i <= j THEN "scan"
       ELSE "error"

channels == <<channel, buffered, next, loads, sent, queue, shard, slots, answers, senders>>

\* Mutant of Discoverable: only the files of this run take part in phase 0.
DiscoverableMisses == ToSet(Misses)

\* all_project_files
Discoverable == Paths

\* The cached diagnostics are returned as they are, or the pipeline starts.
Open ==
    /\ phase = "open"
    /\ \/ /\ Preflight = "cached" /\ result' = Cached
          /\ phase' = "done"
          /\ UNCHANGED <<todo, diagnostics>>
       \/ /\ Preflight = "error"
          /\ phase' = "error"
          /\ UNCHANGED <<todo, diagnostics, result>>
       \/ /\ Preflight = "scan"
          /\ phase' = "discover" /\ todo' = Discoverable /\ diagnostics' = Cached
          /\ UNCHANGED result
    /\ UNCHANGED <<input, cache, excluded, channels, failed>>

(***************************************************************************)
(* The scan workers                                                        *)
(***************************************************************************)
Rebind(f) == excluded' = excluded \cup (IF Good(f) THEN input[f].rebinds ELSE {})

\* discover_rebinding_exclusions: a failure is left to the scan proper.
Discover(f) ==
    /\ phase = "discover" /\ f \in todo
    /\ Rebind(f)
    /\ todo' = todo \ {f}
    /\ UNCHANGED <<input, cache, phase, channels, failed, diagnostics, result>>

\* Mutant of Discovered: the scan does not wait for phase 0.
DiscoveredAnyway == TRUE

Discovered == todo = {}

BeginScan ==
    /\ phase = "discover" /\ Discovered
    /\ phase' = "scan" /\ todo' = ToSet(Misses)
    /\ UNCHANGED <<input, cache, excluded, channels, failed, diagnostics, result>>

\* A worker scans a file and sends what it found, whoever still listens.
ScanFile(f) ==
    /\ phase = "scan" /\ f \in todo
    /\ channel' = Append(channel, [path |-> f, found |-> Scan(f, excluded)])
    /\ Rebind(f)
    /\ todo' = todo \ {f}
    /\ UNCHANGED <<input, cache, phase, buffered, next, loads, sent, queue, shard,
                   slots, answers, senders, failed, diagnostics, result>>

(***************************************************************************)
(* The coordinator                                                         *)
(***************************************************************************)
\* Mutant of Ready: files are released as they arrive.
ReadyOnArrival(item) == TRUE

\* The earliest file not released yet.
Ready(item) == item.path = Misses[next]

Releasable == {item \in buffered : Ready(item)}

\* An error closes the shards' channels, and later outcomes are only drained.
Receive ==
    /\ phase = "scan" /\ channel # <<>> /\ Releasable = {}
    /\ channel' = Tail(channel)
    /\ \/ failed /\ UNCHANGED <<buffered, senders, failed>>
       \/ /\ ~failed /\ input[Head(channel).path].kind = "failing"
          /\ failed' = TRUE /\ senders' = FALSE
          /\ UNCHANGED buffered
       \/ /\ ~failed /\ input[Head(channel).path].kind # "failing"
          /\ buffered' = buffered \cup {Head(channel)}
          /\ UNCHANGED <<senders, failed>>
    /\ UNCHANGED <<input, cache, phase, todo, excluded, next, loads, sent, queue,
                   shard, slots, answers, diagnostics, result>>

\* TyShardAssigner::assign
Lightest ==
    CHOOSE s \in Shards : \A t \in Shards :
        loads[s] < loads[t] \/ (loads[s] = loads[t] /\ s <= t)

\* Hand a file to the least loaded shard; a shard that failed hears nothing.
Assign(f) ==
    /\ loads' = [loads EXCEPT ![Lightest] = @ + input[f].weight]
    /\ sent' = [sent EXCEPT ![Lightest] = Append(@, f)]
    /\ queue' = IF shard[Lightest] = "running"
                THEN [queue EXCEPT ![Lightest] = Append(@, f)] ELSE queue
    /\ slots' = Append(slots, f)

\* process_scan_outcome_for_ty
Release ==
    /\ phase = "scan"
    /\ \E item \in Releasable :
          /\ buffered' = buffered \ {item}
          /\ next' = next + 1
          /\ \/ /\ Good(item.path)
                /\ diagnostics' = diagnostics \o item.found
                /\ \/ input[item.path].weight > 0 /\ Assign(item.path)
                   \/ /\ input[item.path].weight = 0
                      /\ UNCHANGED <<loads, sent, queue, slots>>
             \/ /\ ~Good(item.path)
                /\ UNCHANGED <<diagnostics, loads, sent, queue, slots>>
    /\ UNCHANGED <<input, cache, phase, todo, excluded, channel, shard, answers,
                   senders, failed, result>>

\* Mutant of Drained: the coordinator waits until every file is released.
DrainedInFull == todo = {} /\ channel = <<>> /\ next > Len(Misses)

\* The workers have gone and nothing they sent is left.
Drained == todo = {} /\ channel = <<>> /\ Releasable = {}

CloseChannels ==
    /\ phase = "scan" /\ Drained
    /\ phase' = "collect" /\ senders' = FALSE
    /\ UNCHANGED <<input, cache, todo, excluded, channel, buffered, next, loads,
                   sent, queue, shard, slots, answers, failed, diagnostics, result>>

(***************************************************************************)
(* The ty shards                                                           *)
(***************************************************************************)
Answer(s) ==
    /\ shard[s] = "running" /\ queue[s] # <<>>
    /\ LET f == Head(queue[s])
       IN \/ /\ input[f].tyFails
             /\ shard' = [shard EXCEPT ![s] = "failed"]
             /\ queue' = [queue EXCEPT ![s] = <<>>]
             /\ UNCHANGED answers
          \/ /\ ~input[f].tyFails
             /\ queue' = [queue EXCEPT ![s] = Tail(@)]
             /\ answers' = Append(answers, [path |-> f, found |-> Resolved(f)])
             /\ UNCHANGED shard
    /\ UNCHANGED <<input, cache, phase, todo, excluded, channel, buffered, next,
                   loads, sent, slots, senders, failed, diagnostics, result>>

EndShard(s) ==
    /\ shard[s] = "running" /\ queue[s] = <<>> /\ ~senders
    /\ shard' = [shard EXCEPT ![s] = "ended"]
    /\ UNCHANGED <<input, cache, phase, todo, excluded, channel, buffered, next,
                   loads, sent, queue, slots, answers, senders, failed,
                   diagnostics, result>>

(***************************************************************************)
(* The end                                                                 *)
(***************************************************************************)
\* What the shards found, by slot.
SlotDiagnostics ==
    FlattenSeq([i \in DOMAIN slots |->
        FlattenSeq([j \in DOMAIN answers |->
            IF answers[j].path = slots[i] THEN answers[j].found ELSE <<>>])])

\* Mutant of ShardFailed: a shard's error is dropped with its slots.
ShardFailedUnseen == FALSE

ShardFailed == \E s \in Shards : shard[s] = "failed"

\* The scanned files' noqa directives are applied once all is known, what was
\* found is stored for every file not skipped, and everything is sorted.
Finish ==
    /\ phase = "collect" /\ \A s \in Shards : shard[s] # "running"
    /\ \/ /\ failed \/ ShardFailed
          /\ phase' = "error"
          /\ UNCHANGED <<cache, diagnostics, result>>
       \/ /\ ~failed /\ ~ShardFailed
          /\ phase' = "done"
          /\ LET scanned == Only(Misses, {f \in Paths : Good(f)})
             IN /\ diagnostics' = ApplyNoqa(diagnostics \o SlotDiagnostics, scanned)
                /\ cache' = [f \in DOMAIN cache \cup ToSet(scanned) |->
                               IF f \in DOMAIN cache THEN cache[f]
                               ELSE Entry(diagnostics', f)]
          /\ result' = Sorted(diagnostics')
    /\ UNCHANGED <<input, todo, excluded, channels, failed>>

Ended == phase \in {"done", "error"}

Worker == \E f \in Paths : Discover(f) \/ ScanFile(f)
Coordinator == Open \/ BeginScan \/ Receive \/ Release \/ CloseChannels \/ Finish
Shard(s) == Answer(s) \/ EndShard(s)

Next == Worker \/ Coordinator \/ \E s \in Shards : Shard(s)

Spec == Init /\ [][Next]_vars

\* The pool's workers, the coordinator and each shard are threads that run.
FairSpec ==
    /\ Spec
    /\ WF_vars(Worker) /\ WF_vars(Coordinator)
    /\ \A s \in Shards : WF_vars(Shard(s))

(***************************************************************************)
(* Properties                                                              *)
(***************************************************************************)
Item == [path : Paths, found : Seq(Diagnostic)]

TypeOK ==
    /\ input \in Inputs
    /\ DOMAIN cache \subseteq Paths
    /\ \A f \in DOMAIN cache : cache[f] \in Seq(Diagnostic)
    /\ phase \in {"open", "discover", "scan", "collect", "done", "error"}
    /\ todo \subseteq Paths
    /\ channel \in Seq(Item) /\ buffered \subseteq Item /\ answers \in Seq(Item)
    /\ next \in 1 .. Len(Misses) + 1 \/ Ended
    /\ loads \in [Shards -> Nat]
    /\ sent \in [Shards -> Seq(Paths)] /\ queue \in [Shards -> Seq(Paths)]
    /\ shard \in [Shards -> {"running", "failed", "ended"}]
    /\ slots \in Seq(Paths)
    /\ senders \in BOOLEAN /\ failed \in BOOLEAN
    /\ diagnostics \in Seq(Diagnostic) /\ result \in Seq(Diagnostic)

\* However the threads interleave and whatever part of the project was cached, a
\* check that succeeds finds what a serial check of every file finds, noqa
\* directives judged by every diagnostic of their file; and one that scanned
\* anything returns it in the same order (pipeline_phases, apply_unused_noqa).
ResultIsSerial ==
    phase = "done" =>
        /\ Sorted(result) = SerialResult
        /\ next > 1 => result = SerialResult

\* A warm run returns what the cold run returned, in its order
\* (take_cached_diagnostics).
WarmIsCold == phase = "done" => result = SerialResult

\* ty is asked about the file and fails.
ForTy == {f \in Paths : Good(f) /\ input[f].weight > 0}
Fatal(f) == f \in ForTy /\ input[f].tyFails

\* A check fails if and only if some file it had to scan fails or ty fails on
\* one: no error is lost in a closed channel or a shard's result, and none
\* appears because others were drained (consumer_err, shard_results).
ErrorsAreNeverSwallowed ==
    Ended =>
        (phase = "error" <=> \E f \in Paths : input[f].kind = "failing" \/ Fatal(f))

\* What a check stores is what any later check of the same project would find.
CacheHoldsSerial ==
    \A f \in DOMAIN cache : Good(f) /\ cache[f] = Entry(Serial(f), f)

\* The weight of some files.
Weight(files) ==
    LET sum[n \in 0 .. Len(files)] ==
            IF n = 0 THEN 0 ELSE sum[n - 1] + input[files[n]].weight
    IN sum[Len(files)]

\* The next file goes to the part with the least weight, the first of several.
Deal(parts, f) ==
    LET least == CHOOSE s \in Shards : \A t \in Shards :
                     \/ Weight(parts[s]) < Weight(parts[t])
                     \/ Weight(parts[s]) = Weight(parts[t]) /\ s <= t
    IN [parts EXCEPT ![least] = Append(@, f)]

\* The greedy partition of some files.
Dealt(files) ==
    LET deal[n \in 0 .. Len(files)] ==
            IF n = 0 THEN [s \in Shards |-> <<>>] ELSE Deal(deal[n - 1], files[n])
    IN deal[Len(files)]

\* That of the files with calls for ty, in sorted order.
Greedy == Dealt(Only(Misses, ForTy))

\* The requests a ty server sees are a function of the file list: each shard is
\* sent a prefix of its part of the sorted files, whatever order the workers
\* finish in (InOrderReleaser, TyShardAssigner).
ShardStreamsAreReproducible ==
    phase \in {"scan", "collect"} => \A s \in Shards : IsPrefix(sent[s], Greedy[s])

\* The check ends: no thread waits for a channel that nobody closes, after an
\* error as after success.
PipelineEnds == <>Ended

(***************************************************************************)
(* Why they hold                                                           *)
(***************************************************************************)
Released == SubSeq(Misses, 1, next - 1)
Later == {Misses[k] : k \in next .. Len(Misses)}
Arriving == {channel[i].path : i \in DOMAIN channel}
Held == {item.path : item \in buffered}
Answered == {answers[j].path : j \in DOMAIN answers}
Streaming == phase \in {"scan", "collect"}

\* Nothing is under way before the scan.
NothingSent ==
    phase \in {"open", "discover"} =>
        /\ next = 1 /\ channel = <<>> /\ buffered = {}
        /\ loads = [s \in Shards |-> 0] /\ sent = [s \in Shards |-> <<>>]
        /\ queue = [s \in Shards |-> <<>>] /\ shard = [s \in Shards |-> "running"]
        /\ slots = <<>> /\ answers = <<>> /\ senders = TRUE /\ failed = FALSE
        /\ phase = "discover" => diagnostics = Cached

\* Phase 0 has recorded the rebindings of the files it is done with.
RebindingsKnown ==
    /\ excluded \subseteq AllRebound
    /\ phase = "discover" =>
          \A f \in Paths \ todo : Good(f) => input[f].rebinds \subseteq excluded
    /\ Streaming => excluded = AllRebound

\* A file that is not released is in one place, until an error drops some.
EachInOnePlace ==
    Streaming =>
        /\ todo \cup Arriving \cup Held \subseteq Later
        /\ todo \cap Arriving = {} /\ todo \cap Held = {} /\ Arriving \cap Held = {}
        /\ \A i, j \in DOMAIN channel : channel[i].path = channel[j].path => i = j
        /\ failed \/ Later \subseteq todo \cup Arriving \cup Held
        /\ phase = "collect" => failed \/ next = Len(Misses) + 1

\* Scans were done with all exclusions, and those that failed are not held.
ScansAreComplete ==
    Streaming =>
        /\ \A i \in DOMAIN channel : channel[i].found = Scan(channel[i].path, AllRebound)
        /\ \A item \in buffered :
              item.found = Scan(item.path, AllRebound) /\ input[item.path].kind # "failing"
        /\ \A k \in 1 .. next - 1 : input[Misses[k]].kind # "failing"

\* What was released is known to the coordinator, in order.
ReleasedInOrder ==
    Streaming =>
        /\ slots = Only(Released, ForTy)
        /\ diagnostics = Cached \o FlattenSeq([k \in 1 .. next - 1 |->
               IF Good(Misses[k]) THEN Scan(Misses[k], AllRebound) ELSE <<>>])

\* The shards of files dealt greedily, by what they were sent.
DealtGreedily ==
    Streaming =>
        /\ sent = Dealt(slots)
        /\ \A s \in Shards : loads[s] = Weight(sent[s])

\* A file for ty is queued once or answered once.
AnsweredOnce ==
    Streaming =>
        /\ \A s \in Shards :
              /\ ToSet(queue[s]) \subseteq ToSet(slots) \ Answered
              /\ \A i, j \in DOMAIN queue[s] : queue[s][i] = queue[s][j] => i = j
              /\ \A t \in Shards : s # t => ToSet(queue[s]) \cap ToSet(queue[t]) = {}
        /\ Answered \subseteq ToSet(slots)
        /\ \A i, j \in DOMAIN answers : answers[i].path = answers[j].path => i = j
        /\ \A j \in DOMAIN answers :
              answers[j].found = Resolved(answers[j].path) /\ ~input[answers[j].path].tyFails

\* A file for ty is lost only to an error, which is remembered.
NoneIsLost ==
    Streaming =>
        /\ failed => \E f \in Paths : input[f].kind = "failing"
        /\ \A s \in Shards :
              /\ shard[s] = "failed" => \E f \in Paths : Fatal(f)
              /\ queue[s] # <<>> => shard[s] = "running"
              /\ shard[s] = "ended" => ~senders
        /\ failed \/ ShardFailed
              \/ ToSet(slots) \subseteq Answered \cup UNION {ToSet(queue[s]) : s \in Shards}
        /\ phase = "scan" => failed \/ senders

\* Only files that neither end the check nor are skipped are cached.
CachedAreGood == \A f \in DOMAIN cache : Good(f) /\ ~Fatal(f)

IInv ==
    /\ TypeOK /\ NothingSent /\ RebindingsKnown /\ EachInOnePlace /\ ScansAreComplete
    /\ ReleasedInOrder /\ DealtGreedily /\ AnsweredOnce /\ NoneIsLost /\ CachedAreGood
    /\ CacheHoldsSerial /\ ErrorsAreNeverSwallowed /\ ResultIsSerial
=============================================================================
