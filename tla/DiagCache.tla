----------------------------- MODULE DiagCache ------------------------------
(***************************************************************************)
(* The diagnostic cache on disk (src/src/cache.rs) and how a check uses it *)
(* (check_paths_impl).                                                     *)
(*                                                                         *)
(* One manifest holds the results of the files checked.  A check opens it  *)
(* against two fingerprints: what lies outside the project must be the     *)
(* same; when only project files differ, the check compares the tokens of  *)
(* those that changed with the tokens stored and keeps what it may.  It    *)
(* then scans the files without an entry and replaces the manifest.        *)
(* Checks of several selections run at once without a lock, crash, and are *)
(* followed by edits.                                                      *)
(***************************************************************************)
EXTENDS Naturals, FiniteSets, Functions

CONSTANTS
    Files,       \* the paths a project file may have
    Checks,      \* processes that check
    Explicit,    \* the sets of files a check may be given instead of the project
    LoadedFirst, \* <<a, b>>: indexing a loads b, as the module of a base of a's
    Tokens,      \* the token streams a file may have
    Layouts,     \* the layouts (spacing, times) it may have them in
    MaxEdits,
    MaxChecks

ASSUME InputsAssumption ==
    /\ Explicit \subseteq SUBSET Files
    /\ LoadedFirst \subseteq Files \X Files
    /\ MaxEdits \in Nat /\ MaxChecks \in Nat

\* What a file without a parse has for tokens, and an entry without a semantic
\* fingerprint; the selection of the project root, whatever files it holds.
CONSTANT None
Project == Files
ASSUME NoneAssumption == None \notin Tokens /\ Project \notin Explicit

VARIABLES
    disk,     \* the project's files, a function from some of Files to Versions
    outside,  \* what the dependency fingerprint covers
    manifest, \* diagnostics.json: a set of at most one manifest
    check,    \* the checks at work: a function from some of Checks
    served,   \* history: the hits a check has just answered from
    edits, checks

vars == <<disk, outside, manifest, check, served, edits, checks>>

\* A map with one more key, and two maps of which the first one goes before.
With(f, x, v) == [y \in DOMAIN f \cup {x} |-> IF y = x THEN v ELSE f[y]]
Merged(f, g) == [x \in DOMAIN f \cup DOMAIN g |-> IF x \in DOMAIN f THEN f[x] ELSE g[x]]

\* FingerprintFile: the time and content of a file, told apart by what they
\* mean to a check: its tokens and how they are laid out.
Versions == [tokens : Tokens \cup {None}, layout : Layouts]
IsWorld(w) == DOMAIN w \subseteq Files /\ \A f \in DOMAIN w : w[f] \in Versions

\* CacheEntry: semantic_fingerprint, and what the diagnostics were found from:
\* the file's own layout, the tokens of every project file, all that is outside.
IsEntry(e) ==
    /\ DOMAIN e = {"semantic", "layout", "seen", "outside"}
    /\ e.semantic \in Tokens \cup {None} /\ e.layout \in Layouts
    /\ DOMAIN e.seen \subseteq Files
    /\ \A g \in DOMAIN e.seen : e.seen[g] \in Tokens \cup {None}
    /\ e.outside \in 0 .. MaxEdits
IsEntries(es) == DOMAIN es \subseteq Files /\ \A f \in DOMAIN es : IsEntry(es[f])

\* project_files, there when the check was of the project root: at most one world.
IsInventory(i) == Cardinality(i) <= 1 /\ \A w \in i : IsWorld(w)

IsManifest(m) ==
    /\ DOMAIN m = {"dependency", "project", "inventory", "entries"}
    /\ m.dependency \in 0 .. MaxEdits /\ IsWorld(m.project)
    /\ IsInventory(m.inventory) /\ IsEntries(m.entries)

(***************************************************************************)
(* What a check reads                                                      *)
(***************************************************************************)
\* collect_python_files_with_project_inventory: the files of a selection, and
\* the inventory when it is the project root.
Selected(selection) == IF selection = Project THEN DOMAIN disk ELSE selection
Inventory(selection) == IF selection = Project THEN {disk} ELSE {}

Parsed(world, f) == world[f].tokens # None

\* build_index_with_sources keeps the parse of a file, unless it has none or the
\* module was loaded as somebody's base before its turn came.
Fingerprinted(files) ==
    {f \in files : /\ Parsed(disk, f)
                   /\ \A a \in files : <<a, f>> \in LoadedFirst => ~Parsed(disk, a)}

\* IndexedFile::semantic_fingerprint, where there is one.
Semantic(files, f) == IF f \in Fingerprinted(files) THEN disk[f].tokens ELSE None

\* compute_cache_fingerprints: the tool, its configuration, ty, the environment
\* and every file outside the project; the project's files.
Fingerprints == [dependency |-> outside, project |-> disk]

Init ==
    /\ disk \in {[f \in Files |-> [tokens |-> t, layout |-> l]] : t \in Tokens, l \in Layouts}
    /\ outside = 0
    /\ manifest = {}
    /\ check = <<>> /\ served = <<>>
    /\ edits = 0 /\ checks = 0

At(c, phase) == c \in DOMAIN check /\ check[c].phase = phase

\* Mutant of Usable: any manifest of this version and environment is opened.
UsableAnyway(m, selection) == m.dependency = Fingerprints.dependency

\* The filters of DiagnosticCache::open.
Usable(m, selection) ==
    /\ m.dependency = Fingerprints.dependency
    /\ m.project = Fingerprints.project \/ Inventory(selection) # {}

\* Fingerprints, then DiagnosticCache::open.
Open(c, selection) ==
    /\ c \notin DOMAIN check /\ checks < MaxChecks
    /\ selection # Project => selection \subseteq DOMAIN disk
    /\ LET opened == {m \in manifest : Usable(m, selection)}
           fresh == [phase |-> "open", selection |-> selection,
                     fingerprints |-> Fingerprints, inventory |-> Inventory(selection),
                     previous |-> {}, entries |-> <<>>, validate |-> FALSE, dirty |-> FALSE]
       IN check' = With(check, c,
            IF opened = {} THEN fresh
            ELSE LET m == CHOOSE m \in opened : TRUE
                 IN [fresh EXCEPT !.previous = m.inventory, !.entries = m.entries,
                                  !.validate = m.project # Fingerprints.project])
    /\ checks' = checks + 1
    /\ served' = <<>>
    /\ UNCHANGED <<disk, outside, manifest, edits>>

(***************************************************************************)
(* DiagnosticCache::validate_project                                       *)
(***************************************************************************)
\* Metadata by path; no inventory counts as an empty one.
Metadata(inventory) == IF inventory = {} THEN <<>> ELSE CHOOSE w \in inventory : TRUE
Same(old, new, f) == f \in DOMAIN old /\ f \in DOMAIN new /\ old[f] = new[f]

\* An entry whose stored fingerprint is the current one; two that are missing
\* are alike.
SameTokens(entries, files, f) ==
    f \in DOMAIN entries /\ entries[f].semantic = Semantic(files, f)

\* Mutant of Drifted: a file that has no entry has not drifted.
DriftedEntry(entries, files, f) ==
    /\ f \in Fingerprinted(files) /\ f \in DOMAIN entries
    /\ ~SameTokens(entries, files, f)

\* readable_semantic_drift at one changed path
Drifted(entries, files, f) ==
    /\ f \in Fingerprinted(files)
    /\ ~SameTokens(entries, files, f)

\* Mutant of Retained: a changed file keeps its entry if its tokens are the same.
RetainedByTokens(entries, old, new, files) ==
    IF DOMAIN old # DOMAIN new THEN {}
    ELSE LET changed == {f \in DOMAIN new : ~Same(old, new, f)}
         IN IF \A f \in changed : SameTokens(entries, files, f)
            THEN DOMAIN entries \cap files
            ELSE IF \E f \in changed : Drifted(entries, files, f) THEN {}
            ELSE {f \in DOMAIN entries \cap files :
                     f \notin changed \/ SameTokens(entries, files, f)}

\* The paths whose entries stay: none if a path came or went, or a file that
\* can be read has other tokens.
Retained(entries, old, new, files) ==
    IF DOMAIN old # DOMAIN new THEN {}
    ELSE LET changed == {f \in DOMAIN new : ~Same(old, new, f)}
         IN IF \A f \in changed : SameTokens(entries, files, f)
            THEN (DOMAIN entries \cap files) \ changed
            ELSE IF \E f \in changed : Drifted(entries, files, f) THEN {}
            ELSE {f \in DOMAIN entries \cap files :
                     f \notin changed \/ SameTokens(entries, files, f)}

Validate(c) ==
    /\ At(c, "open") /\ check[c].validate
    /\ LET k == check[c]
           kept == Retained(k.entries, Metadata(k.previous), Metadata(k.inventory),
                            Selected(k.selection))
       IN check' = [check EXCEPT ![c].entries = Restrict(@, kept),
                                 ![c].previous = k.inventory,
                                 ![c].validate = FALSE, ![c].dirty = TRUE]
    /\ UNCHANGED <<disk, outside, manifest, served, edits, checks>>

(***************************************************************************)
(* Answering, scanning and storing                                         *)
(***************************************************************************)
\* What is written: the fingerprints the check began with and these entries.
Stored(k, entries) ==
    [dependency |-> k.fingerprints.dependency, project |-> k.fingerprints.project,
     inventory |-> k.inventory, entries |-> entries]

\* What scan_file finds of a file, and put_all_borrowed stores.
Found(files, f) ==
    [semantic |-> Semantic(files, f), layout |-> disk[f].layout,
     seen |-> [g \in DOMAIN disk |-> disk[g].tokens], outside |-> outside]

\* Mutant of Cacheable: what is skipped is stored as clean.
CacheableAll(files) == files

\* A skipped file is left out of the manifest.
Cacheable(files) == {f \in files : Parsed(disk, f)}

Misses(c) == Selected(check[c].selection) \ DOMAIN check[c].entries
Hits(c) == Selected(check[c].selection) \cap DOMAIN check[c].entries

\* A file given by name that does not parse ends the check with an error, before
\* anything is stored.
Fails(c) == check[c].selection # Project /\ \E f \in Misses(c) : ~Parsed(disk, f)

\* The hits answer for their files and the misses are scanned.  Everything is
\* written, what the manifest held for files not selected included, unless
\* there is nothing new and nothing was validated.
Scan(c) ==
    /\ At(c, "open") /\ ~check[c].validate
    /\ served' = [f \in Hits(c) |-> check[c].entries[f]]
    /\ LET k == check[c]
           files == Selected(k.selection)
           scanned == Cacheable(Misses(c))
           new == [f \in scanned |-> Found(files, f)]
       IN \/ /\ Fails(c) \/ (scanned = {} /\ ~k.dirty)
             /\ check' = Restrict(check, DOMAIN check \ {c})
          \/ /\ ~Fails(c) /\ (scanned # {} \/ k.dirty)
             /\ check' = [check EXCEPT ![c] =
                    [phase |-> "write", manifest |-> Stored(k, Merged(k.entries, new))]]
    /\ UNCHANGED <<disk, outside, manifest, edits, checks>>

\* Mutant of Replacement: the entries are merged into the manifest found.
ReplacementMerged(m) ==
    IF manifest = {} THEN {m}
    ELSE {[m EXCEPT !.entries = Merged(@, old.entries)] : old \in manifest}

\* The manifest is replaced, whatever another check has written meanwhile.
Replacement(m) == {m}

\* write_manifest_atomic: the temporary file has a name of its own, so only the
\* rename is seen by others; it may fail.
Replace(c) ==
    /\ At(c, "write")
    /\ manifest' = Replacement(check[c].manifest)
    /\ check' = Restrict(check, DOMAIN check \ {c})
    /\ served' = <<>>
    /\ UNCHANGED <<disk, outside, edits, checks>>

\* A write that fails is ignored, and a check may be killed: before this it has
\* changed nothing that others see.
Abandon(c) ==
    /\ At(c, "write")
    /\ check' = Restrict(check, DOMAIN check \ {c})
    /\ served' = <<>>
    /\ UNCHANGED <<disk, outside, manifest, edits, checks>>

(***************************************************************************)
(* Edits                                                                   *)
(***************************************************************************)
\* No check is between its fingerprints and the end of its scan; it may still
\* have its manifest to write.
Quiet == \A c \in DOMAIN check : check[c].phase = "write"

Change ==
    /\ Quiet /\ edits < MaxEdits /\ edits' = edits + 1
    /\ served' = <<>>
    /\ UNCHANGED <<manifest, check, checks>>

Edit(f, version) ==
    /\ Change
    /\ f \in DOMAIN disk => disk[f] # version
    /\ disk' = With(disk, f, version)
    /\ UNCHANGED outside

Delete(f) ==
    /\ Change
    /\ f \in DOMAIN disk
    /\ disk' = Restrict(disk, DOMAIN disk \ {f})
    /\ UNCHANGED outside

\* The configuration, ty, the environment or a site-packages file is another.
ChangeOutside ==
    /\ Change
    /\ outside' = outside + 1
    /\ UNCHANGED disk

Next ==
    \/ \E c \in Checks :
          \/ \E s \in Explicit \cup {Project} : Open(c, s)
          \/ Validate(c) \/ Scan(c) \/ Replace(c) \/ Abandon(c)
    \/ \E f \in Files, v \in Versions : Edit(f, v)
    \/ \E f \in Files : Delete(f)
    \/ ChangeOutside

Spec == Init /\ [][Next]_vars

(***************************************************************************)
(* Properties                                                              *)
(***************************************************************************)
IsOpened(k) ==
    /\ k.phase = "open" /\ k.selection \in Explicit \cup {Project}
    /\ IsManifest(Stored(k, k.entries)) /\ IsInventory(k.previous)
    /\ k.validate \in BOOLEAN /\ k.dirty \in BOOLEAN

TypeOK ==
    /\ IsWorld(disk) /\ outside \in 0 .. MaxEdits
    /\ Cardinality(manifest) <= 1 /\ \A m \in manifest : IsManifest(m)
    /\ DOMAIN check \subseteq Checks
    /\ \A c \in DOMAIN check :
          IsOpened(check[c]) \/ (At(c, "write") /\ IsManifest(check[c].manifest))
    /\ IsEntries(served)
    /\ edits \in 0 .. MaxEdits /\ checks \in 0 .. MaxChecks

\* The entry was found from the tokens these files have in the world.
Agrees(entry, files, world) ==
    /\ DOMAIN entry.seen = DOMAIN world
    /\ \A g \in files : entry.seen[g] = world[g].tokens

\* Whatever was edited, added, deleted or configured since, whichever check wrote
\* last or was killed: an answer from the cache was found in this environment,
\* among the same paths, from the tokens that every file that parses has now
\* (DiagnosticCache::open, validate_project).
HitsAreCurrent ==
    \A f \in DOMAIN served :
        /\ served[f].outside = outside
        /\ Agrees(served[f], {g \in DOMAIN disk : Parsed(disk, g)}, disk)

\* While every file parses, an answer from the cache has the positions its file
\* has now: a file that was only laid out anew is scanned again.
PositionsAreCurrent ==
    (\A g \in DOMAIN disk : Parsed(disk, g)) =>
        \A f \in DOMAIN served : served[f].layout = disk[f].layout

\* A file that does not parse is never answered from the cache, so that each
\* check warns of it again.
SkippedIsNeverServed == \A f \in DOMAIN served : Parsed(disk, f)

\* An answer from the cache has the positions its file has now, as the comment on
\* validate_project promises of changed files.
PositionsAreAlwaysCurrent == \A f \in DOMAIN served : served[f].layout = disk[f].layout

\* The manifest is what one check saw of one project: merged, replaced by several
\* checks at once or written after an edit, all its entries were found from the
\* tokens of the files that its own fingerprint describes.
ManifestIsOneSnapshot ==
    \A m \in manifest : \A f \in DOMAIN m.entries :
        /\ m.entries[f].outside = m.dependency
        /\ Agrees(m.entries[f], {g \in DOMAIN m.project : Parsed(m.project, g)}, m.project)

(***************************************************************************)
(* The inductive invariant behind them, where no checked file is loaded    *)
(* first as the module of somebody's base                                  *)
(***************************************************************************)
\* Entries that a check under these fingerprints may answer from: of files that
\* parse, each with its own tokens for a semantic fingerprint and found from the
\* tokens of all, and laid out as the files are unless one of them does not parse.
Sound(entries, dependency, project) ==
    LET parsed == {g \in DOMAIN project : Parsed(project, g)}
    IN \A f \in DOMAIN entries :
          /\ f \in parsed
          /\ entries[f].outside = dependency
          /\ entries[f].semantic = project[f].tokens
          /\ Agrees(entries[f], parsed, project)
          /\ parsed = DOMAIN project => entries[f].layout = project[f].layout

IsStored(m) ==
    /\ DOMAIN m = {"dependency", "project", "inventory", "entries"}
    /\ m.inventory \subseteq {m.project}
    /\ Sound(m.entries, m.dependency, m.project)

\* A check that is reading the project: nothing has changed since its fingerprints,
\* and what it has from the manifest is sound, now or of the project before it.
IsReading(k) ==
    /\ DOMAIN k = {"phase", "selection", "fingerprints", "inventory", "previous",
                   "entries", "validate", "dirty"}
    /\ k.phase = "open" /\ k.selection \in Explicit \cup {Project}
    /\ k.selection # Project => k.selection \subseteq DOMAIN disk
    /\ k.fingerprints = Fingerprints /\ k.inventory = Inventory(k.selection)
    /\ k.validate \in BOOLEAN
    /\ IF k.validate
       THEN /\ k.selection = Project
            /\ \A w \in k.previous : k.previous = {w} /\ Sound(k.entries, outside, w)
       ELSE Sound(k.entries, outside, disk)

IsWriting(k) ==
    DOMAIN k = {"phase", "manifest"} /\ k.phase = "write" /\ IsStored(k.manifest)

IInv ==
    /\ \A m \in manifest : IsStored(m)
    /\ \A c \in DOMAIN check : IsReading(check[c]) \/ IsWriting(check[c])
    /\ Sound(served, outside, disk)
=============================================================================
