------------------------------ MODULE Selection ------------------------------
(***************************************************************************)
(* Which files a check reads, and which ones its cache notices a change of *)
(* (src/check/file_selection.rs, and the fingerprint walks of              *)
(* src/cache.rs).  Three walks must agree: the one that selects files, the *)
(* one that selects those of a whole project and takes their inventory for *)
(* the cache on the way, and the one that fingerprints a project checked   *)
(* by other paths.                                                         *)
(*                                                                         *)
(* A path is a sequence of names below the project "p" or, outside of it,  *)
(* "o".  The name "h" stands for what is never entered (dot directories,   *)
(* venv, __pycache__) and "f" for a Python file's.  Files are told apart   *)
(* by their canonical path, as deduplicate_files does; which spelling of   *)
(* it is reported is left out.                                             *)
(***************************************************************************)
EXTENDS Integers, FiniteSets, Sequences, SequencesExt, TLC

CONSTANTS
    MaxEntries,       \* bound: files, directories and links of the file system
    MaxDepth,         \* bound: names in a path below the project
    Approximations    \* what the walks are known to disagree on, that projects may have

Known == {"named files of pruned directories", "paths outside the project", "imported links left out",
          "broken links in excluded directories", "loops left out"}

SelectionAssumption ==
    /\ {MaxEntries, MaxDepth} \subseteq Nat
    /\ Approximations \subseteq Known

VARIABLES
    tree,      \* the file system: of each path that is no link's, its [kind, to]
    request    \* {} or the check: [path, exclude, force, src]

selectionVars == <<tree, request>>

May(a) == a \in Approximations
Project == <<"p">>
Nowhere == <<"nowhere">>
Names == {"d", "f", "h"}
Node(kind, to) == [kind |-> kind, to |-> to]
Check == CHOOSE r \in request : TRUE

------------------------------------------------------------------------------
(* The file system.                                                         *)

\* std::fs::canonicalize
RECURSIVE Real(_)
Real(path) ==
    IF path = Nowhere \/ Len(path) = 1 THEN path
    ELSE LET parent == Real(Front(path))
             at == Append(parent, Last(path))
         IN IF parent = Nowhere \/ at \notin DOMAIN tree THEN Nowhere
            ELSE IF tree[at].kind = "link" THEN Real(tree[at].to) ELSE at
Is(kind, path) == Real(path) # Nowhere /\ tree[Real(path)].kind = kind
IsLink(path) == Len(path) > 1 /\ tree[Append(Real(Front(path)), Last(path))].kind = "link"
Children(path) == {Append(path, n) : n \in {n \in Names : Append(Real(path), n) \in DOMAIN tree}}
IsPythonFile(path) == Last(path) = "f"
Hidden(names) == "h" \in Range(names)
StartsWithProject(path) == Head(path) = "p"

------------------------------------------------------------------------------
(* Selection.                                                               *)

\* A gitignore pattern is a name, of directories alone if it ends in a slash, and
\* matches what is below one too.
IsExtendExcluded(path, isDirectory) ==
    StartsWithProject(path)
    /\ \E e \in Check.exclude, k \in 2 .. Len(path) :
          path[k] = e.name /\ (k < Len(path) \/ isDirectory \/ ~e.directories)
IsIgnoredPath(path) == Hidden(IF StartsWithProject(path) THEN Tail(path) ELSE path)
IsExcluded(path, isDirectory, explicit) ==
    /\ ~explicit \/ Check.force
    /\ IsIgnoredPath(path) \/ IsExtendExcluded(path, isDirectory)

SymlinkTargetIsPrunable(path) ==
    Real(path) # Nowhere /\ (IsExtendExcluded(Real(path), TRUE) \/ Last(Real(path)) = "h")
WalkEntryIsExcluded(path) ==
    \/ IsExcluded(path, Is("dir", path), FALSE)
    \/ IsLink(path) /\ Is("dir", path) /\ SymlinkTargetIsPrunable(path)
IsPrunableDir(path) == Is("dir", path) /\ Last(path) = "h"
Pruned(walk, path) == IF walk = "select" THEN WalkEntryIsExcluded(path) ELSE IsPrunableDir(path)

\* A walk that follows links: one that leads nowhere, or back to a directory above, is an
\* error before it can be pruned.
RECURSIVE Follow(_, _, _)
Follow(walk, path, above) ==
    LET bad == {c \in Children(path) :
                    IsLink(c) /\ (Real(c) = Nowhere \/ (Is("dir", c) /\ Real(c) \in above))}
        kept == {c \in Children(path) \ bad : ~Pruned(walk, c)}
        deeper == {Follow(walk, c, above \cup {Real(c)}) : c \in {c \in kept : Is("dir", c)}}
    IN [files |-> {Real(c) : c \in {c \in kept : Is("file", c) /\ IsPythonFile(c)}}
                  \cup UNION {d.files : d \in deeper},
        failed |-> bad \cup UNION {d.failed : d \in deeper}]
FollowFrom(walk, path) == Follow(walk, path, {Real(path)})

CollectPythonFiles(path) ==
    IF Is("file", path)
    THEN [files |-> IF IsPythonFile(path) /\ ~IsExcluded(path, FALSE, TRUE) THEN {Real(path)} ELSE {},
          failed |-> {}]
    ELSE IF Is("dir", path) THEN FollowFrom("select", path)
    ELSE [files |-> {}, failed |-> {path}]

\* A walk that follows no link, and enters what the configuration excludes.
RECURSIVE Entries(_)
Entries(path) ==
    LET kept == {c \in Children(path) : IsLink(c) \/ ~IsPrunableDir(c)}
    IN kept \cup UNION {Entries(c) : c \in {c \in kept : ~IsLink(c) /\ Is("dir", c)}}

\* The directories behind links are walked after the project.  Mutated: by their own path alone.
NamedLinks == {c \in Entries(Project) : IsLink(c) /\ Is("dir", c) /\ ~IsExcluded(c, TRUE, FALSE)}
FollowedLinks ==
    {c \in Entries(Project) : /\ IsLink(c) /\ Is("dir", c)
                              /\ ~IsExcluded(c, TRUE, FALSE) /\ ~SymlinkTargetIsPrunable(c)}

CollectWithInventory ==
    LET entries == Entries(Project)
        python == {c \in entries : IsPythonFile(c)}
        behind == {FollowFrom("select", l) : l \in FollowedLinks}
        linked == UNION {w.files : w \in behind}
    IN [files |-> {Real(c) : c \in {c \in python : Is("file", c) /\ ~IsExcluded(c, FALSE, FALSE)}} \cup linked,
        inventory |-> {Real(c) : c \in python} \cup linked,
        failed |-> {c \in entries : Real(c) = Nowhere} \cup UNION {w.failed : w \in behind}]

Selected == IF Check.path = Project THEN CollectWithInventory ELSE CollectPythonFiles(Check.path)

------------------------------------------------------------------------------
(* Fingerprints.                                                            *)

HashPyFiles(root) == FollowFrom("hash", root).files

\* Mutated: a path below another is covered by its walk.
FingerprintWalkStartsAbove(ancestor, path) == IsPrefix(ancestor, path)
FingerprintWalkCovers(ancestor, path) ==
    IsPrefix(ancestor, path) /\ ~Hidden(SubSeq(path, Len(ancestor) + 1, Len(path)))

FingerprintWalkRoots ==
    LET candidates == {Project} \cup Check.src
    IN {s \in candidates : \A r \in candidates \ {s} : ~FingerprintWalkCovers(r, s)}

Fingerprinted ==
    UNION {IF root = Project /\ Check.path = Project THEN CollectWithInventory.inventory ELSE HashPyFiles(root) :
              root \in FingerprintWalkRoots}

------------------------------------------------------------------------------
(* Projects and checks of them.                                             *)

AddEntry ==
    /\ request = {} /\ Cardinality(DOMAIN tree) < MaxEntries + 2
    /\ \E parent \in {d \in DOMAIN tree : tree[d].kind = "dir"}, name \in Names :
        LET path == Append(parent, name)
        IN /\ path \notin DOMAIN tree /\ Len(path) <= MaxDepth + 1
           /\ \E node \in {Node(IF name = "f" THEN "file" ELSE "dir", path)}
                          \cup {Node("link", to) : to \in DOMAIN tree \cup {Nowhere}} :
                tree' = tree @@ (path :> node)
    /\ UNCHANGED request

\* d/ and f.
Patterns == {[name |-> "d", directories |-> TRUE], [name |-> "f", directories |-> FALSE]}
RunCheck ==
    /\ request = {}
    /\ \E path \in {p \in DOMAIN tree : StartsWithProject(p) \/ May("paths outside the project")},
          src \in {{}} \cup {{d} : d \in {d \in DOMAIN tree \ {Project} : tree[d].kind = "dir"}},
          exclude \in {{}} \cup {{e} : e \in {e \in Patterns : \E p \in DOMAIN tree : Last(p) = e.name}},
          force \in BOOLEAN :
        \* Only a file named itself is excluded by force.
        /\ force => Is("file", path) /\ (exclude # {} \/ Hidden(path))
        /\ request' = {[path |-> path, force |-> force, src |-> src, exclude |-> exclude]}
    /\ UNCHANGED tree

Roots == [p \in {Project, <<"o">>} |-> Node("dir", p)]
InitSelection == tree = Roots /\ request = {}

SpecSelection == InitSelection /\ [][AddEntry \/ RunCheck]_selectionVars

------------------------------------------------------------------------------
(* PROPERTIES                                                               *)

\* Links that one walk stops at and the other, which leaves out what they are in, does not.
Links == {c \in Entries(Project) : IsLink(c)}
BrokenLeftOut ==
    \E c \in Links : Real(c) = Nowhere /\ \E k \in 2 .. Len(c) - 1 : WalkEntryIsExcluded(SubSeq(c, 1, k))
LoopLeftOut == \E c \in CollectPythonFiles(Project).failed : Is("dir", c) /\ WalkEntryIsExcluded(c)

\* A whole project is the same files, or the same failure, however it is asked for: the walk
\* that takes the inventory and the one that does not select alike.  (issue #527)
WalksAgree ==
    (request # {} /\ Check.path = Project)
    => LET plain == CollectPythonFiles(Project)
           whole == CollectWithInventory
       IN \/ BrokenLeftOut /\ ~May("broken links in excluded directories")
          \/ LoopLeftOut /\ ~May("loops left out")
          \/ /\ (plain.failed = {}) <=> (whole.failed = {})
             /\ plain.failed = {} => plain.files = whole.files

\* The modules an import can reach from the project and its source roots.
Importable == UNION {HashPyFiles(root) : root \in {Project} \cup Check.src}
NamedInPruned == Is("file", Check.path) /\ Hidden(Check.path)
LinkedLeftOut ==
    \E c \in Links :
        /\ Is("dir", c)
        /\ c \notin FollowedLinks \/ ~(FollowFrom("hash", c).files \subseteq FollowFrom("select", c).files)

\* A file that a check's results depend on is part of the fingerprint its cached results are
\* kept under: what it selects, and what the selected files may import.  (cache.rs,
\* compute_cache_fingerprints_with_project_files)
SourcesAreFingerprinted ==
    request # {}
    => LET selected == Selected
           fingerprinted == Fingerprinted
       IN selected.failed = {}
          => /\ \/ NamedInPruned /\ ~May("named files of pruned directories")
                \/ selected.files \subseteq fingerprinted
             /\ \/ Importable \subseteq fingerprinted
                \/ Check.path = Project /\ LinkedLeftOut /\ ~May("imported links left out")
=============================================================================
