----------------------------- MODULE FixJournal -----------------------------
(***************************************************************************)
(* The crash-recoverable file writer of `strict-kwargs check --fix`        *)
(* (src/src/fix.rs), with the run that drives it (main.rs run_check_fix,   *)
(* check/fix_runner.rs recover_fix_journals_for).                          *)
(*                                                                         *)
(* A run recovers the journals of crashed runs, plans fixes, recovers the  *)
(* directories it is about to write again, re-reads every planned source,  *)
(* stages the fixed texts next to their destinations, writes a journal,    *)
(* then per file moves the original aside and the staged text into place,  *)
(* marks the journal committed and deletes the originals.  Every step that *)
(* touches the file system is an action of its own: a crash, an I/O error  *)
(* or an editor saving a file may fall between any two of them.            *)
(***************************************************************************)
EXTENDS Naturals

CONSTANTS
    Paths,       \* the Python files, numbered in the order a listing sorts them
    Dirs,        \* the directories, numbered in the order they sort
    DirOf,       \* the directory that holds each path
    Runs,        \* the fix runs that may ever start; a run is its transaction
    Texts,       \* the texts a file may hold (a digest identifies its text)
    UserTexts,   \* the texts a person may save
    Fixed,       \* the text the fixer rewrites each text to
    Selections,  \* the sets of paths a command line may select
    Missing      \* the content of a path where there is no file

ASSUME OrderAssumption == Paths \subseteq Nat /\ Dirs \subseteq Nat
ASSUME DirOfAssumption == DirOf \in [Paths -> Dirs]
ASSUME FixedAssumption == Fixed \in [Texts -> Texts]
ASSUME SelectionAssumption == Selections \subseteq SUBSET Paths
ASSUME MissingAssumption == Missing \notin Texts
\* Nobody types, byte for byte, what the fixer would have written: the digest
\* of recovery could not tell the two apart.
ASSUME UserTextAssumption ==
    /\ UserTexts \subseteq Texts
    /\ \A t \in Texts : Fixed[t] # t => Fixed[t] \notin UserTexts

VARIABLES
    disk,     \* what each destination path holds
    staged,   \* each run's `.new` files
    backup,   \* each run's `.old` files
    journal,  \* each run's journal file: "none", "open" or "committed"
    orig,     \* the source each run planned to rewrite; the journal's entries
    pc,       \* where each run is
    sel,      \* the paths each run was given
    scan,     \* journals a recovery has listed and not yet resolved
    rec,      \* the journal being resolved
    todo,     \* the entries the current loop has left
    call,     \* which call of the recovery or cleanup code is running
    latest    \* history: the text a person last saved at each path

files == <<disk, staged, backup, journal>>
local == <<sel, scan, rec, todo, call>>
vars == <<disk, staged, backup, journal, orig, pc, sel, scan, rec, todo,
          call, latest>>

Contents == Texts \cup {Missing}
Labels == {"idle", "recover", "roll", "restore", "replace", "unstage",
           "clean", "plan", "prepare", "stage", "journal", "aside", "movein",
           "commit", "rollback", "ok", "failed", "crashed"}
Calls == {"startup", "write", "own", "rollback"}

TypeOK ==
    /\ disk \in [Paths -> Contents]
    /\ staged \in [Runs -> [Paths -> Contents]]
    /\ backup \in [Runs -> [Paths -> Contents]]
    /\ journal \in [Runs -> {"none", "open", "committed"}]
    /\ orig \in [Runs -> [Paths -> Contents]]
    /\ pc \in [Runs -> Labels]
    /\ sel \in [Runs -> SUBSET Paths]
    /\ scan \in [Runs -> SUBSET Runs]
    /\ rec \in [Runs -> Runs]
    /\ todo \in [Runs -> SUBSET Paths]
    /\ call \in [Runs -> Calls]
    /\ latest \in [Paths -> UserTexts]

Nothing == [f \in Paths |-> Missing]

Init ==
    /\ latest \in [Paths -> UserTexts]
    /\ disk = latest
    /\ staged = [p \in Runs |-> Nothing]
    /\ backup = [p \in Runs |-> Nothing]
    /\ journal = [p \in Runs |-> "none"]
    /\ orig = [p \in Runs |-> Nothing]
    /\ pc = [p \in Runs |-> "idle"]
    /\ sel = [p \in Runs |-> {}]
    /\ scan = [p \in Runs |-> {}]
    /\ rec = [p \in Runs |-> p]
    /\ todo = [p \in Runs |-> {}]
    /\ call = [p \in Runs |-> "startup"]

(***************************************************************************)
(* Reading the state                                                       *)
(***************************************************************************)
Entries(p) == {f \in Paths : orig[p][f] # Missing}
Listed(S) == {f \in S : disk[f] # Missing}
ParentsOf(S) == {DirOf[f] : f \in S}
IsFirst(f, S) == f \in S /\ \A g \in S : f <= g
IsLast(f, S) == f \in S /\ \A g \in S : g <= f
NeedsFix(t) == t # Missing /\ Fixed[t] # t

\* Mutant of JournalsIn: every file of a directory is taken for a journal.
JournalsInAnyName(D) == {f \in Paths : DirOf[f] \in D}

\* The journal file lies beside the first destination.
JournalsIn(D) ==
    {q \in Runs : /\ journal[q] # "none"
                  /\ \E f \in Paths : IsFirst(f, Entries(q)) /\ DirOf[f] \in D}

\* One journal comes no later than another in a recovery: directories are
\* sorted, the files of one directory come in any order.
NoLater(q, r) ==
    \A f \in Paths, g \in Paths :
        IsFirst(f, Entries(q)) /\ IsFirst(g, Entries(r)) => DirOf[f] <= DirOf[g]

\* Mutants of MustRestore: the digest is not compared; a missing file is not
\* restored.
MustRestoreAlways(q, f) == TRUE
MustRestoreFixedOnly(q, f) == disk[f] = Fixed[orig[q][f]]

\* The bytes at f are exactly what run q's transaction put there, or no file
\* is left there at all.
MustRestore(q, f) == disk[f] = Missing \/ disk[f] = Fixed[orig[q][f]]

Live(p) == pc[p] \notin {"idle", "ok", "failed", "crashed"}

Goto(p, label) == pc' = [pc EXCEPT ![p] = label]
Remaining(p, S) == todo' = [todo EXCEPT ![p] = S]

(***************************************************************************)
(* Resolving journals: recover_fix_journals, recover_journal               *)
(***************************************************************************)
StartRun(p) ==
    /\ pc[p] = "idle"
    /\ \E s \in Selections :
          /\ sel' = [sel EXCEPT ![p] = s]
          /\ scan' = [scan EXCEPT ![p] = JournalsIn(ParentsOf(Listed(s)))]
    /\ call' = [call EXCEPT ![p] = "startup"]
    /\ Goto(p, "recover")
    /\ UNCHANGED <<files, orig, rec, todo, latest>>

\* Read the next journal; its `committed` flag decides between cleanup and
\* rollback.  A journal gone since the directory was listed is an error.
OpenJournal(p) ==
    /\ pc[p] = "recover"
    /\ \E q \in scan[p] :
          /\ \A r \in scan[p] : NoLater(q, r)
          /\ rec' = [rec EXCEPT ![p] = q]
          /\ Remaining(p, Entries(q))
          /\ scan' = [scan EXCEPT ![p] = @ \ {q}]
          /\ \/ journal[q] = "none" /\ Goto(p, "failed")
             \/ journal[q] = "open" /\ Goto(p, "roll")
             \/ journal[q] = "committed" /\ Goto(p, "clean")
    /\ UNCHANGED <<files, orig, sel, call, latest>>

\* After a failed commit the run resolves its own journal, if it still exists.
OpenOwnJournal(p) ==
    /\ pc[p] = "rollback"
    /\ rec' = [rec EXCEPT ![p] = p]
    /\ Remaining(p, Entries(p))
    /\ call' = [call EXCEPT ![p] = "rollback"]
    /\ \/ journal[p] = "none" /\ Goto(p, "failed")
       \/ journal[p] = "open" /\ Goto(p, "roll")
       \/ journal[p] = "committed" /\ Goto(p, "clean")
    /\ UNCHANGED <<files, orig, sel, scan, latest>>

\* One entry, last first: restore the backup, drop it, or find none.
RollEntry(p) ==
    /\ pc[p] = "roll"
    /\ \E f \in todo[p] :
          /\ IsLast(f, todo[p])
          /\ LET q == rec[p] IN
             \/ /\ backup[q][f] = Missing
                /\ Goto(p, "unstage")
                /\ UNCHANGED backup
             \/ /\ backup[q][f] # Missing
                /\ MustRestore(q, f)
                /\ Goto(p, IF disk[f] = Missing THEN "replace" ELSE "restore")
                /\ UNCHANGED backup
             \/ /\ backup[q][f] # Missing
                /\ ~ MustRestore(q, f)
                /\ backup' = [backup EXCEPT ![q][f] = Missing]
                /\ Goto(p, "unstage")
    /\ UNCHANGED <<disk, staged, journal, orig, local, latest>>

RemoveFixed(p) ==
    /\ pc[p] = "restore"
    /\ \E f \in todo[p] :
          /\ IsLast(f, todo[p])
          /\ disk' = [disk EXCEPT ![f] = Missing]
    /\ Goto(p, "replace")
    /\ UNCHANGED <<staged, backup, journal, orig, local, latest>>

RenameBackup(p) ==
    /\ pc[p] = "replace"
    /\ \E f \in todo[p] :
          /\ IsLast(f, todo[p])
          /\ backup[rec[p]][f] # Missing
          /\ disk' = [disk EXCEPT ![f] = backup[rec[p]][f]]
          /\ backup' = [backup EXCEPT ![rec[p]][f] = Missing]
    /\ Goto(p, "unstage")
    /\ UNCHANGED <<staged, journal, orig, local, latest>>

RemoveStaged(p) ==
    /\ pc[p] = "unstage"
    /\ \E f \in todo[p] :
          /\ IsLast(f, todo[p])
          /\ staged' = [staged EXCEPT ![rec[p]][f] = Missing]
          /\ Remaining(p, todo[p] \ {f})
    /\ Goto(p, "roll")
    /\ UNCHANGED <<disk, backup, journal, orig, sel, scan, rec, call, latest>>

\* cleanup_committed_transaction: drop the originals, one entry after another.
CleanEntry(p) ==
    /\ pc[p] = "clean"
    /\ \E f \in todo[p] :
          /\ IsFirst(f, todo[p])
          /\ backup' = [backup EXCEPT ![rec[p]][f] = Missing]
          /\ staged' = [staged EXCEPT ![rec[p]][f] = Missing]
          /\ Remaining(p, todo[p] \ {f})
    /\ UNCHANGED <<disk, journal, orig, pc, sel, scan, rec, call, latest>>

\* Where the call that resolved a journal returns to.
AfterJournal(p) ==
    CASE call[p] \in {"startup", "write"} -> "recover"
      [] call[p] = "own" -> "ok"
      [] call[p] = "rollback" -> "failed"

\* Mutant of RemoveJournal: the journal goes before its entries are resolved.
RemoveJournalEarly(p) ==
    /\ pc[p] \in {"roll", "clean"}
    /\ journal[rec[p]] # "none"
    /\ journal' = [journal EXCEPT ![rec[p]] = "none"]
    /\ Goto(p, AfterJournal(p))
    /\ UNCHANGED <<disk, staged, backup, orig, local, latest>>

RemoveJournal(p) ==
    /\ pc[p] \in {"roll", "clean"}
    /\ todo[p] = {}
    /\ journal[rec[p]] # "none"
    /\ journal' = [journal EXCEPT ![rec[p]] = "none"]
    /\ Goto(p, AfterJournal(p))
    /\ UNCHANGED <<disk, staged, backup, orig, local, latest>>

\* Every listed journal is resolved: analysis follows, or the write.
EndRecovery(p) ==
    /\ pc[p] = "recover"
    /\ scan[p] = {}
    /\ IF call[p] = "startup"
       THEN Goto(p, "plan") /\ UNCHANGED todo
       ELSE Goto(p, "prepare") /\ Remaining(p, Entries(p))
    /\ UNCHANGED <<files, orig, sel, scan, rec, call, latest>>

(***************************************************************************)
(* Planning and committing: write_all_preserving_encoding                  *)
(***************************************************************************)
\* Analysis reads the selected files; with nothing to rewrite the run is over,
\* else it first resolves the journals beside the files it is about to write.
PlanFixes(p) ==
    /\ pc[p] = "plan"
    /\ LET fixes == {f \in sel[p] : NeedsFix(disk[f])} IN
          /\ orig' = [orig EXCEPT ![p] = [f \in Paths |->
                         IF f \in fixes THEN disk[f] ELSE Missing]]
          /\ scan' = [scan EXCEPT ![p] = JournalsIn(ParentsOf(fixes))]
          /\ Goto(p, IF fixes = {} THEN "ok" ELSE "recover")
    /\ call' = [call EXCEPT ![p] = "write"]
    /\ UNCHANGED <<files, sel, rec, todo, latest>>

\* ensure_source_is_current: a source that changed or vanished since planning
\* refuses the whole write before anything is touched.
PrepareFile(p) ==
    /\ pc[p] = "prepare"
    /\ \E f \in todo[p] :
          /\ IsFirst(f, todo[p])
          /\ \/ /\ disk[f] = orig[p][f]
                /\ Remaining(p, todo[p] \ {f})
                /\ UNCHANGED pc
             \/ /\ disk[f] # orig[p][f]
                /\ Goto(p, "failed")
                /\ UNCHANGED todo
    /\ UNCHANGED <<files, orig, sel, scan, rec, call, latest>>

EndPrepare(p) ==
    /\ pc[p] = "prepare"
    /\ todo[p] = {}
    /\ Remaining(p, Entries(p))
    /\ Goto(p, "stage")
    /\ UNCHANGED <<files, orig, sel, scan, rec, call, latest>>

StageFile(p) ==
    /\ pc[p] = "stage"
    /\ \E f \in todo[p] :
          /\ IsFirst(f, todo[p])
          /\ staged' = [staged EXCEPT ![p][f] = Fixed[orig[p][f]]]
          /\ Remaining(p, todo[p] \ {f})
          /\ Goto(p, IF todo[p] = {f} THEN "journal" ELSE "stage")
    /\ UNCHANGED <<disk, backup, journal, orig, sel, scan, rec, call, latest>>

WriteJournal(p) ==
    /\ pc[p] = "journal"
    /\ journal' = [journal EXCEPT ![p] = "open"]
    /\ Remaining(p, Entries(p))
    /\ Goto(p, "aside")
    /\ UNCHANGED <<disk, staged, backup, orig, sel, scan, rec, call, latest>>

\* rename(destination, backup); a destination that is gone fails the commit.
MoveAside(p) ==
    /\ pc[p] = "aside"
    /\ \E f \in todo[p] :
          /\ IsFirst(f, todo[p])
          /\ \/ /\ disk[f] # Missing
                /\ backup' = [backup EXCEPT ![p][f] = disk[f]]
                /\ disk' = [disk EXCEPT ![f] = Missing]
                /\ Goto(p, "movein")
             \/ /\ disk[f] = Missing
                /\ Goto(p, "rollback")
                /\ UNCHANGED <<disk, backup>>
    /\ UNCHANGED <<staged, journal, orig, local, latest>>

\* rename(staged, destination), then sync_parent.
MoveIn(p) ==
    /\ pc[p] = "movein"
    /\ \E f \in todo[p] :
          /\ IsFirst(f, todo[p])
          /\ \/ /\ staged[p][f] # Missing
                /\ disk' = [disk EXCEPT ![f] = staged[p][f]]
                /\ staged' = [staged EXCEPT ![p][f] = Missing]
                /\ Remaining(p, todo[p] \ {f})
                /\ Goto(p, IF todo[p] = {f} THEN "commit" ELSE "aside")
             \/ /\ staged[p][f] = Missing
                /\ Goto(p, "rollback")
                /\ UNCHANGED <<disk, staged, todo>>
    /\ UNCHANGED <<backup, journal, orig, sel, scan, rec, call, latest>>

\* Mutant of CommitJournal: the originals go before the journal is committed.
CleanUncommitted(p) ==
    /\ pc[p] = "commit"
    /\ rec' = [rec EXCEPT ![p] = p]
    /\ call' = [call EXCEPT ![p] = "own"]
    /\ Remaining(p, Entries(p))
    /\ Goto(p, "clean")
    /\ UNCHANGED <<files, orig, sel, scan, latest>>

\* The commit point: the rename that puts the committed journal in place.
CommitJournal(p) ==
    /\ pc[p] = "commit"
    /\ journal' = [journal EXCEPT ![p] = "committed"]
    /\ rec' = [rec EXCEPT ![p] = p]
    /\ call' = [call EXCEPT ![p] = "own"]
    /\ Remaining(p, Entries(p))
    /\ Goto(p, "clean")
    /\ UNCHANGED <<disk, staged, backup, orig, sel, scan, latest>>

(***************************************************************************)
(* I/O errors, crashes and editors                                         *)
(***************************************************************************)
\* Before the journal is written an error removes what was staged.  The
\* directory sync that follows the journal's rename may fail too: then the
\* journal file is already there.
StagingError(p) ==
    /\ pc[p] \in {"stage", "journal"}
    /\ staged' = [staged EXCEPT ![p] = Nothing]
    /\ \/ UNCHANGED journal
       \/ pc[p] = "journal" /\ journal' = [journal EXCEPT ![p] = "open"]
    /\ Goto(p, "failed")
    /\ UNCHANGED <<disk, backup, orig, local, latest>>

\* A failing rename, sync or journal write makes the run roll itself back; the
\* sync after the commit point fails with the committed journal in place.
CommitError(p) ==
    /\ pc[p] \in {"aside", "movein", "commit"}
    /\ \/ UNCHANGED journal
       \/ pc[p] = "commit" /\ journal' = [journal EXCEPT ![p] = "committed"]
    /\ Goto(p, "rollback")
    /\ UNCHANGED <<disk, staged, backup, orig, local, latest>>

\* An error while resolving a journal ends the run; in the run's own cleanup
\* it makes the run resolve its (committed) journal once more.  The sync that
\* follows the journal's removal fails with the journal already gone.
ResolveError(p) ==
    /\ pc[p] \in {"recover", "roll", "restore", "replace", "unstage", "clean"}
    /\ \/ UNCHANGED journal
       \/ /\ pc[p] \in {"roll", "clean"}
          /\ todo[p] = {}
          /\ journal' = [journal EXCEPT ![rec[p]] = "none"]
    /\ Goto(p, IF call[p] = "own" THEN "rollback" ELSE "failed")
    /\ UNCHANGED <<disk, staged, backup, orig, local, latest>>

Crash(p) ==
    /\ Live(p)
    /\ Goto(p, "crashed")
    /\ UNCHANGED <<files, orig, local, latest>>

\* The run is about to replace the file at f, having checked it earlier.
Exposed(p, f) ==
    \/ /\ pc[p] \in {"prepare", "stage", "journal", "aside", "movein"}
       /\ f \in Entries(p)
       /\ CASE pc[p] = "prepare" -> f \notin todo[p]
            [] pc[p] \in {"stage", "journal"} -> TRUE
            [] OTHER -> f \in todo[p]
    \/ pc[p] \in {"restore", "replace"} /\ IsLast(f, todo[p])

Save(f, t) ==
    /\ disk[f] # t
    /\ disk' = [disk EXCEPT ![f] = t]
    /\ latest' = [latest EXCEPT ![f] = t]
    /\ UNCHANGED <<staged, backup, journal, orig, pc, local>>

(***************************************************************************)
(* The specifications                                                      *)
(***************************************************************************)
RunStep(p) ==
    \/ OpenJournal(p) \/ OpenOwnJournal(p) \/ RollEntry(p) \/ RemoveFixed(p)
    \/ RenameBackup(p) \/ RemoveStaged(p) \/ CleanEntry(p) \/ RemoveJournal(p)
    \/ EndRecovery(p) \/ PlanFixes(p) \/ PrepareFile(p) \/ EndPrepare(p)
    \/ StageFile(p) \/ WriteJournal(p) \/ MoveAside(p) \/ MoveIn(p)
    \/ CommitJournal(p)

Failure(p) == StagingError(p) \/ CommitError(p) \/ ResolveError(p) \/ Crash(p)

\* A run at a time, and no editor saves a file in the moment a run replaces it.
Next ==
    \/ \E p \in Runs :
          \/ StartRun(p) /\ \A q \in Runs : ~ Live(q)
          \/ RunStep(p)
          \/ Failure(p)
    \/ \E f \in Paths, t \in UserTexts :
          Save(f, t) /\ \A p \in Runs : ~ Exposed(p, f)

Spec == Init /\ [][Next]_vars

(***************************************************************************)
(* Properties                                                              *)
(***************************************************************************)
\* The text a person last saved is never lost: the file holds it or its fixed
\* form, or some backup still does (fix.rs recover_journal, issue #1117).
LatestSurvives ==
    \A f \in Paths :
        \/ disk[f] \in {latest[f], Fixed[latest[f]]}
        \/ \E p \in Runs : backup[p][f] = latest[f]

\* An original moved aside is always covered by a journal that a later run can
\* resolve: no crash or error strands it (fix.rs commit_prepared_fixes).
NoOrphanBackup ==
    \A p \in Runs, f \in Paths :
        backup[p][f] # Missing => journal[p] # "none" /\ f \in Entries(p)

\* A step of a run takes a text a person saved away from its path only by
\* keeping it as a backup (fix.rs backup_must_be_restored).
SavedTextOnlyMovesAside ==
    [][\A f \in Paths :
          disk[f] \in UserTexts /\ disk'[f] # disk[f] /\ latest' = latest =>
              \E p \in Runs : backup'[p][f] = disk[f]]_vars

\* Recovery leaves no path without a file: when a run over everything has
\* resolved what crashed runs left and goes on to analysis, every destination
\* is back (fix.rs backup_must_be_restored: "restoring it is mandatory").
MissingIsRestored ==
    \A p \in Runs :
        pc[p] = "plan" /\ sel[p] = Paths => \A f \in Paths : disk[f] # Missing

\* The same where the recovery can see the directory: a path is left without a
\* file only if it is the one Python file of its directory.
SharedIsRestored ==
    \A p \in Runs : pc[p] = "plan" /\ sel[p] = Paths =>
        \A f, g \in Paths : DirOf[f] = DirOf[g] /\ f # g => disk[f] # Missing

(***************************************************************************)
(* The inductive invariant behind NoOrphanBackup                           *)
(***************************************************************************)
\* Only one run is ever at work.
OneLive == \A p, q \in Runs : Live(p) /\ Live(q) => p = q

\* A run has no journal of its own before it plans its fixes, and plans them
\* only at the end of the first recovery.
JournalAfterPlan ==
    \A p \in Runs :
        /\ call[p] = "startup" => journal[p] = "none"
        /\ pc[p] \in {"idle", "plan"} => call[p] = "startup"
        /\ pc[p] = "recover" => call[p] \in {"startup", "write"}
        /\ pc[p] \in {"prepare", "stage", "journal", "aside", "movein", "commit"}
              => call[p] = "write"

\* A run stages and moves only files of its plan.
PlannedTodo ==
    \A p \in Runs : pc[p] \in {"prepare", "stage", "aside", "movein"} =>
        todo[p] \subseteq Entries(p)

\* While it moves files a run has its journal in place.
MovesAreJournaled ==
    \A p \in Runs :
        pc[p] \in {"aside", "movein", "commit"} => journal[p] = "open"

\* The loops that resolve a journal leave no backup of an entry behind them.
ResolvedBehind ==
    \A p \in Runs :
        /\ pc[p] \in {"roll", "restore", "replace", "unstage", "clean"} =>
              \A f \in Paths \ todo[p] : backup[rec[p]][f] = Missing
        /\ pc[p] = "unstage" =>
              \A f \in todo[p] :
                  IsLast(f, todo[p]) => backup[rec[p]][f] = Missing

IInv ==
    /\ TypeOK
    /\ OneLive
    /\ PlannedTodo
    /\ JournalAfterPlan
    /\ MovesAreJournaled
    /\ ResolvedBehind
    /\ NoOrphanBackup

(***************************************************************************)
(* The abstract view: what each file holds once recovery has run           *)
(***************************************************************************)
Pending(q, f) ==
    journal[q] = "open" /\ backup[q][f] # Missing /\ MustRestore(q, f)

view == [f \in Paths |->
            IF \E q \in Runs : Pending(q, f)
            THEN backup[CHOOSE q \in Runs : Pending(q, f)][f]
            ELSE disk[f]]

\* What a run that may still commit is going to fix: the entries that nobody
\* has saved since it moved them.
plan == [p \in Runs |->
            IF pc[p] \in {"aside", "movein", "commit"}
            THEN {f \in Entries(p) : backup[p][f] # Missing => MustRestore(p, f)}
            ELSE {}]

Atomic == INSTANCE AtomicFix WITH view <- view, plan <- plan

\* With crashes and errors wherever they fall, a run of the fixer is one atomic
\* change of all the files of its plan, or no change at all (fix.rs
\* write_all_preserving_encoding).
CommitIsAtomic == Atomic!Spec

(***************************************************************************)
(* The inductive invariant behind CommitIsAtomic, LatestSurvives and       *)
(* SharedIsRestored, where every run is given the same selection           *)
(***************************************************************************)
Resolving(p) == pc[p] \in {"roll", "restore", "replace", "unstage", "clean"}
Writing(p) == pc[p] \in {"prepare", "stage", "journal", "aside", "movein", "commit"}
Moved(q, f) == backup[q][f] # Missing

\* A run plans files of its selection that have something to fix; what it stages
\* is what it planned, fixed, and what it moves aside is what it planned.
PlannedFixes ==
    \A p \in Runs :
        /\ pc[p] # "idle" => sel[p] \in Selections
        /\ \A s \in Selections : Entries(p) \subseteq s
        /\ \A f \in Paths :
              /\ f \in Entries(p) => NeedsFix(orig[p][f])
              /\ staged[p][f] # Missing =>
                    f \in Entries(p) /\ staged[p][f] = Fixed[orig[p][f]]
              /\ Moved(p, f) => backup[p][f] = orig[p][f]

\* A run has nothing staged until it has planned, and no journal until it moves
\* files; then it has resolved all that it listed.
NotYetWritten ==
    \A p \in Runs :
        /\ call[p] = "startup" => \A f \in Paths : staged[p][f] = Missing
        /\ pc[p] \in {"recover", "prepare", "stage", "journal"}
              \/ (Resolving(p) /\ call[p] \in {"startup", "write"}) => journal[p] = "none"
        /\ Writing(p) \/ pc[p] = "plan" => scan[p] = {}

\* While a journal is resolved it stays what it was when it was read, and the entry
\* at hand stays as it was found.
ResolvesAsRead ==
    \A p \in Runs :
        /\ Resolving(p) =>
              /\ todo[p] \subseteq Entries(rec[p])
              /\ journal[rec[p]] = IF pc[p] = "clean" THEN "committed" ELSE "open"
        /\ pc[p] \in {"restore", "replace"} => \A f \in Paths : IsLast(f, todo[p]) =>
              /\ Moved(rec[p], f)
              /\ disk[f] = IF pc[p] = "replace" THEN Missing
                            ELSE Fixed[orig[rec[p]][f]]

\* From the check of a source until it is moved, the file is what was planned; the
\* files moved before have something in their place, in the journal's order.
MovesInOrder ==
    \A p \in Runs :
        /\ pc[p] \in {"prepare", "stage", "journal"} => \A f \in Entries(p) :
              (pc[p] = "prepare" /\ f \in todo[p]) \/ disk[f] = orig[p][f]
        /\ pc[p] = "commit" => todo[p] = {}
        /\ pc[p] \in {"aside", "movein", "commit"} =>
              /\ \A f \in Entries(p) \ todo[p] : Moved(p, f) /\ disk[f] # Missing
              /\ \A f \in Entries(p) \ todo[p], g \in todo[p] : f < g
              /\ todo[p] = Entries(p) \/ \E f \in Paths : IsFirst(f, Entries(p))
              /\ \A f \in todo[p] :
                    IF pc[p] = "movein" /\ IsFirst(f, todo[p])
                    THEN disk[f] = Missing /\ Moved(p, f)
                    ELSE disk[f] = orig[p][f] /\ ~ Moved(p, f)

\* A file is missing only at the last entry a journal has a backup of, so that
\* the journal is found beside its first entry or has no other backup.
LastIsMissing ==
    \A q \in Runs, g \in Paths : Moved(q, g) =>
        /\ \E f \in Paths : IsFirst(f, Entries(q))
        /\ \A f \in Entries(q) : f < g => disk[f] # Missing

\* Two journals never keep backups of the same directory, and one that another
\* went past has a backup of its first entry at most.
Separate ==
    \A q, r \in Runs, f, g \in Paths :
        q # r /\ Moved(q, f) /\ Moved(r, g) =>
            /\ DirOf[f] # DirOf[g]
            /\ g \in Entries(q) => IsFirst(f, Entries(q))

\* The journals a recovery still has before it.
Ahead(p, q) == q \in scan[p] \/ (Resolving(p) /\ rec[p] = q)

\* What the first recovery goes past has a backup of its first entry at most, so
\* that the second one, beside the files about to be written, misses nothing.
RecoveryIsEnough ==
    \A p, q \in Runs, g \in Paths :
        p # q /\ Moved(q, g) /\ call[p] \in {"startup", "write"} =>
            /\ pc[p] = "plan" \/ (call[p] = "startup" /\ (pc[p] = "recover" \/ Resolving(p))) =>
                  Ahead(p, q) \/ IsFirst(g, Entries(q))
            /\ Writing(p) \/ (call[p] = "write" /\ (pc[p] = "recover" \/ Resolving(p))) =>
                  /\ IsFirst(g, Entries(q))
                  /\ Ahead(p, q) \/ \A f \in Entries(p) : DirOf[f] # DirOf[g]

\* Once recovery has run, a file is what was saved last, or what the fixer made
\* of it.
ViewIsLatest ==
    \A f \in Paths : view[f] \in Texts /\ (view[f] \in UserTexts => view[f] = latest[f])

\* The first recovery of a run over everything has still to come to the journal of
\* a missing file that is not alone in its directory.
SharedAhead ==
    \A p \in Runs, f, g \in Paths :
        call[p] = "startup" /\ (pc[p] \in {"recover", "plan"} \/ Resolving(p))
        /\ sel[p] = Paths /\ DirOf[f] = DirOf[g] /\ f # g /\ disk[f] = Missing
        => \E q \in Runs : Ahead(p, q) /\ Pending(q, f)

AInv ==
    /\ IInv
    /\ PlannedFixes /\ NotYetWritten /\ ResolvesAsRead /\ MovesInOrder
    /\ LastIsMissing /\ Separate /\ RecoveryIsEnough
    /\ ViewIsLatest /\ SharedAhead
=============================================================================
