-------------------------- MODULE FixJournalProofs --------------------------
(***************************************************************************)
(* Proofs about FixJournal, for any set of files, directories, runs and    *)
(* texts.  The first part is its type invariant and NoOrphanBackup, which  *)
(* is not inductive by itself: IInv adds that one run is at work, that a   *)
(* run has a journal only once it has planned, that it moves files only    *)
(* under its journal, and that the resolving loops leave no backup behind  *)
(* them.  The second part is AInv and the refinement of AtomicFix.         *)
(***************************************************************************)
EXTENDS FixJournal, TLAPS

\* The first and the last of a set of paths are unique (paths are ordered).
LEMMA LastUnique ==
    ASSUME NEW S \in SUBSET Paths, NEW f, NEW g, IsLast(f, S), IsLast(g, S)
    PROVE  f = g
  BY OrderAssumption DEF IsLast

(***************************************************************************)
(* Type correctness                                                        *)
(***************************************************************************)
\* Moving to a label, and changing one file of one run, keep the types.
LEMMA GotoType ==
    ASSUME pc \in [Runs -> Labels], NEW p \in Runs,
           UNCHANGED pc \/ \E l \in Labels : Goto(p, l)
    PROVE  pc' \in [Runs -> Labels]
  BY DEF Goto

\* What remains of a loop is a set of paths.
LEMMA TodoType ==
    ASSUME todo \in [Runs -> SUBSET Paths], NEW p \in Runs,
           UNCHANGED todo \/ \E S \in SUBSET Paths : Remaining(p, S)
    PROVE  todo' \in [Runs -> SUBSET Paths]
  BY DEF Remaining

\* Changing one file of one run's row keeps the type of the table.
LEMMA UpdateType ==
    ASSUME NEW F \in [Runs -> [Paths -> Contents]], NEW q \in Runs,
           NEW f \in Paths, NEW c \in Contents
    PROVE  [F EXCEPT ![q][f] = c] \in [Runs -> [Paths -> Contents]]
  OBVIOUS

\* The state before the first run is well typed.
LEMMA InitType == Init => TypeOK
  BY UserTextAssumption DEF Init, TypeOK, Contents, Labels, Calls, Nothing

\* The steps that resolve journals keep the types.
LEMMA ResolveType ==
    ASSUME TypeOK, NEW p \in Runs,
           StartRun(p) \/ OpenJournal(p) \/ OpenOwnJournal(p) \/ RollEntry(p)
           \/ RemoveFixed(p) \/ RenameBackup(p) \/ RemoveStaged(p)
           \/ CleanEntry(p) \/ RemoveJournal(p) \/ EndRecovery(p)
    PROVE  TypeOK'
  <1> USE DEF TypeOK, files, local
  <1>1. CASE StartRun(p)
    <2>1. \E l \in Labels : Goto(p, l)
      BY <1>1 DEF StartRun, Labels
    <2>2. call' \in [Runs -> Calls]
      BY <1>1 DEF StartRun, Calls
    <2>3. sel' \in [Runs -> SUBSET Paths] /\ scan' \in [Runs -> SUBSET Runs]
      BY <1>1, SelectionAssumption DEF StartRun, JournalsIn
    <2> QED
      BY <1>1, <2>1, <2>2, <2>3, GotoType DEF StartRun
  <1>2. CASE OpenJournal(p)
    <2>1. PICK q \in scan[p] :
              /\ rec' = [rec EXCEPT ![p] = q]
              /\ Remaining(p, Entries(q))
              /\ scan' = [scan EXCEPT ![p] = @ \ {q}]
              /\ \E l \in {"failed", "roll", "clean"} : Goto(p, l)
      BY <1>2 DEF OpenJournal
    <2>2. q \in Runs /\ Entries(q) \in SUBSET Paths
      BY DEF Entries
    <2>3. rec' \in [Runs -> Runs] /\ scan' \in [Runs -> SUBSET Runs]
      BY <2>1, <2>2
    <2>4. \E l \in Labels : Goto(p, l)
      BY <2>1 DEF Labels
    <2> QED
      BY <1>2, <2>1, <2>2, <2>3, <2>4, GotoType, TodoType DEF OpenJournal
  <1>3. CASE OpenOwnJournal(p)
    <2>1. \E l \in Labels : Goto(p, l)
      BY <1>3 DEF OpenOwnJournal, Labels
    <2>2. Entries(p) \in SUBSET Paths
      BY DEF Entries
    <2>3. call' \in [Runs -> Calls] /\ rec' \in [Runs -> Runs]
      BY <1>3 DEF OpenOwnJournal, Calls
    <2> QED
      BY <1>3, <2>1, <2>2, <2>3, GotoType, TodoType DEF OpenOwnJournal
  <1>4. CASE RollEntry(p)
    <2>1. \E l \in Labels : Goto(p, l)
      BY <1>4 DEF RollEntry, Labels
    <2>2. \/ UNCHANGED backup
          \/ \E f \in Paths : backup' = [backup EXCEPT ![rec[p]][f] = Missing]
      BY <1>4 DEF RollEntry
    <2>3. CASE UNCHANGED backup
      BY <1>4, <2>1, <2>3, GotoType DEF RollEntry
    <2>4. CASE \E f \in Paths : backup' = [backup EXCEPT ![rec[p]][f] = Missing]
      <3>1. backup' \in [Runs -> [Paths -> Contents]]
        BY <2>4, UpdateType DEF Contents
      <3> QED
        BY <1>4, <2>1, <3>1, GotoType DEF RollEntry
    <2> QED
      BY <2>2, <2>3, <2>4
  <1>5. CASE RemoveFixed(p)
    <2>1. \E l \in Labels : Goto(p, l)
      BY <1>5 DEF RemoveFixed, Labels
    <2>2. disk' \in [Paths -> Contents]
      BY <1>5 DEF RemoveFixed, Contents
    <2> QED
      BY <1>5, <2>1, <2>2, GotoType DEF RemoveFixed
  <1>6. CASE RenameBackup(p)
    <2>1. \E l \in Labels : Goto(p, l)
      BY <1>6 DEF RenameBackup, Labels
    <2>2. PICK f \in todo[p] :
              /\ disk' = [disk EXCEPT ![f] = backup[rec[p]][f]]
              /\ backup' = [backup EXCEPT ![rec[p]][f] = Missing]
      BY <1>6 DEF RenameBackup
    <2>3. f \in Paths /\ rec[p] \in Runs
      OBVIOUS
    <2>4. disk' \in [Paths -> Contents]
      BY <2>2, <2>3
    <2>5. backup' \in [Runs -> [Paths -> Contents]]
      BY <2>2, <2>3, UpdateType DEF Contents
    <2> QED
      BY <1>6, <2>1, <2>4, <2>5, GotoType DEF RenameBackup
  <1>7. CASE RemoveStaged(p)
    <2>1. \E l \in Labels : Goto(p, l)
      BY <1>7 DEF RemoveStaged, Labels
    <2>2. PICK f \in todo[p] :
              /\ staged' = [staged EXCEPT ![rec[p]][f] = Missing]
              /\ Remaining(p, todo[p] \ {f})
      BY <1>7 DEF RemoveStaged
    <2>3. f \in Paths /\ rec[p] \in Runs /\ todo[p] \ {f} \in SUBSET Paths
      OBVIOUS
    <2>4. staged' \in [Runs -> [Paths -> Contents]]
      BY <2>2, <2>3, UpdateType DEF Contents
    <2> QED
      BY <1>7, <2>1, <2>2, <2>3, <2>4, GotoType, TodoType DEF RemoveStaged
  <1>8. CASE CleanEntry(p)
    <2>1. PICK f \in todo[p] :
              /\ backup' = [backup EXCEPT ![rec[p]][f] = Missing]
              /\ staged' = [staged EXCEPT ![rec[p]][f] = Missing]
              /\ Remaining(p, todo[p] \ {f})
      BY <1>8 DEF CleanEntry
    <2>2. f \in Paths /\ rec[p] \in Runs /\ todo[p] \ {f} \in SUBSET Paths
      OBVIOUS
    <2>3. backup' \in [Runs -> [Paths -> Contents]]
      BY <2>1, <2>2, UpdateType DEF Contents
    <2>4. staged' \in [Runs -> [Paths -> Contents]]
      BY <2>1, <2>2, UpdateType DEF Contents
    <2> QED
      BY <1>8, <2>1, <2>2, <2>3, <2>4, TodoType DEF CleanEntry
  <1>9. CASE RemoveJournal(p)
    <2>1. AfterJournal(p) \in Labels
      BY DEF AfterJournal, Calls, Labels
    <2>2. journal' \in [Runs -> {"none", "open", "committed"}]
      BY <1>9 DEF RemoveJournal
    <2> QED
      BY <1>9, <2>1, <2>2, GotoType DEF RemoveJournal
  <1>10. CASE EndRecovery(p)
    <2>1. \E l \in Labels : Goto(p, l)
      BY <1>10 DEF EndRecovery, Labels
    <2>2. UNCHANGED todo \/ Remaining(p, Entries(p))
      BY <1>10 DEF EndRecovery
    <2>3. Entries(p) \in SUBSET Paths
      BY DEF Entries
    <2> QED
      BY <1>10, <2>1, <2>2, <2>3, GotoType, TodoType DEF EndRecovery
  <1>11. QED
    BY <1>1, <1>2, <1>3, <1>4, <1>5, <1>6, <1>7, <1>8, <1>9, <1>10

\* The steps that plan and commit keep the types: what a run stages are fixed
\* forms of the texts it planned to rewrite.
LEMMA CommitType ==
    ASSUME TypeOK, PlannedTodo, NEW p \in Runs,
           PlanFixes(p) \/ PrepareFile(p) \/ EndPrepare(p) \/ StageFile(p)
           \/ WriteJournal(p) \/ MoveAside(p) \/ MoveIn(p) \/ CommitJournal(p)
    PROVE  TypeOK'
  <1> USE DEF TypeOK, files, local
  <1>0. Entries(p) \in SUBSET Paths
    BY DEF Entries
  <1>1. CASE PlanFixes(p)
    <2> DEFINE fixes == {f \in sel[p] : NeedsFix(disk[f])}
               planned == [f \in Paths |->
                              IF f \in fixes THEN disk[f] ELSE Missing]
    <2>1. /\ orig' = [orig EXCEPT ![p] = planned]
          /\ scan' = [scan EXCEPT ![p] = JournalsIn(ParentsOf(fixes))]
      BY <1>1 DEF PlanFixes
    <2>2. planned \in [Paths -> Contents]
      BY DEF Contents
    <2>3. JournalsIn(ParentsOf(fixes)) \subseteq Runs
      BY DEF JournalsIn
    <2>4. orig' \in [Runs -> [Paths -> Contents]]
      BY <2>1, <2>2
    <2>5. scan' \in [Runs -> SUBSET Runs]
      BY <2>1, <2>3
    <2>6. \E l \in Labels : Goto(p, l)
      BY <1>1 DEF PlanFixes, Labels
    <2>7. call' \in [Runs -> Calls]
      BY <1>1 DEF PlanFixes, Calls
    <2> QED
      BY <1>1, <2>4, <2>5, <2>6, <2>7, GotoType DEF PlanFixes
  <1>2. CASE PrepareFile(p)
    <2>1. UNCHANGED pc \/ \E l \in Labels : Goto(p, l)
      BY <1>2 DEF PrepareFile, Labels
    <2>2. UNCHANGED todo \/ \E f \in Paths : Remaining(p, todo[p] \ {f})
      BY <1>2 DEF PrepareFile
    <2>3. UNCHANGED todo \/ \E S \in SUBSET Paths : Remaining(p, S)
      BY <2>2
    <2> QED
      BY <1>2, <2>1, <2>3, GotoType, TodoType DEF PrepareFile
  <1>3. CASE EndPrepare(p)
    <2>1. \E l \in Labels : Goto(p, l)
      BY <1>3 DEF EndPrepare, Labels
    <2> QED
      BY <1>3, <1>0, <2>1, GotoType, TodoType DEF EndPrepare
  <1>4. CASE StageFile(p)
    <2>1. PICK f \in todo[p] :
              /\ staged' = [staged EXCEPT ![p][f] = Fixed[orig[p][f]]]
              /\ Remaining(p, todo[p] \ {f})
      BY <1>4 DEF StageFile
    <2>2. f \in Paths /\ todo[p] \ {f} \in SUBSET Paths
      OBVIOUS
    <2>3. orig[p][f] # Missing
      BY <1>4 DEF StageFile, PlannedTodo, Entries
    <2>4. Fixed[orig[p][f]] \in Contents
      BY <2>2, <2>3, FixedAssumption DEF Contents
    <2>5. staged' \in [Runs -> [Paths -> Contents]]
      BY <2>1, <2>2, <2>4, UpdateType
    <2>6. \E l \in Labels : Goto(p, l)
      BY <1>4 DEF StageFile, Labels
    <2> QED
      BY <1>4, <2>1, <2>2, <2>5, <2>6, GotoType, TodoType DEF StageFile
  <1>5. CASE WriteJournal(p)
    <2>1. \E l \in Labels : Goto(p, l)
      BY <1>5 DEF WriteJournal, Labels
    <2>2. journal' \in [Runs -> {"none", "open", "committed"}]
      BY <1>5 DEF WriteJournal
    <2> QED
      BY <1>5, <1>0, <2>1, <2>2, GotoType, TodoType DEF WriteJournal
  <1>6. CASE MoveAside(p)
    <2>1. \E l \in Labels : Goto(p, l)
      BY <1>6 DEF MoveAside, Labels
    <2>2. CASE UNCHANGED <<disk, backup>>
      BY <1>6, <2>1, <2>2, GotoType DEF MoveAside
    <2>3. CASE \E f \in Paths :
                  /\ backup' = [backup EXCEPT ![p][f] = disk[f]]
                  /\ disk' = [disk EXCEPT ![f] = Missing]
      <3>1. backup' \in [Runs -> [Paths -> Contents]]
        BY <2>3, UpdateType
      <3>2. disk' \in [Paths -> Contents]
        BY <2>3 DEF Contents
      <3> QED
        BY <1>6, <2>1, <3>1, <3>2, GotoType DEF MoveAside
    <2> QED
      BY <1>6, <2>2, <2>3 DEF MoveAside
  <1>7. CASE MoveIn(p)
    <2>1. \E l \in Labels : Goto(p, l)
      BY <1>7 DEF MoveIn, Labels
    <2>2. CASE UNCHANGED <<disk, staged, todo>>
      BY <1>7, <2>1, <2>2, GotoType DEF MoveIn
    <2>3. CASE \E f \in Paths :
                  /\ disk' = [disk EXCEPT ![f] = staged[p][f]]
                  /\ staged' = [staged EXCEPT ![p][f] = Missing]
                  /\ Remaining(p, todo[p] \ {f})
      <3>1. staged' \in [Runs -> [Paths -> Contents]]
        BY <2>3, UpdateType DEF Contents
      <3>2. disk' \in [Paths -> Contents]
        BY <2>3
      <3>3. \E S \in SUBSET Paths : Remaining(p, S)
        BY <2>3
      <3> QED
        BY <1>7, <2>1, <3>1, <3>2, <3>3, GotoType, TodoType DEF MoveIn
    <2> QED
      BY <1>7, <2>2, <2>3 DEF MoveIn
  <1>8. CASE CommitJournal(p)
    <2>1. \E l \in Labels : Goto(p, l)
      BY <1>8 DEF CommitJournal, Labels
    <2>2. /\ journal' \in [Runs -> {"none", "open", "committed"}]
          /\ rec' \in [Runs -> Runs]
      BY <1>8 DEF CommitJournal
    <2>3. call' \in [Runs -> Calls]
      BY <1>8 DEF CommitJournal, Calls
    <2> QED
      BY <1>8, <1>0, <2>1, <2>2, <2>3, GotoType, TodoType DEF CommitJournal
  <1>9. QED
    BY <1>1, <1>2, <1>3, <1>4, <1>5, <1>6, <1>7, <1>8

\* I/O errors, crashes and saved files keep the types.
LEMMA FailureType ==
    ASSUME TypeOK, NEW p \in Runs, Failure(p)
    PROVE  TypeOK'
  <1> USE DEF TypeOK, files, local
  <1>1. CASE StagingError(p)
    <2>1. \E l \in Labels : Goto(p, l)
      BY <1>1 DEF StagingError, Labels
    <2>2. Nothing \in [Paths -> Contents]
      BY DEF Nothing, Contents
    <2>3. staged' \in [Runs -> [Paths -> Contents]]
      BY <1>1, <2>2 DEF StagingError
    <2>4. journal' \in [Runs -> {"none", "open", "committed"}]
      BY <1>1 DEF StagingError
    <2> QED
      BY <1>1, <2>1, <2>3, <2>4, GotoType DEF StagingError
  <1>2. CASE CommitError(p)
    <2>1. \E l \in Labels : Goto(p, l)
      BY <1>2 DEF CommitError, Labels
    <2>2. journal' \in [Runs -> {"none", "open", "committed"}]
      BY <1>2 DEF CommitError
    <2> QED
      BY <1>2, <2>1, <2>2, GotoType DEF CommitError
  <1>3. CASE ResolveError(p)
    <2>1. \E l \in Labels : Goto(p, l)
      BY <1>3 DEF ResolveError, Labels
    <2>2. journal' \in [Runs -> {"none", "open", "committed"}]
      BY <1>3 DEF ResolveError
    <2> QED
      BY <1>3, <2>1, <2>2, GotoType DEF ResolveError
  <1>4. CASE Crash(p)
    <2>1. \E l \in Labels : Goto(p, l)
      BY <1>4 DEF Crash, Labels
    <2> QED
      BY <1>4, <2>1, GotoType DEF Crash
  <1>5. QED
    BY <1>1, <1>2, <1>3, <1>4 DEF Failure

\* A file saved by a person keeps the types.
LEMMA SaveType ==
    ASSUME TypeOK, NEW f \in Paths, NEW t \in UserTexts, Save(f, t)
    PROVE  TypeOK'
  BY UserTextAssumption DEF Save, TypeOK, files, local, Contents

\* Every step keeps the types.
LEMMA NextType == TypeOK /\ PlannedTodo /\ [Next]_vars => TypeOK'
  <1> SUFFICES ASSUME TypeOK, PlannedTodo, [Next]_vars PROVE TypeOK'
    OBVIOUS
  <1>1. CASE UNCHANGED vars
    BY <1>1 DEF vars, TypeOK
  <1>2. ASSUME NEW p \in Runs, StartRun(p) \/ RunStep(p) PROVE TypeOK'
    BY <1>2, ResolveType, CommitType DEF RunStep
  <1>3. ASSUME NEW p \in Runs, Failure(p) PROVE TypeOK'
    BY <1>3, FailureType
  <1>4. ASSUME NEW f \in Paths, NEW t \in UserTexts, Save(f, t) PROVE TypeOK'
    BY <1>4, SaveType
  <1>5. QED
    BY <1>1, <1>2, <1>3, <1>4 DEF Next

(***************************************************************************)
(* The inductive invariant                                                 *)
(***************************************************************************)
\* A run starts only when no other is at work.
LEMMA OneLiveStep ==
    ASSUME TypeOK, OneLive, NEW p \in Runs,
           (StartRun(p) /\ \A q \in Runs : ~ Live(q)) \/ RunStep(p) \/ Failure(p)
    PROVE  OneLive'
  <1> USE DEF TypeOK, files, local, Goto, Remaining, OneLive
  <1>1. CASE StartRun(p) /\ \A q \in Runs : ~ Live(q)
    BY <1>1 DEF StartRun, Live
  <1>2. CASE OpenJournal(p)
    <2>1. Live(p)
      BY <1>2 DEF OpenJournal, Live
    <2>2. \A q \in Runs \ {p} : pc'[q] = pc[q]
      BY <1>2 DEF OpenJournal
    <2> QED
      BY <2>1, <2>2 DEF Live
  <1>3. CASE OpenOwnJournal(p)
    <2>1. Live(p)
      BY <1>3 DEF OpenOwnJournal, Live
    <2>2. \A q \in Runs \ {p} : pc'[q] = pc[q]
      BY <1>3 DEF OpenOwnJournal
    <2> QED
      BY <2>1, <2>2 DEF Live
  <1>4. CASE RollEntry(p)
    <2>1. Live(p)
      BY <1>4 DEF RollEntry, Live
    <2>2. \A q \in Runs \ {p} : pc'[q] = pc[q]
      BY <1>4 DEF RollEntry
    <2> QED
      BY <2>1, <2>2 DEF Live
  <1>5. CASE RemoveFixed(p)
    BY <1>5 DEF RemoveFixed, Live
  <1>6. CASE RenameBackup(p)
    BY <1>6 DEF RenameBackup, Live
  <1>7. CASE RemoveStaged(p)
    BY <1>7 DEF RemoveStaged, Live
  <1>8. CASE CleanEntry(p)
    BY <1>8 DEF CleanEntry, Live
  <1>9. CASE RemoveJournal(p)
    BY <1>9 DEF RemoveJournal, Live
  <1>10. CASE EndRecovery(p)
    BY <1>10 DEF EndRecovery, Live
  <1>11. CASE PlanFixes(p)
    BY <1>11 DEF PlanFixes, Live
  <1>12. CASE PrepareFile(p)
    BY <1>12 DEF PrepareFile, Live
  <1>13. CASE EndPrepare(p)
    BY <1>13 DEF EndPrepare, Live
  <1>14. CASE StageFile(p)
    BY <1>14 DEF StageFile, Live
  <1>15. CASE WriteJournal(p)
    BY <1>15 DEF WriteJournal, Live
  <1>16. CASE MoveAside(p)
    BY <1>16 DEF MoveAside, Live
  <1>17. CASE MoveIn(p)
    BY <1>17 DEF MoveIn, Live
  <1>18. CASE CommitJournal(p)
    BY <1>18 DEF CommitJournal, Live
  <1>19. CASE StagingError(p)
    BY <1>19 DEF StagingError, Live
  <1>20. CASE CommitError(p)
    BY <1>20 DEF CommitError, Live
  <1>21. CASE ResolveError(p)
    BY <1>21 DEF ResolveError, Live
  <1>22. CASE Crash(p)
    BY <1>22 DEF Crash, Live
  <1>23. QED
    BY <1>1, <1>2, <1>3, <1>4, <1>5, <1>6, <1>7, <1>8, <1>9, <1>10, <1>11,
       <1>12, <1>13, <1>14, <1>15, <1>16, <1>17, <1>18, <1>19, <1>20, <1>21,
       <1>22 DEF RunStep, Failure

\* Every loop starts from the entries of the plan and only shrinks.
LEMMA PlannedTodoStep ==
    ASSUME TypeOK, PlannedTodo, NEW p \in Runs,
           (StartRun(p) /\ \A q \in Runs : ~ Live(q)) \/ RunStep(p) \/ Failure(p)
    PROVE  PlannedTodo'
  <1> USE DEF TypeOK, files, local, Goto, Remaining, PlannedTodo,
             Entries
  <1>1. CASE StartRun(p) /\ \A q \in Runs : ~ Live(q)
    BY <1>1 DEF StartRun
  <1>2. CASE OpenJournal(p)
    BY <1>2 DEF OpenJournal
  <1>3. CASE OpenOwnJournal(p)
    <2>1. pc'[p] \notin {"prepare", "stage", "aside", "movein"}
      BY <1>3 DEF OpenOwnJournal
    <2>2. \A q \in Runs \ {p} : pc'[q] = pc[q] /\ todo'[q] = todo[q]
      BY <1>3 DEF OpenOwnJournal
    <2>3. orig' = orig
      BY <1>3 DEF OpenOwnJournal
    <2> QED
      BY <2>1, <2>2, <2>3
  <1>4. CASE RollEntry(p)
    <2>1. pc'[p] \notin {"prepare", "stage", "aside", "movein"}
      BY <1>4 DEF RollEntry
    <2>2. \A q \in Runs \ {p} : pc'[q] = pc[q]
      BY <1>4 DEF RollEntry
    <2>3. orig' = orig /\ todo' = todo
      BY <1>4 DEF RollEntry
    <2> QED
      BY <2>1, <2>2, <2>3
  <1>5. CASE RemoveFixed(p)
    BY <1>5 DEF RemoveFixed
  <1>6. CASE RenameBackup(p)
    BY <1>6 DEF RenameBackup
  <1>7. CASE RemoveStaged(p)
    BY <1>7 DEF RemoveStaged
  <1>8. CASE CleanEntry(p)
    BY <1>8 DEF CleanEntry
  <1>9. CASE RemoveJournal(p)
    BY <1>9 DEF RemoveJournal
  <1>10. CASE EndRecovery(p)
    <2>1. todo'[p] \subseteq todo[p] \/ todo'[p] = Entries(p)
      BY <1>10 DEF EndRecovery
    <2>2. (pc[p] = "recover" /\ pc'[p] = "plan") \/ todo'[p] \subseteq Entries(p)
      BY <1>10, <2>1 DEF EndRecovery
    <2>3. \A q \in Runs \ {p} : pc'[q] = pc[q] /\ todo'[q] = todo[q]
      BY <1>10 DEF EndRecovery
    <2>4. orig' = orig
      BY <1>10 DEF EndRecovery
    <2> QED
      BY <2>2, <2>3, <2>4
  <1>11. CASE PlanFixes(p)
    BY <1>11 DEF PlanFixes
  <1>12. CASE PrepareFile(p)
    <2>1. todo'[p] \subseteq todo[p] \/ todo'[p] = Entries(p)
      BY <1>12 DEF PrepareFile
    <2>2. (pc[p] = "recover" /\ pc'[p] = "plan") \/ todo'[p] \subseteq Entries(p)
      BY <1>12, <2>1 DEF PrepareFile
    <2>3. \A q \in Runs \ {p} : pc'[q] = pc[q] /\ todo'[q] = todo[q]
      BY <1>12 DEF PrepareFile
    <2>4. orig' = orig
      BY <1>12 DEF PrepareFile
    <2> QED
      BY <2>2, <2>3, <2>4
  <1>13. CASE EndPrepare(p)
    BY <1>13 DEF EndPrepare
  <1>14. CASE StageFile(p)
    BY <1>14 DEF StageFile
  <1>15. CASE WriteJournal(p)
    BY <1>15 DEF WriteJournal
  <1>16. CASE MoveAside(p)
    BY <1>16 DEF MoveAside
  <1>17. CASE MoveIn(p)
    <2>1. todo'[p] \subseteq todo[p] \/ todo'[p] = Entries(p)
      BY <1>17 DEF MoveIn
    <2>2. (pc[p] = "recover" /\ pc'[p] = "plan") \/ todo'[p] \subseteq Entries(p)
      BY <1>17, <2>1 DEF MoveIn
    <2>3. \A q \in Runs \ {p} : pc'[q] = pc[q] /\ todo'[q] = todo[q]
      BY <1>17 DEF MoveIn
    <2>4. orig' = orig
      BY <1>17 DEF MoveIn
    <2> QED
      BY <2>2, <2>3, <2>4
  <1>18. CASE CommitJournal(p)
    BY <1>18 DEF CommitJournal
  <1>19. CASE StagingError(p)
    BY <1>19 DEF StagingError
  <1>20. CASE CommitError(p)
    BY <1>20 DEF CommitError
  <1>21. CASE ResolveError(p)
    BY <1>21 DEF ResolveError
  <1>22. CASE Crash(p)
    BY <1>22 DEF Crash
  <1>23. QED
    BY <1>1, <1>2, <1>3, <1>4, <1>5, <1>6, <1>7, <1>8, <1>9, <1>10, <1>11,
       <1>12, <1>13, <1>14, <1>15, <1>16, <1>17, <1>18, <1>19, <1>20, <1>21,
       <1>22 DEF RunStep, Failure

\* A journal is written only after the plan, and a plan is made only once.
LEMMA JournalAfterPlanStep ==
    ASSUME TypeOK, JournalAfterPlan, OneLive, NEW p \in Runs,
           (StartRun(p) /\ \A q \in Runs : ~ Live(q)) \/ RunStep(p) \/ Failure(p)
    PROVE  JournalAfterPlan'
  <1> USE DEF TypeOK, files, local, Goto, Remaining, JournalAfterPlan
  <1>1. CASE StartRun(p) /\ \A q \in Runs : ~ Live(q)
    BY <1>1 DEF StartRun
  <1>2. CASE OpenJournal(p)
    BY <1>2 DEF OpenJournal
  <1>3. CASE OpenOwnJournal(p)
    BY <1>3 DEF OpenOwnJournal
  <1>4. CASE RollEntry(p)
    BY <1>4 DEF RollEntry
  <1>5. CASE RemoveFixed(p)
    BY <1>5 DEF RemoveFixed
  <1>6. CASE RenameBackup(p)
    BY <1>6 DEF RenameBackup
  <1>7. CASE RemoveStaged(p)
    BY <1>7 DEF RemoveStaged
  <1>8. CASE CleanEntry(p)
    BY <1>8 DEF CleanEntry
  <1>9. CASE RemoveJournal(p)
    <2>1. AfterJournal(p) \in {"recover", "ok", "failed"}
      BY DEF AfterJournal, Calls
    <2>2. AfterJournal(p) = "recover" => call[p] \in {"startup", "write"}
      BY DEF AfterJournal, Calls
    <2> QED
      BY <1>9, <2>1, <2>2 DEF RemoveJournal
  <1>10. CASE EndRecovery(p)
    <2>1. CASE call[p] = "startup"
      BY <1>10, <2>1 DEF EndRecovery
    <2>2. CASE call[p] # "startup"
      BY <1>10, <2>2 DEF EndRecovery
    <2> QED
      BY <2>1, <2>2
  <1>11. CASE PlanFixes(p)
    BY <1>11 DEF PlanFixes
  <1>12. CASE PrepareFile(p)
    BY <1>12 DEF PrepareFile
  <1>13. CASE EndPrepare(p)
    BY <1>13 DEF EndPrepare
  <1>14. CASE StageFile(p)
    BY <1>14 DEF StageFile
  <1>15. CASE WriteJournal(p)
    BY <1>15 DEF WriteJournal
  <1>16. CASE MoveAside(p)
    BY <1>16 DEF MoveAside
  <1>17. CASE MoveIn(p)
    BY <1>17 DEF MoveIn
  <1>18. CASE CommitJournal(p)
    BY <1>18 DEF CommitJournal
  <1>19. CASE StagingError(p)
    BY <1>19 DEF StagingError
  <1>20. CASE CommitError(p)
    BY <1>20 DEF CommitError
  <1>21. CASE ResolveError(p)
    BY <1>21 DEF ResolveError
  <1>22. CASE Crash(p)
    BY <1>22 DEF Crash
  <1>23. QED
    BY <1>1, <1>2, <1>3, <1>4, <1>5, <1>6, <1>7, <1>8, <1>9, <1>10, <1>11,
       <1>12, <1>13, <1>14, <1>15, <1>16, <1>17, <1>18, <1>19, <1>20, <1>21,
       <1>22 DEF RunStep, Failure

\* Only the run that is moving files could remove its journal, and does not.
LEMMA MovesStep ==
    ASSUME TypeOK, MovesAreJournaled, OneLive, NEW p \in Runs,
           (StartRun(p) /\ \A q \in Runs : ~ Live(q)) \/ RunStep(p) \/ Failure(p)
    PROVE  MovesAreJournaled'
  <1> USE DEF TypeOK, files, local, Goto, Remaining, MovesAreJournaled
  <1>1. CASE StartRun(p) /\ \A q \in Runs : ~ Live(q)
    BY <1>1 DEF StartRun
  <1>2. CASE OpenJournal(p)
    BY <1>2 DEF OpenJournal
  <1>3. CASE OpenOwnJournal(p)
    BY <1>3 DEF OpenOwnJournal
  <1>4. CASE RollEntry(p)
    BY <1>4 DEF RollEntry
  <1>5. CASE RemoveFixed(p)
    BY <1>5 DEF RemoveFixed
  <1>6. CASE RenameBackup(p)
    BY <1>6 DEF RenameBackup
  <1>7. CASE RemoveStaged(p)
    BY <1>7 DEF RemoveStaged
  <1>8. CASE CleanEntry(p)
    BY <1>8 DEF CleanEntry
  <1>9. CASE RemoveJournal(p)
    <2>1. AfterJournal(p) \in {"recover", "ok", "failed"}
      BY DEF AfterJournal, Calls
    <2>2. \A q \in Runs \ {p} : pc[q] \notin {"aside", "movein", "commit"}
      BY <1>9 DEF RemoveJournal, OneLive, Live
    <2> QED
      BY <1>9, <2>1, <2>2 DEF RemoveJournal
  <1>10. CASE EndRecovery(p)
    BY <1>10 DEF EndRecovery
  <1>11. CASE PlanFixes(p)
    BY <1>11 DEF PlanFixes
  <1>12. CASE PrepareFile(p)
    BY <1>12 DEF PrepareFile
  <1>13. CASE EndPrepare(p)
    BY <1>13 DEF EndPrepare
  <1>14. CASE StageFile(p)
    BY <1>14 DEF StageFile
  <1>15. CASE WriteJournal(p)
    BY <1>15 DEF WriteJournal
  <1>16. CASE MoveAside(p)
    BY <1>16 DEF MoveAside
  <1>17. CASE MoveIn(p)
    BY <1>17 DEF MoveIn
  <1>18. CASE CommitJournal(p)
    BY <1>18 DEF CommitJournal
  <1>19. CASE StagingError(p)
    BY <1>19 DEF StagingError
  <1>20. CASE CommitError(p)
    BY <1>20 DEF CommitError
  <1>21. CASE ResolveError(p)
    <2>1. pc'[p] \in {"rollback", "failed"}
      BY <1>21 DEF ResolveError
    <2>2. \A q \in Runs \ {p} : pc[q] \notin {"aside", "movein", "commit"}
      BY <1>21 DEF ResolveError, OneLive, Live
    <2>3. \A q \in Runs \ {p} : pc'[q] = pc[q]
      BY <1>21 DEF ResolveError
    <2> QED
      BY <2>1, <2>2, <2>3
  <1>22. CASE Crash(p)
    BY <1>22 DEF Crash
  <1>23. QED
    BY <1>1, <1>2, <1>3, <1>4, <1>5, <1>6, <1>7, <1>8, <1>9, <1>10, <1>11,
       <1>12, <1>13, <1>14, <1>15, <1>16, <1>17, <1>18, <1>19, <1>20, <1>21,
       <1>22 DEF RunStep, Failure

\* A step of a run that resolves nothing after it, and touches no backup, leaves
\* the others' loops alone.
LEMMA ResolvedFrame ==
    ASSUME ResolvedBehind, NEW p \in Runs, UNCHANGED <<backup, rec>>,
           \A q \in Runs \ {p} : pc'[q] = pc[q] /\ todo'[q] = todo[q],
           pc'[p] \notin {"roll", "restore", "replace", "unstage", "clean"}
    PROVE  ResolvedBehind'
  BY DEF ResolvedBehind

\* A loop that resolves a journal drops an entry only once its backup is gone.
LEMMA ResolvedStep ==
    ASSUME TypeOK, ResolvedBehind, OneLive, NoOrphanBackup, NEW p \in Runs,
           (StartRun(p) /\ \A q \in Runs : ~ Live(q)) \/ RunStep(p) \/ Failure(p)
    PROVE  ResolvedBehind'
  <1> USE DEF TypeOK, files, local, Goto, Remaining, ResolvedBehind
  <1>1. CASE StartRun(p) /\ \A q \in Runs : ~ Live(q)
    BY <1>1 DEF StartRun
  <1>2. CASE OpenJournal(p)
    BY <1>2 DEF OpenJournal, NoOrphanBackup, Entries
  <1>3. CASE OpenOwnJournal(p)
    BY <1>3 DEF OpenOwnJournal, NoOrphanBackup, Entries
  <1>4. CASE RollEntry(p)
    <2> DEFINE q == rec[p]
    <2>1. PICK f \in todo[p] :
              /\ IsLast(f, todo[p])
              /\ \/ backup[q][f] = Missing /\ UNCHANGED backup
                 \/ pc'[p] \in {"restore", "replace"} /\ UNCHANGED backup
                 \/ backup' = [backup EXCEPT ![q][f] = Missing]
              /\ pc'[p] \in {"unstage", "restore", "replace"}
      BY <1>4 DEF RollEntry
    <2>2. \A r \in Runs, g \in Paths :
              backup[r][g] = Missing => backup'[r][g] = Missing
      <3>1. CASE UNCHANGED backup
        BY <3>1
      <3>2. CASE backup' = [backup EXCEPT ![q][f] = Missing]
        BY <3>2
      <3> QED
        BY <2>1, <3>1, <3>2
    <2>3. pc'[p] = "unstage" => backup'[q][f] = Missing
      <3>1. CASE backup' = [backup EXCEPT ![q][f] = Missing]
        <4>1. q \in Runs /\ f \in Paths
          OBVIOUS
        <4> QED
          BY <3>1, <4>1
      <3>2. CASE backup[q][f] = Missing /\ UNCHANGED backup
        BY <3>2
      <3> QED
        BY <2>1, <3>1, <3>2
    <2>4. \A g \in todo[p] : IsLast(g, todo[p]) => g = f
      BY <2>1, LastUnique
    <2>5. \A r \in Runs \ {p} : pc'[r] = pc[r]
      BY <1>4 DEF RollEntry
    <2>6. todo' = todo /\ rec' = rec
      BY <1>4 DEF RollEntry
    <2>7. pc[p] = "roll"
      BY <1>4 DEF RollEntry
    <2>8. \A r \in Runs :
              pc'[r] \in {"roll", "restore", "replace", "unstage", "clean"} =>
                  \A g \in Paths \ todo'[r] : backup'[rec'[r]][g] = Missing
      <3>1. \A r \in Runs :
                pc'[r] \in {"roll", "restore", "replace", "unstage", "clean"} =>
                    pc[r] \in {"roll", "restore", "replace", "unstage", "clean"}
        BY <2>5, <2>7
      <3>2. \A r \in Runs : rec[r] \in Runs
        OBVIOUS
      <3> QED
        BY <2>2, <2>6, <3>1, <3>2
    <2>9. \A r \in Runs :
              pc'[r] = "unstage" =>
                  \A g \in todo'[r] :
                      IsLast(g, todo'[r]) => backup'[rec'[r]][g] = Missing
      <3>1. \A g \in todo[p] :
                pc'[p] = "unstage" /\ IsLast(g, todo[p]) => backup'[q][g] = Missing
        BY <2>3, <2>4
      <3>2. \A r \in Runs \ {p} : pc'[r] = "unstage" =>
                \A g \in todo[r] : IsLast(g, todo[r]) => backup'[rec[r]][g] = Missing
        BY <2>2, <2>5
      <3> QED
        BY <2>6, <3>1, <3>2
    <2> QED
      BY <2>8, <2>9
  <1>5. CASE RemoveFixed(p)
    BY <1>5 DEF RemoveFixed
  <1>6. CASE RenameBackup(p)
    BY <1>6, LastUnique DEF RenameBackup
  <1>7. CASE RemoveStaged(p)
    BY <1>7, LastUnique DEF RemoveStaged
  <1>8. CASE CleanEntry(p)
    BY <1>8 DEF CleanEntry
  <1>9. CASE RemoveJournal(p)
    BY <1>9 DEF RemoveJournal, AfterJournal
  <1>10. CASE EndRecovery(p)
    <2>1. pc'[p] \notin {"roll", "restore", "replace", "unstage", "clean"}
      BY <1>10 DEF EndRecovery
    <2>2. \A q \in Runs \ {p} : pc'[q] = pc[q] /\ todo'[q] = todo[q]
      BY <1>10 DEF EndRecovery
    <2>3. UNCHANGED <<backup, rec>>
      BY <1>10 DEF EndRecovery
    <2> QED
      BY <2>1, <2>2, <2>3, ResolvedFrame
  <1>11. CASE PlanFixes(p)
    BY <1>11 DEF PlanFixes
  <1>12. CASE PrepareFile(p)
    <2>1. pc'[p] \notin {"roll", "restore", "replace", "unstage", "clean"}
      BY <1>12 DEF PrepareFile
    <2>2. \A q \in Runs \ {p} : pc'[q] = pc[q] /\ todo'[q] = todo[q]
      BY <1>12 DEF PrepareFile
    <2>3. UNCHANGED <<backup, rec>>
      BY <1>12 DEF PrepareFile
    <2> QED
      BY <2>1, <2>2, <2>3, ResolvedFrame
  <1>13. CASE EndPrepare(p)
    BY <1>13 DEF EndPrepare
  <1>14. CASE StageFile(p)
    BY <1>14 DEF StageFile
  <1>15. CASE WriteJournal(p)
    BY <1>15 DEF WriteJournal
  <1>16. CASE MoveAside(p)
    <2>1. pc'[p] \in {"movein", "rollback"}
      BY <1>16 DEF MoveAside
    <2>2. \A q \in Runs \ {p} : pc'[q] = pc[q] /\ ~ Live(q)
      BY <1>16 DEF MoveAside, OneLive, Live
    <2>3. \A q \in Runs \ {p} : pc'[q] \notin
              {"roll", "restore", "replace", "unstage", "clean"}
      BY <2>2 DEF Live
    <2> QED
      BY <2>1, <2>3
  <1>17. CASE MoveIn(p)
    <2>1. pc'[p] \in {"aside", "commit", "rollback"}
      BY <1>17 DEF MoveIn
    <2>2. \A q \in Runs \ {p} : pc'[q] = pc[q] /\ ~ Live(q)
      BY <1>17 DEF MoveIn, OneLive, Live
    <2>3. \A q \in Runs \ {p} : pc'[q] \notin
              {"roll", "restore", "replace", "unstage", "clean"}
      BY <2>2 DEF Live
    <2> QED
      BY <2>1, <2>3
  <1>18. CASE CommitJournal(p)
    BY <1>18 DEF CommitJournal, NoOrphanBackup, Entries
  <1>19. CASE StagingError(p)
    BY <1>19 DEF StagingError
  <1>20. CASE CommitError(p)
    BY <1>20 DEF CommitError
  <1>21. CASE ResolveError(p)
    BY <1>21 DEF ResolveError
  <1>22. CASE Crash(p)
    BY <1>22 DEF Crash
  <1>23. QED
    BY <1>1, <1>2, <1>3, <1>4, <1>5, <1>6, <1>7, <1>8, <1>9, <1>10, <1>11,
       <1>12, <1>13, <1>14, <1>15, <1>16, <1>17, <1>18, <1>19, <1>20, <1>21,
       <1>22 DEF RunStep, Failure

\* A backup appears under a journal, and a journal goes after its backups.
LEMMA NoOrphanStep ==
    ASSUME TypeOK, NoOrphanBackup, ResolvedBehind,
           JournalAfterPlan, MovesAreJournaled, PlannedTodo, NEW p \in Runs,
           (StartRun(p) /\ \A q \in Runs : ~ Live(q)) \/ RunStep(p) \/ Failure(p)
    PROVE  NoOrphanBackup'
  <1> USE DEF TypeOK, files, local, Goto, Remaining, NoOrphanBackup, Entries
  <1>1. CASE StartRun(p) /\ \A q \in Runs : ~ Live(q)
    BY <1>1 DEF StartRun
  <1>2. CASE OpenJournal(p)
    BY <1>2 DEF OpenJournal
  <1>3. CASE OpenOwnJournal(p)
    BY <1>3 DEF OpenOwnJournal
  <1>4. CASE RollEntry(p)
    <2>1. \A r \in Runs, g \in Paths :
              backup'[r][g] # Missing => backup[r][g] # Missing
      <3>1. CASE UNCHANGED backup
        BY <3>1
      <3>2. CASE \E f \in Paths : backup' = [backup EXCEPT ![rec[p]][f] = Missing]
        BY <3>2
      <3> QED
        BY <1>4, <3>1, <3>2 DEF RollEntry
    <2>2. journal' = journal /\ orig' = orig
      BY <1>4 DEF RollEntry
    <2> QED
      BY <2>1, <2>2
  <1>5. CASE RemoveFixed(p)
    BY <1>5 DEF RemoveFixed
  <1>6. CASE RenameBackup(p)
    BY <1>6 DEF RenameBackup
  <1>7. CASE RemoveStaged(p)
    BY <1>7 DEF RemoveStaged
  <1>8. CASE CleanEntry(p)
    BY <1>8 DEF CleanEntry
  <1>9. CASE RemoveJournal(p)
    BY <1>9 DEF RemoveJournal, ResolvedBehind, TypeOK
  <1>10. CASE EndRecovery(p)
    BY <1>10 DEF EndRecovery
  <1>11. CASE PlanFixes(p)
    BY <1>11 DEF PlanFixes, JournalAfterPlan
  <1>12. CASE PrepareFile(p)
    BY <1>12 DEF PrepareFile
  <1>13. CASE EndPrepare(p)
    BY <1>13 DEF EndPrepare
  <1>14. CASE StageFile(p)
    BY <1>14 DEF StageFile
  <1>15. CASE WriteJournal(p)
    BY <1>15 DEF WriteJournal
  <1>16. CASE MoveAside(p)
    <2>1. PICK f \in todo[p] :
              UNCHANGED backup \/ backup' = [backup EXCEPT ![p][f] = disk[f]]
      BY <1>16 DEF MoveAside
    <2>2. journal[p] = "open" /\ f \in Entries(p)
      BY <1>16 DEF MoveAside, MovesAreJournaled, PlannedTodo
    <2>3. journal' = journal /\ orig' = orig
      BY <1>16 DEF MoveAside
    <2>4. \A r \in Runs, g \in Paths :
              backup'[r][g] = backup[r][g] \/ (r = p /\ g = f)
      BY <2>1
    <2>5. \A r \in Runs, g \in Paths :
              backup'[r][g] # Missing => journal[r] # "none" /\ g \in Entries(r)
      BY <2>2, <2>4
    <2>6. \A r \in Runs : Entries(r)' = Entries(r)
      BY <2>3 DEF Entries
    <2> QED
      BY <2>3, <2>5, <2>6
  <1>17. CASE MoveIn(p)
    BY <1>17 DEF MoveIn
  <1>18. CASE CommitJournal(p)
    BY <1>18 DEF CommitJournal
  <1>19. CASE StagingError(p)
    BY <1>19 DEF StagingError
  <1>20. CASE CommitError(p)
    BY <1>20 DEF CommitError
  <1>21. CASE ResolveError(p)
    BY <1>21 DEF ResolveError, ResolvedBehind
  <1>22. CASE Crash(p)
    BY <1>22 DEF Crash
  <1>23. QED
    BY <1>1, <1>2, <1>3, <1>4, <1>5, <1>6, <1>7, <1>8, <1>9, <1>10, <1>11,
       <1>12, <1>13, <1>14, <1>15, <1>16, <1>17, <1>18, <1>19, <1>20, <1>21,
       <1>22 DEF RunStep, Failure

(***************************************************************************)
(* The theorems                                                            *)
(***************************************************************************)
\* The inductive invariant holds before the first run.
LEMMA InitInv == Init => IInv
  <1> SUFFICES ASSUME Init PROVE IInv
    OBVIOUS
  <1>1. TypeOK
    BY InitType
  <1>2. OneLive /\ PlannedTodo /\ JournalAfterPlan /\ MovesAreJournaled
    BY DEF Init, OneLive, Live, PlannedTodo, JournalAfterPlan, MovesAreJournaled
  <1>3. ResolvedBehind /\ NoOrphanBackup
    BY DEF Init, ResolvedBehind, NoOrphanBackup, Nothing
  <1> QED
    BY <1>1, <1>2, <1>3 DEF IInv

\* A saved file disturbs no part of the invariant but the types.
LEMMA SaveInv ==
    ASSUME IInv, NEW f \in Paths, NEW t \in UserTexts, Save(f, t)
    PROVE  IInv'
  <1>1. TypeOK'
    BY SaveType DEF IInv
  <1>2. UNCHANGED <<staged, backup, journal, orig, pc, sel, scan, rec, todo, call>>
    BY DEF Save, local
  <1> QED
    BY <1>1, <1>2 DEF IInv, OneLive, Live, PlannedTodo, JournalAfterPlan,
       MovesAreJournaled, ResolvedBehind, NoOrphanBackup, Entries

\* Every step keeps the inductive invariant.
LEMMA NextInv == IInv /\ [Next]_vars => IInv'
  <1> SUFFICES ASSUME IInv, [Next]_vars PROVE IInv'
    OBVIOUS
  <1>1. TypeOK'
    BY NextType DEF IInv
  <1>2. CASE UNCHANGED vars
    BY <1>1, <1>2 DEF vars, IInv, OneLive, Live, PlannedTodo, JournalAfterPlan,
       MovesAreJournaled, ResolvedBehind, NoOrphanBackup, Entries
  <1>3. ASSUME NEW p \in Runs,
               \/ StartRun(p) /\ \A q \in Runs : ~ Live(q)
               \/ RunStep(p)
               \/ Failure(p)
        PROVE  IInv'
    BY <1>1, <1>3, OneLiveStep, PlannedTodoStep, JournalAfterPlanStep, MovesStep,
       ResolvedStep, NoOrphanStep DEF IInv
  <1>4. ASSUME NEW f \in Paths, NEW t \in UserTexts, Save(f, t) PROVE IInv'
    BY <1>4, SaveInv
  <1> QED
    BY <1>2, <1>3, <1>4 DEF Next

\* The strengthened invariant holds in every reachable state, for any sets of
\* files, directories, texts and runs (commit_prepared_fixes and
\* recover_fix_transactions).
THEOREM Invariance == Spec => []IInv
  BY InitInv, NextInv, PTL DEF Spec

\* Every reachable state is well typed: in particular what a run stages and
\* moves into place is always a text, never a hole (commit_prepared_fixes).
THEOREM TypeCorrect == Spec => []TypeOK
  <1>1. IInv => TypeOK
    BY DEF IInv
  <1> QED
    BY <1>1, Invariance, PTL

\* However many files, directories and runs there are, and wherever runs crash
\* or fail, an original moved aside stays named by a journal on disk
\* (commit_prepared_fixes, recover_journal).
THEOREM OriginalsStayCovered == Spec => []NoOrphanBackup
  <1>1. IInv => NoOrphanBackup
    BY DEF IInv
  <1> QED
    BY <1>1, Invariance, PTL

------------------------------------------------------------------------------
(***************************************************************************)
(* The inductive invariant AInv of FixJournal, for any set of files,       *)
(* directories, runs and texts, where every run is given the same files.   *)
(* IInv says who has a journal; it does not say which texts are in it, or  *)
(* that a recovery finds it.  AInv adds that a backup is the text the run  *)
(* planned, that no two journals keep backups of one directory, that a     *)
(* recovery misses a journal only when that has no backup beside the files *)
(* about to be written, and what is seen of each file once recovery has    *)
(* run (view).  The last part says what this gives a person whose files    *)
(* are fixed: nothing saved is lost, nothing saved is overwritten,         *)
(* recovery puts files back, and a run is one atomic step (AtomicFix).     *)
(*                                                                         *)
(* A lemma named ...Step is about one step of a run, whichever it is: one  *)
(* case per action.  A lemma named ...Effect says of an action what it     *)
(* does to each path of each run; one named ...Frame, why a step that      *)
(* leaves some variables alone keeps a conjunct.                           *)
(***************************************************************************)

(***************************************************************************)
(* What a step does, path by path                                          *)
(***************************************************************************)
\* A table with one place changed.
LEMMA OneChanged ==
    ASSUME NEW F \in [Runs -> [Paths -> Contents]], NEW q \in Runs, NEW f \in Paths, NEW c
    PROVE  \A r \in Runs, g \in Paths :
              [F EXCEPT ![q][f] = c][r][g] = IF r = q /\ g = f THEN c ELSE F[r][g]
  OBVIOUS

\* RollEntry looks at the last entry left, and drops its backup if the file has
\* another text by now.
LEMMA RollEntryEffect ==
    ASSUME TypeOK, NEW p \in Runs, RollEntry(p)
    PROVE  /\ UNCHANGED <<disk, staged, journal, orig, local, latest>>
           /\ \E f \in todo[p] :
                 /\ IsLast(f, todo[p])
                 /\ \/ /\ Moved(rec[p], f) /\ MustRestore(rec[p], f)
                       /\ Goto(p, IF disk[f] = Missing THEN "replace" ELSE "restore")
                       /\ UNCHANGED backup
                    \/ /\ Moved(rec[p], f) => ~ MustRestore(rec[p], f)
                       /\ Goto(p, "unstage")
                       /\ \A r \in Runs, g \in Paths : backup'[r][g] =
                             IF r = rec[p] /\ g = f THEN Missing ELSE backup[r][g]
  <1>1. PICK f \in todo[p] :
            /\ IsLast(f, todo[p])
            /\ \/ ~ Moved(rec[p], f) /\ Goto(p, "unstage") /\ UNCHANGED backup
               \/ /\ Moved(rec[p], f) /\ MustRestore(rec[p], f)
                  /\ Goto(p, IF disk[f] = Missing THEN "replace" ELSE "restore")
                  /\ UNCHANGED backup
               \/ /\ Moved(rec[p], f) /\ ~ MustRestore(rec[p], f)
                  /\ backup' = [backup EXCEPT ![rec[p]][f] = Missing]
                  /\ Goto(p, "unstage")
    BY DEF RollEntry, Moved
  <1>2. f \in Paths /\ rec[p] \in Runs /\ backup \in [Runs -> [Paths -> Contents]]
    BY DEF TypeOK
  <1>3. UNCHANGED <<disk, staged, journal, orig, local, latest>>
    BY DEF RollEntry
  <1>4. CASE ~ Moved(rec[p], f) /\ Goto(p, "unstage") /\ UNCHANGED backup
    BY <1>1, <1>3, <1>4 DEF Moved
  <1>5. CASE /\ Moved(rec[p], f) /\ ~ MustRestore(rec[p], f)
             /\ backup' = [backup EXCEPT ![rec[p]][f] = Missing]
             /\ Goto(p, "unstage")
    BY <1>1, <1>2, <1>3, <1>5, OneChanged
  <1> QED
    BY <1>1, <1>3, <1>4, <1>5

\* RenameBackup puts the backup of the last entry left in its place.
LEMMA RenameBackupEffect ==
    ASSUME TypeOK, NEW p \in Runs, RenameBackup(p)
    PROVE  /\ UNCHANGED <<staged, journal, orig, local, latest>> /\ Goto(p, "unstage")
           /\ pc[p] = "replace"
           /\ \E f \in todo[p] :
                 /\ IsLast(f, todo[p]) /\ Moved(rec[p], f)
                 /\ disk' = [disk EXCEPT ![f] = backup[rec[p]][f]]
                 /\ \A r \in Runs, g \in Paths : backup'[r][g] =
                       IF r = rec[p] /\ g = f THEN Missing ELSE backup[r][g]
  <1>1. PICK f \in todo[p] :
            /\ IsLast(f, todo[p]) /\ backup[rec[p]][f] # Missing
            /\ disk' = [disk EXCEPT ![f] = backup[rec[p]][f]]
            /\ backup' = [backup EXCEPT ![rec[p]][f] = Missing]
    BY DEF RenameBackup
  <1>2. f \in Paths /\ rec[p] \in Runs /\ backup \in [Runs -> [Paths -> Contents]]
    BY DEF TypeOK
  <1>3. \A r \in Runs, g \in Paths : backup'[r][g] =
            IF r = rec[p] /\ g = f THEN Missing ELSE backup[r][g]
    BY <1>1, <1>2, OneChanged
  <1>4. /\ UNCHANGED <<staged, journal, orig, local, latest>> /\ Goto(p, "unstage")
        /\ pc[p] = "replace"
    BY DEF RenameBackup
  <1> QED
    BY <1>1, <1>3, <1>4 DEF Moved

\* RemoveStaged and CleanEntry leave nothing of an entry but what is on disk.
LEMMA RemoveStagedEffect ==
    ASSUME TypeOK, NEW p \in Runs, RemoveStaged(p)
    PROVE  /\ UNCHANGED <<disk, backup, journal, orig, sel, scan, rec, call, latest>>
           /\ Goto(p, "roll") /\ pc[p] = "unstage"
           /\ \E f \in todo[p] :
                 /\ IsLast(f, todo[p]) /\ Remaining(p, todo[p] \ {f})
                 /\ \A r \in Runs, g \in Paths : staged'[r][g] =
                       IF r = rec[p] /\ g = f THEN Missing ELSE staged[r][g]
  <1>1. PICK f \in todo[p] :
            /\ IsLast(f, todo[p]) /\ Remaining(p, todo[p] \ {f})
            /\ staged' = [staged EXCEPT ![rec[p]][f] = Missing]
    BY DEF RemoveStaged
  <1>2. f \in Paths /\ rec[p] \in Runs /\ staged \in [Runs -> [Paths -> Contents]]
    BY DEF TypeOK
  <1>3. \A r \in Runs, g \in Paths : staged'[r][g] =
            IF r = rec[p] /\ g = f THEN Missing ELSE staged[r][g]
    BY <1>1, <1>2, OneChanged
  <1>4. /\ UNCHANGED <<disk, backup, journal, orig, sel, scan, rec, call, latest>>
        /\ Goto(p, "roll") /\ pc[p] = "unstage"
    BY DEF RemoveStaged
  <1> QED
    BY <1>1, <1>3, <1>4

\* CleanEntry drops the original of the first entry left.
LEMMA CleanEntryEffect ==
    ASSUME TypeOK, NEW p \in Runs, CleanEntry(p)
    PROVE  /\ UNCHANGED <<disk, journal, orig, pc, sel, scan, rec, call, latest>>
           /\ pc[p] = "clean"
           /\ \E f \in todo[p] :
                 /\ IsFirst(f, todo[p]) /\ Remaining(p, todo[p] \ {f})
                 /\ \A r \in Runs, g \in Paths : staged'[r][g] =
                       IF r = rec[p] /\ g = f THEN Missing ELSE staged[r][g]
                 /\ \A r \in Runs, g \in Paths : backup'[r][g] =
                       IF r = rec[p] /\ g = f THEN Missing ELSE backup[r][g]
  <1>1. PICK f \in todo[p] :
            /\ IsFirst(f, todo[p]) /\ Remaining(p, todo[p] \ {f})
            /\ staged' = [staged EXCEPT ![rec[p]][f] = Missing]
            /\ backup' = [backup EXCEPT ![rec[p]][f] = Missing]
    BY DEF CleanEntry
  <1>2. /\ f \in Paths /\ rec[p] \in Runs
        /\ staged \in [Runs -> [Paths -> Contents]] /\ backup \in [Runs -> [Paths -> Contents]]
    BY DEF TypeOK
  <1>3. \A r \in Runs, g \in Paths : staged'[r][g] =
            IF r = rec[p] /\ g = f THEN Missing ELSE staged[r][g]
    BY <1>1, <1>2, OneChanged
  <1>4. \A r \in Runs, g \in Paths : backup'[r][g] =
            IF r = rec[p] /\ g = f THEN Missing ELSE backup[r][g]
    BY <1>1, <1>2, OneChanged
  <1>5. /\ UNCHANGED <<disk, journal, orig, pc, sel, scan, rec, call, latest>>
        /\ pc[p] = "clean"
    BY DEF CleanEntry
  <1> QED
    BY <1>1, <1>3, <1>4, <1>5

\* PlanFixes plans the selected files that have something to fix.
LEMMA PlanFixesEffect ==
    ASSUME TypeOK, NEW p \in Runs, PlanFixes(p)
    PROVE  /\ UNCHANGED <<files, sel, rec, todo, latest>> /\ pc[p] = "plan"
           /\ call' = [call EXCEPT ![p] = "write"]
           /\ \A r \in Runs, g \in Paths : orig'[r][g] =
                 IF r # p THEN orig[r][g]
                 ELSE IF g \in sel[p] /\ NeedsFix(disk[g]) THEN disk[g] ELSE Missing
           /\ Entries(p)' = {g \in sel[p] : NeedsFix(disk[g])}
           /\ \A r \in Runs \ {p} : Entries(r)' = Entries(r)
           /\ scan' = [scan EXCEPT ![p] = JournalsIn(ParentsOf(Entries(p)'))]
           /\ Goto(p, "ok") \/ Goto(p, "recover")
  <1> DEFINE fixes == {f \in sel[p] : NeedsFix(disk[f])}
             planned == [f \in Paths |-> IF f \in fixes THEN disk[f] ELSE Missing]
  <1>1. /\ orig' = [orig EXCEPT ![p] = planned]
        /\ scan' = [scan EXCEPT ![p] = JournalsIn(ParentsOf(fixes))]
        /\ UNCHANGED <<files, sel, rec, todo, latest>> /\ pc[p] = "plan"
        /\ call' = [call EXCEPT ![p] = "write"]
        /\ Goto(p, "ok") \/ Goto(p, "recover")
    BY DEF PlanFixes
  <1>2. orig \in [Runs -> [Paths -> Contents]] /\ fixes \subseteq Paths
    BY DEF TypeOK
  <1>3. orig'[p] = planned /\ \A r \in Runs \ {p} : orig'[r] = orig[r]
    BY <1>1, <1>2
  <1>4. \A r \in Runs, g \in Paths : orig'[r][g] =
            IF r # p THEN orig[r][g] ELSE IF g \in fixes THEN disk[g] ELSE Missing
    BY <1>3
  <1>5. Entries(p)' = fixes
    BY <1>2, <1>4 DEF Entries, NeedsFix
  <1>6. \A r \in Runs \ {p} : Entries(r)' = Entries(r)
    BY <1>3 DEF Entries
  <1> QED
    BY <1>1, <1>4, <1>5, <1>6

\* StageFile stages the fixed text of the first entry left.
LEMMA StageFileEffect ==
    ASSUME TypeOK, NEW p \in Runs, StageFile(p)
    PROVE  /\ UNCHANGED <<disk, backup, journal, orig, sel, scan, rec, call, latest>>
           /\ pc[p] = "stage" /\ (Goto(p, "stage") \/ Goto(p, "journal"))
           /\ \E f \in todo[p] :
                 /\ IsFirst(f, todo[p]) /\ Remaining(p, todo[p] \ {f})
                 /\ \A r \in Runs, g \in Paths : staged'[r][g] =
                       IF r = p /\ g = f THEN Fixed[orig[p][f]] ELSE staged[r][g]
  <1>1. PICK f \in todo[p] :
            /\ IsFirst(f, todo[p]) /\ Remaining(p, todo[p] \ {f})
            /\ staged' = [staged EXCEPT ![p][f] = Fixed[orig[p][f]]]
            /\ Goto(p, "stage") \/ Goto(p, "journal")
    BY DEF StageFile
  <1>2. f \in Paths /\ staged \in [Runs -> [Paths -> Contents]]
    BY DEF TypeOK
  <1> QED
    BY <1>1, <1>2, OneChanged DEF StageFile

\* MoveAside keeps the first entry left as a backup, MoveIn puts the staged text in
\* its place.
LEMMA MoveAsideEffect ==
    ASSUME TypeOK, NEW p \in Runs, MoveAside(p)
    PROVE  /\ UNCHANGED <<staged, journal, orig, local, latest>> /\ pc[p] = "aside"
           /\ \E f \in todo[p] :
                 /\ IsFirst(f, todo[p])
                 /\ \/ /\ disk[f] # Missing /\ Goto(p, "movein")
                       /\ disk' = [disk EXCEPT ![f] = Missing]
                       /\ \A r \in Runs, g \in Paths : backup'[r][g] =
                             IF r = p /\ g = f THEN disk[f] ELSE backup[r][g]
                    \/ disk[f] = Missing /\ Goto(p, "rollback") /\ UNCHANGED <<disk, backup>>
  <1>1. PICK f \in todo[p] :
            /\ IsFirst(f, todo[p])
            /\ \/ /\ disk[f] # Missing /\ Goto(p, "movein")
                  /\ disk' = [disk EXCEPT ![f] = Missing]
                  /\ backup' = [backup EXCEPT ![p][f] = disk[f]]
               \/ disk[f] = Missing /\ Goto(p, "rollback") /\ UNCHANGED <<disk, backup>>
    BY DEF MoveAside
  <1>2. f \in Paths /\ backup \in [Runs -> [Paths -> Contents]]
    BY DEF TypeOK
  <1>3. backup' = [backup EXCEPT ![p][f] = disk[f]] =>
            \A r \in Runs, g \in Paths : backup'[r][g] =
                IF r = p /\ g = f THEN disk[f] ELSE backup[r][g]
    BY <1>2, OneChanged
  <1>4. UNCHANGED <<staged, journal, orig, local, latest>> /\ pc[p] = "aside"
    BY DEF MoveAside
  <1> QED
    BY <1>1, <1>3, <1>4

\* MoveIn puts the staged text of the first entry left in its place.
LEMMA MoveInEffect ==
    ASSUME TypeOK, NEW p \in Runs, MoveIn(p)
    PROVE  /\ UNCHANGED <<backup, journal, orig, sel, scan, rec, call, latest>>
           /\ pc[p] = "movein"
           /\ \E f \in todo[p] :
                 /\ IsFirst(f, todo[p])
                 /\ \/ /\ staged[p][f] # Missing
                       /\ disk' = [disk EXCEPT ![f] = staged[p][f]]
                       /\ Remaining(p, todo[p] \ {f})
                       /\ Goto(p, IF todo[p] = {f} THEN "commit" ELSE "aside")
                       /\ \A r \in Runs, g \in Paths : staged'[r][g] =
                             IF r = p /\ g = f THEN Missing ELSE staged[r][g]
                    \/ Goto(p, "rollback") /\ UNCHANGED <<disk, staged, todo>>
  <1>1. PICK f \in todo[p] :
            /\ IsFirst(f, todo[p])
            /\ \/ /\ staged[p][f] # Missing
                  /\ disk' = [disk EXCEPT ![f] = staged[p][f]]
                  /\ Remaining(p, todo[p] \ {f})
                  /\ Goto(p, IF todo[p] = {f} THEN "commit" ELSE "aside")
                  /\ staged' = [staged EXCEPT ![p][f] = Missing]
               \/ Goto(p, "rollback") /\ UNCHANGED <<disk, staged, todo>>
    BY DEF MoveIn
  <1>2. f \in Paths /\ staged \in [Runs -> [Paths -> Contents]]
    BY DEF TypeOK
  <1>3. staged' = [staged EXCEPT ![p][f] = Missing] =>
            \A r \in Runs, g \in Paths : staged'[r][g] =
                IF r = p /\ g = f THEN Missing ELSE staged[r][g]
    BY <1>2, OneChanged
  <1>4. /\ UNCHANGED <<backup, journal, orig, sel, scan, rec, call, latest>>
        /\ pc[p] = "movein"
    BY DEF MoveIn
  <1> QED
    BY <1>1, <1>3, <1>4

\* StagingError takes back what the run has staged.
LEMMA StagingErrorEffect ==
    ASSUME TypeOK, NEW p \in Runs, StagingError(p)
    PROVE  /\ UNCHANGED <<disk, backup, orig, local, latest>> /\ Goto(p, "failed")
           /\ pc[p] \in {"stage", "journal"}
           /\ UNCHANGED journal
              \/ (pc[p] = "journal" /\ journal' = [journal EXCEPT ![p] = "open"])
           /\ \A r \in Runs, g \in Paths : staged'[r][g] =
                 IF r = p THEN Missing ELSE staged[r][g]
  BY DEF StagingError, TypeOK, Nothing

(***************************************************************************)
(* The other runs                                                          *)
(***************************************************************************)
\* A step of one run leaves the others where they are, and only takes files of theirs away.
LEMMA OthersStay ==
    ASSUME TypeOK, NEW p \in Runs,
           (StartRun(p) /\ \A q \in Runs : ~ Live(q)) \/ RunStep(p) \/ Failure(p)
    PROVE  \A q \in Runs \ {p} :
              /\ pc'[q] = pc[q] /\ sel'[q] = sel[q] /\ scan'[q] = scan[q]
              /\ rec'[q] = rec[q] /\ todo'[q] = todo[q] /\ call'[q] = call[q]
              /\ orig'[q] = orig[q] /\ journal'[q] \in {journal[q], "none"}
              /\ \A f \in Paths :
                    /\ staged'[q][f] \in {Missing, staged[q][f]}
                    /\ backup'[q][f] \in {Missing, backup[q][f]}
  <1>1. CASE StartRun(p) /\ \A q \in Runs : ~ Live(q)
    BY <1>1 DEF StartRun, TypeOK, files, local, Goto, Remaining
  <1>2. CASE OpenJournal(p)
    BY <1>2 DEF OpenJournal, TypeOK, files, local, Goto, Remaining
  <1>3. CASE OpenOwnJournal(p)
    BY <1>3 DEF OpenOwnJournal, TypeOK, files, local, Goto, Remaining
  <1>4. CASE RollEntry(p)
    <2>1. \A q \in Runs \ {p}, f \in Paths : backup'[q][f] \in {Missing, backup[q][f]}
      BY <1>4, RollEntryEffect
    <2> QED
      BY <1>4, <2>1 DEF RollEntry, TypeOK, local, Goto
  <1>5. CASE RemoveFixed(p)
    BY <1>5 DEF RemoveFixed, TypeOK, files, local, Goto, Remaining
  <1>6. CASE RenameBackup(p)
    <2>1. \A q \in Runs \ {p}, f \in Paths : backup'[q][f] \in {Missing, backup[q][f]}
      BY <1>6, RenameBackupEffect
    <2> QED
      BY <1>6, <2>1 DEF RenameBackup, TypeOK, local, Goto
  <1>7. CASE RemoveStaged(p)
    <2>1. \A q \in Runs \ {p}, f \in Paths : staged'[q][f] \in {Missing, staged[q][f]}
      BY <1>7, RemoveStagedEffect
    <2> QED
      BY <1>7, <2>1 DEF RemoveStaged, TypeOK, Goto, Remaining
  <1>8. CASE CleanEntry(p)
    <2>1. PICK f \in todo[p] :
              /\ staged' = [staged EXCEPT ![rec[p]][f] = Missing]
              /\ backup' = [backup EXCEPT ![rec[p]][f] = Missing]
      BY <1>8 DEF CleanEntry
    <2>2. \A q \in Runs \ {p}, g \in Paths : staged'[q][g] \in {Missing, staged[q][g]}
      BY <2>1 DEF TypeOK
    <2>3. \A q \in Runs \ {p}, g \in Paths : backup'[q][g] \in {Missing, backup[q][g]}
      BY <2>1 DEF TypeOK
    <2> QED
      BY <1>8, <2>2, <2>3 DEF CleanEntry, TypeOK, Remaining
  <1>9. CASE RemoveJournal(p)
    BY <1>9 DEF RemoveJournal, TypeOK, files, local, Goto, Remaining
  <1>10. CASE EndRecovery(p)
    BY <1>10 DEF EndRecovery, TypeOK, files, local, Goto, Remaining
  <1>11. CASE PlanFixes(p)
    BY <1>11 DEF PlanFixes, TypeOK, files, Goto
  <1>12. CASE PrepareFile(p)
    BY <1>12 DEF PrepareFile, TypeOK, files, local, Goto, Remaining
  <1>13. CASE EndPrepare(p)
    BY <1>13 DEF EndPrepare, TypeOK, files, local, Goto, Remaining
  <1>14. CASE StageFile(p)
    <2>1. PICK g \in todo[p] : staged' = [staged EXCEPT ![p][g] = Fixed[orig[p][g]]]
      BY <1>14 DEF StageFile
    <2> QED
      BY <1>14, <2>1 DEF StageFile, TypeOK, Goto, Remaining
  <1>15. CASE WriteJournal(p)
    BY <1>15 DEF WriteJournal, TypeOK, files, local, Goto, Remaining
  <1>16. CASE MoveAside(p)
    <2>1. \A q \in Runs \ {p}, f \in Paths : backup'[q][f] \in {Missing, backup[q][f]}
      BY <1>16, MoveAsideEffect
    <2> QED
      BY <1>16, <2>1 DEF MoveAside, TypeOK, local, Goto
  <1>17. CASE MoveIn(p)
    <2>1. \A q \in Runs \ {p}, f \in Paths : staged'[q][f] \in {Missing, staged[q][f]}
      BY <1>17, MoveInEffect
    <2> QED
      BY <1>17, <2>1 DEF MoveIn, TypeOK, Goto, Remaining
  <1>18. CASE CommitJournal(p)
    BY <1>18 DEF CommitJournal, TypeOK, files, local, Goto, Remaining
  <1>19. CASE StagingError(p)
    <2>1. \A q \in Runs \ {p}, f \in Paths : staged'[q][f] \in {Missing, staged[q][f]}
      BY <1>19, StagingErrorEffect
    <2> QED
      BY <1>19, <2>1 DEF StagingError, TypeOK, local, Goto
  <1>20. CASE CommitError(p)
    BY <1>20 DEF CommitError, TypeOK, files, local, Goto, Remaining
  <1>21. CASE ResolveError(p)
    BY <1>21 DEF ResolveError, TypeOK, files, local, Goto, Remaining
  <1>22. CASE Crash(p)
    BY <1>22 DEF Crash, TypeOK, files, local, Goto, Remaining
  <1> QED
    BY <1>1, <1>2, <1>3, <1>4, <1>5, <1>6, <1>7, <1>8, <1>9, <1>10, <1>11,
       <1>12, <1>13, <1>14, <1>15, <1>16, <1>17, <1>18, <1>19, <1>20, <1>21, <1>22
       DEF RunStep, Failure

(***************************************************************************)
(* Plans, stages and journals                                              *)
(***************************************************************************)
\* Every run is given the same selection.
OneSelection == \A s, t \in Selections : s = t

\* A run keeps to its plan while nothing is planned, staged or moved aside.
LEMMA PlannedFixesFrame ==
    ASSUME TypeOK, PlannedFixes, UNCHANGED <<orig, sel>>,
           \A q \in Runs : pc[q] # "idle" \/ pc'[q] = pc[q],
           \A q \in Runs, f \in Paths : staged'[q][f] \in {Missing, staged[q][f]},
           \A q \in Runs, f \in Paths : backup'[q][f] \in {Missing, backup[q][f]}
    PROVE  PlannedFixes'
  <1>1. \A q \in Runs : Entries(q)' = Entries(q)
    BY DEF Entries
  <1> QED
    BY <1>1 DEF PlannedFixes, Moved, NeedsFix, TypeOK

\* What a run plans, stages and moves aside is one text and its fixed form.
LEMMA PlannedFixesStep ==
    ASSUME OneSelection, TypeOK, PlannedFixes, NotYetWritten, JournalAfterPlan, NoOrphanBackup,
           MovesInOrder, PlannedTodo, NEW p \in Runs,
           (StartRun(p) /\ \A q \in Runs : ~ Live(q)) \/ RunStep(p) \/ Failure(p)
    PROVE  PlannedFixes'
  <1>1. CASE StartRun(p) /\ \A q \in Runs : ~ Live(q)
    BY <1>1, SelectionAssumption
       DEF StartRun, TypeOK, files, local, Goto, Remaining, PlannedFixes, Entries, Moved,
           NeedsFix
  <1>2. CASE OpenJournal(p)
    BY <1>2, PlannedFixesFrame DEF OpenJournal, TypeOK, files, local, Goto, Remaining
  <1>3. CASE OpenOwnJournal(p)
    BY <1>3, PlannedFixesFrame DEF OpenOwnJournal, TypeOK, files, local, Goto, Remaining
  <1>4. CASE RollEntry(p)
    <2>1. \A q \in Runs, f \in Paths : backup'[q][f] \in {Missing, backup[q][f]}
      BY <1>4, RollEntryEffect
    <2>2. /\ UNCHANGED <<orig, sel, staged>> /\ pc[p] = "roll"
          /\ \A q \in Runs \ {p} : pc'[q] = pc[q]
      BY <1>4 DEF RollEntry, local, Goto, TypeOK
    <2> QED
      BY <2>1, <2>2, PlannedFixesFrame
  <1>5. CASE RemoveFixed(p)
    BY <1>5, PlannedFixesFrame DEF RemoveFixed, TypeOK, files, local, Goto, Remaining
  <1>6. CASE RenameBackup(p)
    BY <1>6, RenameBackupEffect, PlannedFixesFrame DEF TypeOK, files, local, Goto, Remaining
  <1>7. CASE RemoveStaged(p)
    BY <1>7, RemoveStagedEffect, PlannedFixesFrame DEF TypeOK, files, local, Goto, Remaining
  <1>8. CASE CleanEntry(p)
    BY <1>8, CleanEntryEffect, PlannedFixesFrame DEF TypeOK, files, local, Goto, Remaining
  <1>9. CASE RemoveJournal(p)
    BY <1>9, PlannedFixesFrame DEF RemoveJournal, TypeOK, files, local, Goto, Remaining
  <1>10. CASE EndRecovery(p)
    BY <1>10, PlannedFixesFrame DEF EndRecovery, TypeOK, files, local, Goto, Remaining
  <1>11. CASE PlanFixes(p)
    <2>1. pc[p] = "plan" /\ UNCHANGED <<staged, backup, sel>>
      BY <1>11 DEF PlanFixes, files
    <2>2. call[p] = "startup" /\ journal[p] = "none"
      BY <2>1 DEF JournalAfterPlan
    <2>3. \A f \in Paths : staged[p][f] = Missing /\ ~ Moved(p, f)
      BY <2>1, <2>2 DEF NotYetWritten, NoOrphanBackup, Moved
    <2>4. \A r \in Runs \ {p} : Entries(r)' = Entries(r) /\ pc'[r] = pc[r]
      <3>1. Goto(p, "ok") \/ Goto(p, "recover")
        BY <1>11 DEF PlanFixes
      <3> QED
        BY <1>11, <3>1, PlanFixesEffect DEF Goto, TypeOK
    <2>5. \A r \in Runs \ {p}, f \in Paths : orig'[r][f] = orig[r][f]
      BY <1>11, PlanFixesEffect
    <2>6. Entries(p)' = {g \in sel[p] : NeedsFix(disk[g])}
      BY <1>11, PlanFixesEffect
    <2>7. \A f \in Entries(p)' : orig'[p][f] = disk[f] /\ NeedsFix(disk[f]) /\ f \in sel[p]
      BY <1>11, <2>6, PlanFixesEffect DEF TypeOK
    <2>8. sel[p] \in Selections
      BY <2>1 DEF PlannedFixes
    <2>9. \A s \in Selections : Entries(p)' \subseteq s
      BY <2>7, <2>8 DEF OneSelection
    <2> QED
      BY <2>1, <2>3, <2>4, <2>5, <2>7, <2>8, <2>9 DEF PlannedFixes, Moved, NeedsFix
  <1>12. CASE PrepareFile(p)
    BY <1>12, PlannedFixesFrame DEF PrepareFile, TypeOK, files, local, Goto, Remaining
  <1>13. CASE EndPrepare(p)
    BY <1>13, PlannedFixesFrame DEF EndPrepare, TypeOK, files, local, Goto, Remaining
  <1>14. CASE StageFile(p)
    <2>1. PICK f \in todo[p] : \A r \in Runs, g \in Paths : staged'[r][g] =
              IF r = p /\ g = f THEN Fixed[orig[p][f]] ELSE staged[r][g]
      BY <1>14, StageFileEffect
    <2>2. /\ pc[p] = "stage" /\ UNCHANGED <<orig, sel, backup>>
          /\ \A r \in Runs \ {p} : pc'[r] = pc[r]
      BY <1>14 DEF StageFile, Goto, TypeOK
    <2>3. f \in Entries(p)
      BY <2>2 DEF PlannedTodo
    <2>4. \A r \in Runs : Entries(r)' = Entries(r)
      BY <2>2 DEF Entries
    <2> QED
      BY <2>1, <2>2, <2>3, <2>4 DEF PlannedFixes, Moved, NeedsFix
  <1>15. CASE WriteJournal(p)
    BY <1>15, PlannedFixesFrame DEF WriteJournal, TypeOK, files, local, Goto, Remaining
  <1>16. CASE MoveAside(p)
    <2>1. PICK f \in todo[p] :
              \/ \A r \in Runs, g \in Paths : backup'[r][g] =
                    IF r = p /\ g = f THEN disk[f] ELSE backup[r][g]
              \/ UNCHANGED backup
      BY <1>16, MoveAsideEffect
    <2>2. /\ pc[p] = "aside" /\ UNCHANGED <<orig, sel, staged>>
          /\ \A r \in Runs \ {p} : pc'[r] = pc[r]
      BY <1>16 DEF MoveAside, Goto, TypeOK, local
    <2>3. f \in Entries(p) /\ disk[f] = orig[p][f]
      BY <2>2 DEF PlannedTodo, MovesInOrder
    <2>4. \A r \in Runs : Entries(r)' = Entries(r)
      BY <2>2 DEF Entries
    <2> QED
      BY <2>1, <2>2, <2>3, <2>4 DEF PlannedFixes, Moved, NeedsFix
  <1>17. CASE MoveIn(p)
    <2>1. \A q \in Runs, f \in Paths : staged'[q][f] \in {Missing, staged[q][f]}
      BY <1>17, MoveInEffect
    <2>2. /\ UNCHANGED <<orig, sel, backup>> /\ pc[p] = "movein"
          /\ \A q \in Runs \ {p} : pc'[q] = pc[q]
      BY <1>17 DEF MoveIn, Goto, TypeOK
    <2> QED
      BY <2>1, <2>2, PlannedFixesFrame
  <1>18. CASE CommitJournal(p)
    BY <1>18, PlannedFixesFrame DEF CommitJournal, TypeOK, files, local, Goto, Remaining
  <1>19. CASE StagingError(p)
    BY <1>19, StagingErrorEffect, PlannedFixesFrame DEF TypeOK, files, local, Goto, Remaining
  <1>20. CASE CommitError(p)
    BY <1>20, PlannedFixesFrame DEF CommitError, TypeOK, files, local, Goto, Remaining
  <1>21. CASE ResolveError(p)
    BY <1>21, PlannedFixesFrame DEF ResolveError, TypeOK, files, local, Goto, Remaining
  <1>22. CASE Crash(p)
    BY <1>22, PlannedFixesFrame DEF Crash, TypeOK, files, local, Goto, Remaining, Live
  <1> QED
    BY <1>1, <1>2, <1>3, <1>4, <1>5, <1>6, <1>7, <1>8, <1>9, <1>10, <1>11,
       <1>12, <1>13, <1>14, <1>15, <1>16, <1>17, <1>18, <1>19, <1>20, <1>21, <1>22
       DEF RunStep, Failure

\* A run writes nothing before its time.
LEMMA NotYetWrittenStep ==
    ASSUME TypeOK, JournalAfterPlan, NotYetWritten, NEW p \in Runs,
           (StartRun(p) /\ \A q \in Runs : ~ Live(q)) \/ RunStep(p) \/ Failure(p)
    PROVE  NotYetWritten'

  <1>0. \A q \in Runs \ {p} :
            /\ pc'[q] = pc[q] /\ scan'[q] = scan[q] /\ call'[q] = call[q]
            /\ journal'[q] \in {journal[q], "none"}
            /\ \A f \in Paths : staged'[q][f] \in {Missing, staged[q][f]}
    BY OthersStay
  <1>1. CASE StartRun(p) /\ \A q \in Runs : ~ Live(q)
    BY <1>1
       DEF StartRun, TypeOK, files, local, Goto, Remaining, JournalAfterPlan, NotYetWritten,
           Resolving, Writing
  <1>2. CASE OpenJournal(p)
    BY <1>2
       DEF OpenJournal, TypeOK, files, local, Goto, Remaining, JournalAfterPlan,
           NotYetWritten, Resolving, Writing
  <1>3. CASE OpenOwnJournal(p)
    BY <1>3
       DEF OpenOwnJournal, TypeOK, files, local, Goto, Remaining, JournalAfterPlan,
           NotYetWritten, Resolving, Writing
  <1>4. CASE RollEntry(p)
    <2>1. /\ UNCHANGED <<staged, journal, scan, call>> /\ pc[p] = "roll"
          /\ pc'[p] \in {"unstage", "restore", "replace"}
      BY <1>4 DEF RollEntry, local, Goto, TypeOK
    <2> QED
      BY <1>0, <2>1 DEF NotYetWritten, Resolving, Writing
  <1>5. CASE RemoveFixed(p)
    BY <1>5
       DEF RemoveFixed, TypeOK, files, local, Goto, Remaining, JournalAfterPlan,
           NotYetWritten, Resolving, Writing
  <1>6. CASE RenameBackup(p)
    BY <1>6, RenameBackupEffect
       DEF TypeOK, files, local, Goto, Remaining, JournalAfterPlan, NotYetWritten, Resolving,
           Writing
  <1>7. CASE RemoveStaged(p)
    BY <1>7, RemoveStagedEffect
       DEF TypeOK, files, local, Goto, Remaining, JournalAfterPlan, NotYetWritten, Resolving,
           Writing
  <1>8. CASE CleanEntry(p)
    BY <1>8, CleanEntryEffect
       DEF TypeOK, files, local, Goto, Remaining, JournalAfterPlan, NotYetWritten, Resolving,
           Writing
  <1>9. CASE RemoveJournal(p)
    <2>1. /\ UNCHANGED <<staged, scan, call>> /\ Resolving(p)
          /\ pc'[p] = AfterJournal(p) /\ journal'[p] \in {journal[p], "none"}
      BY <1>9 DEF RemoveJournal, local, Goto, TypeOK, Resolving
    <2>2. call[p] \in {"startup", "write"} => pc'[p] = "recover"
      BY <2>1 DEF AfterJournal
    <2>3. call[p] \notin {"startup", "write"} => pc'[p] \in {"ok", "failed"}
      BY <2>1 DEF AfterJournal, TypeOK, Calls
    <2> QED
      BY <1>0, <2>1, <2>2, <2>3 DEF NotYetWritten, Resolving, Writing
  <1>10. CASE EndRecovery(p)
    BY <1>10
       DEF EndRecovery, TypeOK, files, local, Goto, Remaining, JournalAfterPlan,
           NotYetWritten, Resolving, Writing
  <1>11. CASE PlanFixes(p)
    <2>1. /\ UNCHANGED <<staged, journal>> /\ pc[p] = "plan" /\ call'[p] = "write"
          /\ pc'[p] \in {"ok", "recover"}
      BY <1>11 DEF PlanFixes, files, Goto, TypeOK
    <2>2. journal[p] = "none"
      BY <2>1 DEF JournalAfterPlan
    <2> QED
      BY <1>0, <2>1, <2>2 DEF NotYetWritten, Resolving, Writing
  <1>12. CASE PrepareFile(p)
    BY <1>12
       DEF PrepareFile, TypeOK, files, local, Goto, Remaining, JournalAfterPlan,
           NotYetWritten, Resolving, Writing
  <1>13. CASE EndPrepare(p)
    BY <1>13
       DEF EndPrepare, TypeOK, files, local, Goto, Remaining, JournalAfterPlan, NotYetWritten,
           Resolving, Writing
  <1>14. CASE StageFile(p)
    <2>1. /\ UNCHANGED <<journal, scan, call>> /\ pc[p] = "stage"
          /\ pc'[p] \in {"stage", "journal"}
      BY <1>14 DEF StageFile, Goto, TypeOK
    <2>2. call[p] = "write"
      BY <2>1 DEF JournalAfterPlan
    <2> QED
      BY <1>0, <2>1, <2>2 DEF NotYetWritten, Resolving, Writing
  <1>15. CASE WriteJournal(p)
    BY <1>15
       DEF WriteJournal, TypeOK, files, local, Goto, Remaining, JournalAfterPlan,
           NotYetWritten, Resolving, Writing
  <1>16. CASE MoveAside(p)
    BY <1>16, MoveAsideEffect
       DEF TypeOK, files, local, Goto, Remaining, JournalAfterPlan, NotYetWritten, Resolving,
           Writing
  <1>17. CASE MoveIn(p)
    <2>1. /\ UNCHANGED <<journal, scan, call>> /\ pc[p] = "movein"
          /\ pc'[p] \in {"aside", "commit", "rollback"}
      BY <1>17 DEF MoveIn, Goto, TypeOK
    <2>2. call[p] = "write"
      BY <2>1 DEF JournalAfterPlan
    <2> QED
      BY <1>0, <2>1, <2>2 DEF NotYetWritten, Resolving, Writing
  <1>18. CASE CommitJournal(p)
    BY <1>18
       DEF CommitJournal, TypeOK, files, local, Goto, Remaining, JournalAfterPlan,
           NotYetWritten, Resolving, Writing
  <1>19. CASE StagingError(p)
    <2>1. UNCHANGED <<scan, call>> /\ pc'[p] = "failed"
      BY <1>19 DEF StagingError, Goto, TypeOK, local
    <2>2. \A f \in Paths : staged'[p][f] = Missing
      BY <1>19, StagingErrorEffect
    <2> QED
      BY <1>0, <2>1, <2>2 DEF NotYetWritten, Resolving, Writing
  <1>20. CASE CommitError(p)
    BY <1>20
       DEF CommitError, TypeOK, files, local, Goto, Remaining, JournalAfterPlan,
           NotYetWritten, Resolving, Writing
  <1>21. CASE ResolveError(p)
    BY <1>21
       DEF ResolveError, TypeOK, files, local, Goto, Remaining, JournalAfterPlan,
           NotYetWritten, Resolving, Writing
  <1>22. CASE Crash(p)
    BY <1>22
       DEF Crash, TypeOK, files, local, Goto, Remaining, JournalAfterPlan, NotYetWritten,
           Resolving, Writing
  <1> QED
    BY <1>1, <1>2, <1>3, <1>4, <1>5, <1>6, <1>7, <1>8, <1>9, <1>10, <1>11,
       <1>12, <1>13, <1>14, <1>15, <1>16, <1>17, <1>18, <1>19, <1>20, <1>21, <1>22
       DEF RunStep, Failure

\* Only the run that takes a step is at work.
LEMMA OthersRest ==
    ASSUME OneLive, NEW p \in Runs, TypeOK,
           (StartRun(p) /\ \A q \in Runs : ~ Live(q)) \/ RunStep(p) \/ Failure(p)
    PROVE  \A q \in Runs \ {p} : ~ Live(q) /\ ~ Live(q)'
  <1>1. \A q \in Runs \ {p} : ~ Live(q)
    <2>1. CASE RunStep(p)
      <3>1. Live(p)
        BY <2>1 DEF RunStep, Live, OpenJournal, OpenOwnJournal, RollEntry, RemoveFixed,
           RenameBackup, RemoveStaged, CleanEntry, RemoveJournal, EndRecovery, PlanFixes,
           PrepareFile, EndPrepare, StageFile, WriteJournal, MoveAside, MoveIn, CommitJournal
      <3> QED
        BY <3>1 DEF OneLive
    <2>2. CASE Failure(p)
      <3>1. Live(p)
        BY <2>2 DEF Failure, Live, StagingError, CommitError, ResolveError, Crash
      <3> QED
        BY <3>1 DEF OneLive
    <2> QED
      BY <2>1, <2>2
  <1>2. \A q \in Runs \ {p} : pc'[q] = pc[q]
    BY OthersStay
  <1> QED
    BY <1>1, <1>2 DEF Live

\* The entries of a run change only as it plans.
LEMMA EntriesStay ==
    ASSUME UNCHANGED orig
    PROVE  \A q \in Runs : Entries(q)' = Entries(q)
  BY DEF Entries

(***************************************************************************)
(* Journals are resolved as they were read                                 *)
(***************************************************************************)
\* What a run resolves is as it read it.
LEMMA ResolvesAsReadStep ==
    ASSUME TypeOK, OneLive, ResolvesAsRead, NEW p \in Runs,
           (StartRun(p) /\ \A q \in Runs : ~ Live(q)) \/ RunStep(p) \/ Failure(p)
    PROVE  ResolvesAsRead'

  <1>0. \A q \in Runs \ {p} : ~ Resolving(q)'
    BY OthersRest DEF Resolving, Live
  <1>1. CASE StartRun(p) /\ \A q \in Runs : ~ Live(q)
    <2>1. ~ Resolving(p)'
      BY <1>1 DEF StartRun, Goto, TypeOK, Resolving
    <2> QED
      BY <1>0, <2>1 DEF ResolvesAsRead, Resolving
  <1>2. CASE OpenJournal(p)
    BY <1>2, <1>0
       DEF OpenJournal, TypeOK, files, local, Goto, Remaining, ResolvesAsRead, Resolving,
           Entries
  <1>3. CASE OpenOwnJournal(p)
    BY <1>3, <1>0
       DEF OpenOwnJournal, TypeOK, files, local, Goto, Remaining, ResolvesAsRead, Resolving,
           Entries
  <1>4. CASE RollEntry(p)
    <2>1. PICK f \in todo[p] :
              /\ IsLast(f, todo[p])
              /\ \/ /\ Moved(rec[p], f) /\ MustRestore(rec[p], f)
                    /\ Goto(p, IF disk[f] = Missing THEN "replace" ELSE "restore")
                    /\ UNCHANGED backup
                 \/ Goto(p, "unstage")
      BY <1>4, RollEntryEffect
    <2>2. UNCHANGED <<disk, journal, orig, todo, rec>> /\ pc[p] = "roll"
      BY <1>4 DEF RollEntry, local
    <2>3. todo[p] \subseteq Entries(rec[p])' /\ journal'[rec[p]] = "open"
      BY <2>2, EntriesStay DEF ResolvesAsRead, Resolving, TypeOK
    <2>4. CASE Goto(p, "unstage")
      BY <1>0, <2>2, <2>3, <2>4 DEF ResolvesAsRead, Resolving, Goto, TypeOK
    <2>5. CASE /\ Moved(rec[p], f) /\ MustRestore(rec[p], f)
               /\ Goto(p, IF disk[f] = Missing THEN "replace" ELSE "restore")
               /\ UNCHANGED backup
      <3>1. \A g \in Paths : IsLast(g, todo[p]) => g = f
        BY <2>1, LastUnique DEF TypeOK
      <3>2. pc'[p] = IF disk[f] = Missing THEN "replace" ELSE "restore"
        BY <2>5 DEF Goto, TypeOK
      <3>3. disk'[f] = IF pc'[p] = "replace" THEN Missing ELSE Fixed[orig'[rec[p]][f]]
        BY <2>2, <2>5, <3>2 DEF MustRestore
      <3>4. \A g \in Paths : IsLast(g, todo[p]) =>
                /\ Moved(rec[p], g)'
                /\ disk'[g] = IF pc'[p] = "replace" THEN Missing ELSE Fixed[orig'[rec[p]][g]]
        BY <2>2, <2>5, <3>1, <3>3 DEF Moved
      <3>5. Resolving(p)' /\ pc'[p] # "clean" /\ UNCHANGED <<todo, rec>>
        BY <2>2, <3>2 DEF Resolving
      <3> QED
        BY <1>0, <2>3, <3>4, <3>5 DEF ResolvesAsRead, Resolving, IsLast
    <2> QED
      BY <2>1, <2>4, <2>5
  <1>5. CASE RemoveFixed(p)
    <2>1. PICK f \in todo[p] : IsLast(f, todo[p]) /\ disk' = [disk EXCEPT ![f] = Missing]
      BY <1>5 DEF RemoveFixed
    <2>2. /\ UNCHANGED <<backup, journal, orig, todo, rec>>
          /\ pc[p] = "restore" /\ pc'[p] = "replace"
      BY <1>5 DEF RemoveFixed, local, Goto, TypeOK
    <2>3. todo[p] \subseteq Entries(rec[p])' /\ journal'[rec[p]] = "open"
      BY <2>2, EntriesStay DEF ResolvesAsRead, Resolving, TypeOK
    <2>4. \A g \in Paths : IsLast(g, todo[p]) => g = f
      BY <2>1, LastUnique DEF TypeOK
    <2>5. Moved(rec[p], f)' /\ disk'[f] = Missing
      BY <2>1, <2>2 DEF ResolvesAsRead, Moved, TypeOK
    <2> QED
      BY <1>0, <2>2, <2>3, <2>4, <2>5 DEF ResolvesAsRead, Resolving, IsLast
  <1>6. CASE RenameBackup(p)
    BY <1>6, RenameBackupEffect, <1>0
       DEF TypeOK, files, local, Goto, Remaining, ResolvesAsRead, Resolving, Entries
  <1>7. CASE RemoveStaged(p)
    BY <1>7, RemoveStagedEffect, <1>0
       DEF TypeOK, files, local, Goto, Remaining, ResolvesAsRead, Resolving, Entries
  <1>8. CASE CleanEntry(p)
    BY <1>8, CleanEntryEffect, <1>0
       DEF TypeOK, files, local, Goto, Remaining, ResolvesAsRead, Resolving, Entries
  <1>9. CASE RemoveJournal(p)
    <2>1. ~ Resolving(p)'
      BY <1>9 DEF RemoveJournal, Goto, TypeOK, Resolving, AfterJournal, Calls
    <2> QED
      BY <1>0, <2>1 DEF ResolvesAsRead, Resolving
  <1>10. CASE EndRecovery(p)
    <2>1. ~ Resolving(p)'
      BY <1>10 DEF EndRecovery, Goto, TypeOK, Resolving
    <2> QED
      BY <1>0, <2>1 DEF ResolvesAsRead, Resolving
  <1>11. CASE PlanFixes(p)
    <2>1. ~ Resolving(p)'
      BY <1>11 DEF PlanFixes, Goto, TypeOK, Resolving
    <2> QED
      BY <1>0, <2>1 DEF ResolvesAsRead, Resolving
  <1>12. CASE PrepareFile(p)
    <2>1. ~ Resolving(p)'
      BY <1>12 DEF PrepareFile, Goto, TypeOK, Resolving
    <2> QED
      BY <1>0, <2>1 DEF ResolvesAsRead, Resolving
  <1>13. CASE EndPrepare(p)
    <2>1. ~ Resolving(p)'
      BY <1>13 DEF EndPrepare, Goto, TypeOK, Resolving
    <2> QED
      BY <1>0, <2>1 DEF ResolvesAsRead, Resolving
  <1>14. CASE StageFile(p)
    <2>1. ~ Resolving(p)'
      BY <1>14 DEF StageFile, Goto, TypeOK, Resolving
    <2> QED
      BY <1>0, <2>1 DEF ResolvesAsRead, Resolving
  <1>15. CASE WriteJournal(p)
    <2>1. ~ Resolving(p)'
      BY <1>15 DEF WriteJournal, Goto, TypeOK, Resolving
    <2> QED
      BY <1>0, <2>1 DEF ResolvesAsRead, Resolving
  <1>16. CASE MoveAside(p)
    <2>1. ~ Resolving(p)'
      BY <1>16 DEF MoveAside, Goto, TypeOK, Resolving
    <2> QED
      BY <1>0, <2>1 DEF ResolvesAsRead, Resolving
  <1>17. CASE MoveIn(p)
    <2>1. ~ Resolving(p)'
      BY <1>17 DEF MoveIn, Goto, TypeOK, Resolving
    <2> QED
      BY <1>0, <2>1 DEF ResolvesAsRead, Resolving
  <1>18. CASE CommitJournal(p)
    BY <1>18, <1>0
       DEF CommitJournal, TypeOK, files, local, Goto, Remaining, ResolvesAsRead, Resolving,
           Entries
  <1>19. CASE StagingError(p)
    <2>1. ~ Resolving(p)'
      BY <1>19 DEF StagingError, Goto, TypeOK, Resolving
    <2> QED
      BY <1>0, <2>1 DEF ResolvesAsRead, Resolving
  <1>20. CASE CommitError(p)
    <2>1. ~ Resolving(p)'
      BY <1>20 DEF CommitError, Goto, TypeOK, Resolving
    <2> QED
      BY <1>0, <2>1 DEF ResolvesAsRead, Resolving
  <1>21. CASE ResolveError(p)
    <2>1. ~ Resolving(p)'
      BY <1>21 DEF ResolveError, Goto, TypeOK, Resolving
    <2> QED
      BY <1>0, <2>1 DEF ResolvesAsRead, Resolving
  <1>22. CASE Crash(p)
    <2>1. ~ Resolving(p)'
      BY <1>22 DEF Crash, Goto, TypeOK, Resolving
    <2> QED
      BY <1>0, <2>1 DEF ResolvesAsRead, Resolving
  <1> QED
    BY <1>1, <1>2, <1>3, <1>4, <1>5, <1>6, <1>7, <1>8, <1>9, <1>10, <1>11,
       <1>12, <1>13, <1>14, <1>15, <1>16, <1>17, <1>18, <1>19, <1>20, <1>21, <1>22
       DEF RunStep, Failure

(***************************************************************************)
(* Files are moved in the order of the journal                             *)
(***************************************************************************)
\* The first of a set of paths is unique too.
LEMMA FirstUnique ==
    ASSUME NEW S \in SUBSET Paths, NEW f, NEW g, IsFirst(f, S), IsFirst(g, S)
    PROVE  f = g
  BY OrderAssumption DEF IsFirst

\* What a run has checked stays as it was until it moves it.
LEMMA MovesInOrderStep ==
    ASSUME TypeOK, OneLive, PlannedTodo, PlannedFixes, NotYetWritten,
           NoOrphanBackup, MovesInOrder, NEW p \in Runs,
           (StartRun(p) /\ \A q \in Runs : ~ Live(q)) \/ RunStep(p) \/ Failure(p)
    PROVE  MovesInOrder'

  <1>0. \A q \in Runs \ {p} : ~ Writing(q)'
    BY OthersRest DEF Writing, Live
  <1>1. CASE StartRun(p) /\ \A q \in Runs : ~ Live(q)
    <2>1. ~ Writing(p)'
      BY <1>1 DEF StartRun, Goto, TypeOK, Writing
    <2> QED
      BY <1>0, <2>1 DEF MovesInOrder, Writing
  <1>2. CASE OpenJournal(p)
    <2>1. ~ Writing(p)'
      BY <1>2 DEF OpenJournal, Goto, TypeOK, Writing
    <2> QED
      BY <1>0, <2>1 DEF MovesInOrder, Writing
  <1>3. CASE OpenOwnJournal(p)
    <2>1. ~ Writing(p)'
      BY <1>3 DEF OpenOwnJournal, Goto, TypeOK, Writing
    <2> QED
      BY <1>0, <2>1 DEF MovesInOrder, Writing
  <1>4. CASE RollEntry(p)
    <2>1. ~ Writing(p)'
      BY <1>4 DEF RollEntry, Goto, TypeOK, Writing
    <2> QED
      BY <1>0, <2>1 DEF MovesInOrder, Writing
  <1>5. CASE RemoveFixed(p)
    <2>1. ~ Writing(p)'
      BY <1>5 DEF RemoveFixed, Goto, TypeOK, Writing
    <2> QED
      BY <1>0, <2>1 DEF MovesInOrder, Writing
  <1>6. CASE RenameBackup(p)
    <2>1. ~ Writing(p)'
      BY <1>6 DEF RenameBackup, Goto, TypeOK, Writing
    <2> QED
      BY <1>0, <2>1 DEF MovesInOrder, Writing
  <1>7. CASE RemoveStaged(p)
    <2>1. ~ Writing(p)'
      BY <1>7 DEF RemoveStaged, Goto, TypeOK, Writing
    <2> QED
      BY <1>0, <2>1 DEF MovesInOrder, Writing
  <1>8. CASE CleanEntry(p)
    <2>1. ~ Writing(p)'
      BY <1>8 DEF CleanEntry, Goto, TypeOK, Writing
    <2> QED
      BY <1>0, <2>1 DEF MovesInOrder, Writing
  <1>9. CASE RemoveJournal(p)
    <2>1. ~ Writing(p)'
      BY <1>9 DEF RemoveJournal, Goto, TypeOK, Writing, AfterJournal, Calls
    <2> QED
      BY <1>0, <2>1 DEF MovesInOrder, Writing
  <1>10. CASE EndRecovery(p)
    <2>1. UNCHANGED <<disk, orig>> /\ \/ pc'[p] = "plan"
                                      \/ pc'[p] = "prepare" /\ todo'[p] = Entries(p)
      BY <1>10 DEF EndRecovery, files, Goto, Remaining, TypeOK
    <2> QED
      BY <1>0, <2>1 DEF MovesInOrder, Writing, Entries
  <1>11. CASE PlanFixes(p)
    <2>1. ~ Writing(p)'
      BY <1>11 DEF PlanFixes, Goto, TypeOK, Writing
    <2> QED
      BY <1>0, <2>1 DEF MovesInOrder, Writing
  <1>12. CASE PrepareFile(p)
    <2>1. PICK f \in todo[p] :
              \/ disk[f] = orig[p][f] /\ todo'[p] = todo[p] \ {f} /\ pc'[p] = "prepare"
              \/ pc'[p] = "failed"
      BY <1>12 DEF PrepareFile, Remaining, Goto, TypeOK
    <2>2. pc[p] = "prepare" /\ UNCHANGED <<disk, orig>>
      BY <1>12 DEF PrepareFile, files
    <2> QED
      BY <1>0, <2>1, <2>2 DEF MovesInOrder, Writing, Entries
  <1>13. CASE EndPrepare(p)
    <2>1. pc[p] = "prepare" /\ pc'[p] = "stage" /\ todo[p] = {} /\ UNCHANGED <<disk, orig>>
      BY <1>13 DEF EndPrepare, files, Goto, TypeOK
    <2> QED
      BY <1>0, <2>1 DEF MovesInOrder, Writing, Entries
  <1>14. CASE StageFile(p)
    <2>1. pc[p] = "stage" /\ pc'[p] \in {"stage", "journal"} /\ UNCHANGED <<disk, orig>>
      BY <1>14 DEF StageFile, Goto, TypeOK
    <2> QED
      BY <1>0, <2>1 DEF MovesInOrder, Writing, Entries
  <1>15. CASE WriteJournal(p)
    <2>1. /\ pc[p] = "journal" /\ pc'[p] = "aside" /\ todo'[p] = Entries(p)
          /\ UNCHANGED <<disk, backup, orig>>
      BY <1>15 DEF WriteJournal, Goto, Remaining, TypeOK
    <2>2. \A f \in Entries(p) : disk[f] = orig[p][f] /\ ~ Moved(p, f)
      BY <2>1 DEF MovesInOrder, NotYetWritten, NoOrphanBackup, Moved, Entries
    <2>3. Entries(p)' = Entries(p)
      BY <2>1, EntriesStay
    <2> QED
      BY <1>0, <2>1, <2>2, <2>3 DEF MovesInOrder, Writing, Moved
  <1>16. CASE MoveAside(p)
    <2>1. PICK f \in todo[p] :
              /\ IsFirst(f, todo[p])
              /\ \/ /\ disk[f] # Missing /\ Goto(p, "movein")
                    /\ disk' = [disk EXCEPT ![f] = Missing]
                    /\ \A r \in Runs, g \in Paths : backup'[r][g] =
                          IF r = p /\ g = f THEN disk[f] ELSE backup[r][g]
                 \/ Goto(p, "rollback")
      BY <1>16, MoveAsideEffect
    <2>2. UNCHANGED <<orig, todo>> /\ pc[p] = "aside"
      BY <1>16 DEF MoveAside, local
    <2>3. CASE Goto(p, "rollback")
      BY <1>0, <2>3 DEF MovesInOrder, Writing, Goto, TypeOK
    <2>4. CASE /\ disk[f] # Missing /\ Goto(p, "movein")
               /\ disk' = [disk EXCEPT ![f] = Missing]
               /\ \A r \in Runs, g \in Paths : backup'[r][g] =
                     IF r = p /\ g = f THEN disk[f] ELSE backup[r][g]
      <3>1. \A g \in todo[p] : IsFirst(g, todo[p]) <=> g = f
        BY <2>1, FirstUnique DEF TypeOK
      <3>2. Moved(p, f)' /\ disk'[f] = Missing
        BY <2>4 DEF Moved, TypeOK
      <3>3. \A g \in Paths \ {f} : disk'[g] = disk[g] /\ backup'[p][g] = backup[p][g]
        BY <2>4 DEF TypeOK
      <3>4. \A g \in todo[p] : IF IsFirst(g, todo[p])
                               THEN disk'[g] = Missing /\ Moved(p, g)'
                               ELSE disk'[g] = orig[p][g] /\ ~ Moved(p, g)'
        BY <2>2, <3>1, <3>2, <3>3 DEF MovesInOrder, Moved, TypeOK
      <3>5. \A g \in Entries(p) \ todo[p] : Moved(p, g)' /\ disk'[g] # Missing
        BY <2>2, <3>3 DEF MovesInOrder, Moved, Entries
      <3>6. pc'[p] = "movein" /\ Entries(p)' = Entries(p)
        BY <2>2, <2>4, EntriesStay DEF Goto, TypeOK
      <3> QED
        BY <1>0, <2>2, <3>4, <3>5, <3>6 DEF MovesInOrder, Writing, IsFirst
    <2> QED
      BY <2>1, <2>3, <2>4
  <1>17. CASE MoveIn(p)
    <2>1. PICK f \in todo[p] :
              /\ IsFirst(f, todo[p])
              /\ \/ /\ staged[p][f] # Missing
                    /\ disk' = [disk EXCEPT ![f] = staged[p][f]]
                    /\ Remaining(p, todo[p] \ {f})
                    /\ Goto(p, IF todo[p] = {f} THEN "commit" ELSE "aside")
                 \/ Goto(p, "rollback")
      BY <1>17, MoveInEffect
    <2>2. UNCHANGED <<orig, backup>> /\ pc[p] = "movein"
      BY <1>17 DEF MoveIn
    <2>3. CASE Goto(p, "rollback")
      BY <1>0, <2>3 DEF MovesInOrder, Writing, Goto, TypeOK
    <2>4. CASE /\ staged[p][f] # Missing
               /\ disk' = [disk EXCEPT ![f] = staged[p][f]]
               /\ Remaining(p, todo[p] \ {f})
               /\ Goto(p, IF todo[p] = {f} THEN "commit" ELSE "aside")
      <3>1. \A g \in todo[p] : IsFirst(g, todo[p]) <=> g = f
        BY <2>1, FirstUnique DEF TypeOK
      <3>2. Moved(p, f) /\ disk'[f] # Missing
        BY <2>1, <2>2, <2>4 DEF MovesInOrder, TypeOK
      <3>3. \A g \in Paths \ {f} : disk'[g] = disk[g]
        BY <2>4 DEF TypeOK
      <3>4. \A g \in todo[p] \ {f} : disk'[g] = orig[p][g] /\ ~ Moved(p, g)
        BY <2>2, <3>1, <3>3 DEF MovesInOrder, TypeOK
      <3>5. \A g \in Entries(p) \ (todo[p] \ {f}) : Moved(p, g) /\ disk'[g] # Missing
        BY <2>2, <3>2, <3>3 DEF MovesInOrder, Entries
      <3>6. \A g \in todo[p] \ {f} : f < g
        BY <2>1, OrderAssumption DEF IsFirst, TypeOK
      <3>7. \A g \in Entries(p) \ (todo[p] \ {f}), h \in todo[p] \ {f} : g < h
        BY <2>2, <3>6 DEF MovesInOrder
      <3>8. \E e \in Paths : IsFirst(e, Entries(p))
        <4>1. f \in Paths
          BY DEF TypeOK
        <4>2. todo[p] = Entries(p) \/ \E e \in Paths : IsFirst(e, Entries(p))
          BY <2>2 DEF MovesInOrder
        <4> QED
          BY <2>1, <4>1, <4>2
      <3>9. /\ pc'[p] = IF todo[p] = {f} THEN "commit" ELSE "aside"
            /\ todo'[p] = todo[p] \ {f} /\ Entries(p)' = Entries(p)
        BY <2>2, <2>4, EntriesStay DEF Goto, Remaining, TypeOK
      <3> QED
        BY <1>0, <2>2, <3>4, <3>5, <3>7, <3>8, <3>9 DEF MovesInOrder, Writing, Moved, IsFirst
    <2> QED
      BY <2>1, <2>3, <2>4
  <1>18. CASE CommitJournal(p)
    <2>1. ~ Writing(p)'
      BY <1>18 DEF CommitJournal, Goto, TypeOK, Writing
    <2> QED
      BY <1>0, <2>1 DEF MovesInOrder, Writing
  <1>19. CASE StagingError(p)
    <2>1. ~ Writing(p)'
      BY <1>19 DEF StagingError, Goto, TypeOK, Writing
    <2> QED
      BY <1>0, <2>1 DEF MovesInOrder, Writing
  <1>20. CASE CommitError(p)
    <2>1. ~ Writing(p)'
      BY <1>20 DEF CommitError, Goto, TypeOK, Writing
    <2> QED
      BY <1>0, <2>1 DEF MovesInOrder, Writing
  <1>21. CASE ResolveError(p)
    <2>1. ~ Writing(p)'
      BY <1>21 DEF ResolveError, Goto, TypeOK, Writing
    <2> QED
      BY <1>0, <2>1 DEF MovesInOrder, Writing
  <1>22. CASE Crash(p)
    <2>1. ~ Writing(p)'
      BY <1>22 DEF Crash, Goto, TypeOK, Writing
    <2> QED
      BY <1>0, <2>1 DEF MovesInOrder, Writing
  <1> QED
    BY <1>1, <1>2, <1>3, <1>4, <1>5, <1>6, <1>7, <1>8, <1>9, <1>10, <1>11,
       <1>12, <1>13, <1>14, <1>15, <1>16, <1>17, <1>18, <1>19, <1>20, <1>21, <1>22
       DEF RunStep, Failure

(***************************************************************************)
(* Where backups are, and which journals a recovery goes past              *)
(***************************************************************************)
\* Backups that nothing is added to keep telling which journals can be found.
LEMMA LastIsMissingFrame ==
    ASSUME LastIsMissing, UNCHANGED orig,
           \A q \in Runs, f \in Paths : backup'[q][f] \in {Missing, backup[q][f]},
           \A f \in Paths : disk[f] # Missing => disk'[f] # Missing
    PROVE  LastIsMissing'
  <1>1. \A q \in Runs : Entries(q)' = Entries(q) /\ Entries(q) \subseteq Paths
    BY EntriesStay DEF Entries
  <1>2. \A q \in Runs, g \in Paths : Moved(q, g)' => Moved(q, g)
    BY DEF Moved
  <1> QED
    BY <1>1, <1>2 DEF LastIsMissing, IsFirst

\* Backups that nothing is added to stay apart.
LEMMA SeparateFrame ==
    ASSUME Separate, UNCHANGED orig,
           \A q \in Runs, f \in Paths : backup'[q][f] \in {Missing, backup[q][f]}
    PROVE  Separate'
  <1>1. \A q \in Runs : Entries(q)' = Entries(q)
    BY EntriesStay
  <1>2. \A q \in Runs, g \in Paths : Moved(q, g)' => Moved(q, g)
    BY DEF Moved
  <1> QED
    BY <1>1, <1>2 DEF Separate, IsFirst

\* Only MoveAside adds a backup.
LEMMA BackupsShrink ==
    ASSUME TypeOK, NEW p \in Runs,
           (StartRun(p) /\ \A q \in Runs : ~ Live(q)) \/ RunStep(p) \/ Failure(p),
           ~ MoveAside(p)
    PROVE  \A q \in Runs, f \in Paths : backup'[q][f] \in {Missing, backup[q][f]}
  <1>1. CASE StartRun(p) /\ \A q \in Runs : ~ Live(q)
    BY <1>1 DEF StartRun, files
  <1>2. CASE OpenJournal(p)
    BY <1>2 DEF OpenJournal, files
  <1>3. CASE OpenOwnJournal(p)
    BY <1>3 DEF OpenOwnJournal, files
  <1>4. CASE RollEntry(p)
    <2>1. CASE UNCHANGED backup
      BY <2>1
    <2>2. CASE \E f \in Paths : backup' = [backup EXCEPT ![rec[p]][f] = Missing]
      BY <2>2 DEF TypeOK
    <2> QED
      BY <1>4, <2>1, <2>2 DEF RollEntry, TypeOK
  <1>5. CASE RemoveFixed(p)
    BY <1>5 DEF RemoveFixed, files
  <1>6. CASE RenameBackup(p)
    BY <1>6, RenameBackupEffect
  <1>7. CASE RemoveStaged(p)
    BY <1>7 DEF RemoveStaged, files
  <1>8. CASE CleanEntry(p)
    <2>1. CASE UNCHANGED backup
      BY <2>1
    <2>2. CASE \E f \in Paths : backup' = [backup EXCEPT ![rec[p]][f] = Missing]
      BY <2>2 DEF TypeOK
    <2> QED
      BY <1>8, <2>1, <2>2 DEF CleanEntry, TypeOK
  <1>9. CASE RemoveJournal(p)
    BY <1>9 DEF RemoveJournal, files
  <1>10. CASE EndRecovery(p)
    BY <1>10 DEF EndRecovery, files
  <1>11. CASE PlanFixes(p)
    BY <1>11 DEF PlanFixes, files
  <1>12. CASE PrepareFile(p)
    BY <1>12 DEF PrepareFile, files
  <1>13. CASE EndPrepare(p)
    BY <1>13 DEF EndPrepare, files
  <1>14. CASE StageFile(p)
    BY <1>14 DEF StageFile, files
  <1>15. CASE WriteJournal(p)
    BY <1>15 DEF WriteJournal, files
  <1>16. CASE MoveAside(p)
    BY <1>16
  <1>17. CASE MoveIn(p)
    BY <1>17 DEF MoveIn, files
  <1>18. CASE CommitJournal(p)
    BY <1>18 DEF CommitJournal, files
  <1>19. CASE StagingError(p)
    BY <1>19 DEF StagingError, files
  <1>20. CASE CommitError(p)
    BY <1>20 DEF CommitError, files
  <1>21. CASE ResolveError(p)
    BY <1>21 DEF ResolveError, files
  <1>22. CASE Crash(p)
    BY <1>22 DEF Crash, files
  <1> QED
    BY <1>1, <1>2, <1>3, <1>4, <1>5, <1>6, <1>7, <1>8, <1>9, <1>10, <1>11,
       <1>12, <1>13, <1>14, <1>15, <1>16, <1>17, <1>18, <1>19, <1>20, <1>21, <1>22
       DEF RunStep, Failure


\* While it writes, a run knows that no other journal has a backup beside its files,
\* nor more than a backup of its first entry.
LEMMA WritingAlone ==
    ASSUME RecoveryIsEnough, NotYetWritten, JournalAfterPlan, NEW p \in Runs,
           pc[p] = "aside", NEW q \in Runs \ {p}, NEW g \in Paths, Moved(q, g)
    PROVE  /\ IsFirst(g, Entries(q))
           /\ \A f \in Entries(p) : DirOf[f] # DirOf[g]
  <1>1. Writing(p) /\ ~ Resolving(p)
    BY DEF Writing, Resolving
  <1>2. scan[p] = {} /\ call[p] = "write"
    BY <1>1 DEF NotYetWritten, JournalAfterPlan
  <1>3. ~ Ahead(p, q)
    BY <1>1, <1>2 DEF Ahead
  <1> QED
    BY <1>1, <1>2, <1>3 DEF RecoveryIsEnough

\* A run that plans has nothing moved aside.
LEMMA PlanningKeepsNothing ==
    ASSUME TypeOK, JournalAfterPlan, NoOrphanBackup, NEW p \in Runs, PlanFixes(p)
    PROVE  /\ \A f \in Paths : ~ Moved(p, f)
           /\ UNCHANGED <<disk, backup>>
           /\ \A r \in Runs \ {p} : Entries(r)' = Entries(r)
  <1>1. pc[p] = "plan" /\ UNCHANGED <<disk, backup>>
    BY DEF PlanFixes, files
  <1>2. journal[p] = "none"
    BY <1>1 DEF JournalAfterPlan
  <1>3. \A r \in Runs \ {p} : Entries(r)' = Entries(r)
    BY PlanFixesEffect
  <1> QED
    BY <1>1, <1>2, <1>3 DEF NoOrphanBackup, Moved

\* Only MoveAside and RemoveFixed leave a path without its file, and only PlanFixes
\* makes another plan.
LEMMA FilesStay ==
    ASSUME TypeOK, NEW p \in Runs,
           (StartRun(p) /\ \A q \in Runs : ~ Live(q)) \/ RunStep(p) \/ Failure(p),
           ~ MoveAside(p), ~ RemoveFixed(p), ~ PlanFixes(p)
    PROVE  UNCHANGED orig /\ \A f \in Paths : disk[f] # Missing => disk'[f] # Missing
  <1>1. CASE StartRun(p) /\ \A q \in Runs : ~ Live(q)
    BY <1>1 DEF StartRun, files
  <1>2. CASE OpenJournal(p)
    BY <1>2 DEF OpenJournal, files
  <1>3. CASE OpenOwnJournal(p)
    BY <1>3 DEF OpenOwnJournal, files
  <1>4. CASE RollEntry(p)
    BY <1>4 DEF RollEntry, files
  <1>5. CASE RenameBackup(p)
    BY <1>5, RenameBackupEffect DEF Moved, TypeOK
  <1>6. CASE RemoveStaged(p)
    BY <1>6 DEF RemoveStaged, files
  <1>7. CASE CleanEntry(p)
    BY <1>7 DEF CleanEntry, files
  <1>8. CASE RemoveJournal(p)
    BY <1>8 DEF RemoveJournal, files
  <1>9. CASE EndRecovery(p)
    BY <1>9 DEF EndRecovery, files
  <1>10. CASE PrepareFile(p)
    BY <1>10 DEF PrepareFile, files
  <1>11. CASE EndPrepare(p)
    BY <1>11 DEF EndPrepare, files
  <1>12. CASE StageFile(p)
    BY <1>12 DEF StageFile, files
  <1>13. CASE WriteJournal(p)
    BY <1>13 DEF WriteJournal, files
  <1>14. CASE MoveIn(p)
    BY <1>14 DEF MoveIn, TypeOK
  <1>15. CASE CommitJournal(p)
    BY <1>15 DEF CommitJournal, files
  <1>16. CASE StagingError(p)
    BY <1>16 DEF StagingError, files
  <1>17. CASE CommitError(p)
    BY <1>17 DEF CommitError, files
  <1>18. CASE ResolveError(p)
    BY <1>18 DEF ResolveError, files
  <1>19. CASE Crash(p)
    BY <1>19 DEF Crash, files
  <1> QED
    BY <1>1, <1>2, <1>3, <1>4, <1>5, <1>6, <1>7, <1>8, <1>9, <1>10,
       <1>11, <1>12, <1>13, <1>14, <1>15, <1>16, <1>17, <1>18, <1>19 DEF RunStep, Failure

\* A file goes missing only where its journal is found.
LEMMA LastIsMissingStep ==
    ASSUME TypeOK, OneLive, PlannedTodo, JournalAfterPlan, NoOrphanBackup, ResolvedBehind,
           NotYetWritten, ResolvesAsRead, MovesInOrder, LastIsMissing, Separate,
           RecoveryIsEnough, NEW p \in Runs,
           (StartRun(p) /\ \A q \in Runs : ~ Live(q)) \/ RunStep(p) \/ Failure(p)
    PROVE  LastIsMissing'
  <1>1. CASE MoveAside(p)
    <2>1. PICK f \in todo[p] :
              /\ IsFirst(f, todo[p])
              /\ \/ /\ disk' = [disk EXCEPT ![f] = Missing]
                    /\ \A r \in Runs, g \in Paths : backup'[r][g] =
                          IF r = p /\ g = f THEN disk[f] ELSE backup[r][g]
                 \/ UNCHANGED <<disk, backup>>
      BY <1>1, MoveAsideEffect
    <2>2. pc[p] = "aside" /\ UNCHANGED orig /\ f \in Paths /\ f \in Entries(p)
      BY <1>1 DEF MoveAside, PlannedTodo, TypeOK
    <2>3. CASE UNCHANGED <<disk, backup>>
      BY <2>2, <2>3, LastIsMissingFrame
    <2>4. CASE /\ disk' = [disk EXCEPT ![f] = Missing]
               /\ \A r \in Runs, g \in Paths : backup'[r][g] =
                     IF r = p /\ g = f THEN disk[f] ELSE backup[r][g]
      <3>1. \A q \in Runs : Entries(q)' = Entries(q) /\ Entries(q) \subseteq Paths
        BY <2>2, EntriesStay DEF Entries
      <3>2. \A g \in Paths \ {f} : disk'[g] = disk[g]
        BY <2>4 DEF TypeOK
      <3>3. \E e \in Paths : IsFirst(e, Entries(p))
        BY <2>1, <2>2 DEF MovesInOrder
      <3>4. \A h \in Entries(p) : h < f => disk'[h] # Missing
        <4>1. \A h \in Entries(p) : h < f => h \notin todo[p]
          BY <2>1, <2>2, <3>1, OrderAssumption DEF IsFirst
        <4>2. \A h \in Entries(p) \ todo[p] : disk[h] # Missing
          BY <2>2 DEF MovesInOrder
        <4> QED
          BY <2>1, <3>1, <3>2, <4>1, <4>2
      <3>5. ASSUME NEW q \in Runs, NEW g \in Paths, Moved(q, g),
                   NEW h \in Entries(q), h < g
            PROVE  disk'[h] # Missing
        <4>1. disk[h] # Missing
          BY <3>5 DEF LastIsMissing
        <4>2. CASE q = p
          <5>1. g \in Entries(p) \ todo[p]
            BY <2>2, <3>5, <4>2 DEF MovesInOrder, NoOrphanBackup, Moved
          <5>2. g < f
            BY <2>1, <2>2, <5>1 DEF MovesInOrder
          <5>3. h \in Nat /\ g \in Nat /\ f \in Nat
            BY <2>2, <3>1, OrderAssumption
          <5>4. h # f
            BY <3>5, <5>2, <5>3
          <5> QED
            BY <3>1, <3>2, <4>1, <5>4
        <4>3. CASE q # p
          <5>1. IsFirst(g, Entries(q))
            BY <2>2, <3>5, <4>3, WritingAlone
          <5> QED
            BY <3>1, <3>5, <5>1, OrderAssumption DEF IsFirst
        <4> QED
          BY <4>2, <4>3
      <3>6. \A q \in Runs, g \in Paths : Moved(q, g)' => (q = p /\ g = f) \/ Moved(q, g)
        BY <2>4 DEF Moved
      <3> QED
        BY <3>1, <3>3, <3>4, <3>5, <3>6 DEF LastIsMissing, IsFirst
    <2> QED
      BY <2>1, <2>3, <2>4
  <1>2. CASE RemoveFixed(p)
    <2>1. PICK f \in todo[p] : IsLast(f, todo[p]) /\ disk' = [disk EXCEPT ![f] = Missing]
      BY <1>2 DEF RemoveFixed
    <2>2. /\ pc[p] = "restore" /\ UNCHANGED <<backup, orig>>
          /\ f \in Paths /\ rec[p] \in Runs /\ todo[p] \subseteq Paths
      BY <1>2 DEF RemoveFixed, TypeOK
    <2>3. Moved(rec[p], f)
      BY <2>1, <2>2 DEF ResolvesAsRead
    <2>4. \A q \in Runs : Entries(q)' = Entries(q) /\ Entries(q) \subseteq Paths
      BY <2>2, EntriesStay DEF Entries
    <2>5. ASSUME NEW q \in Runs, NEW g \in Paths, Moved(q, g),
                 NEW h \in Entries(q), h < g
          PROVE  disk'[h] # Missing
      <3>1. disk[h] # Missing
        BY <2>5 DEF LastIsMissing
      <3>2. g <= f \/ h # f
        <4>1. CASE q = rec[p]
          <5>1. g \in todo[p]
            BY <2>2, <2>5, <4>1 DEF ResolvedBehind, Moved
          <5> QED
            BY <2>1, <5>1 DEF IsLast
        <4>2. CASE q # rec[p] /\ h = f
          BY <2>2, <2>3, <2>5, <4>2 DEF Separate, IsFirst
        <4> QED
          BY <4>1, <4>2
      <3>3. h # f
        BY <2>2, <2>4, <2>5, <3>2, OrderAssumption
      <3> QED
        BY <2>1, <2>2, <2>4, <3>1, <3>3 DEF TypeOK
    <2> QED
      BY <2>2, <2>4, <2>5 DEF LastIsMissing, Moved, IsFirst
  <1>3. CASE PlanFixes(p)
    <2>1. \A q \in Runs, g \in Paths : Moved(q, g)' => q # p /\ Moved(q, g)
      BY <1>3, PlanningKeepsNothing DEF Moved
    <2>2. UNCHANGED disk /\ \A r \in Runs \ {p} : Entries(r)' = Entries(r)
      BY <1>3, PlanningKeepsNothing
    <2> QED
      BY <2>1, <2>2 DEF LastIsMissing, IsFirst
  <1>4. CASE ~ MoveAside(p) /\ ~ RemoveFixed(p) /\ ~ PlanFixes(p)
    BY <1>4, FilesStay, BackupsShrink, LastIsMissingFrame
  <1> QED
    BY <1>1, <1>2, <1>3, <1>4

\* A run adds a backup only where no other journal has one.
LEMMA SeparateStep ==
    ASSUME TypeOK, PlannedTodo, JournalAfterPlan, NoOrphanBackup, NotYetWritten,
           RecoveryIsEnough, Separate, NEW p \in Runs,
           (StartRun(p) /\ \A q \in Runs : ~ Live(q)) \/ RunStep(p) \/ Failure(p)
    PROVE  Separate'
  <1>1. CASE MoveAside(p)
    <2>1. PICK f \in todo[p] : \A q \in Runs, g \in Paths :
              Moved(q, g)' => (q = p /\ g = f) \/ Moved(q, g)
      BY <1>1, MoveAsideEffect DEF Moved
    <2>2. pc[p] = "aside" /\ UNCHANGED orig /\ f \in Entries(p)
      BY <1>1 DEF MoveAside, PlannedTodo
    <2>3. \A q \in Runs : Entries(q)' = Entries(q)
      BY <2>2, EntriesStay
    <2>4. \A q \in Runs \ {p}, g \in Paths : Moved(q, g) =>
              IsFirst(g, Entries(q)) /\ DirOf[f] # DirOf[g] /\ g \notin Entries(p)
      BY <2>2, WritingAlone
    <2> QED
      BY <2>1, <2>3, <2>4 DEF Separate, IsFirst
  <1>2. CASE PlanFixes(p)
    <2>1. \A q \in Runs, g \in Paths : Moved(q, g)' => q # p /\ Moved(q, g)
      BY <1>2, PlanningKeepsNothing DEF Moved
    <2>2. \A r \in Runs \ {p} : Entries(r)' = Entries(r)
      BY <1>2, PlanningKeepsNothing
    <2> QED
      BY <2>1, <2>2 DEF Separate, IsFirst
  <1>3. CASE RemoveFixed(p)
    BY <1>3, SeparateFrame DEF RemoveFixed
  <1>4. CASE ~ MoveAside(p) /\ ~ RemoveFixed(p) /\ ~ PlanFixes(p)
    BY <1>4, FilesStay, BackupsShrink, SeparateFrame
  <1> QED
    BY <1>1, <1>2, <1>3, <1>4

\* A run that neither plans nor comes to another phase keeps what it has found out
\* about the other journals.
LEMMA RecoveryFrame ==
    ASSUME TypeOK, OneLive, RecoveryIsEnough, NEW p \in Runs,
           (StartRun(p) /\ \A q \in Runs : ~ Live(q)) \/ RunStep(p) \/ Failure(p),
           UNCHANGED <<orig, call, scan>>,
           \/ Resolving(p) /\ Resolving(p)' /\ UNCHANGED rec
           \/ Writing(p) /\ Writing(p)'
           \/ pc'[p] \in {"rollback", "failed", "crashed", "ok"}
    PROVE  RecoveryIsEnough'
  <1>1. \A q \in Runs \ {p} : ~ Live(q)'
    BY OthersRest
  <1>2. \A q \in Runs \ {p}, g \in Paths : Moved(q, g)' => Moved(q, g)
    BY OthersStay DEF Moved
  <1>3. \A q \in Runs : Entries(q)' = Entries(q)
    BY EntriesStay
  <1>4. CASE pc'[p] \in {"rollback", "failed", "crashed", "ok"}
    BY <1>1, <1>4 DEF RecoveryIsEnough, Live, Resolving, Writing
  <1>5. CASE Resolving(p) /\ Resolving(p)' /\ UNCHANGED rec
    <2>1. \A q \in Runs : Ahead(p, q)' <=> Ahead(p, q)
      BY <1>5 DEF Ahead
    <2>2. ~ Writing(p)' /\ pc'[p] # "plan"
      BY <1>5 DEF Resolving, Writing
    <2> QED
      BY <1>1, <1>2, <1>3, <1>5, <2>1, <2>2
         DEF RecoveryIsEnough, Live, Resolving, Writing, IsFirst
  <1>6. CASE Writing(p) /\ Writing(p)'
    <2>1. \A q \in Runs : Ahead(p, q) => Ahead(p, q)'
      BY <1>6 DEF Ahead, Resolving, Writing
    <2>2. ~ Resolving(p)' /\ pc'[p] \notin {"plan", "recover"}
      BY <1>6 DEF Resolving, Writing
    <2> QED
      BY <1>1, <1>2, <1>3, <1>6, <2>1, <2>2
         DEF RecoveryIsEnough, Live, Resolving, Writing, IsFirst
  <1> QED
    BY <1>4, <1>5, <1>6

\* What a recovery goes past is either before it still, or harmless.
LEMMA RecoveryIsEnoughStep ==
    ASSUME OneSelection, TypeOK, OneLive, JournalAfterPlan, NoOrphanBackup, ResolvedBehind,
           PlannedFixes, NotYetWritten, LastIsMissing, RecoveryIsEnough, NEW p \in Runs,
           (StartRun(p) /\ \A q \in Runs : ~ Live(q)) \/ RunStep(p) \/ Failure(p)
    PROVE  RecoveryIsEnough'

  <1>0. /\ \A q \in Runs \ {p} : ~ Live(q)'
        /\ \A q \in Runs \ {p}, g \in Paths : Moved(q, g)' => Moved(q, g)
    BY OthersRest, OthersStay DEF Moved
  <1>1. CASE StartRun(p) /\ \A q \in Runs : ~ Live(q)
    <2>1. PICK s \in Selections :
              scan' = [scan EXCEPT ![p] = JournalsIn(ParentsOf(Listed(s)))]
      BY <1>1 DEF StartRun
    <2>2. pc'[p] = "recover" /\ call'[p] = "startup" /\ UNCHANGED <<orig, backup, disk>>
      BY <1>1 DEF StartRun, Goto, TypeOK, files
    <2>3. ASSUME NEW q \in Runs, NEW g \in Paths, Moved(q, g), ~ Ahead(p, q)'
          PROVE  IsFirst(g, Entries(q))
      <3>1. q \notin JournalsIn(ParentsOf(Listed(s)))
        BY <2>1, <2>3 DEF Ahead, TypeOK
      <3>2. journal[q] # "none" /\ g \in Entries(q)
        BY <2>3 DEF NoOrphanBackup, Moved
      <3>3. PICK e \in Paths : IsFirst(e, Entries(q))
        BY <2>3 DEF LastIsMissing
      <3>4. DirOf[e] \notin ParentsOf(Listed(s))
        BY <3>1, <3>2, <3>3 DEF JournalsIn
      <3>5. e \in s
        BY <3>3 DEF PlannedFixes, IsFirst
      <3>6. disk[e] = Missing
        BY <3>4, <3>5 DEF ParentsOf, Listed
      <3>7. ~ (e < g)
        BY <2>3, <3>3, <3>6 DEF LastIsMissing, IsFirst
      <3>8. e <= g /\ e \in Nat /\ g \in Nat
        BY <3>2, <3>3, OrderAssumption DEF IsFirst
      <3>9. e = g
        BY <3>7, <3>8
      <3> QED
        BY <3>3, <3>9
    <2>4. \A q \in Runs : Entries(q)' = Entries(q)
      BY <2>2, EntriesStay
    <2> QED
      BY <1>0, <2>2, <2>3, <2>4 DEF RecoveryIsEnough, Live, Resolving, Writing, IsFirst
  <1>2. CASE OpenJournal(p)
    <2>1. PICK q \in scan[p] : rec'[p] = q /\ scan'[p] = scan[p] \ {q}
      BY <1>2 DEF OpenJournal, TypeOK
    <2>2. pc[p] = "recover" /\ (pc'[p] = "failed" \/ Resolving(p)') /\ UNCHANGED <<orig, call>>
      BY <1>2 DEF OpenJournal, Goto, TypeOK, Resolving
    <2>3. Resolving(p)' => \A r \in Runs : Ahead(p, r) => Ahead(p, r)'
      BY <2>1, <2>2 DEF Ahead, Resolving, TypeOK
    <2>4. \A r \in Runs : Entries(r)' = Entries(r)
      BY <2>2, EntriesStay
    <2> QED
      BY <1>0, <2>2, <2>3, <2>4 DEF RecoveryIsEnough, Live, Resolving, Writing, IsFirst
  <1>3. CASE OpenOwnJournal(p)
    <2>1. call'[p] = "rollback" /\ pc'[p] \in {"failed", "roll", "clean"}
      BY <1>3 DEF OpenOwnJournal, Goto, TypeOK
    <2> QED
      BY <1>0, <2>1 DEF RecoveryIsEnough, Live, Resolving, Writing
  <1>4. CASE RollEntry(p)
    <2>1. UNCHANGED <<orig, call, scan, rec>>
      BY <1>4 DEF RollEntry, files, local
    <2>2. \/ Resolving(p) /\ Resolving(p)'
          \/ Writing(p) /\ Writing(p)'
          \/ pc'[p] \in {"rollback", "failed", "crashed", "ok"}
      BY <1>4 DEF RollEntry, Goto, TypeOK, Resolving, Writing
    <2> QED
      BY <1>4, <2>1, <2>2, RecoveryFrame DEF RunStep, Failure
  <1>5. CASE RemoveFixed(p)
    <2>1. UNCHANGED <<orig, call, scan, rec>>
      BY <1>5 DEF RemoveFixed, files, local
    <2>2. \/ Resolving(p) /\ Resolving(p)'
          \/ Writing(p) /\ Writing(p)'
          \/ pc'[p] \in {"rollback", "failed", "crashed", "ok"}
      BY <1>5 DEF RemoveFixed, Goto, TypeOK, Resolving, Writing
    <2> QED
      BY <1>5, <2>1, <2>2, RecoveryFrame DEF RunStep, Failure
  <1>6. CASE RenameBackup(p)
    <2>1. UNCHANGED <<orig, call, scan, rec>>
      BY <1>6 DEF RenameBackup, files, local
    <2>2. \/ Resolving(p) /\ Resolving(p)'
          \/ Writing(p) /\ Writing(p)'
          \/ pc'[p] \in {"rollback", "failed", "crashed", "ok"}
      BY <1>6 DEF RenameBackup, Goto, TypeOK, Resolving, Writing
    <2> QED
      BY <1>6, <2>1, <2>2, RecoveryFrame DEF RunStep, Failure
  <1>7. CASE RemoveStaged(p)
    <2>1. UNCHANGED <<orig, call, scan, rec>>
      BY <1>7 DEF RemoveStaged, files, local
    <2>2. \/ Resolving(p) /\ Resolving(p)'
          \/ Writing(p) /\ Writing(p)'
          \/ pc'[p] \in {"rollback", "failed", "crashed", "ok"}
      BY <1>7 DEF RemoveStaged, Goto, TypeOK, Resolving, Writing
    <2> QED
      BY <1>7, <2>1, <2>2, RecoveryFrame DEF RunStep, Failure
  <1>8. CASE CleanEntry(p)
    <2>1. UNCHANGED <<orig, call, scan, rec>>
      BY <1>8 DEF CleanEntry, files, local
    <2>2. \/ Resolving(p) /\ Resolving(p)'
          \/ Writing(p) /\ Writing(p)'
          \/ pc'[p] \in {"rollback", "failed", "crashed", "ok"}
      BY <1>8 DEF CleanEntry, Goto, TypeOK, Resolving, Writing
    <2> QED
      BY <1>8, <2>1, <2>2, RecoveryFrame DEF RunStep, Failure
  <1>9. CASE RemoveJournal(p)
    <2>1. Resolving(p) /\ todo[p] = {} /\ pc'[p] = AfterJournal(p)
          /\ UNCHANGED <<orig, call, scan, backup>>
      BY <1>9 DEF RemoveJournal, Goto, TypeOK, local, Resolving
    <2>2. \A g \in Paths : ~ Moved(rec[p], g)
      BY <2>1 DEF ResolvedBehind, Resolving, Moved
    <2>3. \/ pc'[p] = "recover" /\ call[p] \in {"startup", "write"}
          \/ pc'[p] \in {"ok", "failed"}
      BY <2>1 DEF AfterJournal, TypeOK, Calls
    <2>4. \A q \in Runs : Ahead(p, q) => Ahead(p, q)' \/ q = rec[p]
      BY <2>1 DEF Ahead
    <2>5. \A q \in Runs : Entries(q)' = Entries(q)
      BY <2>1, EntriesStay
    <2> QED
      BY <1>0, <2>1, <2>2, <2>3, <2>4, <2>5
         DEF RecoveryIsEnough, Live, Resolving, Writing, IsFirst
  <1>10. CASE EndRecovery(p)
    <2>1. pc[p] = "recover" /\ scan[p] = {} /\ UNCHANGED <<orig, call, scan>>
      BY <1>10 DEF EndRecovery, files
    <2>2. /\ call[p] \in {"startup", "write"}
          /\ pc'[p] = IF call[p] = "startup" THEN "plan" ELSE "prepare"
      BY <1>10 DEF EndRecovery, Goto, TypeOK, JournalAfterPlan
    <2>3. \A q \in Runs : ~ Ahead(p, q)
      BY <2>1 DEF Ahead, Resolving
    <2>4. \A q \in Runs : Entries(q)' = Entries(q)
      BY <2>1, EntriesStay
    <2> QED
      BY <1>0, <2>1, <2>2, <2>3, <2>4 DEF RecoveryIsEnough, Live, Resolving, Writing, IsFirst
  <1>11. CASE PlanFixes(p)
    <2>1. pc[p] = "plan" /\ call'[p] = "write" /\ pc'[p] \in {"ok", "recover"}
          /\ UNCHANGED <<disk, backup, journal>>
      BY <1>11 DEF PlanFixes, Goto, TypeOK, files
    <2>2. call[p] = "startup" /\ scan[p] = {}
      BY <2>1 DEF JournalAfterPlan, NotYetWritten
    <2>3. \A q \in Runs : ~ Ahead(p, q)
      BY <2>1, <2>2 DEF Ahead, Resolving
    <2>4. \A q \in Runs \ {p}, g \in Paths : Moved(q, g) => IsFirst(g, Entries(q))
      BY <2>1, <2>2, <2>3 DEF RecoveryIsEnough
    <2>5. /\ \A r \in Runs \ {p} : Entries(r)' = Entries(r)
          /\ scan' = [scan EXCEPT ![p] = JournalsIn(ParentsOf(Entries(p)'))]
      BY <1>11, PlanFixesEffect
    <2>6. ASSUME NEW q \in Runs \ {p}, NEW g \in Paths, Moved(q, g),
                 NEW f \in Entries(p)', DirOf[f] = DirOf[g]
          PROVE  Ahead(p, q)'
      <3>1. journal[q] # "none"
        BY <2>6 DEF NoOrphanBackup, Moved
      <3>2. q \in JournalsIn(ParentsOf(Entries(p)'))
        BY <2>4, <2>6, <3>1 DEF JournalsIn, ParentsOf
      <3> QED
        BY <2>5, <3>2 DEF Ahead, TypeOK
    <2> QED
      BY <1>0, <2>1, <2>4, <2>5, <2>6 DEF RecoveryIsEnough, Live, Resolving, Writing, IsFirst
  <1>12. CASE PrepareFile(p)
    <2>1. UNCHANGED <<orig, call, scan, rec>>
      BY <1>12 DEF PrepareFile, files, local
    <2>2. \/ Resolving(p) /\ Resolving(p)'
          \/ Writing(p) /\ Writing(p)'
          \/ pc'[p] \in {"rollback", "failed", "crashed", "ok"}
      BY <1>12 DEF PrepareFile, Goto, TypeOK, Resolving, Writing
    <2> QED
      BY <1>12, <2>1, <2>2, RecoveryFrame DEF RunStep, Failure
  <1>13. CASE EndPrepare(p)
    <2>1. UNCHANGED <<orig, call, scan, rec>>
      BY <1>13 DEF EndPrepare, files, local
    <2>2. \/ Resolving(p) /\ Resolving(p)'
          \/ Writing(p) /\ Writing(p)'
          \/ pc'[p] \in {"rollback", "failed", "crashed", "ok"}
      BY <1>13 DEF EndPrepare, Goto, TypeOK, Resolving, Writing
    <2> QED
      BY <1>13, <2>1, <2>2, RecoveryFrame DEF RunStep, Failure
  <1>14. CASE StageFile(p)
    <2>1. UNCHANGED <<orig, call, scan, rec>>
      BY <1>14 DEF StageFile, files, local
    <2>2. \/ Resolving(p) /\ Resolving(p)'
          \/ Writing(p) /\ Writing(p)'
          \/ pc'[p] \in {"rollback", "failed", "crashed", "ok"}
      BY <1>14 DEF StageFile, Goto, TypeOK, Resolving, Writing
    <2> QED
      BY <1>14, <2>1, <2>2, RecoveryFrame DEF RunStep, Failure
  <1>15. CASE WriteJournal(p)
    <2>1. UNCHANGED <<orig, call, scan, rec>>
      BY <1>15 DEF WriteJournal, files, local
    <2>2. \/ Resolving(p) /\ Resolving(p)'
          \/ Writing(p) /\ Writing(p)'
          \/ pc'[p] \in {"rollback", "failed", "crashed", "ok"}
      BY <1>15 DEF WriteJournal, Goto, TypeOK, Resolving, Writing
    <2> QED
      BY <1>15, <2>1, <2>2, RecoveryFrame DEF RunStep, Failure
  <1>16. CASE MoveAside(p)
    <2>1. UNCHANGED <<orig, call, scan, rec>>
      BY <1>16 DEF MoveAside, files, local
    <2>2. \/ Resolving(p) /\ Resolving(p)'
          \/ Writing(p) /\ Writing(p)'
          \/ pc'[p] \in {"rollback", "failed", "crashed", "ok"}
      BY <1>16 DEF MoveAside, Goto, TypeOK, Resolving, Writing
    <2> QED
      BY <1>16, <2>1, <2>2, RecoveryFrame DEF RunStep, Failure
  <1>17. CASE MoveIn(p)
    <2>1. UNCHANGED <<orig, call, scan, rec>>
      BY <1>17 DEF MoveIn, files, local
    <2>2. \/ Resolving(p) /\ Resolving(p)'
          \/ Writing(p) /\ Writing(p)'
          \/ pc'[p] \in {"rollback", "failed", "crashed", "ok"}
      BY <1>17 DEF MoveIn, Goto, TypeOK, Resolving, Writing
    <2> QED
      BY <1>17, <2>1, <2>2, RecoveryFrame DEF RunStep, Failure
  <1>18. CASE CommitJournal(p)
    <2>1. call'[p] = "own"
      BY <1>18 DEF CommitJournal, TypeOK
    <2> QED
      BY <1>0, <2>1 DEF RecoveryIsEnough, Live, Resolving, Writing
  <1>19. CASE StagingError(p)
    <2>1. UNCHANGED <<orig, call, scan, rec>>
      BY <1>19 DEF StagingError, files, local
    <2>2. \/ Resolving(p) /\ Resolving(p)'
          \/ Writing(p) /\ Writing(p)'
          \/ pc'[p] \in {"rollback", "failed", "crashed", "ok"}
      BY <1>19 DEF StagingError, Goto, TypeOK, Resolving, Writing
    <2> QED
      BY <1>19, <2>1, <2>2, RecoveryFrame DEF RunStep, Failure
  <1>20. CASE CommitError(p)
    <2>1. UNCHANGED <<orig, call, scan, rec>>
      BY <1>20 DEF CommitError, files, local
    <2>2. \/ Resolving(p) /\ Resolving(p)'
          \/ Writing(p) /\ Writing(p)'
          \/ pc'[p] \in {"rollback", "failed", "crashed", "ok"}
      BY <1>20 DEF CommitError, Goto, TypeOK, Resolving, Writing
    <2> QED
      BY <1>20, <2>1, <2>2, RecoveryFrame DEF RunStep, Failure
  <1>21. CASE ResolveError(p)
    <2>1. UNCHANGED <<orig, call, scan, rec>>
      BY <1>21 DEF ResolveError, files, local
    <2>2. \/ Resolving(p) /\ Resolving(p)'
          \/ Writing(p) /\ Writing(p)'
          \/ pc'[p] \in {"rollback", "failed", "crashed", "ok"}
      BY <1>21 DEF ResolveError, Goto, TypeOK, Resolving, Writing
    <2> QED
      BY <1>21, <2>1, <2>2, RecoveryFrame DEF RunStep, Failure
  <1>22. CASE Crash(p)
    <2>1. UNCHANGED <<orig, call, scan, rec>>
      BY <1>22 DEF Crash, files, local
    <2>2. \/ Resolving(p) /\ Resolving(p)'
          \/ Writing(p) /\ Writing(p)'
          \/ pc'[p] \in {"rollback", "failed", "crashed", "ok"}
      BY <1>22 DEF Crash, Goto, TypeOK, Resolving, Writing
    <2> QED
      BY <1>22, <2>1, <2>2, RecoveryFrame DEF RunStep, Failure
  <1> QED
    BY <1>1, <1>2, <1>3, <1>4, <1>5, <1>6, <1>7, <1>8, <1>9, <1>10, <1>11,
       <1>12, <1>13, <1>14, <1>15, <1>16, <1>17, <1>18, <1>19, <1>20, <1>21, <1>22
       DEF RunStep, Failure

(***************************************************************************)
(* What the steps do to the view                                           *)
(***************************************************************************)
(***************************************************************************)
(* What is seen of the files once recovery has run                         *)
(***************************************************************************)
\* A file that a journal is going to restore is seen as its one backup; any other
\* file is seen as it is.
LEMMA ViewPending ==
    ASSUME Separate, NEW f \in Paths, NEW q \in Runs, Pending(q, f)
    PROVE  view[f] = backup[q][f]
  <1> DEFINE c == CHOOSE r \in Runs : Pending(r, f)
  <1>1. c \in Runs /\ Pending(c, f)
    OBVIOUS
  <1>2. c = q
    BY <1>1 DEF Pending, Separate, Moved
  <1> HIDE DEF c
  <1>3. view[f] = backup[c][f]
    BY DEF view, c
  <1> QED
    BY <1>2, <1>3

\* The same of the state after a step.
LEMMA ViewPendingNext ==
    ASSUME Separate', NEW f \in Paths, NEW q \in Runs, Pending(q, f)'
    PROVE  view'[f] = backup'[q][f]
  <1> DEFINE c == CHOOSE r \in Runs : Pending(r, f)
  <1>1. (c \in Runs /\ Pending(c, f))'
    OBVIOUS
  <1> HIDE DEF c
  <1>2. c' = q
    BY <1>1 DEF Pending, Separate, Moved
  <1>3. view'[f] = backup'[c'][f]
    BY DEF view, c
  <1> QED
    BY <1>2, <1>3

\* Where no backup is to be restored a file is seen as it is.
LEMMA ViewDisk ==
    ASSUME NEW f \in Paths
    PROVE  /\ (\A q \in Runs : ~ Pending(q, f)) => view[f] = disk[f]
           /\ (\A q \in Runs : ~ Pending(q, f)') => view'[f] = disk'[f]
  BY DEF view

\* The view stays while the same backups are to be restored and nothing else changes.
LEMMA ViewFrame ==
    ASSUME Separate, Separate',
           \A q \in Runs, f \in Paths : Pending(q, f)' <=> Pending(q, f),
           \A q \in Runs, f \in Paths : Pending(q, f) => backup'[q][f] = backup[q][f],
           \A f \in Paths : disk'[f] = disk[f] \/ \E q \in Runs : Pending(q, f)
    PROVE  view' = view
  <1>1. ASSUME NEW f \in Paths
        PROVE  view'[f] = view[f]
    <2>1. CASE \E q \in Runs : Pending(q, f)
      BY <2>1, ViewPending, ViewPendingNext
    <2>2. CASE \A q \in Runs : ~ Pending(q, f)
      BY <2>2, ViewDisk
    <2> QED
      BY <2>1, <2>2
  <1> QED
    BY <1>1 DEF view

\* Until the journal is committed nothing changes to the eye.
LEMMA ViewStays ==
    ASSUME TypeOK, OneLive, PlannedTodo, JournalAfterPlan, MovesAreJournaled, NoOrphanBackup,
           ResolvedBehind, PlannedFixes, NotYetWritten, ResolvesAsRead, MovesInOrder,
           Separate, Separate', NEW p \in Runs,
           (StartRun(p) /\ \A q \in Runs : ~ Live(q)) \/ RunStep(p) \/ Failure(p),
           ~ (pc[p] = "commit" /\ journal'[p] = "committed")
    PROVE  view' = view
  <1>1. CASE StartRun(p) /\ \A q \in Runs : ~ Live(q)
    BY <1>1 DEF StartRun, files, view, Pending, MustRestore
  <1>2. CASE OpenJournal(p)
    BY <1>2 DEF OpenJournal, files, view, Pending, MustRestore
  <1>3. CASE OpenOwnJournal(p)
    BY <1>3 DEF OpenOwnJournal, files, view, Pending, MustRestore
  <1>4. CASE RollEntry(p)
    <2>1. /\ UNCHANGED <<disk, orig, journal>>
          /\ \A q \in Runs, f \in Paths : backup'[q][f] # backup[q][f] =>
                backup'[q][f] = Missing /\ (Moved(q, f) => ~ MustRestore(q, f))
      <3>1. UNCHANGED <<disk, orig, journal>>
        BY <1>4 DEF RollEntry
      <3>2. PICK f \in todo[p] :
                \/ UNCHANGED backup
                \/ /\ Moved(rec[p], f) => ~ MustRestore(rec[p], f)
                   /\ \A r \in Runs, g \in Paths : backup'[r][g] =
                         IF r = rec[p] /\ g = f THEN Missing ELSE backup[r][g]
        BY <1>4, RollEntryEffect
      <3> QED
        BY <3>1, <3>2
    <2>2. \A q \in Runs, f \in Paths : Pending(q, f)' <=> Pending(q, f)
      BY <2>1 DEF Pending, MustRestore, Moved
    <2>3. \A q \in Runs, f \in Paths : Pending(q, f) => backup'[q][f] = backup[q][f]
      BY <2>1 DEF Pending, Moved
    <2> QED
      BY <2>1, <2>2, <2>3, ViewFrame
  <1>5. CASE RemoveFixed(p)
    <2>1. PICK f \in todo[p] : IsLast(f, todo[p]) /\ disk' = [disk EXCEPT ![f] = Missing]
      BY <1>5 DEF RemoveFixed
    <2>2. /\ UNCHANGED <<backup, journal, orig, rec>> /\ pc[p] = "restore"
          /\ f \in Paths /\ rec[p] \in Runs
      BY <1>5 DEF RemoveFixed, TypeOK, local
    <2>3. /\ Moved(rec[p], f) /\ disk[f] = Fixed[orig[rec[p]][f]]
          /\ journal[rec[p]] = "open"
      BY <2>1, <2>2 DEF ResolvesAsRead, Resolving
    <2>4. disk'[f] = Missing /\ \A g \in Paths \ {f} : disk'[g] = disk[g]
      BY <2>1, <2>2 DEF TypeOK
    <2>5. Pending(rec[p], f) /\ Pending(rec[p], f)'
      BY <2>2, <2>3, <2>4 DEF Pending, MustRestore, Moved
    <2>6. \A q \in Runs \ {rec[p]} : ~ Pending(q, f) /\ ~ Pending(q, f)'
      BY <2>2, <2>3 DEF Separate, Pending, Moved
    <2>7. \A q \in Runs, g \in Paths \ {f} : Pending(q, g)' <=> Pending(q, g)
      BY <2>2, <2>4 DEF Pending, MustRestore
    <2>8. \A q \in Runs, g \in Paths : Pending(q, g)' <=> Pending(q, g)
      BY <2>2, <2>5, <2>6, <2>7
    <2>9. \A g \in Paths : disk'[g] = disk[g] \/ \E q \in Runs : Pending(q, g)
      BY <2>2, <2>4, <2>5
    <2> QED
      BY <2>2, <2>8, <2>9, ViewFrame
  <1>6. CASE RenameBackup(p)
    <2>1. PICK f \in todo[p] :
              /\ IsLast(f, todo[p]) /\ Moved(rec[p], f)
              /\ disk' = [disk EXCEPT ![f] = backup[rec[p]][f]]
              /\ \A r \in Runs, g \in Paths : backup'[r][g] =
                    IF r = rec[p] /\ g = f THEN Missing ELSE backup[r][g]
      BY <1>6, RenameBackupEffect
    <2>2. /\ UNCHANGED <<journal, orig>> /\ pc[p] = "replace"
          /\ f \in Paths /\ rec[p] \in Runs
      BY <1>6 DEF RenameBackup, TypeOK
    <2>3. Pending(rec[p], f)
      BY <2>1, <2>2 DEF ResolvesAsRead, Resolving, Pending, MustRestore, Moved
    <2>4. \A q \in Runs : ~ Pending(q, f)'
      BY <2>1, <2>2, <2>3 DEF Separate, Pending, Moved
    <2>5. view'[f] = view[f]
      BY <2>1, <2>2, <2>3, <2>4, ViewPending, ViewDisk DEF TypeOK
    <2>6. \A g \in Paths \ {f} : disk'[g] = disk[g]
      BY <2>1 DEF TypeOK
    <2>7. \A q \in Runs, g \in Paths \ {f} : backup'[q][g] = backup[q][g]
      BY <2>1
    <2>8. \A q \in Runs, g \in Paths \ {f} : Pending(q, g)' <=> Pending(q, g)
      BY <2>2, <2>6, <2>7 DEF Pending, MustRestore
    <2>9. ASSUME NEW g \in Paths \ {f} PROVE view'[g] = view[g]
      <3>1. CASE \E q \in Runs : Pending(q, g)
        BY <2>7, <2>8, <3>1, ViewPending, ViewPendingNext
      <3>2. CASE \A q \in Runs : ~ Pending(q, g)
        BY <2>6, <2>8, <3>2, ViewDisk
      <3> QED
        BY <3>1, <3>2
    <2> QED
      BY <2>5, <2>9 DEF view
  <1>7. CASE RemoveStaged(p)
    BY <1>7 DEF RemoveStaged, view, Pending, MustRestore
  <1>8. CASE CleanEntry(p)
    <2>1. PICK f \in todo[p] : \A r \in Runs, g \in Paths : backup'[r][g] =
              IF r = rec[p] /\ g = f THEN Missing ELSE backup[r][g]
      BY <1>8, CleanEntryEffect
    <2>2. UNCHANGED <<disk, journal, orig>> /\ pc[p] = "clean" /\ rec[p] \in Runs
      BY <1>8 DEF CleanEntry, TypeOK
    <2>3. journal[rec[p]] = "committed"
      BY <2>2 DEF ResolvesAsRead, Resolving
    <2>4. \A q \in Runs, g \in Paths : Pending(q, g)' <=> Pending(q, g)
      BY <2>1, <2>2, <2>3 DEF Pending, MustRestore
    <2>5. \A q \in Runs, g \in Paths : Pending(q, g) => backup'[q][g] = backup[q][g]
      BY <2>1, <2>3 DEF Pending
    <2> QED
      BY <2>2, <2>4, <2>5, ViewFrame
  <1>9. CASE RemoveJournal(p)
    <2>1. /\ UNCHANGED <<disk, backup, orig>> /\ Resolving(p) /\ todo[p] = {}
          /\ journal' = [journal EXCEPT ![rec[p]] = "none"]
      BY <1>9 DEF RemoveJournal, Resolving
    <2>2. \A g \in Paths : ~ Moved(rec[p], g)
      BY <2>1 DEF ResolvedBehind, Resolving, Moved
    <2>3. \A q \in Runs, g \in Paths : Pending(q, g)' <=> Pending(q, g)
      BY <2>1, <2>2 DEF Pending, MustRestore, Moved, TypeOK
    <2> QED
      BY <2>1, <2>3, ViewFrame
  <1>10. CASE EndRecovery(p)
    BY <1>10 DEF EndRecovery, files, view, Pending, MustRestore
  <1>11. CASE PlanFixes(p)
    <2>1. /\ \A g \in Paths : ~ Moved(p, g)
          /\ UNCHANGED <<disk, backup, journal>>
      BY <1>11, PlanningKeepsNothing DEF PlanFixes, files
    <2>2. \A r \in Runs \ {p}, g \in Paths : orig'[r][g] = orig[r][g]
      BY <1>11, PlanFixesEffect
    <2>3. \A q \in Runs, g \in Paths : Pending(q, g)' <=> Pending(q, g)
      BY <2>1, <2>2 DEF Pending, MustRestore, Moved
    <2> QED
      BY <2>1, <2>3, ViewFrame
  <1>12. CASE PrepareFile(p)
    BY <1>12 DEF PrepareFile, files, view, Pending, MustRestore
  <1>13. CASE EndPrepare(p)
    BY <1>13 DEF EndPrepare, files, view, Pending, MustRestore
  <1>14. CASE StageFile(p)
    BY <1>14 DEF StageFile, view, Pending, MustRestore
  <1>15. CASE WriteJournal(p)
    <2>1. /\ UNCHANGED <<disk, backup, orig>> /\ pc[p] = "journal"
          /\ journal' = [journal EXCEPT ![p] = "open"]
      BY <1>15 DEF WriteJournal
    <2>2. \A g \in Paths : ~ Moved(p, g)
      BY <2>1 DEF NotYetWritten, NoOrphanBackup, Moved
    <2>3. \A q \in Runs, g \in Paths : Pending(q, g)' <=> Pending(q, g)
      BY <2>1, <2>2 DEF Pending, MustRestore, Moved, TypeOK
    <2> QED
      BY <2>1, <2>3, ViewFrame
  <1>16. CASE MoveAside(p)
    <2>1. PICK f \in todo[p] :
              /\ IsFirst(f, todo[p])
              /\ \/ /\ disk[f] # Missing
                    /\ disk' = [disk EXCEPT ![f] = Missing]
                    /\ \A r \in Runs, g \in Paths : backup'[r][g] =
                          IF r = p /\ g = f THEN disk[f] ELSE backup[r][g]
                 \/ UNCHANGED <<disk, backup>>
      BY <1>16, MoveAsideEffect
    <2>2. pc[p] = "aside" /\ UNCHANGED <<orig, journal>> /\ f \in Paths
      BY <1>16 DEF MoveAside, TypeOK
    <2>3. CASE UNCHANGED <<disk, backup>>
      BY <2>2, <2>3 DEF view, Pending, MustRestore
    <2>4. CASE /\ disk[f] # Missing
               /\ disk' = [disk EXCEPT ![f] = Missing]
               /\ \A r \in Runs, g \in Paths : backup'[r][g] =
                     IF r = p /\ g = f THEN disk[f] ELSE backup[r][g]
      <3>1. Pending(p, f)' /\ backup'[p][f] = disk[f]
        BY <2>2, <2>4 DEF Pending, MustRestore, MovesAreJournaled, TypeOK
      <3>2. \A q \in Runs : ~ Pending(q, f)
        <4>1. ~ Moved(p, f)
          BY <2>2 DEF MovesInOrder
        <4>2. \A q \in Runs \ {p} : ~ Moved(q, f)
          <5>1. \A q \in Runs \ {p} : backup'[q][f] = backup[q][f]
            BY <2>2, <2>4
          <5>2. Moved(p, f)'
            BY <3>1 DEF Pending, Moved
          <5> QED
            BY <2>2, <5>1, <5>2 DEF Separate, Moved
        <4> QED
          BY <4>1, <4>2 DEF Pending, Moved
      <3>3. view'[f] = view[f]
        BY <2>2, <3>1, <3>2, ViewPendingNext, ViewDisk
      <3>4. \A g \in Paths \ {f} : disk'[g] = disk[g]
        BY <2>4 DEF TypeOK
      <3>5. \A q \in Runs, g \in Paths \ {f} : backup'[q][g] = backup[q][g]
        BY <2>4
      <3>6. \A q \in Runs, g \in Paths \ {f} : Pending(q, g)' <=> Pending(q, g)
        BY <2>2, <3>4, <3>5 DEF Pending, MustRestore
      <3>7. ASSUME NEW g \in Paths \ {f} PROVE view'[g] = view[g]
        <4>1. CASE \E q \in Runs : Pending(q, g)
          BY <3>5, <3>6, <4>1, ViewPending, ViewPendingNext
        <4>2. CASE \A q \in Runs : ~ Pending(q, g)
          BY <3>4, <3>6, <4>2, ViewDisk
        <4> QED
          BY <4>1, <4>2
      <3> QED
        BY <3>3, <3>7 DEF view
    <2> QED
      BY <2>1, <2>3, <2>4
  <1>17. CASE MoveIn(p)
    <2>1. PICK f \in todo[p] :
              /\ IsFirst(f, todo[p])
              /\ \/ staged[p][f] # Missing /\ disk' = [disk EXCEPT ![f] = staged[p][f]]
                 \/ UNCHANGED disk
      BY <1>17, MoveInEffect
    <2>2. pc[p] = "movein" /\ UNCHANGED <<backup, orig, journal>> /\ f \in Paths
      BY <1>17 DEF MoveIn, TypeOK
    <2>3. CASE UNCHANGED disk
      BY <2>2, <2>3 DEF view, Pending, MustRestore
    <2>4. CASE staged[p][f] # Missing /\ disk' = [disk EXCEPT ![f] = staged[p][f]]
      <3>1. Moved(p, f) /\ disk[f] = Missing /\ journal[p] = "open"
        BY <2>1, <2>2 DEF MovesInOrder, MovesAreJournaled
      <3>2. disk'[f] = Fixed[orig[p][f]]
        BY <2>2, <2>4 DEF PlannedFixes, TypeOK
      <3>3. Pending(p, f) /\ Pending(p, f)'
        BY <2>2, <3>1, <3>2 DEF Pending, MustRestore, Moved
      <3>4. \A q \in Runs \ {p} : ~ Pending(q, f) /\ ~ Pending(q, f)'
        BY <2>2, <3>1 DEF Separate, Pending, Moved
      <3>5. \A g \in Paths \ {f} : disk'[g] = disk[g]
        BY <2>4 DEF TypeOK
      <3>6. \A q \in Runs, g \in Paths \ {f} : Pending(q, g)' <=> Pending(q, g)
        BY <2>2, <3>5 DEF Pending, MustRestore
      <3> QED
        BY <2>2, <3>3, <3>4, <3>5, <3>6, ViewFrame
    <2> QED
      BY <2>1, <2>3, <2>4
  <1>18. CASE CommitJournal(p)
    <2>1. journal'[p] = "committed" /\ pc[p] = "commit"
      BY <1>18 DEF CommitJournal, TypeOK
    <2> QED
      BY <2>1
  <1>19. CASE StagingError(p)
    <2>1. /\ UNCHANGED <<disk, backup, orig>> /\ pc[p] \in {"stage", "journal"}
          /\ UNCHANGED journal \/ journal' = [journal EXCEPT ![p] = "open"]
      BY <1>19 DEF StagingError
    <2>2. \A g \in Paths : ~ Moved(p, g)
      BY <2>1 DEF NotYetWritten, NoOrphanBackup, Moved
    <2>3. \A q \in Runs, g \in Paths : Pending(q, g)' <=> Pending(q, g)
      BY <2>1, <2>2 DEF Pending, MustRestore, Moved, TypeOK
    <2> QED
      BY <2>1, <2>3, ViewFrame
  <1>20. CASE CommitError(p)
    <2>1. journal' = journal
      BY <1>20 DEF CommitError, TypeOK
    <2> QED
      BY <1>20, <2>1 DEF CommitError, view, Pending, MustRestore
  <1>21. CASE ResolveError(p)
    <2>1. /\ UNCHANGED <<disk, backup, orig>>
          /\ \/ UNCHANGED journal
             \/ /\ Resolving(p) /\ todo[p] = {}
                /\ journal' = [journal EXCEPT ![rec[p]] = "none"]
      BY <1>21 DEF ResolveError, Resolving
    <2>2. CASE UNCHANGED journal
      BY <2>1, <2>2 DEF view, Pending, MustRestore
    <2>3. CASE /\ Resolving(p) /\ todo[p] = {}
               /\ journal' = [journal EXCEPT ![rec[p]] = "none"]
      <3>1. \A g \in Paths : ~ Moved(rec[p], g)
        BY <2>3 DEF ResolvedBehind, Resolving, Moved
      <3>2. \A q \in Runs, g \in Paths : Pending(q, g)' <=> Pending(q, g)
        BY <2>1, <2>3, <3>1 DEF Pending, MustRestore, Moved, TypeOK
      <3> QED
        BY <2>1, <3>2, ViewFrame
    <2> QED
      BY <2>1, <2>2, <2>3
  <1>22. CASE Crash(p)
    BY <1>22 DEF Crash, files, view, Pending, MustRestore
  <1> QED
    BY <1>1, <1>2, <1>3, <1>4, <1>5, <1>6, <1>7, <1>8, <1>9, <1>10, <1>11,
       <1>12, <1>13, <1>14, <1>15, <1>16, <1>17, <1>18, <1>19, <1>20, <1>21, <1>22
       DEF RunStep, Failure

\* When the journal is committed, the files still in the plan turn into their fixed
\* forms to the eye, and no other file changes.
LEMMA ViewCommits ==
    ASSUME TypeOK, NoOrphanBackup, PlannedFixes, MovesInOrder, MovesAreJournaled,
           Separate, Separate', NEW p \in Runs, pc[p] = "commit",
           journal' = [journal EXCEPT ![p] = "committed"], UNCHANGED <<disk, backup, orig>>
    PROVE  \A f \in Paths :
              /\ f \in plan[p] => NeedsFix(view[f])
              /\ view'[f] = IF f \in plan[p] THEN Fixed[view[f]] ELSE view[f]
  <1>1. journal[p] = "open" /\ ~ \E f \in Paths : Pending(p, f)'
    BY DEF MovesAreJournaled, Pending, TypeOK
  <1>2. plan[p] = {f \in Entries(p) : Moved(p, f) => MustRestore(p, f)}
    BY DEF plan, Moved
  <1>3. \A q \in Runs \ {p}, f \in Paths : Pending(q, f)' <=> Pending(q, f)
    BY DEF Pending, MustRestore, TypeOK
  <1> TAKE f \in Paths
  <1>4. CASE f \notin Entries(p)
    <2>1. f \notin plan[p] /\ ~ Pending(p, f)
      BY <1>2, <1>4 DEF NoOrphanBackup, Pending
    <2>2. CASE \E q \in Runs : Pending(q, f)
      BY <1>3, <2>1, <2>2, ViewPending, ViewPendingNext
    <2>3. CASE \A q \in Runs : ~ Pending(q, f)
      BY <1>1, <1>3, <2>1, <2>3, ViewDisk
    <2> QED
      BY <2>1, <2>2, <2>3
  <1>5. CASE f \in Entries(p)
    <2>1. Moved(p, f) /\ disk[f] # Missing
      BY <1>5 DEF MovesInOrder
    <2>2. \A q \in Runs \ {p} : ~ Pending(q, f)
      BY <2>1 DEF Separate, Pending, Moved
    <2>3. view'[f] = disk[f]
      BY <1>1, <1>3, <2>2, ViewDisk
    <2>4. CASE MustRestore(p, f)
      <3>1. view[f] = backup[p][f]
        BY <1>1, <2>1, <2>4, ViewPending DEF Pending, Moved
      <3>2. view[f] = orig[p][f] /\ NeedsFix(view[f])
        BY <1>5, <2>1, <3>1 DEF PlannedFixes
      <3>3. disk[f] = Fixed[orig[p][f]]
        BY <2>1, <2>4 DEF MustRestore
      <3> QED
        BY <1>2, <1>5, <2>3, <2>4, <3>2, <3>3
    <2>5. CASE ~ MustRestore(p, f)
      <3>1. ~ Pending(p, f) /\ f \notin plan[p]
        BY <1>2, <2>1, <2>5 DEF Pending
      <3> QED
        BY <2>2, <2>3, <3>1, ViewDisk
    <2> QED
      BY <2>4, <2>5
  <1> QED
    BY <1>4, <1>5

\* A step that commits the journal is CommitJournal, or the error just after.
LEMMA Commits ==
    ASSUME TypeOK, OneLive, JournalAfterPlan, MovesAreJournaled, ResolvesAsRead,
           NEW p \in Runs,
           (StartRun(p) /\ \A q \in Runs : ~ Live(q)) \/ RunStep(p) \/ Failure(p),
           pc[p] = "commit", journal'[p] = "committed"
    PROVE  /\ journal' = [journal EXCEPT ![p] = "committed"]
           /\ UNCHANGED <<disk, backup, orig, latest>>
           /\ pc'[p] \in {"clean", "rollback"}
  <1>1. CASE CommitJournal(p)
    BY <1>1 DEF CommitJournal, Goto, TypeOK
  <1>2. CASE CommitError(p)
    <2>1. journal[p] = "open"
      BY DEF MovesAreJournaled
    <2> QED
      BY <1>2, <2>1 DEF CommitError, Goto, TypeOK
  <1>3. CASE Crash(p)
    <2>1. journal' = journal /\ journal[p] = "open"
      BY <1>3 DEF Crash, files, MovesAreJournaled
    <2> QED
      BY <2>1
  <1> QED
    BY <1>1, <1>2, <1>3 DEF RunStep, Failure, StartRun, OpenJournal, OpenOwnJournal, RollEntry,
       RemoveFixed, RenameBackup, RemoveStaged, CleanEntry, RemoveJournal, EndRecovery, PlanFixes,
       PrepareFile, EndPrepare, StageFile, WriteJournal, MoveAside, MoveIn, StagingError,
       ResolveError

\* Nobody but a person changes what was saved last.
LEMMA LatestStays ==
    ASSUME NEW p \in Runs, StartRun(p) \/ RunStep(p) \/ Failure(p)
    PROVE  UNCHANGED latest
  BY DEF RunStep, Failure, StartRun, OpenJournal, OpenOwnJournal, RollEntry,
     RemoveFixed, RenameBackup, RemoveStaged, CleanEntry, RemoveJournal, EndRecovery, PlanFixes,
     PrepareFile, EndPrepare, StageFile, WriteJournal, MoveAside, MoveIn, CommitJournal,
     StagingError, CommitError, ResolveError, Crash

\* To the eye a file is what was saved last, or a text nobody saves.
LEMMA ViewIsLatestStep ==
    ASSUME TypeOK, OneLive, PlannedTodo, JournalAfterPlan, MovesAreJournaled, NoOrphanBackup,
           ResolvedBehind, PlannedFixes, NotYetWritten, ResolvesAsRead, MovesInOrder,
           Separate, Separate', ViewIsLatest, NEW p \in Runs,
           (StartRun(p) /\ \A q \in Runs : ~ Live(q)) \/ RunStep(p) \/ Failure(p)
    PROVE  ViewIsLatest'
  <1>1. UNCHANGED latest
    BY LatestStays
  <1>2. CASE ~ (pc[p] = "commit" /\ journal'[p] = "committed")
    <2>1. view' = view
      BY <1>2, ViewStays
    <2> QED
      BY <1>1, <2>1 DEF ViewIsLatest
  <1>3. CASE pc[p] = "commit" /\ journal'[p] = "committed"
    <2>1. \A f \in Paths :
              /\ f \in plan[p] => NeedsFix(view[f])
              /\ view'[f] = IF f \in plan[p] THEN Fixed[view[f]] ELSE view[f]
      BY <1>3, Commits, ViewCommits
    <2>2. \A t \in Texts : Fixed[t] \in Texts
      BY FixedAssumption
    <2> QED
      BY <1>1, <2>1, <2>2, UserTextAssumption DEF ViewIsLatest, NeedsFix
  <1> QED
    BY <1>2, <1>3

(***************************************************************************)
(* Recovery does not go past a missing file                                *)
(***************************************************************************)
\* A recovery that has not come to an end keeps a missing file's journal before it,
\* while that journal is still to restore the file.
LEMMA SharedAheadFrame ==
    ASSUME SharedAhead, NEW p \in Runs, UNCHANGED <<sel, call, scan, rec>>,
           \A q \in Runs \ {p} : ~ Live(q)',
           pc'[p] \in {"rollback", "failed", "crashed", "ok"}
              \/ (Resolving(p) /\ Resolving(p)'),
           \A q \in Runs, f \in Paths : Ahead(p, q) /\ Pending(q, f) =>
              Pending(q, f)' \/ disk'[f] # Missing,
           \A f \in Paths : disk[f] # Missing =>
              disk'[f] # Missing \/ \E q \in Runs : Ahead(p, q) /\ Pending(q, f)'
    PROVE  SharedAhead'
  <1>1. CASE pc'[p] \in {"rollback", "failed", "crashed", "ok"}
    BY <1>1 DEF SharedAhead, Live, Resolving
  <1>2. CASE Resolving(p) /\ Resolving(p)'
    <2>1. \A q \in Runs : Ahead(p, q)' <=> Ahead(p, q)
      BY <1>2 DEF Ahead
    <2> QED
      BY <1>2, <2>1 DEF SharedAhead, Live, Resolving
  <1> QED
    BY <1>1, <1>2

\* A recovery does not go past the journal of a missing file with others in its
\* directory.
LEMMA SharedAheadStep ==
    ASSUME TypeOK, OneLive, JournalAfterPlan, NoOrphanBackup, ResolvedBehind, PlannedFixes,
           NotYetWritten, ResolvesAsRead, LastIsMissing, Separate, ViewIsLatest, SharedAhead,
           NEW p \in Runs,
           (StartRun(p) /\ \A q \in Runs : ~ Live(q)) \/ RunStep(p) \/ Failure(p)
    PROVE  SharedAhead'

  <1>0. \A q \in Runs \ {p} : ~ Live(q)'
    BY OthersRest
  <1>1. CASE StartRun(p) /\ \A q \in Runs : ~ Live(q)
    <2>1. PICK s \in Selections :
              /\ sel' = [sel EXCEPT ![p] = s]
              /\ scan' = [scan EXCEPT ![p] = JournalsIn(ParentsOf(Listed(s)))]
      BY <1>1 DEF StartRun
    <2>2. pc'[p] = "recover" /\ UNCHANGED <<disk, backup, orig, journal>>
      BY <1>1 DEF StartRun, Goto, TypeOK, files
    <2>3. ASSUME NEW f \in Paths, NEW g \in Paths, s = Paths, DirOf[f] = DirOf[g], f # g,
                 disk[f] = Missing
          PROVE  \E q \in Runs : Ahead(p, q)' /\ Pending(q, f)'
      <3>1. \A h \in Paths : disk[h] = Missing => \E q \in Runs : Pending(q, h)
        BY ViewDisk, MissingAssumption DEF ViewIsLatest
      <3>2. PICK q \in Runs : Pending(q, f)
        BY <2>3, <3>1
      <3>3. Moved(q, f) /\ f \in Entries(q) /\ journal[q] # "none"
        BY <3>2 DEF Pending, Moved, NoOrphanBackup
      <3>4. disk[g] # Missing
        <4>1. SUFFICES ASSUME disk[g] = Missing PROVE FALSE
          OBVIOUS
        <4>2. PICK r \in Runs : Pending(r, g)
          BY <3>1, <4>1
        <4>3. Moved(r, g) /\ g \in Entries(r)
          BY <4>2 DEF Pending, Moved, NoOrphanBackup
        <4>4. r = q
          BY <2>3, <3>3, <4>3 DEF Separate
        <4>5. f < g \/ g < f
          BY <2>3, OrderAssumption
        <4> QED
          BY <2>3, <3>3, <4>1, <4>3, <4>4, <4>5 DEF LastIsMissing
      <3>5. PICK e \in Paths : IsFirst(e, Entries(q))
        BY <3>3 DEF LastIsMissing
      <3>6. DirOf[e] \in ParentsOf(Listed(s))
        <4>1. CASE e = f
          BY <2>3, <3>4, <4>1 DEF ParentsOf, Listed
        <4>2. CASE e # f
          <5>1. e < f /\ e \in Entries(q)
            BY <3>3, <3>5, <4>2, OrderAssumption DEF IsFirst
          <5>2. disk[e] # Missing
            BY <3>3, <5>1 DEF LastIsMissing
          <5> QED
            BY <2>3, <5>2 DEF ParentsOf, Listed
        <4> QED
          BY <4>1, <4>2
      <3>7. q \in JournalsIn(ParentsOf(Listed(s)))
        BY <3>3, <3>5, <3>6 DEF JournalsIn
      <3>8. Ahead(p, q)'
        BY <2>1, <3>7 DEF Ahead, TypeOK
      <3>9. Pending(q, f)'
        BY <2>2, <3>2 DEF Pending, MustRestore
      <3> QED
        BY <3>8, <3>9
    <2>4. sel'[p] = s
      BY <2>1 DEF TypeOK
    <2> QED
      BY <1>0, <2>2, <2>3, <2>4 DEF SharedAhead, Live, Resolving
  <1>2. CASE OpenJournal(p)
    <2>1. PICK q \in scan[p] : rec'[p] = q /\ scan'[p] = scan[p] \ {q}
      BY <1>2 DEF OpenJournal, TypeOK
    <2>2. /\ pc[p] = "recover" /\ (pc'[p] = "failed" \/ Resolving(p)')
          /\ UNCHANGED <<sel, call, disk, backup, orig, journal>>
      BY <1>2 DEF OpenJournal, Goto, TypeOK, Resolving, files
    <2>3. Resolving(p)' => \A r \in Runs : Ahead(p, r) => Ahead(p, r)'
      BY <2>1, <2>2 DEF Ahead, Resolving, TypeOK
    <2>4. \A r \in Runs, f \in Paths : Pending(r, f) => Pending(r, f)'
      BY <2>2 DEF Pending, MustRestore
    <2> QED
      BY <1>0, <2>2, <2>3, <2>4 DEF SharedAhead, Live, Resolving
  <1>3. CASE OpenOwnJournal(p)
    <2>1. call'[p] = "rollback"
      BY <1>3 DEF OpenOwnJournal, TypeOK
    <2> QED
      BY <1>0, <2>1 DEF SharedAhead, Live, Resolving
  <1>4. CASE RollEntry(p)
    <2>1. UNCHANGED <<sel, call, scan, rec, disk, orig, journal>>
      BY <1>4 DEF RollEntry, local
    <2>2. Resolving(p) /\ Resolving(p)'
      BY <1>4 DEF RollEntry, Goto, TypeOK, Resolving
    <2>3. PICK f \in todo[p] :
              \/ UNCHANGED backup
              \/ /\ Moved(rec[p], f) => ~ MustRestore(rec[p], f)
                 /\ \A r \in Runs, g \in Paths : backup'[r][g] =
                       IF r = rec[p] /\ g = f THEN Missing ELSE backup[r][g]
      BY <1>4, RollEntryEffect
    <2>4. \A q \in Runs, g \in Paths : Pending(q, g) => Pending(q, g)'
      BY <2>1, <2>3 DEF Pending, MustRestore, Moved
    <2> QED
      BY <1>0, <2>1, <2>2, <2>4, SharedAheadFrame
  <1>5. CASE RemoveFixed(p)
    <2>1. PICK f \in todo[p] : IsLast(f, todo[p]) /\ disk' = [disk EXCEPT ![f] = Missing]
      BY <1>5 DEF RemoveFixed
    <2>2. /\ UNCHANGED <<sel, call, scan, rec, backup, journal, orig>> /\ pc[p] = "restore"
          /\ f \in Paths /\ rec[p] \in Runs /\ Resolving(p) /\ Resolving(p)'
      BY <1>5 DEF RemoveFixed, TypeOK, local, Resolving, Goto
    <2>3. Moved(rec[p], f) /\ journal[rec[p]] = "open"
      BY <2>1, <2>2 DEF ResolvesAsRead
    <2>4. disk'[f] = Missing /\ \A g \in Paths \ {f} : disk'[g] = disk[g]
      BY <2>1, <2>2 DEF TypeOK
    <2>5. Pending(rec[p], f)' /\ Ahead(p, rec[p])
      BY <2>2, <2>3, <2>4 DEF Pending, MustRestore, Moved, Ahead
    <2>6. \A q \in Runs, g \in Paths : Pending(q, g) => Pending(q, g)'
      BY <2>2, <2>4 DEF Pending, MustRestore
    <2> QED
      BY <1>0, <2>2, <2>4, <2>5, <2>6, SharedAheadFrame
  <1>6. CASE RenameBackup(p)
    <2>1. PICK f \in todo[p] :
              /\ Moved(rec[p], f)
              /\ disk' = [disk EXCEPT ![f] = backup[rec[p]][f]]
              /\ \A r \in Runs, g \in Paths : backup'[r][g] =
                    IF r = rec[p] /\ g = f THEN Missing ELSE backup[r][g]
      BY <1>6, RenameBackupEffect
    <2>2. /\ UNCHANGED <<sel, call, scan, rec, journal, orig>>
          /\ f \in Paths /\ Resolving(p) /\ Resolving(p)'
      BY <1>6 DEF RenameBackup, TypeOK, local, Resolving, Goto
    <2>3. disk'[f] # Missing /\ \A g \in Paths \ {f} : disk'[g] = disk[g]
      BY <2>1, <2>2 DEF TypeOK, Moved
    <2>4. \A q \in Runs, g \in Paths \ {f} : Pending(q, g) => Pending(q, g)'
      BY <2>1, <2>2, <2>3 DEF Pending, MustRestore
    <2>5. \A q \in Runs, g \in Paths : Pending(q, g) => Pending(q, g)' \/ disk'[g] # Missing
      BY <2>3, <2>4
    <2>6. \A g \in Paths : disk[g] # Missing => disk'[g] # Missing
      BY <2>3
    <2> QED
      BY <1>0, <2>2, <2>5, <2>6, SharedAheadFrame
  <1>7. CASE RemoveStaged(p)
    <2>1. UNCHANGED <<sel, call, scan, rec, disk, backup, orig, journal>>
      BY <1>7 DEF RemoveStaged, files, local
    <2>2. Resolving(p) /\ Resolving(p)'
      BY <1>7 DEF RemoveStaged, Goto, TypeOK, Resolving
    <2>3. \A q \in Runs, f \in Paths : Pending(q, f) => Pending(q, f)'
      BY <2>1 DEF Pending, MustRestore
    <2> QED
      BY <1>0, <2>1, <2>2, <2>3, SharedAheadFrame
  <1>8. CASE CleanEntry(p)
    <2>1. PICK f \in todo[p] : \A r \in Runs, g \in Paths : backup'[r][g] =
              IF r = rec[p] /\ g = f THEN Missing ELSE backup[r][g]
      BY <1>8, CleanEntryEffect
    <2>9. UNCHANGED <<sel, call, scan, rec, disk, journal, orig, pc>> /\ pc[p] = "clean"
      BY <1>8 DEF CleanEntry
    <2>2. /\ UNCHANGED <<sel, call, scan, rec, disk, journal, orig>> /\ pc[p] = "clean"
          /\ Resolving(p) /\ Resolving(p)' /\ rec[p] \in Runs
      BY <2>9 DEF TypeOK, Resolving
    <2>3. journal[rec[p]] = "committed"
      BY <2>2 DEF ResolvesAsRead, Resolving
    <2>4. \A q \in Runs, g \in Paths : Pending(q, g) => Pending(q, g)'
      BY <2>1, <2>2, <2>3 DEF Pending, MustRestore
    <2> QED
      BY <1>0, <2>2, <2>4, SharedAheadFrame
  <1>9. CASE RemoveJournal(p)
    <2>1. /\ UNCHANGED <<sel, call, scan, rec, disk, backup, orig>>
          /\ Resolving(p) /\ todo[p] = {} /\ pc'[p] = AfterJournal(p)
          /\ journal' = [journal EXCEPT ![rec[p]] = "none"]
      BY <1>9 DEF RemoveJournal, Goto, TypeOK, local, Resolving
    <2>2. \A g \in Paths : ~ Moved(rec[p], g)
      BY <2>1 DEF ResolvedBehind, Resolving, Moved
    <2>3. pc'[p] \in {"recover", "ok", "failed"}
      BY <2>1 DEF AfterJournal, TypeOK, Calls
    <2>4. \A q \in Runs, g \in Paths : Pending(q, g) => q # rec[p] /\ Pending(q, g)'
      BY <2>1, <2>2 DEF Pending, MustRestore, Moved, TypeOK
    <2>5. \A q \in Runs : Ahead(p, q) => Ahead(p, q)' \/ q = rec[p]
      BY <2>1 DEF Ahead
    <2> QED
      BY <1>0, <2>1, <2>3, <2>4, <2>5 DEF SharedAhead, Live, Resolving
  <1>10. CASE EndRecovery(p)
    <2>1. /\ pc[p] = "recover" /\ scan[p] = {} /\ pc'[p] \in {"plan", "prepare"}
          /\ UNCHANGED <<sel, call, disk>>
      BY <1>10 DEF EndRecovery, files, Goto, TypeOK
    <2>2. \A q \in Runs : ~ Ahead(p, q)
      BY <2>1 DEF Ahead, Resolving
    <2> QED
      BY <1>0, <2>1, <2>2 DEF SharedAhead, Live, Resolving
  <1>11. CASE PlanFixes(p)
    <2>1. call'[p] = "write"
      BY <1>11 DEF PlanFixes, TypeOK
    <2> QED
      BY <1>0, <2>1 DEF SharedAhead, Live, Resolving
  <1>12. CASE PrepareFile(p)
    <2>1. pc'[p] \in {"prepare", "failed"}
      BY <1>12 DEF PrepareFile, Goto, TypeOK
    <2> QED
      BY <1>0, <2>1 DEF SharedAhead, Live, Resolving
  <1>13. CASE EndPrepare(p)
    <2>1. pc'[p] \in {"stage"}
      BY <1>13 DEF EndPrepare, Goto, TypeOK
    <2> QED
      BY <1>0, <2>1 DEF SharedAhead, Live, Resolving
  <1>14. CASE StageFile(p)
    <2>1. pc'[p] \in {"stage", "journal"}
      BY <1>14 DEF StageFile, Goto, TypeOK
    <2> QED
      BY <1>0, <2>1 DEF SharedAhead, Live, Resolving
  <1>15. CASE WriteJournal(p)
    <2>1. pc'[p] \in {"aside"}
      BY <1>15 DEF WriteJournal, Goto, TypeOK
    <2> QED
      BY <1>0, <2>1 DEF SharedAhead, Live, Resolving
  <1>16. CASE MoveAside(p)
    <2>1. pc'[p] \in {"movein", "rollback"}
      BY <1>16 DEF MoveAside, Goto, TypeOK
    <2> QED
      BY <1>0, <2>1 DEF SharedAhead, Live, Resolving
  <1>17. CASE MoveIn(p)
    <2>1. pc'[p] \in {"aside", "commit", "rollback"}
      BY <1>17 DEF MoveIn, Goto, TypeOK
    <2> QED
      BY <1>0, <2>1 DEF SharedAhead, Live, Resolving
  <1>18. CASE CommitJournal(p)
    <2>1. call'[p] = "own"
      BY <1>18 DEF CommitJournal, TypeOK
    <2> QED
      BY <1>0, <2>1 DEF SharedAhead, Live, Resolving
  <1>19. CASE StagingError(p)
    <2>1. pc'[p] \in {"failed"}
      BY <1>19 DEF StagingError, Goto, TypeOK
    <2> QED
      BY <1>0, <2>1 DEF SharedAhead, Live, Resolving
  <1>20. CASE CommitError(p)
    <2>1. pc'[p] \in {"rollback"}
      BY <1>20 DEF CommitError, Goto, TypeOK
    <2> QED
      BY <1>0, <2>1 DEF SharedAhead, Live, Resolving
  <1>21. CASE ResolveError(p)
    <2>1. pc'[p] \in {"rollback", "failed"}
      BY <1>21 DEF ResolveError, Goto, TypeOK
    <2> QED
      BY <1>0, <2>1 DEF SharedAhead, Live, Resolving
  <1>22. CASE Crash(p)
    <2>1. pc'[p] \in {"crashed"}
      BY <1>22 DEF Crash, Goto, TypeOK
    <2> QED
      BY <1>0, <2>1 DEF SharedAhead, Live, Resolving
  <1> QED
    BY <1>1, <1>2, <1>3, <1>4, <1>5, <1>6, <1>7, <1>8, <1>9, <1>10, <1>11,
       <1>12, <1>13, <1>14, <1>15, <1>16, <1>17, <1>18, <1>19, <1>20, <1>21, <1>22
       DEF RunStep, Failure

(***************************************************************************)
(* A person saves a file; the whole invariant                              *)
(***************************************************************************)
\* To the eye the saved file is what was saved, and no other file changes.
LEMMA SaveView ==
    ASSUME TypeOK, PlannedFixes, NoOrphanBackup, Separate, Separate', NEW f \in Paths,
           NEW t \in UserTexts, Save(f, t)
    PROVE  /\ view'[f] = t
           /\ \A g \in Paths \ {f} : view'[g] = view[g]
  <1>1. /\ UNCHANGED <<backup, journal, orig>>
        /\ disk'[f] = t /\ \A g \in Paths \ {f} : disk'[g] = disk[g]
    BY DEF Save, TypeOK
  <1>2. \A q \in Runs : ~ Pending(q, f)'
    <2>1. SUFFICES ASSUME NEW q \in Runs, Moved(q, f) PROVE ~ MustRestore(q, f)'
      BY <1>1 DEF Pending, Moved
    <2>2. f \in Entries(q) /\ Fixed[orig[q][f]] # orig[q][f]
      BY <2>1 DEF NoOrphanBackup, PlannedFixes, Moved, NeedsFix
    <2>3. orig[q][f] \in Texts
      BY <2>2 DEF Entries, TypeOK, Contents
    <2>4. t # Fixed[orig[q][f]] /\ t # Missing
      BY <2>2, <2>3, UserTextAssumption, MissingAssumption
    <2> QED
      BY <1>1, <2>4 DEF MustRestore
  <1>3. view'[f] = t
    BY <1>1, <1>2, ViewDisk
  <1>4. ASSUME NEW g \in Paths \ {f} PROVE view'[g] = view[g]
    <2>1. \A q \in Runs : Pending(q, g)' <=> Pending(q, g)
      BY <1>1 DEF Pending, MustRestore
    <2>2. CASE \E q \in Runs : Pending(q, g)
      BY <1>1, <2>1, <2>2, ViewPending, ViewPendingNext
    <2>3. CASE \A q \in Runs : ~ Pending(q, g)
      BY <1>1, <2>1, <2>3, ViewDisk
    <2> QED
      BY <2>2, <2>3
  <1> QED
    BY <1>3, <1>4

\* A file saved at any moment but the ones in which a run replaces it disturbs
\* nothing a run relies on.
LEMMA SaveKeeps ==
    ASSUME AInv, NEW f \in Paths, NEW t \in UserTexts, Save(f, t),
           \A p \in Runs : ~ Exposed(p, f)
    PROVE  AInv'
  <1>1. IInv'
    BY SaveInv DEF AInv
  <1>2. /\ UNCHANGED <<staged, backup, journal, orig, pc, sel, scan, rec, todo, call>>
        /\ latest'[f] = t /\ \A g \in Paths \ {f} : latest'[g] = latest[g]
        /\ disk'[f] = t /\ \A g \in Paths \ {f} : disk'[g] = disk[g]
        /\ t # Missing
    BY UserTextAssumption, MissingAssumption DEF AInv, IInv, TypeOK, Save, local
  <1>3. PlannedFixes'
    BY <1>2 DEF AInv, PlannedFixes, Entries, Moved
  <1>4. NotYetWritten'
    BY <1>2 DEF AInv, NotYetWritten, Resolving, Writing
  <1>5. ResolvesAsRead'
    <2>1. \A p \in Runs, g \in Paths :
              pc[p] \in {"restore", "replace"} /\ IsLast(g, todo[p]) => g # f
      BY DEF Exposed
    <2> QED
      BY <1>2, <2>1 DEF AInv, ResolvesAsRead, Resolving, Entries, Moved
  <1>6. MovesInOrder'
    <2>1. ASSUME NEW p \in Runs, pc[p] \in {"prepare", "stage", "journal"}, NEW g \in Entries(p),
                 ~ (pc[p] = "prepare" /\ g \in todo[p])
          PROVE  disk'[g] = orig[p][g]
      <3>1. g # f
        BY <2>1 DEF Exposed
      <3> QED
        BY <1>2, <2>1, <3>1 DEF AInv, MovesInOrder, Entries
    <2>2. ASSUME NEW p \in Runs, pc[p] \in {"aside", "movein"}, NEW g \in todo[p]
          PROVE  g \in Paths \ {f}
      <3>1. g \in Entries(p) /\ g \in Paths
        BY <2>2 DEF AInv, IInv, PlannedTodo, Entries
      <3>2. g # f
        BY <2>2, <3>1 DEF Exposed
      <3> QED
        BY <3>1, <3>2
    <2>3. ASSUME NEW p \in Runs, pc[p] \in {"aside", "movein", "commit"}
          PROVE  /\ \A g \in Entries(p) \ todo[p] : Moved(p, g) /\ disk'[g] # Missing
                 /\ \A g \in todo[p] : disk'[g] = disk[g]
      <3>1. \A g \in Entries(p) \ todo[p] : Moved(p, g) /\ disk[g] # Missing
        BY <2>3 DEF AInv, MovesInOrder
      <3>2. \A g \in Paths : disk[g] # Missing => disk'[g] # Missing
        BY <1>2
      <3>3. \A g \in todo[p] : disk'[g] = disk[g]
        BY <1>2, <2>2, <2>3 DEF AInv, MovesInOrder
      <3> QED
        BY <3>1, <3>2, <3>3 DEF Entries
    <2>4. \A p \in Runs : Entries(p)' = Entries(p)
      BY <1>2 DEF Entries
    <2>5. \A p \in Runs, g \in Paths : Moved(p, g)' <=> Moved(p, g)
      BY <1>2 DEF Moved
    <2>6. MovesInOrder
      BY DEF AInv
    <2>7. UNCHANGED <<pc, todo>>
      BY <1>2
    <2>8. ASSUME NEW p \in Runs
          PROVE  /\ pc'[p] = pc[p] /\ todo'[p] = todo[p] /\ Entries(p)' = Entries(p)
                 /\ \A g \in Paths : orig'[p][g] = orig[p][g] /\ (Moved(p, g)' <=> Moved(p, g))
                 /\ \A g : IsFirst(g, todo[p])' <=> IsFirst(g, todo[p])
                 /\ \A g : IsFirst(g, Entries(p))' <=> IsFirst(g, Entries(p))
                 /\ \A g \in Entries(p) : g \in Paths
                 /\ pc[p] \in {"aside", "movein"} => todo[p] \subseteq Paths
      BY <1>2, <2>4, <2>5, <2>7 DEF IsFirst, Entries, AInv, IInv, TypeOK
    <2> SUFFICES ASSUME NEW p \in Runs PROVE MovesInOrder!(p)'
      BY DEF MovesInOrder
    <2> QED
      BY <2>1, <2>3, <2>6, <2>8 DEF MovesInOrder
  <1>7. LastIsMissing'
    BY <1>2, LastIsMissingFrame DEF AInv
  <1>8. Separate'
    BY <1>2, SeparateFrame DEF AInv
  <1>9. RecoveryIsEnough'
    BY <1>2 DEF AInv, RecoveryIsEnough, Moved, Resolving, Writing, Ahead, Entries
  <1>10. ViewIsLatest'
    <2>1. view'[f] = t /\ \A g \in Paths \ {f} : view'[g] = view[g]
      BY <1>8, SaveView DEF AInv, IInv
    <2> QED
      BY <1>2, <2>1, UserTextAssumption DEF AInv, ViewIsLatest
  <1>11. SharedAhead'
    <2>1. \A g \in Paths : disk'[g] = Missing => g # f /\ disk[g] = Missing
      BY <1>2
    <2>2. \A q \in Runs, g \in Paths \ {f} : Pending(q, g) => Pending(q, g)'
      BY <1>2 DEF Pending, MustRestore
    <2>3. SharedAhead
      BY DEF AInv
    <2>4. \A p, q \in Runs : Ahead(p, q)' <=> Ahead(p, q)
      BY <1>2 DEF Ahead, Resolving
    <2> QED
      BY <1>2, <2>1, <2>2, <2>3, <2>4 DEF SharedAhead, Resolving
  <1> QED
    BY <1>1, <1>3, <1>4, <1>5, <1>6, <1>7, <1>8, <1>9, <1>10, <1>11 DEF AInv

\* Before the first run nothing is planned, staged or moved.
LEMMA InitAInv == Init => AInv
  <1> SUFFICES ASSUME Init PROVE AInv
    OBVIOUS
  <1>1. IInv
    BY InitInv
  <1>2. /\ \A p \in Runs, f \in Paths :
              orig[p][f] = Missing /\ staged[p][f] = Missing /\ ~ Moved(p, f)
        /\ \A p \in Runs : Entries(p) = {} /\ pc[p] = "idle" /\ scan[p] = {}
    BY DEF Init, Nothing, Moved, Entries
  <1>3. PlannedFixes /\ NotYetWritten /\ ResolvesAsRead /\ MovesInOrder
    BY <1>2 DEF PlannedFixes, NotYetWritten, ResolvesAsRead, MovesInOrder, Resolving, Writing
  <1>4. LastIsMissing /\ Separate /\ RecoveryIsEnough /\ SharedAhead
    BY <1>2 DEF LastIsMissing, Separate, RecoveryIsEnough, SharedAhead, Resolving, Writing
  <1>5. ViewIsLatest
    <2>1. \A f \in Paths : view[f] = latest[f] /\ latest[f] \in UserTexts
      BY <1>2, ViewDisk DEF Init, Pending, Moved
    <2> QED
      BY <2>1, UserTextAssumption DEF ViewIsLatest
  <1> QED
    BY <1>1, <1>3, <1>4, <1>5 DEF AInv

\* Every step keeps the invariant.
LEMMA NextAInv == OneSelection /\ AInv /\ [Next]_vars => AInv'
  <1> SUFFICES ASSUME OneSelection, AInv, [Next]_vars PROVE AInv'
    OBVIOUS
  <1>1. IInv'
    BY NextInv DEF AInv
  <1>2. CASE UNCHANGED vars
    <2>1. PlannedFixes' /\ NotYetWritten'
      BY <1>2 DEF vars, AInv, PlannedFixes, NotYetWritten, Resolving, Writing, Moved, Entries
    <2>2. \A p \in Runs :
              /\ Entries(p)' = Entries(p)
              /\ \A f : IsFirst(f, todo[p])' <=> IsFirst(f, todo[p])
              /\ \A f : IsLast(f, todo[p])' <=> IsLast(f, todo[p])
              /\ \A f : IsFirst(f, Entries(p))' <=> IsFirst(f, Entries(p))
      BY <1>2 DEF vars, Entries, IsFirst, IsLast
    <2>5. ResolvesAsRead'
      BY <1>2, <2>2 DEF vars, AInv, IInv, TypeOK, ResolvesAsRead, Resolving, Moved
    <2>6. MovesInOrder'
      BY <1>2, <2>2 DEF vars, AInv, MovesInOrder, Moved
    <2>7. LastIsMissing' /\ Separate'
      BY <1>2, <2>2 DEF vars, AInv, LastIsMissing, Separate, Moved
    <2>8. RecoveryIsEnough'
      BY <1>2, <2>2 DEF vars, AInv, RecoveryIsEnough, Resolving, Writing, Moved, Ahead
    <2>3. ViewIsLatest'
      BY <1>2 DEF vars, AInv, ViewIsLatest, view, Pending, MustRestore
    <2>4. SharedAhead'
      BY <1>2 DEF vars, AInv, SharedAhead, Resolving, Ahead, Pending, MustRestore
    <2> QED
      BY <1>1, <2>1, <2>3, <2>4, <2>5, <2>6, <2>7, <2>8 DEF AInv
  <1>3. ASSUME NEW p \in Runs,
               (StartRun(p) /\ \A q \in Runs : ~ Live(q)) \/ RunStep(p) \/ Failure(p)
        PROVE  AInv'
    <2>1. PlannedFixes' /\ NotYetWritten' /\ ResolvesAsRead' /\ MovesInOrder'
      BY <1>3, PlannedFixesStep, NotYetWrittenStep, ResolvesAsReadStep, MovesInOrderStep
         DEF AInv, IInv
    <2>2. LastIsMissing' /\ Separate' /\ RecoveryIsEnough'
      BY <1>3, LastIsMissingStep, SeparateStep, RecoveryIsEnoughStep DEF AInv, IInv
    <2>3. ViewIsLatest' /\ SharedAhead'
      BY <1>3, <2>2, ViewIsLatestStep, SharedAheadStep DEF AInv, IInv
    <2> QED
      BY <1>1, <2>1, <2>2, <2>3 DEF AInv
  <1>4. ASSUME NEW f \in Paths, NEW t \in UserTexts,
               Save(f, t) /\ \A p \in Runs : ~ Exposed(p, f)
        PROVE  AInv'
    BY <1>4, SaveKeeps
  <1> QED
    BY <1>2, <1>3, <1>4 DEF Next

\* Where every run is given the same files, every reachable state satisfies the
\* inductive invariant (recover_fix_journals, write_all_preserving_encoding).
THEOREM AtomicInvariance ==
    ASSUME OneSelection
    PROVE  Spec => []AInv
  <1>1. Init => AInv
    BY InitAInv
  <1>2. AInv /\ [Next]_vars => AInv'
    BY NextAInv
  <1> QED
    BY <1>1, <1>2, PTL DEF Spec

(***************************************************************************)
(* What a person relies on                                                 *)
(***************************************************************************)
\* A fixed text has nothing left to fix (CallRewrite FixIsFinal).
FixesOnce == \A t \in Texts : Fixed[Fixed[t]] = Fixed[t]

\* Once recovery has run, a file is what was saved last or its fixed form.
ViewIsFixedAtMost == \A f \in Paths : view[f] \in {latest[f], Fixed[latest[f]]}

\* Committing fixes only what still has something to fix, so a file is fixed once.
LEMMA FixedOnceStep ==
    ASSUME FixesOnce, AInv, AInv', ViewIsFixedAtMost, [Next]_vars
    PROVE  ViewIsFixedAtMost'
  <1>1. CASE UNCHANGED vars
    BY <1>1 DEF vars, ViewIsFixedAtMost, view, Pending, MustRestore
  <1>2. ASSUME NEW p \in Runs,
               (StartRun(p) /\ \A q \in Runs : ~ Live(q)) \/ RunStep(p) \/ Failure(p)
        PROVE  ViewIsFixedAtMost'
    <2>1. UNCHANGED latest
      BY <1>2, LatestStays
    <2>2. CASE ~ (pc[p] = "commit" /\ journal'[p] = "committed")
      <3>1. view' = view
        BY <1>2, <2>2, ViewStays DEF AInv, IInv
      <3> QED
        BY <2>1, <3>1 DEF ViewIsFixedAtMost
    <2>3. CASE pc[p] = "commit" /\ journal'[p] = "committed"
      <3>1. /\ journal' = [journal EXCEPT ![p] = "committed"]
            /\ UNCHANGED <<disk, backup, orig>>
        BY <1>2, <2>3, Commits DEF AInv, IInv
      <3>2. \A f \in Paths :
                /\ f \in plan[p] => NeedsFix(view[f])
                /\ view'[f] = IF f \in plan[p] THEN Fixed[view[f]] ELSE view[f]
        BY <2>3, <3>1, ViewCommits DEF AInv, IInv
      <3>3. \A f \in Paths : latest[f] \in Texts
        BY UserTextAssumption DEF AInv, IInv, TypeOK
      <3> QED
        BY <2>1, <3>2, <3>3 DEF ViewIsFixedAtMost, FixesOnce, NeedsFix
    <2> QED
      BY <2>2, <2>3
  <1>3. ASSUME NEW f \in Paths, NEW t \in UserTexts, Save(f, t)
        PROVE  ViewIsFixedAtMost'
    <2>1. view'[f] = t /\ \A g \in Paths \ {f} : view'[g] = view[g]
      BY <1>3, SaveView DEF AInv, IInv
    <2>2. latest'[f] = t /\ \A g \in Paths \ {f} : latest'[g] = latest[g]
      BY <1>3 DEF Save, AInv, IInv, TypeOK
    <2> QED
      BY <2>1, <2>2 DEF ViewIsFixedAtMost
  <1> QED
    BY <1>1, <1>2, <1>3 DEF Next

\* What a backup is to restore is what was saved last: a fixed text is never moved
\* aside.
LEMMA SurvivesInView == FixesOnce /\ AInv /\ ViewIsFixedAtMost => LatestSurvives
  <1> SUFFICES ASSUME FixesOnce, AInv, ViewIsFixedAtMost, NEW f \in Paths
               PROVE  \/ disk[f] \in {latest[f], Fixed[latest[f]]}
                      \/ \E p \in Runs : backup[p][f] = latest[f]
    BY DEF LatestSurvives
  <1>1. CASE \A q \in Runs : ~ Pending(q, f)
    BY <1>1, ViewDisk DEF ViewIsFixedAtMost
  <1>2. ASSUME NEW q \in Runs, Pending(q, f) PROVE backup[q][f] = latest[f]
    <2>1. view[f] = backup[q][f]
      BY <1>2, ViewPending DEF AInv
    <2>2. Moved(q, f) /\ f \in Entries(q)
      BY <1>2 DEF Pending, Moved, AInv, IInv, NoOrphanBackup
    <2>3. NeedsFix(backup[q][f])
      BY <2>2 DEF AInv, PlannedFixes
    <2>4. latest[f] \in Texts
      BY UserTextAssumption DEF AInv, IInv, TypeOK
    <2> QED
      BY <2>1, <2>3, <2>4 DEF ViewIsFixedAtMost, FixesOnce, NeedsFix
  <1> QED
    BY <1>1, <1>2

\* However many files, directories and runs over the same files, and wherever they
\* crash, fail or meet a person's save: what was saved last is on disk, fixed or not,
\* or in a backup (recover_journal, backup_must_be_restored).
THEOREM SavedTextSurvives ==
    ASSUME OneSelection, FixesOnce
    PROVE  Spec => []LatestSurvives
  <1>1. Init => ViewIsFixedAtMost
    <2>1. Init => \A f \in Paths : view[f] = latest[f]
      BY ViewDisk DEF Init, Pending, Nothing
    <2> QED
      BY <2>1 DEF ViewIsFixedAtMost
  <1>2. ViewIsFixedAtMost /\ AInv /\ AInv' /\ [Next]_vars => ViewIsFixedAtMost'
    BY FixedOnceStep
  <1>3. AInv /\ ViewIsFixedAtMost => LatestSurvives
    BY SurvivesInView
  <1>4. Spec => []AInv
    BY AtomicInvariance
  <1> QED
    BY <1>1, <1>2, <1>3, <1>4, PTL DEF Spec

\* A run over everything has every file back before it analyses any, but for a file
\* that is the one Python file of its directory (recover_fix_journals).
THEOREM SharedFilesAreRestored ==
    ASSUME OneSelection
    PROVE  Spec => []SharedIsRestored
  <1>1. AInv => SharedIsRestored
    <2> SUFFICES ASSUME AInv, NEW p \in Runs, pc[p] = "plan", sel[p] = Paths,
                        NEW f \in Paths, NEW g \in Paths, DirOf[f] = DirOf[g], f # g,
                        disk[f] = Missing
                 PROVE  FALSE
      BY DEF SharedIsRestored
    <2>1. call[p] = "startup" /\ scan[p] = {}
      BY DEF AInv, IInv, JournalAfterPlan, NotYetWritten
    <2>2. \A q \in Runs : ~ Ahead(p, q)
      BY <2>1 DEF Ahead, Resolving
    <2> QED
      BY <2>1, <2>2 DEF AInv, SharedAhead
  <1> QED
    BY <1>1, AtomicInvariance, PTL

\* The text of a transaction is not one that a person saves.
LEMMA NothingToRestore ==
    ASSUME TypeOK, PlannedFixes, NoOrphanBackup, NEW f \in Paths, disk[f] \in UserTexts,
           NEW q \in Runs, Moved(q, f)
    PROVE  ~ MustRestore(q, f)
  <1>1. f \in Entries(q) /\ Fixed[orig[q][f]] # orig[q][f]
    BY DEF NoOrphanBackup, PlannedFixes, Moved, NeedsFix
  <1>2. orig[q][f] \in Texts
    BY <1>1 DEF Entries, TypeOK, Contents
  <1>3. disk[f] # Fixed[orig[q][f]] /\ disk[f] # Missing
    BY <1>1, <1>2, UserTextAssumption, MissingAssumption
  <1> QED
    BY <1>3 DEF MustRestore

\* A step of a run that changes a file holding a saved text is MoveAside.
LEMMA RunKeepsSavedText ==
    ASSUME AInv, NEW p \in Runs,
           (StartRun(p) /\ \A q \in Runs : ~ Live(q)) \/ RunStep(p) \/ Failure(p),
           NEW f \in Paths, disk[f] \in UserTexts, disk'[f] # disk[f]
    PROVE  backup'[p][f] = disk[f]
  <1>1. TypeOK
    BY DEF AInv, IInv
  <1>2. disk[f] # Missing
    BY UserTextAssumption, MissingAssumption
  <1>3. CASE RemoveFixed(p)
    <2>1. PICK g \in todo[p] : IsLast(g, todo[p]) /\ disk' = [disk EXCEPT ![g] = Missing]
      BY <1>3 DEF RemoveFixed
    <2>2. pc[p] = "restore" /\ g = f /\ rec[p] \in Runs
      BY <1>1, <1>3, <2>1 DEF RemoveFixed, TypeOK
    <2>3. Moved(rec[p], f) /\ disk[f] = Fixed[orig[rec[p]][f]]
      BY <2>1, <2>2 DEF AInv, ResolvesAsRead
    <2> QED
      BY <2>2, <2>3, NothingToRestore DEF AInv, IInv, MustRestore
  <1>4. CASE RenameBackup(p)
    <2>1. PICK g \in todo[p] : /\ IsLast(g, todo[p])
                               /\ disk' = [disk EXCEPT ![g] = backup[rec[p]][g]]
      BY <1>4 DEF RenameBackup
    <2>2. pc[p] = "replace" /\ g = f
      BY <1>1, <1>4, <2>1 DEF RenameBackup, TypeOK
    <2> QED
      BY <1>2, <2>1, <2>2 DEF AInv, ResolvesAsRead
  <1>5. CASE MoveAside(p)
    <2>1. PICK g \in todo[p] :
              \/ /\ disk' = [disk EXCEPT ![g] = Missing]
                 /\ \A r \in Runs, h \in Paths : backup'[r][h] =
                       IF r = p /\ h = g THEN disk[g] ELSE backup[r][h]
              \/ UNCHANGED <<disk, backup>>
      BY <1>1, <1>5, MoveAsideEffect
    <2>2. g = f
      BY <1>1, <2>1 DEF TypeOK
    <2> QED
      BY <2>1, <2>2
  <1>6. CASE MoveIn(p)
    <2>1. PICK g \in todo[p] :
              /\ IsFirst(g, todo[p])
              /\ disk' = [disk EXCEPT ![g] = staged[p][g]] \/ UNCHANGED disk
      BY <1>6 DEF MoveIn
    <2>2. pc[p] = "movein" /\ g = f
      BY <1>1, <1>6, <2>1 DEF MoveIn, TypeOK
    <2> QED
      BY <1>2, <2>1, <2>2 DEF AInv, MovesInOrder
  <1>7. RemoveFixed(p) \/ RenameBackup(p) \/ MoveAside(p) \/ MoveIn(p)
    BY DEF RunStep, Failure, StartRun, OpenJournal, OpenOwnJournal, RollEntry, RemoveStaged,
       CleanEntry, RemoveJournal, EndRecovery, PlanFixes, PrepareFile, EndPrepare, StageFile,
       WriteJournal, CommitJournal, StagingError, CommitError, ResolveError, Crash, files
  <1> QED
    BY <1>3, <1>4, <1>5, <1>6, <1>7

\* However many files, directories and runs over the same files: a run takes a text
\* that a person saved from its path only into a backup (backup_must_be_restored).
THEOREM SavedTextIsMovedAside ==
    ASSUME OneSelection
    PROVE  Spec => SavedTextOnlyMovesAside
  <1>1. ASSUME AInv, [Next]_vars, NEW f \in Paths,
               disk[f] \in UserTexts, disk'[f] # disk[f], latest' = latest
        PROVE  \E p \in Runs : backup'[p][f] = disk[f]
    <2>1. CASE UNCHANGED vars
      BY <1>1, <2>1 DEF vars
    <2>2. ASSUME NEW p \in Runs,
                 (StartRun(p) /\ \A q \in Runs : ~ Live(q)) \/ RunStep(p) \/ Failure(p)
          PROVE  backup'[p][f] = disk[f]
      BY <1>1, <2>2, RunKeepsSavedText
    <2>3. ASSUME NEW g \in Paths, NEW t \in UserTexts, Save(g, t)
          PROVE  FALSE
      <3>1. g = f /\ disk[f] # t /\ latest[f] = t
        BY <1>1, <2>3 DEF Save, AInv, IInv, TypeOK
      <3>2. \A q \in Runs : ~ Pending(q, f)
        BY <1>1, NothingToRestore DEF Pending, Moved, AInv, IInv
      <3>3. view[f] = disk[f]
        BY <3>2, ViewDisk
      <3> QED
        BY <1>1, <3>1, <3>3 DEF AInv, ViewIsLatest
    <2> QED
      BY <1>1, <2>1, <2>2, <2>3 DEF Next
  <1>2. AInv /\ [Next]_vars => \A f \in Paths :
            disk[f] \in UserTexts /\ disk'[f] # disk[f] /\ latest' = latest =>
                \E p \in Runs : backup'[p][f] = disk[f]
    BY <1>1
  <1> QED
    BY <1>2, AtomicInvariance, PTL DEF Spec, SavedTextOnlyMovesAside

(***************************************************************************)
(* The fixer implements AtomicFix                                          *)
(***************************************************************************)
Committing == {"aside", "movein", "commit"}

\* Only a run that moves files has a plan, and only its own steps change it.
LEMMA PlanOfOthers ==
    ASSUME TypeOK, OneLive, NEW p \in Runs,
           (StartRun(p) /\ \A q \in Runs : ~ Live(q)) \/ RunStep(p) \/ Failure(p)
    PROVE  /\ \A q \in Runs \ {p} : plan[q] = {} /\ plan'[q] = {}
           /\ plan' = [plan EXCEPT ![p] = plan'[p]]
           /\ pc[p] \notin Committing => plan[p] = {}
           /\ pc'[p] \notin Committing => plan'[p] = {}
  <1>1. \A q \in Runs \ {p} : pc[q] \notin Committing /\ pc'[q] \notin Committing
    BY OthersRest DEF Live, Committing
  <1>2. \A q \in Runs : /\ pc[q] \notin Committing => plan[q] = {}
                        /\ pc'[q] \notin Committing => plan'[q] = {}
    BY DEF plan, Committing
  <1>3. \A q \in Runs \ {p} : plan[q] = {} /\ plan'[q] = {}
    BY <1>1, <1>2
  <1>4. plan' = [plan EXCEPT ![p] = plan'[p]]
    <2>1. /\ plan = [q \in Runs |-> plan[q]]
          /\ plan' = [q \in Runs |-> plan'[q]]
      BY DEF plan
    <2> QED
      BY <1>3, <2>1
  <1> QED
    BY <1>2, <1>3, <1>4

\* A run that moves files comes from WriteJournal and goes on by moving the next.
LEMMA CommittingSteps ==
    ASSUME TypeOK, OneLive, NEW p \in Runs,
           (StartRun(p) /\ \A q \in Runs : ~ Live(q)) \/ RunStep(p) \/ Failure(p),
           pc'[p] \in Committing
    PROVE  \/ WriteJournal(p)
           \/ pc[p] \in Committing /\ (MoveAside(p) \/ MoveIn(p))
  <1>1. CASE WriteJournal(p)
    BY <1>1
  <1>2. CASE MoveAside(p)
    BY <1>2 DEF MoveAside, Committing
  <1>3. CASE MoveIn(p)
    BY <1>3 DEF MoveIn, Committing
  <1>4. CASE RollEntry(p)
    BY <1>4 DEF RollEntry, Goto, TypeOK, Committing
  <1>5. CASE StartRun(p) \/ OpenJournal(p) \/ OpenOwnJournal(p)
    BY <1>5 DEF StartRun, OpenJournal, OpenOwnJournal, Goto, TypeOK, Committing
  <1>6. CASE RemoveFixed(p) \/ RenameBackup(p) \/ RemoveStaged(p) \/ CleanEntry(p)
    BY <1>6 DEF RemoveFixed, RenameBackup, RemoveStaged, CleanEntry, Goto, TypeOK, Committing
  <1>7. CASE RemoveJournal(p)
    <2>1. AfterJournal(p) \notin Committing
      BY DEF AfterJournal, Calls, TypeOK, Committing
    <2> QED
      BY <1>7, <2>1 DEF RemoveJournal, Goto, TypeOK
  <1>8. CASE EndRecovery(p) \/ PlanFixes(p) \/ PrepareFile(p) \/ EndPrepare(p) \/ StageFile(p)
    BY <1>8 DEF EndRecovery, PlanFixes, PrepareFile, EndPrepare, StageFile, Goto, TypeOK,
       Committing
  <1>9. CASE CommitJournal(p) \/ Failure(p)
    BY <1>9 DEF CommitJournal, Failure, StagingError, CommitError, ResolveError, Crash, Goto,
       TypeOK, Committing
  <1> QED
    BY <1>1, <1>2, <1>3, <1>4, <1>5, <1>6, <1>7, <1>8, <1>9 DEF RunStep

\* Moving a file aside, or its fixed text into place, leaves it in the plan.
LEMMA MovesKeepPlan ==
    ASSUME AInv, NEW p \in Runs, MoveAside(p) \/ MoveIn(p), pc'[p] \in Committing
    PROVE  plan'[p] = plan[p]
  <1>1. TypeOK /\ pc[p] \in Committing /\ UNCHANGED orig
    BY DEF AInv, IInv, MoveAside, MoveIn, Committing
  <1> DEFINE Left(f) == Moved(p, f) => MustRestore(p, f)
  <1>2. /\ plan[p] = {f \in Entries(p) : Left(f)}
        /\ plan'[p] = {f \in Entries(p) : Left(f)'}
    <2>1. Entries(p)' = Entries(p)
      BY <1>1, EntriesStay
    <2> QED
      BY <1>1, <2>1 DEF plan, Moved, Committing
  <1>3. CASE MoveAside(p)
    <2>1. PICK f \in todo[p] :
              /\ IsFirst(f, todo[p])
              /\ \/ /\ disk[f] # Missing
                    /\ disk' = [disk EXCEPT ![f] = Missing]
                    /\ \A r \in Runs, g \in Paths : backup'[r][g] =
                          IF r = p /\ g = f THEN disk[f] ELSE backup[r][g]
                 \/ UNCHANGED <<disk, backup>>
      BY <1>1, <1>3, MoveAsideEffect
    <2>2. pc[p] = "aside" /\ f \in Paths
      BY <1>1, <1>3 DEF MoveAside, TypeOK
    <2>3. CASE UNCHANGED <<disk, backup>>
      BY <1>1, <1>2, <2>3 DEF Moved, MustRestore
    <2>4. CASE /\ disk' = [disk EXCEPT ![f] = Missing]
               /\ \A r \in Runs, g \in Paths : backup'[r][g] =
                     IF r = p /\ g = f THEN disk[f] ELSE backup[r][g]
      <3>1. Left(f) /\ Left(f)'
        <4>1. ~ Moved(p, f)
          BY <2>2 DEF AInv, MovesInOrder
        <4>2. disk'[f] = Missing
          BY <1>1, <2>2, <2>4 DEF TypeOK
        <4> QED
          BY <4>1, <4>2 DEF MustRestore
      <3>2. \A g \in Paths \ {f} : disk'[g] = disk[g] /\ backup'[p][g] = backup[p][g]
        BY <1>1, <2>4 DEF TypeOK
      <3>3. \A g \in Paths \ {f} : Left(g)' <=> Left(g)
        BY <1>1, <3>2 DEF Moved, MustRestore
      <3> QED
        BY <1>2, <3>1, <3>3 DEF Entries
    <2> QED
      BY <2>1, <2>3, <2>4
  <1>4. CASE MoveIn(p)
    <2>1. PICK f \in todo[p] :
              /\ IsFirst(f, todo[p])
              /\ \/ staged[p][f] # Missing /\ disk' = [disk EXCEPT ![f] = staged[p][f]]
                 \/ UNCHANGED disk
      BY <1>1, <1>4, MoveInEffect
    <2>2. pc[p] = "movein" /\ UNCHANGED backup /\ f \in Paths
      BY <1>1, <1>4 DEF MoveIn, TypeOK
    <2>3. CASE UNCHANGED disk
      BY <1>1, <1>2, <2>2, <2>3 DEF Moved, MustRestore
    <2>4. CASE staged[p][f] # Missing /\ disk' = [disk EXCEPT ![f] = staged[p][f]]
      <3>1. Left(f) /\ Left(f)'
        <4>1. disk[f] = Missing
          BY <2>1, <2>2 DEF AInv, MovesInOrder
        <4>2. disk'[f] = Fixed[orig'[p][f]]
          BY <1>1, <2>2, <2>4 DEF AInv, PlannedFixes, TypeOK
        <4> QED
          BY <4>1, <4>2 DEF MustRestore
      <3>2. \A g \in Paths \ {f} : disk'[g] = disk[g]
        BY <1>1, <2>4 DEF TypeOK
      <3>3. \A g \in Paths \ {f} : Left(g)' <=> Left(g)
        BY <1>1, <2>2, <3>2 DEF Moved, MustRestore
      <3> QED
        BY <1>2, <3>1, <3>3 DEF Entries
    <2> QED
      BY <2>1, <2>3, <2>4
  <1> QED
    BY <1>3, <1>4

\* A journal is written for files that, to the eye, have something to fix.
LEMMA WriteBegins ==
    ASSUME AInv, NEW p \in Runs, WriteJournal(p)
    PROVE  \A f \in Entries(p) : Fixed[view[f]] # view[f]
  <1>1. pc[p] = "journal"
    BY DEF WriteJournal
  <1>2. SUFFICES ASSUME NEW f \in Entries(p), f \in Paths PROVE NeedsFix(view[f])
    BY DEF Entries, NeedsFix
  <1>3. disk[f] = orig[p][f] /\ NeedsFix(orig[p][f])
    BY <1>1, <1>2 DEF AInv, MovesInOrder, PlannedFixes
  <1>4. ~ Pending(p, f)
    BY <1>1 DEF AInv, NotYetWritten, Pending
  <1>5. ASSUME NEW q \in Runs \ {p}, Moved(q, f) PROVE FALSE
    <2>1. call[p] = "write" /\ scan[p] = {} /\ Writing(p)
      BY <1>1 DEF AInv, IInv, JournalAfterPlan, NotYetWritten, Writing
    <2>2. ~ Ahead(p, q)
      BY <1>1, <2>1 DEF Ahead, Resolving
    <2> QED
      BY <1>2, <1>5, <2>1, <2>2 DEF AInv, RecoveryIsEnough
  <1>6. view[f] = disk[f]
    BY <1>2, <1>4, <1>5, ViewDisk DEF Pending, Moved
  <1> QED
    BY <1>3, <1>6

\* Every step of a run is a step of AtomicFix, or none.
LEMMA RunIsAtomic ==
    ASSUME AInv, AInv', NEW p \in Runs,
           (StartRun(p) /\ \A q \in Runs : ~ Live(q)) \/ RunStep(p) \/ Failure(p)
    PROVE  Atomic!Next \/ UNCHANGED <<view, plan>>
  <1>1. /\ plan' = [plan EXCEPT ![p] = plan'[p]]
        /\ pc[p] \notin Committing => plan[p] = {}
        /\ pc'[p] \notin Committing => plan'[p] = {}
        /\ plan = [q \in Runs |-> plan[q]]
    BY PlanOfOthers DEF AInv, IInv, plan
  <1>2. CASE pc[p] = "commit" /\ journal'[p] = "committed"
    <2>1. /\ journal' = [journal EXCEPT ![p] = "committed"]
          /\ UNCHANGED <<disk, backup, orig>> /\ pc'[p] \notin Committing
      BY <1>2, Commits DEF AInv, IInv, Committing
    <2>2. \A f \in Paths :
              view'[f] = IF f \in plan[p] THEN Fixed[view[f]] ELSE view[f]
      BY <1>2, <2>1, ViewCommits DEF AInv, IInv
    <2>3. view' = [f \in Paths |-> IF f \in plan[p] THEN Fixed[view[f]] ELSE view[f]]
      <3>1. view' = [f \in Paths |-> view'[f]]
        BY DEF view
      <3> QED
        BY <2>2, <3>1
    <2> QED
      BY <1>1, <2>1, <2>3 DEF Atomic!Next, Atomic!Commit
  <1>3. CASE ~ (pc[p] = "commit" /\ journal'[p] = "committed")
    <2>1. UNCHANGED view
      BY <1>3, ViewStays DEF AInv, IInv
    <2>2. CASE pc'[p] \notin Committing
      BY <1>1, <2>1, <2>2 DEF Atomic!Next, Atomic!GiveUp
    <2>3. CASE WriteJournal(p)
      <3>1. plan[p] = {}
        BY <1>1, <2>3 DEF WriteJournal, Committing
      <3>2. plan'[p] \in SUBSET Paths /\ plan'[p] \subseteq Entries(p)
        <4>1. Entries(p)' = Entries(p) /\ Entries(p) \subseteq Paths
          BY <2>3, EntriesStay DEF WriteJournal, Entries
        <4> QED
          BY <4>1 DEF plan
      <3>3. \A f \in plan'[p] : Fixed[view[f]] # view[f]
        BY <2>3, <3>2, WriteBegins
      <3> QED
        BY <1>1, <2>1, <3>1, <3>2, <3>3 DEF Atomic!Next, Atomic!Begin
    <2>4. CASE pc'[p] \in Committing /\ (MoveAside(p) \/ MoveIn(p))
      BY <1>1, <2>1, <2>4, MovesKeepPlan
    <2> QED
      BY <2>2, <2>3, <2>4, CommittingSteps DEF AInv, IInv
  <1> QED
    BY <1>2, <1>3

\* A saved file leaves the plan of the run that has moved it.
LEMMA SaveIsAtomic ==
    ASSUME AInv, AInv', NEW f \in Paths, NEW t \in UserTexts, Save(f, t),
           \A p \in Runs : ~ Exposed(p, f)
    PROVE  Atomic!Save(f, t)
  <1>1. TypeOK /\ PlannedFixes /\ NoOrphanBackup
    BY DEF AInv, IInv
  <1>2. view' = [view EXCEPT ![f] = t]
    <2>1. view = [g \in Paths |-> view[g]] /\ view' = [g \in Paths |-> view'[g]]
      BY DEF view
    <2>2. view'[f] = t /\ \A g \in Paths \ {f} : view'[g] = view[g]
      BY <1>1, SaveView DEF AInv
    <2> QED
      BY <2>1, <2>2
  <1>3. /\ UNCHANGED <<backup, orig, pc, todo>>
        /\ disk'[f] = t /\ \A g \in Paths \ {f} : disk'[g] = disk[g]
        /\ disk'[f] \in UserTexts
    BY <1>1 DEF Save, TypeOK, local
  <1>4. ASSUME NEW p \in Runs PROVE plan'[p] = plan[p] \ {f}
    <2>1. Entries(p)' = Entries(p) /\ Entries(p) \subseteq Paths
      BY <1>3, EntriesStay DEF Entries
    <2>2. CASE pc[p] \notin Committing
      BY <1>3, <2>2 DEF plan, Committing
    <2>3. CASE pc[p] \in Committing
      <3>1. /\ plan[p] = {g \in Entries(p) : Moved(p, g) => MustRestore(p, g)}
            /\ plan'[p] = {g \in Entries(p) : Moved(p, g)' => MustRestore(p, g)'}
        BY <1>3, <2>1, <2>3 DEF plan, Moved, Committing
      <3>2. \A g \in Paths \ {f} : /\ Moved(p, g)' <=> Moved(p, g)
                                   /\ MustRestore(p, g)' <=> MustRestore(p, g)
        BY <1>3 DEF Moved, MustRestore
      <3>3. f \in Entries(p) => Moved(p, f)' /\ ~ MustRestore(p, f)'
        <4>1. SUFFICES ASSUME f \in Entries(p) PROVE Moved(p, f)' /\ ~ MustRestore(p, f)'
          OBVIOUS
        <4>2. f \notin todo[p]
          BY <2>3, <4>1 DEF AInv, MovesInOrder, Exposed, Committing
        <4>3. Moved(p, f)
          BY <2>3, <4>1, <4>2 DEF AInv, MovesInOrder, Committing
        <4>4. Fixed[orig[p][f]] # orig[p][f] /\ orig[p][f] \in Texts
          BY <1>1, <4>1 DEF PlannedFixes, NeedsFix, Entries, TypeOK, Contents
        <4>5. disk'[f] # Missing /\ disk'[f] # Fixed[orig[p][f]]
          BY <1>3, <4>4, UserTextAssumption, MissingAssumption
        <4> QED
          BY <1>3, <4>3, <4>5 DEF Moved, MustRestore
      <3> QED
        BY <2>1, <3>1, <3>2, <3>3
    <2> QED
      BY <2>2, <2>3
  <1>5. plan' = [p \in Runs |-> plan[p] \ {f}]
    <2>1. plan' = [p \in Runs |-> plan'[p]]
      BY DEF plan
    <2> QED
      BY <1>4, <2>1
  <1> QED
    BY <1>2, <1>5 DEF Atomic!Save

\* However many files, directories and runs over the same files, and wherever they
\* crash, fail or meet a person's save: to the eye a run fixes all of its plan at
\* once, or gives it up (write_all_preserving_encoding).
THEOREM FixIsAtomic ==
    ASSUME OneSelection
    PROVE  Spec => CommitIsAtomic
  <1>1. Init => Atomic!Init
    <2> SUFFICES ASSUME Init PROVE Atomic!Init
      OBVIOUS
    <2>1. \A f \in Paths : view[f] = latest[f] /\ latest[f] \in UserTexts
      BY ViewDisk DEF Init, Pending, Nothing
    <2>2. view \in [Paths -> UserTexts]
      <3>1. view = [f \in Paths |-> view[f]]
        BY DEF view
      <3> QED
        BY <2>1, <3>1
    <2>3. plan = [p \in Runs |-> {}]
      BY DEF plan, Init
    <2> QED
      BY <2>2, <2>3 DEF Atomic!Init
  <1>2. AInv /\ AInv' /\ [Next]_vars => [Atomic!Next]_<<view, plan>>
    <2> SUFFICES ASSUME AInv, AInv', [Next]_vars
                 PROVE  Atomic!Next \/ UNCHANGED <<view, plan>>
      OBVIOUS
    <2>1. CASE UNCHANGED vars
      BY <2>1 DEF vars, view, plan, Entries, Pending, MustRestore
    <2>2. ASSUME NEW p \in Runs,
                 (StartRun(p) /\ \A q \in Runs : ~ Live(q)) \/ RunStep(p) \/ Failure(p)
          PROVE  Atomic!Next \/ UNCHANGED <<view, plan>>
      BY <2>2, RunIsAtomic
    <2>3. ASSUME NEW f \in Paths, NEW t \in UserTexts, Save(f, t),
                 \A p \in Runs : ~ Exposed(p, f)
          PROVE  Atomic!Next
      BY <2>3, SaveIsAtomic DEF Atomic!Next
    <2> QED
      BY <2>1, <2>2, <2>3 DEF Next
  <1> QED
    BY <1>1, <1>2, AtomicInvariance, PTL DEF Spec, CommitIsAtomic, Atomic!Spec
=============================================================================
