---------------------------- MODULE MCFixJournal ----------------------------
(***************************************************************************)
(* Small instances of FixJournal.  The texts are two a person may save     *)
(* (both with violations) and their fixed forms.                           *)
(***************************************************************************)
EXTENDS FixJournal, TLC

CONSTANTS r1, r2, r3

MCUserTexts == {"a", "b"}
MCTexts == MCUserTexts \cup {"a fixed", "b fixed"}
MCFixed == [t \in MCTexts |-> IF t \in {"a", "a fixed"} THEN "a fixed" ELSE "b fixed"]

\* A directory for each file, and one whose only file is 1.
OwnDirs == [f \in 1 .. 2 |-> f]

\* Two files in one directory and a third alone in another.
TwoAndOne == [f \in 1 .. 3 |-> IF f < 3 THEN 1 ELSE 2]

Everything == {Paths}
Overlapping == {1 .. 2, {2}}

RunSymmetry == Permutations(Runs)

\* What a run that is over kept in memory is gone, and no property reads it.
LiveState ==
    <<files, latest, pc,
      [p \in Runs |->
          IF journal[p] # "none" \/ Live(p) THEN orig[p] ELSE Nothing],
      [p \in Runs |->
          IF Live(p) THEN <<sel[p], scan[p], rec[p], todo[p], call[p]>>
          ELSE <<>>]>>
=============================================================================
