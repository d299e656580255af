------------------------------ MODULE AtomicFix ------------------------------
(***************************************************************************)
(* What the fixer promises its user: `write_all_preserving_encoding`       *)
(* ("write all fixes as one recoverable operation", src/src/fix.rs) seen   *)
(* as one atomic step.  A person saves files; a run replaces all the files *)
(* of its plan by their fixed forms at once, or gives its plan up; crashes *)
(* and I/O errors cannot be seen.                                          *)
(***************************************************************************)
CONSTANTS Paths, Runs, UserTexts, Fixed

VARIABLES
    view,   \* the text of each file
    plan    \* the files each run is about to fix

Init == view \in [Paths -> UserTexts] /\ plan = [p \in Runs |-> {}]

\* A file that a person saves leaves the plans: it keeps what was saved.
Save(f, t) ==
    /\ view' = [view EXCEPT ![f] = t]
    /\ plan' = [p \in Runs |-> plan[p] \ {f}]

Begin(p, S) ==
    /\ plan[p] = {}
    /\ \A f \in S : Fixed[view[f]] # view[f]
    /\ plan' = [plan EXCEPT ![p] = S]
    /\ UNCHANGED view

\* All of the plan is fixed, however much of it is left.
Commit(p) ==
    /\ view' = [f \in Paths |-> IF f \in plan[p] THEN Fixed[view[f]] ELSE view[f]]
    /\ plan' = [plan EXCEPT ![p] = {}]

GiveUp(p) == plan' = [plan EXCEPT ![p] = {}] /\ UNCHANGED view

Next ==
    \/ \E f \in Paths, t \in UserTexts : Save(f, t)
    \/ \E p \in Runs :
          \/ \E S \in SUBSET Paths : Begin(p, S)
          \/ Commit(p)
          \/ GiveUp(p)

Spec == Init /\ [][Next]_<<view, plan>>
=============================================================================
