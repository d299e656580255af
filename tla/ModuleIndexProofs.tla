------------------------- MODULE ModuleIndexProofs -------------------------
(***************************************************************************)
(* Proofs about the shared definition index: whatever the files, the       *)
(* modules, what they derive from and the two budgets, no module is parsed *)
(* twice, none that could be had is given up while the run can still       *)
(* parse, and a query is only answered from modules indexed in full.       *)
(*                                                                         *)
(* IInv, stated with the model, is inductive.  A step that loads a module  *)
(* exchanges the top of one worker's stack: the first part says how, an    *)
(* operation at a time, the others what that leaves of each conjunct.      *)
(***************************************************************************)
EXTENDS ModuleIndex, SequenceTheorems, TLAPS

(***************************************************************************)
(* What a step does to the stack of its worker                             *)
(***************************************************************************)
\* The frame on top is exchanged.
LEMMA TopExchanged ==
    ASSUME NEW s \in Seq(Frame), s # <<>>, NEW fr \in Frame
    PROVE  /\ [s EXCEPT ![Len(s)] = fr] \in Seq(Frame)
           /\ Len([s EXCEPT ![Len(s)] = fr]) = Len(s)
           /\ \A i \in 1 .. Len(s) :
                 [s EXCEPT ![Len(s)] = fr][i] = IF i = Len(s) THEN fr ELSE s[i]
  <1>1. Len(s) \in Nat /\ Len(s) # 0 /\ Len(s) \in DOMAIN s
    OBVIOUS
  <1> QED
    BY <1>1

\* A frame is put on top.
LEMMA TopPushed ==
    ASSUME NEW s \in Seq(Frame), NEW fr \in Frame
    PROVE  /\ Append(s, fr) \in Seq(Frame)
           /\ Len(Append(s, fr)) = Len(s) + 1
           /\ \A i \in 1 .. Len(s) + 1 :
                 Append(s, fr)[i] = IF i = Len(s) + 1 THEN fr ELSE s[i]
  OBVIOUS

\* The frame on top is taken off, and the one below it exchanged.
LEMMA TopReturned ==
    ASSUME NEW s \in Seq(Frame), Len(s) > 1, NEW fr \in Frame
    PROVE  /\ Append(SubSeq(s, 1, Len(s) - 2), fr) \in Seq(Frame)
           /\ Len(Append(SubSeq(s, 1, Len(s) - 2), fr)) = Len(s) - 1
           /\ \A i \in 1 .. Len(s) - 1 :
                 Append(SubSeq(s, 1, Len(s) - 2), fr)[i] =
                    IF i = Len(s) - 1 THEN fr ELSE s[i]
  <1>1. PICK n \in Nat : n = Len(s)
    OBVIOUS
  <1> DEFINE t == SubSeq(s, 1, n - 2)
  <1>2. /\ t \in Seq(Frame) /\ Len(t) = n - 2
        /\ \A i \in 1 .. n - 2 : t[i] = s[i]
    <2>1. 1 \in Int /\ n - 2 \in Int /\ \A i \in 1 .. n - 2 : s[i] \in Frame
      BY <1>1
    <2>2. /\ t \in Seq(Frame) /\ Len(t) = IF 1 <= n - 2 THEN n - 2 - 1 + 1 ELSE 0
          /\ \A i \in 1 .. n - 2 - 1 + 1 : t[i] = s[1 + i - 1]
      BY <2>1, SubSeqProperties
    <2> HIDE DEF t
    <2>3. n > 1
      BY <1>1
    <2> QED
      BY <2>2, <2>3
  <1> HIDE DEF t
  <1>3. /\ Append(t, fr) \in Seq(Frame) /\ Len(Append(t, fr)) = n - 1
        /\ \A i \in 1 .. n - 1 :
              Append(t, fr)[i] = IF i = n - 1 THEN fr ELSE s[i]
    BY <1>2
  <1> QED
    BY <1>1, <1>3 DEF t

\* The members of a sequence are its head and those of its tail.
LEMMA HeadAndTail ==
    ASSUME NEW s \in Seq(Modules), s # <<>>
    PROVE  /\ Tail(s) \in Seq(Modules) /\ Head(s) \in Modules
           /\ Range(s) = {Head(s)} \cup Range(Tail(s))
  <1>1. Tail(s) \in Seq(Modules) /\ Head(s) \in Modules
    OBVIOUS
  <1>2. \A x \in Range(s) : x \in {Head(s)} \cup Range(Tail(s))
    <2> TAKE x \in Range(s)
    <2>1. PICK i \in 1 .. Len(s) : x = s[i]
      BY DEF Range
    <2>2. CASE i = 1
      BY <2>1, <2>2
    <2>3. CASE i # 1
      <3>1. i - 1 \in DOMAIN Tail(s) /\ Tail(s)[i - 1] = s[i]
        BY <2>1, <2>3
      <3> QED
        BY <2>1, <3>1 DEF Range
    <2> QED
      BY <2>2, <2>3
  <1>3. \A x \in {Head(s)} \cup Range(Tail(s)) : x \in Range(s)
    <2> TAKE x \in {Head(s)} \cup Range(Tail(s))
    <2>1. CASE x = Head(s)
      <3>1. 1 \in DOMAIN s /\ s[1] = x
        BY <2>1
      <3> QED
        BY <3>1 DEF Range
    <2>2. CASE x \in Range(Tail(s))
      <3>1. PICK i \in DOMAIN Tail(s) : x = Tail(s)[i]
        BY <2>2 DEF Range
      <3>2. i + 1 \in DOMAIN s /\ s[i + 1] = x
        BY <3>1
      <3> QED
        BY <3>2 DEF Range
    <2> QED
      BY <2>1, <2>2
  <1> QED
    BY <1>1, <1>2, <1>3

\* A frame stays a frame.
LEMMA FrameUpdates ==
    ASSUME NEW fr \in Frame
    PROVE  /\ \A q \in Seq(Modules) : [fr EXCEPT !.todo = q] \in Frame
           /\ \A n \in Nat : [fr EXCEPT !.left = n] \in Frame
           /\ \A q \in Seq(Modules), n \in Nat :
                 [fr EXCEPT !.todo = q, !.left = n] \in Frame
           /\ [fr EXCEPT !.step = "written"] \in Frame
           /\ \A q \in Seq(Modules), n \in Nat :
                 [fr EXCEPT !.step = "loading", !.todo = q, !.left = n] \in Frame
           /\ fr.mod \in Modules \cup {Query} /\ fr.todo \in Seq(Modules) /\ fr.left \in Nat
  BY DEF Frame

\* The stack of one worker is exchanged.
LEMMA StackExchanged ==
    ASSUME stack \in [Files -> Seq(Frame)], NEW f \in Files, NEW t \in Seq(Frame),
           stack' = [stack EXCEPT ![f] = t]
    PROVE  /\ stack' \in [Files -> Seq(Frame)] /\ stack'[f] = t
           /\ \A g \in Files \ {f} : stack'[g] = stack[g]
  OBVIOUS

\* SkipModule goes on to the next module of the frame on top.
LEMMA SkipEffect ==
    ASSUME TypeOK, NEW f \in Files, SkipModule(f)
    PROVE  \E n \in Nat \ {0} :
              /\ n = Len(stack[f]) /\ stack[f][n].step = "loading"
              /\ stack[f][n].todo # <<>>
              /\ \/ Head(stack[f][n].todo) \in Active(f)
                 \/ modules[Head(stack[f][n].todo)] = "indexed"
              /\ stack' \in [Files -> Seq(Frame)] /\ Len(stack'[f]) = n
              /\ \A i \in 1 .. n : stack'[f][i] =
                    IF i = n THEN [stack[f][n] EXCEPT !.todo = Tail(stack[f][n].todo)]
                    ELSE stack[f][i]
              /\ \A g \in Files \ {f} : stack'[g] = stack[g]
  <1>1. stack \in [Files -> Seq(Frame)] /\ stack[f] \in Seq(Frame) /\ stack[f] # <<>>
    BY DEF TypeOK, SkipModule, Wants, Loads
  <1>2. PICK n \in Nat \ {0} : n = Len(stack[f])
    BY <1>1
  <1> DEFINE top == stack[f][n]
             new == [top EXCEPT !.todo = Tail(top.todo)]
             t == [stack[f] EXCEPT ![Len(stack[f])] = new]
  <1>3. /\ top.step = "loading" /\ top.todo # <<>>
        /\ Head(top.todo) \in Active(f) \/ modules[Head(top.todo)] = "indexed"
    BY <1>2 DEF SkipModule, Wants, Loads, Top, Settled
  <1>4. top \in Frame
    BY <1>1, <1>2
  <1>5. new \in Frame
    <2>1. Tail(top.todo) \in Seq(Modules)
      BY <1>3, <1>4, FrameUpdates, HeadAndTail
    <2> QED
      BY <1>4, <2>1, FrameUpdates
  <1>6. stack' = [stack EXCEPT ![f] = t]
    BY <1>2 DEF SkipModule
  <1> HIDE DEF new
  <1>7. /\ t \in Seq(Frame) /\ Len(t) = n
        /\ \A i \in 1 .. n : t[i] = IF i = n THEN new ELSE stack[f][i]
    BY <1>1, <1>2, <1>5, TopExchanged
  <1> HIDE DEF t
  <1>8. /\ stack' \in [Files -> Seq(Frame)] /\ stack'[f] = t
        /\ \A g \in Files \ {f} : stack'[g] = stack[g]
    BY <1>1, <1>6, <1>7, StackExchanged
  <1> QED
    BY <1>2, <1>3, <1>7, <1>8 DEF new

\* ClaimModule puts a module on top that nobody has.
LEMMA ClaimEffect ==
    ASSUME TypeOK, NEW f \in Files, ClaimModule(f)
    PROVE  \E n \in Nat \ {0}, m \in Modules :
              /\ n = Len(stack[f]) /\ stack[f][n].step = "loading"
              /\ stack[f][n].todo # <<>> /\ Head(stack[f][n].todo) = m
              /\ modules[m] = "none" /\ modules' = [modules EXCEPT ![m] = "indexing"]
              /\ stack' \in [Files -> Seq(Frame)] /\ Len(stack'[f]) = n + 1
              /\ \A i \in 1 .. n : stack'[f][i] = stack[f][i]
              /\ stack'[f][n + 1] = [mod |-> m, step |-> "claimed", todo |-> <<>>, left |-> 0]
              /\ \A g \in Files \ {f} : stack'[g] = stack[g]
  <1>1. stack \in [Files -> Seq(Frame)] /\ stack[f] \in Seq(Frame) /\ stack[f] # <<>>
    BY DEF TypeOK, ClaimModule, Wants, Loads
  <1>2. PICK n \in Nat \ {0} : n = Len(stack[f])
    BY <1>1
  <1>3. PICK m \in Modules :
            /\ Wants(f, m) /\ modules[m] = "none" /\ modules' = [modules EXCEPT ![m] = "indexing"]
            /\ stack' = [stack EXCEPT ![f] = Append(stack[f],
                  [mod |-> m, step |-> "claimed", todo |-> <<>>, left |-> 0])]
    BY DEF ClaimModule, CanClaim, Set
  <1> DEFINE new == [mod |-> m, step |-> "claimed", todo |-> <<>>, left |-> 0]
             t == Append(stack[f], new)
  <1>4. new \in Frame
    BY DEF Frame
  <1> HIDE DEF new
  <1>5. /\ t \in Seq(Frame) /\ Len(t) = n + 1
        /\ \A i \in 1 .. n + 1 : t[i] = IF i = n + 1 THEN new ELSE stack[f][i]
    BY <1>1, <1>2, <1>4, TopPushed
  <1>6. stack' = [stack EXCEPT ![f] = t]
    BY <1>3 DEF new
  <1> HIDE DEF t
  <1>7. /\ stack' \in [Files -> Seq(Frame)] /\ stack'[f] = t
        /\ \A g \in Files \ {f} : stack'[g] = stack[g]
    BY <1>1, <1>5, <1>6, StackExchanged
  <1>8. /\ stack[f][n].step = "loading" /\ stack[f][n].todo # <<>>
        /\ Head(stack[f][n].todo) = m
    BY <1>2, <1>3 DEF Wants, Loads, Top
  <1>9. \A i \in 1 .. n : t[i] = stack[f][i]
    BY <1>2, <1>5
  <1>10. t[n + 1] = new
    BY <1>2, <1>5
  <1> HIDE DEF t
  <1>11. stack'[f] = t
    BY <1>7
  <1>12. /\ Len(stack'[f]) = n + 1 /\ stack'[f][n + 1] = new
         /\ \A i \in 1 .. n : stack'[f][i] = stack[f][i]
    <2>1. Len(t) = n + 1
      BY <1>5
    <2> QED
      BY <2>1, <1>9, <1>10, <1>11
  <1>13. /\ stack' \in [Files -> Seq(Frame)]
         /\ \A g \in Files \ {f} : stack'[g] = stack[g]
    BY <1>7
  <1>14. modules[m] = "none" /\ modules' = [modules EXCEPT ![m] = "indexing"]
    BY <1>3
  <1>15. /\ n = Len(stack[f]) /\ stack[f][n].step = "loading"
         /\ stack[f][n].todo # <<>> /\ Head(stack[f][n].todo) = m
         /\ modules[m] = "none" /\ modules' = [modules EXCEPT ![m] = "indexing"]
         /\ stack' \in [Files -> Seq(Frame)] /\ Len(stack'[f]) = n + 1
         /\ \A i \in 1 .. n : stack'[f][i] = stack[f][i]
         /\ stack'[f][n + 1] = new
         /\ \A g \in Files \ {f} : stack'[g] = stack[g]
    BY <1>2, <1>8, <1>12, <1>13, <1>14
  <1> QED
    BY <1>15 DEF new

\* MissModule and ReleaseModule take the module on top off, and the frame below goes on.
LEMMA ReturnEffect ==
    ASSUME TypeOK, StackInOrder, NEW f \in Files, NEW cost \in {0, 1}, Return(f, cost),
           stack[f] # <<>>, Top(f).mod # Query, cost <= stack[f][Len(stack[f]) - 1].left
    PROVE  \E n \in Nat \ {0} :
              /\ n + 1 = Len(stack[f])
              /\ Head(stack[f][n].todo) = Held(f, n + 1) /\ Held(f, n + 1) \in Modules
              /\ stack[f][n].step = "loading" /\ stack[f][n].todo # <<>>
              /\ stack' \in [Files -> Seq(Frame)] /\ Len(stack'[f]) = n
              /\ \A i \in 1 .. n : stack'[f][i] =
                    IF i = n THEN [stack[f][n] EXCEPT !.todo = Tail(stack[f][n].todo),
                                                      !.left = stack[f][n].left - cost]
                    ELSE stack[f][i]
              /\ \A g \in Files \ {f} : stack'[g] = stack[g]
  <1>1. stack \in [Files -> Seq(Frame)] /\ stack[f] \in Seq(Frame)
    BY DEF TypeOK
  <1>2. PICK n \in Nat \ {0} : n + 1 = Len(stack[f])
    <2>1. PICK k \in Nat \ {0} : k = Len(stack[f])
      BY <1>1
    <2>2. k # 1
      BY <2>1 DEF StackInOrder, Frames, Held, Top
    <2>3. k - 1 \in Nat \ {0} /\ (k - 1) + 1 = Len(stack[f])
      BY <2>1, <2>2
    <2> QED
      BY <2>3
  <1> DEFINE below == stack[f][n]
             new == [below EXCEPT !.todo = Tail(below.todo), !.left = below.left - cost]
             t == Append(SubSeq(stack[f], 1, Len(stack[f]) - 2), new)
  <1>3. /\ below \in Frame /\ stack[f][n + 1] \in Frame
        /\ Len(stack[f]) > 1 /\ Len(stack[f]) - 1 = n
        /\ n \in DOMAIN stack[f] /\ n + 1 \in DOMAIN stack[f] /\ n < Len(stack[f])
        /\ n + 1 # 1
    BY <1>1, <1>2
  <1>4. /\ below.step = "loading" /\ below.todo # <<>>
        /\ Head(below.todo) = Held(f, n + 1) /\ Held(f, n + 1) # Query
    BY <1>3 DEF StackInOrder, Frames
  <1>5. Held(f, n + 1) \in Modules
    BY <1>3, <1>4, FrameUpdates DEF Held
  <1>6. new \in Frame
    <2>1. Tail(below.todo) \in Seq(Modules)
      BY <1>3, <1>4, FrameUpdates, HeadAndTail
    <2>2. below.left \in Nat /\ cost <= below.left
      BY <1>3, FrameUpdates
    <2>3. below.left - cost \in Nat
      BY <2>2
    <2> QED
      BY <1>3, <2>1, <2>3, FrameUpdates
  <1>7. stack' = [stack EXCEPT ![f] = t]
    <2>1. stack' = [stack EXCEPT ![f] =
              Append(SubSeq(stack[f], 1, Len(stack[f]) - 2),
                     [stack[f][Len(stack[f]) - 1] EXCEPT !.todo = Tail(@), !.left = @ - cost])]
      BY DEF Return
    <2>2. [stack[f][Len(stack[f]) - 1] EXCEPT !.todo = Tail(@), !.left = @ - cost] = new
      BY <1>3
    <2> HIDE DEF new
    <2> QED
      BY <2>1, <2>2
  <1> HIDE DEF new
  <1>8. /\ t \in Seq(Frame) /\ Len(t) = n
        /\ \A i \in 1 .. n : t[i] = IF i = n THEN new ELSE stack[f][i]
    BY <1>1, <1>3, <1>6, TopReturned
  <1> HIDE DEF t
  <1>9. /\ stack' \in [Files -> Seq(Frame)] /\ stack'[f] = t
        /\ \A g \in Files \ {f} : stack'[g] = stack[g]
    BY <1>1, <1>7, <1>8, StackExchanged
  <1> QED
    BY <1>2, <1>4, <1>5, <1>8, <1>9 DEF new

\* ParseModule pays for the parse of the module on top, which then asks for the bases
\* of its class, unless it cannot be parsed and is taken off.
LEMMA ParseEffect ==
    ASSUME TypeOK, StackInOrder, NEW f \in Files, ParseModule(f)
    PROVE  \E n \in Nat \ {0}, m \in Modules :
              /\ n + 1 = Len(stack[f]) /\ Held(f, n + 1) = m
              /\ stack[f][n + 1].step = "claimed"
              /\ Head(stack[f][n].todo) = m
              /\ stack[f][n].step = "loading" /\ stack[f][n].todo # <<>>
              /\ stack[f][n].left > 0 /\ budget > 0
              /\ budget' = budget - 1 /\ parsed' = [parsed EXCEPT ![m] = parsed[m] + 1]
              /\ stack' \in [Files -> Seq(Frame)]
              /\ \A g \in Files \ {f} : stack'[g] = stack[g]
              /\ \/ /\ Kind[m] = "good" /\ modules' = modules /\ Len(stack'[f]) = n + 1
                    /\ \A i \in 1 .. n + 1 : stack'[f][i] =
                          IF i = n + 1
                          THEN [stack[f][n + 1] EXCEPT !.step = "loading", !.todo = Bases[m],
                                                       !.left = QueryBudget]
                          ELSE IF i = n
                          THEN [stack[f][n] EXCEPT !.left = stack[f][n].left - 1]
                          ELSE stack[f][i]
                 \/ /\ Kind[m] = "unparsable" /\ modules' = [modules EXCEPT ![m] = "indexed"]
                    /\ Len(stack'[f]) = n
                    /\ \A i \in 1 .. n : stack'[f][i] =
                          IF i = n
                          THEN [stack[f][n] EXCEPT !.todo = Tail(stack[f][n].todo),
                                                   !.left = stack[f][n].left - 1]
                          ELSE stack[f][i]
  <1>1. /\ stack \in [Files -> Seq(Frame)] /\ stack[f] \in Seq(Frame) /\ stack[f] # <<>>
        /\ Top(f).step = "claimed"
    BY DEF TypeOK, ParseModule, Loads
  <1>2. PICK n \in Nat \ {0} : n + 1 = Len(stack[f])
    <2>1. PICK k \in Nat \ {0} : k = Len(stack[f])
      BY <1>1
    <2>2. k # 1
      BY <1>1, <2>1 DEF StackInOrder, Frames, Top
    <2>3. k - 1 \in Nat \ {0} /\ (k - 1) + 1 = Len(stack[f])
      BY <2>1, <2>2
    <2> QED
      BY <2>3
  <1> DEFINE below == stack[f][n]
  <1>3. /\ below \in Frame /\ stack[f][n + 1] \in Frame /\ Len(stack[f]) - 1 = n
        /\ n \in DOMAIN stack[f] /\ n + 1 \in DOMAIN stack[f] /\ n < Len(stack[f])
        /\ n + 1 # 1
    BY <1>1, <1>2
  <1>4. /\ below.step = "loading" /\ below.todo # <<>>
        /\ Head(below.todo) = Held(f, n + 1) /\ Held(f, n + 1) # Query
    BY <1>3 DEF StackInOrder, Frames
  <1>5. PICK m \in Modules : /\ Held(f, n + 1) = m /\ m = Top(f).mod
                             /\ stack[f][n + 1].step = "claimed"
    <2>1. Top(f) = stack[f][n + 1]
      BY <1>2 DEF Top
    <2> QED
      BY <1>1, <1>3, <1>4, <2>1, FrameUpdates DEF Held
  <1>6. /\ Kind[m] # "absent" /\ below.left > 0 /\ budget > 0
        /\ budget' = budget - 1 /\ parsed' = [parsed EXCEPT ![m] = parsed[m] + 1]
    BY <1>3, <1>5 DEF ParseModule, Affordable
  <1>7. CASE /\ Kind[m] = "unparsable" /\ Set(m, "indexed") /\ Return(f, 1)
    <2>1. Top(f).mod # Query /\ 1 <= stack[f][Len(stack[f]) - 1].left
      <3>1. below.left \in Nat
        BY <1>3, FrameUpdates
      <3>2. 1 <= below.left
        BY <3>1, <1>6
      <3> QED
        BY <3>2, <1>3, <1>4, <1>5
    <2>2. 1 \in {0, 1}
      OBVIOUS
    <2>3. PICK k \in Nat \ {0} :
              /\ k + 1 = Len(stack[f])
              /\ stack' \in [Files -> Seq(Frame)] /\ Len(stack'[f]) = k
              /\ \A i \in 1 .. k : stack'[f][i] =
                    IF i = k THEN [stack[f][k] EXCEPT !.todo = Tail(stack[f][k].todo),
                                                      !.left = stack[f][k].left - 1]
                    ELSE stack[f][i]
              /\ \A g \in Files \ {f} : stack'[g] = stack[g]
      BY <1>1, <1>7, <2>1, <2>2, ReturnEffect
    <2>4. k = n
      BY <1>2, <2>3
    <2>5. modules' = [modules EXCEPT ![m] = "indexed"]
      BY <1>7 DEF Set
    <2>6. /\ Kind[m] = "unparsable" /\ modules' = [modules EXCEPT ![m] = "indexed"]
          /\ Len(stack'[f]) = n
          /\ \A i \in 1 .. n : stack'[f][i] =
                IF i = n
                THEN [stack[f][n] EXCEPT !.todo = Tail(stack[f][n].todo),
                                         !.left = stack[f][n].left - 1]
                ELSE stack[f][i]
      BY <1>7, <2>3, <2>4, <2>5
    <2>7. stack' \in [Files -> Seq(Frame)] /\ \A g \in Files \ {f} : stack'[g] = stack[g]
      BY <2>3
    <2>8. below.step = "loading" /\ below.todo # <<>> /\ Head(below.todo) = m
      BY <1>4, <1>5
    <2> QED
      BY <1>2, <1>5, <1>6, <2>6, <2>7, <2>8
  <1>8. CASE /\ Kind[m] = "good" /\ UNCHANGED modules
             /\ stack' = [stack EXCEPT
                    ![f][Len(stack[f]) - 1].left = @ - 1,
                    ![f][Len(stack[f])] = [@ EXCEPT !.step = "loading",
                                                    !.todo = Bases[m],
                                                    !.left = QueryBudget]]
    <2> DEFINE new == [stack[f][n + 1] EXCEPT !.step = "loading", !.todo = Bases[m],
                                              !.left = QueryBudget]
               paid == [below EXCEPT !.left = below.left - 1]
               s == [stack[f] EXCEPT ![n] = paid]
               t == [s EXCEPT ![n + 1] = new]
    <2>1. new \in Frame
      <3>1. Bases[m] \in Seq(Modules) /\ QueryBudget \in Nat
        BY <1>5, RouteAssumption, BudgetAssumption
      <3> QED
        BY <3>1, <1>3, FrameUpdates
    <2>3. paid \in Frame
      <3>1. below.left \in Nat
        BY <1>3, FrameUpdates
      <3>2. below.left - 1 \in Nat
        BY <3>1, <1>6
      <3> QED
        BY <3>2, <1>3, FrameUpdates
    <2>4. stack' = [stack EXCEPT ![f] = t]
      BY <1>1, <1>2, <1>3, <1>8
    <2> HIDE DEF new, paid
    <2>5. s \in Seq(Frame) /\ Len(s) = n + 1 /\ DOMAIN s = 1 .. n + 1
      BY <1>1, <1>2, <2>3
    <2>6. t \in Seq(Frame) /\ Len(t) = n + 1
      BY <2>1, <2>5
    <2>7. \A i \in 1 .. n + 1 :
             t[i] = IF i = n + 1 THEN new ELSE IF i = n THEN paid ELSE stack[f][i]
      BY <1>1, <1>2, <2>5
    <2> HIDE DEF s, t
    <2>8. /\ stack' \in [Files -> Seq(Frame)] /\ stack'[f] = t
          /\ \A g \in Files \ {f} : stack'[g] = stack[g]
      BY <1>1, <2>4, <2>6, StackExchanged
    <2>9. /\ Kind[m] = "good" /\ modules' = modules /\ Len(stack'[f]) = n + 1
          /\ \A i \in 1 .. n + 1 : stack'[f][i] =
                IF i = n + 1 THEN new ELSE IF i = n THEN paid ELSE stack[f][i]
      BY <1>8, <2>6, <2>7, <2>8
    <2>10. below.step = "loading" /\ below.todo # <<>> /\ Head(below.todo) = m
      BY <1>4, <1>5
    <2>11. stack' \in [Files -> Seq(Frame)] /\ \A g \in Files \ {f} : stack'[g] = stack[g]
      BY <2>8
    <2>12. /\ n + 1 = Len(stack[f]) /\ Held(f, n + 1) = m
           /\ stack[f][n + 1].step = "claimed"
      BY <1>2, <1>5
    <2> QED
      BY <1>6, <2>9, <2>10, <2>11, <2>12 DEF new, paid
  <1>9. \/ /\ Kind[m] = "unparsable" /\ Set(m, "indexed") /\ Return(f, 1)
        \/ /\ Kind[m] = "good" /\ UNCHANGED modules
           /\ stack' = [stack EXCEPT
                  ![f][Len(stack[f]) - 1].left = @ - 1,
                  ![f][Len(stack[f])] = [@ EXCEPT !.step = "loading",
                                                  !.todo = Bases[m],
                                                  !.left = QueryBudget]]
    BY <1>5 DEF ParseModule
  <1> QED
    BY <1>7, <1>8, <1>9

\* IndexModule writes what the module on top defines, once its bases are dealt with.
LEMMA IndexEffect ==
    ASSUME TypeOK, NEW f \in Files, IndexModule(f)
    PROVE  \E n \in Nat \ {0}, m \in Modules :
              /\ n = Len(stack[f]) /\ stack[f][n].step = "loading" /\ Held(f, n) = m
              /\ signatures' = signatures \cup {m} /\ excluded' = excluded \ {m}
              /\ known' = known \cup {m}
              /\ stack' \in [Files -> Seq(Frame)] /\ Len(stack'[f]) = n
              /\ \A i \in 1 .. n : stack'[f][i] =
                    IF i = n THEN [stack[f][n] EXCEPT !.step = "written"] ELSE stack[f][i]
              /\ \A g \in Files \ {f} : stack'[g] = stack[g]
  <1>1. stack \in [Files -> Seq(Frame)] /\ stack[f] \in Seq(Frame) /\ stack[f] # <<>>
    BY DEF TypeOK, IndexModule, Loads
  <1>2. PICK n \in Nat \ {0} : n = Len(stack[f])
    BY <1>1
  <1> DEFINE top == stack[f][n]
             new == [top EXCEPT !.step = "written"]
             t == [stack[f] EXCEPT ![Len(stack[f])] = new]
  <1>3. Top(f) = top
    BY <1>2 DEF Top
  <1>4. top \in Frame
    BY <1>1, <1>2
  <1>5. /\ top.step = "loading" /\ top.mod # Query
        /\ signatures' = signatures \cup {top.mod} /\ excluded' = excluded \ {top.mod}
        /\ known' = known \cup {top.mod}
    BY <1>3 DEF IndexModule, Loads
  <1>6. new \in Frame /\ top.mod \in Modules
    BY <1>4, <1>5, FrameUpdates
  <1>7. stack' = [stack EXCEPT ![f] = t]
    BY <1>2 DEF IndexModule
  <1> HIDE DEF new
  <1>8. /\ t \in Seq(Frame) /\ Len(t) = n
        /\ \A i \in 1 .. n : t[i] = IF i = n THEN new ELSE stack[f][i]
    BY <1>1, <1>2, <1>6, TopExchanged
  <1> HIDE DEF t
  <1>9. /\ stack' \in [Files -> Seq(Frame)] /\ stack'[f] = t
        /\ \A g \in Files \ {f} : stack'[g] = stack[g]
    BY <1>1, <1>7, <1>8, StackExchanged
  <1> QED
    BY <1>2, <1>5, <1>6, <1>8, <1>9 DEF new, Held

\* MissModule gives the module on top up: there is none, or no budget for it.
LEMMA MissEffect ==
    ASSUME TypeOK, StackInOrder, NEW f \in Files, MissModule(f)
    PROVE  \E n \in Nat \ {0}, m \in Modules :
              /\ n + 1 = Len(stack[f]) /\ Held(f, n + 1) = m
              /\ stack[f][n + 1].step = "claimed"
              /\ stack[f][n].step = "loading" /\ stack[f][n].todo # <<>>
              /\ Head(stack[f][n].todo) = m
              /\ \/ Kind[m] = "absent" /\ modules' = [modules EXCEPT ![m] = "indexed"]
                 \/ stack[f][n].left = 0 /\ modules' = [modules EXCEPT ![m] = "none"]
                 \/ budget = 0 /\ modules' = [modules EXCEPT ![m] = "indexed"]
              /\ stack' \in [Files -> Seq(Frame)] /\ Len(stack'[f]) = n
              /\ \A i \in 1 .. n : stack'[f][i] =
                    IF i = n THEN [stack[f][n] EXCEPT !.todo = Tail(stack[f][n].todo),
                                                      !.left = stack[f][n].left - 0]
                    ELSE stack[f][i]
              /\ \A g \in Files \ {f} : stack'[g] = stack[g]
  <1>1. /\ stack \in [Files -> Seq(Frame)] /\ stack[f] \in Seq(Frame) /\ stack[f] # <<>>
        /\ Top(f).step = "claimed" /\ Return(f, 0)
    BY DEF TypeOK, MissModule, Loads
  <1>2. PICK n \in Nat \ {0} : n + 1 = Len(stack[f])
    <2>1. PICK k \in Nat \ {0} : k = Len(stack[f])
      BY <1>1
    <2>2. k # 1
      BY <1>1, <2>1 DEF StackInOrder, Frames, Top
    <2>3. k - 1 \in Nat \ {0} /\ (k - 1) + 1 = Len(stack[f])
      BY <2>1, <2>2
    <2> QED
      BY <2>3
  <1>3. /\ stack[f][n] \in Frame /\ Len(stack[f]) - 1 = n
        /\ n + 1 \in DOMAIN stack[f] /\ n + 1 # 1
    BY <1>1, <1>2
  <1>4. Top(f).mod # Query /\ Top(f) = stack[f][n + 1]
    BY <1>2, <1>3 DEF StackInOrder, Frames, Held, Top
  <1>5. 0 \in {0, 1} /\ 0 <= stack[f][Len(stack[f]) - 1].left
    <2>1. stack[f][n].left \in Nat
      BY <1>3, FrameUpdates
    <2>2. 0 <= stack[f][n].left
      BY <2>1
    <2> QED
      BY <2>2, <1>3
  <1>6. PICK k \in Nat \ {0} :
              /\ k + 1 = Len(stack[f])
              /\ Head(stack[f][k].todo) = Held(f, k + 1) /\ Held(f, k + 1) \in Modules
              /\ stack[f][k].step = "loading" /\ stack[f][k].todo # <<>>
              /\ stack' \in [Files -> Seq(Frame)] /\ Len(stack'[f]) = k
              /\ \A i \in 1 .. k : stack'[f][i] =
                    IF i = k THEN [stack[f][k] EXCEPT !.todo = Tail(stack[f][k].todo),
                                                      !.left = stack[f][k].left - 0]
                    ELSE stack[f][i]
              /\ \A g \in Files \ {f} : stack'[g] = stack[g]
    BY <1>1, <1>4, <1>5, ReturnEffect
  <1>7. k = n
    BY <1>2, <1>6
  <1>8. stack[f][n + 1].step = "claimed" /\ Held(f, n + 1) = Top(f).mod
    BY <1>1, <1>4 DEF Held
  <1>9. LET m == Top(f).mod IN
           \/ Kind[m] = "absent" /\ modules' = [modules EXCEPT ![m] = "indexed"]
           \/ stack[f][n].left = 0 /\ modules' = [modules EXCEPT ![m] = "none"]
           \/ budget = 0 /\ modules' = [modules EXCEPT ![m] = "indexed"]
    <2>1. budget \in Nat
      BY BudgetAssumption DEF TypeOK
    <2>2. stack[f][Len(stack[f]) - 1] = stack[f][n]
      BY <1>3
    <2>3. stack[f][n].left \in Nat
      BY <1>3, FrameUpdates
    <2> QED
      BY <2>1, <2>2, <2>3 DEF MissModule, Set, Affordable, AbandonedState
  <1>10. PICK m \in Modules : m = Held(f, n + 1) /\ m = Top(f).mod
    BY <1>6, <1>7, <1>8
  <1>11. \/ Kind[m] = "absent" /\ modules' = [modules EXCEPT ![m] = "indexed"]
         \/ stack[f][n].left = 0 /\ modules' = [modules EXCEPT ![m] = "none"]
         \/ budget = 0 /\ modules' = [modules EXCEPT ![m] = "indexed"]
    BY <1>9, <1>10
  <1>12. /\ n + 1 = Len(stack[f]) /\ Held(f, n + 1) = m
         /\ stack[f][n + 1].step = "claimed"
         /\ stack[f][n].step = "loading" /\ stack[f][n].todo # <<>>
         /\ Head(stack[f][n].todo) = m
    BY <1>6, <1>7, <1>8, <1>10
  <1>13. /\ stack' \in [Files -> Seq(Frame)] /\ Len(stack'[f]) = n
         /\ \A i \in 1 .. n : stack'[f][i] =
               IF i = n THEN [stack[f][n] EXCEPT !.todo = Tail(stack[f][n].todo),
                                                 !.left = stack[f][n].left - 0]
               ELSE stack[f][i]
         /\ \A g \in Files \ {f} : stack'[g] = stack[g]
    BY <1>6, <1>7
  <1> QED
    BY <1>11, <1>12, <1>13

\* ReleaseModule lets go of the module on top.
LEMMA ReleaseEffect ==
    ASSUME TypeOK, StackInOrder, NEW f \in Files, ReleaseModule(f)
    PROVE  \E n \in Nat \ {0}, m \in Modules :
              /\ n + 1 = Len(stack[f]) /\ Held(f, n + 1) = m
              /\ stack[f][n + 1].step = "written"
              /\ stack[f][n].step = "loading" /\ stack[f][n].todo # <<>>
              /\ Head(stack[f][n].todo) = m
              /\ modules' = [modules EXCEPT ![m] = "indexed"]
              /\ stack' \in [Files -> Seq(Frame)] /\ Len(stack'[f]) = n
              /\ \A i \in 1 .. n : stack'[f][i] =
                    IF i = n THEN [stack[f][n] EXCEPT !.todo = Tail(stack[f][n].todo),
                                                      !.left = stack[f][n].left - 0]
                    ELSE stack[f][i]
              /\ \A g \in Files \ {f} : stack'[g] = stack[g]
  <1>1. /\ stack \in [Files -> Seq(Frame)] /\ stack[f] \in Seq(Frame) /\ stack[f] # <<>>
        /\ Top(f).step = "written" /\ Return(f, 0)
        /\ modules' = [modules EXCEPT ![Top(f).mod] = "indexed"]
    BY DEF TypeOK, ReleaseModule, Loads, Set
  <1>2. PICK n \in Nat \ {0} : n + 1 = Len(stack[f])
    <2>1. PICK k \in Nat \ {0} : k = Len(stack[f])
      BY <1>1
    <2>2. k # 1
      BY <1>1, <2>1 DEF StackInOrder, Frames, Top
    <2>3. k - 1 \in Nat \ {0} /\ (k - 1) + 1 = Len(stack[f])
      BY <2>1, <2>2
    <2> QED
      BY <2>3
  <1>3. /\ stack[f][n] \in Frame /\ Len(stack[f]) - 1 = n
        /\ n + 1 \in DOMAIN stack[f] /\ n + 1 # 1
    BY <1>1, <1>2
  <1>4. Top(f).mod # Query /\ Top(f) = stack[f][n + 1]
    BY <1>2, <1>3 DEF StackInOrder, Frames, Held, Top
  <1>5. 0 \in {0, 1} /\ 0 <= stack[f][Len(stack[f]) - 1].left
    <2>1. stack[f][n].left \in Nat
      BY <1>3, FrameUpdates
    <2>2. 0 <= stack[f][n].left
      BY <2>1
    <2> QED
      BY <2>2, <1>3
  <1>6. PICK k \in Nat \ {0} :
              /\ k + 1 = Len(stack[f])
              /\ Head(stack[f][k].todo) = Held(f, k + 1) /\ Held(f, k + 1) \in Modules
              /\ stack[f][k].step = "loading" /\ stack[f][k].todo # <<>>
              /\ stack' \in [Files -> Seq(Frame)] /\ Len(stack'[f]) = k
              /\ \A i \in 1 .. k : stack'[f][i] =
                    IF i = k THEN [stack[f][k] EXCEPT !.todo = Tail(stack[f][k].todo),
                                                      !.left = stack[f][k].left - 0]
                    ELSE stack[f][i]
              /\ \A g \in Files \ {f} : stack'[g] = stack[g]
    BY <1>1, <1>4, <1>5, ReturnEffect
  <1>7. k = n
    BY <1>2, <1>6
  <1>8. stack[f][n + 1].step = "written" /\ Held(f, n + 1) = Top(f).mod
    BY <1>1, <1>4 DEF Held
  <1>9. PICK m \in Modules : m = Held(f, n + 1) /\ m = Top(f).mod
    BY <1>6, <1>7, <1>8
  <1>10. /\ n + 1 = Len(stack[f]) /\ Held(f, n + 1) = m
         /\ stack[f][n + 1].step = "written"
         /\ stack[f][n].step = "loading" /\ stack[f][n].todo # <<>>
         /\ Head(stack[f][n].todo) = m /\ modules' = [modules EXCEPT ![m] = "indexed"]
    BY <1>1, <1>6, <1>7, <1>8, <1>9
  <1>11. /\ stack' \in [Files -> Seq(Frame)] /\ Len(stack'[f]) = n
         /\ \A i \in 1 .. n : stack'[f][i] =
               IF i = n THEN [stack[f][n] EXCEPT !.todo = Tail(stack[f][n].todo),
                                                 !.left = stack[f][n].left - 0]
               ELSE stack[f][i]
         /\ \A g \in Files \ {f} : stack'[g] = stack[g]
    BY <1>6, <1>7
  <1> QED
    BY <1>10, <1>11

\* A worker that walks its file loads nothing: it puts a query on its stack or takes
\* one off.
LEMMA WalkEffect ==
    ASSUME IInv, NEW f \in Files, Walk(f)
    PROVE  /\ UNCHANGED <<modules, budget, known, program, pass, parsed>>
           /\ stack' \in [Files -> Seq(Frame)]
           /\ \A g \in Files \ {f} : stack'[g] = stack[g]
           /\ \/ stack'[f] = stack[f]
              \/ stack'[f] = <<>>
              \/ \E route \in Seq(Modules) :
                    stack'[f] = <<[mod |-> Query, step |-> "loading", todo |-> route,
                                   left |-> QueryBudget]>>
  <1>1. UNCHANGED <<modules, budget, known, program, pass, parsed>>
    BY DEF Walk, BeginRebind, Rebind, SkipCall, LookUp, Get, Resolve, Memoize, Found,
           LookInBases, Judge, store
  <1>2. stack \in [Files -> Seq(Frame)] /\ agenda[f] \in Seq(Modules)
    BY DEF IInv, TypeOK
  <1>3. \/ UNCHANGED stack
        \/ stack' = [stack EXCEPT ![f] = <<>>]
        \/ Ask(f, Route[Target(f)]) /\ agenda[f] # <<>>
        \/ Ask(f, <<Target(f)>>) /\ stage[f] = "found"
    BY DEF Walk, BeginRebind, Rebind, SkipCall, LookUp, Get, Resolve, Memoize, Found,
           LookInBases, Judge, At
  <1>4. CASE UNCHANGED stack
    BY <1>1, <1>2, <1>4
  <1>5. CASE stack' = [stack EXCEPT ![f] = <<>>]
    <2>1. <<>> \in Seq(Frame)
      OBVIOUS
    <2> QED
      BY <1>1, <1>2, <1>5, <2>1, StackExchanged
  <1>6. ASSUME NEW route \in Seq(Modules), Ask(f, route)
        PROVE  /\ stack' \in [Files -> Seq(Frame)]
               /\ \A g \in Files \ {f} : stack'[g] = stack[g]
               /\ stack'[f] = <<[mod |-> Query, step |-> "loading", todo |-> route,
                                 left |-> QueryBudget]>>
    <2> DEFINE fr == [mod |-> Query, step |-> "loading", todo |-> route,
                      left |-> QueryBudget]
    <2>1. fr \in Frame
      BY BudgetAssumption DEF Frame
    <2>2. stack' = [stack EXCEPT ![f] = <<fr>>]
      BY <1>6 DEF Ask
    <2> HIDE DEF fr
    <2>3. <<fr>> \in Seq(Frame)
      BY <2>1
    <2>4. /\ stack' \in [Files -> Seq(Frame)] /\ stack'[f] = <<fr>>
          /\ \A g \in Files \ {f} : stack'[g] = stack[g]
      BY <1>2, <2>2, <2>3, StackExchanged
    <2> QED
      BY <2>4 DEF fr
  <1>7. CASE Ask(f, Route[Target(f)]) /\ agenda[f] # <<>>
    <2>1. Target(f) \in Modules
      BY <1>2, <1>7 DEF Target
    <2>2. Route[Target(f)] \in Seq(Modules)
      BY <2>1, RouteAssumption
    <2> QED
      BY <1>1, <1>6, <1>7, <2>2
  <1>8. CASE Ask(f, <<Target(f)>>) /\ stage[f] = "found"
    <2>1. agenda[f] # <<>>
      BY <1>8 DEF IInv, InHand
    <2>2. Target(f) \in Modules
      BY <1>2, <2>1 DEF Target
    <2>3. <<Target(f)>> \in Seq(Modules)
      BY <2>2
    <2> QED
      BY <1>1, <1>6, <1>8, <2>3
  <1> QED
    BY <1>3, <1>4, <1>5, <1>7, <1>8

\* So what it had claimed it still holds.
LEMMA WalkKeepsClaims ==
    ASSUME IInv, NEW f \in Files, Walk(f)
    PROVE  \A g \in Files : \A i \in Frames(g)' :
              i # 1 => i \in Frames(g) /\ stack'[g][i] = stack[g][i]
  <1> SUFFICES ASSUME NEW g \in Files, NEW i \in DOMAIN stack'[g], i # 1
               PROVE  i \in DOMAIN stack[g] /\ stack'[g][i] = stack[g][i]
    BY DEF Frames
  <1>1. /\ \A h \in Files \ {f} : stack'[h] = stack[h]
        /\ \/ stack'[f] = stack[f]
           \/ stack'[f] = <<>>
           \/ \E route \in Seq(Modules) :
                 stack'[f] = <<[mod |-> Query, step |-> "loading", todo |-> route,
                                left |-> QueryBudget]>>
    BY WalkEffect
  <1>2. DOMAIN stack'[g] \subseteq {1} \/ stack'[g] = stack[g]
    <2>1. \A fr : DOMAIN <<fr>> = {1}
      OBVIOUS
    <2>2. DOMAIN <<>> = {}
      OBVIOUS
    <2> QED
      BY <1>1, <2>1, <2>2
  <1> QED
    BY <1>2

\* A worker within its file is at one of its operations.
LEMMA CurrentIsAnOperation ==
    ASSUME TypeOK, NEW f \in Files, ~Ended(f)
    PROVE  op[f] \in DOMAIN program[f] /\ Current(f) \in Op
  <1>1. program[f] \in Seq(Op) /\ op[f] \in Nat \ {0}
    BY ProgramsAssumption DEF TypeOK
  <1>2. PICK n \in Nat : n = Len(program[f])
    BY <1>1
  <1>3. op[f] \in 1 .. n
    BY <1>1, <1>2 DEF Ended
  <1>4. op[f] \in DOMAIN program[f]
    BY <1>1, <1>2, <1>3
  <1> QED
    BY <1>1, <1>4 DEF Current

(***************************************************************************)
(* The variables keep their types                                          *)
(***************************************************************************)
LEMMA InitTypeOK == Init => TypeOK
  <1> SUFFICES ASSUME Init PROVE TypeOK
    OBVIOUS
  <1>1. /\ modules \in [Modules -> {"none", "indexing", "indexed"}]
        /\ signatures \subseteq Modules /\ excluded \subseteq Modules /\ known \subseteq Modules
        /\ budget \in 0 .. ModuleBudget
    BY EagerAssumption, BudgetAssumption DEF Init
  <1>2. /\ memo \in [Modules -> {"unknown", "some", "none"}] /\ program \in Programs
        /\ pass \in {"discover", "judge", "done"} /\ op \in [Files -> Nat \ {0}]
        /\ stage \in [Files -> Stages] /\ answer \in [Files -> BOOLEAN]
        /\ subclasses \in [Files -> SUBSET Modules] /\ tried \in [Files -> SUBSET Modules]
        /\ parsed \in [Modules -> Nat]
    BY DEF Init, Stages
  <1>3. agenda \in [Files -> Seq(Modules)] /\ stack \in [Files -> Seq(Frame)]
    <2>1. <<>> \in Seq(Modules) /\ <<>> \in Seq(Frame)
      OBVIOUS
    <2> QED
      BY <2>1 DEF Init
  <1>4. DOMAIN verdict = Files /\ \A f \in Files : verdict[f] \in [DOMAIN program[f] -> Verdicts]
    BY DEF Init, Verdicts
  <1> QED
    BY <1>1, <1>2, <1>3, <1>4 DEF TypeOK

\* Of what loading a module leaves alone the types are those of before.
LEMMA LoadTypeOK ==
    ASSUME TypeOK, UNCHANGED <<memo, program, pass, op, stage, lookup, verdict>>,
           stack' \in [Files -> Seq(Frame)],
           modules' \in [Modules -> {"none", "indexing", "indexed"}],
           budget' \in 0 .. ModuleBudget, parsed' \in [Modules -> Nat],
           signatures' \subseteq Modules, excluded' \subseteq Modules, known' \subseteq Modules
    PROVE  TypeOK'
  BY DEF TypeOK, lookup

LEMMA TypeIsKept == ASSUME IInv, [Next]_vars PROVE TypeOK'
  <1>1. TypeOK /\ StackInOrder
    BY DEF IInv
  <1>2. /\ modules \in [Modules -> {"none", "indexing", "indexed"}]
        /\ budget \in 0 .. ModuleBudget /\ parsed \in [Modules -> Nat]
        /\ signatures \subseteq Modules /\ excluded \subseteq Modules /\ known \subseteq Modules
    BY <1>1 DEF TypeOK
  <1>3. ASSUME NEW f \in Files, SkipModule(f) PROVE TypeOK'
    <2>1. UNCHANGED <<memo, program, pass, op, stage, lookup, verdict>>
      BY <1>3 DEF SkipModule, lookup
    <2>2. stack' \in [Files -> Seq(Frame)] /\ modules' \in [Modules -> {"none", "indexing", "indexed"}]
      <3>1. modules' = modules
        BY <1>3 DEF SkipModule
      <3> QED
        BY <1>1, <1>2, <1>3, <3>1, SkipEffect
    <2>3. /\ budget' \in 0 .. ModuleBudget /\ parsed' \in [Modules -> Nat]
          /\ signatures' \subseteq Modules /\ excluded' \subseteq Modules
          /\ known' \subseteq Modules
      BY <1>2, <1>3 DEF SkipModule, store
    <2> QED
      BY <1>1, <2>1, <2>2, <2>3, LoadTypeOK
  <1>4. ASSUME NEW f \in Files, ClaimModule(f) PROVE TypeOK'
    <2>1. UNCHANGED <<memo, program, pass, op, stage, lookup, verdict>>
      BY <1>4 DEF ClaimModule, lookup
    <2>2. stack' \in [Files -> Seq(Frame)] /\ modules' \in [Modules -> {"none", "indexing", "indexed"}]
      BY <1>1, <1>2, <1>4, ClaimEffect
    <2>3. /\ budget' \in 0 .. ModuleBudget /\ parsed' \in [Modules -> Nat]
          /\ signatures' \subseteq Modules /\ excluded' \subseteq Modules
          /\ known' \subseteq Modules
      BY <1>2, <1>4 DEF ClaimModule, store
    <2> QED
      BY <1>1, <2>1, <2>2, <2>3, LoadTypeOK
  <1>5. ASSUME NEW f \in Files, MissModule(f) PROVE TypeOK'
    <2>1. UNCHANGED <<memo, program, pass, op, stage, lookup, verdict>>
      BY <1>5 DEF MissModule, lookup
    <2>2. stack' \in [Files -> Seq(Frame)] /\ modules' \in [Modules -> {"none", "indexing", "indexed"}]
      BY <1>1, <1>2, <1>5, MissEffect
    <2>3. /\ budget' \in 0 .. ModuleBudget /\ parsed' \in [Modules -> Nat]
          /\ signatures' \subseteq Modules /\ excluded' \subseteq Modules
          /\ known' \subseteq Modules
      BY <1>2, <1>5 DEF MissModule, store
    <2> QED
      BY <1>1, <2>1, <2>2, <2>3, LoadTypeOK
  <1>6. ASSUME NEW f \in Files, ReleaseModule(f) PROVE TypeOK'
    <2>1. UNCHANGED <<memo, program, pass, op, stage, lookup, verdict>>
      BY <1>6 DEF ReleaseModule, lookup
    <2>2. stack' \in [Files -> Seq(Frame)] /\ modules' \in [Modules -> {"none", "indexing", "indexed"}]
      BY <1>1, <1>2, <1>6, ReleaseEffect
    <2>3. /\ budget' \in 0 .. ModuleBudget /\ parsed' \in [Modules -> Nat]
          /\ signatures' \subseteq Modules /\ excluded' \subseteq Modules
          /\ known' \subseteq Modules
      BY <1>2, <1>6 DEF ReleaseModule, store
    <2> QED
      BY <1>1, <2>1, <2>2, <2>3, LoadTypeOK
  <1>7. ASSUME NEW f \in Files, ParseModule(f) PROVE TypeOK'
    <2>1. UNCHANGED <<memo, program, pass, op, stage, lookup, verdict>>
      BY <1>7 DEF ParseModule, lookup
    <2>4. PICK m \in Modules :
              /\ budget > 0 /\ budget' = budget - 1
              /\ parsed' = [parsed EXCEPT ![m] = parsed[m] + 1]
              /\ modules' = modules \/ modules' = [modules EXCEPT ![m] = "indexed"]
              /\ stack' \in [Files -> Seq(Frame)]
      BY <1>1, <1>7, ParseEffect
    <2>2. stack' \in [Files -> Seq(Frame)] /\ modules' \in [Modules -> {"none", "indexing", "indexed"}]
      BY <1>2, <2>4
    <2>3. /\ budget' \in 0 .. ModuleBudget /\ parsed' \in [Modules -> Nat]
          /\ signatures' \subseteq Modules /\ excluded' \subseteq Modules
          /\ known' \subseteq Modules
      <3>1. budget' \in 0 .. ModuleBudget
        BY <1>2, <2>4, BudgetAssumption
      <3>2. parsed' \in [Modules -> Nat]
        BY <1>2, <2>4
      <3> QED
        BY <1>2, <1>7, <3>1, <3>2 DEF ParseModule, store
    <2> QED
      BY <1>1, <2>1, <2>2, <2>3, LoadTypeOK
  <1>8. ASSUME NEW f \in Files, IndexModule(f) PROVE TypeOK'
    <2>1. UNCHANGED <<memo, program, pass, op, stage, lookup, verdict>>
      BY <1>8 DEF IndexModule, lookup
    <2>4. PICK m \in Modules :
              /\ signatures' = signatures \cup {m} /\ excluded' = excluded \ {m}
              /\ known' = known \cup {m} /\ stack' \in [Files -> Seq(Frame)]
      BY <1>1, <1>8, IndexEffect
    <2>2. stack' \in [Files -> Seq(Frame)] /\ modules' \in [Modules -> {"none", "indexing", "indexed"}]
      BY <1>2, <1>8, <2>4 DEF IndexModule
    <2>3. /\ budget' \in 0 .. ModuleBudget /\ parsed' \in [Modules -> Nat]
          /\ signatures' \subseteq Modules /\ excluded' \subseteq Modules
          /\ known' \subseteq Modules
      BY <1>2, <1>8, <2>4 DEF IndexModule
    <2> QED
      BY <1>1, <2>1, <2>2, <2>3, LoadTypeOK
  <1>9. ASSUME NEW f \in Files, Walk(f) PROVE TypeOK'
    <2>1. /\ modules' \in [Modules -> {"none", "indexing", "indexed"}]
          /\ budget' \in 0 .. ModuleBudget /\ parsed' \in [Modules -> Nat]
          /\ known' \subseteq Modules /\ program' \in Programs
          /\ pass' \in {"discover", "judge", "done"} /\ stack' \in [Files -> Seq(Frame)]
      <3>1. /\ UNCHANGED <<modules, budget, known, program, pass, parsed>>
            /\ stack' \in [Files -> Seq(Frame)]
        BY <1>9, WalkEffect
      <3> QED
        BY <1>1, <3>1 DEF TypeOK
    <2>2. /\ op \in [Files -> Nat \ {0}] /\ stage \in [Files -> Stages]
          /\ agenda \in [Files -> Seq(Modules)] /\ tried \in [Files -> SUBSET Modules]
          /\ answer \in [Files -> BOOLEAN] /\ subclasses \in [Files -> SUBSET Modules]
          /\ memo \in [Modules -> {"unknown", "some", "none"}]
          /\ DOMAIN verdict = Files
          /\ \A g \in Files : verdict[g] \in [DOMAIN program[g] -> Verdicts]
      BY <1>1 DEF TypeOK
    <2>3. signatures' \subseteq Modules /\ excluded' \subseteq Modules
      <3>1. CASE Rebind(f)
        <4>1. Current(f).name \in Modules
          BY <1>1, <3>1, CurrentIsAnOperation DEF Rebind, At, Op
        <4>2. ({Current(f).name} \cup subclasses[f]) \subseteq Modules
          BY <2>2, <4>1
        <4> QED
          BY <1>2, <3>1, <4>2 DEF Rebind
      <3>2. CASE UNCHANGED <<signatures, excluded>>
        BY <1>2, <3>2
      <3> QED
        BY <1>9, <3>1, <3>2 DEF Walk, BeginRebind, SkipCall, LookUp, Get, Resolve, Memoize,
           Found, LookInBases, Judge, store
    <2>4. op' \in [Files -> Nat \ {0}] /\ stage' \in [Files -> Stages]
      <3>1. \/ UNCHANGED op
            \/ op' = [op EXCEPT ![f] = @ + 1]
        BY <1>9 DEF Walk, BeginRebind, Rebind, SkipCall, LookUp, Get, Resolve, Memoize,
           Found, LookInBases, Judge, Advance
      <3>2. \/ UNCHANGED stage
            \/ \E s \in Stages : stage' = [stage EXCEPT ![f] = s]
        BY <1>9 DEF Walk, BeginRebind, Rebind, SkipCall, LookUp, Get, Resolve, Memoize,
           Found, LookInBases, Judge, Advance, Goto, Stages
      <3>3. op[f] + 1 \in Nat \ {0}
        BY <2>2
      <3>4. op' \in [Files -> Nat \ {0}]
        BY <2>2, <3>1, <3>3
      <3>5. stage' \in [Files -> Stages]
        BY <2>2, <3>2
      <3> QED
        BY <3>4, <3>5
    <2>5. agenda' \in [Files -> Seq(Modules)]
      <3>1. CASE UNCHANGED agenda
        BY <2>2, <3>1
      <3>2. CASE Get(f) /\ agenda' = [agenda EXCEPT ![f] = Tail(agenda[f])]
        <4>1. agenda[f] \in Seq(Modules) /\ agenda[f] # <<>>
          BY <2>2, <3>2 DEF Get
        <4>2. Tail(agenda[f]) \in Seq(Modules)
          BY <4>1
        <4> QED
          BY <2>2, <3>2, <4>2
      <3>3. CASE LookUp(f)
        <4>1. Current(f).name \in Modules
          BY <1>1, <3>3, CurrentIsAnOperation DEF LookUp, At, Op
        <4>2. <<Current(f).name>> \in Seq(Modules)
          BY <4>1
        <4> QED
          BY <2>2, <3>3, <4>2 DEF LookUp
      <3>4. CASE LookInBases(f)
        <4>1. agenda[f] # <<>> /\ agenda[f] \in Seq(Modules)
          BY <2>2, <3>4 DEF IInv, InHand, LookInBases, At
        <4>2. Head(agenda[f]) \in Modules /\ Tail(agenda[f]) \in Seq(Modules)
          BY <4>1
        <4>3. (IF Head(agenda[f]) \in known THEN Bases[Head(agenda[f])] ELSE <<>>) \in Seq(Modules)
          BY <4>2, RouteAssumption
        <4>4. (IF Head(agenda[f]) \in known THEN Bases[Head(agenda[f])] ELSE <<>>)
                 \o Tail(agenda[f]) \in Seq(Modules)
          BY <4>2, <4>3
        <4> QED
          BY <2>2, <3>4, <4>4 DEF LookInBases
      <3> QED
        BY <1>9, <3>1, <3>2, <3>3, <3>4 DEF Walk, BeginRebind, Rebind, SkipCall, Get, Resolve,
           Memoize, Found, Judge, lookup
    <2>6. tried' \in [Files -> SUBSET Modules]
      <3>1. CASE LookInBases(f)
        <4>1. agenda[f] # <<>> /\ agenda[f] \in Seq(Modules)
          BY <2>2, <3>1 DEF IInv, InHand, LookInBases, At
        <4>2. Target(f) \in Modules
          BY <4>1 DEF Target
        <4> QED
          BY <2>2, <3>1, <4>2 DEF LookInBases
      <3>2. CASE tried' = [tried EXCEPT ![f] = {}] \/ UNCHANGED tried
        BY <2>2, <3>2
      <3> QED
        BY <1>9, <3>1, <3>2 DEF Walk, BeginRebind, Rebind, SkipCall, LookUp, Get, Resolve,
           Memoize, Found, Judge, lookup
    <2>7. answer' \in [Files -> BOOLEAN]
      <3>1. \/ UNCHANGED answer
            \/ answer' = [answer EXCEPT ![f] = memo[Target(f)] = "some"]
            \/ answer' = [answer EXCEPT ![f] = Target(f) \in signatures]
        BY <1>9 DEF Walk, BeginRebind, Rebind, SkipCall, LookUp, Get, Resolve, Memoize,
           Found, LookInBases, Judge, lookup
      <3>2. (memo[Target(f)] = "some") \in BOOLEAN /\ (Target(f) \in signatures) \in BOOLEAN
        OBVIOUS
      <3>3. \A b \in BOOLEAN : [answer EXCEPT ![f] = b] \in [Files -> BOOLEAN]
        BY <2>2
      <3> QED
        BY <2>2, <3>1, <3>2, <3>3
    <2>8. subclasses' \in [Files -> SUBSET Modules]
      <3>1. Heirs(Current(f).name) \subseteq Modules
        BY <1>2 DEF Heirs, Derived
      <3>2. \/ UNCHANGED subclasses \/ subclasses' = [subclasses EXCEPT ![f] = {}]
            \/ subclasses' = [subclasses EXCEPT ![f] = Heirs(Current(f).name)]
        BY <1>9 DEF Walk, BeginRebind, Rebind, SkipCall, LookUp, Get, Resolve, Memoize,
           Found, LookInBases, Judge, lookup
      <3> QED
        BY <2>2, <3>1, <3>2
    <2>9. memo' \in [Modules -> {"unknown", "some", "none"}]
      <3>1. UNCHANGED memo \/ memo' = [memo EXCEPT ![Target(f)] = "some"]
            \/ memo' = [memo EXCEPT ![Target(f)] = "none"]
        BY <1>9 DEF Walk, BeginRebind, Rebind, SkipCall, LookUp, Get, Resolve, Memoize,
           Found, LookInBases, Judge
      <3> QED
        BY <2>2, <3>1
    <2>10. /\ DOMAIN verdict' = Files
           /\ \A g \in Files : verdict'[g] \in [DOMAIN program[g] -> Verdicts]
      <3>1. UNCHANGED verdict \/ \E v \in Verdicts : verdict' = [verdict EXCEPT ![f][op[f]] = v]
        BY <1>9 DEF Walk, BeginRebind, Rebind, SkipCall, LookUp, Get, Resolve, Memoize,
           Found, LookInBases, Judge, Verdicts
      <3>2. \A v \in Verdicts :
               [verdict[f] EXCEPT ![op[f]] = v] \in [DOMAIN program[f] -> Verdicts]
        BY <2>2
      <3>3. ASSUME NEW v \in Verdicts, verdict' = [verdict EXCEPT ![f][op[f]] = v]
            PROVE  /\ DOMAIN verdict' = Files
                   /\ \A g \in Files : verdict'[g] \in [DOMAIN program[g] -> Verdicts]
        <4>1. PICK w : w = [verdict[f] EXCEPT ![op[f]] = v]
          OBVIOUS
        <4>2. verdict' = [verdict EXCEPT ![f] = w]
          BY <3>3, <4>1
        <4>3. w \in [DOMAIN program[f] -> Verdicts]
          BY <3>2, <4>1
        <4> QED
          BY <2>2, <4>2, <4>3
      <3> QED
        BY <2>2, <3>1, <3>3
    <2>11. program' = program
      BY <1>9, WalkEffect
    <2> QED
      BY <2>1, <2>3, <2>4, <2>5, <2>6, <2>7, <2>8, <2>9, <2>10, <2>11 DEF TypeOK
  <1>10. CASE BeginJudging \/ End
    <2>1. UNCHANGED <<modules, budget, store, memo, program, stage, stack, lookup, verdict, parsed>>
      BY <1>10 DEF BeginJudging, End
    <2>2. pass' \in {"discover", "judge", "done"} /\ op' \in [Files -> Nat \ {0}]
      BY <1>1, <1>10 DEF BeginJudging, End, TypeOK
    <2> QED
      BY <1>1, <2>1, <2>2 DEF TypeOK, store, lookup
  <1>11. CASE UNCHANGED vars
    BY <1>1, <1>11 DEF TypeOK, vars, Verdicts
  <1> QED
    BY <1>3, <1>4, <1>5, <1>6, <1>7, <1>8, <1>9, <1>10, <1>11
       DEF Next, Work, Load, WaitForModule, Rest

\* What an update of a frame leaves of its fields.
LEMMA FrameFields ==
    ASSUME NEW fr \in Frame
    PROVE  /\ \A q : /\ [fr EXCEPT !.todo = q].mod = fr.mod
                     /\ [fr EXCEPT !.todo = q].step = fr.step
                     /\ [fr EXCEPT !.todo = q].todo = q
                     /\ [fr EXCEPT !.todo = q].left = fr.left
           /\ \A k : /\ [fr EXCEPT !.left = k].mod = fr.mod
                     /\ [fr EXCEPT !.left = k].step = fr.step
                     /\ [fr EXCEPT !.left = k].todo = fr.todo
                     /\ [fr EXCEPT !.left = k].left = k
           /\ \A q, k : /\ [fr EXCEPT !.todo = q, !.left = k].mod = fr.mod
                        /\ [fr EXCEPT !.todo = q, !.left = k].step = fr.step
                        /\ [fr EXCEPT !.todo = q, !.left = k].todo = q
                        /\ [fr EXCEPT !.todo = q, !.left = k].left = k
           /\ [fr EXCEPT !.step = "written"].mod = fr.mod
           /\ [fr EXCEPT !.step = "written"].step = "written"
           /\ [fr EXCEPT !.step = "written"].todo = fr.todo
           /\ [fr EXCEPT !.step = "written"].left = fr.left
           /\ \A q, k :
                 /\ [fr EXCEPT !.step = "loading", !.todo = q, !.left = k].mod = fr.mod
                 /\ [fr EXCEPT !.step = "loading", !.todo = q, !.left = k].step = "loading"
                 /\ [fr EXCEPT !.step = "loading", !.todo = q, !.left = k].todo = q
                 /\ [fr EXCEPT !.step = "loading", !.todo = q, !.left = k].left = k
  BY DEF Frame

(***************************************************************************)
(* What a step leaves of the stacks                                        *)
(***************************************************************************)
\* The frames of a stack are numbered.
LEMMA FramesAreNumbered ==
    ASSUME stack \in [Files -> Seq(Frame)], NEW f \in Files, NEW n \in Nat, n = Len(stack[f])
    PROVE  /\ Frames(f) = 1 .. n
           /\ \A i \in 1 .. n : stack[f][i] \in Frame
           /\ stack[f] # <<>> <=> n > 0
  BY DEF Frames

LEMMA FramesAreNumberedNext ==
    ASSUME stack' \in [Files -> Seq(Frame)], NEW f \in Files, NEW n \in Nat, n = Len(stack'[f])
    PROVE  /\ Frames(f)' = 1 .. n
           /\ \A i \in 1 .. n : stack'[f][i] \in Frame
           /\ stack'[f] # <<>> <=> n > 0
  BY DEF Frames

\* The stacks of the others are as they were.
LEMMA OthersStay ==
    ASSUME NEW f \in Files, \A g \in Files \ {f} : stack'[g] = stack[g]
    PROVE  \A g \in Files \ {f} :
              /\ Frames(g)' = Frames(g)
              /\ \A i \in Frames(g) : Held(g, i)' = Held(g, i)
  BY DEF Frames, Held

\* Modules that stay on their stacks, and claimed, stay exclusive.
LEMMA ClaimsStay ==
    ASSUME IInv, StackInOrder',
           \A g \in Files : \A i \in Frames(g)' : i # 1 =>
               /\ i \in Frames(g) /\ Held(g, i)' = Held(g, i)
               /\ modules'[Held(g, i)] = modules[Held(g, i)]
    PROVE  ClaimsAreExclusive'
  <1> SUFFICES ASSUME NEW f \in Files, NEW g \in Files, NEW i \in Frames(f)',
                      NEW j \in Frames(g)', i # 1
               PROVE  /\ modules'[Held(f, i)'] = "indexing"
                      /\ Held(f, i)' = Held(g, j)' => f = g /\ i = j
    BY DEF ClaimsAreExclusive
  <1>1. i \in Frames(f) /\ Held(f, i)' = Held(f, i) /\ modules'[Held(f, i)] = modules[Held(f, i)]
    OBVIOUS
  <1>2. modules'[Held(f, i)'] = "indexing"
    BY <1>1 DEF IInv, ClaimsAreExclusive
  <1>3. CASE j = 1
    <2>1. \A h \in Files : \A k \in Frames(h)' : Held(h, k)' = Query <=> k = 1
      BY DEF StackInOrder
    <2>2. Held(f, i)' # Query /\ Held(g, j)' = Query
      BY <1>3, <2>1
    <2> QED
      BY <1>2, <2>2
  <1>4. CASE j # 1
    <2>1. j \in Frames(g) /\ Held(g, j)' = Held(g, j)
      BY <1>4
    <2> QED
      BY <1>1, <2>1 DEF IInv, ClaimsAreExclusive
  <1> QED
    BY <1>2, <1>3, <1>4

\* The order of a stack whose frame on top changes, or is taken off.
LEMMA OrderStays ==
    ASSUME IInv, NEW f \in Files, UNCHANGED stage, NEW n \in Nat \ {0}, n \in Frames(f),
           stack' \in [Files -> Seq(Frame)], \A g \in Files \ {f} : stack'[g] = stack[g],
           Len(stack'[f]) = n,
           \A i \in 1 .. n - 1 : /\ Held(f, i)' = Held(f, i)
                                 /\ stack'[f][i].step = stack[f][i].step
                                 /\ stack'[f][i].todo = stack[f][i].todo,
           Held(f, n)' = Held(f, n),
           n = 1 => stack'[f][n].step = "loading"
    PROVE  StackInOrder'
  <1>1. stack \in [Files -> Seq(Frame)]
    BY DEF IInv, TypeOK
  <1>2. PICK k \in Nat : k = Len(stack[f])
    BY <1>1
  <1>3. Frames(f) = 1 .. k /\ stack[f] # <<>> /\ n <= k
    <2>1. Frames(f) = 1 .. k /\ (stack[f] # <<>> <=> k > 0)
      BY <1>1, <1>2, FramesAreNumbered
    <2> QED
      BY <2>1
  <1>4. Frames(f)' = 1 .. n /\ stack'[f] # <<>>
    <2>1. Frames(f)' = 1 .. n /\ (stack'[f] # <<>> <=> n > 0)
      BY FramesAreNumberedNext
    <2> QED
      BY <2>1
  <1>5. stage'[f] \in {"resolve", "class"} <=> stack'[f] # <<>>
    BY <1>3, <1>4 DEF IInv, StackInOrder
  <1>6. ASSUME NEW i \in 1 .. n
        PROVE  /\ Held(f, i)' = Query <=> i = 1
               /\ i = 1 => stack'[f][i].step = "loading"
               /\ i < n => /\ stack'[f][i].step = "loading" /\ stack'[f][i].todo # <<>>
                           /\ Head(stack'[f][i].todo) = Held(f, i + 1)'
    <2>1. /\ Held(f, i) = Query <=> i = 1
          /\ i = 1 => stack[f][i].step = "loading"
          /\ i < k => /\ stack[f][i].step = "loading" /\ stack[f][i].todo # <<>>
                      /\ Head(stack[f][i].todo) = Held(f, i + 1)
      BY <1>2, <1>3 DEF IInv, StackInOrder
    <2>2. CASE i = n
      BY <2>1, <2>2
    <2>3. CASE i # n
      <3>1. i \in 1 .. n - 1 /\ i < k
        BY <1>3, <2>3
      <3>2. Held(f, i + 1)' = Held(f, i + 1)
        <4>1. i + 1 = n \/ i + 1 \in 1 .. n - 1
          BY <3>1
        <4> QED
          BY <4>1
      <3> QED
        BY <2>1, <3>1, <3>2
    <2> QED
      BY <2>2, <2>3
  <1>7. /\ stage'[f] \in {"resolve", "class"} <=> stack'[f] # <<>>
        /\ \A i \in Frames(f)' :
              /\ Held(f, i)' = Query <=> i = 1
              /\ i = 1 => stack'[f][i].step = "loading"
              /\ i < Len(stack'[f]) =>
                    /\ stack'[f][i].step = "loading" /\ stack'[f][i].todo # <<>>
                    /\ Head(stack'[f][i].todo) = Held(f, i + 1)'
    BY <1>4, <1>5, <1>6
  <1>8. ASSUME NEW g \in Files \ {f}
        PROVE  /\ stage'[g] \in {"resolve", "class"} <=> stack'[g] # <<>>
               /\ \A i \in Frames(g)' :
                     /\ Held(g, i)' = Query <=> i = 1
                     /\ i = 1 => stack'[g][i].step = "loading"
                     /\ i < Len(stack'[g]) =>
                           /\ stack'[g][i].step = "loading" /\ stack'[g][i].todo # <<>>
                           /\ Head(stack'[g][i].todo) = Held(g, i + 1)'
    <2>1. stack'[g] = stack[g] /\ stage'[g] = stage[g]
      OBVIOUS
    <2> QED
      BY <2>1 DEF IInv, StackInOrder, Frames, Held
  <1> QED
    BY <1>7, <1>8 DEF StackInOrder

\* A query that dealt with its next module, or paid for a parse, has walked its route.
LEMMA RouteStays ==
    ASSUME IInv, NEW f \in Files, UNCHANGED <<stage, agenda>>, stack[f] # <<>>,
           \A g \in Files \ {f} : stack'[g] = stack[g],
           \A x \in Modules : modules[x] = "indexed" => modules'[x] = "indexed",
           \A x \in Range(stack[f][1].todo) :
               \/ x \in Range(stack'[f][1].todo)
               \/ stack'[f][1].left = 0
               \/ modules'[x] = "indexed",
           stack[f][1].left = 0 => stack'[f][1].left = 0
    PROVE  RouteIsWalked'
  <1> SUFFICES ASSUME NEW g \in Files, stage'[g] = "resolve",
                      NEW x \in Range(Route[Target(g)'])
               PROVE  \/ x \in Range(stack'[g][1].todo)
                      \/ stack'[g][1].left = 0
                      \/ modules'[x] = "indexed"
    BY DEF RouteIsWalked
  <1>1. Target(g)' = Target(g) /\ stage[g] = "resolve"
    BY DEF Target
  <1>2. \/ x \in Range(stack[g][1].todo) \/ stack[g][1].left = 0 \/ modules[x] = "indexed"
    BY <1>1 DEF IInv, RouteIsWalked
  <1>3. x \in Modules
    <2>1. agenda[g] # <<>> /\ agenda[g] \in Seq(Modules)
      BY <1>1 DEF IInv, InHand, TypeOK
    <2>2. Target(g) \in Modules
      BY <2>1 DEF Target
    <2>3. Route[Target(g)] \in Seq(Modules)
      BY <2>2, RouteAssumption
    <2> QED
      BY <1>1, <2>3 DEF Range
  <1>4. CASE g = f
    BY <1>2, <1>3, <1>4
  <1>5. CASE g # f
    BY <1>2, <1>3, <1>5
  <1> QED
    BY <1>4, <1>5

\* Loading keeps what a worker has in hand.
LEMMA HandStays ==
    ASSUME IInv, UNCHANGED <<stage, agenda, op, program>>
    PROVE  InHand'
  BY DEF IInv, InHand, Ended

(***************************************************************************)
(* Each step of loading keeps the invariant                                *)
(***************************************************************************)
LEMMA SkipKeepsIInv ==
    ASSUME IInv, NEW f \in Files, SkipModule(f), TypeOK'
    PROVE  IInv'
  <1>1. /\ TypeOK /\ StackInOrder
        /\ stack \in [Files -> Seq(Frame)]
        /\ UNCHANGED <<modules, budget, known, parsed, stage, agenda, op, program>>
    BY DEF IInv, TypeOK, SkipModule, store, lookup
  <1>2. PICK n \in Nat \ {0} :
              /\ n = Len(stack[f]) /\ stack[f][n].step = "loading"
              /\ stack[f][n].todo # <<>>
              /\ \/ Head(stack[f][n].todo) \in Active(f)
                 \/ modules[Head(stack[f][n].todo)] = "indexed"
              /\ stack' \in [Files -> Seq(Frame)] /\ Len(stack'[f]) = n
              /\ \A i \in 1 .. n : stack'[f][i] =
                    IF i = n THEN [stack[f][n] EXCEPT !.todo = Tail(stack[f][n].todo)]
                    ELSE stack[f][i]
              /\ \A g \in Files \ {f} : stack'[g] = stack[g]
    BY <1>1, SkipEffect
  <1>3. Frames(f) = 1 .. n /\ Frames(f)' = 1 .. n /\ stack[f][n] \in Frame /\ stack[f] # <<>>
    <2>1. Frames(f) = 1 .. n /\ stack[f][n] \in Frame /\ stack[f] # <<>>
      BY <1>1, <1>2, FramesAreNumbered
    <2>2. Frames(f)' = 1 .. n
      BY <1>2, FramesAreNumberedNext
    <2> QED
      BY <2>1, <2>2
  <1>0. /\ stack'[f][n] = [stack[f][n] EXCEPT !.todo = Tail(stack[f][n].todo)]
        /\ \A i \in 1 .. n : i # n => stack'[f][i] = stack[f][i]
    <2>1. n \in 1 .. n
      OBVIOUS
    <2>2. \A i \in 1 .. n : i # n => stack'[f][i] = stack[f][i]
      BY <1>2
    <2>3. stack'[f][n] = IF n = n THEN [stack[f][n] EXCEPT !.todo = Tail(stack[f][n].todo)] ELSE stack[f][n]
      BY <1>2, <2>1
    <2> QED
      BY <2>2, <2>3
  <1>4. \A i \in 1 .. n : /\ Held(f, i)' = Held(f, i)
                          /\ stack'[f][i].step = stack[f][i].step
                          /\ stack'[f][i].left = stack[f][i].left
    <2>1. LET t == [stack[f][n] EXCEPT !.todo = Tail(stack[f][n].todo)] IN
             /\ t.mod = stack[f][n].mod /\ t.left = stack[f][n].left
             /\ t.step = stack[f][n].step
      BY <1>3, FrameFields
    <2> QED
      BY <1>0, <2>1 DEF Held
  <1>5. /\ stack'[f][n].todo = Tail(stack[f][n].todo)
        /\ \A i \in 1 .. n - 1 : stack'[f][i].todo = stack[f][i].todo
    <2>1. stack'[f][n].todo = Tail(stack[f][n].todo)
      BY <1>0, <1>3, FrameFields
    <2>2. \A i \in 1 .. n - 1 : i \in 1 .. n /\ i # n
      OBVIOUS
    <2> QED
      BY <2>1, <2>2, <1>0
  <1>6. StackInOrder'
    <2>1. n \in Frames(f) /\ (n = 1 => stack'[f][n].step = "loading")
      BY <1>2, <1>3, <1>4
    <2>2. \A i \in 1 .. n - 1 : i \in 1 .. n
      OBVIOUS
    <2>3. n \in 1 .. n
      OBVIOUS
    <2> QED
      BY <1>1, <1>2, <1>4, <1>5, <2>1, <2>2, <2>3, OrderStays
  <1>7. \A g \in Files : \A i \in Frames(g)' :
           /\ i \in Frames(g) /\ Held(g, i)' = Held(g, i)
           /\ stack'[g][i].step = stack[g][i].step
    BY <1>2, <1>3, <1>4, OthersStay
  <1>8. ClaimsAreExclusive'
    BY <1>1, <1>6, <1>7, ClaimsStay
  <1>9. ParsedWhenClaimed' /\ ParsedOnce' /\ DecidedIsFinal'
    BY <1>1, <1>7 DEF IInv, ParsedWhenClaimed, ParsedOnce, DecidedIsFinal
  <1>10. ReleasedIsKnown'
    BY <1>1, <1>7 DEF IInv, ReleasedIsKnown
  <1>11. RouteIsWalked'
    <2>1. ASSUME NEW x \in Range(stack[f][1].todo)
          PROVE  \/ x \in Range(stack'[f][1].todo)
                 \/ modules'[x] = "indexed"
      <3>1. CASE n = 1
        <4>1. stack[f][1].todo \in Seq(Modules) /\ stack[f][1].todo # <<>>
          BY <1>2, <1>3, <3>1, FrameUpdates
        <4>2. /\ Head(stack[f][1].todo) \in Modules
              /\ Range(stack[f][1].todo)
                     = {Head(stack[f][1].todo)} \cup Range(Tail(stack[f][1].todo))
          BY <4>1, HeadAndTail
        <4>3. Active(f) = {Query}
          BY <1>1, <1>3, <3>1 DEF Active, StackInOrder, Frames, Held
        <4>4. modules[Head(stack[f][1].todo)] = "indexed"
          BY <1>2, <3>1, <4>2, <4>3, QueryAssumption DEF Query
        <4> QED
          BY <1>1, <1>5, <3>1, <4>2, <4>4
      <3>2. CASE n # 1
        <4>1. 1 \in 1 .. n - 1
          BY <3>2
        <4> QED
          BY <1>5, <4>1
      <3> QED
        BY <3>1, <3>2
    <2>2. 1 \in 1 .. n
      OBVIOUS
    <2> QED
      BY <1>1, <1>2, <1>3, <1>4, <2>1, <2>2, RouteStays
  <1>12. InHand'
    BY <1>1, HandStays
  <1> QED
    BY <1>6, <1>8, <1>9, <1>10, <1>11, <1>12 DEF IInv

LEMMA IndexKeepsIInv ==
    ASSUME IInv, NEW f \in Files, IndexModule(f), TypeOK'
    PROVE  IInv'
  <1>1. /\ TypeOK /\ StackInOrder
        /\ stack \in [Files -> Seq(Frame)]
        /\ UNCHANGED <<modules, budget, parsed, stage, agenda, op, program>>
    BY DEF IInv, TypeOK, IndexModule, lookup
  <1>2. PICK n \in Nat \ {0}, m \in Modules :
              /\ n = Len(stack[f]) /\ stack[f][n].step = "loading" /\ Held(f, n) = m
              /\ known' = known \cup {m}
              /\ stack' \in [Files -> Seq(Frame)] /\ Len(stack'[f]) = n
              /\ \A i \in 1 .. n : stack'[f][i] =
                    IF i = n THEN [stack[f][n] EXCEPT !.step = "written"] ELSE stack[f][i]
              /\ \A g \in Files \ {f} : stack'[g] = stack[g]
    BY <1>1, IndexEffect
  <1>3. Frames(f) = 1 .. n /\ Frames(f)' = 1 .. n /\ stack[f][n] \in Frame /\ stack[f] # <<>>
    <2>1. Frames(f) = 1 .. n /\ stack[f][n] \in Frame /\ stack[f] # <<>>
      BY <1>1, <1>2, FramesAreNumbered
    <2>2. Frames(f)' = 1 .. n
      BY <1>2, FramesAreNumberedNext
    <2> QED
      BY <2>1, <2>2
  <1>0. /\ stack'[f][n] = [stack[f][n] EXCEPT !.step = "written"]
        /\ \A i \in 1 .. n : i # n => stack'[f][i] = stack[f][i]
    <2>1. n \in 1 .. n
      OBVIOUS
    <2>2. \A i \in 1 .. n : i # n => stack'[f][i] = stack[f][i]
      BY <1>2
    <2>3. stack'[f][n] = IF n = n THEN [stack[f][n] EXCEPT !.step = "written"] ELSE stack[f][n]
      BY <1>2, <2>1
    <2> QED
      BY <2>2, <2>3
  <1>4. /\ \A i \in 1 .. n : /\ Held(f, i)' = Held(f, i)
                             /\ stack'[f][i].todo = stack[f][i].todo
                             /\ stack'[f][i].left = stack[f][i].left
        /\ stack'[f][n].step = "written"
        /\ \A i \in 1 .. n : i # n => stack'[f][i].step = stack[f][i].step
    <2>1. LET t == [stack[f][n] EXCEPT !.step = "written"] IN
             /\ t.mod = stack[f][n].mod /\ t.left = stack[f][n].left
             /\ t.todo = stack[f][n].todo /\ t.step = "written"
      BY <1>3, FrameFields
    <2> QED
      BY <1>0, <2>1 DEF Held
  <1>5. n # 1
    BY <1>1, <1>2, <1>3, QueryAssumption DEF StackInOrder, Query
  <1>6. StackInOrder'
    <2>1. n \in Frames(f)
      BY <1>3
    <2>2. \A i \in 1 .. n - 1 : i \in 1 .. n /\ i # n
      OBVIOUS
    <2>3. n \in 1 .. n
      OBVIOUS
    <2> QED
      BY <1>1, <1>2, <1>4, <1>5, <2>1, <2>2, <2>3, OrderStays
  <1>7. \A g \in Files : \A i \in Frames(g)' :
           /\ i \in Frames(g) /\ Held(g, i)' = Held(g, i)
           /\ \/ stack'[g][i].step = stack[g][i].step
              \/ stack'[g][i].step = "written" /\ Held(g, i) = m
    <2>1. ASSUME NEW g \in Files, NEW i \in Frames(g)'
          PROVE  /\ i \in Frames(g) /\ Held(g, i)' = Held(g, i)
                 /\ \/ stack'[g][i].step = stack[g][i].step
                    \/ stack'[g][i].step = "written" /\ Held(g, i) = m
      <3>1. CASE g = f
        <4>1. i \in 1 .. n
          BY <1>3, <3>1
        <4>2. CASE i = n
          BY <1>2, <1>3, <1>4, <3>1, <4>1, <4>2
        <4>3. CASE i # n
          BY <1>3, <1>4, <3>1, <4>1, <4>3
        <4> QED
          BY <4>2, <4>3
      <3>2. CASE g # f
        <4>1. stack'[g] = stack[g]
          BY <1>2, <3>2
        <4> QED
          BY <4>1 DEF Frames, Held
      <3> QED
        BY <3>1, <3>2
    <2> QED
      BY <2>1
  <1>8. ClaimsAreExclusive'
    BY <1>1, <1>6, <1>7, ClaimsStay
  <1>9. ParsedWhenClaimed' /\ ParsedOnce' /\ DecidedIsFinal'
    <2>1. ParsedOnce' /\ DecidedIsFinal'
      BY <1>1, <1>2 DEF IInv, ParsedOnce, DecidedIsFinal
    <2>2. ASSUME NEW g \in Files, NEW i \in Frames(g)', i # 1,
                 stack'[g][i].step = "claimed"
          PROVE  parsed'[Held(g, i)'] = 0
      <3>1. i \in Frames(g) /\ Held(g, i)' = Held(g, i) /\ stack[g][i].step = "claimed"
        BY <1>7, <2>2
      <3> QED
        BY <1>1, <2>2, <3>1 DEF IInv, ParsedWhenClaimed
    <2>3. \A x \in Modules : modules'[x] = "none" => parsed'[x] = 0
      BY <1>1 DEF IInv, ParsedWhenClaimed
    <2> QED
      BY <2>1, <2>2, <2>3 DEF ParsedWhenClaimed
  <1>10. ReleasedIsKnown'
    <2>1. ASSUME NEW g \in Files, NEW i \in Frames(g)', stack'[g][i].step = "written"
          PROVE  Held(g, i)' \in known'
      <3>1. i \in Frames(g) /\ Held(g, i)' = Held(g, i)
            /\ (stack[g][i].step = "written" \/ Held(g, i) = m)
        BY <1>7, <2>1
      <3> QED
        BY <1>2, <3>1 DEF IInv, ReleasedIsKnown
    <2>2. /\ Eager \subseteq known' /\ \A x \in Eager : modules'[x] = "indexed"
          /\ \A x \in Modules :
                modules'[x] = "indexed" /\ Kind[x] = "good" /\ parsed'[x] > 0 => x \in known'
      BY <1>1, <1>2 DEF IInv, ReleasedIsKnown
    <2> QED
      BY <2>1, <2>2 DEF ReleasedIsKnown
  <1>11. RouteIsWalked'
    <2>1. 1 \in 1 .. n
      OBVIOUS
    <2>2. stack'[f][1].todo = stack[f][1].todo /\ stack'[f][1].left = stack[f][1].left
      BY <1>4, <2>1
    <2> QED
      BY <1>1, <1>2, <1>3, <2>2, RouteStays
  <1>12. InHand'
    BY <1>1, HandStays
  <1> QED
    BY <1>6, <1>8, <1>9, <1>10, <1>11, <1>12 DEF IInv

\* Below the n-th frame a module is taken off, and left in a state; its query pays.
TakesOff(f, n, m, cost, state) ==
    /\ n + 1 = Len(stack[f]) /\ Held(f, n + 1) = m /\ Head(stack[f][n].todo) = m
    /\ stack[f][n].step = "loading" /\ stack[f][n].todo # <<>>
    /\ stack' \in [Files -> Seq(Frame)] /\ Len(stack'[f]) = n
    /\ \A i \in 1 .. n : stack'[f][i] =
          IF i = n THEN [stack[f][n] EXCEPT !.todo = Tail(stack[f][n].todo),
                                            !.left = stack[f][n].left - cost]
          ELSE stack[f][i]
    /\ \A g \in Files \ {f} : stack'[g] = stack[g]
    /\ modules' = [modules EXCEPT ![m] = state]
    /\ state = "none" => stack[f][n].left = 0
    /\ stack[f][n].left = 0 => cost = 0

\* A module is taken off a stack: it was claimed, and is on no other.
LEMMA TakenOff ==
    ASSUME IInv, NEW f \in Files, NEW n \in Nat \ {0}, NEW m \in Modules, NEW cost \in Nat,
           NEW state \in {"none", "indexed"}, TakesOff(f, n, m, cost, state),
           UNCHANGED <<stage, agenda, op, program>>
    PROVE  /\ StackInOrder' /\ ClaimsAreExclusive' /\ RouteIsWalked' /\ InHand'
           /\ modules[m] = "indexing" /\ m \notin Eager
           /\ modules'[m] = state /\ \A x \in Modules : x # m => modules'[x] = modules[x]
           /\ \A g \in Files : \A i \in Frames(g)' :
                 /\ i \in Frames(g) /\ Held(g, i)' = Held(g, i)
                 /\ stack'[g][i].step = stack[g][i].step
                 /\ i # 1 => Held(g, i) # m /\ Held(g, i) \in Modules
  <1>0. /\ n + 1 = Len(stack[f]) /\ Held(f, n + 1) = m /\ Head(stack[f][n].todo) = m
        /\ stack[f][n].step = "loading" /\ stack[f][n].todo # <<>>
        /\ stack' \in [Files -> Seq(Frame)] /\ Len(stack'[f]) = n
        /\ \A i \in 1 .. n : stack'[f][i] =
              IF i = n THEN [stack[f][n] EXCEPT !.todo = Tail(stack[f][n].todo),
                                                !.left = stack[f][n].left - cost]
              ELSE stack[f][i]
        /\ \A g \in Files \ {f} : stack'[g] = stack[g]
        /\ modules' = [modules EXCEPT ![m] = state]
        /\ state = "none" => stack[f][n].left = 0
        /\ stack[f][n].left = 0 => cost = 0
    BY DEF TakesOff
  <1>1. /\ TypeOK /\ StackInOrder /\ stack \in [Files -> Seq(Frame)]
        /\ modules \in [Modules -> {"none", "indexing", "indexed"}]
    BY DEF IInv, TypeOK
  <1>2. /\ Frames(f) = 1 .. n + 1 /\ Frames(f)' = 1 .. n /\ stack[f] # <<>>
        /\ stack[f][n] \in Frame
    <2>1. n + 1 \in Nat /\ n + 1 > 0 /\ n \in 1 .. n + 1
      OBVIOUS
    <2>2. Frames(f) = 1 .. n + 1 /\ stack[f] # <<>> /\ stack[f][n] \in Frame
      BY <1>0, <1>1, <2>1, FramesAreNumbered
    <2>3. Frames(f)' = 1 .. n
      BY <1>0, FramesAreNumberedNext
    <2> QED
      BY <2>2, <2>3
  <1>3. /\ \A i \in 1 .. n : i # n => stack'[f][i] = stack[f][i]
        /\ Held(f, n)' = Held(f, n) /\ stack'[f][n].step = stack[f][n].step
        /\ stack'[f][n].todo = Tail(stack[f][n].todo)
        /\ stack'[f][n].left = stack[f][n].left - cost
    <2>1. n \in 1 .. n
      OBVIOUS
    <2>2. \A i \in 1 .. n : i # n => stack'[f][i] = stack[f][i]
      BY <1>0
    <2>3. stack'[f][n] = IF n = n THEN [stack[f][n] EXCEPT !.todo = Tail(stack[f][n].todo),
                                                 !.left = stack[f][n].left - cost]
                         ELSE stack[f][n]
      BY <1>0, <2>1
    <2>4. LET t == [stack[f][n] EXCEPT !.todo = Tail(stack[f][n].todo),
                                       !.left = stack[f][n].left - cost]
          IN /\ t.mod = stack[f][n].mod /\ t.step = stack[f][n].step
             /\ t.todo = Tail(stack[f][n].todo) /\ t.left = stack[f][n].left - cost
      BY <1>2, FrameFields
    <2> DEFINE t == [stack[f][n] EXCEPT !.todo = Tail(stack[f][n].todo),
                                        !.left = stack[f][n].left - cost]
    <2>5. stack'[f][n] = t
      BY <2>3
    <2>6. /\ t.mod = stack[f][n].mod /\ t.step = stack[f][n].step
          /\ t.todo = Tail(stack[f][n].todo) /\ t.left = stack[f][n].left - cost
      BY <2>4
    <2> HIDE DEF t
    <2>7. Held(f, n)' = Held(f, n)
      BY <2>5, <2>6 DEF Held
    <2>8. /\ stack'[f][n].step = stack[f][n].step
          /\ stack'[f][n].todo = Tail(stack[f][n].todo)
          /\ stack'[f][n].left = stack[f][n].left - cost
      BY <2>5, <2>6
    <2> QED
      BY <2>2, <2>7, <2>8
  <1>4. StackInOrder'
    <2>1. \A i \in 1 .. n - 1 : i \in 1 .. n /\ i # n
      OBVIOUS
    <2>2. n \in Frames(f)
      BY <1>2
    <2>3. \A i \in 1 .. n - 1 : /\ Held(f, i)' = Held(f, i)
                                /\ stack'[f][i].step = stack[f][i].step
                                /\ stack'[f][i].todo = stack[f][i].todo
      BY <1>3, <2>1 DEF Held
    <2>4. n = 1 => stack'[f][n].step = "loading"
      BY <1>0, <1>3
    <2> QED
      BY <1>0, <1>1, <1>3, <2>1, <2>2, <2>3, <2>4, OrderStays
  <1>5. /\ modules[m] = "indexing"
        /\ \A g \in Files : \A i \in Frames(g) : Held(g, i) = m => g = f /\ i = n + 1
    <2>1. n + 1 \in Frames(f) /\ n + 1 # 1
      BY <1>2
    <2> QED
      BY <1>0, <2>1 DEF IInv, ClaimsAreExclusive
  <1>6. m \notin Eager
    BY <1>5 DEF IInv, ReleasedIsKnown
  <1>7. modules'[m] = state /\ \A x \in Modules : x # m => modules'[x] = modules[x]
    BY <1>0, <1>1
  <1>8. \A g \in Files : \A i \in Frames(g)' :
           /\ i \in Frames(g) /\ Held(g, i)' = Held(g, i)
           /\ stack'[g][i].step = stack[g][i].step
           /\ Held(g, i) # m
           /\ i # 1 => Held(g, i) \in Modules
    <2>1. ASSUME NEW g \in Files, NEW i \in Frames(g)'
          PROVE  /\ i \in Frames(g) /\ Held(g, i)' = Held(g, i)
                 /\ stack'[g][i].step = stack[g][i].step
                 /\ Held(g, i) # m
      <3>1. CASE g = f
        <4>1. i \in 1 .. n
          BY <1>2, <3>1
        <4>2. i \in 1 .. n + 1 /\ i # n + 1
          BY <4>1
        <4>3. /\ i \in Frames(f) /\ Held(f, i)' = Held(f, i)
              /\ stack'[f][i].step = stack[f][i].step
          BY <1>2, <1>3, <4>1, <4>2 DEF Held
        <4> QED
          BY <1>5, <3>1, <4>2, <4>3
      <3>2. CASE g # f
        <4>1. i \in Frames(g) /\ stack'[g] = stack[g]
          BY <1>0, <3>2 DEF Frames
        <4> QED
          BY <1>5, <3>2, <4>1 DEF Held
      <3> QED
        BY <3>1, <3>2
    <2>2. ASSUME NEW g \in Files, NEW i \in Frames(g), i # 1 PROVE Held(g, i) \in Modules
      <3>1. Held(g, i) # Query
        BY <1>1, <2>2 DEF StackInOrder
      <3>2. stack[g][i] \in Frame
        BY <1>1 DEF Frames
      <3> QED
        BY <3>1, <3>2, FrameUpdates DEF Held
    <2> QED
      BY <2>1, <2>2
  <1>9. ClaimsAreExclusive'
    BY <1>4, <1>7, <1>8, ClaimsStay
  <1>10. RouteIsWalked'
    <2>1. ASSUME NEW x \in Range(stack[f][1].todo)
          PROVE  \/ x \in Range(stack'[f][1].todo)
                 \/ stack'[f][1].left = 0
                 \/ modules'[x] = "indexed"
      <3>1. CASE n = 1
        <4>1. stack[f][1].todo \in Seq(Modules) /\ stack[f][1].todo # <<>>
          BY <1>0, <1>2, <3>1, FrameUpdates
        <4>2. Range(stack[f][1].todo) = {m} \cup Range(Tail(stack[f][1].todo))
          BY <1>0, <3>1, <4>1, HeadAndTail
        <4>3. state = "none" => stack'[f][1].left = 0
          <5>1. state = "none" => stack[f][n].left = 0 /\ cost = 0
            BY <1>0
          <5>2. 0 - 0 = 0
            OBVIOUS
          <5> QED
            BY <1>3, <3>1, <5>1, <5>2
        <4> QED
          BY <1>3, <1>7, <3>1, <4>2, <4>3
      <3>2. CASE n # 1
        <4>1. 1 \in 1 .. n
          OBVIOUS
        <4>2. stack'[f][1] = stack[f][1]
          BY <1>3, <3>2, <4>1
        <4> QED
          BY <4>2
      <3> QED
        BY <3>1, <3>2
    <2>2. stack[f][1].left = 0 => stack'[f][1].left = 0
      <3>1. 1 \in 1 .. n
        OBVIOUS
      <3>2. CASE n = 1
        BY <1>0, <1>3, <3>2
      <3>3. CASE n # 1
        BY <1>3, <3>1, <3>3
      <3> QED
        BY <3>2, <3>3
    <2>3. \A x \in Modules : modules[x] = "indexed" => modules'[x] = "indexed"
      BY <1>5, <1>7
    <2> QED
      BY <1>0, <1>2, <2>1, <2>2, <2>3, RouteStays
  <1>11. InHand'
    BY HandStays
  <1> QED
    BY <1>4, <1>5, <1>6, <1>7, <1>8, <1>9, <1>10, <1>11

LEMMA MissKeepsIInv ==
    ASSUME IInv, NEW f \in Files, MissModule(f), TypeOK'
    PROVE  IInv'
  <1>1. /\ TypeOK /\ StackInOrder
        /\ UNCHANGED <<budget, known, parsed, stage, agenda, op, program>>
    BY DEF IInv, MissModule, store, lookup
  <1>2. PICK n \in Nat \ {0}, m \in Modules :
              /\ n + 1 = Len(stack[f]) /\ Held(f, n + 1) = m
              /\ stack[f][n + 1].step = "claimed"
              /\ stack[f][n].step = "loading" /\ stack[f][n].todo # <<>>
              /\ Head(stack[f][n].todo) = m
              /\ \/ Kind[m] = "absent" /\ modules' = [modules EXCEPT ![m] = "indexed"]
                 \/ stack[f][n].left = 0 /\ modules' = [modules EXCEPT ![m] = "none"]
                 \/ budget = 0 /\ modules' = [modules EXCEPT ![m] = "indexed"]
              /\ stack' \in [Files -> Seq(Frame)] /\ Len(stack'[f]) = n
              /\ \A i \in 1 .. n : stack'[f][i] =
                    IF i = n THEN [stack[f][n] EXCEPT !.todo = Tail(stack[f][n].todo),
                                                      !.left = stack[f][n].left - 0]
                    ELSE stack[f][i]
              /\ \A g \in Files \ {f} : stack'[g] = stack[g]
    BY <1>1, MissEffect
  <1>3. PICK state \in {"none", "indexed"} :
              /\ modules' = [modules EXCEPT ![m] = state]
              /\ state = "none" => stack[f][n].left = 0
              /\ state = "indexed" => Kind[m] = "absent" \/ budget = 0
    BY <1>2
  <1>4. /\ StackInOrder' /\ ClaimsAreExclusive' /\ RouteIsWalked' /\ InHand'
        /\ modules[m] = "indexing" /\ m \notin Eager
        /\ modules'[m] = state /\ \A x \in Modules : x # m => modules'[x] = modules[x]
        /\ \A g \in Files : \A i \in Frames(g)' :
              /\ i \in Frames(g) /\ Held(g, i)' = Held(g, i)
              /\ stack'[g][i].step = stack[g][i].step
              /\ i # 1 => Held(g, i) # m /\ Held(g, i) \in Modules
    <2>2. TakesOff(f, n, m, 0, state)
      BY <1>2, <1>3 DEF TakesOff
    <2>3. 0 \in Nat /\ UNCHANGED <<stage, agenda, op, program>>
      BY <1>1
    <2> QED
      BY <2>2, <2>3, TakenOff
  <1>5. parsed[m] = 0
    <2>1. n + 1 \in Frames(f) /\ n + 1 # 1
      <3>1. n + 1 \in Nat /\ n + 1 \in 1 .. n + 1
        OBVIOUS
      <3>2. stack \in [Files -> Seq(Frame)]
        BY <1>1 DEF TypeOK
      <3>3. Frames(f) = 1 .. n + 1
        BY <1>2, <3>1, <3>2, FramesAreNumbered
      <3> QED
        BY <3>1, <3>3
    <2> QED
      BY <1>2, <2>1 DEF IInv, ParsedWhenClaimed
  <1>6. ParsedWhenClaimed'
    <2>1. \A x \in Modules : modules'[x] = "none" => parsed'[x] = 0
      BY <1>1, <1>4, <1>5 DEF IInv, ParsedWhenClaimed
    <2>2. ASSUME NEW g \in Files, NEW i \in Frames(g)', i # 1,
                 stack'[g][i].step = "claimed"
          PROVE  parsed'[Held(g, i)'] = 0
      BY <1>1, <1>4, <2>2 DEF IInv, ParsedWhenClaimed
    <2> QED
      BY <2>1, <2>2 DEF ParsedWhenClaimed
  <1>7. ParsedOnce'
    BY <1>1 DEF IInv, ParsedOnce
  <1>8. ReleasedIsKnown'
    <2>1. Eager \subseteq known' /\ \A x \in Eager : modules'[x] = "indexed"
      BY <1>1, <1>4, EagerAssumption DEF IInv, ReleasedIsKnown
    <2>2. ASSUME NEW g \in Files, NEW i \in Frames(g)', stack'[g][i].step = "written"
          PROVE  Held(g, i)' \in known'
      BY <1>1, <1>4, <2>2 DEF IInv, ReleasedIsKnown
    <2>3. ASSUME NEW x \in Modules, modules'[x] = "indexed", Kind[x] = "good", parsed'[x] > 0
          PROVE  x \in known'
      <3>1. x # m
        BY <1>1, <1>5, <2>3
      <3> QED
        BY <1>1, <1>4, <2>3, <3>1 DEF IInv, ReleasedIsKnown
    <2> QED
      BY <2>1, <2>2, <2>3 DEF ReleasedIsKnown
  <1>9. DecidedIsFinal'
    <2>1. ASSUME NEW x \in Modules, budget' > 0, modules'[x] = "indexed", Kind[x] = "good"
          PROVE  x \in known'
      <3>1. budget \in Nat
        BY <1>1, BudgetAssumption DEF TypeOK
      <3>2. x # m
        BY <1>1, <1>3, <1>4, <2>1, <3>1
      <3> QED
        BY <1>1, <1>4, <2>1, <3>2 DEF IInv, DecidedIsFinal
    <2> QED
      BY <2>1 DEF DecidedIsFinal
  <1> QED
    BY <1>4, <1>6, <1>7, <1>8, <1>9 DEF IInv

LEMMA ReleaseKeepsIInv ==
    ASSUME IInv, NEW f \in Files, ReleaseModule(f), TypeOK'
    PROVE  IInv'
  <1>1. /\ TypeOK /\ StackInOrder
        /\ UNCHANGED <<budget, known, parsed, stage, agenda, op, program>>
    BY DEF IInv, ReleaseModule, store, lookup
  <1>2. PICK n \in Nat \ {0}, m \in Modules :
              /\ n + 1 = Len(stack[f]) /\ Held(f, n + 1) = m
              /\ stack[f][n + 1].step = "written"
              /\ stack[f][n].step = "loading" /\ stack[f][n].todo # <<>>
              /\ Head(stack[f][n].todo) = m
              /\ modules' = [modules EXCEPT ![m] = "indexed"]
              /\ stack' \in [Files -> Seq(Frame)] /\ Len(stack'[f]) = n
              /\ \A i \in 1 .. n : stack'[f][i] =
                    IF i = n THEN [stack[f][n] EXCEPT !.todo = Tail(stack[f][n].todo),
                                                      !.left = stack[f][n].left - 0]
                    ELSE stack[f][i]
              /\ \A g \in Files \ {f} : stack'[g] = stack[g]
    BY <1>1, ReleaseEffect
  <1>4. /\ StackInOrder' /\ ClaimsAreExclusive' /\ RouteIsWalked' /\ InHand'
        /\ modules[m] = "indexing" /\ m \notin Eager
        /\ modules'[m] = "indexed" /\ \A x \in Modules : x # m => modules'[x] = modules[x]
        /\ \A g \in Files : \A i \in Frames(g)' :
              /\ i \in Frames(g) /\ Held(g, i)' = Held(g, i)
              /\ stack'[g][i].step = stack[g][i].step
              /\ i # 1 => Held(g, i) # m /\ Held(g, i) \in Modules
    <2>1. "indexed" \in {"none", "indexed"} /\ "indexed" # "none"
      OBVIOUS
    <2>2. TakesOff(f, n, m, 0, "indexed")
      BY <1>2 DEF TakesOff
    <2>3. 0 \in Nat /\ UNCHANGED <<stage, agenda, op, program>>
      BY <1>1
    <2> QED
      BY <2>1, <2>2, <2>3, TakenOff
  <1>5. m \in known
    <2>1. n + 1 \in Frames(f)
      <3>1. n + 1 \in Nat /\ n + 1 \in 1 .. n + 1
        OBVIOUS
      <3>2. stack \in [Files -> Seq(Frame)]
        BY <1>1 DEF TypeOK
      <3>3. Frames(f) = 1 .. n + 1
        BY <1>2, <3>1, <3>2, FramesAreNumbered
      <3> QED
        BY <3>1, <3>3
    <2> QED
      BY <1>2, <2>1 DEF IInv, ReleasedIsKnown
  <1>6. ParsedWhenClaimed'
    <2>1. \A x \in Modules : modules'[x] = "none" => parsed'[x] = 0
      BY <1>1, <1>4 DEF IInv, ParsedWhenClaimed
    <2>2. ASSUME NEW g \in Files, NEW i \in Frames(g)', i # 1,
                 stack'[g][i].step = "claimed"
          PROVE  parsed'[Held(g, i)'] = 0
      BY <1>1, <1>4, <2>2 DEF IInv, ParsedWhenClaimed
    <2> QED
      BY <2>1, <2>2 DEF ParsedWhenClaimed
  <1>7. ParsedOnce'
    BY <1>1 DEF IInv, ParsedOnce
  <1>8. ReleasedIsKnown'
    <2>1. Eager \subseteq known' /\ \A x \in Eager : modules'[x] = "indexed"
      BY <1>1, <1>4, EagerAssumption DEF IInv, ReleasedIsKnown
    <2>2. ASSUME NEW g \in Files, NEW i \in Frames(g)', stack'[g][i].step = "written"
          PROVE  Held(g, i)' \in known'
      BY <1>1, <1>4, <2>2 DEF IInv, ReleasedIsKnown
    <2>3. \A x \in Modules :
             modules'[x] = "indexed" /\ Kind[x] = "good" /\ parsed'[x] > 0 => x \in known'
      BY <1>1, <1>4, <1>5 DEF IInv, ReleasedIsKnown
    <2> QED
      BY <2>1, <2>2, <2>3 DEF ReleasedIsKnown
  <1>9. DecidedIsFinal'
    BY <1>1, <1>4, <1>5 DEF IInv, DecidedIsFinal
  <1> QED
    BY <1>4, <1>6, <1>7, <1>8, <1>9 DEF IInv

LEMMA ClaimKeepsIInv ==
    ASSUME IInv, NEW f \in Files, ClaimModule(f), TypeOK'
    PROVE  IInv'
  <1>1. /\ TypeOK /\ StackInOrder /\ stack \in [Files -> Seq(Frame)]
        /\ modules \in [Modules -> {"none", "indexing", "indexed"}]
        /\ UNCHANGED <<budget, known, parsed, stage, agenda, op, program>>
    BY DEF IInv, TypeOK, ClaimModule, store, lookup
  <1>2. PICK n \in Nat \ {0}, m \in Modules :
              /\ n = Len(stack[f]) /\ stack[f][n].step = "loading"
              /\ stack[f][n].todo # <<>> /\ Head(stack[f][n].todo) = m
              /\ modules[m] = "none" /\ modules' = [modules EXCEPT ![m] = "indexing"]
              /\ stack' \in [Files -> Seq(Frame)] /\ Len(stack'[f]) = n + 1
              /\ \A i \in 1 .. n : stack'[f][i] = stack[f][i]
              /\ stack'[f][n + 1] = [mod |-> m, step |-> "claimed", todo |-> <<>>, left |-> 0]
              /\ \A g \in Files \ {f} : stack'[g] = stack[g]
    BY <1>1, ClaimEffect
  <1>3. /\ Frames(f) = 1 .. n /\ Frames(f)' = 1 .. n + 1
        /\ stack[f] # <<>> /\ stack'[f] # <<>>
    <2>1. Frames(f) = 1 .. n /\ stack[f] # <<>>
      BY <1>1, <1>2, FramesAreNumbered
    <2>2. n + 1 \in Nat /\ n + 1 > 0
      OBVIOUS
    <2>3. Frames(f)' = 1 .. n + 1 /\ stack'[f] # <<>>
      BY <1>2, <2>2, FramesAreNumberedNext
    <2> QED
      BY <2>1, <2>3
  <1>4. /\ Held(f, n + 1)' = m /\ stack'[f][n + 1].step = "claimed"
        /\ modules'[m] = "indexing" /\ \A x \in Modules : x # m => modules'[x] = modules[x]
        /\ m # Query
    BY <1>1, <1>2, QueryAssumption DEF Held, Query
  <1>5. \A g \in Files : \A i \in Frames(g)' :
           \/ g = f /\ i = n + 1
           \/ /\ i \in Frames(g) /\ stack'[g][i] = stack[g][i] /\ Held(g, i)' = Held(g, i)
              /\ Held(g, i) # m /\ (i # 1 => Held(g, i) \in Modules)
    <2>1. ASSUME NEW g \in Files, NEW i \in Frames(g) PROVE Held(g, i) # m
      <3>1. CASE i = 1
        BY <1>1, <1>4, <3>1 DEF StackInOrder
      <3>2. CASE i # 1
        BY <1>2, <3>2 DEF IInv, ClaimsAreExclusive
      <3> QED
        BY <3>1, <3>2
    <2>2. ASSUME NEW g \in Files, NEW i \in Frames(g), i # 1 PROVE Held(g, i) \in Modules
      <3>1. Held(g, i) # Query
        BY <1>1, <2>2 DEF StackInOrder
      <3>2. stack[g][i] \in Frame
        BY <1>1 DEF Frames
      <3> QED
        BY <3>1, <3>2, FrameUpdates DEF Held
    <2>3. \A i \in 1 .. n + 1 : i = n + 1 \/ i \in 1 .. n
      OBVIOUS
    <2>4. ASSUME NEW g \in Files, NEW i \in Frames(g)'
          PROVE  \/ g = f /\ i = n + 1
                 \/ i \in Frames(g) /\ stack'[g][i] = stack[g][i]
      BY <1>2, <1>3, <2>3 DEF Frames
    <2> QED
      BY <2>1, <2>2, <2>4 DEF Held
  <1>6. StackInOrder'
    <2>1. ASSUME NEW g \in Files \ {f}
          PROVE  /\ stage'[g] \in {"resolve", "class"} <=> stack'[g] # <<>>
                 /\ \A i \in Frames(g)' :
                       /\ Held(g, i)' = Query <=> i = 1
                       /\ i = 1 => stack'[g][i].step = "loading"
                       /\ i < Len(stack'[g]) =>
                             /\ stack'[g][i].step = "loading" /\ stack'[g][i].todo # <<>>
                             /\ Head(stack'[g][i].todo) = Held(g, i + 1)'
      <3>1. stack'[g] = stack[g] /\ stage'[g] = stage[g]
        BY <1>1, <1>2
      <3> QED
        BY <1>1, <3>1 DEF StackInOrder, Frames, Held
    <2>2. ASSUME NEW i \in 1 .. n + 1
          PROVE  /\ Held(f, i)' = Query <=> i = 1
                 /\ i = 1 => stack'[f][i].step = "loading"
                 /\ i < n + 1 =>
                       /\ stack'[f][i].step = "loading" /\ stack'[f][i].todo # <<>>
                       /\ Head(stack'[f][i].todo) = Held(f, i + 1)'
      <3>1. CASE i = n + 1
        BY <1>4, <3>1
      <3>2. CASE i = n
        <4>0. n \in 1 .. n /\ n # n + 1
          OBVIOUS
        <4>1. stack'[f][n] = stack[f][n] /\ n \in Frames(f)
          BY <1>2, <1>3, <4>0
        <4>2. /\ Held(f, n) = Query <=> n = 1
              /\ n = 1 => stack[f][n].step = "loading"
          BY <1>1, <4>1 DEF StackInOrder
        <4> QED
          BY <1>2, <1>4, <3>2, <4>1, <4>2 DEF Held
      <3>3. CASE i # n /\ i # n + 1
        <4>1. i \in 1 .. n /\ i + 1 \in 1 .. n /\ i < n
          BY <3>3
        <4>2. stack'[f][i] = stack[f][i] /\ stack'[f][i + 1] = stack[f][i + 1]
          BY <1>2, <4>1
        <4>3. /\ Held(f, i) = Query <=> i = 1
              /\ i = 1 => stack[f][i].step = "loading"
              /\ /\ stack[f][i].step = "loading" /\ stack[f][i].todo # <<>>
                 /\ Head(stack[f][i].todo) = Held(f, i + 1)
          BY <1>1, <1>2, <1>3, <4>1 DEF StackInOrder
        <4> QED
          BY <4>2, <4>3 DEF Held
      <3> QED
        BY <3>1, <3>2, <3>3
    <2>3. stage'[f] \in {"resolve", "class"} <=> stack'[f] # <<>>
      BY <1>1, <1>3 DEF StackInOrder
    <2>4. /\ stage'[f] \in {"resolve", "class"} <=> stack'[f] # <<>>
          /\ \A i \in Frames(f)' :
                /\ Held(f, i)' = Query <=> i = 1
                /\ i = 1 => stack'[f][i].step = "loading"
                /\ i < Len(stack'[f]) =>
                      /\ stack'[f][i].step = "loading" /\ stack'[f][i].todo # <<>>
                      /\ Head(stack'[f][i].todo) = Held(f, i + 1)'
      BY <1>2, <1>3, <2>2, <2>3
    <2> QED
      BY <2>1, <2>4 DEF StackInOrder
  <1>7. ClaimsAreExclusive'
    <2> SUFFICES ASSUME NEW g \in Files, NEW h \in Files, NEW i \in Frames(g)',
                        NEW j \in Frames(h)', i # 1
                 PROVE  /\ modules'[Held(g, i)'] = "indexing"
                        /\ Held(g, i)' = Held(h, j)' => g = h /\ i = j
      BY DEF ClaimsAreExclusive
    <2>1. modules'[Held(g, i)'] = "indexing"
      <3>1. CASE g = f /\ i = n + 1
        BY <1>4, <3>1
      <3>2. CASE ~(g = f /\ i = n + 1)
        <4>1. i \in Frames(g) /\ Held(g, i)' = Held(g, i) /\ Held(g, i) # m /\ Held(g, i) \in Modules
          BY <1>5, <3>2
        <4> QED
          BY <1>4, <4>1 DEF IInv, ClaimsAreExclusive
      <3> QED
        BY <3>1, <3>2
    <2>2. Held(g, i)' = Held(h, j)' => g = h /\ i = j
      BY <1>4, <1>5 DEF IInv, ClaimsAreExclusive
    <2> QED
      BY <2>1, <2>2
  <1>8. parsed[m] = 0 /\ m \notin Eager
    BY <1>2 DEF IInv, ParsedWhenClaimed, ReleasedIsKnown
  <1>9. ParsedWhenClaimed'
    <2>1. \A x \in Modules : modules'[x] = "none" => parsed'[x] = 0
      BY <1>1, <1>4 DEF IInv, ParsedWhenClaimed
    <2>2. ASSUME NEW g \in Files, NEW i \in Frames(g)', i # 1, stack'[g][i].step = "claimed"
          PROVE  parsed'[Held(g, i)'] = 0
      BY <1>1, <1>4, <1>5, <1>8, <2>2 DEF IInv, ParsedWhenClaimed
    <2> QED
      BY <2>1, <2>2 DEF ParsedWhenClaimed
  <1>10. ReleasedIsKnown'
    <2>1. Eager \subseteq known' /\ \A x \in Eager : modules'[x] = "indexed"
      BY <1>1, <1>4, <1>8, EagerAssumption DEF IInv, ReleasedIsKnown
    <2>2. ASSUME NEW g \in Files, NEW i \in Frames(g)', stack'[g][i].step = "written"
          PROVE  Held(g, i)' \in known'
      <3>1. i \in Frames(g) /\ stack'[g][i] = stack[g][i] /\ Held(g, i)' = Held(g, i)
        BY <1>4, <1>5, <2>2
      <3> QED
        BY <1>1, <2>2, <3>1 DEF IInv, ReleasedIsKnown
    <2>3. \A x \in Modules :
             modules'[x] = "indexed" /\ Kind[x] = "good" /\ parsed'[x] > 0 => x \in known'
      BY <1>1, <1>4 DEF IInv, ReleasedIsKnown
    <2> QED
      BY <2>1, <2>2, <2>3 DEF ReleasedIsKnown
  <1>11. ParsedOnce' /\ DecidedIsFinal'
    BY <1>1, <1>4 DEF IInv, ParsedOnce, DecidedIsFinal
  <1>12. RouteIsWalked'
    <2>1. 1 \in 1 .. n
      OBVIOUS
    <2>2. stack'[f][1] = stack[f][1]
      BY <1>2, <2>1
    <2>3. \A x \in Modules : modules[x] = "indexed" => modules'[x] = "indexed"
      BY <1>2, <1>4
    <2> QED
      BY <1>1, <1>2, <1>3, <2>2, <2>3, RouteStays
  <1>13. InHand'
    BY <1>1, HandStays
  <1> QED
    BY <1>6, <1>7, <1>9, <1>10, <1>11, <1>12, <1>13 DEF IInv

LEMMA ParseKeepsIInv ==
    ASSUME IInv, NEW f \in Files, ParseModule(f), TypeOK'
    PROVE  IInv'
  <1>1. /\ TypeOK /\ StackInOrder /\ stack \in [Files -> Seq(Frame)]
        /\ parsed \in [Modules -> Nat] /\ budget \in Nat
        /\ UNCHANGED <<known, stage, agenda, op, program>>
    <2>1. TypeOK /\ StackInOrder
      BY DEF IInv
    <2>2. /\ stack \in [Files -> Seq(Frame)] /\ parsed \in [Modules -> Nat]
          /\ budget \in 0 .. ModuleBudget
      BY <2>1 DEF TypeOK
    <2>3. budget \in Nat
      BY <2>2, BudgetAssumption
    <2>4. UNCHANGED <<known, stage, agenda, op, program>>
      BY DEF ParseModule, store, lookup
    <2> QED
      BY <2>1, <2>2, <2>3, <2>4
  <1>2. PICK n \in Nat \ {0}, m \in Modules :
              /\ n + 1 = Len(stack[f]) /\ Held(f, n + 1) = m
              /\ stack[f][n + 1].step = "claimed"
              /\ Head(stack[f][n].todo) = m
              /\ stack[f][n].step = "loading" /\ stack[f][n].todo # <<>>
              /\ stack[f][n].left > 0 /\ budget > 0
              /\ budget' = budget - 1 /\ parsed' = [parsed EXCEPT ![m] = parsed[m] + 1]
              /\ stack' \in [Files -> Seq(Frame)]
              /\ \A g \in Files \ {f} : stack'[g] = stack[g]
              /\ \/ /\ Kind[m] = "good" /\ modules' = modules /\ Len(stack'[f]) = n + 1
                    /\ \A i \in 1 .. n + 1 : stack'[f][i] =
                          IF i = n + 1
                          THEN [stack[f][n + 1] EXCEPT !.step = "loading", !.todo = Bases[m],
                                                       !.left = QueryBudget]
                          ELSE IF i = n
                          THEN [stack[f][n] EXCEPT !.left = stack[f][n].left - 1]
                          ELSE stack[f][i]
                 \/ /\ Kind[m] = "unparsable" /\ modules' = [modules EXCEPT ![m] = "indexed"]
                    /\ Len(stack'[f]) = n
                    /\ \A i \in 1 .. n : stack'[f][i] =
                          IF i = n
                          THEN [stack[f][n] EXCEPT !.todo = Tail(stack[f][n].todo),
                                                   !.left = stack[f][n].left - 1]
                          ELSE stack[f][i]
    BY <1>1, ParseEffect
  <1>3. /\ Frames(f) = 1 .. n + 1 /\ stack[f][n] \in Frame /\ stack[f][n + 1] \in Frame
        /\ n + 1 \in Frames(f) /\ n + 1 # 1 /\ stack[f] # <<>>
    <2>1. n + 1 \in Nat /\ n + 1 > 0 /\ n \in 1 .. n + 1 /\ n + 1 \in 1 .. n + 1 /\ n + 1 # 1
      OBVIOUS
    <2>2. Frames(f) = 1 .. n + 1 /\ stack[f][n] \in Frame /\ stack[f][n + 1] \in Frame
          /\ stack[f] # <<>>
      BY <1>1, <1>2, <2>1, FramesAreNumbered
    <2> QED
      BY <2>1, <2>2
  <1>4. /\ parsed[m] = 0 /\ modules[m] = "indexing"
        /\ \A g \in Files : \A i \in Frames(g) : Held(g, i) = m => g = f /\ i = n + 1
    BY <1>2, <1>3 DEF IInv, ParsedWhenClaimed, ClaimsAreExclusive
  <1>5. /\ parsed'[m] = 1 /\ \A x \in Modules : x # m => parsed'[x] = parsed[x]
        /\ budget' > 0 => budget > 0
    BY <1>1, <1>2, <1>4
  <1>6. ParsedOnce'
    BY <1>5 DEF IInv, ParsedOnce
  <1>7. CASE /\ Kind[m] = "unparsable" /\ modules' = [modules EXCEPT ![m] = "indexed"]
             /\ Len(stack'[f]) = n
             /\ \A i \in 1 .. n : stack'[f][i] =
                   IF i = n
                   THEN [stack[f][n] EXCEPT !.todo = Tail(stack[f][n].todo),
                                            !.left = stack[f][n].left - 1]
                   ELSE stack[f][i]
    <2>1. /\ StackInOrder' /\ ClaimsAreExclusive' /\ RouteIsWalked' /\ InHand'
          /\ m \notin Eager
          /\ modules'[m] = "indexed" /\ \A x \in Modules : x # m => modules'[x] = modules[x]
          /\ \A g \in Files : \A i \in Frames(g)' :
                /\ i \in Frames(g) /\ Held(g, i)' = Held(g, i)
                /\ stack'[g][i].step = stack[g][i].step
                /\ i # 1 => Held(g, i) # m /\ Held(g, i) \in Modules
      <3>1. TakesOff(f, n, m, 1, "indexed")
        <4>1. stack[f][n].left # 0
          BY <1>2
        <4> QED
          BY <1>2, <1>7, <4>1 DEF TakesOff
      <3>2. 1 \in Nat /\ "indexed" \in {"none", "indexed"}
            /\ UNCHANGED <<stage, agenda, op, program>>
        BY <1>1
      <3> QED
        BY <3>1, <3>2, TakenOff
    <2>2. ParsedWhenClaimed'
      <3>1. \A x \in Modules : modules'[x] = "none" => parsed'[x] = 0
        BY <1>5, <2>1 DEF IInv, ParsedWhenClaimed
      <3>2. ASSUME NEW g \in Files, NEW i \in Frames(g)', i # 1, stack'[g][i].step = "claimed"
            PROVE  parsed'[Held(g, i)'] = 0
        <4>1. /\ i \in Frames(g) /\ Held(g, i)' = Held(g, i) /\ stack[g][i].step = "claimed"
              /\ Held(g, i) # m /\ Held(g, i) \in Modules
          BY <2>1, <3>2
        <4>2. parsed[Held(g, i)] = 0
          BY <3>2, <4>1 DEF IInv, ParsedWhenClaimed
        <4> QED
          BY <1>5, <4>1, <4>2
      <3> QED
        BY <3>1, <3>2 DEF ParsedWhenClaimed
    <2>3. ReleasedIsKnown'
      <3>1. Eager \subseteq known' /\ \A x \in Eager : modules'[x] = "indexed"
        BY <1>1, <2>1, EagerAssumption DEF IInv, ReleasedIsKnown
      <3>2. ASSUME NEW g \in Files, NEW i \in Frames(g)', stack'[g][i].step = "written"
            PROVE  Held(g, i)' \in known'
        <4>1. /\ i \in Frames(g) /\ Held(g, i)' = Held(g, i) /\ stack[g][i].step = "written"
          BY <2>1, <3>2
        <4> QED
          BY <1>1, <4>1 DEF IInv, ReleasedIsKnown
      <3>3. ASSUME NEW x \in Modules, modules'[x] = "indexed", Kind[x] = "good", parsed'[x] > 0
            PROVE  x \in known'
        <4>1. x # m
          BY <1>7, <3>3
        <4> QED
          BY <1>1, <1>5, <2>1, <3>3, <4>1 DEF IInv, ReleasedIsKnown
      <3> QED
        BY <3>1, <3>2, <3>3 DEF ReleasedIsKnown
    <2>4. DecidedIsFinal'
      <3>1. ASSUME NEW x \in Modules, budget' > 0, modules'[x] = "indexed", Kind[x] = "good"
            PROVE  x \in known'
        <4>1. x # m
          BY <1>7, <3>1
        <4> QED
          BY <1>1, <1>5, <2>1, <3>1, <4>1 DEF IInv, DecidedIsFinal
      <3> QED
        BY <3>1 DEF DecidedIsFinal
    <2> QED
      BY <1>6, <2>1, <2>2, <2>3, <2>4 DEF IInv
  <1>8. CASE /\ Kind[m] = "good" /\ modules' = modules /\ Len(stack'[f]) = n + 1
             /\ \A i \in 1 .. n + 1 : stack'[f][i] =
                   IF i = n + 1
                   THEN [stack[f][n + 1] EXCEPT !.step = "loading", !.todo = Bases[m],
                                                !.left = QueryBudget]
                   ELSE IF i = n
                   THEN [stack[f][n] EXCEPT !.left = stack[f][n].left - 1]
                   ELSE stack[f][i]
    <2>1. /\ Held(f, n + 1)' = m /\ stack'[f][n + 1].step = "loading"
          /\ Held(f, n)' = Held(f, n) /\ stack'[f][n].step = "loading"
          /\ stack'[f][n].todo = stack[f][n].todo
          /\ \A i \in 1 .. n + 1 : i # n /\ i # n + 1 => stack'[f][i] = stack[f][i]
      <3>1. n \in 1 .. n + 1 /\ n + 1 \in 1 .. n + 1 /\ n # n + 1
        OBVIOUS
      <3>2. stack'[f][n + 1] = [stack[f][n + 1] EXCEPT !.step = "loading", !.todo = Bases[m],
                                                       !.left = QueryBudget]
        BY <1>8, <3>1
      <3>3. stack'[f][n] = [stack[f][n] EXCEPT !.left = stack[f][n].left - 1]
        BY <1>8, <3>1
      <3>4. \A i \in 1 .. n + 1 : i # n /\ i # n + 1 => stack'[f][i] = stack[f][i]
        BY <1>8
      <3>5. Held(f, n + 1)' = m /\ stack'[f][n + 1].step = "loading"
        BY <1>2, <1>3, <3>2, FrameFields DEF Held
      <3>6. /\ Held(f, n)' = Held(f, n) /\ stack'[f][n].step = "loading"
            /\ stack'[f][n].todo = stack[f][n].todo
        BY <1>2, <1>3, <3>3, FrameFields DEF Held
      <3> QED
        BY <3>4, <3>5, <3>6
    <2>2. Frames(f)' = 1 .. n + 1
      <3>1. n + 1 \in Nat
        OBVIOUS
      <3> QED
        BY <1>2, <1>8, <3>1, FramesAreNumberedNext
    <2>3. StackInOrder'
      <3>1. \A i \in 1 .. (n + 1) - 1 :
               /\ Held(f, i)' = Held(f, i)
               /\ stack'[f][i].step = stack[f][i].step
               /\ stack'[f][i].todo = stack[f][i].todo
        <4>1. \A i \in 1 .. (n + 1) - 1 : i = n \/ (i \in 1 .. n + 1 /\ i # n /\ i # n + 1)
          OBVIOUS
        <4> QED
          BY <1>2, <2>1, <4>1 DEF Held
      <3>2. n + 1 \in Nat \ {0}
        OBVIOUS
      <3> QED
        BY <1>1, <1>2, <1>3, <1>8, <2>1, <3>1, <3>2, OrderStays
    <2>4. \A g \in Files : \A i \in Frames(g)' :
             /\ i \in Frames(g) /\ Held(g, i)' = Held(g, i)
             /\ \/ stack'[g][i].step = stack[g][i].step /\ ~(g = f /\ i = n + 1)
                \/ g = f /\ i = n + 1 /\ stack'[g][i].step = "loading"
      <3>1. ASSUME NEW i \in 1 .. n + 1
            PROVE  /\ Held(f, i)' = Held(f, i)
                   /\ \/ stack'[f][i].step = stack[f][i].step /\ i # n + 1
                      \/ i = n + 1 /\ stack'[f][i].step = "loading"
        <4>1. n # n + 1
          OBVIOUS
        <4> QED
          BY <1>2, <2>1, <4>1 DEF Held
      <3>2. ASSUME NEW g \in Files, NEW i \in Frames(g)'
            PROVE  /\ i \in Frames(g) /\ Held(g, i)' = Held(g, i)
                   /\ \/ stack'[g][i].step = stack[g][i].step /\ ~(g = f /\ i = n + 1)
                      \/ g = f /\ i = n + 1 /\ stack'[g][i].step = "loading"
        <4>1. CASE g = f
          BY <1>3, <2>2, <3>1, <4>1
        <4>2. CASE g # f
          <5>1. stack'[g] = stack[g]
            BY <1>2, <4>2
          <5> QED
            BY <4>2, <5>1 DEF Frames, Held
        <4> QED
          BY <4>1, <4>2
      <3> QED
        BY <3>2
    <2>5. ClaimsAreExclusive'
      BY <1>8, <2>3, <2>4, ClaimsStay
    <2>6. ParsedWhenClaimed'
      <3>1. \A x \in Modules : modules'[x] = "none" => parsed'[x] = 0
        BY <1>4, <1>5, <1>8 DEF IInv, ParsedWhenClaimed
      <3>2. ASSUME NEW g \in Files, NEW i \in Frames(g)', i # 1, stack'[g][i].step = "claimed"
            PROVE  parsed'[Held(g, i)'] = 0
        <4>1. /\ i \in Frames(g) /\ Held(g, i)' = Held(g, i) /\ stack[g][i].step = "claimed"
              /\ ~(g = f /\ i = n + 1)
          BY <2>4, <3>2
        <4>2. Held(g, i) \in Modules
          <5>1. Held(g, i) # Query
            BY <1>1, <3>2, <4>1 DEF StackInOrder
          <5>2. stack[g][i] \in Frame
            BY <1>1, <4>1 DEF Frames
          <5> QED
            BY <5>1, <5>2, FrameUpdates DEF Held
        <4>3. Held(g, i) # m
          BY <1>4, <4>1
        <4>4. parsed[Held(g, i)] = 0
          BY <3>2, <4>1 DEF IInv, ParsedWhenClaimed
        <4> QED
          BY <1>5, <4>1, <4>2, <4>3, <4>4
      <3> QED
        BY <3>1, <3>2 DEF ParsedWhenClaimed
    <2>7. ReleasedIsKnown'
      <3>1. Eager \subseteq known' /\ \A x \in Eager : modules'[x] = "indexed"
        BY <1>1, <1>8 DEF IInv, ReleasedIsKnown
      <3>2. ASSUME NEW g \in Files, NEW i \in Frames(g)', stack'[g][i].step = "written"
            PROVE  Held(g, i)' \in known'
        BY <1>1, <2>4, <3>2 DEF IInv, ReleasedIsKnown
      <3>3. \A x \in Modules :
               modules'[x] = "indexed" /\ Kind[x] = "good" /\ parsed'[x] > 0 => x \in known'
        BY <1>1, <1>4, <1>5, <1>8 DEF IInv, ReleasedIsKnown
      <3> QED
        BY <3>1, <3>2, <3>3 DEF ReleasedIsKnown
    <2>8. DecidedIsFinal'
      BY <1>1, <1>5, <1>8 DEF IInv, DecidedIsFinal
    <2>9. RouteIsWalked'
      <3>1. \/ stack'[f][1].todo = stack[f][1].todo /\ stack[f][1].left # 0
            \/ stack'[f][1] = stack[f][1]
        <4>1. CASE n = 1
          <5>1. stack[f][1].left # 0
            BY <1>2, <4>1
          <5> QED
            BY <2>1, <4>1, <5>1
        <4>2. CASE n # 1
          <5>1. 1 \in 1 .. n + 1 /\ 1 # n + 1
            OBVIOUS
          <5> QED
            BY <2>1, <4>2, <5>1
        <4> QED
          BY <4>1, <4>2
      <3> QED
        BY <1>1, <1>2, <1>3, <1>8, <3>1, RouteStays
    <2>10. InHand'
      BY <1>1, HandStays
    <2> QED
      BY <1>6, <2>3, <2>5, <2>6, <2>7, <2>8, <2>9, <2>10 DEF IInv
  <1> QED
    BY <1>2, <1>7, <1>8

(***************************************************************************)
(* Each step of a walk keeps the invariant                                 *)
(***************************************************************************)
\* The other workers stay where they are.
LEMMA WalkIsOwn ==
    ASSUME TypeOK, NEW f \in Files, Walk(f), NEW g \in Files \ {f}
    PROVE  /\ stage'[g] = stage[g] /\ agenda'[g] = agenda[g] /\ op'[g] = op[g]
           /\ tried'[g] = tried[g] /\ answer'[g] = answer[g]
           /\ subclasses'[g] = subclasses[g] /\ verdict'[g] = verdict[g]
  <1>1. /\ stage \in [Files -> Stages] /\ op \in [Files -> Nat \ {0}]
        /\ agenda \in [Files -> Seq(Modules)] /\ tried \in [Files -> SUBSET Modules]
        /\ answer \in [Files -> BOOLEAN] /\ subclasses \in [Files -> SUBSET Modules]
        /\ DOMAIN verdict = Files
    BY DEF TypeOK
  <1>2. \/ UNCHANGED stage
        \/ \E s : stage' = [stage EXCEPT ![f] = s]
    BY DEF Walk, BeginRebind, Rebind, SkipCall, LookUp, Get, Resolve, Memoize, Found,
           LookInBases, Judge, Advance, Goto
  <1>3. UNCHANGED op \/ op' = [op EXCEPT ![f] = @ + 1]
    BY DEF Walk, BeginRebind, Rebind, SkipCall, LookUp, Get, Resolve, Memoize, Found,
           LookInBases, Judge, Advance
  <1>4. UNCHANGED agenda \/ \E q : agenda' = [agenda EXCEPT ![f] = q]
    BY DEF Walk, BeginRebind, Rebind, SkipCall, LookUp, Get, Resolve, Memoize, Found,
           LookInBases, Judge, lookup
  <1>5. UNCHANGED tried \/ \E q : tried' = [tried EXCEPT ![f] = q]
    BY DEF Walk, BeginRebind, Rebind, SkipCall, LookUp, Get, Resolve, Memoize, Found,
           LookInBases, Judge, lookup
  <1>6. \/ UNCHANGED answer
        \/ answer' = [answer EXCEPT ![f] = memo[Target(f)] = "some"]
        \/ answer' = [answer EXCEPT ![f] = Target(f) \in signatures]
    BY DEF Walk, BeginRebind, Rebind, SkipCall, LookUp, Get, Resolve, Memoize, Found,
           LookInBases, Judge, lookup
  <1>7. UNCHANGED subclasses \/ \E q : subclasses' = [subclasses EXCEPT ![f] = q]
    BY DEF Walk, BeginRebind, Rebind, SkipCall, LookUp, Get, Resolve, Memoize, Found,
           LookInBases, Judge, lookup
  <1>8. UNCHANGED verdict \/ \E v : verdict' = [verdict EXCEPT ![f][op[f]] = v]
    BY DEF Walk, BeginRebind, Rebind, SkipCall, LookUp, Get, Resolve, Memoize, Found,
           LookInBases, Judge
  <1>9. verdict'[g] = verdict[g]
    BY <1>1, <1>8
  <1>10. answer'[g] = answer[g]
    BY <1>1, <1>6
  <1> QED
    BY <1>1, <1>2, <1>3, <1>4, <1>5, <1>7, <1>9, <1>10

\* Where a worker goes, and what it has on its stack there.
LEMMA WalkGoes ==
    ASSUME IInv, NEW f \in Files, Walk(f)
    PROVE  /\ \/ stage'[f] \notin {"resolve", "class"} /\ stack'[f] = <<>>
              \/ /\ stage'[f] = "resolve" /\ UNCHANGED agenda
                 /\ stack'[f] = <<[mod |-> Query, step |-> "loading",
                                   todo |-> Route[Target(f)], left |-> QueryBudget]>>
              \/ /\ stage'[f] = "class" /\ UNCHANGED agenda
                 /\ stack'[f] = <<[mod |-> Query, step |-> "loading",
                                   todo |-> <<Target(f)>>, left |-> QueryBudget]>>
           /\ stage'[f] # "start" => ~Ended(f) /\ op'[f] = op[f]
           /\ stage'[f] \in {"resolve", "memo", "found", "class", "judge"} =>
                 agenda'[f] = agenda[f] /\ agenda[f] # <<>>
  <1>1. /\ stage \in [Files -> Stages] /\ stack \in [Files -> Seq(Frame)]
        /\ stage[f] \in {"resolve", "class"} <=> stack[f] # <<>>
        /\ stage[f] \in {"resolve", "memo", "found", "class", "judge"} => agenda[f] # <<>>
    BY DEF IInv, TypeOK, StackInOrder, InHand
  <1> DEFINE Goes ==
        /\ \/ stage'[f] \notin {"resolve", "class"} /\ stack'[f] = <<>>
           \/ /\ stage'[f] = "resolve" /\ UNCHANGED agenda
              /\ stack'[f] = <<[mod |-> Query, step |-> "loading",
                                todo |-> Route[Target(f)], left |-> QueryBudget]>>
           \/ /\ stage'[f] = "class" /\ UNCHANGED agenda
              /\ stack'[f] = <<[mod |-> Query, step |-> "loading",
                                todo |-> <<Target(f)>>, left |-> QueryBudget]>>
        /\ stage'[f] # "start" => ~Ended(f) /\ op'[f] = op[f]
        /\ stage'[f] \in {"resolve", "memo", "found", "class", "judge"} =>
              agenda'[f] = agenda[f] /\ agenda[f] # <<>>
  <1>2. CASE BeginRebind(f)
    BY <1>1, <1>2 DEF BeginRebind, At, Goto
  <1>3. CASE Rebind(f)
    BY <1>1, <1>3 DEF Rebind, At, Goto, Advance
  <1>4. CASE SkipCall(f)
    BY <1>1, <1>4 DEF SkipCall, At, Goto, Advance
  <1>5. CASE LookUp(f)
    BY <1>1, <1>5 DEF LookUp, At, Goto
  <1>6. CASE Get(f)
    <2>1. /\ At(f, "get") /\ agenda[f] # <<>> /\ UNCHANGED op
          /\ \/ UNCHANGED <<stage, stack>>
             \/ Ask(f, Route[Target(f)]) /\ Goto(f, "resolve") /\ UNCHANGED agenda
             \/ Goto(f, "found") /\ UNCHANGED <<stack, agenda>>
      BY <1>6 DEF Get
    <2>2. CASE UNCHANGED <<stage, stack>>
      BY <1>1, <2>1, <2>2 DEF At
    <2>3. CASE Ask(f, Route[Target(f)]) /\ Goto(f, "resolve") /\ UNCHANGED agenda
      BY <1>1, <2>1, <2>3 DEF At, Ask, Goto
    <2>4. CASE Goto(f, "found") /\ UNCHANGED <<stack, agenda>>
      BY <1>1, <2>1, <2>4 DEF At, Goto
    <2> QED
      BY <2>1, <2>2, <2>3, <2>4
  <1>7. CASE Resolve(f)
    BY <1>1, <1>7 DEF Resolve, At, Goto
  <1>8. CASE Memoize(f)
    BY <1>1, <1>8 DEF Memoize, At, Goto, lookup
  <1>9. CASE Found(f)
    <2>1. /\ At(f, "found") /\ UNCHANGED agenda
          /\ \/ Advance(f) /\ UNCHANGED stack
             \/ Goto(f, "judge") /\ UNCHANGED <<op, stack>>
             \/ Ask(f, <<Target(f)>>) /\ Goto(f, "class") /\ UNCHANGED op
      BY <1>9 DEF Found, lookup
    <2>2. CASE Advance(f) /\ UNCHANGED stack
      BY <1>1, <2>1, <2>2 DEF At, Goto, Advance
    <2>3. CASE Goto(f, "judge") /\ UNCHANGED <<op, stack>>
      BY <1>1, <2>1, <2>3 DEF At, Goto
    <2>4. CASE Ask(f, <<Target(f)>>) /\ Goto(f, "class") /\ UNCHANGED op
      BY <1>1, <2>1, <2>4 DEF At, Ask, Goto
    <2> QED
      BY <2>1, <2>2, <2>3, <2>4
  <1>10. CASE LookInBases(f)
    BY <1>1, <1>10 DEF LookInBases, At, Goto
  <1>11. CASE Judge(f)
    BY <1>1, <1>11 DEF Judge, At, Goto, Advance
  <1> QED
    BY <1>2, <1>3, <1>4, <1>5, <1>6, <1>7, <1>8, <1>9, <1>10, <1>11 DEF Walk

LEMMA WalkKeepsIInv ==
    ASSUME IInv, NEW f \in Files, Walk(f), TypeOK'
    PROVE  IInv'
  <1>1. /\ TypeOK /\ StackInOrder
        /\ UNCHANGED <<modules, budget, known, program, pass, parsed>>
        /\ \A g \in Files \ {f} : stack'[g] = stack[g]
    BY WalkEffect DEF IInv
  <1>2. \A g \in Files \ {f} :
           stage'[g] = stage[g] /\ agenda'[g] = agenda[g] /\ op'[g] = op[g]
    BY <1>1, WalkIsOwn
  <1>3. /\ \/ stage'[f] \notin {"resolve", "class"} /\ stack'[f] = <<>>
           \/ /\ stage'[f] = "resolve" /\ UNCHANGED agenda
              /\ stack'[f] = <<[mod |-> Query, step |-> "loading",
                                todo |-> Route[Target(f)], left |-> QueryBudget]>>
           \/ /\ stage'[f] = "class" /\ UNCHANGED agenda
              /\ stack'[f] = <<[mod |-> Query, step |-> "loading",
                                todo |-> <<Target(f)>>, left |-> QueryBudget]>>
        /\ stage'[f] # "start" => ~Ended(f) /\ op'[f] = op[f]
        /\ stage'[f] \in {"resolve", "memo", "found", "class", "judge"} =>
              agenda'[f] = agenda[f] /\ agenda[f] # <<>>
    BY WalkGoes
  <1>4. StackInOrder'
    <2>1. ASSUME NEW g \in Files \ {f}
          PROVE  /\ stage'[g] \in {"resolve", "class"} <=> stack'[g] # <<>>
                 /\ \A i \in Frames(g)' :
                       /\ Held(g, i)' = Query <=> i = 1
                       /\ i = 1 => stack'[g][i].step = "loading"
                       /\ i < Len(stack'[g]) =>
                             /\ stack'[g][i].step = "loading" /\ stack'[g][i].todo # <<>>
                             /\ Head(stack'[g][i].todo) = Held(g, i + 1)'
      <3>1. stack'[g] = stack[g] /\ stage'[g] = stage[g]
        BY <1>1, <1>2
      <3> QED
        BY <1>1, <3>1 DEF StackInOrder, Frames, Held
    <2>2. /\ stage'[f] \in {"resolve", "class"} <=> stack'[f] # <<>>
          /\ \A i \in Frames(f)' :
                /\ Held(f, i)' = Query <=> i = 1
                /\ i = 1 => stack'[f][i].step = "loading"
                /\ i < Len(stack'[f]) =>
                      /\ stack'[f][i].step = "loading" /\ stack'[f][i].todo # <<>>
                      /\ Head(stack'[f][i].todo) = Held(f, i + 1)'
      <3>1. CASE stage'[f] \notin {"resolve", "class"} /\ stack'[f] = <<>>
        <4>1. DOMAIN stack'[f] = {}
          BY <3>1
        <4> QED
          BY <3>1, <4>1 DEF Frames
      <3>2. ASSUME NEW route, stage'[f] \in {"resolve", "class"},
                   stack'[f] = <<[mod |-> Query, step |-> "loading", todo |-> route,
                                  left |-> QueryBudget]>>
            PROVE  /\ stage'[f] \in {"resolve", "class"} <=> stack'[f] # <<>>
                   /\ \A i \in Frames(f)' :
                         /\ Held(f, i)' = Query <=> i = 1
                         /\ i = 1 => stack'[f][i].step = "loading"
                         /\ i < Len(stack'[f]) =>
                               /\ stack'[f][i].step = "loading" /\ stack'[f][i].todo # <<>>
                               /\ Head(stack'[f][i].todo) = Held(f, i + 1)'
        <4>1. /\ DOMAIN stack'[f] = {1} /\ Len(stack'[f]) = 1 /\ stack'[f] # <<>>
              /\ stack'[f][1] = [mod |-> Query, step |-> "loading", todo |-> route,
                                 left |-> QueryBudget]
          BY <3>2
        <4>2. stack'[f][1].mod = Query /\ stack'[f][1].step = "loading"
          BY <4>1
        <4> QED
          BY <3>2, <4>1, <4>2 DEF Frames, Held
      <3> QED
        BY <1>3, <3>1, <3>2
    <2> QED
      BY <2>1, <2>2 DEF StackInOrder
  <1>5. \A g \in Files : \A i \in Frames(g)' :
           i # 1 => i \in Frames(g) /\ stack'[g][i] = stack[g][i]
    BY WalkKeepsClaims
  <1>6. ClaimsAreExclusive'
    BY <1>1, <1>4, <1>5, ClaimsStay DEF Held
  <1>7. ParsedWhenClaimed' /\ ParsedOnce' /\ DecidedIsFinal'
    BY <1>1, <1>5 DEF IInv, ParsedWhenClaimed, ParsedOnce, DecidedIsFinal, Held
  <1>8. ReleasedIsKnown'
    <2>1. ASSUME NEW g \in Files, NEW i \in Frames(g)', stack'[g][i].step = "written"
          PROVE  Held(g, i)' \in known'
      <3>1. i # 1
        BY <1>4, <2>1 DEF StackInOrder
      <3> QED
        BY <1>1, <1>5, <2>1, <3>1 DEF IInv, ReleasedIsKnown, Held
    <2>2. /\ Eager \subseteq known' /\ \A x \in Eager : modules'[x] = "indexed"
          /\ \A x \in Modules :
                modules'[x] = "indexed" /\ Kind[x] = "good" /\ parsed'[x] > 0 => x \in known'
      BY <1>1 DEF IInv, ReleasedIsKnown
    <2> QED
      BY <2>1, <2>2 DEF ReleasedIsKnown
  <1>9. RouteIsWalked'
    <2>1. ASSUME NEW g \in Files, stage'[g] = "resolve",
                 NEW x \in Range(Route[Target(g)'])
          PROVE  \/ x \in Range(stack'[g][1].todo)
                 \/ stack'[g][1].left = 0
                 \/ modules'[x] = "indexed"
      <3>1. CASE g = f
        <4>1. /\ stack'[f] = <<[mod |-> Query, step |-> "loading",
                                todo |-> Route[Target(f)], left |-> QueryBudget]>>
              /\ UNCHANGED agenda
          BY <1>3, <2>1, <3>1
        <4>2. stack'[f][1].todo = Route[Target(f)] /\ Target(f)' = Target(f)
          BY <4>1 DEF Target
        <4> QED
          BY <2>1, <3>1, <4>2
      <3>2. CASE g # f
        <4>1. stage[g] = "resolve" /\ Target(g)' = Target(g) /\ stack'[g] = stack[g]
          BY <1>1, <1>2, <2>1, <3>2 DEF Target
        <4> QED
          BY <1>1, <2>1, <4>1 DEF IInv, RouteIsWalked
      <3> QED
        BY <3>1, <3>2
    <2> QED
      BY <2>1 DEF RouteIsWalked
  <1>10. InHand'
    <2>1. ASSUME NEW g \in Files
          PROVE  /\ stage'[g] # "start" => ~Ended(g)'
                 /\ stage'[g] \in {"resolve", "memo", "found", "class", "judge"} =>
                       agenda'[g] # <<>>
      <3>1. CASE g = f
        BY <1>1, <1>3, <3>1 DEF Ended
      <3>2. CASE g # f
        BY <1>1, <1>2, <3>2 DEF IInv, InHand, Ended
      <3> QED
        BY <3>1, <3>2
    <2> QED
      BY <2>1 DEF InHand
  <1> QED
    BY <1>4, <1>6, <1>7, <1>8, <1>9, <1>10 DEF IInv

\* A step that leaves all of what the invariant reads keeps it.
LEMMA StayKeepsIInv ==
    ASSUME IInv, TypeOK',
           UNCHANGED <<modules, budget, known, program, op, stage, stack, agenda, parsed>>
    PROVE  IInv'
  <1>1. InHand'
    BY DEF IInv, InHand, Ended
  <1> QED
    BY <1>1 DEF IInv, StackInOrder, ClaimsAreExclusive, ParsedWhenClaimed,
       ParsedOnce, ReleasedIsKnown, DecidedIsFinal, RouteIsWalked, Frames, Held, Target

(***************************************************************************)
(* The invariant, and what follows from it                                 *)
(***************************************************************************)
LEMMA InitIInv == ASSUME Init PROVE IInv
  <1>1. TypeOK
    BY InitTypeOK
  <1>2. \A f \in Files : stack[f] = <<>> /\ stage[f] = "start" /\ Frames(f) = {}
    BY DEF Init, Frames
  <1>3. StackInOrder /\ ClaimsAreExclusive /\ RouteIsWalked /\ InHand
    BY <1>2 DEF StackInOrder, ClaimsAreExclusive, RouteIsWalked, InHand
  <1>4. ParsedWhenClaimed /\ ParsedOnce
    BY <1>2 DEF Init, ParsedWhenClaimed, ParsedOnce
  <1>5. ReleasedIsKnown /\ DecidedIsFinal
    BY <1>2, EagerAssumption DEF Init, ReleasedIsKnown, DecidedIsFinal
  <1> QED
    BY <1>1, <1>3, <1>4, <1>5 DEF IInv

LEMMA NextIInv == ASSUME IInv, [Next]_vars PROVE IInv'
  <1>1. TypeOK'
    BY TypeIsKept
  <1>2. ASSUME NEW f \in Files, Work(f) PROVE IInv'
    <2>1. CASE WaitForModule(f)
      <3>1. UNCHANGED <<modules, budget, known, program, op, stage, stack, agenda, parsed>>
        BY <2>1 DEF WaitForModule, vars
      <3> QED
        BY <1>1, <3>1, StayKeepsIInv
    <2> QED
      BY <1>1, <1>2, <2>1, SkipKeepsIInv, ClaimKeepsIInv, MissKeepsIInv, ParseKeepsIInv,
         IndexKeepsIInv, ReleaseKeepsIInv, WalkKeepsIInv DEF Work, Load
  <1>3. CASE BeginJudging
    <2>1. /\ UNCHANGED <<modules, budget, known, program, stage, stack, agenda, parsed>>
          /\ \A f \in Files : stage[f] = "start"
      BY <1>3 DEF BeginJudging, store, lookup
    <2>2. InHand'
      BY <2>1 DEF InHand
    <2> QED
      BY <1>1, <2>1, <2>2 DEF IInv, StackInOrder, ClaimsAreExclusive, ParsedWhenClaimed,
         ParsedOnce, ReleasedIsKnown, DecidedIsFinal, RouteIsWalked, Frames, Held, Target
  <1>4. CASE End
    <2>1. UNCHANGED <<modules, budget, known, program, op, stage, stack, agenda, parsed>>
      BY <1>4 DEF End, store, lookup
    <2> QED
      BY <1>1, <2>1, StayKeepsIInv
  <1>5. CASE UNCHANGED vars
    <2>1. UNCHANGED <<modules, budget, known, program, op, stage, stack, agenda, parsed>>
      BY <1>5 DEF vars
    <2> QED
      BY <1>1, <2>1, StayKeepsIInv
  <1> QED
    BY <1>2, <1>3, <1>4, <1>5 DEF Next, Rest

\* The inductive invariant holds for every set of files, modules and programs, and
\* whatever the two budgets of parses are.
THEOREM Invariance == Spec => []IInv
  <1>1. Init => IInv
    BY InitIInv
  <1>2. IInv /\ [Next]_vars => IInv'
    BY NextIInv
  <1> QED
    BY <1>1, <1>2, PTL DEF Spec

\* Every variable stays in its range.
THEOREM TypeCorrect == Spec => []TypeOK
  <1>1. IInv => TypeOK
    BY DEF IInv
  <1> QED
    BY <1>1, Invariance, PTL

\* No module is parsed twice, however many workers ask for it at once and however often
\* a query gave it up (claim_module, ModuleIndexClaim::abandon).
THEOREM EachParsedOnce == Spec => []ParsedOnce
  <1>1. IInv => ParsedOnce
    BY DEF IInv
  <1> QED
    BY <1>1, Invariance, PTL

\* While the run can still parse, a module that could be had is not given up for good.
THEOREM NoneGivenUp == Spec => []DecidedIsFinal
  <1>1. IInv => DecidedIsFinal
    BY DEF IInv
  <1> QED
    BY <1>1, Invariance, PTL

\* A query that is answered has every module of its route indexed in full, what another
\* worker loaded included, unless its own budget ran out (ensure_module).
THEOREM QueriesWait == Spec => []AnswersAreComplete
  <1>1. ASSUME IInv PROVE AnswersAreComplete
    <2> SUFFICES ASSUME NEW f \in Files, stage[f] = "resolve", QueryLoaded(f),
                        NEW m \in Range(Route[Target(f)])
                 PROVE  \/ Top(f).left = 0
                        \/ /\ modules[m] = "indexed"
                           /\ parsed[m] > 0 /\ Kind[m] = "good" => m \in known
      BY DEF AnswersAreComplete
    <2>1. stack \in [Files -> Seq(Frame)] /\ stack[f] # <<>>
      BY <1>1 DEF IInv, TypeOK, QueryLoaded, Loads
    <2>2. PICK n \in Nat : n = Len(stack[f])
      BY <2>1
    <2>3. Frames(f) = 1 .. n /\ n \in 1 .. n
      <3>1. Frames(f) = 1 .. n /\ n > 0
        BY <2>1, <2>2, FramesAreNumbered
      <3> QED
        BY <3>1
    <2>4. Top(f) = stack[f][n] /\ Top(f).mod = Query /\ Top(f).todo = <<>>
      BY <2>2 DEF Top, QueryLoaded
    <2>5. n = 1
      BY <1>1, <2>3, <2>4 DEF IInv, StackInOrder, Held
    <2>6. Range(stack[f][1].todo) = {}
      <3>1. DOMAIN stack[f][1].todo = {}
        BY <2>4, <2>5
      <3> QED
        BY <3>1 DEF Range
    <2>7. Top(f).left = 0 \/ modules[m] = "indexed"
      BY <1>1, <2>4, <2>5, <2>6 DEF IInv, RouteIsWalked
    <2>8. m \in Modules
      <3>1. agenda[f] # <<>> /\ agenda[f] \in Seq(Modules)
        BY <1>1 DEF IInv, InHand, TypeOK
      <3>2. Target(f) \in Modules
        BY <3>1 DEF Target
      <3>3. Route[Target(f)] \in Seq(Modules)
        BY <3>2, RouteAssumption
      <3> QED
        BY <3>3 DEF Range
    <2> QED
      BY <1>1, <2>7, <2>8 DEF IInv, ReleasedIsKnown
  <1> QED
    BY <1>1, Invariance, PTL

(***************************************************************************)
(* The two passes over the checked files: however the scan                 *)
(* workers interleave, and whatever they load on the way, a call of a      *)
(* checked file's own method is let pass just when some file rebinds the   *)
(* method.                                                                 *)
(*                                                                         *)
(* JInv, stated with the model, is inductive.  It rests on two facts: no   *)
(* step of loading touches a checked file's method (LoadKeepsEager), and   *)
(* which checked classes derive from a class does not depend on what is    *)
(* loaded (EagerHeirs), so a rebinding excludes the same methods whenever  *)
(* it reads the hierarchy.                                                 *)
(***************************************************************************)

(***************************************************************************)
(* The checked files' classes among the known                              *)
(***************************************************************************)
\* The classes of the checked files derive from one another alone: what more of the
\* hierarchy is loaded does not change which of them derive from a class.
LEMMA EagerHeirs ==
    ASSUME NEW hierarchy \in SUBSET Modules, Eager \subseteq hierarchy, NEW n \in Eager, NEW c
    PROVE  n \in Derived(c, hierarchy) <=> n \in Derived(c, Eager)
  <1>1. ASSUME n \in Derived(c, Eager), NEW S \in SUBSET hierarchy, Closed(S, c, hierarchy)
        PROVE  n \in S
    <2>1. Closed(S \cap Eager, c, Eager)
      <3> SUFFICES ASSUME NEW m \in Eager, Range(Bases[m]) \cap ((S \cap Eager) \cup {c}) # {}
                   PROVE  m \in S \cap Eager
        BY DEF Closed
      <3>1. Range(Bases[m]) \cap (S \cup {c}) # {}
        OBVIOUS
      <3> QED
        BY <1>1, <3>1 DEF Closed
    <2>2. S \cap Eager \in SUBSET Eager
      OBVIOUS
    <2> QED
      BY <1>1, <2>1, <2>2 DEF Derived
  <1>2. ASSUME n \in Derived(c, hierarchy), NEW S \in SUBSET Eager, Closed(S, c, Eager)
        PROVE  n \in S
    <2> DEFINE T == S \cup (hierarchy \ Eager)
    <2>1. Closed(T, c, hierarchy)
      <3> SUFFICES ASSUME NEW m \in hierarchy, Range(Bases[m]) \cap (T \cup {c}) # {}
                   PROVE  m \in T
        BY DEF Closed
      <3>1. CASE m \notin Eager
        BY <3>1
      <3>2. CASE m \in Eager
        <4>1. Range(Bases[m]) \subseteq Eager
          BY <3>2, EagerAssumption
        <4>2. Range(Bases[m]) \cap (S \cup {c}) # {}
          BY <4>1
        <4> QED
          BY <1>2, <3>2, <4>2 DEF Closed
      <3> QED
        BY <3>1, <3>2
    <2>2. T \in SUBSET hierarchy
      OBVIOUS
    <2>3. n \in T
      BY <1>2, <2>1, <2>2 DEF Derived
    <2> QED
      BY <2>3
  <1>3. n \in hierarchy
    OBVIOUS
  <1> QED
    BY <1>1, <1>2, <1>3 DEF Derived

\* What is known is never forgotten, and holds the checked files' classes.
LEMMA HeirsOfEager ==
    ASSUME IInv, NEW n \in Eager, NEW c
    PROVE  n \in Heirs(c) <=> n \in Derived(c, Eager)
  <1>1. known \in SUBSET Modules /\ Eager \subseteq known
    BY DEF IInv, TypeOK, ReleasedIsKnown
  <1> QED
    BY <1>1, EagerHeirs DEF Heirs

\* Loading leaves the methods of the checked files as they are.
LEMMA LoadKeepsEager ==
    ASSUME IInv, NEW f \in Files, Load(f)
    PROVE  /\ UNCHANGED <<memo, program, pass, op, stage, agenda, tried, answer,
                          subclasses, verdict>>
           /\ \A n \in Eager : /\ n \in excluded' <=> n \in excluded
                               /\ n \in signatures' <=> n \in signatures
  <1>1. UNCHANGED <<memo, program, pass, op, stage, agenda, tried, answer, subclasses, verdict>>
    BY DEF Load, SkipModule, ClaimModule, WaitForModule, MissModule, ParseModule, IndexModule,
           ReleaseModule, lookup, vars
  <1>2. CASE IndexModule(f)
    <2>1. TypeOK
      BY DEF IInv
    <2>2. PICK n \in Nat \ {0}, m \in Modules :
             /\ n = Len(stack[f]) /\ Held(f, n) = m
             /\ signatures' = signatures \cup {m} /\ excluded' = excluded \ {m}
      BY <1>2, <2>1, IndexEffect
    <2>3. n \in Frames(f)
      <3>1. stack \in [Files -> Seq(Frame)] /\ n \in Nat /\ n \in 1 .. n
        BY <2>1 DEF TypeOK
      <3>2. Frames(f) = 1 .. n
        BY <2>2, <3>1, FramesAreNumbered
      <3> QED
        BY <3>1, <3>2
    <2>4. n # 1
      BY <2>2, <2>3, QueryAssumption DEF IInv, StackInOrder, Query
    <2>5. m \notin Eager
      <3>1. modules[m] = "indexing"
        BY <2>2, <2>3, <2>4 DEF IInv, ClaimsAreExclusive
      <3> QED
        BY <3>1 DEF IInv, ReleasedIsKnown
    <2> QED
      BY <1>1, <2>2, <2>5
  <1>3. CASE UNCHANGED <<signatures, excluded>>
    BY <1>1, <1>3
  <1> QED
    BY <1>2, <1>3 DEF Load, SkipModule, ClaimModule, WaitForModule, MissModule, ParseModule,
       ReleaseModule, store, vars

(***************************************************************************)
(* What a walk does to the exclusions                                      *)
(***************************************************************************)
\* A rebinding excludes the methods it takes, and nothing else of the checked files.
LEMMA RebindExcludes ==
    ASSUME JInv, NEW f \in Files, Rebind(f), NEW n \in Eager
    PROVE  /\ n \in excluded' <=> n \in excluded \/ Takes(Current(f), n)
           /\ n \in signatures' <=> n \in signatures /\ ~Takes(Current(f), n)
  <1>1. stage[f] = "exclude"
    BY DEF Rebind, At
  <1>2. Current(f).kind = "rebind" /\ subclasses[f] \cap Eager = Derived(Current(f).name, Eager)
    BY <1>1 DEF JInv, RebindingHasRead
  <1>3. n \in {Current(f).name} \cup subclasses[f] <=> Takes(Current(f), n)
    BY <1>2 DEF Takes
  <1> QED
    BY <1>3 DEF Rebind

\* No other step of a walk touches the exclusions.
LEMMA OthersExcludeNothing ==
    ASSUME NEW f \in Files, Walk(f), ~Rebind(f)
    PROVE  UNCHANGED <<signatures, excluded>>
  BY DEF Walk, BeginRebind, SkipCall, LookUp, Get, Resolve, Memoize, Found, LookInBases,
         Judge, store

\* An exclusion stays, and once the first pass is over none is added.
LEMMA ExclusionsStay ==
    ASSUME JInv, NEW f \in Files, Work(f), NEW n \in Eager
    PROVE  /\ n \in excluded => n \in excluded'
           /\ pass # "discover" => (n \in excluded' <=> n \in excluded)
  <1>1. CASE Load(f)
    BY <1>1, LoadKeepsEager DEF JInv
  <1>2. CASE Walk(f) /\ ~Rebind(f)
    BY <1>2, OthersExcludeNothing
  <1>3. CASE Rebind(f)
    <2>1. n \in excluded' <=> n \in excluded \/ Takes(Current(f), n)
      BY <1>3, RebindExcludes
    <2>2. ASSUME pass # "discover", Takes(Current(f), n) PROVE n \in excluded
      <3>1. op[f] \in DOMAIN program[f]
        BY <1>3, CurrentIsAnOperation DEF JInv, IInv, Rebind, At
      <3>2. Takes(program[f][op[f]], n)
        BY <2>2 DEF Current
      <3> QED
        BY <2>2, <3>1, <3>2 DEF JInv, ExclusionsAreDone
    <2> QED
      BY <2>1, <2>2
  <1> QED
    BY <1>1, <1>2, <1>3 DEF Work

\* An operation is done with: a rebinding by its step, another kind by no rebinding.
LEMMA WalkAdvances ==
    ASSUME JInv, NEW f \in Files, Walk(f)
    PROVE  /\ UNCHANGED <<program, pass>>
           /\ \/ UNCHANGED op
              \/ /\ op' = [op EXCEPT ![f] = op[f] + 1] /\ stage'[f] = "start"
                 /\ ~Ended(f)
                 /\ Rebind(f) \/ Current(f).kind # "rebind"
                 /\ Rebind(f) \/ SkipCall(f) \/ Found(f) \/ Judge(f)
  <1>1. UNCHANGED <<program, pass>> /\ stage \in [Files -> Stages]
    BY WalkEffect DEF JInv, IInv, TypeOK
  <1>2. CASE Rebind(f)
    BY <1>1, <1>2 DEF Rebind, Advance, At, Goto
  <1>3. CASE SkipCall(f)
    BY <1>1, <1>3 DEF SkipCall, Advance, At, Goto
  <1>4. CASE Found(f)
    BY <1>1, <1>4 DEF Found, Advance, At, Goto
  <1>5. CASE Judge(f)
    <2>1. stage[f] \in {"judge", "get"} /\ ~Ended(f)
      BY <1>5 DEF Judge, At
    <2>2. Current(f).kind # "rebind"
      BY <2>1 DEF JInv, RebindingHasRead
    <2> QED
      BY <1>1, <1>5, <2>1, <2>2 DEF Judge, Advance, Goto
  <1>6. CASE UNCHANGED op
    BY <1>1, <1>6
  <1> QED
    BY <1>2, <1>3, <1>4, <1>5, <1>6 DEF Walk, BeginRebind, LookUp, Get, Resolve, Memoize,
       LookInBases

(***************************************************************************)
(* Each step of a walk keeps the invariant                                 *)
(***************************************************************************)
\* An operation of a file is one of those a worker has done with, its current one, or to
\* come; a step that is done with the current one adds that.
LEMMA DoneWith ==
    ASSUME TypeOK, NEW f \in Files, NEW i \in DOMAIN program[f],
           op' = [op EXCEPT ![f] = op[f] + 1], i < op'[f]
    PROVE  i < op[f] \/ (i = op[f] /\ program[f][i] = Current(f))
  <1>1. program[f] \in Seq(Op) /\ op[f] \in Nat /\ op \in [Files -> Nat \ {0}]
    BY ProgramsAssumption DEF TypeOK
  <1>2. i \in Nat
    BY <1>1
  <1>3. op'[f] = op[f] + 1
    BY <1>1
  <1> QED
    BY <1>1, <1>2, <1>3 DEF Current

LEMMA WalkKeepsExclusions ==
    ASSUME JInv, NEW f \in Files, Walk(f)
    PROVE  ExclusionsAreDone'
  <1>1. TypeOK /\ UNCHANGED <<program, pass>>
    BY WalkAdvances DEF JInv, IInv
  <1> SUFFICES ASSUME NEW n \in Eager
               PROVE  /\ n \in signatures' <=> n \notin excluded'
                      /\ n \in excluded' =>
                            \E g \in Files : \E i \in DOMAIN program[g] :
                               Takes(program[g][i], n)
                      /\ \A g \in Files : \A i \in DOMAIN program[g] :
                            Takes(program[g][i], n) /\ (pass # "discover" \/ i < op'[g])
                            => n \in excluded'
    BY <1>1 DEF ExclusionsAreDone, Takes
  <1>2. /\ n \in signatures <=> n \notin excluded
        /\ n \in excluded =>
              \E g \in Files : \E i \in DOMAIN program[g] : Takes(program[g][i], n)
        /\ \A g \in Files : \A i \in DOMAIN program[g] :
              Takes(program[g][i], n) /\ (pass # "discover" \/ i < op[g]) => n \in excluded
    BY DEF JInv, ExclusionsAreDone
  <1>3. CASE Rebind(f)
    <2>1. /\ n \in excluded' <=> n \in excluded \/ Takes(Current(f), n)
          /\ n \in signatures' <=> n \in signatures /\ ~Takes(Current(f), n)
      BY <1>3, RebindExcludes
    <2>2. op[f] \in DOMAIN program[f] /\ program[f][op[f]] = Current(f)
      BY <1>1, <1>3, CurrentIsAnOperation DEF Rebind, At, Current
    <2>3. op' = [op EXCEPT ![f] = op[f] + 1]
      BY <1>3 DEF Rebind, Advance
    <2>4. n \in signatures' <=> n \notin excluded'
      BY <1>2, <2>1
    <2>5. n \in excluded' =>
             \E g \in Files : \E i \in DOMAIN program[g] : Takes(program[g][i], n)
      BY <1>2, <2>1, <2>2
    <2>6. ASSUME NEW g \in Files, NEW i \in DOMAIN program[g], Takes(program[g][i], n),
                 pass # "discover" \/ i < op'[g]
          PROVE  n \in excluded'
      <3>1. CASE pass # "discover"
        BY <1>2, <2>1, <2>6, <3>1
      <3>2. CASE g = f /\ i < op'[f]
        <4>1. i < op[f] \/ (i = op[f] /\ program[f][i] = Current(f))
          BY <1>1, <2>3, <3>2, DoneWith
        <4> QED
          BY <1>2, <2>1, <2>6, <3>2, <4>1
      <3>3. CASE g # f /\ i < op'[g]
        <4>1. op'[g] = op[g]
          BY <1>1, <2>3, <3>3 DEF TypeOK
        <4> QED
          BY <1>2, <2>1, <2>6, <3>3, <4>1
      <3> QED
        BY <2>6, <3>1, <3>2, <3>3
    <2> QED
      BY <2>4, <2>5, <2>6
  <1>4. CASE ~Rebind(f)
    <2>1. UNCHANGED <<signatures, excluded>>
      BY <1>4, OthersExcludeNothing
    <2>2. ASSUME NEW g \in Files, NEW i \in DOMAIN program[g], Takes(program[g][i], n),
                 pass # "discover" \/ i < op'[g]
          PROVE  n \in excluded'
      <3>1. CASE UNCHANGED op
        BY <1>2, <2>1, <2>2, <3>1
      <3>2. CASE op' = [op EXCEPT ![f] = op[f] + 1] /\ Current(f).kind # "rebind"
        <4>1. CASE pass # "discover"
          BY <1>2, <2>1, <2>2, <4>1
        <4>2. CASE g = f /\ i < op'[f]
          <5>1. i < op[f] \/ (i = op[f] /\ program[f][i] = Current(f))
            BY <1>1, <3>2, <4>2, DoneWith
          <5>2. program[f][i].kind = "rebind"
            BY <2>2, <4>2 DEF Takes
          <5> QED
            BY <1>2, <2>1, <2>2, <3>2, <4>2, <5>1, <5>2
        <4>3. CASE g # f /\ i < op'[g]
          <5>1. op'[g] = op[g]
            BY <1>1, <3>2, <4>3 DEF TypeOK
          <5> QED
            BY <1>2, <2>1, <2>2, <4>3, <5>1
        <4> QED
          BY <2>2, <4>1, <4>2, <4>3
      <3> QED
        BY <1>4, <3>1, <3>2, WalkAdvances
    <2> QED
      BY <1>2, <2>1, <2>2
  <1> QED
    BY <1>3, <1>4

LEMMA WalkKeepsRebindings ==
    ASSUME JInv, NEW f \in Files, Walk(f)
    PROVE  RebindingHasRead'
  <1>1. /\ TypeOK /\ UNCHANGED <<program, pass>>
        /\ stage \in [Files -> Stages] /\ subclasses \in [Files -> SUBSET Modules]
    BY WalkAdvances DEF JInv, IInv, TypeOK
  <1> SUFFICES ASSUME NEW g \in Files
               PROVE  /\ stage'[g] # "start" =>
                            (Current(g)'.kind = "rebind" <=> stage'[g] = "exclude")
                      /\ stage'[g] = "exclude" =>
                            subclasses'[g] \cap Eager = Derived(Current(g)'.name, Eager)
    BY DEF RebindingHasRead, Derived, Closed
  <1>2. /\ stage[g] # "start" => (Current(g).kind = "rebind" <=> stage[g] = "exclude")
        /\ stage[g] = "exclude" =>
              subclasses[g] \cap Eager = Derived(Current(g).name, Eager)
    BY DEF JInv, RebindingHasRead
  <1>3. CASE g # f
    <2>1. stage'[g] = stage[g] /\ op'[g] = op[g] /\ subclasses'[g] = subclasses[g]
      BY <1>1, <1>3, WalkIsOwn
    <2>2. Current(g)' = Current(g)
      BY <1>1, <2>1 DEF Current
    <2> QED
      BY <1>2, <2>1, <2>2
  <1>4. CASE g = f /\ stage'[f] = "start"
    BY <1>4
  <1>5. CASE g = f /\ stage'[f] # "start"
    <2>1. Current(f)' = Current(f)
      BY <1>1, <1>5, WalkAdvances DEF Current
    <2>2. CASE BeginRebind(f)
      <3>1. /\ Current(f).kind = "rebind" /\ stage'[f] = "exclude"
            /\ subclasses'[f] = Heirs(Current(f).name)
        BY <1>1, <2>2 DEF BeginRebind, Goto
      <3>2. Heirs(Current(f).name) \cap Eager = Derived(Current(f).name, Eager)
        <4>1. \A n \in Eager : n \in Heirs(Current(f).name) <=> n \in Derived(Current(f).name, Eager)
          BY HeirsOfEager DEF JInv
        <4>2. Derived(Current(f).name, Eager) \subseteq Eager
          BY DEF Derived
        <4> QED
          BY <4>1, <4>2
      <3> QED
        BY <1>5, <2>1, <3>1, <3>2
    <2>3. CASE LookUp(f)
      <3>1. Current(f).kind # "rebind" /\ stage'[f] = "get"
        BY <1>1, <2>3 DEF LookUp, Goto
      <3> QED
        BY <1>5, <2>1, <3>1
    <2>4. CASE /\ stage[f] \notin {"start", "exclude"} /\ stage'[f] # "exclude"
      BY <1>2, <1>5, <2>1, <2>4
    <2>5. CASE Rebind(f) \/ SkipCall(f) \/ Judge(f)
      BY <1>1, <1>5, <2>5 DEF Rebind, SkipCall, Judge, Advance, Goto
    <2> QED
      BY <1>1, <2>2, <2>3, <2>4, <2>5 DEF Walk, Get, Resolve, Memoize, Found, LookInBases,
         At, Goto, Advance
  <1> QED
    BY <1>3, <1>4, <1>5

LEMMA WalkKeepsFound ==
    ASSUME JInv, NEW f \in Files, Walk(f)
    PROVE  FoundUnlessExcluded'
  <1>1. /\ TypeOK /\ stage \in [Files -> Stages] /\ answer \in [Files -> BOOLEAN]
        /\ memo \in [Modules -> {"unknown", "some", "none"}]
    BY DEF JInv, IInv, TypeOK
  <1>2. /\ \A n \in Eager : memo[n] = "none" => n \in excluded
        /\ \A g \in Files :
              stage[g] = "memo" /\ Target(g) \in Eager /\ ~answer[g] => Target(g) \in excluded
    BY DEF JInv, FoundUnlessExcluded
  <1>3. \A n \in Eager : n \in excluded => n \in excluded'
    BY ExclusionsStay DEF Work
  <1>4. ASSUME NEW n \in Eager, memo'[n] = "none" PROVE n \in excluded'
    <2>1. CASE Memoize(f)
      <3>1. CASE n = Target(f)
        <4>1. stage[f] = "memo" /\ ~answer[f]
          BY <1>1, <1>4, <2>1, <3>1, EagerAssumption DEF Memoize, At
        <4> QED
          BY <1>2, <1>3, <3>1, <4>1
      <3>2. CASE n # Target(f)
        <4>1. memo'[n] = memo[n]
          BY <1>1, <2>1, <3>2, EagerAssumption DEF Memoize
        <4> QED
          BY <1>2, <1>3, <1>4, <4>1
      <3> QED
        BY <3>1, <3>2
    <2>2. CASE UNCHANGED memo
      BY <1>2, <1>3, <1>4, <2>2
    <2> QED
      BY <2>1, <2>2 DEF Walk, BeginRebind, Rebind, SkipCall, LookUp, Get, Resolve, Found,
         LookInBases, Judge
  <1>5. ASSUME NEW g \in Files, stage'[g] = "memo", Target(g)' \in Eager, ~answer'[g]
        PROVE  Target(g)' \in excluded'
    <2>1. CASE g # f
      <3>1. stage'[g] = stage[g] /\ answer'[g] = answer[g] /\ Target(g)' = Target(g)
        BY <1>1, <2>1, WalkIsOwn DEF Target
      <3> QED
        BY <1>2, <1>3, <1>5, <3>1
    <2>2. CASE g = f
      <3>1. Resolve(f)
        BY <1>1, <1>5, <2>2 DEF Walk, BeginRebind, Rebind, SkipCall, LookUp, Get, Memoize,
           Found, LookInBases, Judge, At, Goto, Advance
      <3>2. Target(f)' = Target(f) /\ UNCHANGED <<signatures, excluded>>
        BY <3>1 DEF Resolve, Target, store
      <3>3. answer' = [answer EXCEPT ![f] = Target(f) \in signatures]
        BY <3>1 DEF Resolve
      <3>4. answer'[f] = (Target(f) \in signatures)
        BY <1>1, <3>3
      <3>5. Target(f) \notin signatures
        BY <1>5, <2>2, <3>4
      <3> QED
        BY <1>5, <2>2, <3>2, <3>5 DEF JInv, ExclusionsAreDone
    <2> QED
      BY <2>1, <2>2
  <1> QED
    BY <1>4, <1>5 DEF FoundUnlessExcluded

\* What the lookup of a checked file's method has in hand, at its worker's stage.
ByName(f) ==
    /\ stage[f] \in {"get", "resolve", "memo", "found", "judge"}
    /\ agenda[f] = <<Current(f).name>> /\ tried[f] = {}
    /\ stage[f] \in {"found", "judge"} =>
          /\ memo[Current(f).name] # "unknown"
          /\ answer[f] \/ Current(f).name \in excluded

LEMMA WalkKeepsLookups ==
    ASSUME JInv, NEW f \in Files, Walk(f)
    PROVE  LookedUpByName'
  <1>1. /\ TypeOK /\ UNCHANGED <<program, pass>>
        /\ stage \in [Files -> Stages] /\ answer \in [Files -> BOOLEAN]
        /\ agenda \in [Files -> Seq(Modules)] /\ tried \in [Files -> SUBSET Modules]
        /\ memo \in [Modules -> {"unknown", "some", "none"}]
    BY WalkAdvances DEF JInv, IInv, TypeOK
  <1>2. \A n \in Eager : n \in excluded => n \in excluded'
    BY ExclusionsStay DEF Work
  <1>3. \A n \in Modules : memo[n] # "unknown" => memo'[n] # "unknown"
    <2>1. UNCHANGED memo \/ memo' = [memo EXCEPT ![Target(f)] = "some"]
          \/ memo' = [memo EXCEPT ![Target(f)] = "none"]
      BY DEF Walk, BeginRebind, Rebind, SkipCall, LookUp, Get, Resolve, Memoize, Found,
             LookInBases, Judge
    <2> QED
      BY <1>1, <2>1
  <1> SUFFICES ASSUME NEW g \in Files, pass = "judge", stage'[g] # "start",
                      Current(g)'.kind = "call", Current(g)'.name \in Eager
               PROVE  ByName(g)'
    BY <1>1 DEF LookedUpByName, ByName
  <1>4. CASE g # f
    <2>1. /\ stage'[g] = stage[g] /\ agenda'[g] = agenda[g] /\ tried'[g] = tried[g]
          /\ answer'[g] = answer[g] /\ op'[g] = op[g]
      BY <1>1, <1>4, WalkIsOwn
    <2>2. Current(g)' = Current(g)
      BY <1>1, <2>1 DEF Current
    <2>3. ByName(g)
      BY <2>1, <2>2 DEF JInv, LookedUpByName, ByName
    <2>4. Current(g).name \in Modules
      BY <2>2, EagerAssumption
    <2> QED
      BY <1>2, <1>3, <2>1, <2>2, <2>3, <2>4 DEF ByName
  <1>5. CASE g = f
    <2> DEFINE c == Current(f)
    <2>1. Current(f)' = Current(f) /\ UNCHANGED op
      BY <1>1, <1>5, WalkAdvances DEF Current
    <2>2. c.kind = "call" /\ c.name \in Eager /\ c.name \in Modules
      BY <1>5, <2>1, EagerAssumption
    <2>3. stage[f] # "start" => ByName(f)
      BY <2>2 DEF JInv, LookedUpByName, ByName
    <2> HIDE DEF c
    <2>4. CASE LookUp(f)
      <3>1. stage'[f] = "get" /\ agenda'[f] = <<Current(f).name>> /\ tried'[f] = {}
        BY <1>1, <2>4 DEF LookUp, Goto
      <3> QED
        BY <1>5, <2>1, <3>1 DEF ByName
    <2>5. CASE Get(f)
      <3>1. stage[f] = "get" /\ agenda[f] = <<Current(f).name>> /\ tried[f] = {}
        BY <2>3, <2>5 DEF Get, At, ByName
      <3>2. Target(f) = Current(f).name
        BY <3>1 DEF Target
      <3>3. UNCHANGED <<agenda, tried, memo, excluded>>
        BY <2>5, <3>1, <3>2 DEF Get, store
      <3>4. CASE memo[Target(f)] = "unknown"
        <4>1. Goto(f, "resolve")
          BY <2>5, <3>1, <3>2, <3>4 DEF Get
        <4>2. stage'[f] = "resolve"
          BY <1>1, <4>1 DEF Goto
        <4> QED
          BY <1>5, <2>1, <3>1, <3>3, <4>2 DEF ByName
      <3>5. CASE memo[Target(f)] # "unknown"
        <4>1. Goto(f, "found") /\ answer' = [answer EXCEPT ![f] = memo[Target(f)] = "some"]
          BY <2>5, <3>1, <3>2, <3>5 DEF Get
        <4>2. stage'[f] = "found"
          BY <1>1, <4>1 DEF Goto
        <4>3. answer'[f] = (memo[Target(f)] = "some")
          BY <1>1, <4>1
        <4>4. CASE memo[Target(f)] = "some"
          BY <1>5, <2>1, <3>1, <3>2, <3>3, <4>2, <4>3, <4>4 DEF ByName
        <4>5. CASE memo[Target(f)] = "none"
          <5>1. Current(f).name \in excluded
            BY <2>2, <3>2, <4>5 DEF JInv, FoundUnlessExcluded, c
          <5> QED
            BY <1>5, <2>1, <3>1, <3>2, <3>3, <3>5, <4>2, <5>1 DEF ByName
        <4>6. memo[Target(f)] \in {"some", "none"}
          BY <1>1, <2>2, <3>2, <3>5 DEF c
        <4> QED
          BY <4>4, <4>5, <4>6
      <3> QED
        BY <3>4, <3>5
    <2>6. CASE Resolve(f)
      <3>1. stage'[f] = "memo" /\ UNCHANGED <<agenda, tried>> /\ stage[f] # "start"
        BY <1>1, <2>6 DEF Resolve, Goto, At
      <3> QED
        BY <1>5, <2>1, <2>3, <3>1 DEF ByName
    <2>7. CASE Memoize(f)
      <3>1. /\ stage'[f] = "found" /\ UNCHANGED <<agenda, tried, answer, excluded>>
            /\ stage[f] = "memo"
        BY <1>1, <2>7 DEF Memoize, Goto, At, lookup, store
      <3>2. agenda[f] = <<Current(f).name>> /\ tried[f] = {} /\ Target(f) = Current(f).name
        BY <2>3, <3>1 DEF ByName, Target
      <3>3. memo'[Current(f).name] # "unknown"
        BY <1>1, <2>2, <2>7, <3>2 DEF Memoize, c
      <3>4. answer[f] \/ Current(f).name \in excluded
        BY <2>2, <3>1, <3>2 DEF JInv, FoundUnlessExcluded, c
      <3> QED
        BY <1>5, <2>1, <3>1, <3>2, <3>3, <3>4 DEF ByName
    <2>8. CASE Found(f)
      <3>1. stage[f] = "found" /\ UNCHANGED <<agenda, tried, answer, excluded, memo>>
        BY <2>8 DEF Found, At, lookup, store
      <3>2. /\ agenda[f] = <<Current(f).name>> /\ tried[f] = {} /\ Target(f) = Current(f).name
            /\ memo[Current(f).name] # "unknown"
            /\ answer[f] \/ Current(f).name \in excluded
        BY <2>3, <3>1 DEF ByName, Target
      <3>3. Goto(f, "judge")
        BY <2>2, <2>8, <3>2 DEF Found, Barred, c
      <3>4. stage'[f] = "judge"
        BY <1>1, <3>3 DEF Goto
      <3> QED
        BY <1>5, <2>1, <3>1, <3>2, <3>4 DEF ByName
    <2>9. CASE BeginRebind(f)
      BY <2>2, <2>9 DEF BeginRebind, c
    <2>10. CASE LookInBases(f)
      BY <2>3, <2>10 DEF LookInBases, At, ByName
    <2>11. CASE Rebind(f) \/ SkipCall(f) \/ Judge(f)
      <3>1. stage'[f] = "start"
        BY <1>1, <2>11 DEF Rebind, SkipCall, Judge, Advance, Goto
      <3> QED
        BY <1>5, <3>1
    <2> QED
      BY <2>4, <2>5, <2>6, <2>7, <2>8, <2>9, <2>10, <2>11 DEF Walk
  <1> QED
    BY <1>4, <1>5

\* The verdict on a call, by the exclusion of the name it calls.
ByExclusion(f, i) ==
    verdict[f][i] = IF program[f][i].name \in excluded THEN "silent" ELSE "reported"

LEMMA WalkKeepsVerdicts ==
    ASSUME JInv, NEW f \in Files, Walk(f)
    PROVE  JudgedByExclusion'
  <1>1. /\ TypeOK /\ UNCHANGED <<program, pass>>
        /\ stage \in [Files -> Stages] /\ DOMAIN verdict = Files
        /\ \A g \in Files : verdict[g] \in [DOMAIN program[g] -> Verdicts]
    BY WalkAdvances DEF JInv, IInv, TypeOK
  <1> SUFFICES ASSUME NEW g \in Files, NEW i \in Calls(g), program[g][i].name \in Eager,
                      pass = "done" \/ (pass = "judge" /\ i < op'[g])
               PROVE  ByExclusion(g, i)'
    BY <1>1 DEF JudgedByExclusion, ByExclusion, Calls
  <1>2. i \in DOMAIN program[g] /\ program[g][i].kind = "call"
    BY DEF Calls
  <1>3. program[g][i].name \in excluded' <=> program[g][i].name \in excluded
    <2>1. pass # "discover"
      OBVIOUS
    <2> QED
      BY <2>1, ExclusionsStay DEF Work
  <1>4. ASSUME pass = "done" \/ (pass = "judge" /\ i < op[g]) PROVE ByExclusion(g, i)
    BY <1>4 DEF JInv, JudgedByExclusion, ByExclusion
  <1>5. CASE Judge(f)
    <2>1. /\ pass = "judge" /\ ~Ended(f) /\ stage[f] # "start"
          /\ op' = [op EXCEPT ![f] = op[f] + 1]
          /\ stage[f] = "judge" \/ (stage[f] = "get" /\ agenda[f] = <<>>)
      BY <1>5 DEF Judge, At, Advance
    <2>2. op[f] \in DOMAIN program[f]
      BY <1>1, <2>1, CurrentIsAnOperation
    <2>3. PICK v : /\ verdict' = [verdict EXCEPT ![f][op[f]] = v]
                   /\ v = IF Callee(f) \in excluded THEN "silent"
                          ELSE IF memo[Callee(f)] = "some" THEN "reported" ELSE "deferred"
      BY <1>5 DEF Judge
    <2>4. /\ verdict'[f] = [verdict[f] EXCEPT ![op[f]] = v]
          /\ \A h \in Files : h # f => verdict'[h] = verdict[h] /\ op'[h] = op[h]
      BY <1>1, <2>1, <2>3 DEF TypeOK
    <2>5. UNCHANGED excluded
      BY <1>5 DEF Judge, store
    <2>6. CASE g # f
      <3>1. verdict'[g] = verdict[g] /\ i < op[g]
        BY <2>1, <2>4, <2>6
      <3> QED
        BY <1>1, <1>4, <2>1, <2>5, <3>1 DEF ByExclusion
    <2>7. CASE g = f /\ i # op[f]
      <3>1. i < op[f]
        BY <1>1, <1>2, <2>1, <2>7, DoneWith
      <3>2. verdict'[f][i] = verdict[f][i]
        BY <1>1, <1>2, <2>4, <2>7
      <3> QED
        BY <1>1, <1>4, <2>1, <2>5, <2>7, <3>1, <3>2 DEF ByExclusion
    <2>8. CASE g = f /\ i = op[f]
      <3>1. program[f][i] = Current(f) /\ Current(f).kind = "call" /\ Current(f).name \in Eager
        BY <1>2, <2>8 DEF Current
      <3>2. ByName(f)
        BY <2>1, <3>1 DEF JInv, LookedUpByName, ByName
      <3>3. stage[f] = "judge" /\ agenda[f] # <<>> /\ Target(f) = Current(f).name
        BY <2>1, <3>2 DEF ByName, Target
      <3>4. Callee(f) = Current(f).name
        BY <3>3 DEF Callee
      <3>5. memo[Current(f).name] \in {"some", "none"}
        <4>1. memo[Current(f).name] # "unknown" /\ Current(f).name \in Modules
          BY <3>1, <3>2, <3>3, EagerAssumption DEF ByName
        <4> QED
          BY <1>1, <4>1 DEF TypeOK
      <3>6. v = IF Current(f).name \in excluded THEN "silent" ELSE "reported"
        BY <2>3, <3>1, <3>4, <3>5 DEF JInv, FoundUnlessExcluded
      <3>7. verdict'[f][i] = v
        BY <1>1, <1>2, <2>4, <2>8
      <3> QED
        BY <1>1, <2>5, <2>8, <3>1, <3>6, <3>7 DEF ByExclusion
    <2> QED
      BY <2>6, <2>7, <2>8
  <1>6. CASE ~Judge(f)
    <2>1. UNCHANGED verdict
      BY <1>6 DEF Walk, BeginRebind, Rebind, SkipCall, LookUp, Get, Resolve, Memoize,
         Found, LookInBases
    <2>2. pass = "done" \/ (pass = "judge" /\ i < op[g])
      <3>1. CASE UNCHANGED op
        BY <3>1
      <3>2. CASE g = f /\ pass = "judge" /\ op' = [op EXCEPT ![f] = op[f] + 1]
                 /\ (Rebind(f) \/ SkipCall(f) \/ Found(f))
        <4>1. i < op[f] \/ (i = op[f] /\ program[f][i] = Current(f))
          BY <1>1, <1>2, <3>2, DoneWith
        <4>2. Current(f).kind # "call"
          <5>1. CASE Rebind(f)
            BY <5>1 DEF Rebind, At, JInv, RebindingHasRead
          <5>2. CASE SkipCall(f)
            BY <3>2, <5>2 DEF SkipCall
          <5>3. CASE Found(f)
            <6>1. op'[f] # op[f]
              BY <1>1, <3>2 DEF TypeOK
            <6> QED
              BY <5>3, <6>1 DEF Found
          <5> QED
            BY <3>2, <5>1, <5>2, <5>3
        <4> QED
          BY <1>2, <3>2, <4>1, <4>2
      <3>3. CASE g # f
        <4>1. op'[g] = op[g]
          BY <1>1, <3>3, WalkIsOwn
        <4> QED
          BY <4>1
      <3> QED
        BY <1>6, <3>1, <3>2, <3>3, WalkAdvances
    <2> QED
      BY <1>1, <1>3, <1>4, <2>1, <2>2 DEF ByExclusion
  <1> QED
    BY <1>5, <1>6

(***************************************************************************)
(* The invariant, and what follows from it                                 *)
(***************************************************************************)
\* A step that leaves the checked files' methods, and the walks, alone keeps the rest.
LEMMA StayKeepsJInv ==
    ASSUME JInv, IInv',
           UNCHANGED <<memo, program, pass, op, stage, agenda, tried, answer, subclasses,
                       verdict>>,
           \A n \in Eager : /\ n \in excluded' <=> n \in excluded
                            /\ n \in signatures' <=> n \in signatures
    PROVE  JInv'
  <1>1. ExclusionsAreDone'
    <2> SUFFICES ASSUME NEW n \in Eager
                 PROVE  /\ n \in signatures' <=> n \notin excluded'
                        /\ n \in excluded' =>
                              \E f \in Files : \E i \in DOMAIN program[f] :
                                 Takes(program[f][i], n)
                        /\ \A f \in Files : \A i \in DOMAIN program[f] :
                              Takes(program[f][i], n) /\ (pass # "discover" \/ i < op[f])
                              => n \in excluded'
      BY DEF ExclusionsAreDone, Takes
    <2> QED
      BY DEF JInv, ExclusionsAreDone
  <1>2. RebindingHasRead'
    BY DEF JInv, RebindingHasRead, Current, Derived, Closed
  <1>3. FoundUnlessExcluded'
    BY DEF JInv, FoundUnlessExcluded, Target
  <1>4. LookedUpByName'
    <2>1. \A f \in Files : Current(f)' = Current(f)
      BY DEF Current
    <2> QED
      BY <2>1 DEF JInv, LookedUpByName
  <1>5. JudgedByExclusion'
    BY DEF JInv, JudgedByExclusion, Calls
  <1> QED
    BY <1>1, <1>2, <1>3, <1>4, <1>5 DEF JInv

LEMMA InitJInv == ASSUME Init PROVE JInv
  <1>1. IInv
    BY InitIInv
  <1>2. /\ pass = "discover" /\ signatures = Eager /\ excluded = {}
        /\ \A f \in Files : op[f] = 1 /\ stage[f] = "start"
        /\ \A n \in Modules : memo[n] = "unknown"
    BY DEF Init
  <1>3. ExclusionsAreDone
    <2>1. ASSUME NEW f \in Files, NEW i \in DOMAIN program[f], i < op[f] PROVE FALSE
      <3>1. program[f] \in Seq(Op)
        BY <1>1, ProgramsAssumption DEF IInv, TypeOK
      <3>2. i \in Nat \ {0}
        BY <3>1
      <3> QED
        BY <1>2, <2>1, <3>2
    <2> QED
      BY <1>2, <2>1 DEF ExclusionsAreDone
  <1>4. RebindingHasRead /\ FoundUnlessExcluded /\ LookedUpByName /\ JudgedByExclusion
    BY <1>2, EagerAssumption
       DEF RebindingHasRead, FoundUnlessExcluded, LookedUpByName, JudgedByExclusion
  <1> QED
    BY <1>1, <1>3, <1>4 DEF JInv

LEMMA NextJInv == ASSUME JInv, [Next]_vars PROVE JInv'
  <1>1. IInv /\ IInv'
    BY NextIInv DEF JInv
  <1>2. ASSUME NEW f \in Files, Load(f) PROVE JInv'
    BY <1>1, <1>2, LoadKeepsEager, StayKeepsJInv
  <1>3. ASSUME NEW f \in Files, Walk(f) PROVE JInv'
    BY <1>1, <1>3, WalkKeepsExclusions, WalkKeepsRebindings, WalkKeepsFound,
       WalkKeepsLookups, WalkKeepsVerdicts DEF JInv
  <1>4. CASE BeginJudging
    <2>1. /\ UNCHANGED <<signatures, excluded, memo, program, stage, agenda, tried, answer,
                         subclasses, verdict>>
          /\ pass' = "judge" /\ \A f \in Files : op'[f] = 1
          /\ \A f \in Files : Ended(f) /\ stage[f] = "start"
      BY <1>4 DEF BeginJudging, Discovered, store, lookup
    <2>2. ASSUME NEW f \in Files, NEW i \in DOMAIN program[f] PROVE i < op[f] /\ ~(i < op'[f])
      <3>1. program[f] \in Seq(Op) /\ op[f] \in Nat
        BY <1>1, ProgramsAssumption DEF IInv, TypeOK
      <3>2. PICK n \in Nat : n = Len(program[f])
        BY <3>1
      <3>3. i \in 1 .. n /\ op[f] > n
        BY <2>1, <3>1, <3>2 DEF Ended
      <3> QED
        BY <2>1, <3>1, <3>3
    <2>3. ExclusionsAreDone'
      <3> SUFFICES ASSUME NEW n \in Eager
                   PROVE  /\ n \in signatures <=> n \notin excluded
                          /\ n \in excluded =>
                                \E f \in Files : \E i \in DOMAIN program[f] :
                                   Takes(program[f][i], n)
                          /\ \A f \in Files : \A i \in DOMAIN program[f] :
                                Takes(program[f][i], n) => n \in excluded
        BY <2>1 DEF ExclusionsAreDone, Takes
      <3> QED
        BY <2>2 DEF JInv, ExclusionsAreDone
    <2>4. RebindingHasRead' /\ LookedUpByName'
      BY <2>1 DEF RebindingHasRead, LookedUpByName
    <2>5. FoundUnlessExcluded'
      BY <2>1 DEF JInv, FoundUnlessExcluded, Target
    <2>6. JudgedByExclusion'
      BY <2>1, <2>2 DEF JudgedByExclusion, Calls
    <2> QED
      BY <1>1, <2>3, <2>4, <2>5, <2>6 DEF JInv
  <1>5. CASE End
    <2>1. /\ UNCHANGED <<signatures, excluded, memo, program, op, stage, agenda, tried, answer,
                         subclasses, verdict>>
          /\ pass = "judge" /\ pass' = "done" /\ \A f \in Files : Ended(f)
      BY <1>5 DEF End, store, lookup
    <2>2. ASSUME NEW f \in Files, NEW i \in DOMAIN program[f] PROVE i < op[f]
      <3>1. program[f] \in Seq(Op) /\ op[f] \in Nat
        BY <1>1, ProgramsAssumption DEF IInv, TypeOK
      <3>2. PICK n \in Nat : n = Len(program[f])
        BY <3>1
      <3>3. i \in 1 .. n /\ op[f] > n
        BY <2>1, <3>1, <3>2 DEF Ended
      <3> QED
        BY <3>1, <3>3
    <2>3. ExclusionsAreDone'
      <3> SUFFICES ASSUME NEW n \in Eager
                   PROVE  /\ n \in signatures <=> n \notin excluded
                          /\ n \in excluded =>
                                \E f \in Files : \E i \in DOMAIN program[f] :
                                   Takes(program[f][i], n)
                          /\ \A f \in Files : \A i \in DOMAIN program[f] :
                                Takes(program[f][i], n) => n \in excluded
        BY <2>1 DEF ExclusionsAreDone, Takes
      <3> QED
        BY <2>1 DEF JInv, ExclusionsAreDone
    <2>4. RebindingHasRead'
      BY <2>1 DEF JInv, RebindingHasRead, Current, Derived, Closed
    <2>5. FoundUnlessExcluded' /\ LookedUpByName'
      BY <2>1 DEF JInv, FoundUnlessExcluded, LookedUpByName, Target
    <2>6. JudgedByExclusion'
      BY <2>1, <2>2 DEF JInv, JudgedByExclusion, Calls
    <2> QED
      BY <1>1, <2>3, <2>4, <2>5, <2>6 DEF JInv
  <1>6. CASE UNCHANGED vars
    <2>1. UNCHANGED <<memo, program, pass, op, stage, agenda, tried, answer, subclasses,
                      verdict, excluded, signatures>>
      BY <1>6 DEF vars
    <2> QED
      BY <1>1, <2>1, StayKeepsJInv
  <1> QED
    BY <1>2, <1>3, <1>4, <1>5, <1>6 DEF Next, Work, Rest

\* The inductive invariant of the two passes: the exclusions of the checked files'
\* methods are those of the rebindings the workers are done with.
THEOREM PassesInvariance == Spec => []JInv
  <1>1. Init => JInv
    BY InitJInv
  <1>2. JInv /\ [Next]_vars => JInv'
    BY NextJInv
  <1> QED
    BY <1>1, <1>2, PTL DEF Spec

\* Whether a call of a checked file's method is let pass or reported does not depend on
\* how the workers interleave: for any number of files, and any of their programs, it is
\* let pass just when some file rebinds the method (discover_rebinding_exclusions).
THEOREM OrderDoesNotMatter == Spec => []JudgedAlike
  <1>1. ASSUME JInv PROVE JudgedAlike
    <2> SUFFICES ASSUME pass = "done", NEW f \in Files, NEW i \in Calls(f),
                        program[f][i].name \in Eager
                 PROVE  verdict[f][i] = IF Rebound(program[f][i].name)
                                        THEN "silent" ELSE "reported"
      BY DEF JudgedAlike
    <2> DEFINE n == program[f][i].name
    <2>1. verdict[f][i] = IF n \in excluded THEN "silent" ELSE "reported"
      BY <1>1 DEF JInv, JudgedByExclusion
    <2>2. n \in excluded <=>
             \E g \in Files : \E j \in DOMAIN program[g] : Takes(program[g][j], n)
      BY <1>1 DEF JInv, ExclusionsAreDone
    <2>3. ASSUME NEW g \in Files, NEW j \in DOMAIN program[g]
          PROVE  Takes(program[g][j], n) <=>
                    /\ program[g][j].kind = "rebind"
                    /\ n = program[g][j].name \/ n \in Heirs(program[g][j].name)
      <3>1. n \in Heirs(program[g][j].name) <=> n \in Derived(program[g][j].name, Eager)
        BY <1>1, HeirsOfEager DEF JInv
      <3> QED
        BY <3>1 DEF Takes
    <2> HIDE DEF n
    <2>4. n \in excluded <=> Rebound(n)
      BY <2>2, <2>3 DEF Rebound
    <2> QED
      BY <2>1, <2>4 DEF n
  <1> QED
    BY <1>1, PassesInvariance, PTL
=============================================================================
