-------------------------- MODULE DefinitionsProofs --------------------------
(***************************************************************************)
(* That the index keeps every definition a call may run, and never only    *)
(* definitions none can run, for bodies of any length and depth written    *)
(* without the approximations (Approximations = {}): the invariant IInv of *)
(* Definitions is inductive.                                               *)
(*                                                                         *)
(* A lemma named ...Effect says what an action or an operator does to the  *)
(* fields it changes.  Steps are then of three kinds: a statement that     *)
(* binds the name (Written), one that opens a suite (Opened), and the      *)
(* innermost statement going on or ending (Shifts).  For each kind there   *)
(* is one lemma per conjunct of IInv, and Around has what becomes of the   *)
(* blocks around the place where it happens.                               *)
(***************************************************************************)
EXTENDS Definitions, SequenceLemmas

(***************************************************************************)
(* What a step does to the blocks                                          *)
(***************************************************************************)
\* The fields of a block are those its kind of record has.
LEMMA BlockFields ==
  ASSUME NEW b \in Block
  PROVE  /\ b.kind \in {"branch", "try"} /\ b.tests \in Seq(SUBSET BOOLEAN)
         /\ b.walked \subseteq Nat /\ b.framed \in BOOLEAN /\ b.at \in Nat
         /\ b.waiting \subseteq Value /\ b.exits \subseteq Value /\ b.reached \subseteq Value
         /\ b.raises \in BOOLEAN /\ Len(b.tests) \in Nat
  <1>1. b.tests \in Seq(SUBSET BOOLEAN)
    BY DEF Block
  <1> QED
    BY <1>1 DEF Block

\* A block c is the block b, but for the values that reach a handler of it.
Same(b, c, values) ==
    /\ c.kind = b.kind /\ c.tests = b.tests /\ c.walked = b.walked /\ c.framed = b.framed
    /\ c.at = b.at /\ c.waiting = b.waiting /\ c.exits = b.exits /\ c.raises = b.raises
    /\ c.reached = IF b.kind = "try" /\ b.at = 1 THEN b.reached \cup values ELSE b.reached
\* The first n blocks are the same.
SameTo(n, values) == \A i \in 1 .. n : blocks'[i] \in Block /\ Same(blocks[i], blocks'[i], values)

\* What reaches the handlers is added to the bodies of try statements.
LEMMA ReachingEffect ==
  ASSUME blocks \in Seq(Block), NEW values \in SUBSET Value
  PROVE  /\ Reaching(values) \in Seq(Block) /\ Len(Reaching(values)) = Len(blocks)
         /\ \A i \in 1 .. Len(blocks) : Same(blocks[i], Reaching(values)[i], values)
  <1> DEFINE c(i) == IF blocks[i].kind = "try" /\ blocks[i].at = 1
                     THEN [blocks[i] EXCEPT !.reached = @ \cup values] ELSE blocks[i]
  <1>1. \A i \in 1 .. Len(blocks) : c(i) \in Block /\ Same(blocks[i], c(i), values)
    <2> TAKE i \in 1 .. Len(blocks)
    <2>1. blocks[i] \in Block
      OBVIOUS
    <2> QED
      BY <2>1 DEF Block, Same
  <1>2. Reaching(values) = [i \in 1 .. Len(blocks) |-> c(i)]
    BY DEF Reaching
  <1>5. \A i \in 1 .. Len(blocks) : Reaching(values)[i] = c(i)
    BY <1>2, Zenon
  <1> HIDE DEF c
  <1>3. Reaching(values) \in [1 .. Len(blocks) -> Block] /\ Len(blocks) \in Nat
    BY <1>1, <1>2
  <1>4. Reaching(values) \in Seq(Block) /\ Len(Reaching(values)) = Len(blocks)
    BY <1>3, FcnIsSeq, Zenon
  <1>6. \A i \in 1 .. Len(blocks) : Same(blocks[i], Reaching(values)[i], values)
    <2> TAKE i \in 1 .. Len(blocks)
    <2>1. Reaching(values)[i] = c(i) /\ Same(blocks[i], c(i), values)
      BY <1>1, <1>5
    <2> QED
      BY <2>1, Zenon
  <1> QED
    BY <1>4, <1>6

\* The end of a list without its last.
LEMMA FrontEffect ==
  ASSUME NEW T, NEW s \in Seq(T), s # <<>>
  PROVE  /\ Front(s) \in Seq(T) /\ Len(Front(s)) = Len(s) - 1 /\ Len(s) \in Nat \ {0}
         /\ \A i \in 1 .. Len(s) - 1 : Front(s)[i] = s[i]
  <1>1. PICK m \in Nat : m = Len(s) - 1 /\ Len(s) \in Nat \ {0}
    BY EmptySeq
  <1>2. \A i \in 1 .. m : s[i] \in T
    BY <1>1, ElementOfSeq
  <1>3. Front(s) = SubSeq(s, 1, m)
    BY <1>1, Zenon DEF Front
  <1>4. /\ SubSeq(s, 1, m) \in Seq(T)
        /\ Len(SubSeq(s, 1, m)) = IF 1 <= m THEN m - 1 + 1 ELSE 0
        /\ \A i \in 1 .. m - 1 + 1 : SubSeq(s, 1, m)[i] = s[1 + i - 1]
    BY <1>2, SubSeqProperties
  <1>5. /\ Front(s) \in Seq(T) /\ Len(Front(s)) = IF 1 <= m THEN m - 1 + 1 ELSE 0
        /\ \A i \in 1 .. m - 1 + 1 : Front(s)[i] = s[1 + i - 1]
    BY <1>3, <1>4, Zenon
  <1>6. Len(Front(s)) = m
    BY <1>5
  <1>7. ASSUME NEW i \in 1 .. m
        PROVE  Front(s)[i] = s[i]
    BY <1>5
  <1> QED
    BY <1>1, <1>5, <1>6, <1>7

\* A statement that opens no suite.
LEMMA StatementEffect ==
  ASSUME TypeOK, NEW new, NEW values \in SUBSET Value, Statement(new, values)
  PROVE  /\ size < MaxStatements /\ size' = size + 1 /\ index' = new /\ live' = values
         /\ blocks' \in Seq(Block) /\ Len(blocks') = Len(blocks) /\ SameTo(Len(blocks), values)
         /\ walker' = walker
  <1>1. blocks' = Reaching(values) /\ blocks \in Seq(Block)
    BY DEF Statement, TypeOK
  <1>2. /\ blocks' \in Seq(Block) /\ Len(blocks') = Len(blocks)
        /\ \A i \in 1 .. Len(blocks) : Same(blocks[i], blocks'[i], values)
    BY <1>1, ReachingEffect
  <1> QED
    BY <1>2 DEF Statement, SameTo

\* The innermost block is replaced.
LEMMA ReplacedEffect ==
  ASSUME blocks \in Seq(Block), blocks # <<>>, NEW b \in Block
  PROVE  /\ Replaced(b) \in Seq(Block) /\ Len(Replaced(b)) = Len(blocks)
         /\ Replaced(b)[Len(blocks)] = b
         /\ \A i \in 1 .. Len(blocks) - 1 : Replaced(b)[i] = blocks[i]
  <1>1. Len(blocks) \in Nat \ {0}
    BY EmptySeq
  <1>2. Len(blocks) \in 1 .. Len(blocks)
    BY <1>1
  <1> QED
    BY <1>1, <1>2, ExceptSeq DEF Replaced

\* A block that is not touched is the same.
LEMMA SameItself ==
  ASSUME NEW b \in Block
  PROVE  Same(b, b, {})
  BY DEF Same

\* A statement with suites is opened.
LEMMA OpenEffect ==
  ASSUME TypeOK, NEW block \in Block, NEW new \in Store, NEW entered \in SUBSET Value,
         Open(block, new, entered)
  PROVE  LET n == Len(blocks)
             c == blocks'[n + 1]
             runs == block.kind = "try" \/ TRUE \in block.tests[1]
         IN  /\ size < MaxStatements /\ size' = size + 1 /\ walker' = walker
             /\ \A v \in live : ~v.waiting
             /\ index' = IF Walked /\ block.framed THEN Push(new) ELSE new
             /\ live' = IF runs THEN entered ELSE {}
             /\ n \in Nat /\ blocks' \in Seq(Block) /\ Len(blocks') = n + 1
             /\ SameTo(n, live')
             /\ c \in Block /\ c.kind = block.kind /\ c.tests = block.tests /\ c.walked = block.walked
             /\ c.framed = (block.framed /\ Walked) /\ c.at = block.at /\ c.exits = block.exits
             /\ c.raises = block.raises /\ c.reached = block.reached
             /\ c.waiting = IF block.kind # "try" /\ FALSE \in block.tests[1] THEN live ELSE {}
  <1> DEFINE n == Len(blocks)
             runs == block.kind = "try" \/ TRUE \in block.tests[1]
             skipped == block.kind # "try" /\ FALSE \in block.tests[1]
             c == [block EXCEPT !.framed = @ /\ Walked, !.waiting = IF skipped THEN live ELSE {}]
  <1>1. live' = (IF runs THEN entered ELSE {}) /\ blocks' = Append(Reaching(live'), c)
    BY DEF Open
  <1>2. /\ c \in Block /\ c.kind = block.kind /\ c.tests = block.tests /\ c.walked = block.walked
        /\ c.framed = (block.framed /\ Walked) /\ c.at = block.at /\ c.exits = block.exits
        /\ c.raises = block.raises /\ c.reached = block.reached
        /\ c.waiting = IF skipped THEN live ELSE {}
    BY DEF Block, TypeOK
  <1>7. /\ size < MaxStatements /\ size' = size + 1 /\ walker' = walker
        /\ index' = IF Walked /\ block.framed THEN Push(new) ELSE new
        /\ \A v \in live : ~v.waiting
    BY DEF Open, Complete
  <1> HIDE DEF c, runs, skipped
  <1>8. blocks \in Seq(Block) /\ live \in SUBSET Value
    BY DEF TypeOK
  <1>3. live' \in SUBSET Value /\ blocks \in Seq(Block) /\ n \in Nat
    BY <1>1, <1>8, LenProperties
  <1>4. /\ Reaching(live') \in Seq(Block) /\ Len(Reaching(live')) = n
        /\ \A i \in 1 .. n : Same(blocks[i], Reaching(live')[i], live')
    BY <1>3, ReachingEffect
  <1>5. /\ blocks' \in Seq(Block) /\ Len(blocks') = n + 1 /\ blocks'[n + 1] = c
        /\ \A i \in 1 .. n : blocks'[i] = Reaching(live')[i]
    <2> DEFINE r == Reaching(live')
    <2>1. r \in Seq(Block) /\ Len(r) = n /\ c \in Block /\ blocks' = Append(r, c)
      BY <1>1, <1>2, <1>4
    <2> HIDE DEF r
    <2>2. /\ blocks' \in Seq(Block) /\ Len(blocks') = n + 1 /\ blocks'[n + 1] = c
          /\ \A i \in 1 .. n : blocks'[i] = r[i]
      BY <2>1, AppendProperties
    <2> QED
      BY <2>2 DEF r
  <1>6. SameTo(n, live')
    <2> SUFFICES ASSUME NEW i \in 1 .. n
                 PROVE  blocks'[i] \in Block /\ Same(blocks[i], blocks'[i], live')
      BY DEF SameTo
    <2>1. blocks'[i] = Reaching(live')[i] /\ i \in 1 .. Len(blocks')
      BY <1>3, <1>5
    <2>2. Same(blocks[i], blocks'[i], live')
      BY <1>4, <2>1, Zenon
    <2> QED
      BY <1>5, <2>1, <2>2, ElementOfSeq
  <1> QED
    BY <1>1, <1>2, <1>3, <1>5, <1>6, <1>7 DEF runs, skipped

\* The innermost block goes on to its next suite.
Moves(c) ==
    /\ blocks # <<>> /\ Len(blocks) \in Nat \ {0} /\ Len(blocks) \in DOMAIN blocks
    /\ blocks' \in Seq(Block) /\ Len(blocks') = Len(blocks)
    /\ SameTo(Len(blocks) - 1, {}) /\ blocks'[Len(blocks)] = c
    /\ UNCHANGED <<walker, size>>

\* A block replaced by one that is at another suite moves.
LEMMA MovesEffect ==
  ASSUME TypeOK, blocks # <<>>, NEW c \in Block, blocks' = Replaced(c), UNCHANGED <<walker, size>>
  PROVE  Moves(c)
  <1>1. blocks \in Seq(Block) /\ Len(blocks) \in Nat \ {0}
    BY EmptySeq DEF TypeOK
  <1>2. /\ blocks' \in Seq(Block) /\ Len(blocks') = Len(blocks) /\ blocks'[Len(blocks)] = c
        /\ \A i \in 1 .. Len(blocks) - 1 : blocks'[i] = blocks[i]
    BY <1>1, ReplacedEffect
  <1>3. ASSUME NEW i \in 1 .. Len(blocks) - 1
        PROVE  blocks'[i] \in Block /\ Same(blocks[i], blocks'[i], {})
    <2>1. blocks[i] \in Block /\ blocks'[i] = blocks[i]
      BY <1>1, <1>2, ElementOfSeq
    <2> QED
      BY <2>1, SameItself
  <1> QED
    BY <1>1, <1>2, <1>3 DEF Moves, SameTo

\* The innermost block is Top.
LEMMA TopIs ==
  ASSUME TypeOK, blocks # <<>>
  PROVE  /\ Top = blocks[Len(blocks)] /\ Top \in Block
         /\ Len(blocks) \in Nat \ {0} /\ Len(blocks) \in DOMAIN blocks
  <1>1. blocks \in Seq(Block) /\ Len(blocks) \in Nat \ {0}
    BY EmptySeq DEF TypeOK
  <1> QED
    BY <1>1, ElementOfSeq DEF Top, Last

\* The fields of a block that goes on.
Going(b, c, at) ==
    /\ b \in Block /\ c \in Block /\ c.kind = b.kind /\ c.tests = b.tests /\ c.walked = b.walked
    /\ c.framed = b.framed /\ c.raises = b.raises /\ c.reached = b.reached /\ c.at = at

\* A block that goes on to the suite at.
Goes(b, at, waiting, exits) == [b EXCEPT !.at = at, !.waiting = waiting, !.exits = exits]
\* The replacing block differs in these fields only.
LEMMA GoesEffect ==
  ASSUME NEW b \in Block, NEW at \in Nat, NEW waiting \in SUBSET Value, NEW exits \in SUBSET Value
  PROVE  LET c == Goes(b, at, waiting, exits)
         IN  Going(b, c, at) /\ c.waiting = waiting /\ c.exits = exits
  BY DEF Block, Going, Goes

\* The next clause of an if, match, loop or with statement.
LEMMA NextClauseEffect ==
  ASSUME TypeOK, NextClause
  PROVE  LET b == blocks[Len(blocks)]
             k == b.at + 1
         IN  /\ b.kind = "branch" /\ b.at < Len(b.tests)
             /\ live' = IF TRUE \in b.tests[k] THEN b.waiting ELSE {}
             /\ index' = IF b.framed /\ WalksAt(k) THEN Clear(index) ELSE index
             /\ \E c \in Block :
                   /\ Moves(c) /\ Going(b, c, k) /\ c.exits = b.exits \cup live
                   /\ c.waiting = IF FALSE \in b.tests[k] THEN b.waiting ELSE {}
  <1> DEFINE b == blocks[Len(blocks)]
             k == b.at + 1
             w == IF FALSE \in b.tests[k] THEN b.waiting ELSE {}
             c == Goes(b, k, w, b.exits \cup live)
  <1>1. blocks # <<>> /\ Top = b /\ b \in Block
    BY TopIs DEF NextClause
  <1>2. /\ b.kind = "branch" /\ b.at < Len(b.tests) /\ blocks' = Replaced(c)
        /\ live' = IF TRUE \in b.tests[k] THEN b.waiting ELSE {}
        /\ index' = IF b.framed /\ WalksAt(k) THEN Clear(index) ELSE index
        /\ UNCHANGED <<walker, size>>
    <2>1. c = [b EXCEPT !.at = k, !.exits = @ \cup live,
                        !.waiting = IF FALSE \in b.tests[k] THEN @ ELSE {}]
      BY <1>1 DEF Goes, Block
    <2> HIDE DEF c, w
    <2> QED
      BY <1>1, <2>1 DEF NextClause
  <1>3. Going(b, c, k) /\ c.exits = b.exits \cup live /\ c.waiting = w /\ c \in Block
    <2>1. b.at \in Nat /\ b.waiting \in SUBSET Value /\ b.exits \in SUBSET Value
          /\ live \in SUBSET Value
      BY <1>1, BlockFields DEF TypeOK
    <2>4. w \in SUBSET Value
      BY <2>1, Zenon
    <2> HIDE DEF w
    <2>2. k \in Nat /\ w \in SUBSET Value /\ b.exits \cup live \in SUBSET Value
      BY <2>1, <2>4
    <2> HIDE DEF k
    <2>3. Going(b, c, k) /\ c.exits = b.exits \cup live /\ c.waiting = w
      BY <1>1, <2>2, GoesEffect
    <2> QED
      BY <2>3 DEF Going
  <1> HIDE DEF c
  <1>4. Moves(c)
    BY <1>1, <1>2, <1>3, MovesEffect
  <1> QED
    BY <1>2, <1>3, <1>4

\* The innermost block is closed.
Closes == /\ blocks # <<>> /\ Len(blocks) \in Nat \ {0} /\ Len(blocks) \in DOMAIN blocks
          /\ blocks[Len(blocks)] \in Block
          /\ blocks' \in Seq(Block) /\ Len(blocks') = Len(blocks) - 1
          /\ SameTo(Len(blocks) - 1, live')
          /\ UNCHANGED <<walker, size>>

\* The innermost block is taken off.
LEMMA ClosesEffect ==
  ASSUME TypeOK, blocks # <<>>, live' \in SUBSET Value, blocks' = Front(Reaching(live')),
         UNCHANGED <<walker, size>>
  PROVE  Closes
  <1> DEFINE n == Len(blocks)
  <1>1. blocks \in Seq(Block) /\ n \in Nat \ {0} /\ n \in DOMAIN blocks /\ blocks[n] \in Block
    BY TopIs DEF TypeOK
  <1>2. /\ Reaching(live') \in Seq(Block) /\ Len(Reaching(live')) = n
        /\ \A i \in 1 .. n : Same(blocks[i], Reaching(live')[i], live')
    BY <1>1, ReachingEffect
  <1>3. Reaching(live') # <<>>
    BY <1>1, <1>2, EmptySeq
  <1>4. /\ blocks' \in Seq(Block) /\ Len(blocks') = n - 1
        /\ \A i \in 1 .. n - 1 : blocks'[i] = Reaching(live')[i]
    BY <1>2, <1>3, FrontEffect
  <1>5. ASSUME NEW i \in 1 .. n - 1
        PROVE  blocks'[i] \in Block /\ Same(blocks[i], blocks'[i], live')
    <2>1. blocks'[i] = Reaching(live')[i] /\ i \in 1 .. Len(blocks') /\ i \in 1 .. n
      BY <1>1, <1>4
    <2>2. Same(blocks[i], blocks'[i], live')
      BY <1>2, <2>1, Zenon
    <2> QED
      BY <1>4, <2>1, <2>2, ElementOfSeq
  <1> QED
    BY <1>1, <1>4, <1>5 DEF Closes, SameTo

\* The end of an if, match, loop or with statement takes its block off.
LEMMA EndBranchEffect ==
  ASSUME TypeOK, EndBranch
  PROVE  LET b == blocks[Len(blocks)]
         IN  /\ Closes /\ b.kind = "branch" /\ b.at = Len(b.tests)
             /\ live' = live \cup b.exits \cup b.waiting
             /\ index' = IF b.framed THEN Pop(index) ELSE index
  <1> DEFINE b == blocks[Len(blocks)]
  <1>1. blocks # <<>> /\ Top = b /\ b \in Block
    BY TopIs DEF EndBranch
  <1>2. /\ b.kind = "branch" /\ b.at = Len(b.tests) /\ live' = live \cup b.exits \cup b.waiting
        /\ index' = IF b.framed THEN Pop(index) ELSE index
        /\ blocks' = Front(Reaching(live')) /\ UNCHANGED <<walker, size>>
    BY <1>1 DEF EndBranch
  <1>3. live' \in SUBSET Value
    BY <1>1, <1>2, BlockFields DEF TypeOK
  <1> QED
    BY <1>1, <1>2, <1>3, ClosesEffect

\* The end of a finally suite takes the block of its statement off.
LEMMA EndTryEffect ==
  ASSUME TypeOK, EndTry
  PROVE  LET b == blocks[Len(blocks)]
         IN  /\ Closes /\ b.kind = "try" /\ b.at > ElseOf(b) /\ UNCHANGED <<index, live>>
  <1> DEFINE b == blocks[Len(blocks)]
  <1>1. blocks # <<>> /\ Top = b /\ b \in Block
    BY TopIs DEF EndTry
  <1>2. /\ b.kind = "try" /\ b.at > ElseOf(b) /\ UNCHANGED <<index, live>>
        /\ blocks' = Front(Reaching(live')) /\ UNCHANGED <<walker, size>>
    BY <1>1 DEF EndTry
  <1>3. live' \in SUBSET Value
    BY <1>2 DEF TypeOK
  <1> QED
    BY <1>1, <1>2, <1>3, ClosesEffect

\* The next handler, from the body or the one before.
LEMMA NextHandlerEffect ==
  ASSUME TypeOK, NextHandler
  PROVE  LET b == blocks[Len(blocks)]
             k == b.at + 1
         IN  /\ b.kind = "try" /\ k \in HandlersOf(b)
             /\ live' = IF b.raises THEN b.reached ELSE {}
             /\ index' = CASE ~Walked -> index
                           [] Walked /\ b.at = 1 -> Push(index)
                           [] Walked /\ b.at # 1 /\ ClearsHandlers -> Clear(index)
                           [] OTHER -> index
             /\ \E c \in Block :
                   /\ Moves(c) /\ Going(b, c, k)
                   /\ c.exits = IF b.at = 1 THEN b.exits ELSE b.exits \cup live
                   /\ c.waiting = IF b.at = 1 THEN live ELSE b.waiting
  <1> DEFINE b == blocks[Len(blocks)]
             k == b.at + 1
             w == IF b.at = 1 THEN live ELSE b.waiting
             x == IF b.at = 1 THEN b.exits ELSE b.exits \cup live
             c == Goes(b, k, w, x)
  <1>1. blocks # <<>> /\ Top = b /\ b \in Block
    BY TopIs DEF NextHandler
  <1>2. /\ b.kind = "try" /\ k \in HandlersOf(b) /\ blocks' = Replaced(c)
        /\ live' = IF b.raises THEN b.reached ELSE {}
        /\ UNCHANGED <<walker, size>>
    <2>1. c = IF b.at = 1 THEN [b EXCEPT !.at = 2, !.waiting = live]
                   ELSE [b EXCEPT !.at = @ + 1, !.exits = @ \cup live]
      <3>1. CASE b.at = 1
        <4>1. c = [b EXCEPT !.at = 2, !.waiting = live, !.exits = b.exits]
          BY <3>1 DEF Goes
        <4>2. [b EXCEPT !.at = 2, !.waiting = live, !.exits = b.exits] = [b EXCEPT !.at = 2, !.waiting = live]
          BY <1>1 DEF Block
        <4> QED
          BY <3>1, <4>1, <4>2
      <3>2. CASE b.at # 1
        <4>1. c = [b EXCEPT !.at = b.at + 1, !.waiting = b.waiting, !.exits = b.exits \cup live]
          BY <3>2 DEF Goes
        <4>2. [b EXCEPT !.at = b.at + 1, !.waiting = b.waiting, !.exits = b.exits \cup live]
                = [b EXCEPT !.at = b.at + 1, !.exits = b.exits \cup live]
          BY <1>1 DEF Block
        <4> QED
          BY <3>2, <4>1, <4>2
      <3> QED
        BY <3>1, <3>2
    <2> HIDE DEF c, w, x
    <2> QED
      BY <1>1, <2>1 DEF NextHandler
  <1>3. index' = CASE ~Walked -> index
                   [] b.at = 1 -> Push(index)
                   [] ClearsHandlers -> Clear(index)
                   [] OTHER -> index
    BY <1>1 DEF NextHandler
  <1>4. Going(b, c, k) /\ c.exits = x /\ c.waiting = w /\ c \in Block
    <2>1. b.at \in Nat /\ b.waiting \in SUBSET Value /\ b.exits \in SUBSET Value
          /\ live \in SUBSET Value
      BY <1>1, BlockFields DEF TypeOK
    <2>2. k \in Nat /\ w \in SUBSET Value /\ x \in SUBSET Value
      BY <2>1
    <2> HIDE DEF k, w, x
    <2>3. Going(b, c, k) /\ c.exits = x /\ c.waiting = w
      BY <1>1, <2>2, GoesEffect
    <2> QED
      BY <2>3 DEF Going
  <1> HIDE DEF c
  <1>5. Moves(c)
    BY <1>1, <1>2, <1>4, MovesEffect
  <1> QED
    BY <1>2, <1>3, <1>4, <1>5

\* The else suite, from the last handler.
LEMMA TryElseEffect ==
  ASSUME TypeOK, TryElse
  PROVE  LET b == blocks[Len(blocks)]
         IN  /\ b.kind = "try" /\ b.at + 1 = ElseOf(b) /\ live' = b.waiting /\ index' = index
             /\ \E c \in Block :
                   /\ Moves(c) /\ Going(b, c, ElseOf(b))
                   /\ c.exits = b.exits \cup live /\ c.waiting = b.waiting
  <1> DEFINE b == blocks[Len(blocks)]
             c == [b EXCEPT !.at = ElseOf(b), !.exits = @ \cup live]
  <1>1. blocks # <<>> /\ Top = b /\ b \in Block
    BY TopIs DEF TryElse
  <1>2. /\ b.kind = "try" /\ b.at + 1 = ElseOf(b) /\ blocks' = Replaced(c) /\ live' = b.waiting
        /\ index' = index /\ UNCHANGED <<walker, size>>
    BY <1>1 DEF TryElse
  <1>3. ElseOf(b) \in Nat
    BY <1>1, BlockFields DEF ElseOf
  <1>4. /\ c \in Block /\ Going(b, c, ElseOf(b)) /\ c.exits = b.exits \cup live
        /\ c.waiting = b.waiting
    BY <1>1, <1>3 DEF Block, TypeOK, Going
  <1> HIDE DEF c
  <1>5. Moves(c)
    BY <1>1, <1>2, <1>4, MovesEffect
  <1> QED
    BY <1>2, <1>4, <1>5

\* The finally suite, from the else suite.
LEMMA FinallyEffect ==
  ASSUME TypeOK, Finally
  PROVE  LET b == blocks[Len(blocks)]
         IN  /\ b.kind = "try" /\ b.at = ElseOf(b) /\ live' = live \cup b.exits
             /\ index' = IF Walked THEN Pop(index) ELSE index
             /\ \E c \in Block :
                   /\ Moves(c) /\ Going(b, c, ElseOf(b) + 1)
                   /\ c.exits = b.exits /\ c.waiting = b.waiting
  <1> DEFINE b == blocks[Len(blocks)]
             c == [b EXCEPT !.at = ElseOf(b) + 1]
  <1>1. blocks # <<>> /\ Top = b /\ b \in Block
    BY TopIs DEF Finally
  <1>2. /\ b.kind = "try" /\ b.at = ElseOf(b) /\ blocks' = Replaced(c)
        /\ live' = live \cup b.exits
        /\ index' = (IF Walked THEN Pop(index) ELSE index) /\ UNCHANGED <<walker, size>>
    BY <1>1 DEF Finally
  <1>3. ElseOf(b) \in Nat
    BY <1>1, BlockFields DEF ElseOf
  <1>4. c \in Block /\ Going(b, c, ElseOf(b) + 1) /\ c.exits = b.exits /\ c.waiting = b.waiting
    BY <1>1, <1>3 DEF Block, Going
  <1> HIDE DEF c
  <1>5. Moves(c)
    BY <1>1, <1>2, <1>4, MovesEffect
  <1> QED
    BY <1>2, <1>4, <1>5

(***************************************************************************)
(* Tests and patterns                                                      *)
(***************************************************************************)
\* A pair compared with a pair or with a triple that begin alike.
LEMMA BeforePairs ==
  ASSUME NEW a \in Nat, NEW b \in Nat, NEW d \in Int, NEW m \in Nat
  PROVE  /\ Before(<<a, b>>, <<a, d>>) <=> b < d
         /\ Before(<<a, d>>, <<a, b>>) <=> d < b
         /\ Before(<<a, b, m>>, <<a, d>>) <=> b < d
         /\ Before(<<a, d>>, <<a, b, m>>) <=> d <= b
  <1> DEFINE p == <<a, b>>
             q == <<a, d>>
             r == <<a, b, m>>
  <1>1. /\ DOMAIN p = 1 .. 2 /\ DOMAIN q = 1 .. 2 /\ DOMAIN r = 1 .. 3
        /\ p[1] = a /\ p[2] = b /\ q[1] = a /\ q[2] = d /\ r[1] = a /\ r[2] = b /\ r[3] = m
    OBVIOUS
  <1> HIDE DEF p, q, r
  <1>2. Before(p, q) <=> b < d
    BY <1>1 DEF Before
  <1>3. Before(q, p) <=> d < b
    BY <1>1 DEF Before
  <1>4. Before(r, q) <=> b < d
    BY <1>1 DEF Before
  <1>5. Before(q, r) <=> d <= b
    <2>1. ASSUME Before(q, r)
          PROVE  d <= b
      BY <1>1, <2>1 DEF Before
    <2>2. ASSUME d < b
          PROVE  Before(q, r)
      <3>1. \A j \in 1 .. 2 - 1 : j \in DOMAIN q /\ q[j] = r[j]
        BY <1>1
      <3>2. 2 \in DOMAIN r /\ (2 \in DOMAIN q => q[2] < r[2])
        BY <1>1, <2>2
      <3> QED
        BY <3>1, <3>2 DEF Before
    <2>3. ASSUME d = b
          PROVE  Before(q, r)
      <3>1. \A j \in 1 .. 3 - 1 : j \in DOMAIN q /\ q[j] = r[j]
        BY <1>1, <2>3
      <3>2. 3 \in DOMAIN r /\ (3 \in DOMAIN q => q[3] < r[3])
        BY <1>1
      <3> QED
        BY <3>1, <3>2 DEF Before
    <2> QED
      BY <2>1, <2>2, <2>3
  <1> QED
    BY <1>2, <1>3, <1>4, <1>5 DEF p, q, r

\* What has one element more is what Append gives.
LEMMA AppendIs ==
  ASSUME NEW T, NEW s \in Seq(T), NEW e \in T, NEW r \in Seq(T), Len(r) = Len(s) + 1,
         r[Len(s) + 1] = e, \A i \in 1 .. Len(s) : r[i] = s[i]
  PROVE  r = Append(s, e)
  <1>1. /\ Append(s, e) \in Seq(T) /\ Len(Append(s, e)) = Len(s) + 1
        /\ Append(s, e)[Len(s) + 1] = e /\ \A i \in 1 .. Len(s) : Append(s, e)[i] = s[i]
    BY AppendProperties
  <1>2. \A i \in 1 .. Len(r) : r[i] = Append(s, e)[i]
    BY <1>1
  <1> QED
    BY <1>1, <1>2, SeqEqual

\* Pairs and triples as sequences.
LEMMA PairsAreSequences ==
  ASSUME NEW a \in Int, NEW b \in Int, NEW m \in Int
  PROVE  SubSeq(<<a, b>>, 1, 2) = <<a, b>> /\ Append(<<a, b>>, m) = <<a, b, m>>
  <1>1. PICK p : p = <<a, b>>
    OBVIOUS
  <1>2. PICK r : r = <<a, b, m>>
    OBVIOUS
  <1>3. /\ p \in Seq(Int) /\ Len(p) = 2 /\ p[1] = a /\ p[2] = b
        /\ r \in Seq(Int) /\ Len(r) = 3 /\ r[1] = a /\ r[2] = b /\ r[3] = m
    BY <1>1, <1>2
  <1>4. /\ SubSeq(p, 1, 2) \in Seq(Int) /\ Len(SubSeq(p, 1, 2)) = 2
        /\ \A i \in 1 .. 2 : SubSeq(p, 1, 2)[i] = p[i]
    <2>1. PICK n \in Nat : n = 2
      OBVIOUS
    <2>2. \A i \in 1 .. n : p[i] \in Int
      BY <1>3, <2>1
    <2>3. /\ SubSeq(p, 1, n) \in Seq(Int)
          /\ Len(SubSeq(p, 1, n)) = IF 1 <= n THEN n - 1 + 1 ELSE 0
          /\ \A i \in 1 .. n - 1 + 1 : SubSeq(p, 1, n)[i] = p[1 + i - 1]
      BY <2>2, SubSeqProperties
    <2>4. PICK f : f = SubSeq(p, 1, n)
      OBVIOUS
    <2>5. /\ f \in Seq(Int) /\ Len(f) = IF 1 <= n THEN n - 1 + 1 ELSE 0
          /\ \A i \in 1 .. n - 1 + 1 : f[i] = p[1 + i - 1]
      BY <2>3, <2>4, Zenon
    <2>6. f \in Seq(Int) /\ Len(f) = 2 /\ \A i \in 1 .. 2 : f[i] = p[i]
      BY <2>1, <2>5
    <2>7. f = SubSeq(p, 1, 2)
      BY <2>1, <2>4, Zenon
    <2> QED
      BY <2>6, <2>7, Zenon
  <1>5. SubSeq(p, 1, 2) = p
    BY <1>3, <1>4, SeqEqual
  <1>6. Len(r) = Len(p) + 1 /\ r[Len(p) + 1] = m /\ \A i \in 1 .. Len(p) : r[i] = p[i]
    BY <1>3
  <1>8. r = Append(p, m)
    BY <1>3, <1>6, AppendIs
  <1> QED
    BY <1>1, <1>2, <1>5, <1>8, Zenon

\* A comparison of versions that is written comes out as the index decides it.
LEMMA VersionsDecided ==
  ASSUME Approximations = {}, NEW t \in VersionTests
  PROVE  VersionTruths(t) = {VersionInfoCondition(t)} /\ VersionInfoCondition(t) \in BOOLEAN
  <1>1. PICK a \in Nat, b \in Nat : Target = <<a, b>>
    BY DefinitionsAssumption
  <1>2. PICK d \in Int : /\ t.bound = <<a, d>> /\ t.op \in Comparisons
                         /\ b = d => t.op \in {"<", ">="}
    <2>1. Target[1] = a /\ Target[2] = b /\ b - 1 \in Int /\ b + 1 \in Int /\ b \in Int
      BY <1>1
    <2>2. CASE t \in [op : Comparisons, bound : {<<a, b - 1>>, <<a, b + 1>>}]
      <3>1. t.op \in Comparisons /\ \E d \in {b - 1, b + 1} : t.bound = <<a, d>>
        BY <2>2
      <3> QED
        BY <2>1, <3>1
    <2>3. CASE t \in [op : {"<", ">="}, bound : {<<a, b>>}]
      <3>1. t.op \in {"<", ">="} /\ t.bound = <<a, b>>
        BY <2>3
      <3> QED
        BY <2>1, <3>1 DEF Comparisons
    <2> QED
      BY <1>1, <2>1, <2>2, <2>3 DEF VersionTests
  <1> DEFINE decided ==
          \/ t.op \in {"<", "<="} /\ b < d
          \/ t.op \in {">", ">="} /\ d < b
          \/ t.op = ">=" /\ b = d
          \/ t.op = "!="
  <1>3. SubSeq(t.bound, 1, 2) = <<a, d>>
    <2>1. a \in Int /\ 0 \in Int
      OBVIOUS
    <2>2. SubSeq(<<a, d>>, 1, 2) = <<a, d>>
      BY <2>1, PairsAreSequences, Zenon
    <2> QED
      BY <1>2, <2>2, Zenon
  <1>4. \A m \in 0 .. 2 : Append(Target, m) = <<a, b, m>>
    BY <1>1, PairsAreSequences
  <1>5. VersionInfoCondition(t) <=> decided
    <2>1. VersionInfoCondition(t) <=> Compares(t.op, <<a, b>>, <<a, d>>)
      BY <1>1, <1>3 DEF VersionInfoCondition
    <2>2. (<<a, b>> = <<a, d>>) <=> b = d
      OBVIOUS
    <2>3. (Before(<<a, b>>, <<a, d>>) <=> b < d) /\ (Before(<<a, d>>, <<a, b>>) <=> d < b)
      BY BeforePairs
    <2>4. Compares(t.op, <<a, b>>, <<a, d>>) <=>
            \/ t.op \in {"<", "<="} /\ Before(<<a, b>>, <<a, d>>)
            \/ t.op \in {">", ">="} /\ Before(<<a, d>>, <<a, b>>)
            \/ t.op \in {"<=", ">=", "=="} /\ <<a, b>> = <<a, d>>
            \/ t.op = "!=" /\ <<a, b>> # <<a, d>>
      BY Zenon DEF Compares
    <2> QED
      BY <1>1, <1>2, <2>1, <2>2, <2>3, <2>4
  <1>6. ASSUME NEW m \in 0 .. 2
        PROVE  Compares(t.op, Append(Target, m), t.bound) <=>
                   decided
    <2>1. Append(Target, m) = <<a, b, m>> /\ t.bound = <<a, d>> /\ m \in Nat
      BY <1>2, <1>4
    <2>2. <<a, b, m>> # <<a, d>>
      OBVIOUS
    <2>3. (Before(<<a, b, m>>, <<a, d>>) <=> b < d) /\ (Before(<<a, d>>, <<a, b, m>>) <=> d <= b)
      BY <2>1, BeforePairs
    <2>4. Compares(t.op, <<a, b, m>>, <<a, d>>) <=>
            \/ t.op \in {"<", "<="} /\ Before(<<a, b, m>>, <<a, d>>)
            \/ t.op \in {">", ">="} /\ Before(<<a, d>>, <<a, b, m>>)
            \/ t.op \in {"<=", ">=", "=="} /\ <<a, b, m>> = <<a, d>>
            \/ t.op = "!=" /\ <<a, b, m>> # <<a, d>>
      BY Zenon DEF Compares
    <2>5. Compares(t.op, Append(Target, m), t.bound) <=> Compares(t.op, <<a, b, m>>, <<a, d>>)
      BY <2>1, Zenon
    <2> QED
      BY <1>1, <1>2, <2>2, <2>3, <2>4, <2>5
  <1>7. /\ VersionInfoCondition(t) \in BOOLEAN
        /\ \A m \in 0 .. 2 : Compares(t.op, Append(Target, m), t.bound) \in BOOLEAN
    BY DEF VersionInfoCondition, Compares
  <1>8. \A m \in 0 .. 2 : Compares(t.op, Append(Target, m), t.bound) = VersionInfoCondition(t)
    BY <1>5, <1>6, <1>7
  <1>9. 0 \in 0 .. 2
    OBVIOUS
  <1> QED
    BY <1>7, <1>8, <1>9, Zenon DEF VersionTruths

\* A test the index decides comes out that way.
Decided(test) == /\ test.definite \in {{TRUE}, {FALSE}, {TRUE, FALSE}}
                 /\ test.outcomes \in SUBSET BOOLEAN /\ test.outcomes # {}
                 /\ test.definite = {TRUE} => test.outcomes = {TRUE}
                 /\ test.definite = {FALSE} => test.outcomes = {FALSE}
\* Outside the approximations every test is so.
LEMMA TestsDecided ==
  ASSUME Approximations = {}
  PROVE  Decided(Else) /\ \A test \in DefiniteIfTest : Decided(test)
  <1>1. Decided(Else)
    BY DEF Decided, Else, Test
  <1>2. ASSUME NEW b \in BOOLEAN
        PROVE  Decided(Test({b}, {b}))
    BY DEF Decided, Test
  <1>3. Decided(Undecided)
    BY DEF Decided, Undecided, Test
  <1>4. ASSUME NEW t \in VersionTests
        PROVE  Decided(Test({VersionInfoCondition(t)}, VersionTruths(t)))
    BY <1>2, VersionsDecided
  <1> QED
    BY <1>1, <1>2, <1>3, <1>4 DEF DefiniteIfTest

(***************************************************************************)
(* Statements with suites                                                  *)
(***************************************************************************)
\* What a suite opened is of, before any of it runs.
Opens(b) ==
    /\ b \in Block /\ b.at = 1 /\ b.exits = {} /\ b.waiting = {}
    /\ b.tests # <<>> /\ \A k \in DOMAIN b.tests : b.tests[k] # {}
    /\ b.kind = "try" => b.walked = 1 .. Len(b.tests) + 3 /\ ~b.framed /\ b.reached = live
    /\ b.kind = "branch" =>
         /\ ~b.raises /\ b.reached = {}
         /\ \A k \in DOMAIN b.tests : k \notin b.walked => Untakeable(b, k)
         /\ b.framed => \A j \in b.walked, k \in DOMAIN b.tests : j < k => k \in b.walked
         /\ ~b.framed => \A k \in b.walked \cap DOMAIN b.tests : Taken(b, k)

\* A branch whose walked suites are those that may be taken.
LEMMA BranchOpens ==
  ASSUME NEW tests \in Seq(SUBSET BOOLEAN), tests # <<>>, \A k \in DOMAIN tests : tests[k] # {},
         NEW walked \in SUBSET Nat, NEW framed \in BOOLEAN,
         \A k \in DOMAIN tests : k \notin walked =>
             TRUE \notin tests[k] \/ \E j \in 1 .. k - 1 : FALSE \notin tests[j],
         framed => \A j \in walked, k \in DOMAIN tests : j < k => k \in walked,
         ~framed => \A k \in walked \cap DOMAIN tests :
             FALSE \notin tests[k] /\ \A j \in 1 .. k - 1 : TRUE \notin tests[j]
  PROVE  Opens(Branch(tests, walked, framed))
  <1> DEFINE b == Branch(tests, walked, framed)
  <1>1. /\ b \in Block /\ b.at = 1 /\ b.exits = {} /\ b.waiting = {} /\ b.kind = "branch"
        /\ b.tests = tests /\ b.walked = walked /\ b.framed = framed
        /\ ~b.raises /\ b.reached = {}
    BY DEF Branch, Block
  <1> HIDE DEF b
  <1>2. b.kind # "try"
    BY <1>1
  <1>3. \A k \in DOMAIN b.tests : k \notin b.walked => Untakeable(b, k)
    BY <1>1 DEF Untakeable
  <1>4. /\ b.tests # <<>> /\ \A k \in DOMAIN b.tests : b.tests[k] # {}
        /\ b.framed => \A j \in b.walked, k \in DOMAIN b.tests : j < k => k \in b.walked
        /\ ~b.framed => \A k \in b.walked \cap DOMAIN b.tests :
                FALSE \notin b.tests[k] /\ \A j \in 1 .. k - 1 : TRUE \notin b.tests[j]
    BY <1>1
  <1>5. Opens(b)
    BY <1>1, <1>2, <1>3, <1>4, Zenon DEF Opens, Taken
  <1> QED
    BY <1>5 DEF b

\* The tests an if statement may have.
DecidedTests == {t \in [definite : SUBSET BOOLEAN, outcomes : SUBSET BOOLEAN] : Decided(t)}

\* The suites walked of an if statement.
LEMMA IfOpens ==
  ASSUME NEW clauses \in Seq(DecidedTests), clauses # <<>>
  PROVE  Opens(IfBlock(clauses))
  <1>1. PICK n \in Nat \ {0} : n = Len(clauses) /\ DOMAIN clauses = 1 .. n
    BY EmptySeq, LenProperties
  <1> DEFINE open == {k \in DOMAIN clauses : clauses[k].definite # {FALSE}}
             outcomes == [k \in DOMAIN clauses |-> clauses[k].outcomes]
             first == CHOOSE k \in open : \A j \in open : k <= j
  <1>2. \A k \in 1 .. n : clauses[k] \in DecidedTests /\ Decided(clauses[k])
    BY <1>1, ElementOfSeq DEF DecidedTests
  <1>3. /\ outcomes \in [1 .. n -> SUBSET BOOLEAN]
        /\ \A k \in 1 .. n : outcomes[k] = clauses[k].outcomes /\ outcomes[k] # {}
    BY <1>1, <1>2 DEF DecidedTests, Decided
  <1>4. outcomes \in Seq(SUBSET BOOLEAN) /\ Len(outcomes) = n /\ DOMAIN outcomes = 1 .. n
    BY <1>1, <1>3, FcnIsSeq
  <1>5. IfBlock(clauses) = IF open = {} THEN Branch(outcomes, {}, FALSE)
                           ELSE IF clauses[first].definite = {TRUE} THEN Branch(outcomes, {first}, FALSE)
                           ELSE Branch(outcomes, first .. n, TRUE)
    BY <1>1 DEF IfBlock
  <1>6. \A k \in 1 .. n : k \notin open => TRUE \notin outcomes[k]
    BY <1>1, <1>2, <1>3 DEF Decided
  <1>7. open # {} => first \in open /\ first \in 1 .. n /\ \A j \in open : first <= j
    <2> SUFFICES ASSUME open # {}
                 PROVE  first \in open /\ first \in 1 .. n /\ \A j \in open : first <= j
      OBVIOUS
    <2>1. open \subseteq 1 .. n /\ open \in SUBSET Nat
      <3>1. open \subseteq 1 .. n
        BY <1>1, Zenon
      <3>2. 1 .. n \in SUBSET Nat
        OBVIOUS
      <3> HIDE DEF open
      <3> QED
        BY <3>1, <3>2
    <2> HIDE DEF open
    <2>2. \E k \in open : \A j \in open : k <= j
      BY <2>1, LeastNat
    <2> QED
      BY <2>1, <2>2
  <1>8. outcomes # <<>>
    BY <1>1, <1>4, EmptySeq
  <1>9. open # {} /\ clauses[first].definite = {TRUE} => FALSE \notin outcomes[first]
    BY <1>2, <1>3, <1>7 DEF Decided
  <1> HIDE DEF open, outcomes, first
  <1>10. CASE open = {}
    <2>1. \A k \in DOMAIN outcomes : TRUE \notin outcomes[k]
      BY <1>4, <1>6, <1>10
    <2>2. Opens(Branch(outcomes, {}, FALSE))
      BY <1>3, <1>4, <1>8, <2>1, BranchOpens
    <2> QED
      BY <1>5, <1>10, <2>2
  <1>11. CASE open # {} /\ clauses[first].definite = {TRUE}
    <2>5. \A k \in 1 .. n : k < first => k \notin open
      BY <1>7, <1>11
    <2>1. \A k \in 1 .. n : k < first => TRUE \notin outcomes[k]
      BY <1>6, <2>5, Zenon
    <2>2. /\ {first} \in SUBSET Nat
          /\ \A k \in DOMAIN outcomes : k \notin {first} =>
                TRUE \notin outcomes[k] \/ \E j \in 1 .. k - 1 : FALSE \notin outcomes[j]
      <3>1. first \in 1 .. n /\ FALSE \notin outcomes[first]
        BY <1>7, <1>9, <1>11, Zenon
      <3>2. ASSUME NEW k \in 1 .. n, k \notin {first}
            PROVE  k < first \/ first \in 1 .. k - 1
        BY <3>1, <3>2
      <3>3. {first} \in SUBSET Nat
        BY <3>1
      <3> QED
        BY <1>4, <2>1, <3>1, <3>2, <3>3, Zenon
    <2>3. \A k \in {first} \cap DOMAIN outcomes :
             FALSE \notin outcomes[k] /\ \A j \in 1 .. k - 1 : TRUE \notin outcomes[j]
      <3>1. first \in 1 .. n /\ FALSE \notin outcomes[first]
        BY <1>7, <1>9, <1>11, Zenon
      <3>2. \A j \in 1 .. first - 1 : j \in 1 .. n /\ j < first
        BY <3>1
      <3> QED
        BY <2>1, <3>1, <3>2, Zenon
    <2>4. Opens(Branch(outcomes, {first}, FALSE))
      BY <1>3, <1>4, <1>8, <2>2, <2>3, BranchOpens
    <2> QED
      BY <1>5, <1>11, <2>4
  <1>12. CASE open # {} /\ clauses[first].definite # {TRUE}
    <2>5. \A k \in 1 .. n : k < first => k \notin open
      BY <1>7, <1>12
    <2>1. \A k \in 1 .. n : k < first => TRUE \notin outcomes[k]
      BY <1>6, <2>5, Zenon
    <2>2. /\ first .. n \in SUBSET Nat
          /\ \A k \in DOMAIN outcomes : k \notin first .. n => TRUE \notin outcomes[k]
          /\ \A j \in first .. n, k \in DOMAIN outcomes : j < k => k \in first .. n
      <3>1. first \in 1 .. n
        BY <1>7, <1>12, Zenon
      <3>2. /\ first .. n \in SUBSET Nat
            /\ \A k \in 1 .. n : k \notin first .. n => k < first
            /\ \A j \in first .. n, k \in 1 .. n : j < k => k \in first .. n
        BY <3>1
      <3> QED
        BY <1>4, <2>1, <3>2, Zenon
    <2>3. Opens(Branch(outcomes, first .. n, TRUE))
      BY <1>3, <1>4, <1>8, <2>2, BranchOpens
    <2> QED
      BY <1>5, <1>12, <2>3
  <1> QED
    BY <1>10, <1>11, <1>12

\* How a pattern comes out: with a literal and no guard, as the index takes it.
LEMMA PatternsDecided ==
  ASSUME Approximations = {}, NEW literal \in BOOLEAN, NEW case \in Cases
  PROVE  LET o == PatternOutcomes(literal, case)
         IN  /\ o \in SUBSET BOOLEAN /\ o # {}
             /\ literal /\ ~case.guard /\ case.pattern \in {"same", "any"} => FALSE \notin o
             /\ literal /\ ~case.guard /\ case.pattern \notin {"same", "any"} => TRUE \notin o
  <1>1. case.pattern \in {"same", "different", "any"} /\ case.guard \in BOOLEAN
    BY DEF Cases
  <1>2. CASE case.pattern = "any"
    BY <1>1, <1>2 DEF PatternOutcomes
  <1>3. CASE case.pattern = "same"
    BY <1>1, <1>3 DEF PatternOutcomes
  <1>4. CASE case.pattern = "different"
    BY <1>1, <1>4 DEF PatternOutcomes
  <1> QED
    BY <1>1, <1>2, <1>3, <1>4

\* The suites walked of a match statement.
LEMMA MatchOpens ==
  ASSUME Approximations = {}, NEW literal \in BOOLEAN, NEW n \in Nat \ {0},
         NEW cases \in [1 .. n -> Cases]
  PROVE  Opens(MatchBlock(literal, cases))
  <1> DEFINE outcomes == [k \in DOMAIN cases |-> PatternOutcomes(literal, cases[k])]
             definite == DefiniteMatchCase(literal, cases)
  <1>1. \A k \in 1 .. n : cases[k] \in Cases
    OBVIOUS
  <1>2. /\ outcomes \in [1 .. n -> SUBSET BOOLEAN]
        /\ \A k \in 1 .. n : outcomes[k] = PatternOutcomes(literal, cases[k]) /\ outcomes[k] # {}
    BY <1>1, PatternsDecided
  <1>3. outcomes \in Seq(SUBSET BOOLEAN) /\ Len(outcomes) = n /\ DOMAIN outcomes = 1 .. n
    BY <1>2, FcnIsSeq
  <1>4. outcomes # <<>>
    BY <1>3, EmptySeq
  <1>5. MatchBlock(literal, cases) = IF definite # {} THEN Branch(outcomes, definite, FALSE)
                                     ELSE Branch(outcomes, 1 .. n, TRUE)
    BY DEF MatchBlock
  <1>6. definite \subseteq 1 .. n
    BY DEF DefiniteMatchCase
  <1>7. ASSUME NEW d \in definite
        PROVE  /\ FALSE \notin outcomes[d]
               /\ \A j \in 1 .. n : j < d => TRUE \notin outcomes[j]
    <2>1. /\ d \in 1 .. n /\ literal /\ cases[d].pattern \in {"same", "any"}
          /\ \A j \in 1 .. d : ~cases[j].guard
          /\ \A j \in 1 .. d - 1 : cases[j].pattern \notin {"same", "any"}
      BY DEF DefiniteMatchCase
    <2>2. d \in 1 .. d /\ \A j \in 1 .. n : j < d => j \in 1 .. d /\ j \in 1 .. d - 1
      BY <2>1
    <2> HIDE DEF outcomes, definite
    <2>3. outcomes[d] = PatternOutcomes(literal, cases[d]) /\ ~cases[d].guard /\ cases[d] \in Cases
      BY <1>1, <1>2, <2>1, <2>2, Zenon
    <2>4. FALSE \notin PatternOutcomes(literal, cases[d])
      BY <2>1, <2>3, PatternsDecided
    <2>5. ASSUME NEW j \in 1 .. n, j < d
          PROVE  TRUE \notin outcomes[j]
      <3>1. /\ outcomes[j] = PatternOutcomes(literal, cases[j]) /\ ~cases[j].guard
            /\ cases[j] \in Cases /\ cases[j].pattern \notin {"same", "any"}
        BY <1>1, <1>2, <2>1, <2>2, <2>5, Zenon
      <3>2. TRUE \notin PatternOutcomes(literal, cases[j])
        BY <2>1, <3>1, PatternsDecided
      <3> QED
        BY <3>1, <3>2, Zenon
    <2> QED
      BY <2>3, <2>4, <2>5, Zenon
  <1>8. 1 .. n \in SUBSET Nat
    OBVIOUS
  <1>12. definite \in SUBSET Nat
    BY <1>6, <1>8, Zenon
  <1> HIDE DEF outcomes, definite
  <1>9. CASE definite # {}
    <2>1. PICK d \in definite : TRUE
      BY <1>9
    <2>2. ASSUME NEW k \in 1 .. n, k \notin definite
          PROVE  TRUE \notin outcomes[k] \/ \E j \in 1 .. k - 1 : FALSE \notin outcomes[j]
      <3>1. k < d \/ d \in 1 .. k - 1
        BY <1>6, <2>1, <2>2
      <3> QED
        BY <1>7, <2>1, <3>1, Zenon
    <2>3. ASSUME NEW k \in definite \cap DOMAIN outcomes
          PROVE  FALSE \notin outcomes[k] /\ \A j \in 1 .. k - 1 : TRUE \notin outcomes[j]
      <3>1. k \in definite /\ k \in 1 .. n
        BY <1>6, <2>3
      <3>2. \A j \in 1 .. k - 1 : j \in 1 .. n /\ j < k
        BY <3>1
      <3> QED
        BY <1>7, <3>1, <3>2, Zenon
    <2>4. Opens(Branch(outcomes, definite, FALSE))
      BY <1>2, <1>3, <1>4, <1>12, <2>2, <2>3, BranchOpens
    <2> QED
      BY <1>5, <1>9, <2>4
  <1>10. CASE definite = {}
    <2>1. Opens(Branch(outcomes, 1 .. n, TRUE))
      BY <1>2, <1>3, <1>4, <1>8, BranchOpens
    <2> QED
      BY <1>5, <1>10, <2>1
  <1> QED
    BY <1>9, <1>10

\* A list of one.
LEMMA SingleSeq ==
  ASSUME NEW T, NEW o \in T
  PROVE  <<o>> \in Seq(T) /\ Len(<<o>>) = 1 /\ <<o>>[1] = o /\ <<o>> # <<>>
  OBVIOUS

\* A loop or a with statement.
LEMMA LoopOpens ==
  ASSUME Approximations = {}, NEW outcomes \in LoopOutcomes
  PROVE  Opens(LoopBlock(outcomes)) /\ LoopBlock(outcomes).kind = "branch"
         /\ LoopBlock(outcomes).tests[1] = outcomes /\ Opens(WithBlock) /\ WithBlock.kind = "branch"
  <1> DEFINE c == Conditional(index)
  <1>1. c \in BOOLEAN
    BY DEF Conditional
  <1>2. outcomes \in {{TRUE}, {FALSE}, BOOLEAN} /\ (~c => outcomes \in {{TRUE}, {FALSE}})
    BY DEF LoopOutcomes
  <1>3. /\ LoopBlock(outcomes) = Branch(<<outcomes>>, IF outcomes = {FALSE} THEN {} ELSE {1}, c)
        /\ WithBlock = Branch(<<{TRUE}>>, {1}, c)
    BY DEF LoopBlock, WithBlock
  <1> HIDE DEF c
  <1>4. ASSUME NEW o \in {{TRUE}, {FALSE}, BOOLEAN}, ~c => o \in {{TRUE}, {FALSE}}
        PROVE  /\ Opens(Branch(<<o>>, IF o = {FALSE} THEN {} ELSE {1}, c))
               /\ Branch(<<o>>, IF o = {FALSE} THEN {} ELSE {1}, c).kind = "branch"
               /\ Branch(<<o>>, IF o = {FALSE} THEN {} ELSE {1}, c).tests[1] = o
    <2>1. PICK t : t = <<o>>
      OBVIOUS
    <2>3. PICK w : w = IF o = {FALSE} THEN {} ELSE {1}
      OBVIOUS
    <2>2. t \in Seq(SUBSET BOOLEAN) /\ Len(t) = 1 /\ t[1] = o /\ t # <<>>
      <3>1. o \in SUBSET BOOLEAN
        OBVIOUS
      <3> QED
        BY <2>1, <3>1, SingleSeq
    <2>16. w = {} \/ w = {1}
      BY <2>3, Zenon
    <2>4. w \in SUBSET Nat /\ \A k \in w : k = 1
      BY <2>16
    <2>5. \A k \in DOMAIN t : k = 1
      BY <2>2
    <2>11. o # {} /\ (o = {FALSE} => TRUE \notin o) /\ (o = {TRUE} => FALSE \notin o)
      BY <1>4
    <2>6. \A k \in DOMAIN t : t[k] # {}
      BY <2>2, <2>5, <2>11, Zenon
    <2>12. 1 \notin w => o = {FALSE}
      BY <2>3
    <2>13. ~c /\ 1 \in w => o = {TRUE}
      BY <1>4, <2>3
    <2>7. \A k \in DOMAIN t : k \notin w => TRUE \notin t[k] \/ \E j \in 1 .. k - 1 : FALSE \notin t[j]
      BY <2>2, <2>5, <2>11, <2>12, Zenon
    <2>8. \A j \in w, k \in DOMAIN t : j < k => k \in w
      BY <2>4, <2>5
    <2>14. 1 .. 1 - 1 = {}
      OBVIOUS
    <2>9. ASSUME ~c, NEW k \in w \cap DOMAIN t
          PROVE  FALSE \notin t[k] /\ \A j \in 1 .. k - 1 : TRUE \notin t[j]
      <3>1. k = 1 /\ 1 \in w
        BY <2>4, <2>9
      <3> QED
        BY <2>2, <2>9, <2>11, <2>13, <2>14, <3>1, Zenon
    <2>10. Opens(Branch(t, w, c))
      BY <1>1, <2>2, <2>4, <2>6, <2>7, <2>8, <2>9, BranchOpens
    <2>15. Branch(t, w, c).kind = "branch" /\ Branch(t, w, c).tests[1] = o
      BY <2>2 DEF Branch
    <2> QED
      BY <2>1, <2>3, <2>10, <2>15, Zenon
  <1>5. {TRUE} # {FALSE}
    OBVIOUS
  <1> QED
    BY <1>2, <1>3, <1>4, <1>5

\* Every suite of a try statement is walked.
LEMMA TryOpens ==
  ASSUME TypeOK, NEW handlers \in Nat \ {0}, NEW raises \in BOOLEAN
  PROVE  Opens(Try(handlers, raises)) /\ Try(handlers, raises).kind = "try"
  <1> DEFINE b == Try(handlers, raises)
             t == [i \in 1 .. handlers |-> BOOLEAN]
  <1>1. t \in [1 .. handlers -> SUBSET BOOLEAN] /\ \A k \in 1 .. handlers : t[k] # {}
    OBVIOUS
  <1>2. t \in Seq(SUBSET BOOLEAN) /\ Len(t) = handlers /\ DOMAIN t = 1 .. handlers
    BY <1>1, FcnIsSeq
  <1>3. t # <<>>
    BY <1>2, EmptySeq
  <1> HIDE DEF t
  <1>4. /\ b.at = 1 /\ b.exits = {} /\ b.waiting = {} /\ b.kind = "try"
        /\ b.tests = t /\ b.walked = 1 .. handlers + 3 /\ b.framed = FALSE
        /\ b.reached = live /\ b \in Block
    <2>3. 1 .. handlers + 3 \in SUBSET Nat
      OBVIOUS
    <2>1. 1 .. handlers + 3 \in SUBSET Nat /\ live \in SUBSET Value
      BY <2>3 DEF TypeOK
    <2>2. b = [kind |-> "try", tests |-> t, walked |-> 1 .. handlers + 3, framed |-> FALSE, at |-> 1,
               waiting |-> {}, exits |-> {}, raises |-> raises, reached |-> live]
      BY DEF Try, t
    <2> QED
      BY <1>2, <2>1, <2>2 DEF Block
  <1> HIDE DEF b
  <1>5. Opens(b)
    BY <1>1, <1>2, <1>3, <1>4 DEF Opens
  <1> QED
    BY <1>4, <1>5 DEF b

\* The target of a for or with statement is excluded, left alone by design, or not known.
Targets(new, entered, runs) ==
    \/ new = index /\ entered = live
    \/ /\ MayBind
       /\ \E ignored \in BOOLEAN :
            /\ entered = Rebound(ignored)
            /\ runs /\ ~ignored => new.signatures = <<>>
       /\ \/ new = index
          \/ /\ new.signatures = <<>> /\ new.excluded /\ new.frames = index.frames
             /\ new.pending = index.pending

\* The statements that open a suite.
Openers == \/ OpenIf \/ OpenMatch \/ OpenWhile \/ OpenFor \/ OpenWith \/ OpenWithAs \/ OpenTry

\* Nothing and something.
LEMMA SomethingType ==
  ASSUME NEW ignored \in BOOLEAN
  PROVE  Something(ignored) \in Value /\ Rebound(ignored) \in SUBSET Value
         /\ Something(ignored).arms = {} /\ ~Something(ignored).waiting
         /\ Something(ignored).ignored = ignored
  <1>1. PICK none : none = {}
    OBVIOUS
  <1>2. none \in SUBSET Ids
    BY <1>1
  <1>3. PICK s : s = [arms |-> none, waiting |-> FALSE, ignored |-> ignored]
    OBVIOUS
  <1>4. s = Something(ignored)
    BY <1>1, <1>3 DEF Something
  <1>5. s \in Value /\ s.arms = none /\ ~s.waiting /\ s.ignored = ignored
    BY <1>2, <1>3 DEF Value
  <1>6. Rebound(ignored) \in SUBSET Value
    <2>1. Something(ignored) \in Value
      BY <1>4, <1>5, Zenon
    <2> QED
      BY <2>1, Zenon DEF Rebound
  <1> QED
    BY <1>1, <1>4, <1>5, <1>6, Zenon

\* What a target does to the store.
LEMMA TargetedEffect ==
  ASSUME TypeOK, size < MaxStatements, NEW walks \in BOOLEAN
  PROVE  LET new == Targeted(walks)
         IN  /\ new \in Store
             /\ \/ new = index
                \/ /\ new.signatures = <<>> /\ new.excluded /\ new.frames = index.frames
                   /\ new.pending = index.pending
             /\ walks /\ ~(IsClass \/ (AfterClass /\ Conditional(index))) => new.signatures = <<>>
  <1>1. index \in Store /\ Here \in 0 .. MaxStatements
    <2>1. size \in 0 .. MaxStatements /\ MaxStatements \in Nat /\ index \in Store
      BY DefinitionsAssumption DEF TypeOK
    <2> QED
      BY <2>1 DEF Here
  <1>2. Exclude(index) \in Store /\ ExcludeAfter(index, Here) \in Store
    <2>1. <<>> \in Seq(Ids)
      BY EmptySeq
    <2> QED
      BY <1>1, <2>1 DEF Exclude, ExcludeAfter, Store
  <1>3. \A s \in {Exclude(index), ExcludeAfter(index, Here)} :
            s.signatures = <<>> /\ s.excluded /\ s.frames = index.frames /\ s.pending = index.pending
    BY <1>1 DEF Exclude, ExcludeAfter, Store
  <1> QED
    BY <1>1, <1>2, <1>3 DEF Targeted

\* Every statement that opens a suite opens such a block.
LEMMA OpenersEffect ==
  ASSUME TypeOK, Approximations = {}, Openers
  PROVE  \E block \in Block, new \in Store, entered \in SUBSET Value :
            /\ Opens(block) /\ Open(block, new, entered)
            /\ Targets(new, entered, block.kind = "branch" /\ TRUE \in block.tests[1])
            /\ block.kind = "try" => new = index /\ entered = live
  <1>1. index \in Store /\ live \in SUBSET Value
    BY DEF TypeOK
  <1>2. ASSUME NEW block, Opens(block), Open(block, index, live)
        PROVE  \E b \in Block, new \in Store, entered \in SUBSET Value :
                  /\ Opens(b) /\ Open(b, new, entered)
                  /\ Targets(new, entered, b.kind = "branch" /\ TRUE \in b.tests[1])
                  /\ b.kind = "try" => new = index /\ entered = live
    <2>1. block \in Block /\ Targets(index, live, block.kind = "branch" /\ TRUE \in block.tests[1])
      BY <1>2 DEF Opens, Targets
    <2> QED
      BY <1>1, <1>2, <2>1
  <1>3. CASE OpenIf
    <2>1. PICK n \in 1 .. MaxClauses, last \in BOOLEAN : \E tests \in [1 .. n -> DefiniteIfTest] :
              LET clauses == IF last THEN Append(tests, Else) ELSE tests
              IN  Open(IfBlock(clauses), index, live)
      BY <1>3 DEF OpenIf
    <2>2. PICK tests \in [1 .. n -> DefiniteIfTest] :
              Open(IfBlock(IF last THEN Append(tests, Else) ELSE tests), index, live)
      BY <2>1
    <2>3. n \in Nat \ {0}
      BY <2>1, DefinitionsAssumption
    <2>4. /\ Else \in DecidedTests /\ \A t \in DefiniteIfTest : t \in DecidedTests
      <3>1. \A t \in DefiniteIfTest \cup {Else} : t \in [definite : SUBSET BOOLEAN, outcomes : SUBSET BOOLEAN]
        <4>1. \A d, o : d \in SUBSET BOOLEAN /\ o \in SUBSET BOOLEAN =>
                  Test(d, o) \in [definite : SUBSET BOOLEAN, outcomes : SUBSET BOOLEAN]
          BY DEF Test
        <4>2. \A t \in VersionTests : {VersionInfoCondition(t)} \in SUBSET BOOLEAN /\ VersionTruths(t) \in SUBSET BOOLEAN
          BY VersionsDecided
        <4>3. \A b \in BOOLEAN : {b} \in SUBSET BOOLEAN
          OBVIOUS
        <4>4. \A b \in BOOLEAN : Test({b}, {b}) \in [definite : SUBSET BOOLEAN, outcomes : SUBSET BOOLEAN]
          BY <4>1, <4>3, Zenon
        <4>5. {TRUE, FALSE} \in SUBSET BOOLEAN /\ BOOLEAN \in SUBSET BOOLEAN
          OBVIOUS
        <4>6. Undecided \in [definite : SUBSET BOOLEAN, outcomes : SUBSET BOOLEAN]
          BY <4>1, <4>5, Zenon DEF Undecided
        <4>7. Else \in [definite : SUBSET BOOLEAN, outcomes : SUBSET BOOLEAN]
          BY <4>4, Zenon DEF Else
        <4>8. \A t \in VersionTests : Test({VersionInfoCondition(t)}, VersionTruths(t))
                                        \in [definite : SUBSET BOOLEAN, outcomes : SUBSET BOOLEAN]
          BY <4>1, <4>2, Zenon
        <4>9. \A t \in DefiniteIfTest : \/ \E b \in BOOLEAN : t = Test({b}, {b})
                                        \/ t = Undecided
                                        \/ \E v \in VersionTests : t = Test({VersionInfoCondition(v)}, VersionTruths(v))
          BY Zenon DEF DefiniteIfTest
        <4> DEFINE shapes == [definite : SUBSET BOOLEAN, outcomes : SUBSET BOOLEAN]
        <4>10. /\ \A b \in BOOLEAN : Test({b}, {b}) \in shapes
               /\ Undecided \in shapes /\ Else \in shapes
               /\ \A v \in VersionTests : Test({VersionInfoCondition(v)}, VersionTruths(v)) \in shapes
          BY <4>4, <4>6, <4>7, <4>8
        <4> HIDE DEF shapes
        <4>11. \A t \in DefiniteIfTest : t \in shapes
          BY <4>9, <4>10, Zenon
        <4>12. \A t \in DefiniteIfTest \cup {Else} : t \in shapes
          BY <4>10, <4>11, Zenon
        <4> QED
          BY <4>12 DEF shapes
      <3> QED
        BY <3>1, TestsDecided DEF DecidedTests
    <2>5. tests \in [1 .. n -> DecidedTests]
      BY <2>4
    <2>6. tests \in Seq(DecidedTests) /\ Len(tests) = n
      BY <2>3, <2>5, FcnIsSeq
    <2>7. tests # <<>>
      BY <2>3, <2>6, EmptySeq
    <2>8. PICK clauses : clauses = IF last THEN Append(tests, Else) ELSE tests
      OBVIOUS
    <2>9. clauses \in Seq(DecidedTests) /\ clauses # <<>>
      BY <2>4, <2>6, <2>7, <2>8, AppendProperties
    <2>10. Opens(IfBlock(clauses)) /\ Open(IfBlock(clauses), index, live)
      BY <2>2, <2>8, <2>9, IfOpens
    <2> QED
      BY <1>2, <2>10
  <1>4. CASE OpenMatch
    <2>1. PICK n \in 1 .. MaxClauses, literal \in BOOLEAN : \E cases \in [1 .. n -> Cases] :
              Open(MatchBlock(literal, cases), index, live)
      BY <1>4 DEF OpenMatch
    <2>2. PICK cases \in [1 .. n -> Cases] : Open(MatchBlock(literal, cases), index, live)
      BY <2>1
    <2>3. n \in Nat \ {0}
      BY <2>1, DefinitionsAssumption
    <2>4. Opens(MatchBlock(literal, cases))
      BY <2>2, <2>3, MatchOpens
    <2> QED
      BY <1>2, <2>2, <2>4
  <1>5. CASE OpenWhile
    <2>1. PICK outcomes \in LoopOutcomes : Open(LoopBlock(outcomes), index, live)
      BY <1>5 DEF OpenWhile
    <2> QED
      BY <1>2, <2>1, LoopOpens
  <1>6. CASE OpenTry
    <2>1. PICK handlers \in 1 .. 2, raises \in BOOLEAN : Open(Try(handlers, raises), index, live)
      BY <1>6 DEF OpenTry
    <2>2. handlers \in Nat \ {0}
      BY <2>1
    <2> QED
      BY <1>2, <2>1, <2>2, TryOpens
  <1>7. {TRUE} \in LoopOutcomes
    BY DEF LoopOutcomes
  <1>8. CASE OpenWith
    BY <1>2, <1>7, <1>8, LoopOpens DEF OpenWith
  <1>9. TargetIgnored \in BOOLEAN /\ (~TargetIgnored => Walked /\ ~(IsClass \/ (AfterClass /\ Conditional(index))))
    BY DEF TargetIgnored, IsClass, AfterClass, Walked, Conditional
  <1>10. Rebound(TargetIgnored) \in SUBSET Value
    BY <1>9, SomethingType
  <1>11. CASE OpenFor
    <2>1. PICK outcomes \in LoopOutcomes :
              MayBind /\ Open(LoopBlock(outcomes), Targeted(Walked /\ outcomes # {FALSE}), Rebound(TargetIgnored))
      BY <1>11 DEF OpenFor
    <2>2. PICK block : block = LoopBlock(outcomes)
      OBVIOUS
    <2>12. Opens(block) /\ block.kind = "branch" /\ block.tests[1] = outcomes
      BY <2>2, LoopOpens
    <2>3. Opens(block) /\ block.kind = "branch" /\ block.tests[1] = outcomes /\ block \in Block
      BY <2>12, Zenon DEF Opens
    <2>4. PICK new : new = Targeted(Walked /\ outcomes # {FALSE})
      OBVIOUS
    <2>5. Open(block, new, Rebound(TargetIgnored)) /\ size < MaxStatements
      BY <2>1, <2>2, <2>4 DEF Open
    <2>6. (Walked /\ outcomes # {FALSE}) \in BOOLEAN
      OBVIOUS
    <2>7. /\ new \in Store
          /\ \/ new = index
             \/ /\ new.signatures = <<>> /\ new.excluded /\ new.frames = index.frames
                /\ new.pending = index.pending
          /\ Walked /\ outcomes # {FALSE} /\ ~(IsClass \/ (AfterClass /\ Conditional(index))) => new.signatures = <<>>
      BY <2>4, <2>5, <2>6, TargetedEffect
    <2>8. TRUE \in outcomes => outcomes # {FALSE}
      OBVIOUS
    <2>9. Targets(new, Rebound(TargetIgnored), block.kind = "branch" /\ TRUE \in block.tests[1])
      <3>1. (block.kind = "branch" /\ TRUE \in block.tests[1]) /\ ~TargetIgnored => new.signatures = <<>>
        BY <1>9, <2>3, <2>7, <2>8, Zenon
      <3> QED
        BY <1>9, <2>1, <2>7, <3>1, Zenon DEF Targets
    <2>10. block.kind # "try"
      BY <2>3
    <2> QED
      BY <1>10, <2>3, <2>5, <2>7, <2>9, <2>10, Zenon
  <1>12. CASE OpenWithAs
    <2>1. MayBind /\ Open(WithBlock, Targeted(Walked), Rebound(TargetIgnored))
      BY <1>12 DEF OpenWithAs
    <2>2. PICK block : block = WithBlock
      OBVIOUS
    <2>3. Opens(block) /\ block.kind = "branch" /\ block \in Block
      BY <1>7, <2>2, LoopOpens DEF Opens
    <2>4. PICK new : new = Targeted(Walked)
      OBVIOUS
    <2>5. Open(block, new, Rebound(TargetIgnored)) /\ size < MaxStatements
      BY <2>1, <2>2, <2>4 DEF Open
    <2>6. Walked \in BOOLEAN
      BY DEF Walked
    <2>7. /\ new \in Store
          /\ \/ new = index
             \/ /\ new.signatures = <<>> /\ new.excluded /\ new.frames = index.frames
                /\ new.pending = index.pending
          /\ Walked /\ ~(IsClass \/ (AfterClass /\ Conditional(index))) => new.signatures = <<>>
      BY <2>4, <2>5, <2>6, TargetedEffect
    <2>9. Targets(new, Rebound(TargetIgnored), block.kind = "branch" /\ TRUE \in block.tests[1])
      <3>1. (block.kind = "branch" /\ TRUE \in block.tests[1]) /\ ~TargetIgnored => new.signatures = <<>>
        BY <1>9, <2>7, Zenon
      <3> QED
        BY <1>9, <2>1, <2>7, <3>1, Zenon DEF Targets
    <2>10. block.kind # "try"
      BY <2>3
    <2> QED
      BY <1>10, <2>3, <2>5, <2>7, <2>9, <2>10, Zenon
  <1> QED
    BY <1>3, <1>4, <1>5, <1>6, <1>8, <1>11, <1>12 DEF Openers

(***************************************************************************)
(* What stays of a block when only what reaches its handlers changes       *)
(***************************************************************************)
LEMMA SameFacts ==
  ASSUME NEW b \in Block, NEW c \in Block, NEW values, Same(b, c, values)
  PROVE  /\ Untaken(c) = Untaken(b) /\ LeftBy(c) = LeftBy(b)
         /\ (Raising(c) <=> Raising(b)) /\ (InHandler(c) <=> InHandler(b))
         /\ (InFrame(c) <=> InFrame(b)) /\ (NotTaken(c) <=> NotTaken(b))
         /\ (BlockOK(b) => BlockOK(c))
  <1>1. /\ c.kind = b.kind /\ c.tests = b.tests /\ c.walked = b.walked /\ c.framed = b.framed
        /\ c.at = b.at /\ c.waiting = b.waiting /\ c.exits = b.exits /\ c.raises = b.raises
    BY DEF Same
  <1>2. ElseOf(c) = ElseOf(b) /\ HandlersOf(c) = HandlersOf(b)
    BY <1>1 DEF ElseOf, HandlersOf
  <1>3. \A k : Untakeable(c, k) <=> Untakeable(b, k)
    BY <1>1, Zenon DEF Untakeable
  <1>4. Untaken(c) = Untaken(b) /\ LeftBy(c) = LeftBy(b)
    BY <1>1, <1>2, Zenon DEF Untaken, LeftBy
  <1>5. (Raising(c) <=> Raising(b)) /\ (InHandler(c) <=> InHandler(b)) /\ (InFrame(c) <=> InFrame(b))
    BY <1>1, <1>2, Zenon DEF Raising, InHandler, InFrame
  <1>6. NotTaken(c) <=> NotTaken(b)
    BY <1>1, <1>3, <1>5, Zenon DEF NotTaken
  <1>7. BranchOK(b) => BranchOK(c)
    BY <1>1, <1>3, Zenon DEF BranchOK
  <1>8. TryOK(b) => TryOK(c)
    BY <1>1, Zenon DEF TryOK
  <1>9. BlockOK(b) => BlockOK(c)
    BY <1>1, <1>7, <1>8, Zenon DEF BlockOK
  <1> QED
    BY <1>4, <1>5, <1>6, <1>9

\* What a handler may start with grows by the values, where something may be raised.
LEMMA SameCaught ==
  ASSUME NEW b \in Block, NEW c \in Block, NEW values, Same(b, c, values), BlockOK(b)
  PROVE  /\ Caught(c) = IF Raising(b) THEN Caught(b) \cup values ELSE Caught(b)
         /\ Flow(c) = IF Raising(b) THEN Flow(b) \cup values ELSE Flow(b)
         /\ Held(c) = (IF b.kind = "try" /\ b.at = 1 THEN Held(b) \cup values ELSE Held(b))
  <1>1. /\ c.kind = b.kind /\ c.tests = b.tests /\ c.at = b.at /\ c.raises = b.raises
        /\ c.waiting = b.waiting /\ c.exits = b.exits
        /\ c.reached = IF b.kind = "try" /\ b.at = 1 THEN b.reached \cup values ELSE b.reached
    BY DEF Same
  <1>2. ElseOf(c) = ElseOf(b)
    BY <1>1 DEF ElseOf
  <1>3. b.kind = "try" \/ ~b.raises
    BY Zenon DEF BlockOK, BranchOK
  <1>4. b.at = 1 => b.at < ElseOf(b)
    <2>1. Len(b.tests) \in Nat
      BY BlockFields
    <2> QED
      BY <2>1 DEF ElseOf
  <1>5. Caught(c) = IF Raising(b) THEN Caught(b) \cup values ELSE Caught(b)
    <2>1. CASE Raising(b)
      <3>1. b.raises /\ b.kind = "try" /\ b.at = 1
        BY <2>1 DEF Raising
      <3>2. Caught(c) = c.reached /\ Caught(b) = b.reached
        BY <1>1, <1>2, <1>4, <3>1, Zenon DEF Caught
      <3> QED
        BY <1>1, <2>1, <3>1, <3>2, Zenon
    <2>2. CASE ~Raising(b)
      <3>1. ~b.raises \/ c.reached = b.reached
        BY <1>1, <1>3, <2>2, Zenon DEF Raising
      <3>2. Caught(c) = Caught(b)
        BY <1>1, <1>2, <3>1, Zenon DEF Caught
      <3> QED
        BY <2>2, <3>2
    <2> QED
      BY <2>1, <2>2
  <1>6. Untaken(c) = Untaken(b) /\ LeftBy(c) = LeftBy(b)
    BY SameFacts
  <1>7. Flow(c) = IF Raising(b) THEN Flow(b) \cup values ELSE Flow(b)
    <2>1. CASE Raising(b)
      BY <1>5, <1>6, <2>1 DEF Flow
    <2>2. CASE ~Raising(b)
      BY <1>5, <1>6, <2>2, Zenon DEF Flow
    <2> QED
      BY <2>1, <2>2
  <1>8. Held(c) = (IF b.kind = "try" /\ b.at = 1 THEN Held(b) \cup values ELSE Held(b))
    <2>1. CASE b.kind = "try" /\ b.at = 1
      <3>1. c.reached = b.reached \cup values
        BY <1>1, <2>1
      <3> QED
        BY <1>1, <2>1, <3>1 DEF Held
    <2>2. CASE ~(b.kind = "try" /\ b.at = 1)
      <3>1. c.reached = b.reached
        BY <1>1, <2>2
      <3> QED
        BY <1>1, <2>2, <3>1, Zenon DEF Held
    <2> QED
      BY <2>1, <2>2
  <1> QED
    BY <1>5, <1>7, <1>8

\* What may still be live is held.
LEMMA FlowHeld ==
  ASSUME NEW b
  PROVE  Flow(b) \subseteq Held(b) /\ Untaken(b) \cup LeftBy(b) \subseteq Flow(b)
         /\ Caught(b) \subseteq Flow(b)
  BY Zenon DEF Flow, Held, Untaken, LeftBy, Caught

(***************************************************************************)
(* What the invariant says of where the index is                           *)
(***************************************************************************)
\* The blocks by their numbers.
LEMMA BlockAt ==
  ASSUME TypeOK
  PROVE  /\ Len(blocks) \in Nat /\ DOMAIN blocks = 1 .. Len(blocks)
         /\ \A i \in 1 .. Len(blocks) : blocks[i] \in Block
         /\ blocks # <<>> <=> Len(blocks) # 0
  <1>1. blocks \in Seq(Block)
    BY DEF TypeOK
  <1> QED
    BY <1>1, LenProperties, ElementOfSeq, EmptySeq

\* Where a block is in a suite that is walked: only a branch may be in another.
LEMMA NotWalkedDead ==
  ASSUME TypeOK, BlocksOK, DeadSuites, NEW i \in DOMAIN blocks,
         blocks[i].at \notin blocks[i].walked
  PROVE  blocks[i].kind = "branch" /\ Dead(i)
  <1>1. blocks[i] \in Block /\ BlockOK(blocks[i])
    BY BlockAt DEF BlocksOK
  <1>2. blocks[i].kind = "branch" /\ BranchOK(blocks[i])
    BY <1>1, BlockFields DEF BlockOK, TryOK
  <1>3. NotTaken(blocks[i])
    BY <1>2, Zenon DEF BranchOK, NotTaken
  <1> QED
    BY <1>2, <1>3 DEF DeadSuites

\* The index walks wherever something gets.
LEMMA WalkedWhereLive ==
  ASSUME TypeOK, BlocksOK, DeadSuites, live # {}
  PROVE  Walked
  BY NotWalkedDead DEF Walked, Dead

\* No value is left in what is inside a suite that is not walked.
LEMMA NotWalkedTo ==
  ASSUME TypeOK, BlocksOK, DeadSuites, NEW i \in DOMAIN blocks, ~WalkedTo(i)
  PROVE  live = {} /\ Held(blocks[i]) = {}
  <1>1. PICK j \in 1 .. i - 1 : blocks[j].at \notin blocks[j].walked
    BY DEF WalkedTo
  <1>2. j \in DOMAIN blocks /\ i > j
    BY <1>1, BlockAt
  <1> QED
    BY <1>1, <1>2, NotWalkedDead DEF Dead

\* A suite walked without a frame is the one taken: nothing else of its statement may be
\* live, but for what its handlers may start with.
LEMMA Settled ==
  ASSUME TypeOK, BlocksOK, SuitesOK, NEW i \in DOMAIN blocks, WalkedTo(i),
         blocks[i].at \in blocks[i].walked, ~InFrame(blocks[i])
  PROVE  LET b == blocks[i]
         IN  Untaken(b) = {} /\ LeftBy(b) = {} /\ (~Raising(b) => Caught(b) = {})
  <1> DEFINE b == blocks[i]
  <1>1. b \in Block /\ BlockOK(b) /\ ~InFrame(b)
    BY BlockAt DEF BlocksOK
  <1>2. CASE b.kind = "branch"
    <2>1. BranchOK(b) /\ ~b.framed
      BY <1>1, <1>2 DEF BlockOK, InFrame
    <2>2. b.at \in DOMAIN b.tests /\ Taken(b, b.at) /\ ~b.raises
      BY <1>2, <2>1 DEF SuitesOK, BranchOK
    <2>3. b.at \in 1 .. b.at
      <3>1. b.tests \in Seq(SUBSET BOOLEAN)
        BY <1>1, BlockFields
      <3> HIDE DEF b
      <3> QED
        BY <2>2, <3>1
    <2> HIDE DEF b
    <2>4. b.waiting = {} /\ b.exits = {}
      BY <2>1, <2>2, <2>3, Zenon DEF BranchOK, Taken
    <2> QED
      BY <2>2, <2>4, Zenon DEF Untaken, LeftBy, Caught, b
  <1>3. CASE b.kind = "try"
    <2>1. TryOK(b)
      BY <1>1, <1>3 DEF BlockOK
    <2>2. Len(b.tests) \in Nat /\ b.at \in Nat
      BY <1>1, BlockFields
    <2> HIDE DEF b
    <2>3. b.at = 1 \/ b.at > ElseOf(b)
      BY <1>1, <1>3, <2>1, <2>2 DEF TryOK, InFrame, ElseOf
    <2>4. CASE b.at = 1
      <3>1. b.waiting = {} /\ b.exits = {}
        BY <2>1, <2>4, Zenon DEF TryOK
      <3> QED
        BY <1>3, <2>4, <3>1, Zenon DEF Untaken, LeftBy, Caught, Raising, b
    <2>5. CASE b.at > ElseOf(b)
      <3>1. b.at >= ElseOf(b) /\ ~(b.at < ElseOf(b))
        BY <2>2, <2>5 DEF ElseOf
      <3> QED
        BY <1>3, <2>5, <3>1, Zenon DEF Untaken, LeftBy, Caught, b
    <2> QED
      BY <2>3, <2>4, <2>5
  <1>4. b.kind \in {"branch", "try"}
    BY <1>1, BlockFields
  <1> QED
    BY <1>2, <1>3, <1>4

\* The index is in a frame when some statement around has one.
LEMMA ConditionalIsFramed ==
  ASSUME TypeOK, FramesOK
  PROVE  Conditional(index) <=> \E i \in DOMAIN blocks : HasFrame(i)
  <1>1. PICK owner \in [DOMAIN index.frames -> DOMAIN blocks] : Owns(owner)
    BY DEF FramesOK
  <1>2. index.frames \in Seq(BOOLEAN)
    BY DEF TypeOK, Store
  <1>3. Conditional(index) <=> \E k \in DOMAIN index.frames : TRUE
    <2>1. /\ Len(index.frames) \in Nat /\ DOMAIN index.frames = 1 .. Len(index.frames)
          /\ index.frames = <<>> <=> Len(index.frames) = 0
      BY <1>2, EmptySeq, LenProperties
    <2> QED
      BY <2>1 DEF Conditional
  <1>4. DOMAIN owner = DOMAIN index.frames /\ \A k \in DOMAIN owner : owner[k] \in DOMAIN blocks
    OBVIOUS
  <1>5. \A i \in DOMAIN blocks : HasFrame(i) <=> \E k \in DOMAIN owner : owner[k] = i
    BY <1>1 DEF Owns
  <1> QED
    BY <1>3, <1>4, <1>5, Zenon

\* In no frame, a statement around is in the suite that is taken.
LEMMA Unframed ==
  ASSUME TypeOK, BlocksOK, SuitesOK, FramesOK, Walked, ~Conditional(index), NEW i \in DOMAIN blocks
  PROVE  LET b == blocks[i]
         IN  Untaken(b) = {} /\ LeftBy(b) = {} /\ (~Raising(b) => Caught(b) = {} /\ Flow(b) = {})
  <1>1. WalkedTo(i) /\ blocks[i].at \in blocks[i].walked
    <2>1. \A j \in 1 .. i - 1 : j \in DOMAIN blocks
      BY BlockAt
    <2> QED
      BY <2>1, Zenon DEF Walked, WalkedTo
  <1>2. ~InFrame(blocks[i])
    BY <1>1, ConditionalIsFramed DEF HasFrame
  <1>3. /\ Untaken(blocks[i]) = {} /\ LeftBy(blocks[i]) = {}
        /\ ~Raising(blocks[i]) => Caught(blocks[i]) = {}
    BY <1>1, <1>2, Settled
  <1> QED
    BY <1>3 DEF Flow

\* What bodies without the approximations leave out.
LEMMA MayBindMeans ==
  ASSUME Approximations = {}, MayBind, NEW i \in DOMAIN blocks, Raising(blocks[i]), BlockOK(blocks[i]),
         NEW v \in Flow(blocks[i])
  PROVE  v.arms = {}
  <1> DEFINE b == blocks[i]
  <1>1. b \in Range(blocks)
    BY DEF Range
  <1>2. \A w \in b.reached : w.arms = {}
    BY <1>1 DEF MayBind
  <1>3. b.waiting = {} /\ b.exits = {}
    BY DEF BlockOK, TryOK, Raising
  <1>4. Flow(b) \subseteq b.reached
    BY <1>3, Zenon DEF Flow, Untaken, LeftBy, Caught
  <1> QED
    BY <1>2, <1>4

\* What is not defined outside the approximations.
LEMMA MayDefineMeans ==
  ASSUME Approximations = {}, MayDefine
  PROVE  /\ live # {} \/ ~WalkedDefinition
         /\ MayBind
         /\ \A i \in Framed : (\A j \in Framed : j <= i) => ~(InHandler(blocks[i]) /\ blocks[i].raises)
         /\ index.excluded => \A i \in DOMAIN blocks : \A v \in Held(blocks[i]) : v.arms = {}
  <1>1. \A i \in DOMAIN blocks : blocks[i] \in Range(blocks)
    BY DEF Range
  <1> QED
    BY <1>1 DEF MayDefine, Held

\* A definition something gets to is walked.
LEMMA DefinitionWalked ==
  ASSUME Approximations = {}, TypeOK, BlocksOK, DeadSuites, MayDefine, live # {}
  PROVE  WalkedDefinition
  <1>1. Walked
    BY WalkedWhereLive
  <1>2. ASSUME blocks # <<>>, InHandler(Top)
        PROVE  FALSE
    <2> DEFINE n == Len(blocks)
    <2>1. Top = blocks[n] /\ n \in DOMAIN blocks /\ n \in Nat /\ blocks[n] \in Block
      BY <1>2, TopIs
    <2>2. InHandler(blocks[n])
      BY <1>2, <2>1, Zenon
    <2>3. blocks[n].raises
      <3>1. ASSUME ~blocks[n].raises
            PROVE  FALSE
        <4>1. NotTaken(blocks[n])
          BY <2>2, <3>1 DEF NotTaken
        <4> QED
          BY <2>1, <4>1 DEF DeadSuites, Dead
      <3> QED
        BY <3>1
    <2>4. n \in Framed
      <3>1. Len(blocks[n].tests) \in Nat
        BY <2>1, BlockFields
      <3>2. InFrame(blocks[n])
        BY <2>2, <3>1 DEF InHandler, HandlersOf, InFrame, ElseOf
      <3> QED
        BY <2>1, <3>2 DEF Framed
    <2>5. \A j \in Framed : j <= n
      BY BlockAt DEF Framed
    <2>6. ~(InHandler(blocks[n]) /\ blocks[n].raises)
      BY <2>4, <2>5, MayDefineMeans
    <2> QED
      BY <2>2, <2>3, <2>6
  <1> QED
    BY <1>1, <1>2 DEF WalkedDefinition

\* The last frame is that of the innermost statement with one.
LEMMA LastFrame ==
  ASSUME TypeOK, NEW owner \in [DOMAIN index.frames -> DOMAIN blocks], Owns(owner),
         index.frames # <<>>
  PROVE  LET m == Len(index.frames)
         IN  /\ m \in Nat \ {0} /\ m \in DOMAIN index.frames /\ DOMAIN index.frames = 1 .. m
             /\ owner[m] \in DOMAIN blocks /\ HasFrame(owner[m])
             /\ \A i \in DOMAIN blocks : HasFrame(i) => i <= owner[m]
             /\ \A k \in 1 .. m - 1 : owner[k] < owner[m]
  <1> DEFINE m == Len(index.frames)
  <1>1. index.frames \in Seq(BOOLEAN)
    BY DEF TypeOK, Store
  <1>2. m \in Nat \ {0} /\ m \in DOMAIN index.frames /\ DOMAIN index.frames = 1 .. m
    BY <1>1, EmptySeq, LenProperties
  <1>3. DOMAIN owner = 1 .. m /\ \A k \in 1 .. m : owner[k] \in DOMAIN blocks
    BY <1>2
  <1>4. /\ \A k, l \in 1 .. m : k < l => owner[k] < owner[l]
        /\ \A i \in DOMAIN blocks : HasFrame(i) <=> \E k \in 1 .. m : owner[k] = i
    BY <1>3 DEF Owns
  <1> HIDE DEF m
  <1>5. \A k \in 1 .. m - 1 : owner[k] < owner[m]
    BY <1>2, <1>4
  <1>6. owner[m] \in DOMAIN blocks /\ HasFrame(owner[m])
    BY <1>2, <1>3, <1>4, Zenon
  <1>7. ASSUME NEW i \in DOMAIN blocks, HasFrame(i)
        PROVE  i <= owner[m]
    <2>1. PICK k \in 1 .. m : owner[k] = i
      BY <1>4, <1>7
    <2>2. k = m \/ k \in 1 .. m - 1
      BY <1>2
    <2>3. DOMAIN blocks \subseteq Nat
      BY BlockAt
    <2> QED
      BY <1>5, <1>6, <2>1, <2>2, <2>3
  <1> QED
    BY <1>2, <1>5, <1>6, <1>7 DEF m

(***************************************************************************)
(* The statements around, over a step                                      *)
(***************************************************************************)
\* The first m statements stay open, with the values added to what handlers may start with.
Around(m, values) ==
    /\ m \in Nat /\ m <= Len(blocks) /\ blocks' \in Seq(Block) /\ m <= Len(blocks')
    /\ SameTo(m, values)

\* The blocks around a statement are there before and after.
LEMMA AroundBlocks ==
  ASSUME TypeOK, NEW m, NEW values, Around(m, values)
  PROVE  /\ \A i \in 1 .. m : i \in DOMAIN blocks /\ i \in DOMAIN blocks'
         /\ DOMAIN blocks' = 1 .. Len(blocks') /\ Len(blocks') \in Nat
         /\ \A i \in DOMAIN blocks' : blocks'[i] \in Block
  <1>1. blocks' \in Seq(Block) /\ m \in Nat /\ m <= Len(blocks') /\ m <= Len(blocks)
    BY DEF Around
  <1>2. Len(blocks) \in Nat /\ DOMAIN blocks = 1 .. Len(blocks)
    BY BlockAt
  <1>3. Len(blocks') \in Nat /\ DOMAIN blocks' = 1 .. Len(blocks')
    BY <1>1, LenProperties
  <1> QED
    BY <1>1, <1>2, <1>3, ElementOfSeq

\* A block around a statement keeps all but the values a handler of it may start with.
LEMMA AroundFacts ==
  ASSUME TypeOK, BlocksOK, NEW m, NEW values, Around(m, values), NEW i \in 1 .. m
  PROVE  LET b == blocks[i]
             c == blocks'[i]
         IN  /\ b \in Block /\ c \in Block /\ BlockOK(b) /\ BlockOK(c)
             /\ c.kind = b.kind /\ c.tests = b.tests /\ c.walked = b.walked /\ c.framed = b.framed
             /\ c.at = b.at
             /\ Untaken(c) = Untaken(b) /\ LeftBy(c) = LeftBy(b)
             /\ (Raising(c) <=> Raising(b)) /\ (InHandler(c) <=> InHandler(b))
             /\ (InFrame(c) <=> InFrame(b)) /\ (NotTaken(c) <=> NotTaken(b))
             /\ Caught(c) = IF Raising(b) THEN Caught(b) \cup values ELSE Caught(b)
             /\ Flow(c) = IF Raising(b) THEN Flow(b) \cup values ELSE Flow(b)
             /\ Held(c) = (IF b.kind = "try" /\ b.at = 1 THEN Held(b) \cup values ELSE Held(b))
  <1>1. blocks[i] \in Block /\ BlockOK(blocks[i])
    BY AroundBlocks, BlockAt DEF BlocksOK
  <1>2. blocks'[i] \in Block /\ Same(blocks[i], blocks'[i], values)
    BY DEF Around, SameTo
  <1> DEFINE b == blocks[i]
             c == blocks'[i]
  <1>3. /\ c.kind = b.kind /\ c.tests = b.tests /\ c.walked = b.walked /\ c.framed = b.framed
        /\ c.at = b.at
    BY <1>2, Zenon DEF Same
  <1>4. /\ Untaken(c) = Untaken(b) /\ LeftBy(c) = LeftBy(b)
        /\ (Raising(c) <=> Raising(b)) /\ (InHandler(c) <=> InHandler(b))
        /\ (InFrame(c) <=> InFrame(b)) /\ (NotTaken(c) <=> NotTaken(b)) /\ BlockOK(c)
    BY <1>1, <1>2, SameFacts
  <1>5. /\ Caught(c) = IF Raising(b) THEN Caught(b) \cup values ELSE Caught(b)
        /\ Flow(c) = IF Raising(b) THEN Flow(b) \cup values ELSE Flow(b)
        /\ Held(c) = (IF b.kind = "try" /\ b.at = 1 THEN Held(b) \cup values ELSE Held(b))
    BY <1>1, <1>2, SameCaught
  <1> QED
    BY <1>1, <1>2, <1>3, <1>4, <1>5

\* How far the index walks is the same.
LEMMA AroundWalked ==
  ASSUME TypeOK, BlocksOK, NEW m, NEW values, Around(m, values)
  PROVE  /\ \A i \in 1 .. m + 1 : WalkedTo(i)' <=> WalkedTo(i)
         /\ \A i \in 1 .. m : HasFrame(i)' <=> HasFrame(i)
  <1>1. m \in Nat
    BY DEF Around
  <1>2. \A i \in 1 .. m : /\ blocks'[i].at = blocks[i].at /\ blocks'[i].walked = blocks[i].walked
                          /\ (InFrame(blocks'[i]) <=> InFrame(blocks[i]))
    BY AroundFacts
  <1>3. ASSUME NEW i \in 1 .. m + 1
        PROVE  WalkedTo(i)' <=> WalkedTo(i)
    <2>1. \A j \in 1 .. i - 1 : j \in 1 .. m
      BY <1>1
    <2> QED
      BY <1>2, <2>1, Zenon DEF WalkedTo
  <1>4. ASSUME NEW i \in 1 .. m
        PROVE  HasFrame(i)' <=> HasFrame(i)
    <2>1. i \in 1 .. m + 1
      BY <1>1
    <2> QED
      BY <1>2, <1>3, <2>1, Zenon DEF HasFrame
  <1> QED
    BY <1>3, <1>4

\* A block around a statement gets the values of the statement at most.
LEMMA AroundHeld ==
  ASSUME TypeOK, BlocksOK, NEW m, NEW values, Around(m, values), NEW i \in 1 .. m
  PROVE  Held(blocks'[i]) \subseteq Held(blocks[i]) \cup values
  <1>1. Held(blocks'[i]) = (IF blocks[i].kind = "try" /\ blocks[i].at = 1
                            THEN Held(blocks[i]) \cup values ELSE Held(blocks[i]))
    BY AroundFacts
  <1> QED
    BY <1>1

\* Where nothing got, nothing gets.
LEMMA AroundDead ==
  ASSUME TypeOK, BlocksOK, NEW m, NEW values, Around(m, values), NEW i \in 1 .. m,
         Dead(i), live' = {}, values = {},
         \A j \in DOMAIN blocks' : j > m => Held(blocks'[j]) = {}
  PROVE  Dead(i)'
  <1>1. ASSUME NEW j \in DOMAIN blocks', j > i
        PROVE  Held(blocks'[j]) = {}
    <2>1. CASE j > m
      BY <2>1
    <2>2. CASE ~(j > m)
      <3>1. j \in 1 .. m /\ j \in DOMAIN blocks
        BY <2>2, AroundBlocks DEF Around
      <3>2. Held(blocks[j]) = {}
        BY <1>1, <3>1 DEF Dead
      <3>3. Held(blocks'[j]) \subseteq Held(blocks[j]) \cup values
        BY <3>1, AroundHeld
      <3> QED
        BY <3>2, <3>3
    <2> QED
      BY <2>1, <2>2
  <1> QED
    BY <1>1 DEF Dead

\* The suites around are what they were.
LEMMA AroundSuites ==
  ASSUME TypeOK, BlocksOK, SuitesOK, NEW m, NEW values, Around(m, values), NEW i \in 1 .. m
  PROVE  LET c == blocks'[i]
         IN  /\ c.framed => WalkedTo(i)'
             /\ c.kind = "branch" /\ ~c.framed /\ WalkedTo(i)' =>
                    \A k \in c.walked \cap DOMAIN c.tests : Taken(c, k)
  <1> DEFINE b == blocks[i]
             c == blocks'[i]
  <1>1. /\ c.kind = b.kind /\ c.tests = b.tests /\ c.walked = b.walked /\ c.framed = b.framed
        /\ i \in DOMAIN blocks
    BY AroundFacts, AroundBlocks
  <1>2. WalkedTo(i)' <=> WalkedTo(i)
    BY AroundWalked DEF Around
  <1>3. /\ b.framed => WalkedTo(i)
        /\ b.kind = "branch" /\ ~b.framed /\ WalkedTo(i) =>
                    \A k \in b.walked \cap DOMAIN b.tests : Taken(b, k)
    BY <1>1 DEF SuitesOK
  <1>4. \A k : Taken(c, k) <=> Taken(b, k)
    BY <1>1, Zenon DEF Taken
  <1> QED
    BY <1>1, <1>2, <1>3, <1>4, Zenon

\* A frame is guarded as before when the last signature is, or none of a value around.
LEMMA AroundGuarded ==
  ASSUME TypeOK, BlocksOK, NEW m, NEW values, Around(m, values), NEW i \in 1 .. m, Guarded(i),
         \/ index'.signatures = <<>>
         \/ index'.signatures = index.signatures
         \/ \A j \in 1 .. m : \A v \in Flow(blocks[j]) : Last(index'.signatures) \notin v.arms
  PROVE  Guarded(i)'
  <1>1. blocks'[i].at \in blocks'[i].walked /\ ~InHandler(blocks'[i])
    BY AroundFacts DEF Guarded
  <1>2. ASSUME NEW j \in 1 .. i, index'.signatures # <<>>
        PROVE  (blocks'[j].kind = "try" /\ blocks'[j].at = 1) \/
                   \A v \in Flow(blocks'[j]) : Last(index'.signatures) \notin v.arms
    <2>1. j \in 1 .. m
      BY DEF Around
    <2>2. /\ blocks'[j].kind = blocks[j].kind /\ blocks'[j].at = blocks[j].at
          /\ Flow(blocks'[j]) = IF Raising(blocks[j]) THEN Flow(blocks[j]) \cup values ELSE Flow(blocks[j])
      BY <2>1, AroundFacts
    <2>3. (blocks[j].kind = "try" /\ blocks[j].at = 1) \/
              \A v \in Flow(blocks[j]) : Last(index'.signatures) \notin v.arms
      <3>1. CASE index'.signatures = index.signatures
        BY <1>2, <3>1, Zenon DEF Guarded
      <3>2. CASE index'.signatures # index.signatures
        BY <1>2, <2>1, <3>2, Zenon
      <3> QED
        BY <3>1, <3>2
    <2>4. Raising(blocks[j]) => blocks[j].kind = "try" /\ blocks[j].at = 1
      BY DEF Raising
    <2> QED
      BY <2>2, <2>3, <2>4, Zenon
  <1> QED
    BY <1>1, <1>2 DEF Guarded

\* The frames of the statements around stay theirs.
SameFrames(m) == \A i \in Nat : i > m =>
    (i \in DOMAIN blocks /\ HasFrame(i) <=> i \in DOMAIN blocks' /\ HasFrame(i)')
\* Frames that are the same before and after have the same statements.
LEMMA OwnerKept ==
  ASSUME TypeOK, BlocksOK, NEW m, NEW values, Around(m, values), SameFrames(m),
         NEW owner \in [DOMAIN index.frames -> DOMAIN blocks], Owns(owner),
         DOMAIN index'.frames = DOMAIN index.frames
  PROVE  owner \in [DOMAIN index'.frames -> DOMAIN blocks'] /\ Owns(owner)'
  <1>1. \A i \in Nat : (i \in DOMAIN blocks /\ HasFrame(i)) <=> (i \in DOMAIN blocks' /\ HasFrame(i)')
    <2> TAKE i \in Nat
    <2>1. CASE i > m
      BY <2>1 DEF SameFrames
    <2>2. CASE ~(i > m) /\ i # 0
      <3>1. i \in 1 .. m
        BY <2>2 DEF Around
      <3> QED
        BY <3>1, AroundBlocks, AroundWalked
    <2>3. CASE i = 0
      <3>1. i \notin DOMAIN blocks /\ i \notin DOMAIN blocks'
        BY <2>3, AroundBlocks, BlockAt
      <3> QED
        BY <3>1
    <2> QED
      BY <2>1, <2>2, <2>3
  <1>2. DOMAIN blocks \subseteq Nat /\ DOMAIN blocks' \subseteq Nat
    BY AroundBlocks, BlockAt
  <1>3. DOMAIN owner = DOMAIN index.frames /\ \A k \in DOMAIN owner : owner[k] \in DOMAIN blocks
    OBVIOUS
  <1>4. /\ \A k, l \in DOMAIN owner : k < l => owner[k] < owner[l]
        /\ \A i \in DOMAIN blocks : HasFrame(i) <=> \E k \in DOMAIN owner : owner[k] = i
    BY DEF Owns
  <1>5. \A k \in DOMAIN owner : owner[k] \in DOMAIN blocks'
    BY <1>1, <1>2, <1>3, <1>4
  <1>6. \A i \in DOMAIN blocks' : HasFrame(i)' <=> \E k \in DOMAIN owner : owner[k] = i
    BY <1>1, <1>2, <1>3, <1>4, Zenon
  <1>7. owner \in [DOMAIN index'.frames -> DOMAIN blocks']
    BY <1>3, <1>5
  <1> QED
    BY <1>4, <1>6, <1>7 DEF Owns

\* The frames are left as they are, or the last one loses its definition.
LEMMA FramesKept ==
  ASSUME TypeOK, BlocksOK, FramesOK, NEW m, NEW values, Around(m, values), SameFrames(m),
         index'.frames \in Seq(BOOLEAN), Len(index'.frames) = Len(index.frames),
         \A k \in DOMAIN index'.frames : index'.frames[k] => index.frames[k],
         \A i \in 1 .. m : Guarded(i) => Guarded(i)',
         \A i \in DOMAIN blocks : i > m /\ HasFrame(i) =>
             i = Len(blocks) /\ (~Guarded(i) \/ ~index'.frames[Len(index'.frames)])
  PROVE  FramesOK'
  <1>1. PICK owner \in [DOMAIN index.frames -> DOMAIN blocks] :
            Owns(owner) /\ \A k \in DOMAIN owner : index.frames[k] => Guarded(owner[k])
    BY DEF FramesOK
  <1>2. DOMAIN index'.frames = DOMAIN index.frames
    <2>1. index.frames \in Seq(BOOLEAN)
      BY DEF TypeOK, Store
    <2> QED
      BY <2>1, LenProperties
  <1>3. owner \in [DOMAIN index'.frames -> DOMAIN blocks'] /\ Owns(owner)'
    BY <1>1, <1>2, OwnerKept
  <1>4. ASSUME NEW k \in DOMAIN owner, index'.frames[k]
        PROVE  Guarded(owner[k])'
    <2>1. k \in DOMAIN index'.frames /\ k \in DOMAIN index.frames /\ owner[k] \in DOMAIN blocks
      BY <1>2
    <2>2. Guarded(owner[k])
      BY <1>1, <1>4, <2>1
    <2>3. CASE owner[k] > m
      <3>1. HasFrame(owner[k])
        BY <1>1, <2>1, Zenon DEF Owns
      <3>2. owner[k] = Len(blocks) /\ ~index'.frames[Len(index'.frames)]
        BY <2>1, <2>2, <2>3, <3>1
      <3>3. index.frames # <<>>
        BY <2>1
      <3> DEFINE l == Len(index.frames)
      <3>4. /\ DOMAIN index.frames = 1 .. l /\ l \in Nat \ {0} /\ owner[l] \in DOMAIN blocks
            /\ \A j \in 1 .. l - 1 : owner[j] < owner[l]
        BY <1>1, <3>3, LastFrame
      <3>5. Len(index'.frames) = l
        OBVIOUS
      <3> HIDE DEF l
      <3>6. owner[l] <= Len(blocks)
        BY <3>4, BlockAt
      <3>7. k = l \/ k \in 1 .. l - 1
        BY <2>1, <3>4
      <3>8. k = l
        <4>1. k \in 1 .. l - 1 => owner[k] < owner[l]
          BY <3>4
        <4>2. owner[l] \in Nat /\ Len(blocks) \in Nat
          BY <3>4, BlockAt
        <4> QED
          BY <3>2, <3>6, <3>7, <4>1, <4>2
      <3> QED
        BY <1>4, <3>2, <3>5, <3>8
    <2>4. CASE ~(owner[k] > m)
      <3>1. owner[k] \in 1 .. m
        <4>1. owner[k] \in Nat /\ owner[k] >= 1
          BY <2>1, BlockAt
        <4> QED
          BY <2>4, <4>1 DEF Around
      <3> QED
        BY <2>2, <3>1
    <2> QED
      BY <2>3, <2>4
  <1> QED
    BY <1>3, <1>4 DEF FramesOK

\* A statement inside the others gets a frame.
LEMMA FramesPushed ==
  ASSUME TypeOK, BlocksOK, FramesOK, NEW m, NEW values, Around(m, values),
         Len(blocks') = m + 1, HasFrame(m + 1)', \A i \in DOMAIN blocks : HasFrame(i) => i <= m,
         index'.frames = Append(index.frames, FALSE),
         \A i \in 1 .. m : Guarded(i) => Guarded(i)'
  PROVE  FramesOK'
  <1>1. PICK owner \in [DOMAIN index.frames -> DOMAIN blocks] :
            Owns(owner) /\ \A k \in DOMAIN owner : index.frames[k] => Guarded(owner[k])
    BY DEF FramesOK
  <1>2. PICK l \in Nat : l = Len(index.frames) /\ DOMAIN index.frames = 1 .. l
    <2>1. index.frames \in Seq(BOOLEAN)
      BY DEF TypeOK, Store
    <2> QED
      BY <2>1, LenProperties
  <1>3. /\ DOMAIN index'.frames = 1 .. l + 1 /\ index'.frames[l + 1] = FALSE
        /\ \A k \in 1 .. l : index'.frames[k] = index.frames[k]
    <2>1. index.frames \in Seq(BOOLEAN) /\ FALSE \in BOOLEAN
      BY DEF TypeOK, Store
    <2>2. PICK g : g = Append(index.frames, FALSE)
      OBVIOUS
    <2>3. /\ g \in Seq(BOOLEAN) /\ Len(g) = l + 1 /\ g[l + 1] = FALSE
          /\ \A k \in 1 .. l : g[k] = index.frames[k]
      <3>1. /\ Append(index.frames, FALSE) \in Seq(BOOLEAN)
            /\ Len(Append(index.frames, FALSE)) = Len(index.frames) + 1
            /\ Append(index.frames, FALSE)[Len(index.frames) + 1] = FALSE
            /\ \A k \in 1 .. Len(index.frames) : Append(index.frames, FALSE)[k] = index.frames[k]
        BY <2>1, AppendProperties, Zenon
      <3> QED
        BY <1>2, <2>2, <3>1, Zenon
    <2>4. DOMAIN g = 1 .. l + 1
      BY <2>3, LenProperties
    <2> QED
      BY <2>2, <2>3, <2>4
  <1>4. m \in Nat /\ DOMAIN blocks \subseteq Nat /\ DOMAIN blocks' = 1 .. m + 1
    BY AroundBlocks, BlockAt DEF Around
  <1>5. \A k \in 1 .. l : owner[k] \in DOMAIN blocks /\ HasFrame(owner[k]) /\ owner[k] \in 1 .. m
    <2> TAKE k \in 1 .. l
    <2>1. owner[k] \in DOMAIN blocks
      BY <1>2
    <2>2. HasFrame(owner[k])
      BY <1>1, <1>2, <2>1, Zenon DEF Owns
    <2>3. owner[k] <= m /\ owner[k] >= 1
      BY <2>1, <2>2, BlockAt
    <2> QED
      BY <1>4, <2>1, <2>2, <2>3
  <1>6. /\ \A k, j \in 1 .. l : k < j => owner[k] < owner[j]
        /\ \A i \in DOMAIN blocks : HasFrame(i) <=> \E k \in 1 .. l : owner[k] = i
    BY <1>1, <1>2 DEF Owns
  <1> DEFINE new == [k \in 1 .. l + 1 |-> IF k = l + 1 THEN m + 1 ELSE owner[k]]
  <1>7. /\ DOMAIN new = 1 .. l + 1 /\ new[l + 1] = m + 1
        /\ \A k \in 1 .. l : new[k] = owner[k]
    <2>1. l + 1 \in 1 .. l + 1 /\ \A k \in 1 .. l : k \in 1 .. l + 1 /\ k # l + 1
      BY <1>2
    <2> QED
      BY <2>1
  <1>8. new \in [DOMAIN index'.frames -> DOMAIN blocks']
    <2>1. \A k \in 1 .. l + 1 : (IF k = l + 1 THEN m + 1 ELSE owner[k]) \in 1 .. m + 1
      BY <1>4, <1>5
    <2> QED
      BY <1>3, <1>4, <2>1
  <1> HIDE DEF new
  <1>9. \A k \in 1 .. l + 1 : k = l + 1 \/ k \in 1 .. l
    BY <1>2
  <1>10. ASSUME NEW k \in DOMAIN new, NEW j \in DOMAIN new, k < j
         PROVE  new[k] < new[j]
    <2>1. k \in 1 .. l
      BY <1>2, <1>7, <1>10
    <2>2. j = l + 1 \/ j \in 1 .. l
      BY <1>7, <1>9
    <2>3. new[k] = owner[k] /\ owner[k] \in 1 .. m
      BY <1>5, <1>7, <2>1
    <2>4. CASE j = l + 1
      BY <1>4, <1>7, <2>3, <2>4
    <2>5. CASE j \in 1 .. l
      BY <1>6, <1>7, <1>10, <2>1, <2>3, <2>5
    <2> QED
      BY <2>2, <2>4, <2>5
  <1>11. ASSUME NEW i \in DOMAIN blocks'
         PROVE  HasFrame(i)' <=> \E k \in DOMAIN new : new[k] = i
    <2>1. CASE i = m + 1
      BY <1>7, <1>9, <2>1
    <2>2. CASE i \in 1 .. m
      <3>1. (HasFrame(i)' <=> HasFrame(i)) /\ i \in DOMAIN blocks
        BY <2>2, AroundWalked, AroundBlocks
      <3>2. i # m + 1
        BY <1>4, <2>2
      <3>3. HasFrame(i) <=> \E k \in 1 .. l : owner[k] = i
        BY <1>6, <3>1
      <3>4. \A k \in 1 .. l : k \in 1 .. l + 1
        BY <1>2
      <3>5. (\E k \in DOMAIN new : new[k] = i) <=> \E k \in 1 .. l : owner[k] = i
        BY <1>7, <1>9, <3>2, <3>4, Zenon
      <3> QED
        BY <3>1, <3>3, <3>5
    <2> QED
      BY <1>4, <2>1, <2>2
  <1>12. Owns(new)'
    BY <1>10, <1>11 DEF Owns
  <1>13. ASSUME NEW k \in DOMAIN new, index'.frames[k]
         PROVE  Guarded(new[k])'
    <2>1. k \in 1 .. l
      BY <1>3, <1>7, <1>9, <1>13
    <2>2. index.frames[k] /\ new[k] = owner[k] /\ k \in DOMAIN owner
      BY <1>2, <1>3, <1>7, <1>13, <2>1
    <2> QED
      BY <1>1, <1>5, <2>1, <2>2
  <1> QED
    BY <1>8, <1>12, <1>13 DEF FramesOK

\* The innermost statement gives its frame up.
LEMMA FramesPopped ==
  ASSUME TypeOK, BlocksOK, FramesOK, NEW m, NEW values, Around(m, values),
         Len(blocks) = m + 1, HasFrame(m + 1),
         \A i \in DOMAIN blocks' : i > m => ~HasFrame(i)',
         index'.frames = Front(index.frames),
         \A i \in 1 .. m : Guarded(i) => Guarded(i)'
  PROVE  FramesOK' /\ index.frames # <<>>
  <1>1. PICK owner \in [DOMAIN index.frames -> DOMAIN blocks] :
            Owns(owner) /\ \A k \in DOMAIN owner : index.frames[k] => Guarded(owner[k])
    BY DEF FramesOK
  <1>4. m \in Nat /\ DOMAIN blocks = 1 .. m + 1 /\ DOMAIN blocks' \subseteq Nat \ {0}
    BY AroundBlocks, BlockAt DEF Around
  <1>14. index.frames # <<>>
    <2>1. m + 1 \in DOMAIN blocks
      BY <1>4
    <2>2. Conditional(index)
      BY <2>1, ConditionalIsFramed
    <2> QED
      BY <2>2 DEF Conditional
  <1>2. PICK l \in Nat \ {0} : l = Len(index.frames) /\ DOMAIN index.frames = 1 .. l
    BY <1>1, <1>14, LastFrame
  <1>3. /\ DOMAIN index'.frames = 1 .. l - 1
        /\ \A k \in 1 .. l - 1 : index'.frames[k] = index.frames[k]
    <2>1. index.frames \in Seq(BOOLEAN)
      BY DEF TypeOK, Store
    <2>2. PICK g : g = Front(index.frames)
      OBVIOUS
    <2>3. /\ g \in Seq(BOOLEAN) /\ Len(g) = l - 1 /\ \A k \in 1 .. l - 1 : g[k] = index.frames[k]
      BY <1>2, <1>14, <2>1, <2>2, FrontEffect
    <2>4. DOMAIN g = 1 .. l - 1
      BY <2>3, LenProperties
    <2> QED
      BY <2>2, <2>3, <2>4
  <1>6. /\ \A k, j \in 1 .. l : k < j => owner[k] < owner[j]
        /\ \A i \in DOMAIN blocks : HasFrame(i) <=> \E k \in 1 .. l : owner[k] = i
        /\ \A k \in 1 .. l : owner[k] \in 1 .. m + 1
    BY <1>1, <1>2, <1>4 DEF Owns
  <1>7. owner[l] = m + 1
    <2>1. owner[l] \in DOMAIN blocks /\ \A i \in DOMAIN blocks : HasFrame(i) => i <= owner[l]
      BY <1>1, <1>2, <1>14, LastFrame
    <2>2. m + 1 \in DOMAIN blocks
      BY <1>4
    <2>3. m + 1 <= owner[l]
      BY <2>1, <2>2
    <2> QED
      BY <1>4, <2>1, <2>3
  <1>5. \A k \in 1 .. l - 1 : owner[k] \in 1 .. m
    BY <1>2, <1>4, <1>6, <1>7
  <1> DEFINE new == [k \in 1 .. l - 1 |-> owner[k]]
  <1>8. /\ DOMAIN new = 1 .. l - 1 /\ \A k \in 1 .. l - 1 : new[k] = owner[k]
        /\ new \in [DOMAIN index'.frames -> DOMAIN blocks']
    <2>1. \A k \in 1 .. l - 1 : owner[k] \in DOMAIN blocks'
      BY <1>5, AroundBlocks
    <2> QED
      BY <1>3, <2>1
  <1> HIDE DEF new
  <1>9. \A k \in 1 .. l : k = l \/ k \in 1 .. l - 1
    BY <1>2
  <1>15. \A k \in 1 .. l - 1 : k \in 1 .. l
    BY <1>2
  <1>10. \A k, j \in DOMAIN new : k < j => new[k] < new[j]
    BY <1>6, <1>8, <1>15
  <1>11. ASSUME NEW i \in DOMAIN blocks'
         PROVE  HasFrame(i)' <=> \E k \in DOMAIN new : new[k] = i
    <2>1. CASE i > m
      <3>1. \A k \in DOMAIN new : new[k] # i
        BY <1>4, <1>5, <1>8, <2>1
      <3> QED
        BY <2>1, <3>1
    <2>2. CASE i \in 1 .. m
      <3>1. (HasFrame(i)' <=> HasFrame(i)) /\ i \in DOMAIN blocks
        BY <2>2, AroundWalked, AroundBlocks
      <3>2. i # m + 1
        BY <1>4, <2>2
      <3>3. HasFrame(i) <=> \E k \in 1 .. l : owner[k] = i
        BY <1>6, <3>1
      <3>5. (\E k \in DOMAIN new : new[k] = i) <=> \E k \in 1 .. l : owner[k] = i
        BY <1>7, <1>8, <1>9, <1>15, <3>2, Zenon
      <3> QED
        BY <3>1, <3>3, <3>5
    <2> QED
      BY <1>4, <2>1, <2>2
  <1>12. Owns(new)'
    BY <1>10, <1>11 DEF Owns
  <1>13. ASSUME NEW k \in DOMAIN new, index'.frames[k]
         PROVE  Guarded(new[k])'
    <2>2. index.frames[k] /\ new[k] = owner[k] /\ k \in DOMAIN owner /\ owner[k] \in 1 .. m
      BY <1>2, <1>3, <1>5, <1>8, <1>13, <1>15
    <2> QED
      BY <1>1, <2>2
  <1> QED
    BY <1>8, <1>12, <1>13, <1>14 DEF FramesOK

(***************************************************************************)
(* The store                                                               *)
(***************************************************************************)
\* The fields of the store.
LEMMA StoreFields ==
  ASSUME NEW s \in Store
  PROVE  /\ s.signatures \in Seq(Ids) /\ s.excluded \in BOOLEAN /\ s.shadowed \in 0 .. MaxStatements
         /\ s.pending \in BOOLEAN /\ s.frames \in Seq(BOOLEAN)
         /\ Len(s.signatures) \in Nat /\ DOMAIN s.signatures = 1 .. Len(s.signatures)
         /\ Len(s.frames) \in Nat /\ DOMAIN s.frames = 1 .. Len(s.frames)
         /\ (s.frames = <<>> <=> Len(s.frames) = 0) /\ (s.signatures = <<>> <=> Len(s.signatures) = 0)
  <1>1. /\ s.signatures \in Seq(Ids) /\ s.excluded \in BOOLEAN /\ s.shadowed \in 0 .. MaxStatements
        /\ s.pending \in BOOLEAN /\ s.frames \in Seq(BOOLEAN)
    BY DEF Store
  <1> QED
    BY <1>1, LenProperties, EmptySeq

\* A store with the fields given.
Stored(s, signatures, excluded, shadowed, pending, frames) ==
    /\ s \in Store /\ s.signatures = signatures /\ s.excluded = excluded /\ s.shadowed = shadowed
    /\ s.pending = pending /\ s.frames = frames
\* Each of its fields can be changed by itself.
LEMMA StoreChanges ==
  ASSUME NEW s \in Store, NEW g \in Seq(Ids), NEW e \in BOOLEAN, NEW h \in 0 .. MaxStatements,
         NEW p \in BOOLEAN, NEW f \in Seq(BOOLEAN)
  PROVE  /\ Stored([s EXCEPT !.pending = p], s.signatures, s.excluded, s.shadowed, p, s.frames)
         /\ Stored([s EXCEPT !.excluded = e], s.signatures, e, s.shadowed, s.pending, s.frames)
         /\ Stored([s EXCEPT !.signatures = g], g, s.excluded, s.shadowed, s.pending, s.frames)
         /\ Stored([s EXCEPT !.frames = f], s.signatures, s.excluded, s.shadowed, s.pending, f)
         /\ Stored([s EXCEPT !.signatures = g, !.frames = f], g, s.excluded, s.shadowed, s.pending, f)
         /\ Stored([s EXCEPT !.pending = p, !.signatures = g], g, s.excluded, s.shadowed, p, s.frames)
         /\ Stored([s EXCEPT !.pending = p, !.excluded = e, !.signatures = g], g, e, s.shadowed, p, s.frames)
         /\ Stored([s EXCEPT !.signatures = g, !.excluded = e], g, e, s.shadowed, s.pending, s.frames)
         /\ Stored([s EXCEPT !.signatures = g, !.excluded = e, !.shadowed = h, !.pending = p], g, e, h, p, s.frames)
  <1>1. Stored([s EXCEPT !.pending = p], s.signatures, s.excluded, s.shadowed, p, s.frames)
    BY DEF Store, Stored
  <1>2. Stored([s EXCEPT !.excluded = e], s.signatures, e, s.shadowed, s.pending, s.frames)
    BY DEF Store, Stored
  <1>3. Stored([s EXCEPT !.signatures = g], g, s.excluded, s.shadowed, s.pending, s.frames)
    BY DEF Store, Stored
  <1>4. Stored([s EXCEPT !.frames = f], s.signatures, s.excluded, s.shadowed, s.pending, f)
    BY DEF Store, Stored
  <1>5. Stored([s EXCEPT !.signatures = g, !.frames = f], g, s.excluded, s.shadowed, s.pending, f)
    BY DEF Store, Stored
  <1>6. Stored([s EXCEPT !.pending = p, !.signatures = g], g, s.excluded, s.shadowed, p, s.frames)
    BY DEF Store, Stored
  <1>7. Stored([s EXCEPT !.pending = p, !.excluded = e, !.signatures = g], g, e, s.shadowed, p, s.frames)
    BY DEF Store, Stored
  <1>8. Stored([s EXCEPT !.signatures = g, !.excluded = e], g, e, s.shadowed, s.pending, s.frames)
    BY DEF Store, Stored
  <1>9. Stored([s EXCEPT !.signatures = g, !.excluded = e, !.shadowed = h, !.pending = p], g, e, h, p, s.frames)
    BY DEF Store, Stored
  <1> QED
    BY <1>1, <1>2, <1>3, <1>4, <1>5, <1>6, <1>7, <1>8, <1>9

\* A list with one more, or its last replaced.
LEMMA AppendFacts ==
  ASSUME NEW T, NEW s \in Seq(T), NEW d \in T
  PROVE  LET r == Append(s, d)
         IN  /\ r \in Seq(T) /\ r # <<>> /\ Len(r) = Len(s) + 1 /\ Last(r) = d
             /\ \A k \in 1 .. Len(s) : r[k] = s[k]
             /\ Range(r) = Range(s) \cup {d}
  <1>1. PICK r : r = Append(s, d)
    OBVIOUS
  <1>2. PICK n \in Nat : n = Len(s) /\ DOMAIN s = 1 .. n
    BY LenProperties
  <1>3. r \in Seq(T) /\ Len(r) = n + 1 /\ r[n + 1] = d /\ \A k \in 1 .. n : r[k] = s[k]
    BY <1>1, <1>2, AppendProperties
  <1>4. DOMAIN r = 1 .. n + 1 /\ r # <<>>
    BY <1>3, LenProperties, EmptySeq
  <1>5. Last(r) = d
    BY <1>3 DEF Last
  <1>6. Range(r) = Range(s) \cup {d}
    <2>1. \A k \in 1 .. n + 1 : k = n + 1 \/ k \in 1 .. n
      OBVIOUS
    <2>2. n + 1 \in 1 .. n + 1 /\ \A k \in 1 .. n : k \in 1 .. n + 1
      OBVIOUS
    <2>3. \A x \in Range(r) : x = d \/ x \in Range(s)
      BY <1>2, <1>3, <1>4, <2>1, Zenon DEF Range
    <2>4. d \in Range(r) /\ \A x \in Range(s) : x \in Range(r)
      BY <1>2, <1>3, <1>4, <2>2, Zenon DEF Range
    <2> QED
      BY <2>3, <2>4
  <1> QED
    BY <1>1, <1>2, <1>3, <1>4, <1>5, <1>6, Zenon

\* A sequence with another last element.
WithLast(s, d) == [s EXCEPT ![Len(s)] = d]
LastIsReplaced(T, s, d, r) == /\ r \in Seq(T) /\ r # <<>> /\ Len(r) = Len(s) /\ r[Len(s)] = d
                              /\ \A k \in 1 .. Len(s) : k # Len(s) => r[k] = s[k]
\* Its type, and its elements.
LEMMA ReplaceLast ==
  ASSUME NEW T, NEW s \in Seq(T), NEW d \in T, s # <<>>
  PROVE  LastIsReplaced(T, s, d, WithLast(s, d))
  <1>1. PICK r : r = WithLast(s, d) /\ r = [s EXCEPT ![Len(s)] = d]
    BY DEF WithLast
  <1>2. PICK n \in Nat \ {0} : n = Len(s) /\ DOMAIN s = 1 .. n
    BY LenProperties, EmptySeq
  <1>3. r \in Seq(T) /\ Len(r) = n /\ r[n] = d /\ \A k \in 1 .. n : k # n => r[k] = s[k]
    <2>1. n \in 1 .. Len(s)
      BY <1>2
    <2>2. /\ [s EXCEPT ![n] = d] \in Seq(T) /\ Len([s EXCEPT ![n] = d]) = Len(s)
          /\ \A j \in 1 .. Len(s) : [s EXCEPT ![n] = d][j] = IF j = n THEN d ELSE s[j]
      BY <2>1, ExceptSeq
    <2>3. r = [s EXCEPT ![n] = d]
      BY <1>1, <1>2
    <2>4. r \in Seq(T) /\ Len(r) = n /\ \A j \in 1 .. n : r[j] = IF j = n THEN d ELSE s[j]
      BY <1>2, <2>2, <2>3, Zenon
    <2> QED
      BY <2>4
  <1>4. r # <<>>
    BY <1>3, EmptySeq
  <1>5. LastIsReplaced(T, s, d, r)
    BY <1>2, <1>3, <1>4 DEF LastIsReplaced
  <1> QED
    BY <1>1, <1>5, Zenon

\* What is in such a sequence.
LEMMA ReplacedLast ==
  ASSUME NEW T, NEW s \in Seq(T), NEW d \in T, s # <<>>, NEW r, LastIsReplaced(T, s, d, r)
  PROVE  /\ Last(r) = d /\ d \in Range(r) /\ Range(r) \subseteq Range(s) \cup {d}
         /\ \A x \in Range(s) : x = Last(s) \/ x \in Range(r)
  <1>2. PICK n \in Nat \ {0} : n = Len(s) /\ DOMAIN s = 1 .. n
    BY LenProperties, EmptySeq
  <1>3. r \in Seq(T) /\ Len(r) = n /\ r[n] = d /\ \A k \in 1 .. n : k # n => r[k] = s[k]
    BY <1>2 DEF LastIsReplaced
  <1>4. DOMAIN r = 1 .. n
    BY <1>3, LenProperties
  <1>5. Last(r) = d /\ Last(s) = s[n]
    BY <1>2, <1>3 DEF Last
  <1>7. n \in 1 .. n
    OBVIOUS
  <1>8. \A x \in Range(r) : x = d \/ x \in Range(s)
    BY <1>2, <1>3, <1>4, Zenon DEF Range
  <1>9. d \in Range(r) /\ \A x \in Range(s) : x = Last(s) \/ x \in Range(r)
    BY <1>2, <1>3, <1>4, <1>5, <1>7, Zenon DEF Range
  <1>10. Range(r) \subseteq Range(s) \cup {d}
    BY <1>8
  <1> QED
    BY <1>5, <1>9, <1>10, Zenon

\* A definition not waited for: the last signature is its, and of the others at most the
\* last is lost, where the frame had a definition already.
Inserted(s, new, d) ==
    /\ new \in Store /\ ~new.pending /\ ~new.excluded
    /\ new.signatures # <<>> /\ Last(new.signatures) = d
    /\ d \in Range(new.signatures) /\ Range(new.signatures) \subseteq Range(s.signatures) \cup {d}
    /\ Len(new.frames) = Len(s.frames)
    /\ \A k \in DOMAIN new.frames :
           new.frames[k] => s.frames[k] \/ (Conditional(s) /\ k = Len(s.frames))
    /\ Conditional(s) => \A x \in Range(s.signatures) :
           x \in Range(new.signatures) \/ (x = Last(s.signatures) /\ s.frames[Len(s.frames)])

\* Store::insert_definition inserts.
LEMMA InsertEffect ==
  ASSUME NEW s \in Store, ~s.pending, NEW d \in Ids
  PROVE  Inserted(s, InsertDefinition(s, d), d)
  <1>1. PICK clean : clean = [s EXCEPT !.excluded = FALSE]
    OBVIOUS
  <1>2. FALSE \in BOOLEAN
    OBVIOUS
  <1>3. Stored(clean, s.signatures, FALSE, s.shadowed, s.pending, s.frames)
    BY <1>1, <1>2, StoreFields, StoreChanges
  <1>4. /\ clean \in Store /\ clean.signatures = s.signatures /\ clean.excluded = FALSE
        /\ clean.pending = s.pending /\ clean.frames = s.frames
    BY <1>3, Zenon DEF Stored
  <1>5. s.signatures \in Seq(Ids) /\ s.frames \in Seq(BOOLEAN) /\ clean.shadowed \in 0 .. MaxStatements
    BY <1>4, StoreFields
  <1>6. CASE ~Conditional(s)
    <2>1. InsertDefinition(s, d) = [clean EXCEPT !.signatures = <<d>>]
      BY <1>1, <1>6 DEF InsertDefinition
    <2>2. PICK new : new = [clean EXCEPT !.signatures = <<d>>]
      OBVIOUS
    <2>3. PICK g : g = <<d>>
      OBVIOUS
    <2>4. g \in Seq(Ids) /\ Len(g) = 1 /\ g[1] = d /\ g # <<>>
      BY <2>3, SingleSeq
    <2>5. Stored(new, g, FALSE, clean.shadowed, s.pending, s.frames)
      <3>1. Stored([clean EXCEPT !.signatures = g], g, clean.excluded, clean.shadowed, clean.pending,
                   clean.frames)
        BY <1>2, <1>4, <1>5, <2>4, StoreChanges, StoreFields
      <3> QED
        BY <1>4, <2>2, <2>3, <3>1, Zenon
    <2>6. new \in Store /\ new.signatures = g /\ ~new.pending /\ ~new.excluded /\ new.frames = s.frames
      BY <2>5, Zenon DEF Stored
    <2>7. Last(g) = d /\ d \in Range(g) /\ \A x \in Range(g) : x = d
      BY <2>4 DEF Last, Range
    <2>8. Range(new.signatures) \subseteq Range(s.signatures) \cup {d}
      BY <2>6, <2>7
    <2>9. Inserted(s, new, d)
      BY <1>6, <2>4, <2>6, <2>7, <2>8, Zenon DEF Inserted
    <2> QED
      BY <2>1, <2>2, <2>9, Zenon
  <1>7. CASE Conditional(s)
    <2>1. InsertDefinition(s, d) = InsertConditional(clean, d)
      BY <1>1, <1>7 DEF InsertDefinition
    <2>2. PICK m \in Nat \ {0} : m = Len(s.frames) /\ m \in DOMAIN s.frames /\ DOMAIN s.frames = 1 .. m
      BY <1>5, <1>7, StoreFields DEF Conditional
    <2>3. Last(clean.frames) = s.frames[Len(s.frames)]
      BY <1>4, Zenon DEF Last
    <2>4. CASE s.frames[Len(s.frames)] /\ s.signatures # <<>>
      <3>1. InsertConditional(clean, d) = [clean EXCEPT !.signatures[Len(clean.signatures)] = d]
        BY <1>4, <2>3, <2>4, Zenon DEF InsertConditional
      <3>2. PICK g : g = WithLast(s.signatures, d)
        OBVIOUS
      <3>3. /\ g \in Seq(Ids) /\ g # <<>> /\ Last(g) = d /\ d \in Range(g)
            /\ Range(g) \subseteq Range(s.signatures) \cup {d}
            /\ \A x \in Range(s.signatures) : x = Last(s.signatures) \/ x \in Range(g)
        <4>1. PICK q, B : q = s.signatures /\ B = Ids
          OBVIOUS
        <4>2. d \in B /\ g = WithLast(q, d) /\ q # <<>> /\ q \in Seq(B)
          BY <1>5, <2>4, <3>2, <4>1
        <4>3. /\ g \in Seq(B) /\ g # <<>> /\ Last(g) = d /\ d \in Range(g)
              /\ Range(g) \subseteq Range(q) \cup {d}
              /\ \A x \in Range(q) : x = Last(q) \/ x \in Range(g)
          <5>1. LastIsReplaced(B, q, d, WithLast(q, d))
            BY <4>2, ReplaceLast, Zenon
          <5>2. LastIsReplaced(B, q, d, g)
            BY <4>2, <5>1, Zenon
          <5>3. g \in Seq(B) /\ g # <<>>
            BY <5>2, Zenon DEF LastIsReplaced
          <5> QED
            BY <4>2, <5>2, <5>3, ReplacedLast
        <4> QED
          BY <4>1, <4>3, Zenon
      <3>4. PICK new : new = [clean EXCEPT !.signatures = g]
        OBVIOUS
      <3>5. [clean EXCEPT !.signatures[Len(clean.signatures)] = d] = new
        BY <1>4, <3>2, <3>4 DEF WithLast
      <3>6. Stored([clean EXCEPT !.signatures = g], g, clean.excluded, clean.shadowed, clean.pending,
                   clean.frames)
        BY <1>2, <1>4, <1>5, <3>3, StoreChanges, StoreFields
      <3>7. new \in Store /\ new.signatures = g /\ ~new.pending /\ ~new.excluded /\ new.frames = s.frames
        BY <1>4, <3>4, <3>6, Zenon DEF Stored
      <3>8. Inserted(s, new, d)
        BY <2>4, <3>3, <3>7, Zenon DEF Inserted
      <3> QED
        BY <2>1, <3>1, <3>5, <3>8, Zenon
    <2>5. CASE ~(s.frames[Len(s.frames)] /\ s.signatures # <<>>)
      <3>1. InsertConditional(clean, d) = [clean EXCEPT !.signatures = Append(@, d), !.frames[Len(clean.frames)] = TRUE]
        BY <1>4, <2>3, <2>5, Zenon DEF InsertConditional
      <3>2. PICK g : g = Append(s.signatures, d)
        OBVIOUS
      <3>3. /\ g \in Seq(Ids) /\ g # <<>> /\ Last(g) = d
            /\ Range(g) = Range(s.signatures) \cup {d}
        BY <1>5, <3>2, AppendFacts
      <3>4. PICK f : f = WithLast(s.frames, TRUE)
        OBVIOUS
      <3>5. /\ f \in Seq(BOOLEAN) /\ Len(f) = m
            /\ \A k \in 1 .. m : k # m => f[k] = s.frames[k]
        <4>1. PICK q, B, x : q = s.frames /\ B = BOOLEAN /\ x = TRUE
          OBVIOUS
        <4>2. x \in B /\ f = WithLast(q, x) /\ q # <<>> /\ q \in Seq(B)
          BY <1>5, <1>7, <3>4, <4>1 DEF Conditional
        <4>3. f \in Seq(B) /\ Len(f) = Len(q) /\ \A k \in 1 .. Len(q) : k # Len(q) => f[k] = q[k]
          <5>1. LastIsReplaced(B, q, x, WithLast(q, x))
            BY <4>2, ReplaceLast, Zenon
          <5>2. LastIsReplaced(B, q, x, f)
            BY <4>2, <5>1, Zenon
          <5> QED
            BY <5>2, Zenon DEF LastIsReplaced
        <4> QED
          BY <2>2, <4>1, <4>3, Zenon
      <3>6. PICK new : new = [clean EXCEPT !.signatures = g, !.frames = f]
        OBVIOUS
      <3>7. [clean EXCEPT !.signatures = Append(@, d), !.frames[Len(clean.frames)] = TRUE] = new
        BY <1>4, <3>2, <3>4, <3>6 DEF WithLast
      <3>8. Stored([clean EXCEPT !.signatures = g, !.frames = f], g, clean.excluded, clean.shadowed,
                   clean.pending, f)
        BY <1>2, <1>4, <1>5, <3>3, <3>5, StoreChanges, StoreFields
      <3>9. new \in Store /\ new.signatures = g /\ ~new.pending /\ ~new.excluded /\ new.frames = f
        BY <1>4, <3>6, <3>8, Zenon DEF Stored
      <3>10. ASSUME NEW k \in DOMAIN new.frames, new.frames[k]
             PROVE  s.frames[k] \/ (Conditional(s) /\ k = Len(s.frames))
        <4>1. k \in 1 .. m
          BY <3>5, <3>9, LenProperties
        <4> QED
          BY <1>7, <2>2, <3>5, <3>9, <3>10, <4>1, Zenon
      <3>11. d \in Range(g) /\ Range(g) \subseteq Range(s.signatures) \cup {d}
             /\ \A x \in Range(s.signatures) : x \in Range(g)
        BY <3>3
      <3>12. Inserted(s, new, d)
        BY <2>2, <3>3, <3>5, <3>9, <3>10, <3>11, Zenon DEF Inserted
      <3> QED
        BY <2>1, <3>1, <3>7, <3>12, Zenon
    <2> QED
      BY <2>4, <2>5
  <1> QED
    BY <1>6, <1>7

\* An overload joins those that wait with it.
LEMMA OverloadEffect ==
  ASSUME NEW s \in Store, NEW d \in Ids
  PROVE  LET new == InsertOverload(s, d)
         IN  /\ new \in Store /\ new.pending /\ new.excluded = s.excluded /\ new.frames = s.frames
             /\ new.signatures # <<>> /\ Last(new.signatures) = d
             /\ Range(new.signatures) = (IF s.pending THEN Range(s.signatures) ELSE {}) \cup {d}
  <1>1. PICK old : old = IF s.pending THEN s.signatures ELSE <<>>
    OBVIOUS
  <1>2. PICK g : g = Append(old, d)
    OBVIOUS
  <1>3. old \in Seq(Ids) /\ (s.pending => old = s.signatures) /\ (~s.pending => old = <<>>)
    BY <1>1, StoreFields
  <1>4. g \in Seq(Ids) /\ g # <<>> /\ Last(g) = d /\ Range(g) = Range(old) \cup {d}
    BY <1>2, <1>3, AppendFacts
  <1>5. Range(old) = IF s.pending THEN Range(s.signatures) ELSE {}
    <2>1. ASSUME ~s.pending
          PROVE  Range(old) = {}
      BY <1>3, <2>1 DEF Range
    <2> QED
      BY <1>3, <2>1
  <1>6. PICK new : new = InsertOverload(s, d)
    OBVIOUS
  <1>7. new = [s EXCEPT !.pending = TRUE, !.signatures = g]
    BY <1>1, <1>2, <1>6 DEF InsertOverload
  <1>8. PICK p \in BOOLEAN : p = TRUE
    OBVIOUS
  <1>9. Stored([s EXCEPT !.pending = p, !.signatures = g], g, s.excluded, s.shadowed, p, s.frames)
    BY <1>4, <1>8, StoreFields, StoreChanges
  <1>10. /\ new \in Store /\ new.pending /\ new.excluded = s.excluded /\ new.frames = s.frames
         /\ new.signatures = g
    BY <1>7, <1>8, <1>9, Zenon DEF Stored
  <1> QED
    BY <1>4, <1>5, <1>6, <1>10, Zenon

\* A function that dispatches is left alone, a decorated one is the only signature.
LEMMA EveryRunEffect ==
  ASSUME NEW s \in Store, NEW d \in Ids
  PROVE  /\ LET new == Dispatch(s)
            IN  /\ new \in Store /\ new.excluded /\ new.signatures = s.signatures
                /\ new.pending = s.pending /\ new.frames = s.frames
         /\ LET new == InsertRuntime(s, d)
            IN  /\ new \in Store /\ ~new.excluded /\ ~new.pending /\ new.frames = s.frames
                /\ new.signatures # <<>> /\ Last(new.signatures) = d /\ Range(new.signatures) = {d}
  <1>1. PICK p \in BOOLEAN, e \in BOOLEAN, g \in {<<d>>} : p = FALSE /\ e = TRUE /\ g = <<d>>
    OBVIOUS
  <1>2. g \in Seq(Ids) /\ Len(g) = 1 /\ g[1] = d /\ g # <<>>
    BY <1>1, SingleSeq
  <1>3. Last(g) = d /\ Range(g) = {d}
    BY <1>2 DEF Last, Range
  <1>4. /\ Stored([s EXCEPT !.excluded = e], s.signatures, e, s.shadowed, s.pending, s.frames)
        /\ Stored([s EXCEPT !.pending = p, !.excluded = p, !.signatures = g], g, p, s.shadowed, p, s.frames)
    BY <1>1, <1>2, StoreFields, StoreChanges
  <1>5. Dispatch(s) = [s EXCEPT !.excluded = e]
    BY <1>1 DEF Dispatch
  <1>6. InsertRuntime(s, d) = [s EXCEPT !.pending = p, !.excluded = p, !.signatures = g]
    BY <1>1 DEF InsertRuntime
  <1>7. PICK a, b : a = Dispatch(s) /\ b = InsertRuntime(s, d)
    OBVIOUS
  <1>8. Stored(a, s.signatures, e, s.shadowed, s.pending, s.frames) /\ Stored(b, g, p, s.shadowed, p, s.frames)
    BY <1>4, <1>5, <1>6, <1>7, Zenon
  <1>9. /\ a \in Store /\ a.excluded /\ a.signatures = s.signatures
        /\ a.pending = s.pending /\ a.frames = s.frames
        /\ b \in Store /\ ~b.excluded /\ ~b.pending /\ b.frames = s.frames /\ b.signatures = g
    BY <1>1, <1>8, Zenon DEF Stored
  <1> QED
    BY <1>2, <1>3, <1>7, <1>9, Zenon

\* A name given up has no signature any more.
LEMMA GivenUpEffect ==
  ASSUME NEW s \in Store
  PROVE  /\ LET new == Exclude(s)
            IN  /\ new \in Store /\ new.signatures = <<>> /\ new.pending = s.pending
                /\ new.frames = s.frames
         /\ ~Conditional(s) => LET new == RemoveBinding(s)
            IN  /\ new \in Store /\ new.signatures = <<>> /\ ~new.pending /\ new.frames = s.frames
  <1>1. PICK p \in BOOLEAN, e \in BOOLEAN, g \in {<<>>}, h \in {0} : p = FALSE /\ e = TRUE /\ g = <<>> /\ h = 0
    OBVIOUS
  <1>2. g \in Seq(Ids) /\ h \in 0 .. MaxStatements
    BY <1>1, DefinitionsAssumption
  <1>3. /\ Stored([s EXCEPT !.signatures = g, !.excluded = e], g, e, s.shadowed, s.pending, s.frames)
        /\ Stored([s EXCEPT !.signatures = g, !.excluded = p, !.shadowed = h, !.pending = p],
                  g, p, h, p, s.frames)
    BY <1>1, <1>2, StoreFields, StoreChanges
  <1>4. Exclude(s) = [s EXCEPT !.signatures = g, !.excluded = e]
    BY <1>1 DEF Exclude
  <1>5. ~Conditional(s) => RemoveBinding(s) = [s EXCEPT !.signatures = g, !.excluded = p, !.shadowed = h, !.pending = p]
    BY <1>1 DEF RemoveBinding
  <1>6. PICK a, b : a = Exclude(s) /\ b = RemoveBinding(s)
    OBVIOUS
  <1>7. /\ Stored(a, g, e, s.shadowed, s.pending, s.frames)
        /\ ~Conditional(s) => Stored(b, g, p, h, p, s.frames)
    BY <1>3, <1>4, <1>5, <1>6, Zenon
  <1>8. /\ a \in Store /\ a.signatures = <<>> /\ a.pending = s.pending /\ a.frames = s.frames
        /\ ~Conditional(s) => b \in Store /\ b.signatures = <<>> /\ ~b.pending /\ b.frames = s.frames
    BY <1>1, <1>7, Zenon DEF Stored
  <1> QED
    BY <1>6, <1>8, Zenon

\* The implementation of overloads ends their wait.
LEMMA ImplementedEffect ==
  ASSUME NEW s \in Store, s.pending, NEW d
  PROVE  LET new == InsertDefinition(s, d)
         IN  /\ new \in Store /\ ~new.pending /\ new.signatures = s.signatures
             /\ new.excluded = s.excluded /\ new.frames = s.frames
  <1>1. PICK p \in BOOLEAN : p = FALSE
    OBVIOUS
  <1>2. Stored([s EXCEPT !.pending = p], s.signatures, s.excluded, s.shadowed, p, s.frames)
    BY <1>1, StoreFields, StoreChanges
  <1>3. PICK new : new = InsertDefinition(s, d)
    OBVIOUS
  <1>4. new = [s EXCEPT !.pending = p]
    BY <1>1, <1>3 DEF InsertDefinition
  <1>5. /\ new \in Store /\ ~new.pending /\ new.signatures = s.signatures
        /\ new.excluded = s.excluded /\ new.frames = s.frames
    BY <1>1, <1>2, <1>4, Zenon DEF Stored
  <1> QED
    BY <1>3, <1>5, Zenon

\* Only the frames change where a suite begins or ends.
SameButFrames(s, new) == /\ new \in Store /\ new.signatures = s.signatures /\ new.excluded = s.excluded
                         /\ new.pending = s.pending
\* Pushing, popping and clearing a frame change the frames only.
LEMMA FrameEffects ==
  ASSUME NEW s \in Store
  PROVE  /\ SameButFrames(s, Push(s)) /\ Push(s).frames = Append(s.frames, FALSE)
         /\ s.frames # <<>> => SameButFrames(s, Pop(s)) /\ Pop(s).frames = Front(s.frames)
         /\ SameButFrames(s, Clear(s)) /\ Len(Clear(s).frames) = Len(s.frames)
         /\ \A k \in DOMAIN Clear(s).frames : Clear(s).frames[k] => s.frames[k] /\ k # Len(s.frames)
  <1>1. PICK B, x, q, p : B = BOOLEAN /\ x = FALSE /\ q = s.frames /\ p = s.pending
    OBVIOUS
  <1>2. x \in B /\ q \in Seq(B)
    BY <1>1, StoreFields
  <1>3. \A f \in Seq(B) : Stored([s EXCEPT !.frames = f], s.signatures, s.excluded, s.shadowed, s.pending, f)
    <2> SUFFICES ASSUME NEW f \in Seq(BOOLEAN)
                 PROVE  Stored([s EXCEPT !.frames = f], s.signatures, s.excluded, s.shadowed, s.pending, f)
      BY <1>1
    <2> QED
      BY StoreFields, StoreChanges
  <1>4. \A f \in Seq(B) : SameButFrames(s, [s EXCEPT !.frames = f]) /\ [s EXCEPT !.frames = f].frames = f
    BY <1>3, Zenon DEF Stored, SameButFrames
  <1>5. SameButFrames(s, Push(s)) /\ Push(s).frames = Append(s.frames, FALSE)
    <2>1. Append(q, x) \in Seq(B)
      BY <1>2, AppendFacts
    <2>2. Push(s) = [s EXCEPT !.frames = Append(q, x)]
      BY <1>1 DEF Push
    <2> QED
      BY <1>1, <1>4, <2>1, <2>2, Zenon
  <1>6. ASSUME s.frames # <<>>
        PROVE  SameButFrames(s, Pop(s)) /\ Pop(s).frames = Front(s.frames)
    <2>1. Front(q) \in Seq(B)
      BY <1>1, <1>2, <1>6, FrontEffect
    <2>2. Pop(s) = [s EXCEPT !.frames = Front(q)]
      BY <1>1 DEF Pop
    <2> QED
      BY <1>1, <1>4, <2>1, <2>2, Zenon
  <1>7. CASE ~Conditional(s)
    <2>1. Clear(s) = s /\ s.frames = <<>> /\ SameButFrames(s, s)
      BY <1>7 DEF Clear, Conditional, SameButFrames
    <2>2. DOMAIN Clear(s).frames = {}
      BY <2>1, StoreFields
    <2> QED
      BY <1>5, <1>6, <2>1, <2>2
  <1>8. CASE Conditional(s)
    <2>1. q # <<>>
      BY <1>1, <1>8 DEF Conditional
    <2>2. LastIsReplaced(B, q, x, WithLast(q, x))
      BY <1>2, <2>1, ReplaceLast, Zenon
    <2>3. PICK f : f = WithLast(q, x)
      OBVIOUS
    <2>4. LastIsReplaced(B, q, x, f)
      BY <2>2, <2>3, Zenon
    <2>5. /\ f \in Seq(B) /\ Len(f) = Len(q) /\ f[Len(q)] = x
          /\ \A k \in 1 .. Len(q) : k # Len(q) => f[k] = q[k]
      BY <2>4, Zenon DEF LastIsReplaced
    <2>6. Clear(s) = [s EXCEPT !.frames = f]
      BY <1>1, <1>8, <2>3 DEF Clear, WithLast
    <2>7. SameButFrames(s, Clear(s)) /\ Clear(s).frames = f
      BY <1>4, <2>5, <2>6, Zenon
    <2>8. DOMAIN f = 1 .. Len(q)
      BY <2>5, LenProperties
    <2>9. \A k \in DOMAIN Clear(s).frames : Clear(s).frames[k] => s.frames[k] /\ k # Len(s.frames)
      BY <1>1, <2>5, <2>7, <2>8, Zenon
    <2> QED
      BY <1>1, <1>5, <1>6, <2>5, <2>7, <2>9, Zenon
  <1> QED
    BY <1>7, <1>8

(***************************************************************************)
(* What a statement does                                                   *)
(***************************************************************************)
\* The index follows a rebinding by giving the name up, or is left as it is, by design
\* where it judges the name.
Rebinds(values) ==
    /\ Complete /\ index'.frames = index.frames
    /\ \E ignored \in BOOLEAN : values = Rebound(ignored) /\ (Judged' /\ live # {} => ignored)
    /\ \/ index' = index
       \/ /\ Walked /\ ~Conditional(index) /\ MayBind /\ index'.signatures = <<>>
          /\ index'.pending => index.pending
\* A definition where nothing else may be live has its signature, and the overloads
\* it is one of have theirs.
Alone(values) ==
    /\ values # {} /\ index'.frames = index.frames
    /\ \A i \in DOMAIN blocks : Flow(blocks[i]) = {} /\ ~Raising(blocks[i])
    /\ Range(index'.signatures) \subseteq Range(index.signatures) \cup {Here}
    /\ \A v \in values :
           /\ v.waiting = index'.pending /\ v.arms # {} /\ v.arms \subseteq 1 .. Here
           /\ ~index'.excluded => v.arms \subseteq Range(index'.signatures)
\* Any other definition is inserted.
Defines(values) ==
    /\ live # {} /\ WalkedDefinition /\ MayDefine /\ ~index.pending
    /\ Inserted(index, index', Here) /\ values = Defined(Here)
\* A statement is one of these.
Written(values) ==
    /\ index' \in Store /\ Statement(index', values) /\ values \in SUBSET Value
    /\ live = {} => values = {}
    /\ Rebinds(values) \/ Alone(values) \/ Defines(values)

\* The number of the statement being written is a new one.
LEMMA HereIs ==
  ASSUME TypeOK, size < MaxStatements
  PROVE  /\ Here \in Ids /\ Here \in Nat /\ Here = size + 1 /\ size \in Nat /\ Here \in 1 .. Here
         /\ \A S : S \subseteq 1 .. size => S \subseteq 1 .. Here /\ Here \notin S
  <1>1. size \in 0 .. MaxStatements /\ MaxStatements \in Nat
    BY DefinitionsAssumption DEF TypeOK
  <1>2. Here = size + 1
    BY DEF Here
  <1>3. /\ Here \in Ids /\ Here \in Nat /\ size \in Nat /\ Here \in 1 .. Here
        /\ Here \notin 1 .. size /\ 1 .. size \subseteq 1 .. Here
    BY <1>1, <1>2 DEF Ids
  <1> QED
    BY <1>2, <1>3

\* The value of a definition.
LEMMA DefinedType ==
  ASSUME NEW d \in Ids, NEW arms \in SUBSET Ids, NEW waiting \in BOOLEAN
  PROVE  /\ [arms |-> arms, waiting |-> waiting, ignored |-> FALSE] \in Value
         /\ Defined(d) \in SUBSET Value
         /\ \A v \in Defined(d) : v.arms = {d} /\ ~v.waiting
         /\ live = {} <=> Defined(d) = {}
  <1>1. [arms |-> arms, waiting |-> waiting, ignored |-> FALSE] \in Value
    BY DEF Value
  <1>2. PICK a : a = {d}
    OBVIOUS
  <1>3. PICK u : u = [arms |-> a, waiting |-> FALSE, ignored |-> FALSE]
    OBVIOUS
  <1>4. u \in Value /\ u.arms = a /\ ~u.waiting
    BY <1>2, <1>3 DEF Value
  <1>5. Defined(d) = {u : v \in live}
    BY <1>2, <1>3, Zenon DEF Defined
  <1>6. \A v \in Defined(d) : v = u
    BY <1>5
  <1>7. live = {} <=> Defined(d) = {}
    BY <1>5
  <1>8. Defined(d) \in SUBSET Value /\ \A v \in Defined(d) : v.arms = a /\ ~v.waiting
    BY <1>4, <1>6
  <1> QED
    BY <1>1, <1>2, <1>7, <1>8, Zenon

\* A definition nothing gets to is not seen.
LEMMA NothingDefined ==
  ASSUME TypeOK, Approximations = {}, live = {}, MayDefine, NEW new, NEW values, values = {},
         Statement(SeenDefinition(new), values)
  PROVE  Written(values)
  <1>1. ~WalkedDefinition
    BY MayDefineMeans
  <1>2. index' = index /\ index \in Store
    BY <1>1 DEF Statement, SeenDefinition, TypeOK
  <1>3. Statement(index', values)
    BY DEF Statement
  <1>4. Rebound(TRUE) = {}
    BY DEF Rebound
  <1>5. Rebinds(values)
    <2>1. \E ignored \in BOOLEAN : values = Rebound(ignored) /\ (Judged' /\ live # {} => ignored)
      <3>1. values = Rebound(TRUE) /\ TRUE \in BOOLEAN
        BY <1>4
      <3> QED
        BY <3>1, Zenon
    <2> QED
      BY <1>2, <2>1, Zenon DEF Rebinds, Complete
  <1> QED
    BY <1>2, <1>3, <1>5 DEF Written

\* Where every run gets to, in no frame and nothing raised, nothing else may be live.
LEMMA EveryRunAlone ==
  ASSUME TypeOK, BlocksOK, SuitesOK, FramesOK, Walked, Approximations = {}, NEW a, InEveryRun(a),
         NEW i \in DOMAIN blocks
  PROVE  Flow(blocks[i]) = {} /\ ~Raising(blocks[i]) /\ ~Conditional(index)
  <1>1. ~Conditional(index) /\ \A b \in Range(blocks) : ~Raising(b)
    BY DEF InEveryRun
  <1>2. ~Raising(blocks[i])
    BY <1>1 DEF Range
  <1> QED
    BY <1>1, <1>2, Unframed

\* A def is such a statement, whether overloads wait for it or not.
LEMMA DefineFunctionIs ==
  ASSUME TypeOK, BlocksOK, Numbered, DeadSuites, SuitesOK, FramesOK, KeptOK, WaitingOK,
         Approximations = {}, DefineFunction
  PROVE  \E values : Written(values)
  <1> DEFINE f(v) == IF v.waiting THEN [v EXCEPT !.waiting = FALSE]
                     ELSE [arms |-> {Here}, waiting |-> FALSE, ignored |-> FALSE]
  <1>1. PICK values : values = {f(v) : v \in live}
    OBVIOUS
  <1>2. MayDefine /\ Statement(SeenDefinition(InsertDefinition(index, Here)), values)
    BY <1>1 DEF DefineFunction
  <1>3. Statement(index', values) /\ index' = SeenDefinition(InsertDefinition(index, Here))
        /\ size < MaxStatements
    BY <1>2 DEF Statement
  <1>4. CASE live = {}
    BY <1>1, <1>2, <1>4, NothingDefined
  <1>5. CASE live # {}
    <2>1. WalkedDefinition
      BY <1>2, <1>5, DefinitionWalked
    <2>2. index' = InsertDefinition(index, Here) /\ index \in Store /\ live \in SUBSET Value
      BY <1>3, <2>1 DEF SeenDefinition, TypeOK
    <2>3. /\ Here \in Ids /\ Here \in 1 .. Here
          /\ \A S : S \subseteq 1 .. size => S \subseteq 1 .. Here /\ Here \notin S
      BY <1>3, HereIs
    <2>4. \A v \in live : v.waiting = index.pending /\ (v.waiting => v.arms # {})
      BY DEF WaitingOK, AsIndexed
    <2>9. index.pending \in BOOLEAN
      BY <2>2, StoreFields
    <2>5. CASE index.pending
      <3>1. /\ index' \in Store /\ ~index'.pending /\ index'.signatures = index.signatures
            /\ index'.excluded = index.excluded /\ index'.frames = index.frames
        BY <2>2, <2>5, ImplementedEffect
      <3>7. index'.pending = FALSE
        BY <3>1, StoreFields
      <3>2. ASSUME NEW v \in live
            PROVE  f(v) \in Value /\ f(v).waiting = FALSE /\ f(v).arms = v.arms
        <4>1. v \in Value /\ v.waiting
          BY <2>2, <2>4, <2>5
        <4>2. f(v) = [v EXCEPT !.waiting = FALSE]
          BY <4>1
        <4> QED
          BY <4>1, <4>2 DEF Value
      <3> HIDE DEF f
      <3>3. values \in SUBSET Value /\ values # {}
        BY <1>1, <1>5, <3>2
      <3>4. ASSUME NEW u \in values
            PROVE  /\ u.waiting = index'.pending /\ u.arms # {} /\ u.arms \subseteq 1 .. Here
                   /\ ~index'.excluded => u.arms \subseteq Range(index'.signatures)
        <4>1. PICK v \in live : u = f(v)
          BY <1>1
        <4>2. u.waiting = FALSE /\ u.arms = v.arms
          BY <3>2, <4>1
        <4>3. v.arms # {} /\ v.arms \subseteq 1 .. Here
          BY <2>3, <2>4, <2>5 DEF Numbered
        <4>4. ~index.excluded => v.arms \subseteq Range(index.signatures)
          BY DEF KeptOK, Kept
        <4> QED
          BY <3>1, <3>7, <4>2, <4>3, <4>4, Zenon
      <3>5. ASSUME NEW i \in DOMAIN blocks
            PROVE  Flow(blocks[i]) = {} /\ ~Raising(blocks[i])
        BY <1>5, <2>5 DEF WaitingOK, WaitsHere
      <3>6. Alone(values)
        <4>1. Range(index'.signatures) \subseteq Range(index.signatures) \cup {Here}
          BY <3>1, Zenon
        <4> QED
          BY <3>1, <3>3, <3>4, <3>5, <4>1, Zenon DEF Alone
      <3> QED
        BY <1>3, <1>5, <3>1, <3>3, <3>6, Zenon DEF Written
    <2>6. CASE ~index.pending
      <3>1. values = Defined(Here)
        <4>1. \A v \in live : f(v) = [arms |-> {Here}, waiting |-> FALSE, ignored |-> FALSE]
          BY <2>4, <2>6, <2>9
        <4> HIDE DEF f
        <4> QED
          BY <1>1, <4>1, Zenon DEF Defined
      <3>2. Inserted(index, index', Here)
        BY <2>2, <2>3, <2>6, InsertEffect
      <3>3. index' \in Store /\ values \in SUBSET Value
        BY <2>3, <3>1, <3>2, DefinedType DEF Inserted
      <3>4. Defines(values)
        BY <1>2, <1>5, <2>1, <2>6, <3>1, <3>2 DEF Defines
      <3> QED
        BY <1>3, <1>5, <3>3, <3>4, Zenon DEF Written
    <2> QED
      BY <2>5, <2>6
  <1> QED
    BY <1>4, <1>5

\* So is an overload, which nothing else is live beside.
LEMMA DefineOverloadIs ==
  ASSUME TypeOK, BlocksOK, Numbered, DeadSuites, SuitesOK, FramesOK, KeptOK, WaitingOK,
         Approximations = {}, DefineOverload
  PROVE  \E values : Written(values)
  <1> DEFINE old(v) == IF v.waiting THEN v.arms ELSE {}
             f(v) == [arms |-> {Here} \cup old(v), waiting |-> TRUE, ignored |-> FALSE]
  <1>1. PICK values : values = {f(v) : v \in live}
    OBVIOUS
  <1>2. /\ MayDefine /\ InEveryRun("overloads in branches")
        /\ Statement(SeenDefinition(InsertOverload(index, Here)), values)
    BY <1>1 DEF DefineOverload
  <1>3. Statement(index', values) /\ index' = SeenDefinition(InsertOverload(index, Here))
        /\ size < MaxStatements
    BY <1>2 DEF Statement
  <1>4. CASE live = {}
    BY <1>1, <1>2, <1>4, NothingDefined
  <1>5. CASE live # {}
    <2>1. WalkedDefinition /\ Walked
      BY <1>2, <1>5, DefinitionWalked DEF WalkedDefinition
    <2>2. index' = InsertOverload(index, Here) /\ index \in Store /\ live \in SUBSET Value
      BY <1>3, <2>1 DEF SeenDefinition, TypeOK
    <2>3. /\ Here \in Ids /\ Here \in 1 .. Here
          /\ \A S : S \subseteq 1 .. size => S \subseteq 1 .. Here
      BY <1>3, HereIs
    <2>4. /\ index' \in Store /\ index'.pending /\ index'.excluded = index.excluded
          /\ index'.frames = index.frames
          /\ Range(index'.signatures) = (IF index.pending THEN Range(index.signatures) ELSE {}) \cup {Here}
      BY <2>2, <2>3, OverloadEffect
    <2>5. index'.pending = TRUE
      BY <2>4, StoreFields
    <2>6. ASSUME NEW v \in live
          PROVE  /\ f(v) \in Value /\ f(v).waiting = TRUE /\ f(v).arms # {}
                 /\ f(v).arms \subseteq 1 .. Here
                 /\ ~index.excluded => f(v).arms \subseteq Range(index'.signatures)
      <3>1. v \in Value /\ v.arms \subseteq Ids /\ v.waiting = index.pending
        BY <2>2 DEF WaitingOK, AsIndexed, Value
      <3>2. PICK a : a = {Here} \cup old(v)
        OBVIOUS
      <3>3. a \in SUBSET Ids /\ a # {}
        BY <2>3, <3>1, <3>2
      <3>4. f(v) = [arms |-> a, waiting |-> TRUE, ignored |-> FALSE]
        BY <3>2, Zenon
      <3>5. f(v) \in Value /\ f(v).waiting = TRUE /\ f(v).arms = a
        BY <3>3, <3>4 DEF Value
      <3>6. v.arms \subseteq 1 .. Here
        BY <2>3 DEF Numbered
      <3>7. a \subseteq 1 .. Here
        BY <2>3, <3>2, <3>6
      <3>8. ASSUME ~index.excluded
            PROVE  a \subseteq Range(index'.signatures)
        <4>1. v.arms \subseteq Range(index.signatures)
          BY <3>8 DEF KeptOK, Kept
        <4>2. CASE v.waiting
          BY <2>4, <3>1, <3>2, <4>1, <4>2
        <4>3. CASE ~v.waiting
          BY <2>4, <3>2, <4>3
        <4> QED
          BY <4>2, <4>3
      <3> QED
        BY <3>3, <3>5, <3>7, <3>8, Zenon
    <2> HIDE DEF f
    <2>7. values \in SUBSET Value /\ values # {}
      BY <1>1, <1>5, <2>6
    <2>8. ASSUME NEW u \in values
          PROVE  /\ u.waiting = index'.pending /\ u.arms # {} /\ u.arms \subseteq 1 .. Here
                 /\ ~index'.excluded => u.arms \subseteq Range(index'.signatures)
      <3>1. PICK v \in live : u = f(v)
        BY <1>1
      <3> QED
        BY <2>4, <2>5, <2>6, <3>1, Zenon
    <2>9. \A i \in DOMAIN blocks : Flow(blocks[i]) = {} /\ ~Raising(blocks[i])
      BY <1>2, <2>1, EveryRunAlone
    <2>10. Range(index'.signatures) \subseteq Range(index.signatures) \cup {Here}
      BY <2>4
    <2>11. Alone(values)
      BY <2>4, <2>7, <2>8, <2>9, <2>10, Zenon DEF Alone
    <2> QED
      BY <1>3, <1>5, <2>4, <2>7, <2>11, Zenon DEF Written
  <1> QED
    BY <1>4, <1>5

\* A definition in every run that leaves one signature, or a name left alone.
LEMMA EveryRunIs ==
  ASSUME TypeOK, BlocksOK, DeadSuites, SuitesOK, FramesOK, Approximations = {}, live # {}, Walked,
         size < MaxStatements, NEW a, InEveryRun(a), index' \in Store, index'.frames = index.frames,
         index'.pending = FALSE, Statement(index', Defined(Here)),
         Range(index'.signatures) \subseteq Range(index.signatures) \cup {Here},
         index'.excluded \/ Here \in Range(index'.signatures)
  PROVE  Written(Defined(Here))
  <1>1. Here \in Ids /\ Here \in 1 .. Here
    BY HereIs
  <1>2. PICK values : values = Defined(Here)
    OBVIOUS
  <1>3. /\ values \in SUBSET Value /\ values # {} /\ \A v \in values : v.arms = {Here} /\ ~v.waiting
    BY <1>1, <1>2, DefinedType
  <1>4. \A i \in DOMAIN blocks : Flow(blocks[i]) = {} /\ ~Raising(blocks[i])
    BY EveryRunAlone
  <1>5. ASSUME NEW v \in values
        PROVE  /\ v.waiting = index'.pending /\ v.arms # {} /\ v.arms \subseteq 1 .. Here
               /\ ~index'.excluded => v.arms \subseteq Range(index'.signatures)
    <2>1. v \in Value /\ v.arms = {Here} /\ ~v.waiting
      BY <1>3
    <2>2. v.waiting = FALSE
      BY <2>1 DEF Value
    <2> QED
      BY <1>1, <2>1, <2>2
  <1>6. Alone(values)
    BY <1>3, <1>4, <1>5, Zenon DEF Alone
  <1>7. Written(values)
    BY <1>2, <1>3, <1>6, Zenon DEF Written
  <1> QED
    BY <1>2, <1>7, Zenon

\* No overloads wait here, and so none in the index.
LEMMA CompleteIs ==
  ASSUME TypeOK, WaitingOK, Complete, live # {}
  PROVE  index.pending = FALSE
  <1>1. PICK v \in live : ~v.waiting /\ v.waiting = index.pending
    BY DEF Complete, WaitingOK, AsIndexed
  <1>2. index.pending \in BOOLEAN
    BY StoreFields DEF TypeOK
  <1> QED
    BY <1>1, <1>2

\* So is a function of functools.singledispatch.
LEMMA DefineDispatchIs ==
  ASSUME TypeOK, BlocksOK, DeadSuites, SuitesOK, FramesOK, WaitingOK, Approximations = {},
         DefineDispatch
  PROVE  \E values : Written(values)
  <1>1. /\ MayDefine /\ Complete /\ InEveryRun("dispatch and decorators in branches")
        /\ Statement(SeenDefinition(Dispatch(index)), Defined(Here))
    BY DEF DefineDispatch
  <1>2. Statement(index', Defined(Here)) /\ index' = SeenDefinition(Dispatch(index))
        /\ size < MaxStatements
    BY <1>1 DEF Statement
  <1>3. CASE live = {}
    <2>1. Defined(Here) = {}
      BY <1>2, <1>3, HereIs, DefinedType
    <2> QED
      BY <1>1, <1>3, <2>1, NothingDefined
  <1>4. CASE live # {}
    <2>1. WalkedDefinition /\ Walked
      BY <1>1, <1>4, DefinitionWalked DEF WalkedDefinition
    <2>2. index' = Dispatch(index) /\ index \in Store
      BY <1>2, <2>1 DEF SeenDefinition, TypeOK
    <2>3. /\ index' \in Store /\ index'.excluded /\ index'.signatures = index.signatures
          /\ index'.pending = index.pending /\ index'.frames = index.frames
      BY <1>2, <2>2, HereIs, EveryRunEffect
    <2>4. index'.pending = FALSE
      BY <1>1, <1>4, <2>3, CompleteIs
    <2>5. Range(index'.signatures) \subseteq Range(index.signatures) \cup {Here}
      BY <2>3, Zenon
    <2>6. Written(Defined(Here))
      BY <1>1, <1>2, <1>4, <2>1, <2>3, <2>4, <2>5, EveryRunIs
    <2> QED
      BY <2>6
  <1> QED
    BY <1>3, <1>4

\* So is a decorated function.
LEMMA DefineDecoratedIs ==
  ASSUME TypeOK, BlocksOK, DeadSuites, SuitesOK, FramesOK, Approximations = {}, DefineDecorated
  PROVE  \E values : Written(values)
  <1>1. /\ MayDefine /\ InEveryRun("dispatch and decorators in branches")
        /\ Statement(SeenDefinition(InsertRuntime(index, Here)), Defined(Here))
    BY DEF DefineDecorated
  <1>2. Statement(index', Defined(Here)) /\ index' = SeenDefinition(InsertRuntime(index, Here))
        /\ size < MaxStatements
    BY <1>1 DEF Statement
  <1>3. CASE live = {}
    <2>1. Defined(Here) = {}
      BY <1>2, <1>3, HereIs, DefinedType
    <2> QED
      BY <1>1, <1>3, <2>1, NothingDefined
  <1>4. CASE live # {}
    <2>1. WalkedDefinition /\ Walked
      BY <1>1, <1>4, DefinitionWalked DEF WalkedDefinition
    <2>2. index' = InsertRuntime(index, Here) /\ index \in Store
      BY <1>2, <2>1 DEF SeenDefinition, TypeOK
    <2>3. /\ index' \in Store /\ ~index'.pending /\ index'.frames = index.frames
          /\ Range(index'.signatures) = {Here}
      <3>1. PICK d \in Ids : d = Here
        BY <1>2, HereIs
      <3>2. index' = InsertRuntime(index, d)
        BY <2>2, <3>1
      <3> QED
        BY <2>2, <3>1, <3>2, EveryRunEffect
    <2>4. index'.pending = FALSE
      BY <2>3, StoreFields
    <2>5. /\ Range(index'.signatures) \subseteq Range(index.signatures) \cup {Here}
          /\ Here \in Range(index'.signatures)
      BY <2>3
    <2>6. Written(Defined(Here))
      BY <1>1, <1>2, <1>4, <2>1, <2>3, <2>4, <2>5, EveryRunIs
    <2> QED
      BY <2>6
  <1> QED
    BY <1>3, <1>4

\* A rebinding the index leaves alone, and one it follows.
LEMMA LeftAlone ==
  ASSUME TypeOK, NEW ignored \in BOOLEAN, Complete, index' = index,
         Statement(index', Rebound(ignored)), Judged /\ live # {} => ignored
  PROVE  \E values : Written(values)
  <1>1. PICK values : values = Rebound(ignored)
    OBVIOUS
  <1>2. values \in SUBSET Value /\ (live = {} => values = {})
    <2>1. Rebound(ignored) \in SUBSET Value
      BY SomethingType
    <2> QED
      BY <1>1, <2>1 DEF Rebound
  <1>3. Judged' <=> Judged
    BY Zenon DEF Judged
  <1>4. Rebinds(values)
    BY <1>1, <1>3, Zenon DEF Rebinds
  <1>5. index' \in Store /\ Statement(index', values)
    BY <1>1 DEF TypeOK
  <1>6. Written(values)
    BY <1>2, <1>4, <1>5, Zenon DEF Written
  <1> QED
    BY <1>6

\* A rebinding where the index gives the name up.
LEMMA GivenUp ==
  ASSUME TypeOK, NEW ignored \in BOOLEAN, Complete, MayBind, Walked, ~Conditional(index),
         index' \in Store, index'.signatures = <<>>, index'.frames = index.frames,
         index'.pending => index.pending, Statement(index', Rebound(ignored))
  PROVE  \E values : Written(values)
  <1>1. PICK values : values = Rebound(ignored)
    OBVIOUS
  <1>2. values \in SUBSET Value /\ (live = {} => values = {})
    <2>1. Rebound(ignored) \in SUBSET Value
      BY SomethingType
    <2> QED
      BY <1>1, <2>1 DEF Rebound
  <1>3. ~Judged'
    BY DEF Judged
  <1>4. Rebinds(values)
    BY <1>1, <1>3, Zenon DEF Rebinds
  <1>6. Written(values)
    BY <1>1, <1>2, <1>4, Zenon DEF Written
  <1> QED
    BY <1>6

\* An assignment is one of the two.
LEMMA AssignIs ==
  ASSUME TypeOK, BlocksOK, DeadSuites, Approximations = {}, Assign
  PROVE  \E values : Written(values)
  <1> DEFINE ign == Walked /\ Conditional(index)
             new == IF index.excluded THEN index ELSE RemoveBinding(index)
  <1>1. Complete /\ MayBind /\ Statement(Seen(new), Rebound(ign)) /\ ign \in BOOLEAN
    BY DEF Assign
  <1>2. Statement(index', Rebound(ign)) /\ index' = Seen(new) /\ index \in Store
    BY <1>1 DEF Statement, TypeOK
  <1> HIDE DEF ign, new
  <1>3. CASE ~Walked
    <2>1. index' = index /\ live = {}
      BY <1>2, <1>3, WalkedWhereLive DEF Seen
    <2> QED
      BY <1>1, <1>2, <2>1, LeftAlone
  <1>4. CASE Walked /\ (index.excluded \/ Conditional(index))
    <2>1. index' = index
      BY <1>2, <1>4 DEF Seen, RemoveBinding, new
    <2>2. Judged => ign
      BY <1>4 DEF Judged, ign
    <2> QED
      BY <1>1, <1>2, <2>1, <2>2, LeftAlone
  <1>5. CASE Walked /\ ~index.excluded /\ ~Conditional(index)
    <2>1. index' = RemoveBinding(index)
      BY <1>2, <1>5 DEF Seen, new
    <2>2. /\ index' \in Store /\ index'.signatures = <<>> /\ ~index'.pending
          /\ index'.frames = index.frames
      BY <1>2, <1>5, <2>1, GivenUpEffect
    <2> QED
      BY <1>1, <1>2, <1>5, <2>2, GivenUp
  <1> QED
    BY <1>3, <1>4, <1>5

\* So is a lambda in a class body.
LEMMA AssignLambdaIs ==
  ASSUME TypeOK, BlocksOK, DeadSuites, Approximations = {}, AssignLambda
  PROVE  \E values : Written(values)
  <1> DEFINE ign == Walked /\ Conditional(index)
             new == IF Conditional(index) \/ index.signatures = <<>> THEN index ELSE Exclude(index)
  <1>1. Complete /\ MayBind /\ Statement(Seen(new), Rebound(ign)) /\ ign \in BOOLEAN
    BY DEF AssignLambda
  <1>2. Statement(index', Rebound(ign)) /\ index' = Seen(new) /\ index \in Store
    BY <1>1 DEF Statement, TypeOK
  <1> HIDE DEF ign, new
  <1>3. CASE ~Walked
    <2>1. index' = index /\ live = {}
      BY <1>2, <1>3, WalkedWhereLive DEF Seen
    <2> QED
      BY <1>1, <1>2, <2>1, LeftAlone
  <1>4. CASE Walked /\ (index.signatures = <<>> \/ Conditional(index))
    <2>1. index' = index
      BY <1>2, <1>4 DEF Seen, new
    <2>2. Judged => ign
      BY <1>4 DEF Judged, ign
    <2> QED
      BY <1>1, <1>2, <2>1, <2>2, LeftAlone
  <1>5. CASE Walked /\ index.signatures # <<>> /\ ~Conditional(index)
    <2>1. index' = Exclude(index)
      BY <1>2, <1>5 DEF Seen, new
    <2>2. /\ index' \in Store /\ index'.signatures = <<>> /\ index'.pending = index.pending
          /\ index'.frames = index.frames
      BY <1>2, <1>5, <2>1, GivenUpEffect
    <2> QED
      BY <1>1, <1>2, <1>5, <2>2, GivenUp
  <1> QED
    BY <1>3, <1>4, <1>5

\* So is a rebinding that the index keeps the name at.
LEMMA AliasIs ==
  ASSUME TypeOK, Alias
  PROVE  \E values : Written(values)
  <1>1. Complete /\ Statement(index, Rebound(TRUE))
    BY DEF Alias
  <1>2. index' = index /\ Statement(index', Rebound(TRUE))
    BY <1>1 DEF Statement
  <1> QED
    BY <1>1, <1>2, LeftAlone

\* So is an assignment to an attribute of the class.
LEMMA AssignAttributeIs ==
  ASSUME TypeOK, BlocksOK, DeadSuites, Approximations = {}, AssignAttribute
  PROVE  \E values : Written(values)
  <1> DEFINE ign == Walked /\ Conditional(index)
             new == IF Conditional(index) THEN index ELSE Exclude(index)
  <1>1. Complete /\ MayBind /\ Statement(Seen(new), Rebound(ign)) /\ ign \in BOOLEAN
    BY DEF AssignAttribute
  <1>2. Statement(index', Rebound(ign)) /\ index' = Seen(new) /\ index \in Store
    BY <1>1 DEF Statement, TypeOK
  <1> HIDE DEF ign, new
  <1>3. CASE ~Walked
    <2>1. index' = index /\ live = {}
      BY <1>2, <1>3, WalkedWhereLive DEF Seen
    <2> QED
      BY <1>1, <1>2, <2>1, LeftAlone
  <1>4. CASE Walked /\ Conditional(index)
    <2>1. index' = index
      BY <1>2, <1>4 DEF Seen, new
    <2>2. Judged => ign
      BY <1>4 DEF Judged, ign
    <2> QED
      BY <1>1, <1>2, <2>1, <2>2, LeftAlone
  <1>5. CASE Walked /\ ~Conditional(index)
    <2>1. index' = Exclude(index)
      BY <1>2, <1>5 DEF Seen, new
    <2>2. /\ index' \in Store /\ index'.signatures = <<>> /\ index'.pending = index.pending
          /\ index'.frames = index.frames
      BY <1>2, <1>5, <2>1, GivenUpEffect
    <2> QED
      BY <1>1, <1>2, <1>5, <2>2, GivenUp
  <1> QED
    BY <1>3, <1>4, <1>5

\* A statement that opens no suite.
Statements == Define \/ Assign \/ AssignLambda \/ Alias \/ AssignAttribute
\* Every statement that binds the name is such a statement.
LEMMA StatementIs ==
  ASSUME IInv, Approximations = {}, Statements
  PROVE  \E values : Written(values)
  <1>1. /\ TypeOK /\ BlocksOK /\ Numbered /\ DeadSuites /\ SuitesOK /\ FramesOK /\ KeptOK
        /\ WaitingOK
    BY DEF IInv
  <1>2. DefineFunction => \E values : Written(values)
    BY <1>1, DefineFunctionIs
  <1>3. DefineOverload => \E values : Written(values)
    BY <1>1, DefineOverloadIs
  <1>4. DefineDispatch => \E values : Written(values)
    BY <1>1, DefineDispatchIs
  <1>5. DefineDecorated => \E values : Written(values)
    BY <1>1, DefineDecoratedIs
  <1>6. Assign => \E values : Written(values)
    BY <1>1, AssignIs
  <1>7. AssignLambda => \E values : Written(values)
    BY <1>1, AssignLambdaIs
  <1>8. Alias => \E values : Written(values)
    BY <1>1, AliasIs
  <1>9. AssignAttribute => \E values : Written(values)
    BY <1>1, AssignAttributeIs
  <1> QED
    BY <1>2, <1>3, <1>4, <1>5, <1>6, <1>7, <1>8, <1>9, Zenon DEF Statements, Define

\* A statement leaves the suites open as they are.
LEMMA WrittenAround ==
  ASSUME TypeOK, NEW values, Written(values)
  PROVE  /\ Around(Len(blocks), values) /\ Len(blocks') = Len(blocks) /\ live' = values
         /\ size' = size + 1 /\ size < MaxStatements /\ walker' = walker
         /\ values \in SUBSET Value /\ index' \in Store
         /\ SameFrames(Len(blocks))
  <1>1. Statement(index', values) /\ values \in SUBSET Value /\ index' \in Store
    BY DEF Written
  <1>2. /\ size < MaxStatements /\ size' = size + 1 /\ live' = values
        /\ blocks' \in Seq(Block) /\ Len(blocks') = Len(blocks) /\ SameTo(Len(blocks), values)
        /\ walker' = walker
    BY <1>1, StatementEffect
  <1>3. Around(Len(blocks), values)
    BY <1>2, BlockAt DEF Around
  <1>4. SameFrames(Len(blocks))
    <2>1. DOMAIN blocks = 1 .. Len(blocks) /\ DOMAIN blocks' = 1 .. Len(blocks) /\ Len(blocks) \in Nat
      BY <1>2, <1>3, BlockAt, AroundBlocks
    <2>2. ASSUME NEW i \in Nat, i > Len(blocks)
          PROVE  i \notin DOMAIN blocks /\ i \notin DOMAIN blocks'
      BY <2>1, <2>2
    <2> QED
      BY <2>2 DEF SameFrames
  <1> QED
    BY <1>1, <1>2, <1>3, <1>4

\* The values of the statements around are numbered as before.
LEMMA AroundNumbered ==
  ASSUME TypeOK, BlocksOK, Numbered, NEW m, NEW values, Around(m, values),
         1 .. size \subseteq 1 .. size', \A v \in values : v.arms \subseteq 1 .. size',
         NEW i \in 1 .. m, NEW v \in Held(blocks'[i])
  PROVE  v.arms \subseteq 1 .. size'
  <1>1. v \in Held(blocks[i]) \cup values
    BY AroundHeld
  <1>2. i \in DOMAIN blocks
    BY AroundBlocks
  <1>3. CASE v \in Held(blocks[i])
    BY <1>2, <1>3 DEF Numbered
  <1> QED
    BY <1>1, <1>3

\* What a statement leaves in the index, and whose its last signature is.
LEMMA WrittenFacts ==
  ASSUME TypeOK, Numbered, NEW values, Written(values)
  PROVE  /\ Range(index'.signatures) \subseteq Range(index.signatures) \cup {Here}
         /\ \A v \in values : v.arms \subseteq 1 .. Here
         /\ \/ index'.signatures = <<>>
            \/ index'.signatures = index.signatures
            \/ \A j \in DOMAIN blocks : \A v \in Flow(blocks[j]) : Last(index'.signatures) \notin v.arms
  <1>1. /\ Here \in Ids /\ Here \in 1 .. Here
        /\ \A S : S \subseteq 1 .. size => S \subseteq 1 .. Here /\ Here \notin S
    BY WrittenAround, HereIs
  <1>2. CASE Rebinds(values)
    <2>1. index'.signatures = index.signatures \/ index'.signatures = <<>>
      BY <1>2, Zenon DEF Rebinds
    <2>2. index'.signatures = <<>> => Range(index'.signatures) = {}
      BY DEF Range
    <2>3. PICK ignored \in BOOLEAN : values = Rebound(ignored)
      BY <1>2 DEF Rebinds
    <2>4. \A v \in values : v.arms = {}
      BY <2>3, SomethingType DEF Rebound
    <2>5. Range(index'.signatures) \subseteq Range(index.signatures) \cup {Here}
      BY <2>1, <2>2
    <2> QED
      BY <2>1, <2>4, <2>5
  <1>3. CASE Alone(values)
    BY <1>3 DEF Alone
  <1>4. CASE Defines(values)
    <2>1. /\ Last(index'.signatures) = Here
          /\ Range(index'.signatures) \subseteq Range(index.signatures) \cup {Here}
      BY <1>4 DEF Defines, Inserted
    <2>2. \A v \in values : v.arms = {Here}
      BY <1>1, <1>4, DefinedType DEF Defines
    <2>3. ASSUME NEW j \in DOMAIN blocks, NEW v \in Flow(blocks[j])
          PROVE  Here \notin v.arms
      <3>1. v \in Held(blocks[j])
        BY FlowHeld
      <3> QED
        BY <1>1, <3>1 DEF Numbered
    <2>4. \A v \in values : v.arms \subseteq 1 .. Here
      BY <1>1, <2>2
    <2> QED
      BY <2>1, <2>3, <2>4, Zenon
  <1> QED
    BY <1>2, <1>3, <1>4 DEF Written

\* A statement keeps the suites as they are.
LEMMA WrittenBlocks ==
  ASSUME TypeOK, BlocksOK, Numbered, DeadSuites, SuitesOK, NEW values, Written(values)
  PROVE  BlocksOK' /\ Numbered' /\ DeadSuites' /\ SuitesOK'
  <1> DEFINE n == Len(blocks)
  <1>1. /\ Around(n, values) /\ Len(blocks') = n /\ live' = values /\ size' = Here /\ n \in Nat
        /\ size \in Nat
    <2>1. size' = size + 1 /\ size < MaxStatements
      BY WrittenAround
    <2>2. Here = size + 1 /\ size \in Nat
      BY <2>1, HereIs
    <2> QED
      BY <2>1, <2>2, WrittenAround, BlockAt
  <1>2. /\ DOMAIN blocks' = 1 .. n /\ DOMAIN blocks = 1 .. n
    BY <1>1, AroundBlocks, BlockAt
  <1>3. BlocksOK'
    <2>1. \A i \in 1 .. n : BlockOK(blocks'[i])
      BY <1>1, AroundFacts
    <2> QED
      BY <1>2, <2>1 DEF BlocksOK
  <1>4. Numbered'
    <2>1. /\ Range(index'.signatures) \subseteq Range(index.signatures) \cup {Here}
          /\ \A v \in values : v.arms \subseteq 1 .. Here
      BY WrittenFacts
    <2>2. 1 .. size \subseteq 1 .. size' /\ Here \in 1 .. size'
      BY <1>1, WrittenAround, HereIs
    <2>3. Range(index'.signatures) \subseteq 1 .. size'
      BY <2>1, <2>2 DEF Numbered
    <2>4. \A i \in DOMAIN blocks' : \A v \in Held(blocks'[i]) : v.arms \subseteq 1 .. size'
      BY <1>1, <1>2, <2>1, <2>2, AroundNumbered
    <2>5. \A v \in live' : v.arms \subseteq 1 .. size'
      BY <1>1, <2>1
    <2> QED
      BY <2>3, <2>4, <2>5 DEF Numbered
  <1>5. DeadSuites'
    <2>1. ASSUME NEW i \in DOMAIN blocks', NotTaken(blocks'[i])
          PROVE  Dead(i)'
      <3>1. i \in 1 .. n /\ Dead(i)
        BY <1>1, <1>2, <2>1, AroundFacts DEF DeadSuites
      <3>2. values = {} /\ live' = {}
        BY <1>1, <3>1 DEF Dead, Written
      <3>3. \A j \in DOMAIN blocks' : j > n => Held(blocks'[j]) = {}
        BY <1>1, <1>2
      <3> QED
        BY <1>1, <3>1, <3>2, <3>3, AroundDead
    <2> QED
      BY <2>1 DEF DeadSuites
  <1>6. SuitesOK'
    <2>1. ASSUME NEW i \in DOMAIN blocks'
          PROVE  LET c == blocks'[i]
                 IN  /\ c.framed => WalkedTo(i)'
                     /\ c.kind = "branch" /\ ~c.framed /\ WalkedTo(i)' =>
                            \A k \in c.walked \cap DOMAIN c.tests : Taken(c, k)
      <3>1. i \in 1 .. n
        BY <1>2
      <3> QED
        BY <1>1, <3>1, AroundSuites
    <2> QED
      BY <2>1 DEF SuitesOK
  <1> QED
    BY <1>3, <1>4, <1>5, <1>6

\* A frame stays guarded over a statement.
LEMMA WrittenGuarded ==
  ASSUME TypeOK, BlocksOK, Numbered, NEW values, Written(values), NEW i \in 1 .. Len(blocks), Guarded(i)
  PROVE  Guarded(i)'
  <1>1. Around(Len(blocks), values) /\ DOMAIN blocks = 1 .. Len(blocks)
    BY WrittenAround, BlockAt
  <1>2. \/ index'.signatures = <<>>
        \/ index'.signatures = index.signatures
        \/ \A j \in 1 .. Len(blocks) : \A v \in Flow(blocks[j]) : Last(index'.signatures) \notin v.arms
    BY <1>1, WrittenFacts, Zenon
  <1> QED
    BY <1>1, <1>2, AroundGuarded

\* A frame gets its first definition only in a suite that is walked, of no handler.
LEMMA DefinesFrames ==
  ASSUME TypeOK, BlocksOK, Numbered, DeadSuites, FramesOK, Approximations = {},
         NEW values, Written(values), Defines(values)
  PROVE  FramesOK'
  <1>1. PICK owner \in [DOMAIN index.frames -> DOMAIN blocks] :
            Owns(owner) /\ \A k \in DOMAIN owner : index.frames[k] => Guarded(owner[k])
    BY DEF FramesOK
  <1>2. /\ index' \in Store /\ index \in Store /\ Len(index'.frames) = Len(index.frames)
        /\ index'.signatures # <<>> /\ Last(index'.signatures) = Here
        /\ \A k \in DOMAIN index'.frames :
               index'.frames[k] => index.frames[k] \/ (Conditional(index) /\ k = Len(index.frames))
    BY DEF Defines, Inserted, TypeOK
  <1>3. DOMAIN index'.frames = DOMAIN index.frames
    BY <1>2, StoreFields
  <1>4. /\ Around(Len(blocks), values) /\ SameFrames(Len(blocks))
        /\ DOMAIN blocks = 1 .. Len(blocks)
    BY WrittenAround, BlockAt
  <1>5. owner \in [DOMAIN index'.frames -> DOMAIN blocks'] /\ Owns(owner)'
    BY <1>1, <1>3, <1>4, OwnerKept
  <1>6. /\ live # {} /\ Walked
        /\ \A i \in Framed : (\A j \in Framed : j <= i) => ~(InHandler(blocks[i]) /\ blocks[i].raises)
    BY MayDefineMeans DEF Defines, WalkedDefinition
  <1>7. ASSUME Conditional(index), NEW o, o = owner[Len(index.frames)]
        PROVE  Guarded(o)'
    <2>1. /\ o \in DOMAIN blocks /\ HasFrame(o) /\ \A i \in DOMAIN blocks : HasFrame(i) => i <= o
      BY <1>1, <1>7, LastFrame DEF Conditional
    <2>2. o \in Framed
      BY <2>1 DEF Framed, HasFrame
    <2>3. \A i \in DOMAIN blocks : WalkedTo(i)
      <3>1. \A i \in DOMAIN blocks : \A j \in 1 .. i - 1 : j \in DOMAIN blocks
        BY BlockAt
      <3> QED
        BY <1>6, <3>1, Zenon DEF Walked, WalkedTo
    <2>4. \A j \in Framed : j <= o
      BY <2>1, <2>3 DEF Framed, HasFrame
    <2>5. ~InHandler(blocks[o])
      <3>1. ~(InHandler(blocks[o]) /\ ~blocks[o].raises)
        BY <1>6, <2>1 DEF DeadSuites, NotTaken, Dead
      <3> QED
        BY <1>6, <2>2, <2>4, <3>1
    <2>6. o \in 1 .. Len(blocks)
      BY <1>4, <2>1
    <2>7. blocks'[o].at \in blocks'[o].walked /\ ~InHandler(blocks'[o])
      <3>1. blocks[o].at \in blocks[o].walked
        BY <1>6, <2>1 DEF Walked
      <3> QED
        BY <1>4, <2>5, <2>6, <3>1, AroundFacts
    <2>8. ASSUME NEW j \in 1 .. o
          PROVE  (blocks'[j].kind = "try" /\ blocks'[j].at = 1) \/
                     \A v \in Flow(blocks'[j]) : Last(index'.signatures) \notin v.arms
      <3>1. j \in 1 .. Len(blocks) /\ j \in DOMAIN blocks
        BY <1>4, <2>6
      <3>2. /\ blocks'[j].kind = blocks[j].kind /\ blocks'[j].at = blocks[j].at
            /\ Flow(blocks'[j]) = IF Raising(blocks[j]) THEN Flow(blocks[j]) \cup values ELSE Flow(blocks[j])
        BY <1>4, <3>1, AroundFacts
      <3>3. Raising(blocks[j]) => blocks[j].kind = "try" /\ blocks[j].at = 1
        BY DEF Raising
      <3>4. \A v \in Flow(blocks[j]) : Here \notin v.arms
        <4>1. \A S : S \subseteq 1 .. size => Here \notin S
          BY WrittenAround, HereIs
        <4>2. \A v \in Flow(blocks[j]) : v.arms \subseteq 1 .. size
          BY <3>1, FlowHeld DEF Numbered
        <4> QED
          BY <4>1, <4>2
      <3> QED
        BY <1>2, <3>2, <3>3, <3>4, Zenon
    <2> QED
      BY <2>7, <2>8 DEF Guarded
  <1>8. ASSUME NEW k \in DOMAIN owner, index'.frames[k]
        PROVE  Guarded(owner[k])'
    <2>1. k \in DOMAIN index'.frames /\ owner[k] \in 1 .. Len(blocks)
      BY <1>3, <1>4
    <2>2. CASE index.frames[k]
      BY <1>1, <2>1, <2>2, WrittenGuarded
    <2>3. CASE ~index.frames[k]
      <3>1. Conditional(index) /\ k = Len(index.frames)
        BY <1>2, <1>8, <2>1, <2>3
      <3>2. PICK o : o = owner[k]
        OBVIOUS
      <3>3. o = owner[Len(index.frames)]
        BY <3>1, <3>2
      <3>4. Guarded(o)'
        BY <1>7, <3>1, <3>3
      <3> QED
        BY <3>2, <3>4
    <2> QED
      BY <2>2, <2>3
  <1> QED
    BY <1>5, <1>8 DEF FramesOK

\* A statement keeps the frames, or gives the last of them a definition.
LEMMA WrittenFrames ==
  ASSUME TypeOK, BlocksOK, Numbered, DeadSuites, FramesOK, Approximations = {},
         NEW values, Written(values)
  PROVE  FramesOK'
  <1>1. CASE Defines(values)
    BY <1>1, DefinesFrames
  <1>2. CASE Rebinds(values) \/ Alone(values)
    <2>1. index'.frames = index.frames /\ index'.frames \in Seq(BOOLEAN)
      BY <1>2, WrittenAround, StoreFields DEF Rebinds, Alone
    <2>2. \A i \in DOMAIN blocks : ~(i > Len(blocks))
      BY BlockAt
    <2>3. \A i \in 1 .. Len(blocks) : Guarded(i) => Guarded(i)'
      BY WrittenGuarded
    <2>4. Around(Len(blocks), values) /\ SameFrames(Len(blocks))
      BY WrittenAround
    <2> QED
      BY <2>1, <2>2, <2>3, <2>4, FramesKept
  <1> QED
    BY <1>1, <1>2 DEF Written

\* The flow of a block around a statement.
LEMMA AroundFlow ==
  ASSUME TypeOK, BlocksOK, NEW m, NEW values, Around(m, values), NEW i \in 1 .. m
  PROVE  /\ Flow(blocks'[i]) \subseteq Flow(blocks[i]) \cup values
         /\ ~Raising(blocks[i]) \/ values = {} => Flow(blocks'[i]) = Flow(blocks[i])
  <1>1. Flow(blocks'[i]) = IF Raising(blocks[i]) THEN Flow(blocks[i]) \cup values ELSE Flow(blocks[i])
    BY AroundFacts
  <1>2. CASE Raising(blocks[i])
    <2>1. Flow(blocks'[i]) = Flow(blocks[i]) \cup values
      BY <1>1, <1>2
    <2> QED
      BY <1>2, <2>1
  <1>3. CASE ~Raising(blocks[i])
    <2>1. Flow(blocks'[i]) = Flow(blocks[i])
      BY <1>1, <1>3
    <2> QED
      BY <2>1
  <1> QED
    BY <1>2, <1>3

\* What may still be live where the index walks in no frame has no definition, where a
\* rebinding or a definition may be written.
LEMMA UnframedFlow ==
  ASSUME TypeOK, BlocksOK, SuitesOK, FramesOK, Walked, ~Conditional(index), Approximations = {},
         MayBind, NEW i \in DOMAIN blocks, NEW v \in Flow(blocks[i])
  PROVE  v.arms = {}
  <1>1. CASE Raising(blocks[i])
    BY <1>1, MayBindMeans DEF BlocksOK
  <1>2. CASE ~Raising(blocks[i])
    BY <1>2, Unframed
  <1> QED
    BY <1>1, <1>2

\* A definition replaces none that may be live where the statements around end.
LEMMA DefinesKeeps ==
  ASSUME TypeOK, BlocksOK, SuitesOK, FramesOK, KeptOK, Approximations = {}, NEW values, Defines(values),
         NEW i \in DOMAIN blocks, NEW v \in Flow(blocks[i])
  PROVE  v.arms \subseteq Range(index'.signatures)
  <1>1. /\ Walked /\ MayBind
        /\ index.excluded => \A j \in DOMAIN blocks : \A w \in Held(blocks[j]) : w.arms = {}
    BY MayDefineMeans DEF Defines, WalkedDefinition
  <1>2. CASE index.excluded
    BY <1>1, <1>2, FlowHeld
  <1>3. CASE ~Conditional(index)
    BY <1>1, <1>3, UnframedFlow
  <1>4. CASE Conditional(index) /\ ~index.excluded
    <2>1. v.arms \subseteq Range(index.signatures)
      BY <1>4 DEF KeptOK, Kept
    <2> DEFINE m == Len(index.frames)
    <2>2. \A x \in Range(index.signatures) :
              x \in Range(index'.signatures) \/ (x = Last(index.signatures) /\ index.frames[m])
      BY <1>4 DEF Defines, Inserted
    <2>3. ASSUME index.frames[m], Last(index.signatures) \in v.arms
          PROVE  v.arms = {}
      <3>1. PICK owner \in [DOMAIN index.frames -> DOMAIN blocks] :
                Owns(owner) /\ \A k \in DOMAIN owner : index.frames[k] => Guarded(owner[k])
        BY DEF FramesOK
      <3>2. PICK o : o = owner[m]
        OBVIOUS
      <3>3. /\ m \in DOMAIN owner /\ o \in DOMAIN blocks
            /\ \A j \in DOMAIN blocks : HasFrame(j) => j <= o
        BY <1>4, <3>1, <3>2, LastFrame DEF Conditional
      <3>4. Guarded(o)
        BY <2>3, <3>1, <3>2, <3>3
      <3>5. index.signatures # <<>>
        <4>1. PICK x \in Range(index.signatures) : TRUE
          BY <2>1, <2>3
        <4>2. DOMAIN index.signatures # {}
          BY <4>1 DEF Range
        <4> QED
          BY <4>2
      <3>6. CASE Raising(blocks[i])
        BY <1>1, <3>6, MayBindMeans DEF BlocksOK
      <3>7. CASE ~Raising(blocks[i]) /\ i <= o
        <4>1. i \in 1 .. o
          BY <3>3, <3>7, BlockAt
        <4>2. blocks[i].kind = "try" /\ blocks[i].at = 1
          BY <2>3, <3>4, <3>5, <4>1 DEF Guarded
        <4>3. ~blocks[i].raises
          BY <3>7, <4>2 DEF Raising
        <4>4. blocks[i].waiting = {} /\ blocks[i].exits = {}
          BY <4>2 DEF BlocksOK, BlockOK, TryOK
        <4>5. Flow(blocks[i]) = {}
          BY <4>3, <4>4, Zenon DEF Flow, Untaken, LeftBy, Caught
        <4> QED
          BY <4>5
      <3>8. CASE ~Raising(blocks[i]) /\ ~(i <= o)
        <4>1. ~HasFrame(i)
          BY <3>3, <3>8
        <4>2. WalkedTo(i) /\ blocks[i].at \in blocks[i].walked
          <5>1. \A j \in 1 .. i - 1 : j \in DOMAIN blocks
            BY BlockAt
          <5> QED
            BY <1>1, <5>1, Zenon DEF Walked, WalkedTo
        <4>3. ~InFrame(blocks[i])
          BY <4>1, <4>2 DEF HasFrame
        <4>4. Untaken(blocks[i]) = {} /\ LeftBy(blocks[i]) = {} /\ Caught(blocks[i]) = {}
          BY <3>8, <4>2, <4>3, Settled
        <4>5. Flow(blocks[i]) = {}
          BY <4>4 DEF Flow
        <4> QED
          BY <4>5
      <3> QED
        BY <3>6, <3>7, <3>8
    <2> HIDE DEF m
    <2> QED
      BY <2>1, <2>2, <2>3
  <1> QED
    BY <1>2, <1>3, <1>4

\* After a statement what may be live is among the signatures.
LEMMA WrittenKept ==
  ASSUME TypeOK, BlocksOK, SuitesOK, FramesOK, KeptOK, Approximations = {}, NEW values, Written(values)
  PROVE  KeptOK'
  <1> SUFFICES ASSUME ~index'.excluded
               PROVE  /\ \A v \in live' : v.arms \subseteq Range(index'.signatures)
                      /\ \A i \in DOMAIN blocks' : \A v \in Flow(blocks'[i]) :
                             v.arms \subseteq Range(index'.signatures)
    BY DEF KeptOK, Kept
  <1>1. /\ Around(Len(blocks), values) /\ live' = values
        /\ DOMAIN blocks' = 1 .. Len(blocks) /\ DOMAIN blocks = 1 .. Len(blocks)
    BY WrittenAround, AroundBlocks, BlockAt
  <1>2. /\ \A v \in values : v.arms \subseteq Range(index'.signatures)
        /\ \A i \in DOMAIN blocks : \A v \in Flow(blocks[i]) : v.arms \subseteq Range(index'.signatures)
    <2>1. CASE Rebinds(values)
      <3>1. PICK ignored \in BOOLEAN : values = Rebound(ignored)
        BY <2>1 DEF Rebinds
      <3>2. \A v \in values : v.arms = {}
        BY <3>1, SomethingType DEF Rebound
      <3>3. CASE index' = index
        <4>1. \A i \in DOMAIN blocks : \A v \in Flow(blocks[i]) : v.arms \subseteq Range(index'.signatures)
          BY <3>3 DEF KeptOK, Kept
        <4> QED
          BY <3>2, <4>1
      <3>4. CASE index' # index
        <4>1. Walked /\ ~Conditional(index) /\ MayBind
          BY <2>1, <3>4 DEF Rebinds
        <4>2. \A i \in DOMAIN blocks : \A v \in Flow(blocks[i]) : v.arms = {}
          BY <4>1, UnframedFlow
        <4> QED
          BY <3>2, <4>2
      <3> QED
        BY <3>3, <3>4
    <2>2. CASE Alone(values)
      BY <2>2 DEF Alone
    <2>3. CASE Defines(values)
      <3>1. \A v \in values : v.arms = {Here}
        BY <2>3, WrittenAround, HereIs, DefinedType DEF Defines
      <3>2. Here \in Range(index'.signatures)
        BY <2>3 DEF Defines, Inserted
      <3>3. \A v \in values : v.arms \subseteq Range(index'.signatures)
        BY <3>1, <3>2
      <3> QED
        BY <2>3, <3>3, DefinesKeeps
    <2> QED
      BY <2>1, <2>2, <2>3 DEF Written
  <1>3. ASSUME NEW i \in DOMAIN blocks', NEW v \in Flow(blocks'[i])
        PROVE  v.arms \subseteq Range(index'.signatures)
    <2>1. i \in 1 .. Len(blocks) /\ i \in DOMAIN blocks
      BY <1>1
    <2>2. v \in Flow(blocks[i]) \/ v \in values
      BY <1>1, <2>1, AroundFlow
    <2> QED
      BY <1>2, <2>1, <2>2
  <1> QED
    BY <1>1, <1>2, <1>3

\* Some value is good after a statement.
LEMMA WrittenGood ==
  ASSUME TypeOK, BlocksOK, GoodOK, NEW values, Written(values)
  PROVE  GoodOK'
  <1> SUFFICES ASSUME Judged'
               PROVE  \/ \E v \in live' : Good(v)'
                      \/ \E i \in DOMAIN blocks' : \E v \in Untaken(blocks'[i]) \cup LeftBy(blocks'[i]) : Good(v)'
    BY DEF GoodOK
  <1>1. /\ Around(Len(blocks), values) /\ live' = values
        /\ DOMAIN blocks' = 1 .. Len(blocks) /\ DOMAIN blocks = 1 .. Len(blocks)
    BY WrittenAround, AroundBlocks, BlockAt
  <1>2. CASE Rebinds(values)
    <2>1. PICK ignored \in BOOLEAN : values = Rebound(ignored) /\ (live # {} => ignored)
      BY <1>2 DEF Rebinds
    <2>2. CASE live # {}
      <3>1. Something(ignored) \in values /\ Something(ignored).ignored
        BY <2>1, <2>2, SomethingType DEF Rebound
      <3>2. PICK v \in values : v.ignored
        BY <3>1
      <3>3. Good(v)'
        BY <3>2 DEF Good
      <3> QED
        BY <1>1, <3>3
    <2>3. CASE live = {}
      <3>1. index' = index
        BY <1>2 DEF Rebinds, Judged
      <3>2. PICK i \in DOMAIN blocks : \E v \in Untaken(blocks[i]) \cup LeftBy(blocks[i]) : Good(v)
        BY <2>3, <3>1 DEF GoodOK, Judged
      <3>3. PICK v \in Untaken(blocks[i]) \cup LeftBy(blocks[i]) : Good(v)
        BY <3>2
      <3>4. Untaken(blocks'[i]) = Untaken(blocks[i]) /\ LeftBy(blocks'[i]) = LeftBy(blocks[i])
        BY <1>1, AroundFacts
      <3>5. Good(v)'
        BY <3>1, <3>3 DEF Good
      <3> QED
        BY <1>1, <3>3, <3>4, <3>5
    <2> QED
      BY <2>2, <2>3
  <1>3. CASE Alone(values)
    <2>1. PICK v \in values : v.arms # {} /\ v.arms \subseteq Range(index'.signatures)
      BY <1>3 DEF Alone, Judged
    <2>2. v.arms \cap Range(index'.signatures) # {}
      BY <2>1
    <2>3. Good(v)'
      BY <2>2 DEF Good
    <2> QED
      BY <1>1, <2>3
  <1>4. CASE Defines(values)
    <2>1. values # {} /\ \A v \in values : v.arms = {Here}
      BY <1>4, WrittenAround, HereIs, DefinedType DEF Defines
    <2>2. Here \in Range(index'.signatures)
      BY <1>4 DEF Defines, Inserted
    <2>3. PICK v \in values : v.arms = {Here}
      BY <2>1
    <2>4. v.arms \cap Range(index'.signatures) # {}
      BY <2>2, <2>3
    <2>5. Good(v)'
      BY <2>4 DEF Good
    <2> QED
      BY <1>1, <2>5
  <1> QED
    BY <1>2, <1>3, <1>4 DEF Written

\* Overloads wait in the statements around as before.
LEMMA AroundWaits ==
  ASSUME TypeOK, BlocksOK, NEW m, NEW values, Around(m, values), NEW i \in 1 .. m, WaitsHere(i),
         live' = {} \/ Flow(blocks[i]) = {},
         \A j \in 1 .. m : Flow(blocks'[j]) = Flow(blocks[j]),
         \A j \in DOMAIN blocks' : j > m => Flow(blocks[i]) = {} \/ Flow(blocks'[j]) = {},
         Raising(blocks[i]) => live' = {} /\ \A j \in DOMAIN blocks' : j > m => Flow(blocks'[j]) = {}
  PROVE  WaitsHere(i)'
  <1> DEFINE b == blocks[i]
             c == blocks'[i]
  <1>1. /\ c.kind = b.kind /\ Untaken(c) = Untaken(b) /\ LeftBy(c) = LeftBy(b) /\ (Raising(c) <=> Raising(b))
        /\ b \in Block /\ BlockOK(b) /\ i \in DOMAIN blocks
    BY AroundFacts, AroundBlocks
  <1>2. Flow(c) = Flow(b)
    OBVIOUS
  <1>3. Caught(c) = {}
    <2>1. Caught(b) = {}
      BY DEF WaitsHere
    <2>2. Caught(c) \subseteq Flow(c)
      BY FlowHeld
    <2>3. CASE Raising(b)
      <3>1. Flow(b) = {}
        <4>1. i \in DOMAIN blocks /\ i >= i
          BY <1>1, BlockAt
        <4> QED
          BY <2>3, <4>1 DEF WaitsHere
      <3> QED
        BY <1>2, <2>2, <3>1
    <2>4. CASE ~Raising(b)
      <3>1. Caught(c) = IF Raising(b) THEN Caught(b) \cup values ELSE Caught(b)
        BY AroundFacts
      <3> QED
        BY <2>1, <2>4, <3>1
    <2> QED
      BY <2>3, <2>4
  <1>4. Untaken(c) = {} \/ (LeftBy(c) = {} /\ c.kind = "try")
    BY <1>1 DEF WaitsHere
  <1>5. ASSUME NEW j \in DOMAIN blocks'
        PROVE  j = i \/ Flow(c) = {} \/ Flow(blocks'[j]) = {}
    <2>1. CASE j > m
      BY <1>2, <2>1
    <2>2. CASE ~(j > m)
      <3>1. j \in 1 .. m /\ j \in DOMAIN blocks
        BY <2>2, AroundBlocks DEF Around
      <3>2. j = i \/ Flow(b) = {} \/ Flow(blocks[j]) = {}
        BY <3>1 DEF WaitsHere
      <3> QED
        BY <1>2, <3>1, <3>2
    <2> QED
      BY <2>1, <2>2
  <1>6. ASSUME Raising(c), NEW j \in DOMAIN blocks', j >= i
        PROVE  live' = {} /\ Flow(blocks'[j]) = {}
    <2>1. CASE j > m
      BY <1>1, <1>6, <2>1
    <2>2. CASE ~(j > m)
      <3>1. j \in 1 .. m /\ j \in DOMAIN blocks
        BY <2>2, AroundBlocks DEF Around
      <3>2. Flow(blocks[j]) = {}
        BY <1>1, <1>6, <3>1 DEF WaitsHere
      <3> QED
        BY <1>1, <1>6, <3>1, <3>2
    <2> QED
      BY <2>1, <2>2
  <1>7. Raising(c) => live' = {}
    BY <1>1
  <1>8. live' = {} \/ Flow(c) = {}
    BY <1>2
  <1> HIDE DEF c
  <1> QED
    BY <1>3, <1>4, <1>5, <1>6, <1>7, <1>8, Zenon DEF WaitsHere, c

\* After a statement overloads wait where the index does.
LEMMA WrittenWaiting ==
  ASSUME TypeOK, BlocksOK, SuitesOK, FramesOK, WaitingOK, Approximations = {},
         NEW values, Written(values)
  PROVE  WaitingOK'
  <1>1. /\ Around(Len(blocks), values) /\ live' = values
        /\ DOMAIN blocks' = 1 .. Len(blocks) /\ DOMAIN blocks = 1 .. Len(blocks)
        /\ Len(blocks) \in Nat
    BY WrittenAround, AroundBlocks, BlockAt
  <1>2. index.pending \in BOOLEAN /\ index'.pending \in BOOLEAN
    BY WrittenAround, StoreFields DEF TypeOK
  <1>3. \A i \in DOMAIN blocks : \A v \in Flow(blocks[i]) : v.waiting = index.pending /\ (v.waiting => v.arms # {})
    BY DEF WaitingOK, AsIndexed
  <1>4. /\ \A v \in values : v.waiting = index'.pending /\ (v.waiting => v.arms # {})
        /\ \A i \in DOMAIN blocks : \A v \in Flow(blocks[i]) :
                v.waiting = index'.pending /\ (v.waiting => v.arms # {})
    <2>1. CASE Rebinds(values)
      <3>1. PICK ignored \in BOOLEAN : values = Rebound(ignored)
        BY <2>1 DEF Rebinds
      <3>2. \A v \in values : v \in Value /\ ~v.waiting
        BY <3>1, SomethingType DEF Rebound
      <3>3. \A v \in values : v.waiting = FALSE
        BY <3>2 DEF Value
      <3>4. index'.pending => index.pending
        BY <2>1 DEF Rebinds
      <3>5. values # {} => index'.pending = FALSE
        <4>1. values # {} => live # {}
          BY <3>1 DEF Rebound
        <4>2. values # {} => index.pending = FALSE
          BY <2>1, <4>1, CompleteIs DEF Rebinds
        <4> QED
          BY <1>2, <3>4, <4>2
      <3>6. ASSUME NEW i \in DOMAIN blocks, NEW v \in Flow(blocks[i])
            PROVE  v.waiting = index'.pending
        <4>1. CASE index' = index
          BY <1>3, <4>1
        <4>2. CASE index' # index
          <5>1. Walked /\ ~Conditional(index) /\ MayBind
            BY <2>1, <4>2 DEF Rebinds
          <5>2. v.arms = {}
            BY <5>1, UnframedFlow
          <5>3. index.pending = FALSE /\ v.waiting = FALSE
            BY <1>2, <1>3, <5>2
          <5> QED
            BY <1>2, <3>4, <5>3
        <4> QED
          BY <4>1, <4>2
      <3> QED
        BY <1>3, <3>3, <3>5, <3>6, Zenon
    <2>2. CASE Alone(values)
      BY <2>2 DEF Alone
    <2>3. CASE Defines(values)
      <3>1. index'.pending = FALSE /\ index.pending = FALSE
        BY <1>2, <2>3 DEF Defines, Inserted
      <3>2. \A v \in values : v.waiting = FALSE
        <4>1. \A v \in values : v \in Value /\ ~v.waiting
          BY <2>3, WrittenAround, HereIs, DefinedType DEF Defines
        <4> QED
          BY <4>1 DEF Value
      <3> QED
        BY <1>3, <3>1, <3>2
    <2> QED
      BY <2>1, <2>2, <2>3 DEF Written
  <1>5. ASSUME NEW i \in DOMAIN blocks', NEW v \in Flow(blocks'[i])
        PROVE  v.waiting = index'.pending /\ (v.waiting => v.arms # {})
    <2>1. i \in 1 .. Len(blocks) /\ i \in DOMAIN blocks
      BY <1>1
    <2>2. v \in Flow(blocks[i]) \/ v \in values
      BY <1>1, <2>1, AroundFlow
    <2> QED
      BY <1>4, <2>1, <2>2
  <1>6. ASSUME index'.pending, NEW i \in DOMAIN blocks'
        PROVE  WaitsHere(i)'
    <2>1. i \in 1 .. Len(blocks) /\ i \in DOMAIN blocks /\ \A j \in DOMAIN blocks' : ~(j > Len(blocks))
      BY <1>1
    <2>2. CASE Rebinds(values)
      <3>1. index.pending = TRUE /\ Complete
        BY <1>2, <1>6, <2>2 DEF Rebinds
      <3>2. live = {}
        BY <3>1, CompleteIs
      <3>3. values = {} /\ live' = {}
        BY <1>1, <3>2 DEF Written
      <3>4. WaitsHere(i)
        BY <2>1, <3>1 DEF WaitingOK
      <3>5. \A j \in 1 .. Len(blocks) : Flow(blocks'[j]) = Flow(blocks[j])
        BY <1>1, <3>3, AroundFlow
      <3> QED
        BY <1>1, <2>1, <3>3, <3>4, <3>5, AroundWaits
    <2>3. CASE Alone(values)
      <3>1. \A j \in DOMAIN blocks : Flow(blocks[j]) = {} /\ ~Raising(blocks[j])
        BY <2>3 DEF Alone
      <3>2. \A j \in DOMAIN blocks' : Flow(blocks'[j]) = {} /\ ~Raising(blocks'[j])
        <4> TAKE j \in DOMAIN blocks'
        <4>1. j \in 1 .. Len(blocks) /\ j \in DOMAIN blocks
          BY <1>1
        <4> QED
          BY <1>1, <3>1, <4>1, AroundFlow, AroundFacts
      <3>3. Untaken(blocks'[i]) = {} /\ Caught(blocks'[i]) = {}
        BY <3>2 DEF Flow
      <3> QED
        BY <3>2, <3>3 DEF WaitsHere
    <2>4. CASE Defines(values)
      BY <1>6, <2>4 DEF Defines, Inserted
    <2> QED
      BY <2>2, <2>3, <2>4 DEF Written
  <1> QED
    BY <1>1, <1>4, <1>5, <1>6 DEF WaitingOK, AsIndexed

\* The store has no frame where no statement is open.
LEMMA NoOwners ==
  ASSUME NEW T, NEW frames \in Seq(T), NEW S, NEW open \in Seq(S), open = <<>>,
         NEW owner \in [DOMAIN frames -> DOMAIN open]
  PROVE  frames = <<>>
  <1>1. Len(open) = 0 /\ DOMAIN open = 1 .. Len(open)
    BY LenProperties, EmptySeq
  <1>2. DOMAIN frames = {}
    BY <1>1
  <1>3. DOMAIN frames = 1 .. Len(frames) /\ Len(frames) \in Nat
    BY LenProperties
  <1>4. Len(frames) = 0
    BY <1>2, <1>3
  <1> QED
    BY <1>4, EmptySeq

\* The types hold after a step that keeps the frames.
LEMMA TypeKept ==
  ASSUME TypeOK, walker' = walker, index' \in Store, live' \in SUBSET Value, blocks' \in Seq(Block),
         size' = size \/ (size' = size + 1 /\ size < MaxStatements), FramesOK'
  PROVE  TypeOK'
  <1>1. size' \in 0 .. MaxStatements
    <2>1. size \in 0 .. MaxStatements /\ MaxStatements \in Nat
      BY DefinitionsAssumption DEF TypeOK
    <2>2. PICK next : next = size'
      OBVIOUS
    <2>3. next \in 0 .. MaxStatements
      BY <2>1, <2>2
    <2> QED
      BY <2>2, <2>3
  <1>2. ASSUME blocks' = <<>>
        PROVE  index'.frames = <<>>
    <2>1. PICK owner \in [DOMAIN index'.frames -> DOMAIN blocks'] : TRUE
      BY DEF FramesOK
    <2>2. PICK B : B = BOOLEAN
      OBVIOUS
    <2>3. index'.frames \in Seq(B)
      BY <2>2, StoreFields
    <2> QED
      BY <1>2, <2>1, <2>3, NoOwners
  <1> QED
    BY <1>1, <1>2 DEF TypeOK, Ended

\* A statement keeps the invariant.
LEMMA WrittenStep ==
  ASSUME IInv, Approximations = {}, NEW values, Written(values)
  PROVE  IInv'
  <1>1. /\ TypeOK /\ BlocksOK /\ Numbered /\ DeadSuites /\ SuitesOK /\ FramesOK /\ KeptOK
        /\ WaitingOK /\ GoodOK
    BY DEF IInv
  <1>2. BlocksOK' /\ Numbered' /\ DeadSuites' /\ SuitesOK'
    BY <1>1, WrittenBlocks
  <1>3. FramesOK'
    BY <1>1, WrittenFrames
  <1>4. KeptOK' /\ GoodOK' /\ WaitingOK'
    BY <1>1, WrittenKept, WrittenGood, WrittenWaiting
  <1>5. TypeOK'
    BY <1>1, <1>3, WrittenAround, TypeKept DEF Around
  <1> QED
    BY <1>2, <1>3, <1>4, <1>5 DEF IInv

(***************************************************************************)
(* What the next suite of a statement, or its end, does                    *)
(***************************************************************************)
\* No value is lost, and overloads still wait in one place.
WaitsOnly(c) ==
    /\ live' = {} \/ Flow(c) = {}
    /\ Untaken(c) = {} \/ (LeftBy(c) = {} /\ c.kind = "try")
    /\ Caught(c) = {}
\* The innermost block goes on to another suite with the values it had.
Stays(b, c) ==
    /\ ~Raising(c)
    /\ Flow(c) \subseteq live \cup Flow(b) /\ Held(c) \subseteq live \cup Held(b)
    /\ live \cup Untaken(b) \cup LeftBy(b) \subseteq live' \cup Untaken(c) \cup LeftBy(c)
    /\ (live = {} \/ Flow(b) = {}) /\ (Untaken(b) = {} \/ (LeftBy(b) = {} /\ b.kind = "try"))
       /\ Caught(b) = {} => WaitsOnly(c)
\* The innermost statement goes on, or ends: values may move, none is made or lost.
Shifts(values) ==
    /\ blocks # <<>> /\ Around(Len(blocks) - 1, values) /\ size' = size /\ walker' = walker
    /\ SameButFrames(index, index')
    /\ LET n == Len(blocks)
           b == blocks[n]
       IN  /\ b \in Block /\ live' \subseteq live \cup Flow(b)
           /\ \/ Len(blocks') = n /\ values = {} /\ Stays(b, blocks'[n])
              \/ Len(blocks') = n - 1 /\ values = live' /\ live \cup Untaken(b) \cup LeftBy(b) \subseteq live'

\* The blocks of such a step by their numbers.
LEMMA ShiftsAround ==
  ASSUME TypeOK, NEW values, Shifts(values)
  PROVE  LET n == Len(blocks)
         IN  /\ n \in Nat \ {0} /\ n \in DOMAIN blocks /\ DOMAIN blocks = 1 .. n
             /\ Around(n - 1, values)
             /\ \A i \in 1 .. n - 1 : i \in DOMAIN blocks /\ i \in DOMAIN blocks' /\ i < n
             /\ \A i \in DOMAIN blocks' :
                   i \in 1 .. n - 1 \/ (i = n /\ Len(blocks') = n)
             /\ blocks' \in Seq(Block) /\ live' \in SUBSET Value /\ values \subseteq live'
  <1> DEFINE n == Len(blocks)
             b == blocks[n]
  <1>1. n \in Nat \ {0} /\ n \in DOMAIN blocks /\ DOMAIN blocks = 1 .. n
    BY TopIs, BlockAt DEF Shifts
  <1>2. Around(n - 1, values) /\ Len(blocks') \in {n, n - 1}
    BY DEF Shifts
  <1>3. DOMAIN blocks' = 1 .. Len(blocks') /\ \A i \in 1 .. n - 1 : i \in DOMAIN blocks /\ i \in DOMAIN blocks'
    BY <1>2, AroundBlocks
  <1>4. \A i \in DOMAIN blocks' : i \in 1 .. n - 1 \/ (i = n /\ Len(blocks') = n)
    <2>1. PICK k : k = n
      OBVIOUS
    <2>2. PICK l : l = Len(blocks')
      OBVIOUS
    <2>3. k \in Nat \ {0} /\ l \in {k, k - 1} /\ DOMAIN blocks' = 1 .. l
      BY <1>1, <1>2, <1>3, <2>1, <2>2
    <2>4. \A i \in 1 .. l : i \in 1 .. k - 1 \/ (i = k /\ l = k)
      BY <2>3
    <2> QED
      BY <2>1, <2>2, <2>3, <2>4
  <1>5. \A i \in 1 .. n - 1 : i < n
    BY <1>1
  <1>6. blocks' \in Seq(Block)
    BY <1>2 DEF Around
  <1>7. live' \in SUBSET Value
    <2>1. b \in Block /\ live' \subseteq live \cup Flow(b)
      BY DEF Shifts
    <2>2. Flow(b) \subseteq Held(b) /\ Held(b) \subseteq Value
      BY <2>1, FlowHeld, BlockFields DEF Held
    <2> QED
      BY <2>1, <2>2 DEF TypeOK
  <1>8. values \subseteq live'
    BY DEF Shifts
  <1> QED
    BY <1>1, <1>2, <1>3, <1>4, <1>5, <1>6, <1>7, <1>8

\* What may be live after such a step was before.
FlowedBefore(v) == v \in live \/ \E j \in DOMAIN blocks : v \in Flow(blocks[j])
\* A value that some block holds.
HeldBefore(v) == v \in live \/ \E j \in DOMAIN blocks : v \in Held(blocks[j])
\* No value is made.
LEMMA ShiftsFlow ==
  ASSUME TypeOK, BlocksOK, NEW values, Shifts(values)
  PROVE  /\ \A v \in live' : FlowedBefore(v)
         /\ \A i \in DOMAIN blocks' : \A v \in Flow(blocks'[i]) : FlowedBefore(v)
  <1> DEFINE n == Len(blocks)
  <1>1. /\ n \in DOMAIN blocks /\ live' \subseteq live \cup Flow(blocks[n])
    BY ShiftsAround DEF Shifts
  <1>2. \A v \in live' : FlowedBefore(v)
    BY <1>1 DEF FlowedBefore
  <1>3. ASSUME NEW i \in DOMAIN blocks', NEW v \in Flow(blocks'[i])
        PROVE  FlowedBefore(v)
    <2>1. CASE i \in 1 .. n - 1
      <3>1. Around(n - 1, values) /\ i \in DOMAIN blocks /\ values \subseteq live'
        BY <2>1, ShiftsAround
      <3>2. Flow(blocks'[i]) \subseteq Flow(blocks[i]) \cup values
        BY <2>1, <3>1, AroundFlow
      <3>3. v \in Flow(blocks[i]) \/ v \in live'
        BY <1>3, <3>1, <3>2
      <3> QED
        BY <1>2, <3>1, <3>3 DEF FlowedBefore
    <2>2. CASE i = n /\ Len(blocks') = n
      <3>1. n # n - 1
        BY ShiftsAround
      <3>2. Flow(blocks'[n]) \subseteq live \cup Flow(blocks[n])
        BY <2>2, <3>1 DEF Shifts, Stays
      <3> QED
        BY <1>1, <1>3, <2>2, <3>2 DEF FlowedBefore
    <2> QED
      BY <2>1, <2>2, ShiftsAround
  <1> QED
    BY <1>2, <1>3

\* Nor is any held that was not.
LEMMA ShiftsHeld ==
  ASSUME TypeOK, BlocksOK, NEW values, Shifts(values)
  PROVE  /\ \A v \in live' : HeldBefore(v)
         /\ \A i \in DOMAIN blocks' : \A v \in Held(blocks'[i]) : HeldBefore(v)
  <1> DEFINE n == Len(blocks)
  <1>1. /\ n \in DOMAIN blocks /\ live' \subseteq live \cup Held(blocks[n])
    <2>1. Flow(blocks[n]) \subseteq Held(blocks[n])
      BY FlowHeld
    <2> QED
      BY <2>1, ShiftsAround DEF Shifts
  <1>2. \A v \in live' : HeldBefore(v)
    BY <1>1 DEF HeldBefore
  <1>3. ASSUME NEW i \in DOMAIN blocks', NEW v \in Held(blocks'[i])
        PROVE  HeldBefore(v)
    <2>1. CASE i \in 1 .. n - 1
      <3>1. Around(n - 1, values) /\ i \in DOMAIN blocks /\ values \subseteq live'
        BY <2>1, ShiftsAround
      <3>2. Held(blocks'[i]) \subseteq Held(blocks[i]) \cup values
        BY <2>1, <3>1, AroundHeld
      <3>3. v \in Held(blocks[i]) \/ v \in live'
        BY <1>3, <3>1, <3>2
      <3> QED
        BY <1>2, <3>1, <3>3 DEF HeldBefore
    <2>2. CASE i = n /\ Len(blocks') = n
      <3>1. n # n - 1
        BY ShiftsAround
      <3>2. Held(blocks'[n]) \subseteq live \cup Held(blocks[n])
        BY <2>2, <3>1 DEF Shifts, Stays
      <3> QED
        BY <1>1, <1>3, <2>2, <3>2 DEF HeldBefore
    <2> QED
      BY <2>1, <2>2, ShiftsAround
  <1> QED
    BY <1>2, <1>3

\* So values are still of statements written.
LEMMA ShiftsNumbered ==
  ASSUME TypeOK, BlocksOK, Numbered, NEW values, Shifts(values)
  PROVE  Numbered'
  <1>1. index'.signatures = index.signatures /\ size' = size
    BY DEF Shifts, SameButFrames
  <1>2. \A v : HeldBefore(v) => v.arms \subseteq 1 .. size
    BY DEF HeldBefore, Numbered
  <1> QED
    BY <1>1, <1>2, ShiftsHeld DEF Numbered

\* And among the signatures.
LEMMA ShiftsKept ==
  ASSUME TypeOK, BlocksOK, KeptOK, NEW values, Shifts(values)
  PROVE  KeptOK'
  <1>1. index'.signatures = index.signatures /\ index'.excluded = index.excluded
    BY DEF Shifts, SameButFrames
  <1>2. ASSUME ~index.excluded, NEW v, FlowedBefore(v)
        PROVE  v.arms \subseteq Range(index.signatures)
    BY <1>2 DEF FlowedBefore, KeptOK, Kept
  <1> QED
    BY <1>1, <1>2, ShiftsFlow DEF KeptOK, Kept

\* No value is lost, so the good one is still there.
LEMMA ShiftsGood ==
  ASSUME TypeOK, BlocksOK, GoodOK, NEW values, Shifts(values)
  PROVE  GoodOK'
  <1> DEFINE n == Len(blocks)
             b == blocks[n]
  <1> SUFFICES ASSUME Judged'
               PROVE  \/ \E v \in live' : Good(v)'
                      \/ \E i \in DOMAIN blocks' : \E v \in Untaken(blocks'[i]) \cup LeftBy(blocks'[i]) : Good(v)'
    BY DEF GoodOK
  <1>1. index'.signatures = index.signatures /\ index'.excluded = index.excluded
    BY DEF Shifts, SameButFrames
  <1>2. Judged
    BY <1>1 DEF Judged
  <1>3. \A v : Good(v) => Good(v)'
    BY <1>1 DEF Good
  <1>4. ASSUME NEW v \in live \cup Untaken(b) \cup LeftBy(b)
        PROVE  \/ v \in live'
               \/ \E i \in DOMAIN blocks' : v \in Untaken(blocks'[i]) \cup LeftBy(blocks'[i])
    <2>1. n \in Nat \ {0} /\ DOMAIN blocks' = 1 .. Len(blocks')
      BY ShiftsAround, LenProperties
    <2>2. CASE Len(blocks') = n /\ Stays(b, blocks'[n])
      <3>1. v \in live' \cup Untaken(blocks'[n]) \cup LeftBy(blocks'[n])
        BY <2>2 DEF Stays
      <3>2. n \in DOMAIN blocks'
        BY <2>1, <2>2
      <3> QED
        BY <3>1, <3>2
    <2>3. CASE live \cup Untaken(b) \cup LeftBy(b) \subseteq live'
      BY <2>3
    <2> QED
      BY <2>2, <2>3 DEF Shifts
  <1>5. CASE \E v \in live : Good(v)
    BY <1>3, <1>4, <1>5
  <1>6. CASE \E i \in DOMAIN blocks : \E v \in Untaken(blocks[i]) \cup LeftBy(blocks[i]) : Good(v)
    <2>1. PICK i \in DOMAIN blocks : \E v \in Untaken(blocks[i]) \cup LeftBy(blocks[i]) : Good(v)
      BY <1>6
    <2>2. PICK v \in Untaken(blocks[i]) \cup LeftBy(blocks[i]) : Good(v)
      BY <2>1
    <2>3. CASE i = n
      BY <1>3, <1>4, <2>2, <2>3
    <2>4. CASE i # n
      <3>1. i \in 1 .. n - 1 /\ Around(n - 1, values) /\ i \in DOMAIN blocks'
        <4>1. n \in Nat /\ i \in 1 .. n
          BY <2>1, ShiftsAround
        <4>2. i \in 1 .. n - 1
          BY <2>4, <4>1
        <4> QED
          BY <4>2, ShiftsAround
      <3>2. Untaken(blocks'[i]) = Untaken(blocks[i]) /\ LeftBy(blocks'[i]) = LeftBy(blocks[i])
        BY <3>1, AroundFacts
      <3> QED
        BY <1>3, <2>2, <3>1, <3>2
    <2> QED
      BY <2>3, <2>4
  <1> QED
    BY <1>2, <1>5, <1>6 DEF GoodOK

\* Overloads that wait are carried along in one place.
LEMMA ShiftsWaiting ==
  ASSUME TypeOK, BlocksOK, WaitingOK, NEW values, Shifts(values)
  PROVE  WaitingOK'
  <1> DEFINE n == Len(blocks)
             b == blocks[n]
  <1>1. index'.pending = index.pending
    BY DEF Shifts, SameButFrames
  <1>2. \A v : FlowedBefore(v) => v.waiting = index.pending /\ (v.waiting => v.arms # {})
    BY DEF FlowedBefore, WaitingOK, AsIndexed
  <1>3. /\ \A v \in live' : v.waiting = index'.pending /\ (v.waiting => v.arms # {})
        /\ \A i \in DOMAIN blocks' : \A v \in Flow(blocks'[i]) :
               v.waiting = index'.pending /\ (v.waiting => v.arms # {})
    BY <1>1, <1>2, ShiftsFlow
  <1>4. ASSUME index.pending, NEW i \in DOMAIN blocks'
        PROVE  WaitsHere(i)'
    <2>1. n \in DOMAIN blocks /\ Around(n - 1, values) /\ n \in Nat
      BY ShiftsAround
    <2>2. \A j \in DOMAIN blocks : WaitsHere(j)
      BY <1>4 DEF WaitingOK
    <2>3. /\ live = {} \/ Flow(b) = {}
          /\ Untaken(b) = {} \/ (LeftBy(b) = {} /\ b.kind = "try")
          /\ Caught(b) = {}
      BY <2>1, <2>2 DEF WaitsHere
    <2>4. /\ live' \subseteq live \cup Flow(b)
          /\ \/ Len(blocks') = n /\ values = {} /\ Stays(b, blocks'[n])
             \/ Len(blocks') = n - 1 /\ values = live'
      BY DEF Shifts
    <2>5. Len(blocks') = n => WaitsOnly(blocks'[n]) /\ Flow(blocks'[n]) \subseteq live \cup Flow(b)
              /\ ~Raising(blocks'[n])
      BY <2>1, <2>3, <2>4 DEF Stays
    <2>6. ASSUME NEW j \in 1 .. n - 1
          PROVE  /\ j \in DOMAIN blocks /\ j < n
                 /\ Flow(blocks'[j]) = Flow(blocks[j])
                 /\ Flow(blocks[j]) = {} \/ (live = {} /\ Flow(b) = {})
                 /\ Raising(blocks[j]) => live = {} /\ Flow(b) = {}
      <3>1. j \in DOMAIN blocks /\ j < n /\ WaitsHere(j)
        BY <2>2, ShiftsAround
      <3>2. Raising(blocks[j]) => live = {} /\ Flow(b) = {}
        <4>1. n >= j
          BY <2>1, <3>1, BlockAt
        <4> QED
          BY <2>1, <3>1, <4>1 DEF WaitsHere
      <3>3. Flow(blocks'[j]) = Flow(blocks[j])
        <4>1. CASE ~Raising(blocks[j]) \/ values = {}
          BY <2>1, <4>1, AroundFlow
        <4>2. CASE Raising(blocks[j]) /\ values # {}
          <5>1. live' = {} /\ values \subseteq live'
            BY <2>4, <3>2, <4>2, ShiftsAround
          <5> QED
            BY <4>2, <5>1
        <4> QED
          BY <4>1, <4>2
      <3>4. j # n
        BY <2>1, <3>1, BlockAt
      <3>5. Flow(blocks[j]) = {} \/ (live = {} /\ Flow(b) = {})
        BY <2>1, <3>1, <3>4 DEF WaitsHere
      <3> QED
        BY <3>1, <3>2, <3>3, <3>5
    <2>7. \A j \in DOMAIN blocks' : j > n - 1 => j = n /\ Len(blocks') = n
      <3> TAKE j \in DOMAIN blocks'
      <3>1. j \in 1 .. n - 1 \/ (j = n /\ Len(blocks') = n)
        BY ShiftsAround
      <3>2. j \in 1 .. n - 1 => ~(j > n - 1)
        BY <2>1
      <3> QED
        BY <3>1, <3>2
    <2>8. CASE i \in 1 .. n - 1
      <3>1. WaitsHere(i) /\ \A j \in 1 .. n - 1 : Flow(blocks'[j]) = Flow(blocks[j])
        BY <2>2, <2>6, <2>8
      <3>2. live' = {} \/ Flow(blocks[i]) = {}
        BY <2>4, <2>6, <2>8
      <3>3. ASSUME NEW j \in DOMAIN blocks', j > n - 1
            PROVE  /\ Flow(blocks[i]) = {} \/ Flow(blocks'[j]) = {}
                   /\ Raising(blocks[i]) => Flow(blocks'[j]) = {}
        <4>1. j = n /\ Flow(blocks'[n]) \subseteq live \cup Flow(b)
          BY <2>5, <2>7, <3>3
        <4> QED
          BY <2>6, <2>8, <4>1
      <3>4. Raising(blocks[i]) => live' = {}
        BY <2>4, <2>6, <2>8
      <3> QED
        BY <2>1, <2>8, <3>1, <3>2, <3>3, <3>4, AroundWaits
    <2>9. CASE i = n /\ Len(blocks') = n
      <3> DEFINE c == blocks'[n]
      <3>1. WaitsOnly(c) /\ ~Raising(c) /\ Flow(c) \subseteq live \cup Flow(b)
        BY <2>5, <2>9
      <3>2. ASSUME NEW j \in DOMAIN blocks', j # n
            PROVE  Flow(c) = {} \/ Flow(blocks'[j]) = {}
        <4>1. j \in 1 .. n - 1
          BY <3>2, ShiftsAround
        <4>2. Flow(blocks'[j]) = {} \/ (live = {} /\ Flow(b) = {})
          BY <2>6, <4>1
        <4> QED
          BY <3>1, <4>2
      <3> HIDE DEF c
      <3> QED
        BY <2>9, <3>1, <3>2 DEF WaitsHere, WaitsOnly, c
    <2> QED
      BY <2>8, <2>9, ShiftsAround
  <1> QED
    BY <1>1, <1>3, <1>4 DEF WaitingOK, AsIndexed

\* What is asked of the suite gone on to.
Follows(b, c) ==
    /\ c.kind = b.kind /\ c.tests = b.tests /\ c.walked = b.walked /\ c.framed = b.framed
    /\ BlockOK(c) /\ (NotTaken(c) => live' = {})

\* The suites are as they were, but for the innermost, which nothing gets to if not taken.
LEMMA ShiftsBlocks ==
  ASSUME TypeOK, BlocksOK, DeadSuites, SuitesOK, NEW values, Shifts(values),
         Len(blocks') = Len(blocks) => Follows(blocks[Len(blocks)], blocks'[Len(blocks)])
  PROVE  BlocksOK' /\ DeadSuites' /\ SuitesOK'
  <1> DEFINE n == Len(blocks)
             b == blocks[n]
  <1>1. n \in Nat \ {0} /\ Around(n - 1, values) /\ n \in DOMAIN blocks
    BY ShiftsAround
  <1>2. BlocksOK'
    <2>1. \A i \in DOMAIN blocks' : BlockOK(blocks'[i])
      <3> TAKE i \in DOMAIN blocks'
      <3>1. CASE i \in 1 .. n - 1
        BY <1>1, <3>1, AroundFacts
      <3>2. CASE i = n /\ Len(blocks') = n
        BY <3>2 DEF Follows
      <3> QED
        BY <3>1, <3>2, ShiftsAround
    <2> QED
      BY <2>1 DEF BlocksOK
  <1>3. ASSUME NEW i \in DOMAIN blocks', NotTaken(blocks'[i])
        PROVE  Dead(i)'
    <2>1. CASE i \in 1 .. n - 1
      <3>1. Dead(i) /\ i \in DOMAIN blocks /\ n > i
        BY <1>1, <1>3, <2>1, AroundFacts, ShiftsAround DEF DeadSuites
      <3>2. live = {} /\ Held(b) = {} /\ Flow(b) = {}
        BY <1>1, <3>1, FlowHeld DEF Dead
      <3>3. live' = {} /\ values = {}
        BY <3>2, ShiftsAround DEF Shifts
      <3>4. \A j \in DOMAIN blocks' : j > n - 1 => Held(blocks'[j]) = {}
        <4> TAKE j \in DOMAIN blocks'
        <4>1. HAVE j > n - 1
        <4>2. j = n /\ Len(blocks') = n
          BY <1>1, <4>1, ShiftsAround
        <4>3. Len(blocks') # n - 1
          BY <1>1, <4>2
        <4>4. Held(blocks'[n]) \subseteq live \cup Held(b)
          BY <4>3 DEF Shifts, Stays
        <4> QED
          BY <3>2, <4>2, <4>4
      <3> QED
        BY <1>1, <2>1, <3>1, <3>3, <3>4, AroundDead
    <2>2. CASE i = n /\ Len(blocks') = n
      <3>1. live' = {}
        BY <1>3, <2>2 DEF Follows
      <3>2. \A j \in DOMAIN blocks' : ~(j > n)
        <4>1. \A j \in DOMAIN blocks' : j \in 1 .. n - 1 \/ j = n
          BY ShiftsAround
        <4> QED
          BY <1>1, <4>1
      <3> QED
        BY <2>2, <3>1, <3>2 DEF Dead
    <2> QED
      BY <2>1, <2>2, ShiftsAround
  <1>4. DeadSuites'
    BY <1>3 DEF DeadSuites
  <1>5. ASSUME NEW i \in DOMAIN blocks'
        PROVE  LET c == blocks'[i]
               IN  /\ c.framed => WalkedTo(i)'
                   /\ c.kind = "branch" /\ ~c.framed /\ WalkedTo(i)' =>
                          \A k \in c.walked \cap DOMAIN c.tests : Taken(c, k)
    <2>1. CASE i \in 1 .. n - 1
      BY <1>1, <2>1, AroundSuites
    <2>2. CASE i = n /\ Len(blocks') = n
      <3> DEFINE c == blocks'[n]
      <3>1. c.kind = b.kind /\ c.tests = b.tests /\ c.walked = b.walked /\ c.framed = b.framed
        BY <2>2 DEF Follows
      <3>2. WalkedTo(i)' <=> WalkedTo(i)
        <4>1. i \in 1 .. (n - 1) + 1
          BY <1>1, <2>2
        <4> QED
          BY <1>1, <4>1, AroundWalked
      <3>3. /\ b.framed => WalkedTo(n)
            /\ b.kind = "branch" /\ ~b.framed /\ WalkedTo(n) =>
                        \A k \in b.walked \cap DOMAIN b.tests : Taken(b, k)
        BY <1>1 DEF SuitesOK
      <3>6. WalkedTo(i) <=> WalkedTo(n)
        BY <2>2
      <3>4. \A k : Taken(c, k) <=> Taken(b, k)
        BY <3>1, Zenon DEF Taken
      <3> HIDE DEF b
      <3>5. /\ c.framed => WalkedTo(i)'
            /\ c.kind = "branch" /\ ~c.framed /\ WalkedTo(i)' =>
                    \A k \in c.walked \cap DOMAIN c.tests : Taken(c, k)
        BY <3>1, <3>2, <3>3, <3>4, <3>6, Zenon
      <3> QED
        BY <2>2, <3>5
    <2> QED
      BY <2>1, <2>2, ShiftsAround
  <1>6. SuitesOK'
    BY <1>5 DEF SuitesOK
  <1> QED
    BY <1>2, <1>4, <1>6

\* What guards the frames around is as it was.
LEMMA ShiftsGuarded ==
  ASSUME TypeOK, BlocksOK, NEW values, Shifts(values), NEW i \in 1 .. Len(blocks) - 1, Guarded(i)
  PROVE  Guarded(i)'
  <1>1. Around(Len(blocks) - 1, values)
    BY ShiftsAround
  <1>2. index'.signatures = index.signatures
    BY DEF Shifts, SameButFrames
  <1> QED
    BY <1>1, <1>2, AroundGuarded

\* Such a step keeps the invariant, if it keeps the frames.
LEMMA ShiftsStep ==
  ASSUME IInv, NEW values, Shifts(values), FramesOK',
         Len(blocks') = Len(blocks) => Follows(blocks[Len(blocks)], blocks'[Len(blocks)])
  PROVE  IInv'
  <1>1. /\ TypeOK /\ BlocksOK /\ Numbered /\ DeadSuites /\ SuitesOK /\ FramesOK /\ KeptOK
        /\ WaitingOK /\ GoodOK
    BY DEF IInv
  <1>2. BlocksOK' /\ DeadSuites' /\ SuitesOK'
    BY <1>1, ShiftsBlocks
  <1>3. Numbered' /\ KeptOK' /\ WaitingOK' /\ GoodOK'
    BY <1>1, ShiftsNumbered, ShiftsKept, ShiftsWaiting, ShiftsGood
  <1>4. TypeOK'
    <2>1. /\ walker' = walker /\ size' = size /\ index' \in Store /\ live' \in SUBSET Value
          /\ blocks' \in Seq(Block)
      BY <1>1, ShiftsAround DEF Shifts, SameButFrames
    <2> QED
      BY <1>1, <2>1, TypeKept
  <1> QED
    BY <1>2, <1>3, <1>4 DEF IInv

\* The statements around one that goes on, or is closed.
LEMMA MovesAround ==
  ASSUME TypeOK, NEW c, Moves(c)
  PROVE  /\ Around(Len(blocks) - 1, {}) /\ Len(blocks') = Len(blocks) /\ blocks'[Len(blocks)] = c
         /\ blocks # <<>> /\ size' = size /\ walker' = walker /\ blocks[Len(blocks)] \in Block
  <1>1. /\ Len(blocks) \in Nat \ {0} /\ blocks' \in Seq(Block) /\ Len(blocks') = Len(blocks)
        /\ SameTo(Len(blocks) - 1, {}) /\ blocks'[Len(blocks)] = c
        /\ blocks # <<>> /\ size' = size /\ walker' = walker /\ blocks[Len(blocks)] \in Block
    BY BlockAt DEF Moves
  <1>2. Len(blocks) - 1 \in Nat /\ Len(blocks) - 1 <= Len(blocks)
    BY <1>1
  <1> QED
    BY <1>1, <1>2 DEF Around

\* The statements around one that ends.
LEMMA ClosesAround ==
  ASSUME TypeOK, Closes
  PROVE  /\ Around(Len(blocks) - 1, live') /\ Len(blocks') = Len(blocks) - 1
         /\ blocks # <<>> /\ size' = size /\ walker' = walker /\ blocks[Len(blocks)] \in Block
  <1>1. /\ Len(blocks) \in Nat \ {0} /\ blocks' \in Seq(Block) /\ Len(blocks') = Len(blocks) - 1
        /\ SameTo(Len(blocks) - 1, live')
        /\ blocks # <<>> /\ size' = size /\ walker' = walker /\ blocks[Len(blocks)] \in Block
    BY DEF Closes
  <1>2. Len(blocks) - 1 \in Nat /\ Len(blocks) - 1 <= Len(blocks)
    BY <1>1
  <1> QED
    BY <1>1, <1>2 DEF Around

\* Where the innermost statement has a frame, before and after it goes on.
LEMMA InnermostFrame ==
  ASSUME TypeOK, BlocksOK, NEW c, Moves(c), NEW n, n = Len(blocks)
  PROVE  /\ WalkedTo(n)' <=> WalkedTo(n)
         /\ HasFrame(n)' <=> WalkedTo(n) /\ InFrame(c)
         /\ (HasFrame(n) <=> WalkedTo(n) /\ InFrame(c)) => SameFrames(n - 1)
  <1>1. /\ n \in Nat \ {0} /\ Around(n - 1, {}) /\ blocks'[n] = c /\ Len(blocks') = n
        /\ DOMAIN blocks = 1 .. n
    BY MovesAround, TopIs, BlockAt
  <1>2. DOMAIN blocks' = 1 .. n
    BY <1>1, AroundBlocks
  <1>3. WalkedTo(n)' <=> WalkedTo(n)
    <2>1. n \in 1 .. (n - 1) + 1
      BY <1>1
    <2> QED
      BY <1>1, <2>1, AroundWalked
  <1>4. HasFrame(n)' <=> WalkedTo(n) /\ InFrame(c)
    BY <1>1, <1>3 DEF HasFrame
  <1>5. ASSUME HasFrame(n) <=> WalkedTo(n) /\ InFrame(c), NEW i \in Nat, i > n - 1
        PROVE  (i \in DOMAIN blocks /\ HasFrame(i)) <=> (i \in DOMAIN blocks' /\ HasFrame(i)')
    <2>1. i = n \/ (i \notin 1 .. n /\ n \in 1 .. n)
      BY <1>1, <1>5
    <2>2. CASE i = n
      <3>1. n \in 1 .. n
        BY <1>1
      <3> QED
        BY <1>1, <1>2, <1>4, <1>5, <2>2, <3>1, Zenon
    <2> QED
      BY <1>1, <1>2, <2>1, <2>2, Zenon
  <1> QED
    BY <1>3, <1>4, <1>5 DEF SameFrames

\* The values of a branch.
LEMMA BranchFlow ==
  ASSUME NEW b, b.kind = "branch", ~b.raises
  PROVE  /\ Untaken(b) = b.waiting /\ LeftBy(b) = b.exits /\ Caught(b) = {}
         /\ Flow(b) = b.waiting \cup b.exits /\ ~Raising(b) /\ ~InHandler(b) /\ (InFrame(b) <=> b.framed)
         /\ NotTaken(b) <=> Untakeable(b, b.at)
  <1>1. b.kind # "try"
    OBVIOUS
  <1>2. Untaken(b) = b.waiting /\ LeftBy(b) = b.exits /\ Caught(b) = {}
    BY <1>1, Zenon DEF Untaken, LeftBy, Caught
  <1>3. ~Raising(b) /\ ~InHandler(b) /\ (InFrame(b) <=> b.framed)
    BY <1>1, Zenon DEF Raising, InHandler, InFrame
  <1>4. NotTaken(b) <=> Untakeable(b, b.at)
    BY <1>3, Zenon DEF NotTaken
  <1> QED
    BY <1>2, <1>3, <1>4 DEF Flow

\* Nothing of the frames but the flags of the last may change.
LEMMA SameStore ==
  ASSUME TypeOK
  PROVE  SameButFrames(index, index) /\ SameButFrames(index, Clear(index)) /\ SameButFrames(index, Push(index))
  <1>1. index \in Store
    BY DEF TypeOK
  <1> QED
    BY <1>1, FrameEffects DEF SameButFrames

\* The next clause is taken only if it may be.
LEMMA NextClauseFollows ==
  ASSUME BlocksOK, DeadSuites, TypeOK, NEW b \in Block, NEW c \in Block, NEW n \in DOMAIN blocks,
         b = blocks[n], b.kind = "branch", b.at < Len(b.tests), NEW k, k = b.at + 1, Going(b, c, k),
         c.exits = b.exits \cup live, c.waiting = IF FALSE \in b.tests[k] THEN b.waiting ELSE {},
         live' = IF TRUE \in b.tests[k] THEN b.waiting ELSE {}
  PROVE  Follows(b, c) /\ k \in DOMAIN b.tests
  <1>1. BranchOK(b) /\ b.tests # <<>> /\ \A j \in DOMAIN b.tests : b.tests[j] # {}
    BY DEF BlocksOK, BlockOK
  <1>2. b.at \in Nat \ {0} /\ k \in DOMAIN b.tests /\ k \in Nat
    <2>1. b.at \in DOMAIN b.tests /\ b.tests \in Seq(SUBSET BOOLEAN) /\ Len(b.tests) \in Nat
      BY <1>1, BlockFields DEF BranchOK
    <2>2. DOMAIN b.tests = 1 .. Len(b.tests)
      BY <2>1, LenProperties
    <2> QED
      BY <2>1, <2>2
  <1>3. /\ c.kind = b.kind /\ c.tests = b.tests /\ c.walked = b.walked /\ c.framed = b.framed
        /\ c.raises = b.raises /\ c.at = k
    BY DEF Going
  <1>4. (\E j \in 1 .. k : FALSE \notin b.tests[j]) => c.waiting = {}
    <2>1. ASSUME NEW j \in 1 .. k, FALSE \notin b.tests[j]
          PROVE  c.waiting = {}
      <3>1. j = k \/ j \in 1 .. b.at
        BY <1>2
      <3>2. CASE j = k
        BY <2>1, <3>2
      <3>3. CASE j \in 1 .. b.at
        <4>1. b.waiting = {}
          BY <1>1, <2>1, <3>3 DEF BranchOK
        <4> QED
          BY <4>1
      <3> QED
        BY <3>1, <3>2, <3>3
    <2> QED
      BY <2>1
  <1>5. (\A j \in 1 .. k - 1 : TRUE \notin b.tests[j]) => c.exits = {}
    <2>1. ASSUME \A j \in 1 .. k - 1 : TRUE \notin b.tests[j]
          PROVE  c.exits = {}
      <3>1. b.at \in 1 .. k - 1 /\ \A j \in 1 .. b.at - 1 : j \in 1 .. k - 1
        BY <1>2
      <3>2. b.exits = {}
        BY <1>1, <2>1, <3>1 DEF BranchOK
      <3>3. NotTaken(b)
        BY <2>1, <3>1, Zenon DEF NotTaken, Untakeable
      <3>4. live = {}
        BY <3>3 DEF DeadSuites, Dead
      <3> QED
        BY <3>2, <3>4
    <2> QED
      BY <2>1
  <1>6. \A j : Untakeable(c, j) <=> Untakeable(b, j)
    BY <1>3, Zenon DEF Untakeable
  <1>7. BranchOK(c)
    <2>1. c.at \in DOMAIN c.tests /\ ~c.raises
      BY <1>1, <1>2, <1>3 DEF BranchOK
    <2>2. \A j \in DOMAIN c.tests : j \notin c.walked => Untakeable(c, j)
      BY <1>1, <1>3, <1>6, Zenon DEF BranchOK
    <2>3. c.framed => \A j \in c.walked, l \in DOMAIN c.tests : j < l => l \in c.walked
      BY <1>1, <1>3, Zenon DEF BranchOK
    <2>4. (\E j \in 1 .. c.at : FALSE \notin c.tests[j]) => c.waiting = {}
      BY <1>3, <1>4, Zenon
    <2>5. (\A j \in 1 .. c.at - 1 : TRUE \notin c.tests[j]) => c.exits = {}
      BY <1>3, <1>5, Zenon
    <2> QED
      BY <2>1, <2>2, <2>3, <2>4, <2>5, Zenon DEF BranchOK
  <1>8. BlockOK(c)
    <2>1. c.kind # "try"
      BY <1>3
    <2> QED
      BY <1>1, <1>3, <1>7, <2>1, Zenon DEF BlockOK
  <1>9. NotTaken(c) => live' = {}
    <2>1. ASSUME Untakeable(b, k)
          PROVE  live' = {}
      <3>1. CASE TRUE \notin b.tests[k]
        BY <3>1
      <3>2. CASE \E j \in 1 .. k - 1 : FALSE \notin b.tests[j]
        <4>1. PICK j \in 1 .. k - 1 : FALSE \notin b.tests[j]
          BY <3>2
        <4>2. j \in 1 .. b.at
          BY <1>2
        <4>3. b.waiting = {}
          BY <1>1, <4>1, <4>2 DEF BranchOK
        <4> QED
          BY <4>3
      <3> QED
        BY <2>1, <3>1, <3>2, Zenon DEF Untakeable
    <2>2. NotTaken(c) => Untakeable(c, c.at)
      BY <1>3, <1>7, BranchFlow DEF BranchOK
    <2> QED
      BY <1>3, <1>6, <2>1, <2>2, Zenon
  <1> QED
    BY <1>2, <1>3, <1>8, <1>9 DEF Follows

\* From one clause to the next.
LEMMA NextClauseStep ==
  ASSUME IInv, NextClause
  PROVE  IInv'
  <1>1. TypeOK /\ BlocksOK /\ DeadSuites /\ FramesOK
    BY DEF IInv
  <1>2. PICK n : n = Len(blocks)
    OBVIOUS
  <1>3. PICK b : b = blocks[n]
    OBVIOUS
  <1>4. PICK k : k = b.at + 1
    OBVIOUS
  <1>5. /\ b.kind = "branch" /\ b.at < Len(b.tests)
        /\ live' = IF TRUE \in b.tests[k] THEN b.waiting ELSE {}
        /\ index' = IF b.framed /\ WalksAt(k) THEN Clear(index) ELSE index
    BY <1>1, <1>2, <1>3, <1>4, NextClauseEffect
  <1>6. PICK c \in Block :
            /\ Moves(c) /\ Going(b, c, k) /\ c.exits = b.exits \cup live
            /\ c.waiting = IF FALSE \in b.tests[k] THEN b.waiting ELSE {}
    BY <1>1, <1>2, <1>3, <1>4, NextClauseEffect
  <1>7. /\ n \in Nat \ {0} /\ n \in DOMAIN blocks /\ b \in Block /\ blocks # <<>> /\ Top = b
        /\ Around(n - 1, {}) /\ Len(blocks') = n /\ blocks'[n] = c /\ size' = size /\ walker' = walker
    BY <1>1, <1>2, <1>3, <1>6, MovesAround, TopIs
  <1>8. BranchOK(b) /\ b.tests[k] # {} /\ Follows(b, c) /\ k \in DOMAIN b.tests
    <2>1. Follows(b, c) /\ k \in DOMAIN b.tests
      BY <1>1, <1>3, <1>4, <1>5, <1>6, <1>7, NextClauseFollows
    <2> QED
      BY <1>1, <1>3, <1>5, <1>7, <2>1 DEF BlocksOK, BlockOK
  <1>9. /\ c.kind = "branch" /\ c.raises = b.raises /\ ~b.raises /\ c.framed = b.framed
        /\ c.reached = b.reached /\ c.walked = b.walked /\ c.at = k
    BY <1>5, <1>6, <1>8 DEF Going, BranchOK
  <1>10. /\ Untaken(b) = b.waiting /\ LeftBy(b) = b.exits /\ Flow(b) = b.waiting \cup b.exits
         /\ (InFrame(b) <=> b.framed)
    BY <1>5, <1>9, BranchFlow
  <1>11. /\ Untaken(c) = c.waiting /\ LeftBy(c) = c.exits /\ Caught(c) = {}
         /\ Flow(c) = c.waiting \cup c.exits /\ ~Raising(c) /\ (InFrame(c) <=> c.framed)
    BY <1>9, BranchFlow
  <1>12. live' \subseteq b.waiting /\ c.waiting \subseteq b.waiting /\ b.waiting \subseteq live' \cup c.waiting
    <2>1. TRUE \in b.tests[k] \/ FALSE \in b.tests[k]
      <3>1. b.tests \in Seq(SUBSET BOOLEAN)
        BY <1>7, BlockFields
      <3>2. b.tests[k] \in SUBSET BOOLEAN
        BY <1>8, <3>1
      <3> QED
        BY <1>8, <3>2
    <2> QED
      BY <1>5, <1>6, <2>1
  <1>13. Stays(b, c)
    <2>1. Held(c) \subseteq live \cup Held(b)
      BY <1>6, <1>9, <1>12 DEF Held
    <2>2. Flow(c) \subseteq live \cup Flow(b)
      BY <1>6, <1>10, <1>11, <1>12
    <2>3. live \cup Untaken(b) \cup LeftBy(b) \subseteq live' \cup Untaken(c) \cup LeftBy(c)
      <3>1. c.exits = b.exits \cup live
        BY <1>6, Zenon
      <3>2. live \cup b.waiting \cup b.exits \subseteq live' \cup c.waiting \cup c.exits
        <4>1. b.waiting \subseteq live' \cup c.waiting
          BY <1>12, Zenon
        <4> QED
          BY <3>1, <4>1, Zenon
      <3> QED
        BY <1>10, <1>11, <3>2, Zenon
    <2>4. ASSUME Untaken(b) = {} \/ (LeftBy(b) = {} /\ b.kind = "try")
          PROVE  WaitsOnly(c)
      <3>1. b.waiting = {}
        BY <1>5, <1>10, <2>4
      <3>2. live' = {} /\ c.waiting = {}
        BY <1>12, <3>1
      <3> QED
        BY <1>11, <3>2 DEF WaitsOnly
    <2> QED
      BY <1>11, <2>1, <2>2, <2>3, <2>4 DEF Stays
  <1>14. SameButFrames(index, index')
    BY <1>1, <1>5, SameStore
  <1>15. Shifts({})
    <2>1. live' \subseteq live \cup Flow(b)
      BY <1>10, <1>12
    <2> QED
      BY <1>2, <1>3, <1>7, <1>13, <1>14, <2>1 DEF Shifts
  <1>16. FramesOK'
    <2>1. SameFrames(n - 1)
      <3>1. HasFrame(n) <=> WalkedTo(n) /\ InFrame(c)
        BY <1>3, <1>9, <1>10, <1>11 DEF HasFrame
      <3> QED
        BY <1>1, <1>2, <1>6, <3>1, InnermostFrame
    <2>2. /\ index'.frames \in Seq(BOOLEAN) /\ Len(index'.frames) = Len(index.frames)
          /\ \A j \in DOMAIN index'.frames : index'.frames[j] => index.frames[j]
      <3>1. index \in Store /\ index' \in Store
        BY <1>1, <1>14 DEF TypeOK, SameButFrames
      <3>2. index'.frames \in Seq(BOOLEAN)
        BY <3>1, StoreFields
      <3>3. CASE index' = Clear(index)
        BY <3>1, <3>2, <3>3, FrameEffects
      <3>4. CASE index' = index
        BY <3>2, <3>4
      <3> QED
        BY <1>5, <3>3, <3>4
    <2>3. \A i \in 1 .. n - 1 : Guarded(i) => Guarded(i)'
      BY <1>1, <1>2, <1>15, ShiftsGuarded
    <2>4. ASSUME NEW i \in DOMAIN blocks, i > n - 1, HasFrame(i)
          PROVE  i = n /\ (~Guarded(i) \/ ~index'.frames[Len(index'.frames)])
      <3>1. i = n
        BY <1>1, <1>2, <1>7, <2>4, BlockAt
      <3>2. WalkedTo(n) /\ b.framed
        BY <1>3, <1>10, <2>4, <3>1 DEF HasFrame
      <3>3. CASE WalksAt(k)
        <4>1. index' = Clear(index) /\ index \in Store
          BY <1>1, <1>5, <3>2, <3>3 DEF TypeOK
        <4>2. /\ Len(index'.frames) = Len(index.frames)
              /\ \A j \in DOMAIN index'.frames : index'.frames[j] => j # Len(index.frames)
          BY <4>1, FrameEffects
        <4>3. index.frames # <<>>
          BY <1>1, <2>4, ConditionalIsFramed DEF Conditional
        <4>4. Len(index'.frames) \in DOMAIN index'.frames
          <5>1. index' \in Store
            BY <1>14 DEF SameButFrames
          <5>2. Len(index.frames) # 0 /\ Len(index.frames) \in Nat
            BY <4>1, <4>3, StoreFields
          <5>3. DOMAIN index'.frames = 1 .. Len(index'.frames)
            BY <5>1, StoreFields
          <5> QED
            BY <4>2, <5>2, <5>3
        <4> QED
          BY <3>1, <4>2, <4>4
      <3>4. CASE ~WalksAt(k)
        <4>1. k \notin b.walked
          <5>1. WalkedTo(n) /\ Top.walked = b.walked
            BY <1>7, <3>2
          <5> QED
            BY <1>2, <3>4, <5>1 DEF WalksAt, WalkedTo
        <4>2. b.at \notin b.walked
          <5>1. b.at < k
            BY <1>4, <1>7, BlockFields
          <5> QED
            BY <1>8, <3>2, <4>1, <5>1 DEF BranchOK
        <4>3. ~Guarded(n)
          BY <1>3, <4>2 DEF Guarded
        <4> QED
          BY <3>1, <4>3
      <3> QED
        BY <3>1, <3>3, <3>4
    <2> QED
      BY <1>1, <1>2, <1>7, <2>1, <2>2, <2>3, <2>4, FramesKept
  <1>17. Len(blocks') = Len(blocks) => Follows(blocks[Len(blocks)], blocks'[Len(blocks)])
    BY <1>2, <1>3, <1>7, <1>8
  <1> QED
    BY <1>15, <1>16, <1>17, ShiftsStep

\* The flow of a try statement, by the suite it is at.
LEMMA TryFlow ==
  ASSUME NEW b \in Block, b.kind = "try", BlockOK(b)
  PROVE  /\ Len(b.tests) \in Nat \ {0} /\ b.at \in 1 .. Len(b.tests) + 3
         /\ b.walked = 1 .. Len(b.tests) + 3 /\ b.at \in b.walked /\ ~b.framed
         /\ b.at < Len(b.tests) + 2 => Untaken(b) = b.waiting
         /\ b.at >= Len(b.tests) + 2 => Untaken(b) = {} /\ Caught(b) = {}
         /\ b.at <= Len(b.tests) + 2 => LeftBy(b) = b.exits
         /\ b.at > Len(b.tests) + 2 => LeftBy(b) = {}
         /\ ~b.raises => Caught(b) = {}
         /\ b.raises /\ b.at < Len(b.tests) + 2 => Caught(b) = b.reached
         /\ InFrame(b) <=> 2 <= b.at /\ b.at <= Len(b.tests) + 2
         /\ InHandler(b) <=> 2 <= b.at /\ b.at <= Len(b.tests) + 1
         /\ Raising(b) <=> b.at = 1 /\ b.raises
         /\ NotTaken(b) <=> InHandler(b) /\ ~b.raises
         /\ b.at = 1 => b.waiting = {} /\ b.exits = {}
         /\ ElseOf(b) = Len(b.tests) + 2 /\ HandlersOf(b) = 2 .. Len(b.tests) + 1
  <1>1. TryOK(b) /\ b.tests # <<>>
    BY DEF BlockOK
  <1>2. b.tests \in Seq(SUBSET BOOLEAN) /\ b.at \in Nat /\ b.framed \in BOOLEAN /\ b.raises \in BOOLEAN
    BY BlockFields
  <1>3. Len(b.tests) \in Nat \ {0}
    BY <1>1, <1>2
  <1>4. PICK h \in Nat \ {0} : h = Len(b.tests)
    BY <1>3
  <1>5. /\ b.walked = 1 .. h + 3 /\ b.at \in 1 .. h + 3 /\ ~b.framed
        /\ b.at = 1 => b.waiting = {} /\ b.exits = {}
    BY <1>1, <1>4 DEF TryOK
  <1>6. ElseOf(b) = h + 2 /\ HandlersOf(b) = 2 .. h + 1
    BY <1>4 DEF ElseOf, HandlersOf
  <1>7. /\ b.at < h + 2 => Untaken(b) = b.waiting
        /\ b.at >= h + 2 => Untaken(b) = {}
    BY <1>2, <1>6 DEF Untaken
  <1>8. /\ b.at <= h + 2 => LeftBy(b) = b.exits
        /\ b.at > h + 2 => LeftBy(b) = {}
    BY <1>2, <1>6 DEF LeftBy
  <1>9. /\ b.at >= h + 2 => Caught(b) = {}
        /\ ~b.raises => Caught(b) = {}
        /\ b.raises /\ b.at < h + 2 => Caught(b) = b.reached
    BY <1>2, <1>6 DEF Caught
  <1>10. /\ InFrame(b) <=> 2 <= b.at /\ b.at <= h + 2
         /\ InHandler(b) <=> 2 <= b.at /\ b.at <= h + 1
    BY <1>2, <1>5, <1>6 DEF InFrame, InHandler
  <1>11. /\ Raising(b) <=> b.at = 1 /\ b.raises
         /\ NotTaken(b) <=> InHandler(b) /\ ~b.raises
    BY DEF Raising, NotTaken
  <1> HIDE DEF HandlersOf, ElseOf
  <1> QED
    BY <1>3, <1>4, <1>5, <1>6, <1>7, <1>8, <1>9, <1>10, <1>11

\* From one of its suites to a later one.
LEMMA TryGoes ==
  ASSUME NEW b \in Block, b.kind = "try", BlockOK(b), NEW c \in Block, NEW k \in Nat, Going(b, c, k),
         2 <= k, k <= Len(b.tests) + 3
  PROVE  /\ BlockOK(c) /\ c.kind = "try" /\ c.tests = b.tests /\ c.walked = b.walked
         /\ c.framed = b.framed /\ c.raises = b.raises /\ c.reached = b.reached /\ c.at = k
  <1>1. /\ c.kind = "try" /\ c.tests = b.tests /\ c.walked = b.walked
        /\ c.framed = b.framed /\ c.raises = b.raises /\ c.reached = b.reached /\ c.at = k
    BY DEF Going
  <1>2. b.walked = 1 .. Len(b.tests) + 3 /\ ~b.framed /\ Len(b.tests) \in Nat
    BY TryFlow
  <1>3. TryOK(c)
    BY <1>1, <1>2 DEF TryOK
  <1> QED
    BY <1>1, <1>3, Zenon DEF BlockOK

\* The innermost statement has no frame any more, or never had one.
LEMMA ClosedFrames ==
  ASSUME TypeOK, Closes, NEW n, n = Len(blocks), ~HasFrame(n)
  PROVE  SameFrames(n - 1)
  <1>1. n \in Nat \ {0} /\ DOMAIN blocks = 1 .. n /\ DOMAIN blocks' = 1 .. n - 1
    BY BlockAt DEF Closes
  <1>2. ASSUME NEW i \in Nat, i > n - 1
        PROVE  ~(i \in DOMAIN blocks /\ HasFrame(i)) /\ i \notin DOMAIN blocks'
    <2>1. i \in DOMAIN blocks => i = n
      BY <1>1, <1>2
    <2> QED
      BY <1>1, <1>2, <2>1
  <1> QED
    BY <1>2 DEF SameFrames

\* The frames are left as they are, but for a definition that the last one has.
LEMMA ShiftsFramesKept ==
  ASSUME TypeOK, BlocksOK, FramesOK, NEW values, Shifts(values), NEW n, n = Len(blocks),
         SameFrames(n - 1), index' = index \/ index' = Clear(index), HasFrame(n) => ~Guarded(n)
  PROVE  FramesOK'
  <1>1. n \in Nat \ {0} /\ Around(n - 1, values) /\ DOMAIN blocks = 1 .. n
    BY ShiftsAround
  <1>2. /\ index'.frames \in Seq(BOOLEAN) /\ Len(index'.frames) = Len(index.frames)
        /\ \A j \in DOMAIN index'.frames : index'.frames[j] => index.frames[j]
    <2>1. index \in Store /\ index' \in Store
      BY DEF TypeOK, Shifts, SameButFrames
    <2>2. index'.frames \in Seq(BOOLEAN)
      BY <2>1, StoreFields
    <2>3. CASE index' = Clear(index)
      BY <2>1, <2>2, <2>3, FrameEffects
    <2>4. CASE index' = index
      BY <2>2, <2>4
    <2> QED
      BY <2>3, <2>4
  <1>3. \A i \in 1 .. n - 1 : Guarded(i) => Guarded(i)'
    BY ShiftsGuarded
  <1>4. ASSUME NEW i \in DOMAIN blocks, i > n - 1, HasFrame(i)
        PROVE  i = Len(blocks) /\ (~Guarded(i) \/ ~index'.frames[Len(index'.frames)])
    <2>1. i = n
      BY <1>1, <1>4
    <2> QED
      BY <1>4, <2>1
  <1> QED
    BY <1>1, <1>2, <1>3, <1>4, FramesKept

\* The frame of a statement that has one is the last, and it is taken off.
LEMMA PopIs ==
  ASSUME TypeOK, FramesOK, NEW n \in DOMAIN blocks, HasFrame(n)
  PROVE  SameButFrames(index, Pop(index)) /\ Pop(index).frames = Front(index.frames)
  <1>1. index.frames # <<>> /\ index \in Store
    BY ConditionalIsFramed DEF Conditional, TypeOK
  <1> QED
    BY <1>1, FrameEffects
\* The innermost statement, which has a frame, loses it.
LEMMA ShiftsFramesPopped ==
  ASSUME TypeOK, BlocksOK, FramesOK, NEW values, Shifts(values), NEW n, n = Len(blocks),
         HasFrame(n), Len(blocks') = n => ~HasFrame(n)', index' = Pop(index)
  PROVE  FramesOK'
  <1>1. /\ n \in Nat \ {0} /\ Around(n - 1, values) /\ n \in DOMAIN blocks
        /\ \A i \in DOMAIN blocks' : i \in 1 .. n - 1 \/ (i = n /\ Len(blocks') = n)
    BY ShiftsAround
  <1>2. index'.frames = Front(index.frames)
    BY <1>1, PopIs
  <1>3. PICK m \in Nat : m = n - 1
    BY <1>1
  <1>4. n = m + 1 /\ Around(m, values) /\ Len(blocks) = m + 1
    BY <1>1, <1>3
  <1>5. HasFrame(m + 1)
    BY <1>4
  <1>6. \A i \in 1 .. m : Guarded(i) => Guarded(i)'
    <2>1. \A i \in 1 .. Len(blocks) - 1 : Guarded(i) => Guarded(i)'
      BY ShiftsGuarded
    <2> QED
      BY <1>3, <2>1
  <1>7. ASSUME NEW i \in DOMAIN blocks', i > m
        PROVE  ~HasFrame(i)'
    <2>1. i = n /\ Len(blocks') = n
      BY <1>1, <1>3, <1>7
    <2> QED
      BY <2>1
  <1> QED
    BY <1>2, <1>4, <1>5, <1>6, <1>7, FramesPopped

\* The end of an if, match, loop or with statement.
LEMMA EndBranchStep ==
  ASSUME IInv, EndBranch
  PROVE  IInv'
  <1>1. TypeOK /\ BlocksOK /\ SuitesOK /\ FramesOK
    BY DEF IInv
  <1>2. PICK n : n = Len(blocks)
    OBVIOUS
  <1>3. PICK b : b = blocks[n]
    OBVIOUS
  <1>4. /\ Closes /\ b.kind = "branch" /\ live' = live \cup b.exits \cup b.waiting
        /\ index' = IF b.framed THEN Pop(index) ELSE index
    BY <1>1, <1>2, <1>3, EndBranchEffect
  <1>5. /\ blocks # <<>> /\ Around(n - 1, live') /\ Len(blocks') = n - 1 /\ b \in Block
        /\ size' = size /\ walker' = walker
    BY <1>1, <1>2, <1>3, <1>4, ClosesAround
  <1>6. n \in Nat \ {0} /\ n \in DOMAIN blocks
    BY <1>1, <1>2, <1>5, TopIs
  <1>7. BranchOK(b) /\ (b.framed => WalkedTo(n))
    <2>1. BlockOK(b)
      BY <1>1, <1>3, <1>6 DEF BlocksOK
    <2>2. b.framed => WalkedTo(n)
      BY <1>1, <1>3, <1>6 DEF SuitesOK
    <2> QED
      BY <1>4, <2>1, <2>2 DEF BlockOK
  <1>8. /\ Untaken(b) = b.waiting /\ LeftBy(b) = b.exits
        /\ Flow(b) = b.waiting \cup b.exits /\ (InFrame(b) <=> b.framed)
    BY <1>4, <1>7, BranchFlow DEF BranchOK
  <1>9. HasFrame(n) <=> b.framed
    BY <1>3, <1>7, <1>8 DEF HasFrame
  <1>10. SameButFrames(index, index')
    <2>1. CASE b.framed
      BY <1>1, <1>4, <1>6, <1>9, <2>1, PopIs
    <2>2. CASE ~b.framed
      BY <1>1, <1>4, <2>2, SameStore
    <2> QED
      BY <2>1, <2>2
  <1>11. Shifts(live')
    <2>1. live' \subseteq live \cup Flow(b)
      BY <1>4, <1>8
    <2>2. live \cup Untaken(b) \cup LeftBy(b) \subseteq live'
      BY <1>4, <1>8
    <2> QED
      BY <1>2, <1>3, <1>5, <1>10, <2>1, <2>2 DEF Shifts
  <1>12. Len(blocks') # Len(blocks)
    BY <1>2, <1>5, <1>6
  <1>13. FramesOK'
    <2>1. CASE b.framed
      <3>1. HasFrame(n) /\ index' = Pop(index)
        BY <1>4, <1>9, <2>1
      <3> QED
        BY <1>1, <1>2, <1>11, <1>12, <3>1, ShiftsFramesPopped
    <2>2. CASE ~b.framed
      <3>1. SameFrames(n - 1)
        BY <1>1, <1>2, <1>4, <1>9, <2>2, ClosedFrames
      <3> QED
        BY <1>1, <1>2, <1>4, <1>9, <1>11, <2>2, <3>1, ShiftsFramesKept
    <2> QED
      BY <2>1, <2>2
  <1> QED
    BY <1>11, <1>12, <1>13, ShiftsStep

\* The end of a finally suite.
LEMMA EndTryStep ==
  ASSUME IInv, EndTry
  PROVE  IInv'
  <1>1. TypeOK /\ BlocksOK /\ SuitesOK /\ FramesOK
    BY DEF IInv
  <1>2. PICK n : n = Len(blocks)
    OBVIOUS
  <1>3. PICK b : b = blocks[n]
    OBVIOUS
  <1>4. Closes /\ b.kind = "try" /\ b.at > ElseOf(b) /\ index' = index /\ live' = live
    BY <1>1, <1>2, <1>3, EndTryEffect
  <1>5. /\ blocks # <<>> /\ Around(n - 1, live') /\ Len(blocks') = n - 1 /\ b \in Block
        /\ size' = size /\ walker' = walker
    BY <1>1, <1>2, <1>3, <1>4, ClosesAround
  <1>6. n \in Nat \ {0} /\ n \in DOMAIN blocks
    BY <1>1, <1>2, <1>5, TopIs
  <1>7. BlockOK(b)
    BY <1>1, <1>3, <1>6 DEF BlocksOK
  <1>8. Untaken(b) = {} /\ LeftBy(b) = {} /\ ~InFrame(b)
    <2>1. ElseOf(b) = Len(b.tests) + 2 /\ Len(b.tests) \in Nat /\ b.at \in Nat
      BY <1>4, <1>5, <1>7, TryFlow
    <2>2. b.at >= Len(b.tests) + 2 /\ b.at > Len(b.tests) + 2 /\ ~(b.at <= Len(b.tests) + 2)
      BY <1>4, <2>1
    <2> QED
      BY <1>4, <1>5, <1>7, <2>2, TryFlow
  <1>9. ~HasFrame(n)
    BY <1>3, <1>8 DEF HasFrame
  <1>10. SameButFrames(index, index')
    BY <1>1, <1>4, SameStore
  <1>11. Shifts(live')
    <2>1. live' \subseteq live \cup Flow(b) /\ live \cup Untaken(b) \cup LeftBy(b) \subseteq live'
      BY <1>4, <1>8
    <2> QED
      BY <1>2, <1>3, <1>5, <1>10, <2>1 DEF Shifts
  <1>12. Len(blocks') # Len(blocks)
    BY <1>2, <1>5, <1>6
  <1>13. FramesOK'
    <2>1. SameFrames(n - 1)
      BY <1>1, <1>2, <1>4, <1>9, ClosedFrames
    <2> QED
      BY <1>1, <1>2, <1>4, <1>9, <1>11, <2>1, ShiftsFramesKept
  <1> QED
    BY <1>11, <1>12, <1>13, ShiftsStep

\* From the last handler, or the body, to the else suite.
LEMMA TryElseStep ==
  ASSUME IInv, TryElse
  PROVE  IInv'
  <1>1. TypeOK /\ BlocksOK /\ FramesOK
    BY DEF IInv
  <1>2. PICK n : n = Len(blocks)
    OBVIOUS
  <1>3. PICK b : b = blocks[n]
    OBVIOUS
  <1>4. b.kind = "try" /\ b.at + 1 = ElseOf(b) /\ live' = b.waiting /\ index' = index
    BY <1>1, <1>2, <1>3, TryElseEffect
  <1>5. PICK c \in Block :
            Moves(c) /\ Going(b, c, ElseOf(b)) /\ c.exits = b.exits \cup live /\ c.waiting = b.waiting
    BY <1>1, <1>2, <1>3, TryElseEffect
  <1>6. /\ n \in Nat \ {0} /\ n \in DOMAIN blocks /\ b \in Block /\ blocks # <<>>
        /\ Around(n - 1, {}) /\ Len(blocks') = n /\ blocks'[n] = c /\ size' = size /\ walker' = walker
    BY <1>1, <1>2, <1>3, <1>5, MovesAround, TopIs
  <1>7. BlockOK(b)
    BY <1>1, <1>3, <1>6 DEF BlocksOK
  <1>8. PICK h \in Nat \ {0} : h = Len(b.tests) /\ ElseOf(b) = h + 2
    BY <1>4, <1>6, <1>7, TryFlow
  <1>9. b.at = h + 1
    <2>1. b.at \in Nat
      BY <1>6, BlockFields
    <2> QED
      BY <1>4, <1>8, <2>1
  <1>10. /\ BlockOK(c) /\ c.kind = "try" /\ c.tests = b.tests /\ c.walked = b.walked
         /\ c.framed = b.framed /\ c.raises = b.raises /\ c.reached = b.reached /\ c.at = h + 2
    BY <1>4, <1>5, <1>6, <1>7, <1>8, TryGoes
  <1>11. Untaken(b) = b.waiting /\ LeftBy(b) = b.exits /\ InFrame(b) /\ InHandler(b)
    BY <1>4, <1>6, <1>7, <1>8, <1>9, TryFlow
  <1>12. /\ Untaken(c) = {} /\ LeftBy(c) = b.exits \cup live /\ Caught(c) = {}
         /\ InFrame(c) /\ ~InHandler(c) /\ ~Raising(c) /\ ~NotTaken(c)
    <2>1. /\ Untaken(c) = {} /\ LeftBy(c) = c.exits /\ Caught(c) = {}
          /\ InFrame(c) /\ ~InHandler(c) /\ ~Raising(c) /\ ~NotTaken(c)
      BY <1>8, <1>10, TryFlow
    <2> QED
      BY <1>5, <2>1
  <1>13. /\ Flow(c) = b.exits \cup live /\ b.waiting \cup b.exits \subseteq Flow(b)
    BY <1>11, <1>12 DEF Flow
  <1>14. Stays(b, c)
    <2>1. Held(c) \subseteq live \cup Held(b)
      <3>1. c.waiting = b.waiting /\ c.exits = b.exits \cup live /\ c.reached = b.reached
        BY <1>5, <1>10
      <3> QED
        BY <3>1 DEF Held
    <2>2. Flow(c) \subseteq live \cup Flow(b)
      BY <1>13
    <2>3. live \cup Untaken(b) \cup LeftBy(b) \subseteq live' \cup Untaken(c) \cup LeftBy(c)
      BY <1>4, <1>11, <1>12
    <2>4. ASSUME live = {} \/ Flow(b) = {}, Untaken(b) = {} \/ LeftBy(b) = {}
          PROVE  WaitsOnly(c)
      <3>1. live' = {} \/ Flow(c) = {}
        BY <1>4, <1>11, <1>13, <2>4
      <3> QED
        BY <1>12, <3>1 DEF WaitsOnly
    <2> QED
      BY <1>12, <2>1, <2>2, <2>3, <2>4 DEF Stays
  <1>15. Shifts({})
    <2>1. live' \subseteq live \cup Flow(b)
      BY <1>4, <1>13
    <2>2. SameButFrames(index, index')
      BY <1>1, <1>4, SameStore
    <2> QED
      BY <1>2, <1>3, <1>6, <1>14, <2>1, <2>2 DEF Shifts
  <1>16. FramesOK'
    <2>1. SameFrames(n - 1)
      <3>1. HasFrame(n) <=> WalkedTo(n) /\ InFrame(c)
        BY <1>3, <1>11, <1>12 DEF HasFrame
      <3> QED
        BY <1>1, <1>2, <1>5, <3>1, InnermostFrame
    <2>2. ~Guarded(n)
      BY <1>3, <1>11 DEF Guarded
    <2> QED
      BY <1>1, <1>2, <1>4, <1>15, <2>1, <2>2, ShiftsFramesKept
  <1>17. Len(blocks') = Len(blocks) => Follows(blocks[Len(blocks)], blocks'[Len(blocks)])
    <2>1. Follows(b, c)
      BY <1>4, <1>10, <1>12 DEF Follows
    <2> QED
      BY <1>2, <1>3, <1>6, <2>1
  <1> QED
    BY <1>15, <1>16, <1>17, ShiftsStep

\* The innermost suite is walked, or nothing inside its statement is.
LEMMA WalkedInnermost ==
  ASSUME TypeOK, NEW n \in DOMAIN blocks, n = Len(blocks), blocks[n].at \in blocks[n].walked
  PROVE  Walked <=> WalkedTo(n)
  <1>1. DOMAIN blocks = 1 .. n /\ n \in Nat
    BY BlockAt
  <1>2. \A i \in 1 .. n : i = n \/ i \in 1 .. n - 1
    BY <1>1
  <1>3. \A i \in 1 .. n - 1 : i \in 1 .. n
    BY <1>1
  <1> QED
    BY <1>1, <1>2, <1>3, Zenon DEF Walked, WalkedTo

\* From the else suite to the finally suite.
LEMMA FinallyStep ==
  ASSUME IInv, Finally
  PROVE  IInv'
  <1>1. TypeOK /\ BlocksOK /\ FramesOK
    BY DEF IInv
  <1>2. PICK n : n = Len(blocks)
    OBVIOUS
  <1>3. PICK b : b = blocks[n]
    OBVIOUS
  <1>4. /\ b.kind = "try" /\ b.at = ElseOf(b) /\ live' = live \cup b.exits
        /\ index' = IF Walked THEN Pop(index) ELSE index
    BY <1>1, <1>2, <1>3, FinallyEffect
  <1>5. PICK c \in Block :
            Moves(c) /\ Going(b, c, ElseOf(b) + 1) /\ c.exits = b.exits /\ c.waiting = b.waiting
    BY <1>1, <1>2, <1>3, FinallyEffect
  <1>6. /\ n \in Nat \ {0} /\ n \in DOMAIN blocks /\ b \in Block /\ blocks # <<>>
        /\ Around(n - 1, {}) /\ Len(blocks') = n /\ blocks'[n] = c /\ size' = size /\ walker' = walker
    BY <1>1, <1>2, <1>3, <1>5, MovesAround, TopIs
  <1>7. BlockOK(b)
    BY <1>1, <1>3, <1>6 DEF BlocksOK
  <1>8. PICK h \in Nat \ {0} : h = Len(b.tests) /\ ElseOf(b) = h + 2
    BY <1>4, <1>6, <1>7, TryFlow
  <1>9. /\ BlockOK(c) /\ c.kind = "try" /\ c.tests = b.tests /\ c.walked = b.walked
        /\ c.framed = b.framed /\ c.raises = b.raises /\ c.reached = b.reached /\ c.at = h + 3
    <2>1. h + 3 \in Nat /\ 2 <= h + 3 /\ h + 3 <= Len(b.tests) + 3 /\ ElseOf(b) + 1 = h + 3
      BY <1>8
    <2>2. Going(b, c, h + 3)
      BY <1>5, <2>1
    <2> QED
      BY <1>4, <1>6, <1>7, <2>1, <2>2, TryGoes
  <1>10. /\ Untaken(b) = {} /\ LeftBy(b) = b.exits /\ Caught(b) = {} /\ InFrame(b)
         /\ b.at \in b.walked
    BY <1>4, <1>6, <1>7, <1>8, TryFlow
  <1>11. /\ Untaken(c) = {} /\ LeftBy(c) = {} /\ Caught(c) = {}
         /\ ~InFrame(c) /\ ~Raising(c) /\ ~NotTaken(c)
    BY <1>8, <1>9, TryFlow
  <1>12. Flow(c) = {} /\ Flow(b) = b.exits
    BY <1>10, <1>11 DEF Flow
  <1>13. Stays(b, c)
    <2>1. Held(c) \subseteq live \cup Held(b)
      <3>1. c.waiting = b.waiting /\ c.exits = b.exits /\ c.reached = b.reached
        BY <1>5, <1>9
      <3> QED
        BY <3>1 DEF Held
    <2>2. Flow(c) \subseteq live \cup Flow(b)
      BY <1>12
    <2>3. live \cup Untaken(b) \cup LeftBy(b) \subseteq live' \cup Untaken(c) \cup LeftBy(c)
      BY <1>4, <1>10
    <2>4. WaitsOnly(c)
      BY <1>11, <1>12 DEF WaitsOnly
    <2> QED
      BY <1>11, <2>1, <2>2, <2>3, <2>4 DEF Stays
  <1>14. Walked <=> HasFrame(n)
    <2>1. Walked <=> WalkedTo(n)
      BY <1>1, <1>2, <1>3, <1>6, <1>10, WalkedInnermost
    <2> QED
      BY <1>3, <1>10, <2>1 DEF HasFrame
  <1>15. SameButFrames(index, index')
    <2>1. CASE Walked
      BY <1>1, <1>4, <1>6, <1>14, <2>1, PopIs
    <2>2. CASE ~Walked
      BY <1>1, <1>4, <2>2, SameStore
    <2> QED
      BY <2>1, <2>2
  <1>16. Shifts({})
    <2>1. live' \subseteq live \cup Flow(b)
      BY <1>4, <1>12
    <2> QED
      BY <1>2, <1>3, <1>6, <1>13, <1>15, <2>1 DEF Shifts
  <1>17. FramesOK'
    <2>1. CASE Walked
      <3>1. ~HasFrame(n)'
        BY <1>1, <1>2, <1>5, <1>11, InnermostFrame
      <3> QED
        BY <1>1, <1>2, <1>4, <1>14, <1>16, <2>1, <3>1, ShiftsFramesPopped
    <2>2. CASE ~Walked
      <3>1. HasFrame(n) <=> WalkedTo(n) /\ InFrame(c)
        BY <1>11, <1>14, <2>2
      <3>2. SameFrames(n - 1)
        BY <1>1, <1>2, <1>5, <3>1, InnermostFrame
      <3> QED
        BY <1>1, <1>2, <1>4, <1>14, <1>16, <2>2, <3>2, ShiftsFramesKept
    <2> QED
      BY <2>1, <2>2
  <1>18. Len(blocks') = Len(blocks) => Follows(blocks[Len(blocks)], blocks'[Len(blocks)])
    <2>1. Follows(b, c)
      BY <1>4, <1>9, <1>11 DEF Follows
    <2> QED
      BY <1>2, <1>3, <1>6, <2>1
  <1> QED
    BY <1>16, <1>17, <1>18, ShiftsStep

\* From the body to the first handler, and from one to the next.
LEMMA NextHandlerStep ==
  ASSUME IInv, NextHandler
  PROVE  IInv'
  <1>1. TypeOK /\ BlocksOK /\ FramesOK
    BY DEF IInv
  <1>2. PICK n : n = Len(blocks)
    OBVIOUS
  <1>3. PICK b : b = blocks[n]
    OBVIOUS
  <1>4. PICK k : k = b.at + 1
    OBVIOUS
  <1>5. /\ b.kind = "try" /\ k \in HandlersOf(b)
        /\ live' = IF b.raises THEN b.reached ELSE {}
        /\ index' = CASE ~Walked -> index
                      [] Walked /\ b.at = 1 -> Push(index)
                      [] Walked /\ b.at # 1 /\ ClearsHandlers -> Clear(index)
                      [] OTHER -> index
    BY <1>1, <1>2, <1>3, <1>4, NextHandlerEffect
  <1>6. PICK c \in Block :
            /\ Moves(c) /\ Going(b, c, k)
            /\ c.exits = IF b.at = 1 THEN b.exits ELSE b.exits \cup live
            /\ c.waiting = IF b.at = 1 THEN live ELSE b.waiting
    BY <1>1, <1>2, <1>3, <1>4, NextHandlerEffect
  <1>7. /\ n \in Nat \ {0} /\ n \in DOMAIN blocks /\ b \in Block /\ blocks # <<>>
        /\ Around(n - 1, {}) /\ Len(blocks') = n /\ blocks'[n] = c /\ size' = size /\ walker' = walker
    BY <1>1, <1>2, <1>3, <1>6, MovesAround, TopIs
  <1>8. BlockOK(b)
    BY <1>1, <1>3, <1>7 DEF BlocksOK
  <1>9. PICK h \in Nat \ {0} : h = Len(b.tests) /\ HandlersOf(b) = 2 .. h + 1
    BY <1>5, <1>7, <1>8, TryFlow
  <1>10. k \in Nat /\ 2 <= k /\ k <= h + 1 /\ b.at \in Nat /\ k = b.at + 1 /\ 1 <= b.at /\ b.at <= h
    <2>1. b.at \in Nat
      BY <1>7, BlockFields
    <2> QED
      BY <1>4, <1>5, <1>9, <2>1
  <1>11. /\ BlockOK(c) /\ c.kind = "try" /\ c.tests = b.tests /\ c.walked = b.walked
         /\ c.framed = b.framed /\ c.raises = b.raises /\ c.reached = b.reached /\ c.at = k
    BY <1>5, <1>6, <1>7, <1>8, <1>9, <1>10, TryGoes
  <1>12. /\ Untaken(b) = b.waiting /\ LeftBy(b) = b.exits /\ Caught(b) = live' /\ b.at \in b.walked
         /\ (InFrame(b) <=> b.at # 1) /\ (InHandler(b) <=> b.at # 1)
         /\ (b.at = 1 => b.waiting = {} /\ b.exits = {})
    <2>1. b.at < h + 2 /\ b.at <= h + 2 /\ b.at <= h + 1 /\ (2 <= b.at <=> b.at # 1)
      BY <1>10
    <2>2. Caught(b) = live'
      <3>1. CASE b.raises
        BY <1>5, <1>7, <1>8, <1>9, <2>1, <3>1, TryFlow
      <3>2. CASE ~b.raises
        BY <1>5, <1>7, <1>8, <3>2, TryFlow
      <3> QED
        BY <3>1, <3>2
    <2> QED
      BY <1>5, <1>7, <1>8, <1>9, <2>1, <2>2, TryFlow
  <1>13. /\ Untaken(c) = c.waiting /\ LeftBy(c) = c.exits /\ Caught(c) = live'
         /\ InFrame(c) /\ InHandler(c) /\ ~Raising(c) /\ (NotTaken(c) => live' = {})
    <2>1. k < h + 2 /\ k <= h + 2 /\ k # 1
      BY <1>10
    <2>2. Caught(c) = live'
      <3>1. CASE b.raises
        BY <1>5, <1>9, <1>11, <2>1, <3>1, TryFlow
      <3>2. CASE ~b.raises
        BY <1>5, <1>11, <3>2, TryFlow
      <3> QED
        BY <3>1, <3>2
    <2> QED
      BY <1>5, <1>9, <1>10, <1>11, <2>1, <2>2, TryFlow
  <1>14. c.waiting \cup c.exits = live \cup b.waiting \cup b.exits
    <2>1. CASE b.at = 1
      <3>1. c.waiting = live /\ c.exits = {} /\ b.waiting = {} /\ b.exits = {}
        BY <1>6, <1>12, <2>1
      <3> QED
        BY <3>1
    <2>2. CASE b.at # 1
      <3>1. c.waiting = b.waiting /\ c.exits = b.exits \cup live
        BY <1>6, <2>2
      <3> QED
        BY <3>1
    <2> QED
      BY <2>1, <2>2
  <1>15. Stays(b, c)
    <2>1. Held(c) \subseteq live \cup Held(b)
      BY <1>11, <1>14 DEF Held
    <2>2. Flow(c) \subseteq live \cup Flow(b)
      BY <1>12, <1>13, <1>14 DEF Flow
    <2>3. live \cup Untaken(b) \cup LeftBy(b) \subseteq live' \cup Untaken(c) \cup LeftBy(c)
      BY <1>12, <1>13, <1>14
    <2>4. ASSUME live = {} \/ Flow(b) = {}, Untaken(b) = {} \/ LeftBy(b) = {}, Caught(b) = {}
          PROVE  WaitsOnly(c)
      <3>1. live' = {}
        BY <1>12, <2>4
      <3>2. c.waiting = {} \/ c.exits = {}
        <4>1. CASE b.at = 1
          BY <1>6, <1>12, <4>1
        <4>2. CASE b.at # 1
          <5>1. b.waiting \subseteq Flow(b)
            BY <1>12 DEF Flow
          <5> QED
            BY <1>6, <1>12, <2>4, <4>2, <5>1
        <4> QED
          BY <4>1, <4>2
      <3> QED
        BY <1>11, <1>13, <3>1, <3>2 DEF WaitsOnly
    <2> QED
      BY <1>13, <2>1, <2>2, <2>3, <2>4 DEF Stays
  <1>16. /\ ~Walked => index' = index
         /\ Walked /\ b.at = 1 => index' = Push(index)
         /\ b.at # 1 => index' = index \/ index' = Clear(index)
    <2>1. ~Walked => index' = index
      BY <1>5
    <2>2. Walked /\ b.at = 1 => index' = Push(index)
      BY <1>5
    <2>3. b.at # 1 => index' = index \/ index' = Clear(index)
      BY <1>5
    <2> QED
      BY <2>1, <2>2, <2>3
  <1>17. SameButFrames(index, index')
    BY <1>1, <1>16, SameStore
  <1>18. Shifts({})
    <2>1. live' \subseteq live \cup Flow(b)
      BY <1>12 DEF Flow
    <2> QED
      BY <1>2, <1>3, <1>7, <1>15, <1>17, <2>1 DEF Shifts
  <1>19. Walked <=> WalkedTo(n)
    BY <1>1, <1>2, <1>3, <1>7, <1>12, WalkedInnermost
  <1>20. FramesOK'
    <2>1. CASE Walked /\ b.at = 1
      <3>1. PICK m \in Nat : m = n - 1
        BY <1>7
      <3>2. n = m + 1 /\ Around(m, {}) /\ Len(blocks') = m + 1
        BY <1>7, <3>1
      <3>3. HasFrame(n)'
        BY <1>1, <1>2, <1>6, <1>13, <1>19, <2>1, InnermostFrame
      <3>4. HasFrame(m + 1)'
        BY <3>2, <3>3
      <3>5. ~HasFrame(n)
        BY <1>3, <1>12, <2>1 DEF HasFrame
      <3>6. \A i \in DOMAIN blocks : HasFrame(i) => i <= m
        <4>1. ASSUME NEW i \in DOMAIN blocks, HasFrame(i)
              PROVE  i <= m
          <5>1. i \in 1 .. n
            BY <1>1, <1>2, BlockAt
          <5>2. i # n
            BY <3>5, <4>1
          <5> QED
            BY <1>7, <3>1, <5>1, <5>2
        <4> QED
          BY <4>1
      <3>7. index'.frames = Append(index.frames, FALSE)
        <4>1. index \in Store
          BY <1>1 DEF TypeOK
        <4> QED
          BY <1>16, <2>1, <4>1, FrameEffects
      <3>8. \A i \in 1 .. m : Guarded(i) => Guarded(i)'
        <4>1. \A i \in 1 .. Len(blocks) - 1 : Guarded(i) => Guarded(i)'
          BY <1>1, <1>18, ShiftsGuarded
        <4> QED
          BY <1>2, <3>1, <4>1
      <3> QED
        BY <1>1, <3>2, <3>4, <3>6, <3>7, <3>8, FramesPushed
    <2>2. CASE ~(Walked /\ b.at = 1)
      <3>1. HasFrame(n) <=> WalkedTo(n) /\ InFrame(c)
        BY <1>3, <1>12, <1>13, <1>19, <2>2 DEF HasFrame
      <3>2. SameFrames(n - 1)
        BY <1>1, <1>2, <1>6, <3>1, InnermostFrame
      <3>3. index' = index \/ index' = Clear(index)
        BY <1>16, <2>2
      <3>4. HasFrame(n) => ~Guarded(n)
        BY <1>3, <1>12 DEF HasFrame, Guarded
      <3> QED
        BY <1>1, <1>2, <1>18, <3>2, <3>3, <3>4, ShiftsFramesKept
    <2> QED
      BY <2>1, <2>2
  <1>21. Len(blocks') = Len(blocks) => Follows(blocks[Len(blocks)], blocks'[Len(blocks)])
    <2>1. Follows(b, c)
      BY <1>5, <1>11, <1>13 DEF Follows
    <2> QED
      BY <1>2, <1>3, <1>7, <2>1
  <1> QED
    BY <1>18, <1>20, <1>21, ShiftsStep

\* Opening a statement: c is its block, n the number of those around it, new the store its
\* first suite starts from, entered the values when its test is made.
Opened(n, c, new, entered) ==
    /\ Complete /\ size < MaxStatements /\ size' = size + 1 /\ walker' = walker
    /\ n = Len(blocks) /\ Around(n, live') /\ Len(blocks') = n + 1 /\ blocks'[n + 1] = c
    /\ c \in Block /\ BlockOK(c) /\ c.exits = {} /\ c.at = 1 /\ (c.framed => Walked)
    /\ new \in Store /\ index' = IF c.framed THEN Push(new) ELSE new
    /\ Targets(new, entered, c.kind = "branch" /\ TRUE \in c.tests[1])
    /\ c.kind = "try" => /\ c.reached = live /\ c.waiting = {} /\ ~c.framed
                         /\ live' = live /\ new = index /\ entered = live
    /\ c.kind = "branch" =>
           /\ c.reached = {} /\ ~c.raises
           /\ c.waiting = IF FALSE \in c.tests[1] THEN live ELSE {}
           /\ live' = IF TRUE \in c.tests[1] THEN entered ELSE {}
           /\ Walked /\ ~c.framed => \A k \in c.walked \cap DOMAIN c.tests : Taken(c, k)

\* The block that is opened is as a block of its kind is.
LEMMA OpenedBlock ==
  ASSUME NEW block \in Block, Opens(block), NEW c \in Block, NEW waits,
         c.kind = block.kind, c.tests = block.tests, c.walked = block.walked,
         c.framed = (block.framed /\ Walked), c.at = block.at, c.exits = block.exits,
         c.raises = block.raises, c.reached = block.reached,
         c.waiting = IF block.kind # "try" /\ FALSE \in block.tests[1] THEN waits ELSE {}
  PROVE  BlockOK(c)
  <1>1. c.tests # <<>> /\ \A k \in DOMAIN c.tests : c.tests[k] # {}
    BY DEF Opens
  <1>2. CASE c.kind = "try"
    <2>1. /\ block.walked = 1 .. Len(block.tests) + 3 /\ ~block.framed /\ block.at = 1
          /\ block.exits = {} /\ Len(block.tests) \in Nat
      BY <1>2, BlockFields DEF Opens
    <2>2. ~c.framed
      BY <2>1, Zenon
    <2>3. c.waiting = {} /\ c.exits = {} /\ c.at = 1
      BY <1>2, <2>1
    <2>4. c.walked = 1 .. Len(c.tests) + 3 /\ 1 \in c.walked
      BY <2>1
    <2>5. TryOK(c)
      BY <2>2, <2>3, <2>4, Zenon DEF TryOK
    <2> QED
      BY <1>1, <1>2, <2>5, Zenon DEF BlockOK
  <1>3. CASE c.kind # "try"
    <2>1. /\ block.kind = "branch" /\ c.at = 1 /\ c.exits = {}
          /\ c.waiting = IF FALSE \in c.tests[1] THEN waits ELSE {}
      BY <1>3, BlockFields DEF Opens
    <2>2. /\ ~c.raises
          /\ \A k \in DOMAIN block.tests : k \notin block.walked => Untakeable(block, k)
          /\ block.framed => \A j \in block.walked, k \in DOMAIN block.tests : j < k => k \in block.walked
      BY <2>1 DEF Opens
    <2>3. 1 \in DOMAIN c.tests
      <3>1. c.tests \in Seq(SUBSET BOOLEAN)
        BY BlockFields
      <3> QED
        BY <1>1, <3>1
    <2>4. \A k : Untakeable(c, k) <=> Untakeable(block, k)
      BY Zenon DEF Untakeable
    <2>5. \A k \in DOMAIN c.tests : k \notin c.walked => Untakeable(c, k)
      BY <2>2, <2>4, Zenon
    <2>6. c.framed => \A j \in c.walked, k \in DOMAIN c.tests : j < k => k \in c.walked
      BY <2>2, Zenon
    <2>7. (\E j \in 1 .. c.at : FALSE \notin c.tests[j]) => c.waiting = {}
      <3>1. \A j \in 1 .. c.at : j = 1
        BY <2>1
      <3> QED
        BY <2>1, <3>1
    <2>8. BranchOK(c)
      BY <2>1, <2>2, <2>3, <2>5, <2>6, <2>7, Zenon DEF BranchOK
    <2> QED
      BY <1>1, <1>3, <2>8, Zenon DEF BlockOK
  <1> QED
    BY <1>2, <1>3

\* Every statement with suites opens so.
LEMMA OpenersAre ==
  ASSUME IInv, Approximations = {}, Openers
  PROVE  \E n \in Nat, c \in Block, new \in Store, entered \in SUBSET Value : Opened(n, c, new, entered)
  <1>1. TypeOK
    BY DEF IInv
  <1>2. PICK block \in Block, new \in Store, entered \in SUBSET Value :
            /\ Opens(block) /\ Open(block, new, entered)
            /\ Targets(new, entered, block.kind = "branch" /\ TRUE \in block.tests[1])
            /\ block.kind = "try" => new = index /\ entered = live
    BY <1>1, OpenersEffect
  <1>3. PICK n : n = Len(blocks)
    OBVIOUS
  <1>4. PICK c : c = blocks'[n + 1]
    OBVIOUS
  <1>5. /\ size < MaxStatements /\ size' = size + 1 /\ walker' = walker
        /\ \A v \in live : ~v.waiting
        /\ index' = IF Walked /\ block.framed THEN Push(new) ELSE new
        /\ live' = IF block.kind = "try" \/ TRUE \in block.tests[1] THEN entered ELSE {}
        /\ n \in Nat /\ blocks' \in Seq(Block) /\ Len(blocks') = n + 1
        /\ SameTo(n, live')
    BY <1>1, <1>2, <1>3, <1>4, OpenEffect
  <1>6. /\ c \in Block /\ c.kind = block.kind /\ c.tests = block.tests /\ c.walked = block.walked
        /\ c.framed = (block.framed /\ Walked) /\ c.at = block.at /\ c.exits = block.exits
        /\ c.raises = block.raises /\ c.reached = block.reached
        /\ c.waiting = IF block.kind # "try" /\ FALSE \in block.tests[1] THEN live ELSE {}
    BY <1>1, <1>2, <1>3, <1>4, OpenEffect
  <1>7. BlockOK(c)
    BY <1>2, <1>6, OpenedBlock
  <1>8. Around(n, live')
    BY <1>3, <1>5 DEF Around
  <1>9. c.at = 1 /\ c.exits = {} /\ (c.framed => Walked)
        /\ index' = IF c.framed THEN Push(new) ELSE new
    BY <1>2, <1>5, <1>6 DEF Opens
  <1>10. Targets(new, entered, c.kind = "branch" /\ TRUE \in c.tests[1])
    BY <1>2, <1>6
  <1>11. c.kind = "try" => /\ c.reached = live /\ c.waiting = {} /\ ~c.framed
                           /\ live' = live /\ new = index /\ entered = live
    <2>1. ASSUME c.kind = "try"
          PROVE  /\ c.reached = live /\ c.waiting = {} /\ ~c.framed
                 /\ live' = live /\ new = index /\ entered = live
      <3>1. ~block.framed /\ block.reached = live
        BY <1>2, <1>6, <2>1 DEF Opens
      <3> QED
        BY <1>2, <1>5, <1>6, <2>1, <3>1
    <2> QED
      BY <2>1
  <1>12. c.kind = "branch" =>
           /\ c.reached = {} /\ ~c.raises
           /\ c.waiting = IF FALSE \in c.tests[1] THEN live ELSE {}
           /\ live' = IF TRUE \in c.tests[1] THEN entered ELSE {}
           /\ Walked /\ ~c.framed => \A k \in c.walked \cap DOMAIN c.tests : Taken(c, k)
    <2>1. ASSUME c.kind = "branch"
          PROVE  /\ c.reached = {} /\ ~c.raises
                 /\ c.waiting = IF FALSE \in c.tests[1] THEN live ELSE {}
                 /\ live' = IF TRUE \in c.tests[1] THEN entered ELSE {}
      <3>1. block.reached = {} /\ ~block.raises
        BY <1>2, <1>6, <2>1 DEF Opens
      <3> QED
        BY <1>5, <1>6, <2>1, <3>1
    <2>2. ASSUME c.kind = "branch", Walked, ~c.framed, NEW k \in c.walked \cap DOMAIN c.tests
          PROVE  Taken(c, k)
      <3>1. ~block.framed
        BY <1>6, <2>2
      <3>2. Taken(block, k)
        BY <1>2, <1>6, <2>2, <3>1 DEF Opens
      <3> QED
        BY <1>6, <3>2, Zenon DEF Taken
    <2> QED
      BY <2>1, <2>2
  <1>13. Complete
    BY <1>5 DEF Complete
  <1>14. blocks'[n + 1] = c
    BY <1>4
  <1>15. Opened(n, c, new, entered)
    BY <1>2, <1>3, <1>5, <1>6, <1>7, <1>8, <1>9, <1>10, <1>11, <1>12, <1>13, <1>14 DEF Opened
  <1> QED
    BY <1>2, <1>5, <1>6, <1>15

\* What opening a statement does to the store, to the values, and to the flow.
LEMMA OpenedStore ==
  ASSUME TypeOK, NEW n, NEW c, NEW new, NEW entered, Opened(n, c, new, entered)
  PROVE  /\ index' \in Store /\ index'.pending = index.pending
         /\ index'.frames = IF c.framed THEN Append(index.frames, FALSE) ELSE index.frames
         /\ index'.signatures = new.signatures /\ index'.excluded = new.excluded
         /\ \/ new = index
            \/ index'.signatures = <<>> /\ index'.excluded
         /\ ~index'.excluded =>
                new = index /\ index'.signatures = index.signatures /\ ~index.excluded
  <1>1. new \in Store /\ index' = IF c.framed THEN Push(new) ELSE new
    BY DEF Opened
  <1>2. \/ new = index
        \/ /\ new.signatures = <<>> /\ new.excluded /\ new.frames = index.frames
           /\ new.pending = index.pending
    BY DEF Opened, Targets
  <1>3. SameButFrames(new, index') /\ index'.frames = IF c.framed THEN Append(new.frames, FALSE) ELSE new.frames
    <2>1. CASE c.framed
      BY <1>1, <2>1, FrameEffects
    <2>2. CASE ~c.framed
      <3>1. index' = new
        BY <1>1, <2>2
      <3> QED
        BY <1>1, <2>2, <3>1 DEF SameButFrames
    <2> QED
      BY <2>1, <2>2
  <1>4. /\ index' \in Store /\ index'.signatures = new.signatures /\ index'.excluded = new.excluded
        /\ index'.pending = new.pending
    BY <1>3 DEF SameButFrames
  <1>5. new.frames = index.frames /\ new.pending = index.pending
    BY <1>2
  <1>6. new = index \/ (index'.signatures = <<>> /\ index'.excluded)
    BY <1>2, <1>4
  <1>7. ~index'.excluded => new = index /\ index'.signatures = index.signatures /\ ~index.excluded
    BY <1>4, <1>6, Zenon
  <1> QED
    BY <1>3, <1>4, <1>5, <1>6, <1>7

\* The values of the first suite were live before, or are of the target.
LEMMA OpenedValues ==
  ASSUME TypeOK, NEW n, NEW c, NEW new, NEW entered, Opened(n, c, new, entered)
  PROVE  /\ live' \in SUBSET Value /\ (live = {} => live' = {})
         /\ \A v \in live' : v \in live \/ (v.arms = {} /\ ~v.waiting)
  <1>1. live \subseteq Value
    BY DEF TypeOK
  <1>2. /\ c.kind = "branch" \/ c.kind = "try"
        /\ c.kind = "try" => live' = live
        /\ c.kind = "branch" => live' = {} \/ live' = entered
    <2>1. c \in Block
      BY DEF Opened
    <2> QED
      BY <2>1, BlockFields DEF Opened
  <1>3. entered = live \/ \E ignored \in BOOLEAN : entered = Rebound(ignored)
    BY DEF Opened, Targets
  <1>4. CASE live' = live \/ live' = {}
    BY <1>1, <1>4
  <1>5. CASE \E ignored \in BOOLEAN : live' = Rebound(ignored)
    <2>1. PICK ignored \in BOOLEAN : live' = Rebound(ignored)
      BY <1>5
    <2>2. live' \in SUBSET Value /\ \A v \in live' : v = Something(ignored)
      BY <2>1, SomethingType DEF Rebound
    <2>3. live = {} => live' = {}
      BY <2>1 DEF Rebound
    <2> QED
      BY <2>2, <2>3, SomethingType
  <1> QED
    BY <1>2, <1>3, <1>4, <1>5

\* The values a block starts with were live before it.
LEMMA OpenedFlow ==
  ASSUME TypeOK, NEW n, NEW c, NEW new, NEW entered, Opened(n, c, new, entered)
  PROVE  /\ Flow(c) \subseteq live /\ Held(c) \subseteq live /\ Untaken(c) = c.waiting
         /\ (InFrame(c) <=> c.framed) /\ (NotTaken(c) => live' = {})
  <1>1. c \in Block /\ c.at = 1 /\ c.exits = {} /\ BlockOK(c)
    BY DEF Opened
  <1>2. CASE c.kind = "try"
    <2>1. c.reached = live /\ c.waiting = {} /\ ~c.framed
      BY <1>2 DEF Opened
    <2>2. Held(c) \subseteq live
      BY <1>1, <2>1 DEF Held
    <2>3. Len(c.tests) \in Nat \ {0}
      BY <1>1, <1>2, TryFlow
    <2>4. c.at < Len(c.tests) + 2 /\ ~(2 <= c.at)
      BY <1>1, <2>3
    <2>5. Untaken(c) = c.waiting /\ ~InFrame(c) /\ ~NotTaken(c)
      BY <1>1, <1>2, <2>4, TryFlow
    <2> QED
      BY <2>1, <2>2, <2>5, FlowHeld
  <1>3. CASE c.kind = "branch"
    <2>1. /\ c.reached = {} /\ ~c.raises
          /\ c.waiting = IF FALSE \in c.tests[1] THEN live ELSE {}
          /\ live' = IF TRUE \in c.tests[1] THEN entered ELSE {}
      BY <1>3 DEF Opened
    <2>2. Held(c) \subseteq live
      BY <1>1, <2>1 DEF Held
    <2>3. NotTaken(c) => live' = {}
      <3>1. NotTaken(c) <=> Untakeable(c, 1)
        BY <1>1, <1>3, <2>1, BranchFlow
      <3>2. Untakeable(c, 1) => TRUE \notin c.tests[1]
        <4>1. \A j \in 1 .. 1 - 1 : FALSE
          OBVIOUS
        <4> QED
          BY <4>1, Zenon DEF Untakeable
      <3> QED
        BY <2>1, <3>1, <3>2
    <2>4. Untaken(c) = c.waiting /\ (InFrame(c) <=> c.framed)
      BY <1>3, <2>1, BranchFlow
    <2> QED
      BY <2>2, <2>3, <2>4, FlowHeld
  <1> QED
    BY <1>1, <1>2, <1>3, BlockFields

\* The blocks then, by where they are.
LEMMA OpenedAround ==
  ASSUME TypeOK, NEW n, NEW c, NEW new, NEW entered, Opened(n, c, new, entered)
  PROVE  /\ n \in Nat /\ n = Len(blocks) /\ DOMAIN blocks = 1 .. n /\ Around(n, live')
         /\ blocks' \in Seq(Block) /\ blocks'[n + 1] = c /\ DOMAIN blocks' = 1 .. n + 1
         /\ \A i \in DOMAIN blocks' : i \in 1 .. n \/ i = n + 1
         /\ \A i \in 1 .. n : i \in DOMAIN blocks /\ i \in DOMAIN blocks'
         /\ \A i \in DOMAIN blocks' : i > n => i = n + 1
         /\ \A i \in DOMAIN blocks' : ~(i > n + 1)
  <1>1. n = Len(blocks) /\ Around(n, live') /\ Len(blocks') = n + 1 /\ blocks'[n + 1] = c
    BY DEF Opened
  <1>2. n \in Nat /\ DOMAIN blocks = 1 .. n
    BY <1>1, BlockAt
  <1>3. blocks' \in Seq(Block) /\ DOMAIN blocks' = 1 .. n + 1
    BY <1>1, AroundBlocks DEF Around
  <1> QED
    BY <1>1, <1>2, <1>3

\* The suites, with the first one of the statement.
LEMMA OpenedBlocks ==
  ASSUME TypeOK, BlocksOK, DeadSuites, SuitesOK, NEW n, NEW c, NEW new, NEW entered,
         Opened(n, c, new, entered)
  PROVE  BlocksOK' /\ DeadSuites' /\ SuitesOK'
  <1>1. /\ n \in Nat /\ n = Len(blocks) /\ Around(n, live') /\ blocks'[n + 1] = c
        /\ \A i \in DOMAIN blocks' : i \in 1 .. n \/ i = n + 1
        /\ \A i \in 1 .. n : i \in DOMAIN blocks /\ i \in DOMAIN blocks'
        /\ \A i \in DOMAIN blocks' : i > n => i = n + 1
        /\ \A i \in DOMAIN blocks' : ~(i > n + 1)
    BY OpenedAround
  <1>2. /\ Held(c) \subseteq live /\ (NotTaken(c) => live' = {}) /\ (live = {} => live' = {})
    BY OpenedFlow, OpenedValues
  <1>3. BlocksOK'
    <2>1. ASSUME NEW i \in DOMAIN blocks'
          PROVE  BlockOK(blocks'[i])
      <3>1. CASE i \in 1 .. n
        BY <1>1, <3>1, AroundFacts
      <3>2. CASE i = n + 1
        BY <1>1, <3>2 DEF Opened
      <3> QED
        BY <1>1, <3>1, <3>2
    <2> QED
      BY <2>1 DEF BlocksOK
  <1>4. DeadSuites'
    <2>1. ASSUME NEW i \in DOMAIN blocks', NotTaken(blocks'[i])
          PROVE  Dead(i)'
      <3>1. CASE i \in 1 .. n
        <4>1. NotTaken(blocks[i])
          BY <1>1, <2>1, <3>1, AroundFacts
        <4>2. Dead(i) /\ live = {}
          BY <1>1, <3>1, <4>1 DEF DeadSuites, Dead
        <4>3. live' = {} /\ Held(c) = {}
          BY <1>2, <4>2
        <4>4. \A j \in DOMAIN blocks' : j > n => Held(blocks'[j]) = {}
          BY <1>1, <4>3
        <4>5. PICK values : values = live'
          OBVIOUS
        <4>6. Around(n, values) /\ values = {}
          BY <1>1, <4>3, <4>5
        <4> QED
          BY <3>1, <4>2, <4>3, <4>4, <4>6, AroundDead
      <3>2. CASE i = n + 1
        <4>1. live' = {}
          BY <1>1, <1>2, <2>1, <3>2
        <4>2. \A j \in DOMAIN blocks' : ~(j > i)
          BY <1>1, <3>2
        <4> QED
          BY <4>1, <4>2 DEF Dead
      <3> QED
        BY <1>1, <3>1, <3>2
    <2> QED
      BY <2>1 DEF DeadSuites
  <1>5. SuitesOK'
    <2>1. ASSUME NEW i \in DOMAIN blocks'
          PROVE  LET b == blocks'[i]
                 IN  /\ b.framed => WalkedTo(i)'
                     /\ b.kind = "branch" /\ ~b.framed /\ WalkedTo(i)' =>
                            \A k \in b.walked \cap DOMAIN b.tests : Taken(b, k)
      <3>1. CASE i \in 1 .. n
        BY <1>1, <3>1, AroundSuites
      <3>2. CASE i = n + 1
        <4>1. WalkedTo(i)' <=> WalkedTo(i)
          BY <1>1, <3>2, AroundWalked
        <4>2. WalkedTo(i) <=> Walked
          <5>1. DOMAIN blocks = 1 .. i - 1
            BY <1>1, <3>2, BlockAt
          <5> QED
            BY <5>1, Zenon DEF WalkedTo, Walked
        <4>3. /\ c.framed => Walked
              /\ c.kind = "branch" /\ Walked /\ ~c.framed =>
                    \A k \in c.walked \cap DOMAIN c.tests : Taken(c, k)
          BY DEF Opened
        <4>4. blocks'[i] = c
          BY <1>1, <3>2
        <4> QED
          BY <4>1, <4>2, <4>3, <4>4, Zenon
      <3> QED
        BY <1>1, <3>1, <3>2
    <2> QED
      BY <2>1, Zenon DEF SuitesOK
  <1> QED
    BY <1>3, <1>4, <1>5

\* Values are of statements written.
LEMMA OpenedNumbered ==
  ASSUME TypeOK, BlocksOK, Numbered, NEW n, NEW c, NEW new, NEW entered, Opened(n, c, new, entered)
  PROVE  Numbered'
  <1>1. /\ n \in Nat /\ Around(n, live') /\ blocks'[n + 1] = c
        /\ \A i \in DOMAIN blocks' : i \in 1 .. n \/ i = n + 1
    BY OpenedAround
  <1>2. /\ Held(c) \subseteq live /\ \A v \in live' : v \in live \/ v.arms = {}
    BY OpenedFlow, OpenedValues
  <1>3. 1 .. size \subseteq 1 .. size'
    <2>1. size' = size + 1
      BY Zenon DEF Opened
    <2>2. size \in Nat
      <3>1. size \in 0 .. MaxStatements /\ MaxStatements \in Nat
        BY DefinitionsAssumption DEF TypeOK
      <3> QED
        BY <3>1
    <2> QED
      BY <2>1, <2>2
  <1>4. \A v \in live : v.arms \subseteq 1 .. size'
    BY <1>3 DEF Numbered
  <1>5. \A v \in live' : v.arms \subseteq 1 .. size'
    BY <1>2, <1>4
  <1>6. Range(index'.signatures) \subseteq 1 .. size'
    <2>1. index'.signatures = index.signatures \/ index'.signatures = <<>>
      BY OpenedStore
    <2>2. Range(index.signatures) \subseteq 1 .. size'
      BY <1>3 DEF Numbered
    <2>3. Range(<<>>) = {}
      BY DEF Range
    <2> QED
      BY <2>1, <2>2, <2>3, Zenon
  <1>7. ASSUME NEW i \in DOMAIN blocks', NEW v \in Held(blocks'[i])
        PROVE  v.arms \subseteq 1 .. size'
    <2>1. CASE i \in 1 .. n
      <3>1. PICK values : values = live'
        OBVIOUS
      <3>2. Around(n, values) /\ \A w \in values : w.arms \subseteq 1 .. size'
        BY <1>1, <1>5, <3>1
      <3> QED
        BY <1>3, <1>7, <2>1, <3>2, AroundNumbered
    <2>2. CASE i = n + 1
      BY <1>1, <1>2, <1>4, <1>7, <2>2
    <2> QED
      BY <1>1, <2>1, <2>2
  <1> QED
    BY <1>5, <1>6, <1>7 DEF Numbered

\* A statement with a frame pushes it.
LEMMA OpenedFrames ==
  ASSUME TypeOK, BlocksOK, FramesOK, NEW n, NEW c, NEW new, NEW entered, Opened(n, c, new, entered)
  PROVE  FramesOK'
  <1>1. /\ n \in Nat /\ n = Len(blocks) /\ DOMAIN blocks = 1 .. n /\ Around(n, live')
        /\ blocks'[n + 1] = c /\ DOMAIN blocks' = 1 .. n + 1
        /\ \A i \in DOMAIN blocks' : i > n => i = n + 1
        /\ \A i \in DOMAIN blocks : i <= n /\ ~(i > n)
    BY OpenedAround
  <1>2. index'.frames = IF c.framed THEN Append(index.frames, FALSE) ELSE index.frames
    BY OpenedStore
  <1>3. PICK values : values = live'
    OBVIOUS
  <1>4. Around(n, values)
    BY <1>1, <1>3
  <1>5. PICK o : o = n + 1
    OBVIOUS
  <1>6. HasFrame(o)' <=> c.framed
    <2>1. WalkedTo(o)' <=> WalkedTo(o)
      BY <1>1, <1>4, <1>5, AroundWalked
    <2>2. WalkedTo(o) <=> Walked
      <3>1. DOMAIN blocks = 1 .. o - 1
        BY <1>1, <1>5
      <3> QED
        BY <3>1, Zenon DEF WalkedTo, Walked
    <2>3. (InFrame(c) <=> c.framed) /\ (c.framed => Walked)
      BY OpenedFlow DEF Opened
    <2>4. blocks'[o] = c
      BY <1>1, <1>5
    <2> QED
      BY <2>1, <2>2, <2>3, <2>4 DEF HasFrame
  <1>7. \A i \in 1 .. n : Guarded(i) => Guarded(i)'
    <2>1. index'.signatures = <<>> \/ index'.signatures = index.signatures
      BY OpenedStore
    <2> QED
      BY <1>4, <2>1, AroundGuarded
  <1>8. CASE c.framed
    <2>1. index'.frames = Append(index.frames, FALSE)
      BY <1>2, <1>8
    <2>2. HasFrame(n + 1)'
      BY <1>5, <1>6, <1>8
    <2>3. Len(blocks') = n + 1
      BY DEF Opened
    <2> QED
      BY <1>1, <1>4, <1>7, <2>1, <2>2, <2>3, FramesPushed
  <1>9. CASE ~c.framed
    <2>1. index'.frames = index.frames
      BY <1>2, <1>9
    <2>2. index'.frames \in Seq(BOOLEAN)
      BY OpenedStore, StoreFields
    <2>3. SameFrames(n)
      <3>1. ASSUME NEW i \in Nat, i > n
            PROVE  i \notin DOMAIN blocks /\ ~(i \in DOMAIN blocks' /\ HasFrame(i)')
        <4>1. i \notin DOMAIN blocks
          BY <1>1, <3>1
        <4>2. i \in DOMAIN blocks' => i = o
          BY <1>1, <1>5, <3>1
        <4> QED
          BY <1>6, <1>9, <4>1, <4>2
      <3> QED
        BY <3>1 DEF SameFrames
    <2> QED
      BY <1>1, <1>4, <1>7, <2>1, <2>2, <2>3, FramesKept
  <1> QED
    BY <1>8, <1>9

\* What may be live is among the signatures.
LEMMA OpenedKept ==
  ASSUME TypeOK, BlocksOK, KeptOK, NEW n, NEW c, NEW new, NEW entered, Opened(n, c, new, entered)
  PROVE  KeptOK'
  <1>1. SUFFICES ASSUME ~index'.excluded
                 PROVE  /\ \A v \in live' : Kept(v)'
                        /\ \A i \in DOMAIN blocks' : \A v \in Flow(blocks'[i]) : Kept(v)'
    BY DEF KeptOK
  <1>2. index'.signatures = index.signatures /\ ~index.excluded
    BY <1>1, OpenedStore
  <1>3. ASSUME NEW v, v.arms \subseteq Range(index.signatures)
        PROVE  Kept(v)'
    BY <1>2, <1>3 DEF Kept
  <1>4. \A v \in live : v.arms \subseteq Range(index.signatures)
    BY <1>2 DEF KeptOK, Kept
  <1>5. \A i \in DOMAIN blocks : \A v \in Flow(blocks[i]) : v.arms \subseteq Range(index.signatures)
    BY <1>2 DEF KeptOK, Kept
  <1>6. \A v \in live' : v.arms \subseteq Range(index.signatures)
    BY <1>4, OpenedValues
  <1>7. ASSUME NEW i \in DOMAIN blocks', NEW v \in Flow(blocks'[i])
        PROVE  v.arms \subseteq Range(index.signatures)
    <2>1. /\ Around(n, live') /\ blocks'[n + 1] = c /\ (i \in 1 .. n \/ i = n + 1)
          /\ \A j \in 1 .. n : j \in DOMAIN blocks
      BY OpenedAround
    <2>2. CASE i \in 1 .. n
      <3>1. Flow(blocks'[i]) \subseteq Flow(blocks[i]) \cup live'
        BY <2>1, <2>2, AroundFlow
      <3> QED
        BY <1>5, <1>6, <1>7, <2>1, <2>2, <3>1
    <2>3. CASE i = n + 1
      BY <1>4, <1>7, <2>1, <2>3, OpenedFlow
    <2> QED
      BY <2>1, <2>2, <2>3
  <1> QED
    BY <1>3, <1>6, <1>7

\* No overload waits where a statement opens a suite.
LEMMA OpenedWaiting ==
  ASSUME TypeOK, BlocksOK, WaitingOK, NEW n, NEW c, NEW new, NEW entered, Opened(n, c, new, entered)
  PROVE  WaitingOK'
  <1>1. /\ n \in Nat /\ Around(n, live') /\ blocks'[n + 1] = c
        /\ \A i \in DOMAIN blocks' : i \in 1 .. n \/ i = n + 1
        /\ \A i \in 1 .. n : i \in DOMAIN blocks
        /\ \A i \in DOMAIN blocks' : i > n => i = n + 1
    BY OpenedAround
  <1>2. index'.pending = index.pending /\ Complete
    BY OpenedStore DEF Opened
  <1>3. live # {} => index.pending = FALSE
    BY <1>2, CompleteIs
  <1>4. \A v \in live : v.waiting = index.pending /\ (v.waiting => v.arms # {})
    BY DEF WaitingOK, AsIndexed
  <1>5. \A v \in live' : v.waiting = index.pending /\ (v.waiting => v.arms # {})
    <2>1. ASSUME NEW v \in live'
          PROVE  v.waiting = index.pending /\ (v.waiting => v.arms # {})
      <3>1. CASE v \in live
        BY <1>4, <3>1
      <3>2. CASE v \notin live
        <4>1. ~v.waiting /\ live # {}
          BY <2>1, <3>2, OpenedValues
        <4>2. v.waiting \in BOOLEAN
          BY <2>1, OpenedValues DEF Value
        <4> QED
          BY <1>3, <4>1, <4>2
      <3> QED
        BY <3>1, <3>2
    <2> QED
      BY <2>1
  <1>6. \A i \in DOMAIN blocks : \A v \in Flow(blocks[i]) :
            v.waiting = index.pending /\ (v.waiting => v.arms # {})
    BY DEF WaitingOK, AsIndexed
  <1>7. ASSUME NEW i \in DOMAIN blocks', NEW v \in Flow(blocks'[i])
        PROVE  v.waiting = index.pending /\ (v.waiting => v.arms # {})
    <2>1. CASE i \in 1 .. n
      <3>1. Flow(blocks'[i]) \subseteq Flow(blocks[i]) \cup live'
        BY <1>1, <2>1, AroundFlow
      <3> QED
        BY <1>1, <1>5, <1>6, <1>7, <2>1, <3>1
    <2>2. CASE i = n + 1
      <3>1. v \in live
        BY <1>1, <1>7, <2>2, OpenedFlow
      <3> QED
        BY <1>4, <3>1
    <2> QED
      BY <1>1, <2>1, <2>2
  <1>8. ASSUME index.pending, NEW i \in DOMAIN blocks'
        PROVE  WaitsHere(i)'
    <2>1. live = {} /\ live' = {} /\ Flow(c) = {}
      BY <1>3, <1>8, OpenedFlow, OpenedValues
    <2>2. PICK values : values = live'
      OBVIOUS
    <2>3. Around(n, values) /\ values = {}
      BY <1>1, <2>1, <2>2
    <2>4. \A j \in 1 .. n : Flow(blocks'[j]) = Flow(blocks[j])
      BY <2>3, AroundFlow
    <2>5. \A j \in DOMAIN blocks' : j > n => Flow(blocks'[j]) = {}
      BY <1>1, <2>1
    <2>6. CASE i \in 1 .. n
      <3>1. WaitsHere(i)
        BY <1>1, <1>8, <2>6 DEF WaitingOK
      <3> QED
        BY <2>1, <2>3, <2>4, <2>5, <2>6, <3>1, AroundWaits
    <2>7. CASE i = n + 1
      <3>1. blocks'[i] = c /\ Untaken(c) = {} /\ LeftBy(c) = {} /\ Caught(c) = {}
        BY <1>1, <2>1, <2>7, FlowHeld
      <3>2. \A j \in DOMAIN blocks' : j >= i => Flow(blocks'[j]) = {}
        <4>1. \A j \in DOMAIN blocks' : j >= i => j > n
          <5>1. DOMAIN blocks' = 1 .. n + 1
            BY OpenedAround
          <5> QED
            BY <1>1, <2>7, <5>1
        <4> QED
          BY <2>5, <4>1
      <3> QED
        BY <2>1, <3>1, <3>2 DEF WaitsHere
    <2> QED
      BY <1>1, <2>6, <2>7
  <1> QED
    BY <1>2, <1>5, <1>7, <1>8 DEF WaitingOK, AsIndexed

\* The good value gets to the first suite, or waits for the next.
LEMMA OpenedGood ==
  ASSUME TypeOK, BlocksOK, GoodOK, NEW n, NEW c, NEW new, NEW entered, Opened(n, c, new, entered)
  PROVE  GoodOK'
  <1>1. SUFFICES ASSUME ~index'.excluded, index'.signatures # <<>>
                 PROVE  \/ \E v \in live' : Good(v)'
                        \/ \E i \in DOMAIN blocks' :
                               \E v \in Untaken(blocks'[i]) \cup LeftBy(blocks'[i]) : Good(v)'
    BY DEF GoodOK, Judged
  <1>2. new = index /\ index'.signatures = index.signatures /\ ~index.excluded
    BY <1>1, OpenedStore, Zenon
  <1>3. ASSUME NEW v, Good(v)
        PROVE  Good(v)'
    BY <1>2, <1>3 DEF Good
  <1>4. Judged
    BY <1>1, <1>2 DEF Judged
  <1>5. /\ n \in Nat /\ n = Len(blocks) /\ DOMAIN blocks = 1 .. n /\ Around(n, live')
        /\ blocks'[n + 1] = c /\ n + 1 \in DOMAIN blocks'
        /\ \A i \in 1 .. n : i \in DOMAIN blocks /\ i \in DOMAIN blocks'
    BY OpenedAround
  <1>6. CASE \E v \in live : Good(v)
    <2>1. live # {} /\ c \in Block /\ c.tests # <<>> /\ c.kind \in {"branch", "try"}
      BY <1>6, BlockFields DEF Opened, BlockOK
    <2>2. (live' = live) \/ (c.waiting = live) \/ (\E v \in live' : v.ignored)
      <3>1. CASE c.kind = "try"
        BY <3>1 DEF Opened
      <3>2. CASE c.kind = "branch" /\ TRUE \in c.tests[1]
        <4>1. live' = entered
          BY <3>2 DEF Opened
        <4>2. entered = live \/ \E ignored \in BOOLEAN : entered = Rebound(ignored) /\ ignored
          BY <1>1, <1>2, <3>2 DEF Opened, Targets
        <4>3. Something(TRUE).ignored /\ Something(TRUE) \in Rebound(TRUE)
          BY <2>1, SomethingType DEF Rebound
        <4> QED
          BY <4>1, <4>2, <4>3
      <3>3. CASE c.kind = "branch" /\ TRUE \notin c.tests[1]
        <4>1. FALSE \in c.tests[1]
          <5>1. c.tests \in Seq(SUBSET BOOLEAN) /\ 1 \in DOMAIN c.tests
            BY <2>1, BlockFields
          <5>2. c.tests[1] # {} /\ c.tests[1] \in SUBSET BOOLEAN
            BY <5>1 DEF Opened, BlockOK
          <5> QED
            BY <3>3, <5>2
        <4> QED
          BY <3>3, <4>1 DEF Opened
      <3> QED
        BY <2>1, <3>1, <3>2, <3>3
    <2>3. CASE live' = live
      BY <1>3, <1>6, <2>3
    <2>4. CASE c.waiting = live
      <3>1. Untaken(c) = live
        BY <2>4, OpenedFlow
      <3> QED
        BY <1>3, <1>5, <1>6, <3>1
    <2>5. CASE \E v \in live' : v.ignored
      BY <2>5 DEF Good
    <2> QED
      BY <2>2, <2>3, <2>4, <2>5
  <1>7. CASE \E i \in DOMAIN blocks : \E v \in Untaken(blocks[i]) \cup LeftBy(blocks[i]) : Good(v)
    <2>1. PICK i \in DOMAIN blocks : \E v \in Untaken(blocks[i]) \cup LeftBy(blocks[i]) : Good(v)
      BY <1>7
    <2>2. i \in 1 .. n /\ i \in DOMAIN blocks'
      BY <1>5
    <2>3. Untaken(blocks'[i]) = Untaken(blocks[i]) /\ LeftBy(blocks'[i]) = LeftBy(blocks[i])
      BY <1>5, <2>2, AroundFacts
    <2> QED
      BY <1>3, <2>1, <2>2, <2>3
  <1> QED
    BY <1>4, <1>6, <1>7 DEF GoodOK

\* A statement that opens a suite keeps the invariant.
LEMMA OpenStep ==
  ASSUME IInv, Approximations = {}, Openers
  PROVE  IInv'
  <1>1. /\ TypeOK /\ BlocksOK /\ Numbered /\ DeadSuites /\ SuitesOK
        /\ FramesOK /\ KeptOK /\ WaitingOK /\ GoodOK
    BY DEF IInv
  <1>2. PICK n \in Nat, c \in Block, new \in Store, entered \in SUBSET Value :
            Opened(n, c, new, entered)
    BY OpenersAre
  <1>3. BlocksOK' /\ DeadSuites' /\ SuitesOK' /\ Numbered'
    BY <1>1, <1>2, OpenedBlocks, OpenedNumbered
  <1>4. FramesOK' /\ KeptOK' /\ WaitingOK' /\ GoodOK'
    BY <1>1, <1>2, OpenedFrames, OpenedKept, OpenedWaiting, OpenedGood
  <1>5. /\ walker' = walker /\ index' \in Store /\ live' \in SUBSET Value /\ blocks' \in Seq(Block)
        /\ size' = size + 1 /\ size < MaxStatements
    BY <1>1, <1>2, OpenedStore, OpenedValues, OpenedAround DEF Opened
  <1>6. TypeOK'
    BY <1>1, <1>4, <1>5, TypeKept
  <1> QED
    BY <1>3, <1>4, <1>6 DEF IInv

(***************************************************************************)
(* The invariant, and what it is for                                       *)
(***************************************************************************)
\* Nothing is known of a name before its body.
LEMMA InitStep ==
  ASSUME Init
  PROVE  IInv
  <1>1. /\ index = Empty /\ live = {Something(FALSE)} /\ blocks = <<>> /\ size = 0
        /\ walker \in {"module", "fast module", "class", "fast class"}
    BY Zenon DEF Init
  <1>2. DOMAIN blocks = {} /\ blocks \in Seq(Block)
    <2>1. blocks = <<>>
      BY <1>1, Zenon
    <2> QED
      BY <2>1
  <1>3. /\ index.signatures = <<>> /\ ~index.excluded /\ index.frames = <<>> /\ ~index.pending
        /\ index.pending = FALSE /\ index \in Store
    <2>1. PICK none : none = <<>>
      OBVIOUS
    <2>2. PICK B : B = BOOLEAN
      OBVIOUS
    <2>3. none \in Seq(Ids) /\ none \in Seq(B) /\ 0 \in 0 .. MaxStatements /\ FALSE \in B
      BY <2>1, <2>2, DefinitionsAssumption
    <2>4. index = [signatures |-> none, excluded |-> FALSE, shadowed |-> 0, pending |-> FALSE,
                   frames |-> none]
      BY <1>1, <2>1, Zenon DEF Empty
    <2>5. /\ index.signatures = none /\ ~index.excluded /\ index.frames = none /\ ~index.pending
          /\ index.pending = FALSE
      BY <2>4
    <2>6. index \in [signatures : Seq(Ids), excluded : B, shadowed : 0 .. MaxStatements,
                     pending : B, frames : Seq(B)]
      BY <2>3, <2>4
    <2>7. index \in Store
      BY <2>2, <2>6, Zenon DEF Store
    <2> QED
      BY <2>1, <2>5, <2>7, Zenon
  <1>4. \A v \in live : v \in Value /\ v.arms = {} /\ v.waiting = FALSE
    <2>1. \A v \in live : v = Something(FALSE)
      BY <1>1, Zenon
    <2>2. /\ Something(FALSE) \in Value /\ Something(FALSE).arms = {}
          /\ Something(FALSE).waiting = FALSE
      <3>1. PICK ignored \in BOOLEAN : ignored = FALSE
        OBVIOUS
      <3>2. /\ Something(ignored) \in Value /\ Something(ignored).arms = {}
            /\ ~Something(ignored).waiting
        BY SomethingType
      <3>3. Something(ignored).waiting \in BOOLEAN
        BY <3>2 DEF Value
      <3> QED
        BY <3>1, <3>2, <3>3, Zenon
    <2> QED
      BY <2>1, <2>2, Zenon
  <1>5. TypeOK
    <2>1. live \subseteq Value
      BY <1>4, Zenon
    <2>2. size \in 0 .. MaxStatements
      <3>1. size = 0
        BY <1>1, Zenon
      <3> QED
        BY <3>1, DefinitionsAssumption
    <2>3. walker \in {"module", "fast module", "class", "fast class", "after a class"}
      <3>1. walker \in {"module", "fast module", "class", "fast class"}
        BY <1>1, Zenon
      <3> QED
        BY <3>1
    <2> QED
      BY <1>2, <1>3, <2>1, <2>2, <2>3, Zenon DEF TypeOK
  <1>6. BlocksOK /\ DeadSuites /\ SuitesOK
    BY <1>2, Zenon DEF BlocksOK, DeadSuites, SuitesOK
  <1>7. Range(index.signatures) = {}
    <2>1. Range(<<>>) = {}
      BY DEF Range
    <2> QED
      BY <1>3, <2>1, Zenon
  <1>8. Numbered
    BY <1>2, <1>4, <1>7, Zenon DEF Numbered
  <1>9. FramesOK
    <2>1. DOMAIN index.frames = {}
      BY <1>3
    <2>2. PICK owner : owner = [k \in {} |-> 1]
      OBVIOUS
    <2>3. DOMAIN owner = {} /\ owner \in [DOMAIN index.frames -> DOMAIN blocks]
      BY <2>1, <2>2
    <2>4. Owns(owner)
      BY <1>2, <2>3, Zenon DEF Owns
    <2> QED
      BY <2>3, <2>4, Zenon DEF FramesOK
  <1>10. KeptOK
    BY <1>2, <1>4, Zenon DEF KeptOK, Kept
  <1>11. WaitingOK
    <2>1. \A v \in live : AsIndexed(v)
      BY <1>3, <1>4 DEF AsIndexed
    <2> QED
      BY <1>2, <1>3, <2>1, Zenon DEF WaitingOK
  <1>12. GoodOK
    BY <1>3, Zenon DEF GoodOK, Judged
  <1> QED
    BY <1>5, <1>6, <1>8, <1>9, <1>10, <1>11, <1>12 DEF IInv

\* Only the walker is told of the end of a class.
LEMMA SameStep ==
  ASSUME IInv, UNCHANGED <<index, live, blocks, size>>,
         walker' \in {"module", "fast module", "class", "fast class", "after a class"}
  PROVE  IInv'
  <1>1. index' = index /\ live' = live /\ blocks' = blocks /\ size' = size
    OBVIOUS
  <1>2. TypeOK'
    BY <1>1 DEF IInv, TypeOK, Ended
  <1>3. BlocksOK' /\ Numbered' /\ DeadSuites' /\ SuitesOK'
    BY <1>1 DEF IInv, BlocksOK, Numbered, DeadSuites, SuitesOK, Dead, WalkedTo
  <1>4. \A i : (Guarded(i)' <=> Guarded(i)) /\ (HasFrame(i)' <=> HasFrame(i))
    BY <1>1 DEF Guarded, HasFrame, WalkedTo
  <1>5. \A owner : Owns(owner)' <=> Owns(owner)
    BY <1>1, <1>4 DEF Owns
  <1>6. FramesOK'
    BY <1>1, <1>4, <1>5, Zenon DEF IInv, FramesOK
  <1>7. KeptOK' /\ WaitingOK' /\ GoodOK'
    BY <1>1 DEF IInv, KeptOK, Kept, WaitingOK, AsIndexed, WaitsHere, GoodOK, Good, Judged
  <1> QED
    BY <1>2, <1>3, <1>6, <1>7 DEF IInv

\* Every step keeps the invariant.
LEMMA NextStep ==
  ASSUME IInv, Approximations = {}, [Next]_vars
  PROVE  IInv'
  <1>1. CASE Statements
    <2>1. PICK values : Written(values)
      BY <1>1, StatementIs
    <2> QED
      BY <2>1, WrittenStep
  <1>2. CASE Suites
    <2>1. CASE Openers
      BY <2>1, OpenStep
    <2>2. CASE NextClause
      BY <2>2, NextClauseStep
    <2>3. CASE EndBranch
      BY <2>3, EndBranchStep
    <2>4. CASE NextHandler
      BY <2>4, NextHandlerStep
    <2>5. CASE TryElse
      BY <2>5, TryElseStep
    <2>6. CASE Finally
      BY <2>6, FinallyStep
    <2>7. CASE EndTry
      BY <2>7, EndTryStep
    <2> QED
      BY <1>2, <2>1, <2>2, <2>3, <2>4, <2>5, <2>6, <2>7 DEF Suites, Openers
  <1>3. CASE LeaveClass
    BY <1>3, SameStep DEF LeaveClass
  <1>4. CASE UNCHANGED vars
    <2>1. walker \in {"module", "fast module", "class", "fast class", "after a class"}
      BY DEF IInv, TypeOK
    <2> QED
      BY <1>4, <2>1, SameStep DEF vars
  <1>5. Next => Statements \/ Suites \/ LeaveClass
    BY DEF Next, IndexStmt, IndexStmtFast, IndexClassBody, IndexClassBodyFast, IndexAfterClass,
           Statements
  <1> QED
    BY <1>1, <1>2, <1>3, <1>4, <1>5

\* The inductive invariant, for any length, depth and number of clauses of bodies that use
\* none of the approximations.
THEOREM Inductive ==
  ASSUME Approximations = {}
  PROVE  Spec => []IInv
  <1>1. Init => IInv
    BY InitStep
  <1>2. IInv /\ [Next]_vars => IInv'
    BY NextStep
  <1> QED
    BY <1>1, <1>2, PTL DEF Spec

\* The state keeps its shape, and where no suite is open no frame is (Store::push_frame and
\* pop_frame in pairs, whichever suites are walked).
THEOREM TypeCorrect ==
  ASSUME Approximations = {}
  PROVE  Spec => []TypeOK
  <1>1. IInv => TypeOK
    BY DEF IInv
  <1> QED
    BY <1>1, Inductive, PTL

\* A name that is judged keeps every definition that a call of it may run, whatever branches,
\* loops and handlers of a body bind it (Store::insert_definition).
THEOREM DefinitionsKept ==
  ASSUME Approximations = {}
  PROVE  Spec => []LiveDefinitionsKept
  <1>1. IInv => LiveDefinitionsKept
    BY DEF IInv, KeptOK, Kept, LiveDefinitionsKept, Judged
  <1> QED
    BY <1>1, Inductive, PTL

\* A name is not judged with definitions that no call of it runs any more (Store::remove,
\* Store::exclude).
THEOREM CandidatesAreLive ==
  ASSUME Approximations = {}
  PROVE  Spec => []CandidateIsLive
  <1>1. ASSUME IInv, Ended, Judged
        PROVE  \E v \in live : Good(v)
    <2>1. DOMAIN blocks = {}
      BY <1>1 DEF Ended
    <2> QED
      BY <1>1, <2>1 DEF IInv, GoodOK
  <1>2. IInv => CandidateIsLive
    BY <1>1 DEF CandidateIsLive, Good
  <1> QED
    BY <1>2, Inductive, PTL
=============================================================================
