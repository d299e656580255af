--------------------------- MODULE SequenceLemmas ---------------------------
(***************************************************************************)
(* Lemmas about sequences that the proofs about CheckPipeline, CallRewrite *)
(* and Definitions share: induction, stated over sets, since the induction *)
(* theorems of the library take an operator, which the provers cannot      *)
(* instantiate; functions defined by recursion; what FlattenSeq gives.     *)
(***************************************************************************)
EXTENDS Naturals, Sequences, SequencesExt, SequenceTheorems, WellFoundedInduction, TLAPS

(***************************************************************************)
(* Induction and recursion without operator parameters                     *)
(***************************************************************************)
\* A set of naturals with 0 and the successor of each member has them all.
LEMMA NatInd ==
  ASSUME NEW P, 0 \in P, \A n \in Nat : n \in P => n + 1 \in P
  PROVE  \A n \in Nat : n \in P
  <1> DEFINE R == OpToRel(<, Nat)
  <1>1. IsWellFoundedOn(R, Nat)
    BY NatLessThanWellFounded
  <1>2. \A x, y \in Nat : x < y => <<x, y>> \in R
    BY DEF OpToRel
  <1> HIDE DEF R
  <1> SUFFICES ASSUME \E n \in Nat : n \notin P
               PROVE  FALSE
    OBVIOUS
  <1> DEFINE S == {n \in Nat : n \notin P}
  <1>3. S \in SUBSET Nat /\ S # {}
    OBVIOUS
  <1> HIDE DEF S
  <1>4. PICK n \in S : \A m \in S : ~(<<m, n>> \in R)
    BY <1>1, <1>3, WFMin
  <1>5. n \in Nat /\ n \notin P /\ n # 0
    BY <1>4 DEF S
  <1>6. n - 1 \in Nat /\ n - 1 < n /\ (n - 1) + 1 = n
    BY <1>5
  <1>7. n - 1 \notin S
    BY <1>2, <1>4, <1>5, <1>6
  <1>8. n - 1 \in P
    BY <1>6, <1>7 DEF S
  <1> QED
    BY <1>5, <1>6, <1>8

\* A set of naturals that is not empty has a least.
LEMMA LeastNat ==
  ASSUME NEW S \in SUBSET Nat, S # {}
  PROVE  \E k \in S : \A j \in S : k <= j
  <1> DEFINE R == OpToRel(<, Nat)
  <1>1. IsWellFoundedOn(R, Nat)
    BY NatLessThanWellFounded
  <1>2. \A x, y \in Nat : x < y => <<x, y>> \in R
    BY DEF OpToRel
  <1> HIDE DEF R
  <1>3. PICK k \in S : \A j \in S : ~(<<j, k>> \in R)
    BY <1>1, WFMin
  <1>4. ASSUME NEW j \in S
        PROVE  k <= j
    <2>1. j \in Nat /\ k \in Nat /\ ~(j < k)
      BY <1>2, <1>3
    <2> QED
      BY <2>1
  <1> QED
    BY <1>4

\* A set with the empty sequence that is closed under Append has all sequences.
LEMMA SeqInd ==
  ASSUME NEW T, NEW P, <<>> \in P,
         \A s \in Seq(T), e \in T : s \in P => Append(s, e) \in P
  PROVE  \A s \in Seq(T) : s \in P
  <1> DEFINE Q == {n \in Nat : \A s \in Seq(T) : Len(s) = n => s \in P}
  <1>1. 0 \in Q
    <2> SUFFICES ASSUME NEW s \in Seq(T), Len(s) = 0
                 PROVE  s \in P
      OBVIOUS
    <2> s = <<>>
      BY EmptySeq
    <2> QED
      OBVIOUS
  <1>2. ASSUME NEW n \in Nat, n \in Q
        PROVE  n + 1 \in Q
    <2> SUFFICES ASSUME NEW s \in Seq(T), Len(s) = n + 1
                 PROVE  s \in P
      OBVIOUS
    <2>1. s # <<>>
      BY EmptySeq
    <2>2. PICK t \in Seq(T), e \in T : s = Append(t, e)
      BY <2>1, SequenceEmptyOrAppend
    <2>3. Len(t) \in Nat /\ Len(s) = Len(t) + 1
      BY <2>2, AppendProperties, LenProperties
    <2>4. Len(t) = n
      BY <2>3
    <2> QED
      BY <1>2, <2>2, <2>4
  <1> HIDE DEF Q
  <1>3. \A n \in Nat : n \in Q
    BY <1>1, <1>2, NatInd
  <1> QED
    BY <1>3, LenProperties DEF Q

\* g is the recursion over 0 .. N from base by step.
IsRecursion(g, base, step, N) ==
  g[0] = base /\ \A i \in 1 .. N : g[i] = step[<<i, g[i - 1]>>]

\* A recursion has a solution.
LEMMA RecursionTo ==
  ASSUME NEW X, NEW base \in X, NEW N \in Nat, NEW step \in [(1 .. N) \X X -> X]
  PROVE  \E g \in [0 .. N -> X] : IsRecursion(g, base, step, N)
  <1> DEFINE Sol(n, g) == g[0] = base /\ \A i \in 1 .. n : g[i] = step[<<i, g[i - 1]>>]
             P == {n \in Nat : n <= N => \E g \in [0 .. n -> X] : Sol(n, g)}
  <1>1. 0 \in P
    <2> [i \in 0 .. 0 |-> base] \in [0 .. 0 -> X] /\ Sol(0, [i \in 0 .. 0 |-> base])
      OBVIOUS
    <2> QED
      OBVIOUS
  <1>2. ASSUME NEW n \in Nat, n \in P
        PROVE  n + 1 \in P
    <2> SUFFICES ASSUME n + 1 <= N
                 PROVE  \E g \in [0 .. n + 1 -> X] : Sol(n + 1, g)
      OBVIOUS
    <2>1. PICK g \in [0 .. n -> X] : Sol(n, g)
      BY <1>2
    <2> DEFINE h == [i \in 0 .. n + 1 |-> IF i <= n THEN g[i] ELSE step[<<n + 1, g[n]>>]]
    <2>2. g[n] \in X /\ n + 1 \in 1 .. N
      OBVIOUS
    <2>3. step[<<n + 1, g[n]>>] \in X
      BY <2>2
    <2>4. h \in [0 .. n + 1 -> X]
      BY <2>3
    <2>5. h[0] = base
      BY <2>1
    <2>6. ASSUME NEW i \in 1 .. n + 1
          PROVE  h[i] = step[<<i, h[i - 1]>>]
      <3>1. h[i - 1] = g[i - 1]
        OBVIOUS
      <3>2. CASE i <= n
        BY <2>1, <3>1, <3>2
      <3>3. CASE i = n + 1
        <4>1. i - 1 = n /\ ~(i <= n)
          BY <3>3
        <4>2. h[i] = step[<<n + 1, g[n]>>]
          BY <4>1
        <4> QED
          BY <3>1, <3>3, <4>1, <4>2
      <3> QED
        BY <3>2, <3>3
    <2> QED
      BY <2>4, <2>5, <2>6
  <1> HIDE DEF P
  <1>3. N \in P
    BY <1>1, <1>2, NatInd
  <1> QED
    BY <1>3 DEF P, IsRecursion

\* A function on 1 .. n is a sequence.
LEMMA FcnIsSeq ==
  ASSUME NEW T, NEW n \in Nat, NEW f \in [1 .. n -> T]
  PROVE  f \in Seq(T) /\ Len(f) = n /\ DOMAIN f = 1 .. n
  OBVIOUS

(***************************************************************************)
(* FlattenSeq                                                              *)
(***************************************************************************)
\* What the function flatten of FlattenSeq is.
LEMMA FlattenRec ==
  ASSUME NEW T, NEW ss \in Seq(Seq(T)), ss # <<>>
  PROVE  \E g \in [1 .. Len(ss) -> Seq(T)] :
            /\ g[1] = ss[1]
            /\ \A i \in 2 .. Len(ss) : g[i] = g[i - 1] \o ss[i]
            /\ FlattenSeq(ss) = g[Len(ss)]
  <1> DEFINE n == Len(ss)
             G(g) == [i \in 1 .. n |-> IF i = 1 THEN ss[i] ELSE g[i - 1] \o ss[i]]
             flat == CHOOSE g : g = G(g)
  <1>1. n \in Nat \ {0} /\ ss \in [1 .. n -> Seq(T)]
    BY EmptySeq, LenProperties
  <1>2. FlattenSeq(ss) = flat[n]
    BY <1>1 DEF FlattenSeq
  <1> HIDE DEF n
  <1> DEFINE step == [p \in (1 .. n - 1) \X Seq(T) |-> p[2] \o ss[p[1] + 1]]
  <1>3. step \in [(1 .. n - 1) \X Seq(T) -> Seq(T)]
    <2> SUFFICES ASSUME NEW p \in (1 .. n - 1) \X Seq(T)
                 PROVE  p[2] \o ss[p[1] + 1] \in Seq(T)
      OBVIOUS
    <2>1. p[1] + 1 \in 1 .. n
      BY <1>1
    <2>2. ss[p[1] + 1] \in Seq(T)
      BY <1>1, <2>1
    <2> QED
      BY <2>2, ConcatProperties
  <1>4. n - 1 \in Nat /\ ss[1] \in Seq(T)
    BY <1>1
  <1>5. PICK h \in [0 .. n - 1 -> Seq(T)] :
             h[0] = ss[1] /\ \A i \in 1 .. n - 1 : h[i] = step[<<i, h[i - 1]>>]
    <2> DEFINE N == n - 1
               base == ss[1]
               X == Seq(T)
    <2>1. N \in Nat /\ base \in X /\ step \in [(1 .. N) \X X -> X]
      BY <1>3, <1>4
    <2> HIDE DEF step, N, base, X
    <2>2. \E g \in [0 .. N -> X] : IsRecursion(g, base, step, N)
      BY <2>1, RecursionTo
    <2> QED
      BY <2>2 DEF N, base, X, IsRecursion
  <1> DEFINE k == [i \in 1 .. n |-> h[i - 1]]
  <1>6. ASSUME NEW i \in 1 .. n, i # 1
        PROVE  k[i] = k[i - 1] \o ss[i]
    <2>1. i - 1 \in 1 .. n - 1 /\ i - 1 \in 1 .. n /\ (i - 1) - 1 \in 0 .. n - 1 /\ (i - 1) + 1 = i
      BY <1>1, <1>6
    <2>2. k[i] = h[i - 1] /\ k[i - 1] = h[(i - 1) - 1]
      BY <2>1
    <2>3. <<i - 1, h[(i - 1) - 1]>> \in (1 .. n - 1) \X Seq(T)
      BY <2>1
    <2>4. h[i - 1] = step[<<i - 1, h[(i - 1) - 1]>>]
      BY <1>5, <2>1
    <2>5. step[<<i - 1, h[(i - 1) - 1]>>] = h[(i - 1) - 1] \o ss[(i - 1) + 1]
      BY <2>3
    <2> QED
      BY <2>1, <2>2, <2>4, <2>5
  <1>7. k[1] = ss[1] /\ k \in [1 .. n -> Seq(T)]
    BY <1>1, <1>5
  <1>8. k = G(k)
    <2> HIDE DEF k
    <2> QED
      BY <1>6, <1>7
  <1> HIDE DEF k
  <1>9. flat = G(flat)
    BY <1>8
  <1> HIDE DEF flat
  <1> DEFINE P == {i \in Nat : i + 1 \in 1 .. n => flat[i + 1] \in Seq(T)}
  <1>10. 0 \in P
    BY <1>1, <1>4, <1>9
  <1>11. ASSUME NEW i \in Nat, i \in P
         PROVE  i + 1 \in P
    <2> SUFFICES ASSUME (i + 1) + 1 \in 1 .. n
                 PROVE  flat[(i + 1) + 1] \in Seq(T)
      OBVIOUS
    <2>1. i + 1 \in 1 .. n /\ ((i + 1) + 1) - 1 = i + 1 /\ (i + 1) + 1 # 1
      BY <1>1
    <2>2. flat[(i + 1) + 1] = flat[((i + 1) + 1) - 1] \o ss[(i + 1) + 1]
      BY <1>9, <2>1
    <2>3. flat[i + 1] \in Seq(T) /\ ss[(i + 1) + 1] \in Seq(T)
      BY <1>1, <1>11, <2>1
    <2> QED
      BY <2>1, <2>2, <2>3, ConcatProperties
  <1> HIDE DEF P
  <1>12. \A i \in Nat : i \in P
    BY <1>10, <1>11, NatInd
  <1>13. \A j \in 1 .. n : flat[j] \in Seq(T)
    <2> TAKE j \in 1 .. n
    <2> j - 1 \in Nat /\ (j - 1) + 1 = j
      BY <1>1
    <2> QED
      BY <1>12 DEF P
  <1>14. flat \in [1 .. n -> Seq(T)]
    BY <1>9, <1>13
  <1>15. flat[1] = ss[1] /\ \A i \in 2 .. n : flat[i] = flat[i - 1] \o ss[i]
    <2>1. flat[1] = ss[1]
      BY <1>1, <1>9
    <2>2. ASSUME NEW i \in 2 .. n
          PROVE  flat[i] = flat[i - 1] \o ss[i]
      <3>1. i \in 1 .. n /\ i # 1
        BY <1>1
      <3> QED
        BY <1>9, <3>1
    <2> QED
      BY <2>1, <2>2
  <1> QED
    BY <1>2, <1>14, <1>15 DEF n

\* Nothing flattened is nothing.
LEMMA FlattenEmpty == FlattenSeq(<<>>) = <<>>
  BY DEF FlattenSeq

\* The type of what is flattened.
LEMMA FlattenType ==
  ASSUME NEW T, NEW ss \in Seq(Seq(T))
  PROVE  FlattenSeq(ss) \in Seq(T)
  <1>1. CASE ss = <<>>
    <2>1. FlattenSeq(ss) = <<>>
      BY <1>1, FlattenEmpty, Zenon
    <2> QED
      BY <2>1, EmptySeq
  <1>2. CASE ss # <<>>
    <2>1. PICK g \in [1 .. Len(ss) -> Seq(T)] : FlattenSeq(ss) = g[Len(ss)]
      BY <1>2, FlattenRec
    <2>2. Len(ss) \in 1 .. Len(ss)
      BY <1>2, EmptySeq
    <2> QED
      BY <2>1, <2>2
  <1> QED
    BY <1>1, <1>2

\* A sequence more is concatenated.
LEMMA FlattenAppend ==
  ASSUME NEW T, NEW ss \in Seq(Seq(T)), NEW t \in Seq(T)
  PROVE  FlattenSeq(Append(ss, t)) = FlattenSeq(ss) \o t
  <1> DEFINE tt == Append(ss, t)
  <1>1. /\ tt \in Seq(Seq(T)) /\ tt # <<>> /\ Len(tt) = Len(ss) + 1
        /\ \A i \in 1 .. Len(ss) : tt[i] = ss[i]
        /\ tt[Len(ss) + 1] = t
    BY AppendProperties
  <1>2. Len(ss) \in Nat
    BY LenProperties
  <1> HIDE DEF tt
  <1>3. PICK g \in [1 .. Len(tt) -> Seq(T)] :
            /\ g[1] = tt[1]
            /\ \A i \in 2 .. Len(tt) : g[i] = g[i - 1] \o tt[i]
            /\ FlattenSeq(tt) = g[Len(tt)]
    BY <1>1, FlattenRec
  <1>4. CASE ss = <<>>
    <2>1. Len(ss) = 0
      BY <1>4
    <2>2. FlattenSeq(tt) = t
      BY <1>1, <1>3, <2>1
    <2>3. FlattenSeq(ss) = <<>>
      BY <1>4, FlattenEmpty
    <2> QED
      BY <2>2, <2>3, ConcatEmptySeq DEF tt
  <1>5. CASE ss # <<>>
    <2>1. Len(ss) \in Nat \ {0}
      BY <1>5, EmptySeq
    <2>2. PICK h \in [1 .. Len(ss) -> Seq(T)] :
              /\ h[1] = ss[1]
              /\ \A i \in 2 .. Len(ss) : h[i] = h[i - 1] \o ss[i]
              /\ FlattenSeq(ss) = h[Len(ss)]
      BY <1>5, FlattenRec
    <2> DEFINE P == {i \in Nat : i + 1 \in 1 .. Len(ss) => g[i + 1] = h[i + 1]}
    <2>3. 0 \in P
      BY <1>1, <1>3, <2>1, <2>2
    <2>4. ASSUME NEW i \in Nat, i \in P
          PROVE  i + 1 \in P
      <3> SUFFICES ASSUME (i + 1) + 1 \in 1 .. Len(ss)
                   PROVE  g[(i + 1) + 1] = h[(i + 1) + 1]
        OBVIOUS
      <3> DEFINE j == (i + 1) + 1
      <3>1. /\ j \in 2 .. Len(ss) /\ j \in 2 .. Len(tt) /\ j - 1 = i + 1
            /\ i + 1 \in 1 .. Len(ss) /\ j \in 1 .. Len(ss)
        BY <1>1, <2>1
      <3>2. g[i + 1] = h[i + 1]
        BY <2>4, <3>1
      <3> HIDE DEF j
      <3>3. g[j] = g[j - 1] \o tt[j]
        BY <1>3, <3>1
      <3>4. h[j] = h[j - 1] \o ss[j]
        BY <2>2, <3>1
      <3>5. tt[j] = ss[j]
        BY <1>1, <3>1
      <3>6. g[j] = h[j]
        BY <3>1, <3>2, <3>3, <3>4, <3>5
      <3> QED
        BY <3>6 DEF j
    <2> HIDE DEF P
    <2>5. \A i \in Nat : i \in P
      BY <2>3, <2>4, NatInd
    <2>6. g[Len(ss)] = h[Len(ss)]
      <3>1. Len(ss) - 1 \in Nat /\ (Len(ss) - 1) + 1 = Len(ss) /\ Len(ss) \in 1 .. Len(ss)
        BY <2>1
      <3>2. Len(ss) - 1 \in P
        BY <2>5, <3>1
      <3> QED
        BY <3>1, <3>2 DEF P
    <2>7. Len(tt) \in 2 .. Len(tt) /\ Len(tt) - 1 = Len(ss)
      BY <1>1, <2>1
    <2>8. g[Len(tt)] = g[Len(ss)] \o t
      BY <1>1, <1>3, <2>7
    <2> QED
      BY <1>3, <2>2, <2>6, <2>8 DEF tt
  <1> QED
    BY <1>4, <1>5

\* Flattening distributes over concatenation.
LEMMA FlattenConcat ==
  ASSUME NEW T, NEW ss \in Seq(Seq(T)), NEW tt \in Seq(Seq(T))
  PROVE  FlattenSeq(ss \o tt) = FlattenSeq(ss) \o FlattenSeq(tt)
  <1> DEFINE P == {uu \in Seq(Seq(T)) : FlattenSeq(ss \o uu) = FlattenSeq(ss) \o FlattenSeq(uu)}
  <1>1. FlattenSeq(ss) \in Seq(T)
    BY FlattenType
  <1>2. <<>> \in P
    <2>1. ss \o <<>> = ss /\ FlattenSeq(ss) \o <<>> = FlattenSeq(ss)
      BY <1>1, ConcatEmptySeq
    <2>2. FlattenSeq(ss \o <<>>) = FlattenSeq(ss) \o FlattenSeq(<<>>)
      BY <2>1, FlattenEmpty, Zenon
    <2> QED
      BY <2>2, EmptySeq
  <1>3. ASSUME NEW uu \in Seq(Seq(T)), NEW t \in Seq(T), uu \in P
        PROVE  Append(uu, t) \in P
    <2>1. ss \o Append(uu, t) = Append(ss \o uu, t)
      BY SMTT(30)
    <2>2. ss \o uu \in Seq(Seq(T))
      BY ConcatProperties
    <2>3. FlattenSeq(ss \o Append(uu, t)) = FlattenSeq(ss \o uu) \o t
      BY <2>1, <2>2, FlattenAppend
    <2>4. FlattenSeq(uu) \in Seq(T)
      BY FlattenType
    <2>5. FlattenSeq(Append(uu, t)) = FlattenSeq(uu) \o t
      BY FlattenAppend
    <2>6. (FlattenSeq(ss) \o FlattenSeq(uu)) \o t = FlattenSeq(ss) \o (FlattenSeq(uu) \o t)
      BY <1>1, <2>4, ConcatAssociative, SMTT(30)
    <2>7. FlattenSeq(ss \o uu) = FlattenSeq(ss) \o FlattenSeq(uu)
      BY <1>3
    <2>8. Append(uu, t) \in Seq(Seq(T))
      OBVIOUS
    <2> QED
      BY <2>3, <2>5, <2>6, <2>7, <2>8
  <1> HIDE DEF P
  <1>4. \A uu \in Seq(Seq(T)) : uu \in P
    BY <1>2, <1>3, SeqInd
  <1> QED
    BY <1>4 DEF P

\* Empty sequences flatten to the empty one.
LEMMA FlattenNone ==
  ASSUME NEW T, NEW ss \in Seq(Seq(T)), \A i \in 1 .. Len(ss) : ss[i] = <<>>
  PROVE  FlattenSeq(ss) = <<>>
  <1> DEFINE P == {tt \in Seq(Seq(T)) :
                      (\A i \in 1 .. Len(tt) : tt[i] = <<>>) => FlattenSeq(tt) = <<>>}
  <1>1. <<>> \in P
    BY FlattenEmpty
  <1>2. ASSUME NEW tt \in Seq(Seq(T)), NEW t \in Seq(T), tt \in P
        PROVE  Append(tt, t) \in P
    <2>1. /\ Append(tt, t) \in Seq(Seq(T)) /\ Len(Append(tt, t)) = Len(tt) + 1
          /\ \A i \in 1 .. Len(tt) : Append(tt, t)[i] = tt[i]
          /\ Append(tt, t)[Len(tt) + 1] = t
      BY AppendProperties
    <2>2. ASSUME \A i \in 1 .. Len(Append(tt, t)) : Append(tt, t)[i] = <<>>
          PROVE  FlattenSeq(Append(tt, t)) = <<>>
      <3>1. Len(tt) \in Nat
        BY LenProperties
      <3>2. t = <<>>
        BY <2>1, <2>2, <3>1
      <3>3. \A i \in 1 .. Len(tt) : tt[i] = <<>>
        BY <2>1, <2>2, <3>1
      <3>4. FlattenSeq(tt) = <<>>
        BY <1>2, <3>3
      <3>5. FlattenSeq(Append(tt, t)) = FlattenSeq(tt) \o t
        BY FlattenAppend
      <3> QED
        BY <3>2, <3>4, <3>5
    <2> QED
      BY <2>1, <2>2
  <1> HIDE DEF P
  <1>3. \A tt \in Seq(Seq(T)) : tt \in P
    BY <1>1, <1>2, SeqInd
  <1> QED
    BY <1>3 DEF P

\* If all but one of them are empty, that one is left.
LEMMA FlattenOne ==
  ASSUME NEW T, NEW ss \in Seq(Seq(T)), NEW k \in 1 .. Len(ss),
         \A i \in 1 .. Len(ss) : i # k => ss[i] = <<>>
  PROVE  FlattenSeq(ss) = ss[k]
  <1> DEFINE Q(tt) == (\A i \in 1 .. Len(tt) : i # k => tt[i] = <<>>) /\ k <= Len(tt)
             P == {tt \in Seq(Seq(T)) : Q(tt) => FlattenSeq(tt) = tt[k]}
  <1>1. <<>> \in P
    OBVIOUS
  <1>2. ASSUME NEW tt \in Seq(Seq(T)), NEW t \in Seq(T), tt \in P
        PROVE  Append(tt, t) \in P
    <2>1. /\ Append(tt, t) \in Seq(Seq(T)) /\ Len(Append(tt, t)) = Len(tt) + 1
          /\ \A i \in 1 .. Len(tt) : Append(tt, t)[i] = tt[i]
          /\ Append(tt, t)[Len(tt) + 1] = t
      BY AppendProperties
    <2>2. ASSUME Q(Append(tt, t))
          PROVE  FlattenSeq(Append(tt, t)) = Append(tt, t)[k]
      <3>1. Len(tt) \in Nat /\ k \in Nat \ {0}
        BY LenProperties
      <3>2. \A i \in 1 .. Len(tt) : i # k => tt[i] = <<>>
        BY <2>1, <2>2, <3>1
      <3>3. FlattenSeq(Append(tt, t)) = FlattenSeq(tt) \o t
        BY FlattenAppend
      <3>4. CASE k <= Len(tt)
        <4>1. FlattenSeq(tt) = tt[k]
          BY <1>2, <3>2, <3>4
        <4>2. t = <<>>
          BY <2>1, <2>2, <3>1, <3>4
        <4>3. tt[k] \in Seq(T)
          BY <3>1, <3>4, ElementOfSeq
        <4>4. Append(tt, t)[k] = tt[k]
          BY <2>1, <3>1, <3>4
        <4>5. tt[k] \o <<>> = tt[k]
          BY <4>3, ConcatEmptySeq
        <4> QED
          BY <3>3, <4>1, <4>2, <4>4, <4>5
      <3>5. CASE k = Len(tt) + 1
        <4>1. \A i \in 1 .. Len(tt) : tt[i] = <<>>
          BY <3>1, <3>2, <3>5
        <4>2. FlattenSeq(tt) = <<>>
          BY <4>1, FlattenNone
        <4> QED
          BY <2>1, <3>3, <3>5, <4>2
      <3>6. k <= Len(tt) + 1
        BY <2>1, <2>2
      <3> QED
        BY <3>1, <3>4, <3>5, <3>6
    <2> QED
      BY <2>1, <2>2
  <1> HIDE DEF P
  <1>3. \A tt \in Seq(Seq(T)) : tt \in P
    BY <1>1, <1>2, SeqInd
  <1>4. ss \in P
    BY <1>3
  <1>5. Len(ss) \in Nat /\ k <= Len(ss)
    BY LenProperties
  <1> QED
    BY <1>4, <1>5 DEF P

\* One sequence flattens to itself.
LEMMA FlattenSingle ==
  ASSUME NEW T, NEW t \in Seq(T)
  PROVE  FlattenSeq(<<t>>) = t
  <1> DEFINE ss == <<t>>
  <1>1. ss \in Seq(Seq(T)) /\ ss # <<>> /\ Len(ss) = 1 /\ ss[1] = t
    OBVIOUS
  <1> HIDE DEF ss
  <1>2. PICK g \in [1 .. Len(ss) -> Seq(T)] : g[1] = ss[1] /\ FlattenSeq(ss) = g[Len(ss)]
    BY <1>1, FlattenRec
  <1> QED
    BY <1>1, <1>2 DEF ss

(***************************************************************************)
(* Elements                                                                *)
(***************************************************************************)
\* What an element more adds.
LEMMA ToSetAppend ==
  ASSUME NEW T, NEW s \in Seq(T), NEW x \in T
  PROVE  ToSet(Append(s, x)) = ToSet(s) \cup {x}
  <1> DEFINE w == Append(s, x)
  <1>1. /\ w \in Seq(T) /\ Len(w) = Len(s) + 1 /\ w[Len(s) + 1] = x
        /\ \A i \in 1 .. Len(s) : w[i] = s[i]
    BY AppendProperties
  <1> HIDE DEF w
  <1>2. Len(s) \in Nat /\ DOMAIN s = 1 .. Len(s) /\ DOMAIN w = 1 .. Len(s) + 1
    BY <1>1, LenProperties
  <1>3. ToSet(w) \subseteq ToSet(s) \cup {x}
    <2> SUFFICES ASSUME NEW i \in 1 .. Len(s) + 1
                 PROVE  w[i] \in ToSet(s) \cup {x}
      BY <1>2 DEF ToSet
    <2>1. CASE i = Len(s) + 1
      BY <1>1, <2>1
    <2>2. CASE i \in 1 .. Len(s)
      BY <1>1, <1>2, <2>2 DEF ToSet
    <2> QED
      BY <1>2, <2>1, <2>2
  <1>4. x \in ToSet(w)
    <2> Len(s) + 1 \in DOMAIN w
      BY <1>2
    <2> QED
      BY <1>1 DEF ToSet
  <1>5. ToSet(s) \subseteq ToSet(w)
    <2> SUFFICES ASSUME NEW i \in 1 .. Len(s)
                 PROVE  s[i] \in ToSet(w)
      BY <1>2 DEF ToSet
    <2> i \in DOMAIN w /\ w[i] = s[i]
      BY <1>1, <1>2
    <2> QED
      BY DEF ToSet
  <1> QED
    BY <1>3, <1>4, <1>5 DEF w

\* Nothing is in the empty sequence.
LEMMA ToSetEmpty == ToSet(<<>>) = {}
  BY DEF ToSet

\* No element twice.
Distinct(s) == \A i, j \in 1 .. Len(s) : s[i] = s[j] => i = j

\* An element more that was not there.
LEMMA DistinctAppend ==
  ASSUME NEW T, NEW s \in Seq(T), NEW x \in T, Distinct(s), x \notin ToSet(s)
  PROVE  Distinct(Append(s, x))
  <1> DEFINE a == Append(s, x)
  <1>1. /\ Len(a) = Len(s) + 1 /\ a[Len(s) + 1] = x
        /\ \A i \in 1 .. Len(s) : a[i] = s[i]
    BY AppendProperties
  <1> HIDE DEF a
  <1>2. Len(s) \in Nat /\ DOMAIN s = 1 .. Len(s)
    BY LenProperties
  <1>3. \A i \in 1 .. Len(s) : s[i] # x
    BY <1>2 DEF ToSet
  <1>4. ASSUME NEW i \in 1 .. Len(a), NEW j \in 1 .. Len(a), a[i] = a[j]
        PROVE  i = j
    <2>1. CASE i \in 1 .. Len(s) /\ j \in 1 .. Len(s)
      BY <1>1, <1>4, <2>1 DEF Distinct
    <2>2. CASE i = Len(s) + 1 /\ j \in 1 .. Len(s)
      BY <1>1, <1>3, <1>4, <2>2
    <2>3. CASE i \in 1 .. Len(s) /\ j = Len(s) + 1
      BY <1>1, <1>3, <1>4, <2>3
    <2>4. CASE i = Len(s) + 1 /\ j = Len(s) + 1
      BY <2>4
    <2> QED
      BY <1>1, <1>2, <2>1, <2>2, <2>3, <2>4
  <1> QED
    BY <1>4 DEF Distinct, a
=============================================================================
