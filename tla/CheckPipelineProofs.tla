------------------------ MODULE CheckPipelineProofs ------------------------
(***************************************************************************)
(* Theorems about CheckPipeline (src/src/check.rs, pipeline_phases and     *)
(* apply_unused_noqa): a check that succeeds finds and stores what a       *)
(* serial check of every file finds, one that fails has met an error, and  *)
(* each ty shard is sent a prefix of its greedy part of the sorted files,  *)
(* for every project, number of shards and interleaving.                   *)
(*                                                                         *)
(* The first half is about sequences: what Only keeps, and                 *)
(* that sorting buckets, judging noqa directives and making cache entries  *)
(* depend only on the diagnostics of each file.  The second half shows     *)
(* IInv inductive, one lemma per action.                                   *)
(***************************************************************************)
EXTENDS CheckPipeline, SequenceLemmas, FiniteSetTheorems

(***************************************************************************)
(* Only                                                                    *)
(***************************************************************************)
\* Only is a flattening of sequences of one element at most.
LEMMA OnlyDef ==
  ASSUME NEW T, NEW s \in Seq(T), NEW S
  PROVE  LET ones == [i \in DOMAIN s |-> IF s[i] \in S THEN <<s[i]>> ELSE <<>>]
         IN ones \in Seq(Seq(T)) /\ Len(ones) = Len(s) /\ Only(s, S) = FlattenSeq(ones)
  <1> DEFINE ones == [i \in DOMAIN s |-> IF s[i] \in S THEN <<s[i]>> ELSE <<>>]
  <1>1. Only(s, S) = FlattenSeq(ones)
    BY DEF Only
  <1>2. DOMAIN s = 1 .. Len(s) /\ Len(s) \in Nat
    BY LenProperties
  <1>3. ones \in [1 .. Len(s) -> Seq(T)]
    <2> SUFFICES ASSUME NEW i \in 1 .. Len(s)
                 PROVE  (IF s[i] \in S THEN <<s[i]>> ELSE <<>>) \in Seq(T)
      BY <1>2
    <2> s[i] \in T
      BY ElementOfSeq
    <2> QED
      OBVIOUS
  <1> HIDE DEF ones
  <1>4. ones \in Seq(Seq(T)) /\ Len(ones) = Len(s)
    BY <1>2, <1>3
  <1> QED
    BY <1>1, <1>4 DEF ones

\* Of nothing, nothing.
LEMMA OnlyEmpty ==
  ASSUME NEW S
  PROVE  Only(<<>>, S) = <<>>
  <1> DEFINE ones == [i \in DOMAIN <<>> |-> IF <<>>[i] \in S THEN <<<<>>[i]>> ELSE <<>>]
  <1>1. ones = <<>>
    OBVIOUS
  <1>2. Only(<<>>, S) = FlattenSeq(ones)
    BY DEF Only
  <1> HIDE DEF ones
  <1> QED
    BY <1>1, <1>2, FlattenEmpty

\* The type of a selection.
LEMMA OnlyType ==
  ASSUME NEW T, NEW s \in Seq(T), NEW S
  PROVE  Only(s, S) \in Seq(T)
  <1> DEFINE ones == [i \in DOMAIN s |-> IF s[i] \in S THEN <<s[i]>> ELSE <<>>]
  <1>1. ones \in Seq(Seq(T)) /\ Only(s, S) = FlattenSeq(ones)
    BY OnlyDef
  <1> HIDE DEF ones
  <1> QED
    BY <1>1, FlattenType

\* An element more.
LEMMA OnlyAppend ==
  ASSUME NEW T, NEW s \in Seq(T), NEW x \in T, NEW S
  PROVE  Only(Append(s, x), S) = IF x \in S THEN Append(Only(s, S), x) ELSE Only(s, S)
  <1> DEFINE a == Append(s, x)
             ones(t) == [i \in DOMAIN t |-> IF t[i] \in S THEN <<t[i]>> ELSE <<>>]
             one == IF x \in S THEN <<x>> ELSE <<>>
  <1>1. /\ a \in Seq(T) /\ Len(a) = Len(s) + 1 /\ a[Len(s) + 1] = x
        /\ \A i \in 1 .. Len(s) : a[i] = s[i]
    BY AppendProperties
  <1> HIDE DEF a
  <1>2. Len(s) \in Nat /\ DOMAIN s = 1 .. Len(s) /\ DOMAIN a = 1 .. Len(s) + 1
    BY <1>1, LenProperties
  <1>3. /\ ones(s) \in Seq(Seq(T)) /\ Len(ones(s)) = Len(s) /\ Only(s, S) = FlattenSeq(ones(s))
        /\ ones(a) \in Seq(Seq(T)) /\ Len(ones(a)) = Len(s) + 1
        /\ Only(a, S) = FlattenSeq(ones(a))
    BY <1>1, OnlyDef
  <1>4. one \in Seq(T)
    OBVIOUS
  <1>5. \A i \in 1 .. Len(s) : ones(a)[i] = ones(s)[i]
    BY <1>1, <1>2
  <1>6. ones(a)[Len(s) + 1] = one
    BY <1>1, <1>2
  <1>7. ones(a) = Append(ones(s), one)
    <2> DEFINE p == ones(a)
               q == ones(s)
               o == one
    <2>1. /\ q \in Seq(Seq(T)) /\ Len(q) = Len(s) /\ o \in Seq(T)
          /\ p \in Seq(Seq(T)) /\ Len(p) = Len(s) + 1
          /\ \A i \in 1 .. Len(s) : p[i] = q[i]
          /\ p[Len(s) + 1] = o
      BY <1>3, <1>4, <1>5, <1>6
    <2> HIDE DEF p, q, o
    <2>2. /\ Append(q, o) \in Seq(Seq(T)) /\ Len(Append(q, o)) = Len(s) + 1
          /\ \A i \in 1 .. Len(s) : Append(q, o)[i] = q[i]
          /\ Append(q, o)[Len(s) + 1] = o
      BY <2>1, AppendProperties
    <2>3. \A i \in 1 .. Len(p) : p[i] = Append(q, o)[i]
      BY <1>2, <2>1, <2>2
    <2>4. p = Append(q, o)
      BY <2>1, <2>2, <2>3, SeqEqual
    <2> QED
      BY <2>4 DEF p, q, o
  <1>8. Only(a, S) = Only(s, S) \o one
    <2> HIDE DEF ones, one
    <2> QED
      BY <1>3, <1>4, <1>7, FlattenAppend
  <1>9. Only(s, S) \in Seq(T)
    BY OnlyType
  <1>10. CASE x \in S
    <2>1. Append(Only(s, S), x) = Only(s, S) \o <<x>>
      BY <1>9, AppendIsConcat
    <2> QED
      BY <1>8, <1>10, <2>1 DEF a
  <1>11. CASE x \notin S
    BY <1>8, <1>9, <1>11 DEF a
  <1> QED
    BY <1>10, <1>11

\* Selecting distributes over concatenation.
LEMMA OnlyConcat ==
  ASSUME NEW T, NEW s \in Seq(T), NEW t \in Seq(T), NEW S
  PROVE  Only(s \o t, S) = Only(s, S) \o Only(t, S)
  <1> DEFINE P == {u \in Seq(T) : Only(s \o u, S) = Only(s, S) \o Only(u, S)}
  <1>1. Only(s, S) \in Seq(T)
    BY OnlyType
  <1>2. <<>> \in P
    <2>1. s \o <<>> = s /\ Only(s, S) \o <<>> = Only(s, S)
      BY <1>1, ConcatEmptySeq
    <2>2. Only(s \o <<>>, S) = Only(s, S) \o Only(<<>>, S)
      BY <2>1, OnlyEmpty, Zenon
    <2> QED
      BY <2>2, EmptySeq
  <1>3. ASSUME NEW u \in Seq(T), NEW x \in T, u \in P
        PROVE  Append(u, x) \in P
    <2>1. s \o Append(u, x) = Append(s \o u, x) /\ s \o u \in Seq(T) /\ Append(u, x) \in Seq(T)
      OBVIOUS
    <2>2. Only(s \o u, S) = Only(s, S) \o Only(u, S) /\ Only(u, S) \in Seq(T)
      BY <1>3, OnlyType
    <2>3. CASE x \in S
      <3>1. Only(Append(s \o u, x), S) = Append(Only(s \o u, S), x)
        BY <2>1, <2>3, OnlyAppend
      <3>2. Only(Append(u, x), S) = Append(Only(u, S), x)
        BY <2>3, OnlyAppend
      <3>3. Append(Only(s, S) \o Only(u, S), x) = Only(s, S) \o Append(Only(u, S), x)
        <4> DEFINE p == Only(s, S)
                   q == Only(u, S)
        <4>1. p \in Seq(T) /\ q \in Seq(T)
          BY <1>1, <2>2
        <4> HIDE DEF p, q
        <4>2. p \o Append(q, x) = Append(p \o q, x)
          BY <4>1
        <4> QED
          BY <4>2 DEF p, q
      <3> QED
        BY <2>1, <2>2, <3>1, <3>2, <3>3
    <2>4. CASE x \notin S
      <3>1. Only(Append(s \o u, x), S) = Only(s \o u, S)
        BY <2>1, <2>4, OnlyAppend
      <3>2. Only(Append(u, x), S) = Only(u, S)
        BY <2>4, OnlyAppend
      <3> QED
        BY <2>1, <2>2, <3>1, <3>2
    <2> QED
      BY <2>3, <2>4
  <1> HIDE DEF P
  <1>4. \A u \in Seq(T) : u \in P
    BY <1>2, <1>3, SeqInd
  <1> QED
    BY <1>4 DEF P

\* What a selection keeps.
LEMMA OnlyElements ==
  ASSUME NEW T, NEW s \in Seq(T), NEW S
  PROVE  ToSet(Only(s, S)) = ToSet(s) \cap S
  <1> DEFINE P == {u \in Seq(T) : ToSet(Only(u, S)) = ToSet(u) \cap S}
  <1>1. <<>> \in P
    <2>1. Only(<<>>, S) = <<>>
      BY OnlyEmpty
    <2>2. ToSet(<<>>) = {}
      BY ToSetEmpty
    <2> QED
      BY <2>1, <2>2, EmptySeq
  <1>2. ASSUME NEW u \in Seq(T), NEW x \in T, u \in P
        PROVE  Append(u, x) \in P
    <2>1. \A v \in Seq(T) : ToSet(Append(v, x)) = ToSet(v) \cup {x}
      BY ToSetAppend
    <2>2. Only(u, S) \in Seq(T) /\ Append(u, x) \in Seq(T)
      BY OnlyType
    <2>3. ToSet(Only(u, S)) = ToSet(u) \cap S
      BY <1>2
    <2>4. CASE x \in S
      <3>1. Only(Append(u, x), S) = Append(Only(u, S), x)
        BY <2>4, OnlyAppend
      <3> QED
        BY <2>1, <2>2, <2>3, <2>4, <3>1
    <2>5. CASE x \notin S
      <3>1. Only(Append(u, x), S) = Only(u, S)
        BY <2>5, OnlyAppend
      <3> QED
        BY <2>1, <2>2, <2>3, <2>5, <3>1
    <2> QED
      BY <2>4, <2>5
  <1> HIDE DEF P
  <1>3. \A u \in Seq(T) : u \in P
    BY <1>1, <1>2, SeqInd
  <1> QED
    BY <1>3 DEF P

\* Two selections that agree on what the sequence may hold.
LEMMA OnlySame ==
  ASSUME NEW T, NEW s \in Seq(T), NEW S, NEW R, \A x \in T : x \in S <=> x \in R
  PROVE  Only(s, S) = Only(s, R)
  <1>1. DOMAIN s = 1 .. Len(s)
    BY LenProperties
  <1>2. \A i \in DOMAIN s : s[i] \in S <=> s[i] \in R
    BY <1>1, ElementOfSeq
  <1> QED
    BY <1>2 DEF Only

\* Selecting everything changes nothing.
LEMMA OnlyAll ==
  ASSUME NEW T, NEW s \in Seq(T), NEW S, T \subseteq S
  PROVE  Only(s, S) = s
  <1> DEFINE P == {u \in Seq(T) : Only(u, S) = u}
  <1>1. <<>> \in P
    BY OnlyEmpty
  <1>2. ASSUME NEW u \in Seq(T), NEW x \in T, u \in P
        PROVE  Append(u, x) \in P
    <2>1. Only(Append(u, x), S) = Append(Only(u, S), x)
      BY OnlyAppend
    <2> QED
      BY <1>2, <2>1
  <1> HIDE DEF P
  <1>3. \A u \in Seq(T) : u \in P
    BY <1>1, <1>2, SeqInd
  <1> QED
    BY <1>3 DEF P

\* Selecting what is not there leaves nothing.
LEMMA OnlyNone ==
  ASSUME NEW T, NEW s \in Seq(T), NEW S, \A x \in T : x \notin S
  PROVE  Only(s, S) = <<>>
  <1> DEFINE P == {u \in Seq(T) : Only(u, S) = <<>>}
  <1>1. <<>> \in P
    BY OnlyEmpty
  <1>2. ASSUME NEW u \in Seq(T), NEW x \in T, u \in P
        PROVE  Append(u, x) \in P
    <2>1. Only(Append(u, x), S) = Only(u, S)
      BY OnlyAppend
    <2> QED
      BY <1>2, <2>1
  <1> HIDE DEF P
  <1>3. \A u \in Seq(T) : u \in P
    BY <1>1, <1>2, SeqInd
  <1> QED
    BY <1>3 DEF P

\* One selection after another.
LEMMA OnlyOnly ==
  ASSUME NEW T, NEW s \in Seq(T), NEW S, NEW R
  PROVE  Only(Only(s, S), R) = Only(s, S \cap R)
  <1> DEFINE SR == S \cap R
  <1>0. \A x : x \in SR <=> x \in S /\ x \in R
    OBVIOUS
  <1> HIDE DEF SR
  <1> DEFINE P == {u \in Seq(T) : Only(Only(u, S), R) = Only(u, SR)}
  <1>1. <<>> \in P
    BY OnlyEmpty
  <1>2. ASSUME NEW u \in Seq(T), NEW x \in T, u \in P
        PROVE  Append(u, x) \in P
    <2>1. Only(u, S) \in Seq(T) /\ Append(u, x) \in Seq(T)
      BY OnlyType
    <2>2. Only(Only(u, S), R) = Only(u, SR)
      BY <1>2
    <2>3. CASE x \notin S
      <3>1. Only(Append(u, x), S) = Only(u, S)
        BY <2>3, OnlyAppend
      <3>2. Only(Append(u, x), SR) = Only(u, SR)
        BY <1>0, <2>3, OnlyAppend
      <3> QED
        BY <2>1, <2>2, <3>1, <3>2
    <2>4. CASE x \in S /\ x \in R
      <3>1. Only(Append(u, x), S) = Append(Only(u, S), x)
        BY <2>4, OnlyAppend
      <3> x \in SR
        BY <1>0, <2>4
      <3>2. Only(Append(u, x), SR) = Append(Only(u, SR), x)
        BY OnlyAppend
      <3>3. Only(Append(Only(u, S), x), R) = Append(Only(Only(u, S), R), x)
        BY <2>1, <2>4, OnlyAppend
      <3> QED
        BY <2>1, <2>2, <3>1, <3>2, <3>3
    <2>5. CASE x \in S /\ x \notin R
      <3>1. Only(Append(u, x), S) = Append(Only(u, S), x)
        BY <2>5, OnlyAppend
      <3> x \notin SR
        BY <1>0, <2>5
      <3>2. Only(Append(u, x), SR) = Only(u, SR)
        BY OnlyAppend
      <3>3. Only(Append(Only(u, S), x), R) = Only(Only(u, S), R)
        BY <2>1, <2>5, OnlyAppend
      <3> QED
        BY <2>1, <2>2, <3>1, <3>2, <3>3
    <2> QED
      BY <2>3, <2>4, <2>5
  <1> HIDE DEF P
  <1>3. \A u \in Seq(T) : u \in P
    BY <1>1, <1>2, SeqInd
  <1> QED
    BY <1>3 DEF P, SR

\* A selection from a flattened sequence.
LEMMA OnlyFlatten ==
  ASSUME NEW T, NEW ss \in Seq(Seq(T)), NEW S
  PROVE  /\ [i \in 1 .. Len(ss) |-> Only(ss[i], S)] \in Seq(Seq(T))
         /\ Only(FlattenSeq(ss), S) = FlattenSeq([i \in 1 .. Len(ss) |-> Only(ss[i], S)])
  <1> DEFINE each(tt) == [i \in 1 .. Len(tt) |-> Only(tt[i], S)]
             P == {tt \in Seq(Seq(T)) : Only(FlattenSeq(tt), S) = FlattenSeq(each(tt))}
  <1>1. ASSUME NEW tt \in Seq(Seq(T))
        PROVE  each(tt) \in Seq(Seq(T)) /\ Len(each(tt)) = Len(tt)
    <2>1. Len(tt) \in Nat
      BY LenProperties
    <2>2. \A i \in 1 .. Len(tt) : Only(tt[i], S) \in Seq(T)
      <3> TAKE i \in 1 .. Len(tt)
      <3> tt[i] \in Seq(T)
        BY ElementOfSeq
      <3> QED
        BY OnlyType
    <2>3. each(tt) \in [1 .. Len(tt) -> Seq(T)]
      BY <2>2
    <2> HIDE DEF each
    <2> QED
      BY <2>1, <2>3, FcnIsSeq
  <1>2. <<>> \in P
    <2>1. each(<<>>) = <<>>
      OBVIOUS
    <2>2. Only(FlattenSeq(<<>>), S) = <<>>
      BY FlattenEmpty, OnlyEmpty
    <2> HIDE DEF each
    <2> QED
      BY <2>1, <2>2, FlattenEmpty
  <1>3. ASSUME NEW tt \in Seq(Seq(T)), NEW t \in Seq(T), tt \in P
        PROVE  Append(tt, t) \in P
    <2> DEFINE a == Append(tt, t)
               p == each(a)
               q == each(tt)
               o == Only(t, S)
    <2>1. /\ a \in Seq(Seq(T)) /\ Len(a) = Len(tt) + 1
          /\ \A i \in 1 .. Len(tt) : a[i] = tt[i]
          /\ a[Len(tt) + 1] = t
      BY AppendProperties
    <2> HIDE DEF a
    <2>2. Len(tt) \in Nat
      BY LenProperties
    <2>3. \A i \in 1 .. Len(tt) : p[i] = q[i]
      BY <2>1, <2>2
    <2>4. p[Len(tt) + 1] = o
      BY <2>1, <2>2
    <2>5. /\ p \in Seq(Seq(T)) /\ Len(p) = Len(tt) + 1
          /\ q \in Seq(Seq(T)) /\ Len(q) = Len(tt)
          /\ o \in Seq(T)
      <3> HIDE DEF each
      <3> QED
        BY <1>1, <2>1, OnlyType
    <2> HIDE DEF p, q, o
    <2>6. /\ Append(q, o) \in Seq(Seq(T)) /\ Len(Append(q, o)) = Len(tt) + 1
          /\ \A i \in 1 .. Len(tt) : Append(q, o)[i] = q[i]
          /\ Append(q, o)[Len(tt) + 1] = o
      BY <2>5, AppendProperties
    <2> DEFINE r == Append(q, o)
    <2> HIDE DEF r
    <2>7. \A i \in 1 .. Len(p) : p[i] = r[i]
      <3>1. \A i \in 1 .. Len(tt) : r[i] = q[i]
        BY <2>6 DEF r
      <3>2. r[Len(tt) + 1] = o
        BY <2>6 DEF r
      <3>3. \A i \in 1 .. Len(p) : i \in 1 .. Len(tt) \/ i = Len(tt) + 1
        BY <2>2, <2>5
      <3> QED
        BY <2>3, <2>4, <3>1, <3>2, <3>3
    <2>8. p = Append(q, o)
      <3>1. r \in Seq(Seq(T)) /\ Len(r) = Len(p)
        BY <2>5, <2>6 DEF r
      <3>2. p = r
        BY <2>5, <2>7, <3>1, SeqEqual
      <3> QED
        BY <3>2 DEF r
    <2>9. FlattenSeq(p) = FlattenSeq(q) \o o
      BY <2>5, <2>8, FlattenAppend
    <2>10. FlattenSeq(a) = FlattenSeq(tt) \o t /\ FlattenSeq(tt) \in Seq(T)
      BY FlattenAppend, FlattenType DEF a
    <2>11. Only(FlattenSeq(a), S) = Only(FlattenSeq(tt), S) \o o
      BY <2>10, OnlyConcat DEF o
    <2>12. Only(FlattenSeq(tt), S) = FlattenSeq(q)
      <3> HIDE DEF each
      <3> QED
        BY <1>3 DEF q
    <2>13. Only(FlattenSeq(a), S) = FlattenSeq(p)
      BY <2>9, <2>11, <2>12
    <2> HIDE DEF each
    <2> QED
      BY <2>1, <2>13 DEF a, p
  <1> HIDE DEF P
  <1>4. \A tt \in Seq(Seq(T)) : tt \in P
    BY <1>2, <1>3, SeqInd
  <1> QED
    BY <1>1, <1>4 DEF P

\* A selection of distinct elements is one.
LEMMA OnlyDistinct ==
  ASSUME NEW T, NEW s \in Seq(T), NEW S, Distinct(s)
  PROVE  Distinct(Only(s, S))
  <1> DEFINE P == {u \in Seq(T) : Distinct(u) => Distinct(Only(u, S))}
  <1>1. <<>> \in P
    BY OnlyEmpty DEF Distinct
  <1>2. ASSUME NEW u \in Seq(T), NEW x \in T, u \in P
        PROVE  Append(u, x) \in P
    <2>0. Append(u, x) \in Seq(T)
      OBVIOUS
    <2> SUFFICES ASSUME Distinct(Append(u, x))
                 PROVE  Distinct(Only(Append(u, x), S))
      BY <2>0
    <2>1. Len(u) \in Nat /\ DOMAIN u = 1 .. Len(u)
      BY LenProperties
    <2>2. /\ Len(Append(u, x)) = Len(u) + 1 /\ Append(u, x)[Len(u) + 1] = x
          /\ \A i \in 1 .. Len(u) : Append(u, x)[i] = u[i]
      BY AppendProperties
    <2>3. Distinct(u) /\ x \notin ToSet(u)
      BY <2>1, <2>2 DEF Distinct, ToSet
    <2>4. Distinct(Only(u, S)) /\ Only(u, S) \in Seq(T)
      BY <1>2, <2>3, OnlyType
    <2>5. CASE x \in S
      <3>1. Only(Append(u, x), S) = Append(Only(u, S), x)
        BY <2>5, OnlyAppend
      <3>2. x \notin ToSet(Only(u, S))
        BY <2>3, OnlyElements
      <3> QED
        BY <2>4, <3>1, <3>2, DistinctAppend
    <2>6. CASE x \notin S
      <3>1. Only(Append(u, x), S) = Only(u, S)
        BY <2>6, OnlyAppend
      <3> QED
        BY <2>4, <3>1
    <2> QED
      BY <2>5, <2>6
  <1> HIDE DEF P
  <1>3. \A u \in Seq(T) : u \in P
    BY <1>1, <1>2, SeqInd
  <1> QED
    BY <1>3 DEF P

(***************************************************************************)
(* Files and their diagnostics                                             *)
(***************************************************************************)
\* A project is a sequence of files.
LEMMA InputFacts ==
  ASSUME input \in Inputs
  PROVE  /\ Paths = 1 .. Len(input) /\ Len(input) \in Nat
         /\ \A f \in Paths : input[f] \in File
  <1>1. input \in Seq(File)
    BY InputsAssumption
  <1> HIDE DEF File
  <1> QED
    BY <1>1, LenProperties, ElementOfSeq DEF Paths

\* What a file is.
LEMMA FileFacts ==
  ASSUME NEW f \in File
  PROVE  /\ f.kind \in {"good", "skipped", "failing"}
         /\ f.calls \in Seq([line : 1 .. Lines, name : STRING])
         /\ f.weight \in Nat /\ f.reports \in Seq(1 .. Lines) /\ f.tyFails \in BOOLEAN
         /\ f.weight = 0 => f.reports = <<>>
  BY DEF File

\* The misses are the files without an entry, each once.
LEMMA MissesFacts ==
  ASSUME input \in Inputs
  PROVE  /\ Misses \in Seq(Paths) /\ Len(Misses) \in Nat /\ Distinct(Misses)
         /\ ToSet(Misses) = Paths \ DOMAIN cache
         /\ DOMAIN Misses = 1 .. Len(Misses)
  <1> DEFINE all == [f \in Paths |-> f]
             n == Len(input)
  <1>1. Paths = 1 .. n /\ n \in Nat
    BY InputFacts
  <1>2. all \in [1 .. n -> Paths] /\ \A i \in 1 .. n : all[i] = i
    BY <1>1
  <1>3. Misses = Only(all, Paths \ DOMAIN cache)
    BY DEF Misses
  <1> HIDE DEF all, n
  <1>4. all \in Seq(Paths) /\ Len(all) = n /\ DOMAIN all = 1 .. n
    BY <1>1, <1>2, FcnIsSeq
  <1>5. Distinct(all)
    BY <1>2, <1>4 DEF Distinct
  <1>6. ToSet(all) = Paths
    BY <1>1, <1>2, <1>4 DEF ToSet
  <1> DEFINE gone == Paths \ DOMAIN cache
  <1>7. \A x : x \in gone <=> x \in Paths /\ x \notin DOMAIN cache
    OBVIOUS
  <1>8. Misses = Only(all, gone)
    BY <1>3
  <1> HIDE DEF gone
  <1>9. Misses \in Seq(Paths)
    BY <1>4, <1>8, OnlyType
  <1>10. Distinct(Misses)
    BY <1>4, <1>5, <1>8, OnlyDistinct
  <1>11. ToSet(Misses) = Paths \cap gone
    BY <1>4, <1>6, <1>8, OnlyElements
  <1>12. ToSet(Misses) = Paths \ DOMAIN cache
    BY <1>7, <1>11
  <1> QED
    BY <1>9, <1>10, <1>12, LenProperties

\* A sequence of lines as the diagnostics of a file.
LEMMA FoundType ==
  ASSUME NEW f, NEW lines \in Seq(1 .. Lines)
  PROVE  Found(f, lines) \in Seq(Of(f, 1 .. Lines, {"KW001"}))
  <1>1. Len(lines) \in Nat /\ DOMAIN lines = 1 .. Len(lines)
    BY LenProperties
  <1>2. \A i \in 1 .. Len(lines) :
            [path |-> f, line |-> lines[i], code |-> "KW001"] \in Of(f, 1 .. Lines, {"KW001"})
    BY ElementOfSeq DEF Of
  <1>3. Found(f, lines) \in [1 .. Len(lines) -> Of(f, 1 .. Lines, {"KW001"})]
    BY <1>1, <1>2 DEF Found
  <1> QED
    BY <1>1, <1>3, FcnIsSeq

\* What a scan and ty find in a file.
LEMMA ScanType ==
  ASSUME input \in Inputs, NEW f \in Paths, NEW rebound
  PROVE  /\ Scan(f, rebound) \in Seq(Of(f, 1 .. Lines, {"KW001"}))
         /\ Resolved(f) \in Seq(Of(f, 1 .. Lines, {"KW001"}))
         /\ input[f].weight = 0 => Resolved(f) = <<>>
  <1> DEFINE Call == [line : 1 .. Lines, name : STRING]
             kept == [line : 1 .. Lines, name : STRING \ rebound]
             calls == Only(input[f].calls, kept)
             lines == [i \in DOMAIN calls |-> calls[i].line]
  <1>1. /\ input[f].calls \in Seq(Call) /\ input[f].reports \in Seq(1 .. Lines)
        /\ input[f].weight = 0 => input[f].reports = <<>>
    BY InputFacts, FileFacts
  <1>2. Scan(f, rebound) = Found(f, lines)
    BY DEF Scan
  <1> HIDE DEF kept
  <1>3. calls \in Seq(Call)
    <2> HIDE DEF Call
    <2> QED
      BY <1>1, OnlyType
  <1> HIDE DEF calls
  <1>4. Len(calls) \in Nat /\ DOMAIN calls = 1 .. Len(calls)
    BY <1>3, LenProperties
  <1>5. lines \in [1 .. Len(calls) -> 1 .. Lines]
    <2> SUFFICES ASSUME NEW i \in 1 .. Len(calls)
                 PROVE  calls[i].line \in 1 .. Lines
      BY <1>4
    <2> calls[i] \in Call
      BY <1>3, ElementOfSeq
    <2> QED
      OBVIOUS
  <1> HIDE DEF lines
  <1>6. lines \in Seq(1 .. Lines)
    BY <1>4, <1>5, FcnIsSeq
  <1>7. Found(f, lines) \in Seq(Of(f, 1 .. Lines, {"KW001"}))
    BY <1>6, FoundType
  <1>8. Found(f, input[f].reports) \in Seq(Of(f, 1 .. Lines, {"KW001"}))
    BY <1>1, FoundType
  <1>9. ASSUME input[f].weight = 0
        PROVE  Resolved(f) = <<>>
    <2>1. input[f].reports = <<>>
      BY <1>1, <1>9
    <2>2. Found(f, <<>>) = <<>>
      BY DEF Found
    <2> QED
      BY <2>1, <2>2 DEF Resolved
  <1> QED
    BY <1>2, <1>7, <1>8, <1>9 DEF Resolved

\* The diagnostics of a file are diagnostics.
LEMMA OfFile ==
  ASSUME NEW f \in Paths, NEW codes \in SUBSET {"KW001", "KW002"}, NEW lines \in SUBSET (1 .. Lines)
  PROVE  /\ Of(f, lines, codes) \subseteq Diagnostic
         /\ Seq(Of(f, lines, codes)) \subseteq Seq(Diagnostic)
  <1>1. Of(f, lines, codes) \subseteq Diagnostic
    BY DEF Of, Diagnostic
  <1> QED
    BY <1>1, SeqMonotonic

AllOf(f) == Of(f, 1 .. Lines, {"KW001", "KW002"})
At(f, l) == Of(f, {l}, {"KW001", "KW002"})
Bucket(ds, f) == FlattenSeq([l \in 1 .. Lines |-> Only(ds, At(f, l))])

\* The diagnostics at a line are among those of the file.
LEMMA AtFacts ==
  ASSUME NEW f \in Paths
  PROVE  /\ AllOf(f) \subseteq Diagnostic /\ Seq(AllOf(f)) \subseteq Seq(Diagnostic)
         /\ \A l \in 1 .. Lines : At(f, l) \subseteq AllOf(f)
         /\ \A d \in AllOf(f) : d.path = f /\ d.line \in 1 .. Lines
         /\ \A l \in 1 .. Lines : \A d \in AllOf(f) : d \in At(f, l) <=> d.line = l
         /\ \A d \in Diagnostic : d \in AllOf(f) <=> d.path = f
  <1>1. AllOf(f) \subseteq Diagnostic /\ Seq(AllOf(f)) \subseteq Seq(Diagnostic)
    BY OfFile DEF AllOf
  <1>2. \A l \in 1 .. Lines : At(f, l) \subseteq AllOf(f)
    BY DEF At, AllOf, Of
  <1>3. \A d \in AllOf(f) : d.path = f /\ d.line \in 1 .. Lines
    BY DEF AllOf, Of
  <1>4. \A l \in 1 .. Lines : \A d \in AllOf(f) : d \in At(f, l) <=> d.line = l
    BY DEF At, AllOf, Of
  <1>5. \A d \in Diagnostic : d \in AllOf(f) <=> d.path = f
    BY DEF AllOf, Of, Diagnostic
  <1> QED
    BY <1>1, <1>2, <1>3, <1>4, <1>5

\* A selection out of a selection that contains it.
LEMMA OnlyWithin ==
  ASSUME NEW T, NEW s \in Seq(T), NEW S, NEW R, R \subseteq S
  PROVE  Only(Only(s, S), R) = Only(s, R)
  <1>1. Only(Only(s, S), R) = Only(s, S \cap R)
    BY OnlyOnly
  <1>2. S \cap R = R
    OBVIOUS
  <1> QED
    BY <1>1, <1>2, Zenon

\* A selection has the type of what it selects.
LEMMA OnlyRange ==
  ASSUME NEW T, NEW s \in Seq(T), NEW S
  PROVE  Only(s, S) \in Seq(S)
  <1> DEFINE o == Only(s, S)
  <1>1. o \in Seq(T)
    BY OnlyType
  <1>2. ToSet(o) = ToSet(s) \cap S
    BY OnlyElements
  <1> HIDE DEF o
  <1>3. Len(o) \in Nat /\ DOMAIN o = 1 .. Len(o) /\ o \in [1 .. Len(o) -> T]
    BY <1>1, LenProperties
  <1>4. \A i \in 1 .. Len(o) : o[i] \in S
    BY <1>2, <1>3 DEF ToSet
  <1>5. o \in [1 .. Len(o) -> S]
    BY <1>3, <1>4
  <1> QED
    BY <1>3, <1>5, FcnIsSeq DEF o

\* The lines of a file in a sequence, sorted.
LEMMA BucketFacts ==
  ASSUME NEW f \in Paths, NEW ds \in Seq(Diagnostic)
  PROVE  /\ Bucket(ds, f) \in Seq(AllOf(f))
         /\ \A l \in 1 .. Lines : Only(Bucket(ds, f), At(f, l)) = Only(ds, At(f, l))
  <1> DEFINE ss == [l \in 1 .. Lines |-> Only(ds, At(f, l))]
             T == AllOf(f)
  <1>1. Lines \in Nat
    BY ShardAssumption
  <1>2. \A l \in 1 .. Lines : Only(ds, At(f, l)) \in Seq(At(f, l)) /\ Only(ds, At(f, l)) \in Seq(T)
    <2> TAKE l \in 1 .. Lines
    <2>1. Only(ds, At(f, l)) \in Seq(At(f, l))
      BY OnlyRange
    <2>2. At(f, l) \subseteq T
      BY AtFacts
    <2> QED
      BY <2>1, <2>2, SeqMonotonic
  <1>3. ss \in [1 .. Lines -> Seq(T)]
    BY <1>2
  <1>4. ss \in Seq(Seq(T)) /\ Len(ss) = Lines
    <2> HIDE DEF ss, T
    <2> QED
      BY <1>1, <1>3, FcnIsSeq
  <1>5. Bucket(ds, f) = FlattenSeq(ss)
    BY DEF Bucket
  <1>6. Bucket(ds, f) \in Seq(T)
    <2> HIDE DEF ss, T
    <2> QED
      BY <1>4, <1>5, FlattenType
  <1>7. ASSUME NEW l \in 1 .. Lines
        PROVE  Only(Bucket(ds, f), At(f, l)) = Only(ds, At(f, l))
    <2> DEFINE tt == [k \in 1 .. Len(ss) |-> Only(ss[k], At(f, l))]
    <2>1. tt \in Seq(Seq(T)) /\ Only(Bucket(ds, f), At(f, l)) = FlattenSeq(tt)
      <3> HIDE DEF ss, T
      <3> QED
        BY <1>4, <1>5, OnlyFlatten
    <2>2. tt = [k \in 1 .. Lines |-> Only(Only(ds, At(f, k)), At(f, l))]
      BY <1>4
    <2>3. \A k \in 1 .. Lines : k # l => Only(Only(ds, At(f, k)), At(f, l)) = <<>>
      <3> TAKE k \in 1 .. Lines
      <3> HAVE k # l
      <3>1. Only(ds, At(f, k)) \in Seq(At(f, k))
        BY <1>2
      <3>2. \A d \in At(f, k) : d \notin At(f, l)
        BY DEF At, Of
      <3> QED
        BY <3>1, <3>2, OnlyNone
    <2>4. Only(Only(ds, At(f, l)), At(f, l)) = Only(ds, At(f, l))
      BY OnlyWithin
    <2>5. /\ Len(tt) = Lines /\ tt[l] = Only(ds, At(f, l))
          /\ \A k \in 1 .. Lines : k # l => tt[k] = <<>>
      BY <1>1, <2>2, <2>3, <2>4
    <2> HIDE DEF tt, T
    <2>6. FlattenSeq(tt) = tt[l]
      BY <2>1, <2>5, FlattenOne
    <2> QED
      BY <2>1, <2>5, <2>6
  <1> QED
    BY <1>6, <1>7

\* What is sorted has, file by file, the buckets.
LEMMA SortedFacts ==
  ASSUME input \in Inputs, NEW ds \in Seq(Diagnostic)
  PROVE  /\ Sorted(ds) \in Seq(Diagnostic)
         /\ Sorted(ds) = FlattenSeq([f \in Paths |-> Bucket(ds, f)])
         /\ \A f \in Paths : Only(Sorted(ds), AllOf(f)) = Bucket(ds, f)
  <1> DEFINE n == Len(input)
             ss == [f \in Paths |-> Bucket(ds, f)]
  <1>1. Paths = 1 .. n /\ n \in Nat
    BY InputFacts
  <1>2. \A f \in Paths : Bucket(ds, f) \in Seq(AllOf(f)) /\ Bucket(ds, f) \in Seq(Diagnostic)
    BY BucketFacts, AtFacts
  <1>3. ss \in [1 .. n -> Seq(Diagnostic)]
    BY <1>1, <1>2
  <1>4. ss \in Seq(Seq(Diagnostic)) /\ Len(ss) = n
    <2> HIDE DEF ss, n
    <2> QED
      BY <1>1, <1>3, FcnIsSeq
  <1>5. Sorted(ds) = FlattenSeq(ss)
    BY DEF Sorted, Bucket, At
  <1>6. Sorted(ds) \in Seq(Diagnostic)
    <2> HIDE DEF ss
    <2> QED
      BY <1>4, <1>5, FlattenType
  <1>7. ASSUME NEW f \in Paths
        PROVE  Only(Sorted(ds), AllOf(f)) = Bucket(ds, f)
    <2> DEFINE tt == [g \in 1 .. Len(ss) |-> Only(ss[g], AllOf(f))]
    <2>1. tt \in Seq(Seq(Diagnostic)) /\ Only(Sorted(ds), AllOf(f)) = FlattenSeq(tt)
      <3> HIDE DEF ss
      <3> QED
        BY <1>4, <1>5, OnlyFlatten
    <2>2. tt = [g \in Paths |-> Only(Bucket(ds, g), AllOf(f))]
      BY <1>1, <1>4
    <2>3. \A g \in Paths : g # f => Only(Bucket(ds, g), AllOf(f)) = <<>>
      <3> TAKE g \in Paths
      <3> HAVE g # f
      <3>1. \A d \in AllOf(g) : d \notin AllOf(f)
        BY AtFacts
      <3> QED
        BY <1>2, <3>1, OnlyNone
    <2>4. Only(Bucket(ds, f), AllOf(f)) = Bucket(ds, f)
      BY <1>2, OnlyAll
    <2>5. /\ f \in 1 .. Len(tt) /\ Len(tt) = n /\ tt[f] = Bucket(ds, f)
          /\ \A g \in 1 .. n : g # f => tt[g] = <<>>
      BY <1>1, <2>2, <2>3, <2>4
    <2> HIDE DEF tt
    <2>6. FlattenSeq(tt) = tt[f]
      BY <2>1, <2>5, FlattenOne
    <2> QED
      BY <2>1, <2>5, <2>6
  <1> QED
    BY <1>5, <1>6, <1>7

\* What is selected at a line of what is sorted.
LEMMA SortedAt ==
  ASSUME input \in Inputs, NEW ds \in Seq(Diagnostic), NEW f \in Paths, NEW l \in 1 .. Lines
  PROVE  Only(Sorted(ds), At(f, l)) = Only(ds, At(f, l))
  <1>1. At(f, l) \subseteq AllOf(f)
    BY AtFacts
  <1>2. Only(Only(Sorted(ds), AllOf(f)), At(f, l)) = Only(Sorted(ds), At(f, l))
    <2> Sorted(ds) \in Seq(Diagnostic)
      BY SortedFacts
    <2> QED
      BY <1>1, OnlyWithin
  <1>3. Only(Sorted(ds), AllOf(f)) = Bucket(ds, f)
    BY SortedFacts
  <1>4. Only(Bucket(ds, f), At(f, l)) = Only(ds, At(f, l))
    BY BucketFacts
  <1> QED
    BY <1>2, <1>3, <1>4

\* Sequences that have the same at every place of every file are sorted alike.
LEMMA SortedAlike ==
  ASSUME NEW ds, NEW es,
         \A f \in Paths : \A l \in 1 .. Lines : Only(ds, At(f, l)) = Only(es, At(f, l))
  PROVE  Sorted(ds) = Sorted(es)
  <1>1. \A f \in Paths : [l \in 1 .. Lines |-> Only(ds, At(f, l))]
                       = [l \in 1 .. Lines |-> Only(es, At(f, l))]
    OBVIOUS
  <1>2. \A f \in Paths : Bucket(ds, f) = Bucket(es, f)
    BY <1>1 DEF Bucket
  <1>3. [f \in Paths |-> Bucket(ds, f)] = [f \in Paths |-> Bucket(es, f)]
    BY <1>2
  <1>4. /\ Sorted(ds) = FlattenSeq([f \in Paths |-> Bucket(ds, f)])
        /\ Sorted(es) = FlattenSeq([f \in Paths |-> Bucket(es, f)])
    BY DEF Sorted, Bucket, At
  <1> QED
    BY <1>3, <1>4, Zenon

\* Sorting what is sorted changes nothing.
LEMMA SortedTwice ==
  ASSUME input \in Inputs, NEW ds \in Seq(Diagnostic)
  PROVE  Sorted(Sorted(ds)) = Sorted(ds)
  BY SortedAt, SortedAlike

(***************************************************************************)
(* noqa and cache entries, file by file                                    *)
(***************************************************************************)
Kept(files) == {d \in Diagnostic :
                   d.path \in ToSet(files) => d.line \notin input[d.path].covered}
Unused(ds, f) ==
  LET unused == Only([l \in 1 .. Lines |-> l], UnusedNoqa(ds, f))
  IN [j \in DOMAIN unused |-> [path |-> f, line |-> unused[j], code |-> "KW002"]]
KW1(f) == Of(f, 1 .. Lines, {"KW001"})
KW2(f) == Of(f, 1 .. Lines, {"KW002"})

\* ApplyNoqa by the names above.
LEMMA ApplyNoqaDef ==
  ASSUME NEW ds, NEW files
  PROVE  ApplyNoqa(ds, files) =
            Only(ds, Kept(files)) \o FlattenSeq([i \in DOMAIN files |-> Unused(ds, files[i])])
  BY DEF ApplyNoqa, Kept, Unused

\* The diagnostics of a file of either code.
LEMMA CodeFacts ==
  ASSUME NEW f \in Paths
  PROVE  /\ KW1(f) \subseteq AllOf(f) /\ KW2(f) \subseteq AllOf(f)
         /\ \A d \in AllOf(f) : (d \in KW1(f) <=> d.code = "KW001") /\ (d \in KW2(f) <=> d.code = "KW002")
         /\ KW1(f) \subseteq Diagnostic /\ KW2(f) \subseteq Diagnostic
         /\ Seq(KW1(f)) \subseteq Seq(AllOf(f)) /\ Seq(KW2(f)) \subseteq Seq(AllOf(f))
         /\ Seq(KW1(f)) \subseteq Seq(Diagnostic) /\ Seq(KW2(f)) \subseteq Seq(Diagnostic)
         /\ \A d \in KW1(f) : d \notin KW2(f)
  <1>1. KW1(f) \subseteq AllOf(f) /\ KW2(f) \subseteq AllOf(f)
    BY DEF KW1, KW2, AllOf, Of
  <1>2. \A d \in AllOf(f) : (d \in KW1(f) <=> d.code = "KW001") /\ (d \in KW2(f) <=> d.code = "KW002")
    BY DEF KW1, KW2, AllOf, Of
  <1>3. \A d \in KW1(f) : d \notin KW2(f)
    BY DEF KW1, KW2, Of
  <1>4. AllOf(f) \subseteq Diagnostic
    BY AtFacts
  <1>5. KW1(f) \subseteq Diagnostic /\ KW2(f) \subseteq Diagnostic
    BY <1>1, <1>4
  <1>6. /\ Seq(KW1(f)) \subseteq Seq(AllOf(f)) /\ Seq(KW2(f)) \subseteq Seq(AllOf(f))
        /\ Seq(KW1(f)) \subseteq Seq(Diagnostic) /\ Seq(KW2(f)) \subseteq Seq(Diagnostic)
    BY <1>1, <1>5, SeqMonotonic
  <1> QED
    BY <1>1, <1>2, <1>3, <1>5, <1>6

\* The type of the diagnostics of unused directives.
LEMMA UnusedType ==
  ASSUME NEW f, NEW ds
  PROVE  Unused(ds, f) \in Seq(KW2(f))
  <1> DEFINE all == [l \in 1 .. Lines |-> l]
             unused == Only(all, UnusedNoqa(ds, f))
             D == KW2(f)
  <1>1. Lines \in Nat
    BY ShardAssumption
  <1>2. all \in [1 .. Lines -> 1 .. Lines]
    OBVIOUS
  <1> HIDE DEF all
  <1>3. all \in Seq(1 .. Lines)
    BY <1>1, <1>2, FcnIsSeq
  <1>4. unused \in Seq(1 .. Lines)
    BY <1>3, OnlyType
  <1>5. Unused(ds, f) = [j \in DOMAIN unused |-> [path |-> f, line |-> unused[j], code |-> "KW002"]]
    BY DEF Unused, all
  <1> HIDE DEF unused
  <1>6. Len(unused) \in Nat /\ DOMAIN unused = 1 .. Len(unused)
    BY <1>4, LenProperties
  <1>7. \A j \in 1 .. Len(unused) : [path |-> f, line |-> unused[j], code |-> "KW002"] \in D
    BY <1>4, ElementOfSeq DEF KW2, Of
  <1>8. Unused(ds, f) \in [1 .. Len(unused) -> D]
    <2> HIDE DEF D
    <2> QED
      BY <1>5, <1>6, <1>7
  <1> HIDE DEF D
  <1>9. Unused(ds, f) \in Seq(D)
    BY <1>6, <1>8, FcnIsSeq
  <1> QED
    BY <1>9 DEF D

\* Directives are unused by the diagnostics of their file.
LEMMA UnusedAlike ==
  ASSUME NEW f \in Paths, NEW ds \in Seq(Diagnostic)
  PROVE  Unused(ds, f) = Unused(Only(ds, AllOf(f)), f)
  <1> DEFINE os == Only(ds, AllOf(f))
  <1>1. os \in Seq(Diagnostic) /\ ToSet(os) = ToSet(ds) \cap AllOf(f)
    BY OnlyType, OnlyElements
  <1> HIDE DEF os
  <1>2. \A d \in Diagnostic : d \in AllOf(f) <=> d.path = f
    BY AtFacts
  <1>3. \A i \in DOMAIN ds : ds[i] \in Diagnostic
    BY LenProperties, ElementOfSeq
  <1>4. \A i \in DOMAIN os : os[i] \in ToSet(ds) /\ os[i] \in ToSet(os)
    BY <1>1 DEF ToSet
  <1>5. ASSUME NEW l
        PROVE  (\A i \in DOMAIN ds : ~(ds[i].path = f /\ ds[i].line = l))
               <=> (\A i \in DOMAIN os : ~(os[i].path = f /\ os[i].line = l))
    <2>1. ASSUME NEW i \in DOMAIN ds, ds[i].path = f /\ ds[i].line = l
          PROVE  \E j \in DOMAIN os : os[j].path = f /\ os[j].line = l
      <3>1. ds[i] \in AllOf(f) /\ ds[i] \in ToSet(ds)
        BY <1>2, <1>3, <2>1 DEF ToSet
      <3>2. ds[i] \in ToSet(os)
        BY <1>1, <3>1
      <3>3. PICK j \in DOMAIN os : os[j] = ds[i]
        BY <3>2 DEF ToSet
      <3> QED
        BY <2>1, <3>3
    <2>2. ASSUME NEW i \in DOMAIN os, os[i].path = f /\ os[i].line = l
          PROVE  \E j \in DOMAIN ds : ds[j].path = f /\ ds[j].line = l
      <3>1. os[i] \in ToSet(ds)
        BY <1>4
      <3>2. PICK j \in DOMAIN ds : ds[j] = os[i]
        BY <3>1 DEF ToSet
      <3> QED
        BY <2>2, <3>2
    <2> QED
      BY <2>1, <2>2
  <1>6. UnusedNoqa(ds, f) = UnusedNoqa(os, f)
    BY <1>5 DEF UnusedNoqa
  <1>7. Unused(ds, f) = Unused(os, f)
    BY <1>6 DEF Unused
  <1> QED
    BY <1>7 DEF os

\* The type of what noqa leaves and adds.
LEMMA ApplyNoqaType ==
  ASSUME input \in Inputs, NEW ds \in Seq(Diagnostic), NEW files \in Seq(Paths)
  PROVE  /\ ApplyNoqa(ds, files) \in Seq(Diagnostic)
         /\ [i \in DOMAIN files |-> Unused(ds, files[i])] \in Seq(Seq(Diagnostic))
         /\ Len([i \in DOMAIN files |-> Unused(ds, files[i])]) = Len(files)
  <1> DEFINE ss == [i \in DOMAIN files |-> Unused(ds, files[i])]
  <1>1. Len(files) \in Nat /\ DOMAIN files = 1 .. Len(files)
    BY LenProperties
  <1>2. \A i \in 1 .. Len(files) : Unused(ds, files[i]) \in Seq(Diagnostic)
    <2> TAKE i \in 1 .. Len(files)
    <2>1. files[i] \in Paths
      BY ElementOfSeq
    <2>2. Unused(ds, files[i]) \in Seq(KW2(files[i]))
      BY UnusedType
    <2> QED
      BY <2>1, <2>2, CodeFacts
  <1>3. ss \in [1 .. Len(files) -> Seq(Diagnostic)]
    BY <1>1, <1>2
  <1>4. ApplyNoqa(ds, files) = Only(ds, Kept(files)) \o FlattenSeq(ss)
    BY ApplyNoqaDef
  <1> HIDE DEF ss
  <1>5. ss \in Seq(Seq(Diagnostic)) /\ Len(ss) = Len(files)
    BY <1>1, <1>3, FcnIsSeq
  <1>6. Only(ds, Kept(files)) \in Seq(Diagnostic) /\ FlattenSeq(ss) \in Seq(Diagnostic)
    BY <1>5, OnlyType, FlattenType
  <1>7. ApplyNoqa(ds, files) \in Seq(Diagnostic)
    BY <1>4, <1>6, ConcatProperties
  <1> QED
    BY <1>5, <1>7 DEF ss

\* The diagnostics of one file among those of several lists.
LEMMA OwnFlatten ==
  ASSUME NEW ss \in Seq(Seq(Diagnostic)), NEW f
  PROVE  /\ [i \in 1 .. Len(ss) |-> Only(ss[i], AllOf(f))] \in Seq(Seq(Diagnostic))
         /\ Only(FlattenSeq(ss), AllOf(f))
              = FlattenSeq([i \in 1 .. Len(ss) |-> Only(ss[i], AllOf(f))])
  <1> DEFINE own == AllOf(f)
             D == Diagnostic
  <1> HIDE DEF own, D
  <1>1. ss \in Seq(Seq(D))
    BY DEF D
  <1>2. /\ [i \in 1 .. Len(ss) |-> Only(ss[i], own)] \in Seq(Seq(D))
        /\ Only(FlattenSeq(ss), own) = FlattenSeq([i \in 1 .. Len(ss) |-> Only(ss[i], own)])
    BY <1>1, OnlyFlatten
  <1> QED
    BY <1>2 DEF own, D

\* What noqa leaves and adds, of a file that is not among those judged.
LEMMA NoqaOfOthers ==
  ASSUME input \in Inputs, NEW ds \in Seq(Diagnostic), NEW files \in Seq(Paths),
         NEW f \in Paths, f \notin ToSet(files)
  PROVE  Only(ApplyNoqa(ds, files), AllOf(f)) = Only(ds, AllOf(f))
  <1> DEFINE ss == [i \in DOMAIN files |-> Unused(ds, files[i])]
             kept == Only(ds, Kept(files))
             tt == [i \in 1 .. Len(ss) |-> Only(ss[i], AllOf(f))]
  <1>1. Len(files) \in Nat /\ DOMAIN files = 1 .. Len(files)
    BY LenProperties
  <1>2. ss \in Seq(Seq(Diagnostic)) /\ Len(ss) = Len(files)
    BY ApplyNoqaType
  <1>3. ApplyNoqa(ds, files) = kept \o FlattenSeq(ss)
    BY ApplyNoqaDef
  <1>4. \A i \in 1 .. Len(files) : Only(ss[i], AllOf(f)) = <<>>
    <2> TAKE i \in 1 .. Len(files)
    <2>1. files[i] \in Paths /\ files[i] # f
      BY <1>1, ElementOfSeq DEF ToSet
    <2>2. Unused(ds, files[i]) \in Seq(AllOf(files[i]))
      BY <2>1, UnusedType, CodeFacts
    <2>3. \A d \in AllOf(files[i]) : d \notin AllOf(f)
      BY <2>1, AtFacts
    <2>4. Only(Unused(ds, files[i]), AllOf(f)) = <<>>
      BY <2>2, <2>3, OnlyNone
    <2> QED
      BY <1>1, <2>4
  <1> HIDE DEF ss
  <1>5. kept \in Seq(Diagnostic) /\ FlattenSeq(ss) \in Seq(Diagnostic)
    BY <1>2, OnlyType, FlattenType
  <1>6. tt \in Seq(Seq(Diagnostic)) /\ Only(FlattenSeq(ss), AllOf(f)) = FlattenSeq(tt)
    BY <1>2, OwnFlatten
  <1>7. Len(tt) = Len(files) /\ \A i \in 1 .. Len(tt) : tt[i] = <<>>
    BY <1>1, <1>2, <1>4
  <1> HIDE DEF tt
  <1>8. Only(FlattenSeq(ss), AllOf(f)) = <<>>
    BY <1>6, <1>7, FlattenNone
  <1>9. Only(kept, AllOf(f)) = Only(ds, AllOf(f))
    <2>1. Only(kept, AllOf(f)) = Only(ds, Kept(files) \cap AllOf(f))
      BY OnlyOnly
    <2>2. \A d \in Diagnostic : d \in Kept(files) \cap AllOf(f) <=> d \in AllOf(f)
      BY AtFacts DEF Kept
    <2>3. Only(ds, Kept(files) \cap AllOf(f)) = Only(ds, AllOf(f))
      BY <2>2, OnlySame
    <2> QED
      BY <2>1, <2>3
  <1> DEFINE k == Only(kept, AllOf(f))
  <1>10. k \in Seq(Diagnostic)
    BY <1>5, OnlyType
  <1> HIDE DEF kept
  <1>11. Only(ApplyNoqa(ds, files), AllOf(f)) = k \o Only(FlattenSeq(ss), AllOf(f))
    BY <1>3, <1>5, OnlyConcat
  <1>12. k \o <<>> = k
    BY <1>10, ConcatEmptySeq
  <1> HIDE DEF k
  <1>13. Only(ApplyNoqa(ds, files), AllOf(f)) = k
    BY <1>8, <1>11, <1>12
  <1> QED
    BY <1>9, <1>13 DEF k

\* Of a file that is, they are what they would be had it been alone.
LEMMA NoqaOfOwn ==
  ASSUME input \in Inputs, NEW ds \in Seq(Diagnostic), NEW files \in Seq(Paths),
         Distinct(files), NEW f \in ToSet(files)
  PROVE  Only(ApplyNoqa(ds, files), AllOf(f)) = ApplyNoqa(Only(ds, AllOf(f)), <<f>>)
  <1> DEFINE ss == [i \in DOMAIN files |-> Unused(ds, files[i])]
             kept == Only(ds, Kept(files))
             tt == [i \in 1 .. Len(ss) |-> Only(ss[i], AllOf(f))]
             own == Only(ds, AllOf(f))
  <1>1. Len(files) \in Nat /\ DOMAIN files = 1 .. Len(files)
    BY LenProperties
  <1>2. ss \in Seq(Seq(Diagnostic)) /\ Len(ss) = Len(files)
    BY ApplyNoqaType
  <1>3. ApplyNoqa(ds, files) = kept \o FlattenSeq(ss)
    BY ApplyNoqaDef
  <1>4. PICK k \in 1 .. Len(files) : files[k] = f
    BY <1>1 DEF ToSet
  <1>5. f \in Paths
    BY <1>4, ElementOfSeq
  <1>6. \A i \in 1 .. Len(files) : i # k => Only(ss[i], AllOf(f)) = <<>>
    <2> TAKE i \in 1 .. Len(files)
    <2> HAVE i # k
    <2>1. files[i] \in Paths /\ files[i] # f
      BY <1>4, ElementOfSeq DEF Distinct
    <2>2. Unused(ds, files[i]) \in Seq(AllOf(files[i]))
      BY <2>1, UnusedType, CodeFacts
    <2>3. \A d \in AllOf(files[i]) : d \notin AllOf(f)
      BY <1>5, <2>1, AtFacts
    <2>4. Only(Unused(ds, files[i]), AllOf(f)) = <<>>
      BY <2>2, <2>3, OnlyNone
    <2> QED
      BY <1>1, <2>4
  <1>7. Only(ss[k], AllOf(f)) = Unused(ds, f)
    <2>1. Unused(ds, f) \in Seq(AllOf(f))
      BY <1>5, UnusedType, CodeFacts
    <2>2. Only(Unused(ds, f), AllOf(f)) = Unused(ds, f)
      BY <2>1, OnlyAll
    <2> QED
      BY <1>1, <1>4, <2>2
  <1> HIDE DEF ss
  <1>8. kept \in Seq(Diagnostic) /\ FlattenSeq(ss) \in Seq(Diagnostic)
    BY <1>2, OnlyType, FlattenType
  <1>9. tt \in Seq(Seq(Diagnostic)) /\ Only(FlattenSeq(ss), AllOf(f)) = FlattenSeq(tt)
    BY <1>2, OwnFlatten
  <1>10. /\ Len(tt) = Len(files) /\ tt[k] = Unused(ds, f)
         /\ \A i \in 1 .. Len(tt) : i # k => tt[i] = <<>>
    BY <1>1, <1>2, <1>6, <1>7
  <1> HIDE DEF tt
  <1>11. FlattenSeq(tt) = Unused(ds, f)
    BY <1>9, <1>10, FlattenOne
  <1>12. Only(kept, AllOf(f)) = Only(own, Kept(<<f>>))
    <2>1. Only(kept, AllOf(f)) = Only(ds, Kept(files) \cap AllOf(f))
      BY OnlyOnly
    <2>2. Only(own, Kept(<<f>>)) = Only(ds, AllOf(f) \cap Kept(<<f>>))
      BY OnlyOnly
    <2>3. ToSet(<<f>>) = {f}
      BY DEF ToSet
    <2>4. \A d \in Diagnostic : d \in Kept(files) \cap AllOf(f) <=> d \in AllOf(f) \cap Kept(<<f>>)
      BY <1>5, <2>3, AtFacts DEF Kept
    <2>5. Only(ds, Kept(files) \cap AllOf(f)) = Only(ds, AllOf(f) \cap Kept(<<f>>))
      BY <2>4, OnlySame
    <2> QED
      BY <2>1, <2>2, <2>5
  <1>13. own \in Seq(Diagnostic)
    BY OnlyType
  <1>14. Unused(ds, f) = Unused(own, f)
    BY <1>5, UnusedAlike
  <1>15. ApplyNoqa(own, <<f>>) = Only(own, Kept(<<f>>)) \o Unused(own, f)
    <2> HIDE DEF own
    <2> DEFINE us == [i \in DOMAIN <<f>> |-> Unused(own, <<f>>[i])]
    <2>1. us = <<Unused(own, f)>>
      OBVIOUS
    <2>2. ApplyNoqa(own, <<f>>) = Only(own, Kept(<<f>>)) \o FlattenSeq(us)
      BY ApplyNoqaDef
    <2>3. Unused(own, f) \in Seq(Diagnostic)
      BY <1>5, UnusedType, CodeFacts
    <2>4. FlattenSeq(us) = Unused(own, f)
      <3> DEFINE u == Unused(own, f)
      <3>1. FlattenSeq(<<u>>) = u
        BY <2>3, FlattenSingle
      <3> QED
        BY <2>1, <3>1
    <2> QED
      BY <2>2, <2>4
  <1> HIDE DEF kept, own
  <1>16. Only(ApplyNoqa(ds, files), AllOf(f)) = Only(kept, AllOf(f)) \o Only(FlattenSeq(ss), AllOf(f))
    <2> DEFINE new == FlattenSeq(ss)
               D == Diagnostic
    <2>1. kept \in Seq(D) /\ new \in Seq(D) /\ ApplyNoqa(ds, files) = kept \o new
      BY <1>3, <1>8
    <2> HIDE DEF new, D
    <2>2. Only(kept \o new, AllOf(f)) = Only(kept, AllOf(f)) \o Only(new, AllOf(f))
      BY <2>1, OnlyConcat
    <2> QED
      BY <2>1, <2>2 DEF new
  <1>17. Only(ApplyNoqa(ds, files), AllOf(f)) = ApplyNoqa(own, <<f>>)
    <2>1. Only(FlattenSeq(ss), AllOf(f)) = Unused(own, f)
      BY <1>9, <1>11, <1>14
    <2>2. Only(ApplyNoqa(ds, files), AllOf(f)) = Only(own, Kept(<<f>>)) \o Unused(own, f)
      BY <1>12, <1>16, <2>1, Zenon
    <2> QED
      BY <1>15, <2>2, Zenon
  <1> QED
    BY <1>17 DEF own

\* What a serial check finds in a file.
LEMMA SerialType ==
  ASSUME input \in Inputs, NEW f \in Paths
  PROVE  /\ Serial(f) \in Seq(AllOf(f))
         /\ \E a \in Seq(KW1(f)), b \in Seq(KW2(f)) : Serial(f) = a \o b
  <1> DEFINE ds == Scan(f, AllRebound) \o Resolved(f)
  <1>0. Scan(f, AllRebound) \in Seq(KW1(f)) /\ Resolved(f) \in Seq(KW1(f))
    BY ScanType DEF KW1
  <1>1. ds \in Seq(KW1(f))
    BY <1>0, ConcatProperties
  <1> HIDE DEF ds
  <1>2. CASE ~Good(f)
    <2>1. Serial(f) = <<>>
      BY <1>2 DEF Serial
    <2>2. <<>> \in Seq(AllOf(f)) /\ <<>> \in Seq(KW1(f)) /\ <<>> \in Seq(KW2(f)) /\ <<>> = <<>> \o <<>>
      BY EmptySeq
    <2> QED
      BY <2>1, <2>2
  <1>3. CASE Good(f)
    <2> DEFINE a == Only(ds, Kept(<<f>>))
               b == Unused(ds, f)
               us == [i \in DOMAIN <<f>> |-> Unused(ds, <<f>>[i])]
    <2>1. Serial(f) = ApplyNoqa(ds, <<f>>)
      BY <1>3 DEF Serial, ds
    <2>2. us = <<b>>
      OBVIOUS
    <2>3. ApplyNoqa(ds, <<f>>) = a \o FlattenSeq(us)
      BY ApplyNoqaDef
    <2>4. a \in Seq(KW1(f)) /\ b \in Seq(KW2(f))
      BY <1>1, OnlyType, UnusedType
    <2>5. FlattenSeq(<<b>>) = b
      <3> HIDE DEF b
      <3> QED
        BY <2>4, FlattenSingle
    <2>6. Serial(f) = a \o b
      BY <2>1, <2>2, <2>3, <2>5
    <2>7. a \in Seq(AllOf(f)) /\ b \in Seq(AllOf(f))
      BY <2>4, CodeFacts
    <2> HIDE DEF a, b
    <2> QED
      BY <2>4, <2>6, <2>7, ConcatProperties
  <1> QED
    BY <1>2, <1>3

\* An entry is a function of the diagnostics of its file.
LEMMA EntryAlike ==
  ASSUME NEW f \in Paths, NEW ds \in Seq(Diagnostic), NEW es \in Seq(Diagnostic),
         Only(ds, AllOf(f)) = Only(es, AllOf(f))
  PROVE  Entry(ds, f) = Entry(es, f)
  <1>1. Only(Only(ds, AllOf(f)), KW1(f)) = Only(ds, KW1(f))
    BY CodeFacts, OnlyWithin
  <1>2. Only(Only(es, AllOf(f)), KW1(f)) = Only(es, KW1(f))
    BY CodeFacts, OnlyWithin
  <1>3. Only(Only(ds, AllOf(f)), KW2(f)) = Only(ds, KW2(f))
    BY CodeFacts, OnlyWithin
  <1>4. Only(Only(es, AllOf(f)), KW2(f)) = Only(es, KW2(f))
    BY CodeFacts, OnlyWithin
  <1>5. Only(ds, KW1(f)) = Only(es, KW1(f)) /\ Only(ds, KW2(f)) = Only(es, KW2(f))
    BY <1>1, <1>2, <1>3, <1>4
  <1> QED
    BY <1>5, Zenon DEF Entry, KW1, KW2

\* The type of an entry.
LEMMA EntryType ==
  ASSUME input \in Inputs, NEW f \in Paths, NEW ds \in Seq(Diagnostic)
  PROVE  Entry(ds, f) \in Seq(AllOf(f))
  <1> DEFINE a == Only(ds, KW1(f))
             b == Only(ds, KW2(f))
  <1>1. a \in Seq(KW1(f)) /\ b \in Seq(KW2(f))
    BY OnlyRange
  <1>2. a \in Seq(AllOf(f)) /\ b \in Seq(AllOf(f)) /\ a \in Seq(Diagnostic)
    BY <1>1, CodeFacts
  <1>3. Entry(ds, f) = Sorted(a) \o b
    BY DEF Entry, KW1, KW2
  <1> HIDE DEF a, b
  <1>4. Sorted(a) \in Seq(Diagnostic) /\ Only(Sorted(a), AllOf(f)) = Bucket(a, f)
    BY <1>2, SortedFacts
  <1>5. \A g \in Paths : g # f => Bucket(a, g) = <<>>
    <2> TAKE g \in Paths
    <2> HAVE g # f
    <2> DEFINE ss == [l \in 1 .. Lines |-> Only(a, At(g, l))]
    <2>1. \A l \in 1 .. Lines : Only(a, At(g, l)) = <<>>
      <3> TAKE l \in 1 .. Lines
      <3>1. \A d \in AllOf(f) : d \notin At(g, l)
        BY AtFacts
      <3> QED
        BY <1>2, <3>1, OnlyNone
    <2>2. Lines \in Nat
      BY ShardAssumption
    <2>3. ss \in [1 .. Lines -> Seq(Diagnostic)]
      <3> \A l \in 1 .. Lines : Only(a, At(g, l)) \in Seq(Diagnostic)
        BY <2>1, EmptySeq
      <3> QED
        OBVIOUS
    <2>4. \A l \in 1 .. Lines : ss[l] = <<>>
      BY <2>1
    <2>5. Bucket(a, g) = FlattenSeq(ss)
      BY DEF Bucket
    <2> HIDE DEF ss
    <2>6. ss \in Seq(Seq(Diagnostic)) /\ Len(ss) = Lines
      BY <2>2, <2>3, FcnIsSeq
    <2> QED
      BY <2>4, <2>5, <2>6, FlattenNone
  <1>6. Sorted(a) = Bucket(a, f)
    <2> DEFINE n == Len(input)
               ss == [g \in Paths |-> Bucket(a, g)]
    <2>1. Paths = 1 .. n /\ n \in Nat
      BY InputFacts
    <2>2. Bucket(a, f) \in Seq(Diagnostic)
      BY <1>2, BucketFacts, AtFacts
    <2>3. ss \in [1 .. n -> Seq(Diagnostic)]
      <3> \A g \in Paths : Bucket(a, g) \in Seq(Diagnostic)
        BY <1>5, <2>2, EmptySeq
      <3> QED
        BY <2>1
    <2>4. \A g \in 1 .. n : g # f => ss[g] = <<>>
      BY <1>5, <2>1
    <2>5. ss[f] = Bucket(a, f) /\ f \in 1 .. n
      BY <2>1
    <2>6. Sorted(a) = FlattenSeq(ss)
      BY <1>2, SortedFacts
    <2> HIDE DEF ss, n
    <2>7. ss \in Seq(Seq(Diagnostic)) /\ Len(ss) = n
      BY <2>1, <2>3, FcnIsSeq
    <2>8. FlattenSeq(ss) = ss[f]
      BY <2>4, <2>5, <2>7, FlattenOne
    <2> QED
      BY <2>5, <2>6, <2>8
  <1>7. Bucket(a, f) \in Seq(AllOf(f))
    BY <1>2, BucketFacts
  <1> QED
    BY <1>2, <1>3, <1>6, <1>7, ConcatProperties

\* The entry of a file has at every line what a serial check finds there.
LEMMA EntryAt ==
  ASSUME input \in Inputs, NEW f \in Paths, NEW l \in 1 .. Lines
  PROVE  Only(Entry(Serial(f), f), At(f, l)) = Only(Serial(f), At(f, l))
  <1>1. PICK a \in Seq(KW1(f)), b \in Seq(KW2(f)) : Serial(f) = a \o b
    BY SerialType
  <1>2. /\ a \in Seq(AllOf(f)) /\ b \in Seq(AllOf(f))
        /\ a \in Seq(Diagnostic) /\ b \in Seq(Diagnostic)
    BY CodeFacts
  <1>3. Only(a, KW1(f)) = a /\ Only(b, KW2(f)) = b
    BY OnlyAll
  <1>4. Only(b, KW1(f)) = <<>> /\ Only(a, KW2(f)) = <<>>
    <2>1. (\A d \in KW1(f) : d \notin KW2(f)) /\ (\A d \in KW2(f) : d \notin KW1(f))
      BY CodeFacts
    <2> QED
      BY <2>1, OnlyNone
  <1>5. Only(a \o b, KW1(f)) = a /\ Only(a \o b, KW2(f)) = b
    <2>1. Only(a \o b, KW1(f)) = Only(a, KW1(f)) \o Only(b, KW1(f))
      BY <1>2, OnlyConcat
    <2>2. Only(a \o b, KW2(f)) = Only(a, KW2(f)) \o Only(b, KW2(f))
      BY <1>2, OnlyConcat
    <2>3. a \o <<>> = a /\ <<>> \o b = b
      BY ConcatEmptySeq
    <2> QED
      BY <1>3, <1>4, <2>1, <2>2, <2>3
  <1>6. Entry(Serial(f), f) = Sorted(a) \o b
    BY <1>1, <1>5 DEF Entry, KW1, KW2
  <1>7. Sorted(a) \in Seq(Diagnostic)
    BY <1>2, SortedFacts
  <1>8. Only(Sorted(a) \o b, At(f, l)) = Only(Sorted(a), At(f, l)) \o Only(b, At(f, l))
    BY <1>2, <1>7, OnlyConcat
  <1>9. Only(a \o b, At(f, l)) = Only(a, At(f, l)) \o Only(b, At(f, l))
    BY <1>2, OnlyConcat
  <1>10. Only(Sorted(a), At(f, l)) = Only(a, At(f, l))
    BY <1>2, SortedAt
  <1> QED
    BY <1>1, <1>6, <1>8, <1>9, <1>10

(***************************************************************************)
(* What all files have together                                            *)
(***************************************************************************)
\* Of the findings of several files, one after another, those of one.
LEMMA FlattenOwn ==
  ASSUME NEW files \in Seq(Paths), Distinct(files),
         NEW ss, DOMAIN ss = 1 .. Len(files), ss = [k \in 1 .. Len(files) |-> ss[k]],
         \A k \in 1 .. Len(files) : ss[k] \in Seq(AllOf(files[k]))
  PROVE  /\ ss \in Seq(Seq(Diagnostic)) /\ Len(ss) = Len(files)
         /\ FlattenSeq(ss) \in Seq(Diagnostic)
         /\ \A k \in 1 .. Len(files) : Only(FlattenSeq(ss), AllOf(files[k])) = ss[k]
         /\ \A f \in Paths : f \notin ToSet(files) => Only(FlattenSeq(ss), AllOf(f)) = <<>>
  <1>1. Len(files) \in Nat /\ DOMAIN files = 1 .. Len(files)
    BY LenProperties
  <1>2. \A k \in 1 .. Len(files) : files[k] \in Paths /\ ss[k] \in Seq(Diagnostic)
    BY ElementOfSeq, AtFacts
  <1>3. ss \in [1 .. Len(files) -> Seq(Diagnostic)]
    BY <1>2
  <1>4. ss \in Seq(Seq(Diagnostic)) /\ Len(ss) = Len(files)
    BY <1>1, <1>3, FcnIsSeq
  <1>5. FlattenSeq(ss) \in Seq(Diagnostic)
    BY <1>4, FlattenType
  <1>6. ASSUME NEW f \in Paths
        PROVE  LET tt == [k \in 1 .. Len(ss) |-> Only(ss[k], AllOf(f))]
               IN /\ tt \in Seq(Seq(Diagnostic)) /\ Len(tt) = Len(files)
                  /\ Only(FlattenSeq(ss), AllOf(f)) = FlattenSeq(tt)
                  /\ \A k \in 1 .. Len(files) : files[k] = f => tt[k] = ss[k]
                  /\ \A k \in 1 .. Len(files) : files[k] # f => tt[k] = <<>>
    <2> DEFINE tt == [k \in 1 .. Len(ss) |-> Only(ss[k], AllOf(f))]
    <2>1. tt \in Seq(Seq(Diagnostic)) /\ Only(FlattenSeq(ss), AllOf(f)) = FlattenSeq(tt)
      BY <1>4, OnlyFlatten
    <2>2. Len(tt) = Len(files) /\ \A k \in 1 .. Len(files) : tt[k] = Only(ss[k], AllOf(f))
      BY <1>1, <1>4
    <2>3. ASSUME NEW k \in 1 .. Len(files), files[k] = f
          PROVE  Only(ss[k], AllOf(f)) = ss[k]
      <3> ss[k] \in Seq(AllOf(f))
        BY <2>3
      <3> QED
        BY OnlyAll
    <2>4. ASSUME NEW k \in 1 .. Len(files), files[k] # f
          PROVE  Only(ss[k], AllOf(f)) = <<>>
      <3>1. \A d \in AllOf(files[k]) : d \notin AllOf(f)
        BY <1>2, <2>4, AtFacts
      <3>2. ss[k] \in Seq(AllOf(files[k]))
        OBVIOUS
      <3> QED
        BY <3>1, <3>2, OnlyNone
    <2> HIDE DEF tt
    <2>5. /\ tt \in Seq(Seq(Diagnostic)) /\ Len(tt) = Len(files)
          /\ Only(FlattenSeq(ss), AllOf(f)) = FlattenSeq(tt)
          /\ \A k \in 1 .. Len(files) : files[k] = f => tt[k] = ss[k]
          /\ \A k \in 1 .. Len(files) : files[k] # f => tt[k] = <<>>
      BY <2>1, <2>2, <2>3, <2>4
    <2> QED
      BY <2>5 DEF tt
  <1>7. ASSUME NEW k \in 1 .. Len(files)
        PROVE  Only(FlattenSeq(ss), AllOf(files[k])) = ss[k]
    <2> DEFINE f == files[k]
               tt == [i \in 1 .. Len(ss) |-> Only(ss[i], AllOf(f))]
    <2>1. f \in Paths
      BY <1>2
    <2>2. /\ tt \in Seq(Seq(Diagnostic)) /\ Len(tt) = Len(files)
          /\ Only(FlattenSeq(ss), AllOf(f)) = FlattenSeq(tt)
          /\ tt[k] = ss[k]
          /\ \A i \in 1 .. Len(files) : files[i] # f => tt[i] = <<>>
      BY <1>6, <2>1
    <2>3. \A i \in 1 .. Len(files) : i # k => files[i] # f
      BY DEF Distinct
    <2> HIDE DEF tt, f
    <2>4. FlattenSeq(tt) = tt[k]
      BY <2>2, <2>3, FlattenOne
    <2> QED
      BY <2>2, <2>4 DEF f
  <1>8. ASSUME NEW f \in Paths, f \notin ToSet(files)
        PROVE  Only(FlattenSeq(ss), AllOf(f)) = <<>>
    <2> DEFINE tt == [i \in 1 .. Len(ss) |-> Only(ss[i], AllOf(f))]
    <2>1. /\ tt \in Seq(Seq(Diagnostic)) /\ Len(tt) = Len(files)
          /\ Only(FlattenSeq(ss), AllOf(f)) = FlattenSeq(tt)
          /\ \A i \in 1 .. Len(files) : files[i] # f => tt[i] = <<>>
      BY <1>6
    <2>2. \A i \in 1 .. Len(files) : files[i] # f
      BY <1>1, <1>8 DEF ToSet
    <2> HIDE DEF tt
    <2>3. FlattenSeq(tt) = <<>>
      BY <2>1, <2>2, FlattenNone
    <2> QED
      BY <2>1, <2>3
  <1> QED
    BY <1>4, <1>5, <1>7, <1>8

\* Of findings of all files in order, those of one.
LEMMA FlattenPaths ==
  ASSUME input \in Inputs, NEW ss, ss = [f \in Paths |-> ss[f]],
         \A f \in Paths : ss[f] \in Seq(AllOf(f))
  PROVE  /\ FlattenSeq(ss) \in Seq(Diagnostic)
         /\ \A f \in Paths : Only(FlattenSeq(ss), AllOf(f)) = ss[f]
  <1> DEFINE n == Len(input)
             all == [f \in Paths |-> f]
  <1>1. Paths = 1 .. n /\ n \in Nat
    BY InputFacts
  <1>2. all \in [1 .. n -> Paths] /\ \A f \in 1 .. n : all[f] = f
    BY <1>1
  <1> HIDE DEF all, n
  <1>3. all \in Seq(Paths) /\ Len(all) = n
    BY <1>1, <1>2, FcnIsSeq
  <1>4. Distinct(all)
    BY <1>2, <1>3 DEF Distinct
  <1>5. DOMAIN ss = 1 .. Len(all) /\ ss = [k \in 1 .. Len(all) |-> ss[k]]
    BY <1>1, <1>3
  <1>6. \A k \in 1 .. Len(all) : ss[k] \in Seq(AllOf(all[k]))
    BY <1>1, <1>2, <1>3
  <1>7. /\ FlattenSeq(ss) \in Seq(Diagnostic)
        /\ \A k \in 1 .. Len(all) : Only(FlattenSeq(ss), AllOf(all[k])) = ss[k]
    BY <1>3, <1>4, <1>5, <1>6, FlattenOwn
  <1> QED
    BY <1>1, <1>2, <1>3, <1>7

\* The diagnostics at a line of a file that has what a serial check finds.
LEMMA SerialResultAt ==
  ASSUME input \in Inputs, NEW f \in Paths, NEW l \in 1 .. Lines
  PROVE  LET all == FlattenSeq([g \in Paths |-> Serial(g)])
         IN all \in Seq(Diagnostic) /\ Only(all, At(f, l)) = Only(Serial(f), At(f, l))
  <1> DEFINE ss == [g \in Paths |-> Serial(g)]
             all == FlattenSeq(ss)
  <1>1. \A g \in Paths : ss[g] \in Seq(AllOf(g))
    BY SerialType
  <1>2. ss = [g \in Paths |-> ss[g]] /\ ss[f] = Serial(f)
    OBVIOUS
  <1> HIDE DEF ss
  <1>3. all \in Seq(Diagnostic) /\ Only(all, AllOf(f)) = Serial(f)
    BY <1>1, <1>2, FlattenPaths
  <1> HIDE DEF all
  <1>4. Only(Only(all, AllOf(f)), At(f, l)) = Only(all, At(f, l))
    BY <1>3, AtFacts, OnlyWithin
  <1> QED
    BY <1>3, <1>4 DEF all, ss

\* A sequence that has at every line what a serial check finds is sorted to
\* its result.
LEMMA SortedIsSerial ==
  ASSUME input \in Inputs, NEW ds \in Seq(Diagnostic),
         \A f \in Paths : \A l \in 1 .. Lines : Only(ds, At(f, l)) = Only(Serial(f), At(f, l))
  PROVE  Sorted(ds) = SerialResult
  <1> DEFINE all == FlattenSeq([g \in Paths |-> Serial(g)])
  <1>1. \A f \in Paths : \A l \in 1 .. Lines : Only(ds, At(f, l)) = Only(all, At(f, l))
    BY SerialResultAt
  <1> HIDE DEF all
  <1>2. Sorted(ds) = Sorted(all)
    BY <1>1, SortedAlike
  <1> QED
    BY <1>2 DEF SerialResult, all

\* The cached diagnostics, file by file.
LEMMA CachedFacts ==
  ASSUME input \in Inputs, DOMAIN cache \subseteq Paths, CacheHoldsSerial
  PROVE  /\ Cached \in Seq(Diagnostic)
         /\ \A f \in DOMAIN cache : Only(Cached, AllOf(f)) = cache[f] /\ cache[f] \in Seq(AllOf(f))
         /\ \A f \in Paths \ DOMAIN cache : Only(Cached, AllOf(f)) = <<>>
  <1> DEFINE ss == [f \in Paths |-> IF f \in DOMAIN cache THEN cache[f] ELSE <<>>]
  <1>1. \A f \in DOMAIN cache : cache[f] \in Seq(AllOf(f))
    <2> TAKE f \in DOMAIN cache
    <2>1. f \in Paths /\ Serial(f) \in Seq(Diagnostic)
      BY SerialType, AtFacts
    <2>2. Entry(Serial(f), f) \in Seq(AllOf(f))
      BY <2>1, EntryType
    <2> QED
      BY <2>2 DEF CacheHoldsSerial
  <1>2. \A f \in Paths : ss[f] \in Seq(AllOf(f))
    <2> TAKE f \in Paths
    <2>1. CASE f \in DOMAIN cache
      BY <1>1, <2>1
    <2>2. CASE f \notin DOMAIN cache
      BY <2>2, EmptySeq
    <2> QED
      BY <2>1, <2>2
  <1>3. /\ ss = [f \in Paths |-> ss[f]]
        /\ \A f \in DOMAIN cache : ss[f] = cache[f]
        /\ \A f \in Paths \ DOMAIN cache : ss[f] = <<>>
    OBVIOUS
  <1>4. Cached = FlattenSeq(ss)
    BY DEF Cached
  <1> HIDE DEF ss
  <1>5. /\ FlattenSeq(ss) \in Seq(Diagnostic)
        /\ \A f \in Paths : Only(FlattenSeq(ss), AllOf(f)) = ss[f]
    BY <1>2, <1>3, FlattenPaths
  <1> QED
    BY <1>1, <1>3, <1>4, <1>5

\* Of a cached file the entry has at every line what a serial check finds.
LEMMA CachedAt ==
  ASSUME input \in Inputs, DOMAIN cache \subseteq Paths, CacheHoldsSerial,
         NEW ds \in Seq(Diagnostic), NEW f \in DOMAIN cache, Only(ds, AllOf(f)) = cache[f],
         NEW l \in 1 .. Lines
  PROVE  Only(ds, At(f, l)) = Only(Serial(f), At(f, l))
  <1>1. f \in Paths /\ cache[f] = Entry(Serial(f), f)
    BY DEF CacheHoldsSerial
  <1>2. Only(Only(ds, AllOf(f)), At(f, l)) = Only(ds, At(f, l))
    BY <1>1, AtFacts, OnlyWithin
  <1>3. Only(Entry(Serial(f), f), At(f, l)) = Only(Serial(f), At(f, l))
    BY <1>1, EntryAt
  <1> QED
    BY <1>1, <1>2, <1>3

\* A check that the cache answers.
LEMMA CachedIsSerial ==
  ASSUME input \in Inputs, DOMAIN cache \subseteq Paths, CacheHoldsSerial,
         \A f \in Paths \ DOMAIN cache : ~Good(f)
  PROVE  Sorted(Cached) = SerialResult
  <1>1. Cached \in Seq(Diagnostic)
    BY CachedFacts
  <1>2. ASSUME NEW f \in Paths, NEW l \in 1 .. Lines
        PROVE  Only(Cached, At(f, l)) = Only(Serial(f), At(f, l))
    <2>1. CASE f \in DOMAIN cache
      BY <1>1, <2>1, CachedFacts, CachedAt
    <2>2. CASE f \notin DOMAIN cache
      <3>1. Serial(f) = <<>>
        BY <2>2 DEF Serial
      <3>2. Only(Cached, AllOf(f)) = <<>>
        BY <2>2, CachedFacts
      <3>3. Only(Only(Cached, AllOf(f)), At(f, l)) = Only(Cached, At(f, l))
        BY <1>1, AtFacts, OnlyWithin
      <3> QED
        BY <3>1, <3>2, <3>3
    <2> QED
      BY <2>1, <2>2
  <1> QED
    BY <1>1, <1>2, SortedIsSerial

\* A check whose coordinator has of each good miss what a scan and ty find, and
\* of the others what is cached, finds and stores what a serial check does.
LEMMA JudgedIsSerial ==
  ASSUME input \in Inputs, DOMAIN cache \subseteq Paths, CacheHoldsSerial,
         NEW ds \in Seq(Diagnostic), NEW files \in Seq(Paths), Distinct(files),
         ToSet(files) = {f \in Paths \ DOMAIN cache : Good(f)},
         \A f \in ToSet(files) : Only(ds, AllOf(f)) = Scan(f, AllRebound) \o Resolved(f),
         \A f \in DOMAIN cache : Only(ds, AllOf(f)) = cache[f],
         \A f \in Paths \ DOMAIN cache : ~Good(f) => Only(ds, AllOf(f)) = <<>>
  PROVE  /\ Sorted(ApplyNoqa(ds, files)) = SerialResult
         /\ \A f \in ToSet(files) : Entry(ApplyNoqa(ds, files), f) = Entry(Serial(f), f)
  <1> DEFINE all == ApplyNoqa(ds, files)
  <1>1. all \in Seq(Diagnostic)
    BY ApplyNoqaType
  <1>2. ASSUME NEW f \in ToSet(files)
        PROVE  Only(all, AllOf(f)) = Serial(f)
    <2>1. Only(all, AllOf(f)) = ApplyNoqa(Only(ds, AllOf(f)), <<f>>)
      BY NoqaOfOwn
    <2>2. Serial(f) = ApplyNoqa(Scan(f, AllRebound) \o Resolved(f), <<f>>)
      BY DEF Serial
    <2> QED
      BY <2>1, <2>2
  <1>3. ASSUME NEW f \in Paths, f \notin ToSet(files)
        PROVE  Only(all, AllOf(f)) = Only(ds, AllOf(f))
    BY <1>3, NoqaOfOthers
  <1> HIDE DEF all
  <1>4. ASSUME NEW f \in Paths, NEW l \in 1 .. Lines
        PROVE  Only(all, At(f, l)) = Only(Serial(f), At(f, l))
    <2>1. CASE f \in DOMAIN cache
      <3>1. Only(all, AllOf(f)) = cache[f]
        BY <1>3, <2>1
      <3> QED
        BY <1>1, <2>1, <3>1, CachedAt
    <2>2. Only(Only(all, AllOf(f)), At(f, l)) = Only(all, At(f, l))
      BY <1>1, AtFacts, OnlyWithin
    <2>3. CASE f \in ToSet(files)
      BY <1>2, <2>2, <2>3
    <2>4. CASE f \notin DOMAIN cache /\ ~Good(f)
      <3>1. Serial(f) = <<>>
        BY <2>4 DEF Serial
      <3>2. Only(all, AllOf(f)) = <<>>
        BY <1>3, <2>4
      <3> QED
        BY <2>2, <3>1, <3>2
    <2> QED
      BY <2>1, <2>3, <2>4
  <1>5. Sorted(all) = SerialResult
    BY <1>1, <1>4, SortedIsSerial
  <1>6. ASSUME NEW f \in ToSet(files)
        PROVE  Entry(all, f) = Entry(Serial(f), f)
    <2>1. f \in Paths /\ Serial(f) \in Seq(AllOf(f)) /\ Serial(f) \in Seq(Diagnostic)
      BY SerialType, AtFacts
    <2>2. Only(Serial(f), AllOf(f)) = Serial(f)
      BY <2>1, OnlyAll
    <2> QED
      BY <1>1, <1>2, <2>1, <2>2, EntryAlike
  <1> QED
    BY <1>5, <1>6 DEF all

(***************************************************************************)
(* Weights and the greedy partition                                        *)
(***************************************************************************)
GoOnAlike(g, h, N) == \A i \in 1 .. N : g[i - 1] = h[i - 1] => g[i] = h[i]
StaysIn(g, X, N) == \A i \in 1 .. N : g[i - 1] \in X => g[i] \in X

\* Two functions that go on alike are alike.
LEMMA SameUpTo ==
  ASSUME NEW N \in Nat, NEW g, NEW h, g[0] = h[0], GoOnAlike(g, h, N)
  PROVE  \A i \in 0 .. N : g[i] = h[i]
  <1> DEFINE P == {i \in Nat : i <= N => g[i] = h[i]}
  <1>1. 0 \in P
    OBVIOUS
  <1>2. ASSUME NEW i \in Nat, i \in P
        PROVE  i + 1 \in P
    <2> SUFFICES ASSUME i + 1 <= N
                 PROVE  g[i + 1] = h[i + 1]
      OBVIOUS
    <2>1. i + 1 \in 1 .. N /\ (i + 1) - 1 = i /\ g[i] = h[i]
      BY <1>2
    <2> QED
      BY <2>1 DEF GoOnAlike
  <1> HIDE DEF P
  <1>3. \A i \in Nat : i \in P
    BY <1>1, <1>2, NatInd
  <1> QED
    BY <1>3 DEF P

\* A function that stays in a set is in it.
LEMMA TypeUpTo ==
  ASSUME NEW N \in Nat, NEW g, NEW X, g[0] \in X, StaysIn(g, X, N)
  PROVE  \A i \in 0 .. N : g[i] \in X
  <1> DEFINE P == {i \in Nat : i <= N => g[i] \in X}
  <1>1. 0 \in P
    OBVIOUS
  <1>2. ASSUME NEW i \in Nat, i \in P
        PROVE  i + 1 \in P
    <2> SUFFICES ASSUME i + 1 <= N
                 PROVE  g[i + 1] \in X
      OBVIOUS
    <2>1. i + 1 \in 1 .. N /\ (i + 1) - 1 = i /\ g[i] \in X
      BY <1>2
    <2> QED
      BY <2>1 DEF StaysIn
  <1> HIDE DEF P
  <1>3. \A i \in Nat : i \in P
    BY <1>1, <1>2, NatInd
  <1> QED
    BY <1>3 DEF P

\* What the function sum of Weight is.
LEMMA WeightRec ==
  ASSUME input \in Inputs, NEW files \in Seq(Paths)
  PROVE  \E g \in [0 .. Len(files) -> Nat] :
            /\ g[0] = 0
            /\ \A i \in 1 .. Len(files) : g[i] = g[i - 1] + input[files[i]].weight
            /\ Weight(files) = g[Len(files)]
  <1> DEFINE N == Len(files)
             w(i) == input[files[i]].weight
             G(g) == [n \in 0 .. N |-> IF n = 0 THEN 0 ELSE g[n - 1] + w(n)]
             sum == CHOOSE g : g = G(g)
             step == [p \in (1 .. N) \X Nat |-> p[2] + w(p[1])]
  <1>1. N \in Nat
    BY LenProperties
  <1>2. \A i \in 1 .. N : w(i) \in Nat
    BY InputFacts, FileFacts, ElementOfSeq
  <1>3. Weight(files) = sum[N]
    BY DEF Weight
  <1> HIDE DEF N, w
  <1>4. step \in [(1 .. N) \X Nat -> Nat]
    BY <1>2
  <1>5. PICK k \in [0 .. N -> Nat] : IsRecursion(k, 0, step, N)
    <2> HIDE DEF step
    <2> QED
      BY <1>1, <1>4, RecursionTo
  <1>6. \A i \in 1 .. N : k[i] = k[i - 1] + w(i)
    <2> TAKE i \in 1 .. N
    <2>1. i - 1 \in 0 .. N
      BY <1>1
    <2>2. <<i, k[i - 1]>> \in (1 .. N) \X Nat
      BY <2>1
    <2>3. k[i] = step[<<i, k[i - 1]>>]
      BY <1>5 DEF IsRecursion
    <2> QED
      BY <2>2, <2>3
  <1>7. k[0] = 0
    BY <1>5 DEF IsRecursion
  <1>8. k = G(k)
    BY <1>1, <1>6, <1>7
  <1>9. sum = G(sum)
    BY <1>8
  <1> HIDE DEF sum, step
  <1>10. sum[0] = 0 /\ \A i \in 1 .. N : sum[i] = sum[i - 1] + w(i)
    <2>1. sum[0] = 0
      BY <1>1, <1>9
    <2>2. ASSUME NEW i \in 1 .. N
          PROVE  sum[i] = sum[i - 1] + w(i)
      <3>1. i \in 0 .. N /\ i # 0
        BY <1>1
      <3> QED
        BY <1>9, <3>1
    <2> QED
      BY <2>1, <2>2
  <1>11. \A i \in 0 .. N : sum[i] \in Nat
    <2>1. StaysIn(sum, Nat, N)
      BY <1>2, <1>10 DEF StaysIn
    <2>2. sum[0] \in Nat
      BY <1>10
    <2> QED
      BY <1>1, <2>1, <2>2, TypeUpTo
  <1>12. sum \in [0 .. N -> Nat]
    BY <1>9, <1>11
  <1> QED
    BY <1>3, <1>10, <1>12 DEF N, w

\* The weight of no file, and of one more.
LEMMA WeightFacts ==
  ASSUME input \in Inputs
  PROVE  /\ Weight(<<>>) = 0
         /\ \A files \in Seq(Paths) : Weight(files) \in Nat
         /\ \A files \in Seq(Paths) : \A f \in Paths :
               Weight(Append(files, f)) = Weight(files) + input[f].weight
  <1>1. Weight(<<>>) = 0
    <2> <<>> \in Seq(Paths) /\ Len(<<>>) = 0
      OBVIOUS
    <2> QED
      BY WeightRec
  <1>2. ASSUME NEW files \in Seq(Paths)
        PROVE  Weight(files) \in Nat
    <2>1. PICK g \in [0 .. Len(files) -> Nat] : Weight(files) = g[Len(files)]
      BY WeightRec
    <2>2. Len(files) \in 0 .. Len(files)
      BY LenProperties
    <2> QED
      BY <2>1, <2>2
  <1>3. ASSUME NEW files \in Seq(Paths), NEW f \in Paths
        PROVE  Weight(Append(files, f)) = Weight(files) + input[f].weight
    <2> DEFINE more == Append(files, f)
               n == Len(files)
    <2>1. /\ more \in Seq(Paths) /\ Len(more) = n + 1 /\ more[n + 1] = f
          /\ \A i \in 1 .. n : more[i] = files[i]
      BY AppendProperties
    <2>2. n \in Nat
      BY LenProperties
    <2> HIDE DEF more
    <2>3. PICK g \in [0 .. n -> Nat] :
              /\ g[0] = 0
              /\ \A i \in 1 .. n : g[i] = g[i - 1] + input[files[i]].weight
              /\ Weight(files) = g[n]
      BY WeightRec
    <2> HIDE DEF n
    <2>4. PICK h \in [0 .. n + 1 -> Nat] :
              /\ h[0] = 0
              /\ \A i \in 1 .. n + 1 : h[i] = h[i - 1] + input[more[i]].weight
              /\ Weight(more) = h[n + 1]
      BY <2>1, WeightRec
    <2>5. GoOnAlike(g, h, n)
      <3> SUFFICES ASSUME NEW i \in 1 .. n, g[i - 1] = h[i - 1]
                   PROVE  g[i] = h[i]
        BY DEF GoOnAlike
      <3>1. i \in 1 .. n + 1 /\ more[i] = files[i]
        BY <2>1, <2>2
      <3> QED
        BY <2>3, <2>4, <3>1
    <2>6. \A i \in 0 .. n : g[i] = h[i]
      <3>1. g[0] = h[0]
        BY <2>3, <2>4
      <3> QED
        BY <2>2, <2>5, <3>1, SameUpTo, ZenonT(30)
    <2>7. n \in 0 .. n /\ n + 1 \in 1 .. n + 1 /\ (n + 1) - 1 = n
      BY <2>2
    <2>8. h[n + 1] = h[n] + input[f].weight
      BY <2>1, <2>4, <2>7
    <2> QED
      BY <2>3, <2>4, <2>6, <2>7, <2>8 DEF more
  <1> QED
    BY <1>1, <1>2, <1>3

Parts == [Shards -> Seq(Paths)]

\* Dealing a file keeps the parts sequences of files.
LEMMA DealType ==
  ASSUME NEW parts \in Parts, NEW f \in Paths
  PROVE  Deal(parts, f) \in Parts
  <1>1. \A s \in Shards : Append(parts[s], f) \in Seq(Paths)
    BY DEF Parts
  <1> QED
    BY <1>1 DEF Deal, Parts

\* What the function deal of Dealt is.
LEMMA DealtRec ==
  ASSUME NEW files \in Seq(Paths)
  PROVE  \E g \in [0 .. Len(files) -> Parts] :
            /\ g[0] = [s \in Shards |-> <<>>]
            /\ \A i \in 1 .. Len(files) : g[i] = Deal(g[i - 1], files[i])
            /\ Dealt(files) = g[Len(files)]
  <1> DEFINE N == Len(files)
             base == [s \in Shards |-> <<>>]
             G(g) == [n \in 0 .. N |-> IF n = 0 THEN base ELSE Deal(g[n - 1], files[n])]
             deal == CHOOSE g : g = G(g)
             step == [p \in (1 .. N) \X Parts |-> Deal(p[2], files[p[1]])]
  <1>1. N \in Nat /\ base \in Parts
    BY LenProperties DEF Parts
  <1>2. \A i \in 1 .. N : files[i] \in Paths
    BY ElementOfSeq
  <1>3. Dealt(files) = deal[N]
    BY DEF Dealt
  <1> HIDE DEF N, base
  <1>4. step \in [(1 .. N) \X Parts -> Parts]
    <2> SUFFICES ASSUME NEW p \in (1 .. N) \X Parts
                 PROVE  Deal(p[2], files[p[1]]) \in Parts
      OBVIOUS
    <2> p[2] \in Parts /\ files[p[1]] \in Paths
      BY <1>2
    <2> QED
      BY DealType
  <1>5. PICK k \in [0 .. N -> Parts] : IsRecursion(k, base, step, N)
    <2> HIDE DEF step
    <2> QED
      BY <1>1, <1>4, RecursionTo
  <1>6. \A i \in 1 .. N : k[i] = Deal(k[i - 1], files[i])
    <2> TAKE i \in 1 .. N
    <2>1. i - 1 \in 0 .. N
      BY <1>1
    <2>2. <<i, k[i - 1]>> \in (1 .. N) \X Parts
      BY <2>1
    <2>3. k[i] = step[<<i, k[i - 1]>>]
      BY <1>5 DEF IsRecursion
    <2> QED
      BY <2>2, <2>3
  <1>7. k[0] = base
    BY <1>5 DEF IsRecursion
  <1>8. k = G(k)
    BY <1>1, <1>6, <1>7
  <1>9. deal = G(deal)
    BY <1>8
  <1> HIDE DEF deal, step
  <1>10. deal[0] = base /\ \A i \in 1 .. N : deal[i] = Deal(deal[i - 1], files[i])
    <2>1. deal[0] = base
      BY <1>1, <1>9
    <2>2. ASSUME NEW i \in 1 .. N
          PROVE  deal[i] = Deal(deal[i - 1], files[i])
      <3>1. i \in 0 .. N /\ i # 0
        BY <1>1
      <3> QED
        BY <1>9, <3>1
    <2> QED
      BY <2>1, <2>2
  <1>11. \A i \in 0 .. N : deal[i] \in Parts
    <2>1. StaysIn(deal, Parts, N)
      BY <1>2, <1>10, DealType DEF StaysIn
    <2>2. deal[0] \in Parts
      BY <1>1, <1>10
    <2> QED
      BY <1>1, <2>1, <2>2, TypeUpTo
  <1>12. deal \in [0 .. N -> Parts]
    BY <1>9, <1>11
  <1> QED
    BY <1>3, <1>10, <1>12 DEF N, base

\* The partition of no file, and of one more.
LEMMA DealtFacts ==
  /\ Dealt(<<>>) = [s \in Shards |-> <<>>]
  /\ \A files \in Seq(Paths) : Dealt(files) \in Parts
  /\ \A files \in Seq(Paths) : \A f \in Paths :
        Dealt(Append(files, f)) = Deal(Dealt(files), f)
  <1>1. Dealt(<<>>) = [s \in Shards |-> <<>>]
    <2> <<>> \in Seq(Paths) /\ Len(<<>>) = 0
      OBVIOUS
    <2> QED
      BY DealtRec
  <1>2. ASSUME NEW files \in Seq(Paths)
        PROVE  Dealt(files) \in Parts
    <2>1. PICK g \in [0 .. Len(files) -> Parts] : Dealt(files) = g[Len(files)]
      BY DealtRec
    <2>2. Len(files) \in 0 .. Len(files)
      BY LenProperties
    <2> QED
      BY <2>1, <2>2
  <1>3. ASSUME NEW files \in Seq(Paths), NEW f \in Paths
        PROVE  Dealt(Append(files, f)) = Deal(Dealt(files), f)
    <2> DEFINE more == Append(files, f)
               n == Len(files)
    <2>1. /\ more \in Seq(Paths) /\ Len(more) = n + 1 /\ more[n + 1] = f
          /\ \A i \in 1 .. n : more[i] = files[i]
      BY AppendProperties
    <2>2. n \in Nat
      BY LenProperties
    <2> HIDE DEF more
    <2>3. PICK g \in [0 .. n -> Parts] :
              /\ g[0] = [s \in Shards |-> <<>>]
              /\ \A i \in 1 .. n : g[i] = Deal(g[i - 1], files[i])
              /\ Dealt(files) = g[n]
      BY DealtRec
    <2> HIDE DEF n
    <2>4. PICK h \in [0 .. n + 1 -> Parts] :
              /\ h[0] = [s \in Shards |-> <<>>]
              /\ \A i \in 1 .. n + 1 : h[i] = Deal(h[i - 1], more[i])
              /\ Dealt(more) = h[n + 1]
      BY <2>1, DealtRec
    <2>5. GoOnAlike(g, h, n)
      <3> SUFFICES ASSUME NEW i \in 1 .. n, g[i - 1] = h[i - 1]
                   PROVE  g[i] = h[i]
        BY DEF GoOnAlike
      <3>1. i \in 1 .. n + 1 /\ more[i] = files[i]
        BY <2>1, <2>2
      <3> QED
        BY <2>3, <2>4, <3>1
    <2>6. \A i \in 0 .. n : g[i] = h[i]
      <3>1. g[0] = h[0]
        BY <2>3, <2>4
      <3> QED
        BY <2>2, <2>5, <3>1, SameUpTo, ZenonT(30)
    <2>7. n \in 0 .. n /\ n + 1 \in 1 .. n + 1 /\ (n + 1) - 1 = n
      BY <2>2
    <2>8. h[n + 1] = Deal(h[n], f)
      BY <2>1, <2>4, <2>7
    <2> QED
      BY <2>3, <2>4, <2>6, <2>7, <2>8 DEF more
  <1> QED
    BY <1>1, <1>2, <1>3

\* A part grows at its end.
LEMMA DealtPrefix ==
  ASSUME NEW files \in Seq(Paths), NEW more \in Seq(Paths), NEW s \in Shards
  PROVE  IsPrefix(Dealt(files)[s], Dealt(files \o more)[s])
  <1> DEFINE P == {m \in Seq(Paths) : IsPrefix(Dealt(files)[s], Dealt(files \o m)[s])}
             d == Dealt(files)[s]
  <1>0. d \in Seq(Paths)
    BY DealtFacts DEF Parts
  <1>1. <<>> \in P
    <2>1. files \o <<>> = files
      BY ConcatEmptySeq
    <2>2. Dealt(files \o <<>>)[s] = d
      BY <2>1
    <2>3. IsPrefix(d, d)
      <3> HIDE DEF d
      <3> QED
        BY <1>0, LenProperties DEF IsPrefix
    <2> QED
      BY <2>2, <2>3, EmptySeq
  <1>2. ASSUME NEW m \in Seq(Paths), NEW f \in Paths, m \in P
        PROVE  Append(m, f) \in P
    <2> DEFINE e == Dealt(files \o m)[s]
               x == Dealt(files \o Append(m, f))[s]
    <2>1. files \o Append(m, f) = Append(files \o m, f) /\ files \o m \in Seq(Paths)
      OBVIOUS
    <2>2. Dealt(files \o Append(m, f)) = Deal(Dealt(files \o m), f)
      BY <2>1, DealtFacts
    <2>3. Dealt(files \o m) \in Parts /\ e \in Seq(Paths)
      BY <2>1, DealtFacts DEF Parts
    <2>4. x = e \/ x = Append(e, f)
      BY <2>2, <2>3 DEF Deal, Parts
    <2>5. IsPrefix(d, e)
      BY <1>2
    <2> HIDE DEF d, e, x
    <2>6. IsPrefix(d, Append(e, f))
      <3>1. /\ Len(Append(e, f)) = Len(e) + 1
            /\ \A i \in 1 .. Len(e) : Append(e, f)[i] = e[i]
        BY <2>3, AppendProperties
      <3>2. Len(d) \in Nat /\ Len(e) \in Nat /\ Len(d) <= Len(e)
        BY <1>0, <2>3, <2>5, LenProperties DEF IsPrefix
      <3>3. SubSeq(Append(e, f), 1, Len(d)) = SubSeq(e, 1, Len(d))
        BY <2>3, <3>1, <3>2
      <3> QED
        BY <2>5, <3>1, <3>2, <3>3 DEF IsPrefix
    <2>7. IsPrefix(d, x)
      BY <2>4, <2>5, <2>6
    <2> QED
      BY <2>7 DEF d, x
  <1> HIDE DEF P
  <1>3. \A m \in Seq(Paths) : m \in P
    BY <1>1, <1>2, SeqInd
  <1> QED
    BY <1>3 DEF P

\* The least loaded shard is the part of the least weight.
LEMMA LightestIsLeast ==
  ASSUME \A s \in Shards : loads[s] = Weight(sent[s]), NEW f
  PROVE  Deal(sent, f) = [sent EXCEPT ![Lightest] = Append(@, f)]
  <1> DEFINE P(s) == \A t \in Shards :
                 \/ Weight(sent[s]) < Weight(sent[t])
                 \/ Weight(sent[s]) = Weight(sent[t]) /\ s <= t
             Q(s) == \A t \in Shards :
                 loads[s] < loads[t] \/ (loads[s] = loads[t] /\ s <= t)
  <1>1. \A s \in Shards : P(s) <=> Q(s)
    OBVIOUS
  <1>2. (CHOOSE s \in Shards : P(s)) = (CHOOSE s \in Shards : Q(s))
    <2> HIDE DEF P, Q
    <2> QED
      BY <1>1
  <1>3. Lightest = CHOOSE s \in Shards : Q(s)
    BY DEF Lightest
  <1> QED
    BY <1>2, <1>3 DEF Deal

(***************************************************************************)
(* Steps that keep the project                                             *)
(***************************************************************************)
\* What depends on the project alone.
LEMMA SameInput ==
  ASSUME input' = input
  PROVE  /\ Paths' = Paths /\ Diagnostic' = Diagnostic /\ Item' = Item
         /\ AllRebound' = AllRebound /\ ForTy' = ForTy /\ SerialResult' = SerialResult
         /\ \A f : Good(f)' <=> Good(f)
         /\ \A f : Fatal(f)' <=> Fatal(f)
         /\ \A f : Resolved(f)' = Resolved(f)
         /\ \A f, x : Scan(f, x)' = Scan(f, x)
         /\ \A ds, f : Entry(ds, f)' = Entry(ds, f)
         /\ \A f : Serial(f)' = Serial(f)
         /\ \A files : Weight(files)' = Weight(files)
         /\ \A files : Dealt(files)' = Dealt(files)
  <1>1. Paths' = Paths
    BY DEF Paths
  <1>2. \A f : Good(f)' <=> Good(f)
    BY DEF Good
  <1>3. Diagnostic' = Diagnostic /\ Item' = Item
    BY <1>1 DEF Diagnostic, Item
  <1>4. AllRebound' = AllRebound /\ ForTy' = ForTy
    BY <1>1, <1>2 DEF AllRebound, ForTy
  <1>5. \A f : Fatal(f)' <=> Fatal(f)
    BY <1>4 DEF Fatal
  <1>6. /\ \A f : Resolved(f)' = Resolved(f)
        /\ \A f, x : Scan(f, x)' = Scan(f, x)
    BY DEF Resolved, Scan
  <1>7. \A ds : Sorted(ds)' = Sorted(ds)
    BY <1>1 DEF Sorted
  <1>8. \A ds, f : Entry(ds, f)' = Entry(ds, f)
    BY <1>7 DEF Entry
  <1>9. \A ds, f : UnusedNoqa(ds, f)' = UnusedNoqa(ds, f)
    BY DEF UnusedNoqa
  <1>10. \A ds, files : ApplyNoqa(ds, files)' = ApplyNoqa(ds, files)
    BY DEF ApplyNoqa, UnusedNoqa, Diagnostic, Paths
  <1>11. \A f : Serial(f)' = Serial(f)
    BY <1>2, <1>4, <1>6, <1>10 DEF Serial
  <1>12. SerialResult' = SerialResult
    BY <1>1, <1>7, <1>11 DEF SerialResult
  <1>13. \A files : Weight(files)' = Weight(files)
    BY DEF Weight
  <1>14. \A parts, f : Deal(parts, f)' = Deal(parts, f)
    BY <1>13 DEF Deal
  <1>15. \A files : Dealt(files)' = Dealt(files)
    BY <1>14 DEF Dealt
  <1> QED
    BY <1>1, <1>2, <1>3, <1>4, <1>5, <1>6, <1>8, <1>11, <1>12, <1>13, <1>15

\* What depends on the project and on the cache.
LEMMA SameProject ==
  ASSUME input' = input, cache' = cache
  PROVE  Misses' = Misses /\ Cached' = Cached
  BY DEF Misses, Cached, Paths

\* Some shard is the least loaded.
LEMMA LightestFacts ==
  ASSUME loads \in [Shards -> Nat]
  PROVE  Lightest \in Shards
  <1> DEFINE Least(s, n) == \A t \in 1 .. n : loads[s] < loads[t] \/ (loads[s] = loads[t] /\ s <= t)
             P == {n \in Nat : n + 1 <= ShardCount => \E s \in 1 .. n + 1 : Least(s, n + 1)}
  <1>0. ShardCount \in Nat \ {0} /\ Shards = 1 .. ShardCount
    BY ShardAssumption DEF Shards
  <1>1. 0 \in P
    <2> Least(1, 0 + 1)
      BY <1>0
    <2> QED
      OBVIOUS
  <1>2. ASSUME NEW n \in Nat, n \in P
        PROVE  n + 1 \in P
    <2> DEFINE m == n + 2
    <2> SUFFICES ASSUME m <= ShardCount
                 PROVE  \E s \in 1 .. m : Least(s, m)
      OBVIOUS
    <2>0. n + 1 <= ShardCount
      BY <1>0
    <2>1. PICK s \in 1 .. n + 1 : Least(s, n + 1)
      <3> HIDE DEF Least
      <3> QED
        BY <1>2, <2>0
    <2>2. s \in Shards /\ m \in Shards /\ s \in 1 .. m /\ m \in 1 .. m
      BY <1>0
    <2>3. loads[s] \in Nat /\ loads[m] \in Nat
      BY <2>2
    <2>4. \A t \in 1 .. m : t = m \/ t \in 1 .. n + 1
      OBVIOUS
    <2>5. \A t \in 1 .. n + 1 : loads[t] \in Nat
      BY <1>0
    <2>6. CASE loads[s] <= loads[m]
      <3> Least(s, m)
        BY <2>1, <2>2, <2>3, <2>4, <2>6
      <3> QED
        BY <2>2
    <2>7. CASE ~(loads[s] <= loads[m])
      <3> Least(m, m)
        BY <2>1, <2>2, <2>3, <2>4, <2>5, <2>7
      <3> QED
        BY <2>2
    <2> QED
      BY <2>6, <2>7
  <1> HIDE DEF P
  <1>3. \A n \in Nat : n \in P
    BY <1>1, <1>2, NatInd
  <1>4. ShardCount - 1 \in P
    BY <1>0, <1>3
  <1>5. \E s \in Shards : \A t \in Shards : loads[s] < loads[t] \/ (loads[s] = loads[t] /\ s <= t)
    BY <1>0, <1>4 DEF P
  <1> QED
    BY <1>5 DEF Lightest

(***************************************************************************)
(* The first state                                                         *)
(***************************************************************************)
\* What a serial check stores for a file.
LEMMA EntrySerialType ==
  ASSUME input \in Inputs, NEW f \in Paths
  PROVE  Entry(Serial(f), f) \in Seq(Diagnostic)
  <1>1. Serial(f) \in Seq(AllOf(f)) /\ Seq(AllOf(f)) \subseteq Seq(Diagnostic)
    BY SerialType, AtFacts
  <1>2. Serial(f) \in Seq(Diagnostic)
    BY <1>1
  <1>3. Entry(Serial(f), f) \in Seq(AllOf(f))
    BY <1>2, EntryType
  <1> QED
    BY <1>1, <1>3

\* The invariant holds when the check begins.
LEMMA InitIInv == Init => IInv
  <1> SUFFICES ASSUME Init
               PROVE  IInv
    OBVIOUS
  <1>1. input \in Inputs /\ phase = "open" /\ excluded = {} /\ next = 1
    BY DEF Init
  <1>2. PICK hits \in SUBSET {f \in Paths : Good(f) /\ ~input[f].tyFails} :
           cache = [f \in hits |-> Entry(Serial(f), f)]
    BY DEF Init
  <1>3. DOMAIN cache = hits /\ hits \subseteq Paths
    BY <1>2
  <1>4. \A f \in Paths : Entry(Serial(f), f) \in Seq(Diagnostic)
    BY <1>1, EntrySerialType
  <1>5. TypeOK
    <2>1. \A f \in DOMAIN cache : cache[f] \in Seq(Diagnostic)
      BY <1>2, <1>3, <1>4
    <2>2. next \in 1 .. Len(Misses) + 1
      BY <1>1, MissesFacts
    <2>3. /\ channel \in Seq(Item) /\ buffered \subseteq Item /\ answers \in Seq(Item)
          /\ slots \in Seq(Paths) /\ diagnostics \in Seq(Diagnostic) /\ result \in Seq(Diagnostic)
      BY EmptySeq DEF Init
    <2>4. /\ loads \in [Shards -> Nat] /\ sent \in [Shards -> Seq(Paths)]
          /\ queue \in [Shards -> Seq(Paths)] /\ shard \in [Shards -> {"running", "failed", "ended"}]
      BY EmptySeq DEF Init
    <2>5. todo \subseteq Paths /\ senders \in BOOLEAN /\ failed \in BOOLEAN
      BY DEF Init
    <2> QED
      BY <1>1, <1>3, <2>1, <2>2, <2>3, <2>4, <2>5 DEF TypeOK
  <1>6. NothingSent
    BY DEF Init, NothingSent
  <1>7. RebindingsKnown
    BY <1>1 DEF RebindingsKnown, Streaming
  <1>8. EachInOnePlace /\ ScansAreComplete /\ ReleasedInOrder
    BY <1>1 DEF EachInOnePlace, ScansAreComplete, ReleasedInOrder, Streaming
  <1>9. DealtGreedily /\ AnsweredOnce /\ NoneIsLost
    BY <1>1 DEF DealtGreedily, AnsweredOnce, NoneIsLost, Streaming
  <1>10. CachedAreGood /\ CacheHoldsSerial
    BY <1>2, <1>3 DEF CachedAreGood, CacheHoldsSerial, Fatal
  <1>11. ErrorsAreNeverSwallowed /\ ResultIsSerial
    BY <1>1 DEF ErrorsAreNeverSwallowed, ResultIsSerial, Ended
  <1> QED
    BY <1>5, <1>6, <1>7, <1>8, <1>9, <1>10, <1>11 DEF IInv

(***************************************************************************)
(* The steps before the scan                                               *)
(***************************************************************************)
\* A set of places has a first one.
LEMMA FirstOne ==
  ASSUME NEW S, S \subseteq Nat, S # {}
  PROVE  \E i \in S : \A j \in S : i <= j
  <1> DEFINE P == {n \in Nat : \A k \in 0 .. n : k \notin S}
  <1> SUFFICES ASSUME \A i \in S : \E j \in S : ~(i <= j)
               PROVE  FALSE
    OBVIOUS
  <1>1. 0 \in P
    OBVIOUS
  <1>2. ASSUME NEW n \in Nat, n \in P
        PROVE  n + 1 \in P
    <2>1. n + 1 \notin S
      <3> SUFFICES ASSUME n + 1 \in S
                   PROVE  FALSE
        OBVIOUS
      <3>1. PICK j \in S : ~(n + 1 <= j)
        OBVIOUS
      <3>2. j \in 0 .. n
        BY <3>1
      <3> QED
        BY <1>2, <3>2
    <2> QED
      BY <1>2, <2>1
  <1> HIDE DEF P
  <1>3. \A n \in Nat : n \in P
    BY <1>1, <1>2, NatInd
  <1>4. PICK i \in S : TRUE
    OBVIOUS
  <1>5. i \in Nat /\ i \in 0 .. i
    OBVIOUS
  <1> QED
    BY <1>3, <1>4, <1>5 DEF P

\* What the preflight knows of the files that missed the cache.
LEMMA PreflightFacts ==
  ASSUME input \in Inputs
  PROVE  /\ Preflight = "cached" => \A f \in Paths \ DOMAIN cache : input[f].kind = "skipped"
         /\ Preflight = "error" => \E f \in Paths : input[f].kind = "failing"
  <1> DEFINE stops == {i \in DOMAIN Misses : input[Misses[i]].kind # "skipped"}
  <1>1. /\ \A f \in Paths \ DOMAIN cache : \E i \in DOMAIN Misses : Misses[i] = f
        /\ \A i \in DOMAIN Misses : Misses[i] \in Paths
        /\ Misses = <<>> => DOMAIN Misses = {}
        /\ DOMAIN Misses \subseteq Nat
    <2>1. ToSet(Misses) = {Misses[i] : i \in DOMAIN Misses}
      BY DEF ToSet
    <2>2. DOMAIN Misses = 1 .. Len(Misses)
      BY MissesFacts
    <2> QED
      BY <2>1, <2>2, MissesFacts
  <1>2. stops = {} => \A f \in Paths \ DOMAIN cache : input[f].kind = "skipped"
    BY <1>1
  <1>3. ASSUME stops # {}, ~\E i \in stops : Good(Misses[i]) /\ \A j \in stops : i <= j
        PROVE  \E f \in Paths : input[f].kind = "failing"
    <2>1. stops \subseteq Nat
      BY <1>1
    <2> HIDE DEF stops
    <2>2. PICK i \in stops : \A j \in stops : i <= j
      BY <1>3, <2>1, FirstOne
    <2>3. ~Good(Misses[i])
      BY <1>3, <2>2
    <2>4. Misses[i] \in Paths /\ input[Misses[i]].kind # "skipped"
      BY <1>1 DEF stops
    <2>5. input[Misses[i]].kind \in {"good", "skipped", "failing"}
      BY <2>4, InputFacts, FileFacts
    <2> QED
      BY <2>3, <2>4, <2>5 DEF Good
  <1>4. Preflight = IF Misses = <<>> THEN "cached"
                    ELSE IF Len(Misses) = Len(input) THEN "scan"
                    ELSE IF stops = {} THEN "cached"
                    ELSE IF \E i \in stops : Good(Misses[i]) /\ \A j \in stops : i <= j THEN "scan"
                    ELSE "error"
    BY DEF Preflight
  <1>5. Misses = <<>> => stops = {}
    BY <1>1
  <1> HIDE DEF stops
  <1> QED
    BY <1>2, <1>3, <1>4, <1>5

\* Opening the check keeps the invariant.
LEMMA OpenStep ==
  ASSUME IInv, Open
  PROVE  IInv'
  <1>1. /\ input' = input /\ cache' = cache /\ excluded' = excluded /\ failed' = failed
        /\ channel' = channel /\ buffered' = buffered /\ next' = next /\ loads' = loads
        /\ sent' = sent /\ queue' = queue /\ shard' = shard /\ slots' = slots
        /\ answers' = answers /\ senders' = senders
    BY DEF Open, channels
  <1>2. /\ phase = "open" /\ phase' \in {"done", "error", "discover"}
        /\ phase' = "discover" => todo' = Paths /\ diagnostics' = Cached /\ result' = result
        /\ phase' = "error" => todo' = todo /\ diagnostics' = diagnostics /\ result' = result
                               /\ Preflight = "error"
        /\ phase' = "done" => todo' = todo /\ diagnostics' = diagnostics /\ result' = Cached
                              /\ Preflight = "cached"
    BY DEF Open, Discoverable
  <1>3. /\ Paths' = Paths /\ Diagnostic' = Diagnostic /\ Item' = Item
        /\ AllRebound' = AllRebound /\ SerialResult' = SerialResult
        /\ \A f : Good(f)' <=> Good(f)
        /\ \A f : Fatal(f)' <=> Fatal(f)
        /\ \A ds, f : Entry(ds, f)' = Entry(ds, f)
        /\ \A f : Serial(f)' = Serial(f)
    BY <1>1, SameInput
  <1>4. Misses' = Misses /\ Cached' = Cached
    BY <1>1, SameProject
  <1>5. /\ input \in Inputs /\ TypeOK /\ NothingSent /\ RebindingsKnown /\ CachedAreGood
        /\ CacheHoldsSerial /\ DOMAIN cache \subseteq Paths
    BY DEF IInv, TypeOK
  <1>6. Cached \in Seq(Diagnostic)
    BY <1>5, CachedFacts
  <1>7. TypeOK'
    BY <1>1, <1>2, <1>3, <1>4, <1>5, <1>6 DEF TypeOK, Ended
  <1>8. NothingSent'
    BY <1>1, <1>2, <1>3, <1>4, <1>5 DEF NothingSent
  <1>9. ~Streaming'
    BY <1>2 DEF Streaming
  <1>10. RebindingsKnown'
    BY <1>1, <1>2, <1>3, <1>5, <1>9 DEF RebindingsKnown
  <1>11. EachInOnePlace' /\ ScansAreComplete' /\ ReleasedInOrder'
    BY <1>9 DEF EachInOnePlace, ScansAreComplete, ReleasedInOrder
  <1>12. DealtGreedily' /\ AnsweredOnce' /\ NoneIsLost'
    BY <1>9 DEF DealtGreedily, AnsweredOnce, NoneIsLost
  <1>13. CachedAreGood' /\ CacheHoldsSerial'
    BY <1>1, <1>3, <1>5 DEF CachedAreGood, CacheHoldsSerial
  <1>14. ErrorsAreNeverSwallowed'
    <2>1. CASE phase' = "error"
      <3>1. \E f \in Paths : input[f].kind = "failing"
        BY <1>2, <1>5, <2>1, PreflightFacts
      <3> QED
        BY <1>1, <1>3, <2>1, <3>1 DEF ErrorsAreNeverSwallowed
    <2>2. CASE phase' = "done"
      <3>1. \A f \in Paths \ DOMAIN cache : input[f].kind = "skipped"
        BY <1>2, <1>5, <2>2, PreflightFacts
      <3>2. ~\E f \in Paths : input[f].kind = "failing" \/ Fatal(f)
        BY <1>5, <3>1 DEF CachedAreGood, Good, Fatal, ForTy
      <3> QED
        BY <1>1, <1>3, <2>2, <3>2 DEF ErrorsAreNeverSwallowed
    <2> QED
      BY <1>2, <2>1, <2>2 DEF ErrorsAreNeverSwallowed, Ended
  <1>15. ResultIsSerial'
    <2> SUFFICES ASSUME phase' = "done"
                 PROVE  Sorted(Cached)' = SerialResult' /\ ~(next' > 1)
      BY <1>2, <1>4 DEF ResultIsSerial
    <2>1. \A f \in Paths \ DOMAIN cache : ~Good(f)
      BY <1>2, <1>5, PreflightFacts DEF Good
    <2>2. Sorted(Cached) = SerialResult
      BY <1>5, <2>1, CachedIsSerial
    <2>3. Sorted(Cached)' = Sorted(Cached)
      BY <1>3, <1>4 DEF Sorted
    <2>4. next = 1
      BY <1>2, <1>5 DEF NothingSent
    <2> QED
      BY <1>1, <1>3, <2>2, <2>3, <2>4
  <1> QED
    BY <1>7, <1>8, <1>10, <1>11, <1>12, <1>13, <1>14, <1>15 DEF IInv

\* A step that neither ends the check nor touches its cache keeps its promises.
LEMMA StillRunning ==
  ASSUME IInv, input' = input, cache' = cache, phase' \notin {"done", "error"}
  PROVE  CachedAreGood' /\ CacheHoldsSerial' /\ ErrorsAreNeverSwallowed' /\ ResultIsSerial'
  <1>1. CachedAreGood /\ CacheHoldsSerial
    BY DEF IInv
  <1>2. CachedAreGood' /\ CacheHoldsSerial'
    BY <1>1, SameInput DEF CachedAreGood, CacheHoldsSerial
  <1>3. ErrorsAreNeverSwallowed' /\ ResultIsSerial'
    BY DEF ErrorsAreNeverSwallowed, ResultIsSerial, Ended
  <1> QED
    BY <1>2, <1>3

\* Phase 0 records the rebindings of one file more.
LEMMA DiscoverStep ==
  ASSUME IInv, NEW f \in Paths, Discover(f)
  PROVE  IInv'
  <1>1. /\ input' = input /\ cache' = cache /\ phase' = phase /\ failed' = failed
        /\ channel' = channel /\ buffered' = buffered /\ next' = next /\ loads' = loads
        /\ sent' = sent /\ queue' = queue /\ shard' = shard /\ slots' = slots
        /\ answers' = answers /\ senders' = senders
        /\ diagnostics' = diagnostics /\ result' = result
    BY DEF Discover, channels
  <1>2. /\ phase = "discover" /\ f \in todo /\ todo' = todo \ {f}
        /\ excluded' = excluded \cup (IF Good(f) THEN input[f].rebinds ELSE {})
    BY DEF Discover, Rebind
  <1>3. /\ Paths' = Paths /\ Diagnostic' = Diagnostic /\ Item' = Item /\ AllRebound' = AllRebound
        /\ \A g : Good(g)' <=> Good(g)
    BY <1>1, SameInput
  <1>4. Misses' = Misses /\ Cached' = Cached
    BY <1>1, SameProject
  <1>5. TypeOK /\ NothingSent /\ RebindingsKnown
    BY DEF IInv
  <1>6. TypeOK'
    BY <1>1, <1>2, <1>3, <1>4, <1>5 DEF TypeOK, Ended
  <1>7. NothingSent'
    BY <1>1, <1>3, <1>4, <1>5 DEF NothingSent
  <1>8. ~Streaming'
    BY <1>1, <1>2 DEF Streaming
  <1>9. RebindingsKnown'
    <2>1. excluded' \subseteq AllRebound
      BY <1>2, <1>5 DEF RebindingsKnown, AllRebound
    <2>2. \A g \in Paths \ todo' : Good(g) => input[g].rebinds \subseteq excluded'
      BY <1>2, <1>5 DEF RebindingsKnown
    <2> QED
      BY <1>1, <1>3, <1>8, <2>1, <2>2 DEF RebindingsKnown
  <1>10. EachInOnePlace' /\ ScansAreComplete' /\ ReleasedInOrder'
    BY <1>8 DEF EachInOnePlace, ScansAreComplete, ReleasedInOrder
  <1>11. DealtGreedily' /\ AnsweredOnce' /\ NoneIsLost'
    BY <1>8 DEF DealtGreedily, AnsweredOnce, NoneIsLost
  <1>12. CachedAreGood' /\ CacheHoldsSerial' /\ ErrorsAreNeverSwallowed' /\ ResultIsSerial'
    BY <1>1, <1>2, StillRunning
  <1> QED
    BY <1>6, <1>7, <1>9, <1>10, <1>11, <1>12 DEF IInv

\* The scan begins with all rebindings known and nothing sent.
LEMMA BeginScanStep ==
  ASSUME IInv, BeginScan
  PROVE  IInv'
  <1>1. /\ input' = input /\ cache' = cache /\ excluded' = excluded /\ failed' = failed
        /\ channel' = channel /\ buffered' = buffered /\ next' = next /\ loads' = loads
        /\ sent' = sent /\ queue' = queue /\ shard' = shard /\ slots' = slots
        /\ answers' = answers /\ senders' = senders
        /\ diagnostics' = diagnostics /\ result' = result
    BY DEF BeginScan, channels
  <1>2. phase = "discover" /\ phase' = "scan" /\ todo = {} /\ todo' = ToSet(Misses)
    BY DEF BeginScan, Discovered
  <1>3. /\ Paths' = Paths /\ Diagnostic' = Diagnostic /\ Item' = Item /\ AllRebound' = AllRebound
        /\ ForTy' = ForTy
    BY <1>1, SameInput
  <1>4. Misses' = Misses /\ Cached' = Cached
    BY <1>1, SameProject
  <1>5. TypeOK /\ NothingSent /\ RebindingsKnown /\ input \in Inputs
    BY DEF IInv, TypeOK
  <1>6. /\ next = 1 /\ channel = <<>> /\ buffered = {}
        /\ loads = [s \in Shards |-> 0] /\ sent = [s \in Shards |-> <<>>]
        /\ queue = [s \in Shards |-> <<>>] /\ shard = [s \in Shards |-> "running"]
        /\ slots = <<>> /\ answers = <<>> /\ senders = TRUE /\ failed = FALSE
        /\ diagnostics = Cached
    BY <1>2, <1>5 DEF NothingSent
  <1>7. /\ Misses \in Seq(Paths) /\ Len(Misses) \in Nat
        /\ ToSet(Misses) = {Misses[k] : k \in 1 .. Len(Misses)}
        /\ ToSet(Misses) \subseteq Paths
    <2>1. /\ Misses \in Seq(Paths) /\ Len(Misses) \in Nat /\ DOMAIN Misses = 1 .. Len(Misses)
          /\ ToSet(Misses) \subseteq Paths
      BY <1>5, MissesFacts
    <2> QED
      BY <2>1 DEF ToSet
  <1>8. TypeOK'
    BY <1>1, <1>2, <1>3, <1>4, <1>5, <1>7 DEF TypeOK, Ended
  <1>9. NothingSent'
    BY <1>2 DEF NothingSent
  <1>10. RebindingsKnown'
    <2>1. AllRebound \subseteq excluded
      BY <1>2, <1>5 DEF RebindingsKnown, AllRebound
    <2>2. excluded' = AllRebound'
      BY <1>1, <1>3, <1>5, <2>1 DEF RebindingsKnown
    <2> QED
      BY <1>2, <2>2 DEF RebindingsKnown
  <1>11. EachInOnePlace'
    <2>1. Arriving' = {} /\ Held' = {}
      BY <1>1, <1>6 DEF Arriving, Held
    <2>2. Later' = ToSet(Misses)
      BY <1>1, <1>4, <1>6, <1>7 DEF Later
    <2> QED
      BY <1>1, <1>2, <1>6, <2>1, <2>2 DEF EachInOnePlace
  <1>12. ScansAreComplete'
    BY <1>1, <1>6 DEF ScansAreComplete
  <1>13. ReleasedInOrder'
    <2>1. Released' = <<>>
      <3>1. Released' = SubSeq(Misses, 1, 0)
        BY <1>1, <1>4, <1>6 DEF Released
      <3> QED
        BY <1>7, <3>1
    <2>2. slots' = Only(Released', ForTy')
      BY <1>1, <1>6, <2>1, OnlyEmpty
    <2>3. [k \in 1 .. next' - 1 |->
              IF Good(Misses[k])' THEN Scan(Misses[k], AllRebound)' ELSE <<>>] = <<>>
      BY <1>1, <1>6
    <2>4. diagnostics' = Cached' \o FlattenSeq([k \in 1 .. next' - 1 |->
              IF Good(Misses[k])' THEN Scan(Misses[k], AllRebound)' ELSE <<>>])
      <3>1. diagnostics' = Cached \o <<>>
        BY <1>1, <1>5, <1>6, ConcatEmptySeq DEF TypeOK
      <3> QED
        BY <1>4, <2>3, <3>1, FlattenEmpty
    <2> QED
      BY <2>2, <2>4 DEF ReleasedInOrder
  <1>14. DealtGreedily'
    <2>1. Dealt(slots)' = sent' /\ \A s \in Shards : Weight(sent[s])' = Weight(<<>>)
      BY <1>1, <1>6, SameInput, DealtFacts
    <2> QED
      BY <1>1, <1>5, <1>6, <2>1, WeightFacts DEF DealtGreedily
  <1>15. AnsweredOnce'
    <2>1. Answered' = {} /\ \A s \in Shards : ToSet(queue[s])' = {}
      BY <1>1, <1>6, ToSetEmpty DEF Answered
    <2> QED
      BY <1>1, <1>6, <2>1 DEF AnsweredOnce
  <1>16. NoneIsLost'
    BY <1>1, <1>2, <1>6, ToSetEmpty DEF NoneIsLost
  <1>17. CachedAreGood' /\ CacheHoldsSerial' /\ ErrorsAreNeverSwallowed' /\ ResultIsSerial'
    BY <1>1, <1>2, StillRunning
  <1> QED
    BY <1>8, <1>9, <1>10, <1>11, <1>12, <1>13, <1>14, <1>15, <1>16, <1>17 DEF IInv

(***************************************************************************)
(* The steps of the scan workers                                           *)
(***************************************************************************)
\* A sequence of items with one more.
LEMMA ItemAppend ==
  ASSUME NEW T, NEW s \in Seq(T), NEW x \in T
  PROVE  /\ Append(s, x) \in Seq(T)
         /\ DOMAIN s = 1 .. Len(s) /\ Len(s) \in Nat
         /\ DOMAIN Append(s, x) = 1 .. Len(s) + 1
         /\ \A i \in DOMAIN s : i \in DOMAIN Append(s, x) /\ Append(s, x)[i] = s[i]
         /\ Append(s, x)[Len(s) + 1] = x /\ Len(s) + 1 \in DOMAIN Append(s, x)
         /\ \A i \in DOMAIN Append(s, x) : i \in DOMAIN s \/ i = Len(s) + 1
  BY AppendProperties, LenProperties

\* A file scanned is on its way, with what a complete scan finds.
LEMMA ScanFileStep ==
  ASSUME IInv, NEW f \in Paths, ScanFile(f)
  PROVE  IInv'
  <1> DEFINE it == [path |-> f, found |-> Scan(f, excluded)]
  <1>1. /\ input' = input /\ cache' = cache /\ phase' = phase /\ failed' = failed
        /\ buffered' = buffered /\ next' = next /\ loads' = loads
        /\ sent' = sent /\ queue' = queue /\ shard' = shard /\ slots' = slots
        /\ answers' = answers /\ senders' = senders
        /\ diagnostics' = diagnostics /\ result' = result
    BY DEF ScanFile
  <1>2. /\ phase = "scan" /\ f \in todo /\ todo' = todo \ {f}
        /\ channel' = Append(channel, it)
        /\ excluded' = excluded \cup (IF Good(f) THEN input[f].rebinds ELSE {})
    BY DEF ScanFile, Rebind
  <1>3. /\ Paths' = Paths /\ Diagnostic' = Diagnostic /\ Item' = Item /\ AllRebound' = AllRebound
        /\ ForTy' = ForTy /\ SerialResult' = SerialResult
        /\ \A g : Good(g)' <=> Good(g)
        /\ \A g : Fatal(g)' <=> Fatal(g)
        /\ \A g : Resolved(g)' = Resolved(g)
        /\ \A g, x : Scan(g, x)' = Scan(g, x)
        /\ \A files : Weight(files)' = Weight(files)
        /\ \A files : Dealt(files)' = Dealt(files)
    BY <1>1, SameInput
  <1>4. Misses' = Misses /\ Cached' = Cached
    BY <1>1, SameProject
  <1>5. /\ TypeOK /\ RebindingsKnown /\ EachInOnePlace /\ ScansAreComplete
        /\ ReleasedInOrder /\ DealtGreedily /\ AnsweredOnce /\ NoneIsLost /\ input \in Inputs
    BY DEF IInv, TypeOK
  <1>6. Streaming /\ Streaming'
    BY <1>1, <1>2 DEF Streaming
  <1>7. excluded = AllRebound /\ excluded' = AllRebound
    BY <1>2, <1>5, <1>6 DEF RebindingsKnown, AllRebound
  <1>8. it \in Item /\ it.path = f /\ it.found = Scan(f, AllRebound)
    <2>1. /\ Scan(f, excluded) \in Seq(Of(f, 1 .. Lines, {"KW001"}))
          /\ Seq(Of(f, 1 .. Lines, {"KW001"})) \subseteq Seq(Diagnostic)
      BY <1>5, ScanType, OfFile
    <2> QED
      BY <1>7, <2>1 DEF Item
  <1> HIDE DEF it
  <1>9. /\ channel' \in Seq(Item)
        /\ DOMAIN channel = 1 .. Len(channel) /\ Len(channel) \in Nat
        /\ DOMAIN channel' = 1 .. Len(channel) + 1
        /\ \A i \in DOMAIN channel : i \in DOMAIN channel' /\ channel'[i] = channel[i]
        /\ channel'[Len(channel) + 1] = it /\ Len(channel) + 1 \in DOMAIN channel'
        /\ \A i \in DOMAIN channel' : i \in DOMAIN channel \/ i = Len(channel) + 1
    BY <1>2, <1>5, <1>8, ItemAppend DEF TypeOK
  <1>10. TypeOK'
    BY <1>1, <1>2, <1>3, <1>4, <1>5, <1>9 DEF TypeOK, Ended
  <1>11. NothingSent'
    BY <1>1, <1>2 DEF NothingSent
  <1>12. RebindingsKnown'
    BY <1>1, <1>2, <1>3, <1>7 DEF RebindingsKnown
  <1>13. EachInOnePlace'
    <2>1. Arriving' = Arriving \cup {f}
      BY <1>8, <1>9 DEF Arriving
    <2>2. Held' = Held /\ Later' = Later
      BY <1>1, <1>4 DEF Held, Later
    <2>3. /\ todo \cup Arriving \cup Held \subseteq Later
          /\ todo \cap Arriving = {} /\ todo \cap Held = {} /\ Arriving \cap Held = {}
          /\ failed \/ Later \subseteq todo \cup Arriving \cup Held
      BY <1>5, <1>6 DEF EachInOnePlace
    <2>4. /\ todo' \cup Arriving' \cup Held' \subseteq Later'
          /\ todo' \cap Arriving' = {} /\ todo' \cap Held' = {} /\ Arriving' \cap Held' = {}
          /\ failed' \/ Later' \subseteq todo' \cup Arriving' \cup Held'
      BY <1>1, <1>2, <2>1, <2>2, <2>3
    <2>5. ASSUME NEW i \in DOMAIN channel', NEW j \in DOMAIN channel',
                 channel'[i].path = channel'[j].path
          PROVE  i = j
      <3>1. \A k \in DOMAIN channel : channel'[k].path # f
        <4> TAKE k \in DOMAIN channel
        <4>1. channel[k].path \in Arriving /\ f \notin Arriving
          BY <1>2, <2>3 DEF Arriving
        <4> QED
          BY <1>9, <4>1
      <3>2. channel'[Len(channel) + 1].path = f
        BY <1>8, <1>9
      <3>3. CASE i \in DOMAIN channel /\ j \in DOMAIN channel
        BY <1>5, <1>6, <1>9, <2>5, <3>3 DEF EachInOnePlace
      <3> QED
        BY <1>9, <2>5, <3>1, <3>2, <3>3
    <2> QED
      BY <1>1, <1>2, <2>4, <2>5 DEF EachInOnePlace
  <1>14. ScansAreComplete'
    <2>1. \A i \in DOMAIN channel' : channel'[i].found = Scan(channel'[i].path, AllRebound)
      BY <1>5, <1>6, <1>8, <1>9 DEF ScansAreComplete
    <2> QED
      BY <1>1, <1>3, <1>4, <1>5, <1>6, <2>1 DEF ScansAreComplete
  <1>15. ReleasedInOrder'
    BY <1>1, <1>3, <1>4, <1>5, <1>6 DEF ReleasedInOrder, Released
  <1>16. DealtGreedily'
    BY <1>1, <1>3, <1>5, <1>6 DEF DealtGreedily
  <1>17. AnsweredOnce'
    BY <1>1, <1>3, <1>5, <1>6 DEF AnsweredOnce, Answered
  <1>18. NoneIsLost'
    BY <1>1, <1>2, <1>3, <1>5, <1>6 DEF NoneIsLost, Answered, ShardFailed
  <1>19. CachedAreGood' /\ CacheHoldsSerial' /\ ErrorsAreNeverSwallowed' /\ ResultIsSerial'
    BY <1>1, <1>2, StillRunning
  <1> QED
    BY <1>10, <1>11, <1>12, <1>13, <1>14, <1>15, <1>16, <1>17, <1>18, <1>19 DEF IInv

(***************************************************************************)
(* The steps of the coordinator                                            *)
(***************************************************************************)
\* A sequence without its first element.
LEMMA ItemTail ==
  ASSUME NEW T, NEW s \in Seq(T), s # <<>>
  PROVE  /\ Head(s) = s[1] /\ Head(s) \in T /\ Tail(s) \in Seq(T)
         /\ DOMAIN s = 1 .. Len(s) /\ Len(s) \in Nat \ {0} /\ 1 \in DOMAIN s
         /\ DOMAIN Tail(s) = 1 .. Len(s) - 1
         /\ \A i \in DOMAIN Tail(s) : i + 1 \in DOMAIN s /\ Tail(s)[i] = s[i + 1]
         /\ \A i \in DOMAIN s : i # 1 => i - 1 \in DOMAIN Tail(s) /\ Tail(s)[i - 1] = s[i]
  <1>1. /\ Head(s) = s[1] /\ Tail(s) \in Seq(T) /\ Len(Tail(s)) = Len(s) - 1
        /\ \A i \in 1 .. Len(Tail(s)) : Tail(s)[i] = s[i + 1]
    BY HeadTailProperties
  <1>2. Len(s) \in Nat \ {0} /\ DOMAIN s = 1 .. Len(s) /\ DOMAIN Tail(s) = 1 .. Len(Tail(s))
    BY <1>1, LenProperties, EmptySeq
  <1>3. s[1] \in T
    BY <1>2, ElementOfSeq
  <1> QED
    BY <1>1, <1>2, <1>3

\* An outcome received is held, or ends the check, or is dropped.
LEMMA ReceiveStep ==
  ASSUME IInv, Receive
  PROVE  IInv'
  <1> DEFINE it == Head(channel)
  <1>1. /\ input' = input /\ cache' = cache /\ phase' = phase /\ todo' = todo
        /\ excluded' = excluded /\ next' = next /\ loads' = loads
        /\ sent' = sent /\ queue' = queue /\ shard' = shard /\ slots' = slots
        /\ answers' = answers /\ diagnostics' = diagnostics /\ result' = result
    BY DEF Receive
  <1>2. phase = "scan" /\ channel # <<>> /\ channel' = Tail(channel)
    BY DEF Receive
  <1>3. \/ failed /\ buffered' = buffered /\ senders' = senders /\ failed' = failed
        \/ /\ ~failed /\ input[it.path].kind = "failing"
           /\ failed' = TRUE /\ senders' = FALSE /\ buffered' = buffered
        \/ /\ ~failed /\ input[it.path].kind # "failing"
           /\ buffered' = buffered \cup {it} /\ senders' = senders /\ failed' = failed
    BY DEF Receive
  <1>4. /\ Paths' = Paths /\ Diagnostic' = Diagnostic /\ Item' = Item /\ AllRebound' = AllRebound
        /\ ForTy' = ForTy
        /\ \A g : Good(g)' <=> Good(g)
        /\ \A g : Fatal(g)' <=> Fatal(g)
        /\ \A g : Resolved(g)' = Resolved(g)
        /\ \A g, x : Scan(g, x)' = Scan(g, x)
        /\ \A files : Weight(files)' = Weight(files)
        /\ \A files : Dealt(files)' = Dealt(files)
    BY <1>1, SameInput
  <1>5. Misses' = Misses /\ Cached' = Cached
    BY <1>1, SameProject
  <1>6. /\ TypeOK /\ RebindingsKnown /\ EachInOnePlace /\ ScansAreComplete
        /\ ReleasedInOrder /\ DealtGreedily /\ AnsweredOnce /\ NoneIsLost /\ input \in Inputs
    BY DEF IInv, TypeOK
  <1>7. Streaming /\ Streaming'
    BY <1>1, <1>2 DEF Streaming
  <1>8. /\ it = channel[1] /\ it \in Item /\ channel' \in Seq(Item)
        /\ 1 \in DOMAIN channel
        /\ \A i \in DOMAIN channel' : i \in Int /\ i >= 1 /\ i + 1 \in DOMAIN channel
                                      /\ channel'[i] = channel[i + 1]
        /\ \A i \in DOMAIN channel : i # 1 => i - 1 \in DOMAIN channel'
                                              /\ channel'[i - 1] = channel[i]
    <2>1. channel \in Seq(Item)
      BY <1>6 DEF TypeOK
    <2>2. /\ it = channel[1] /\ it \in Item /\ Tail(channel) \in Seq(Item)
          /\ 1 \in DOMAIN channel
          /\ DOMAIN Tail(channel) = 1 .. Len(channel) - 1
          /\ \A i \in DOMAIN Tail(channel) : i + 1 \in DOMAIN channel /\ Tail(channel)[i] = channel[i + 1]
          /\ \A i \in DOMAIN channel : i # 1 => i - 1 \in DOMAIN Tail(channel) /\ Tail(channel)[i - 1] = channel[i]
      BY <1>2, <2>1, ItemTail
    <2>3. Len(channel) \in Nat
      BY <2>1, LenProperties
    <2> QED
      BY <1>2, <2>2, <2>3
  <1> HIDE DEF it
  <1>9. it.path \in Paths /\ it.found = Scan(it.path, AllRebound)
    BY <1>6, <1>7, <1>8 DEF ScansAreComplete, Item
  <1>10. TypeOK'
    <2>1. buffered' \subseteq Item /\ failed' \in BOOLEAN /\ senders' \in BOOLEAN
      BY <1>3, <1>6, <1>8 DEF TypeOK
    <2> QED
      BY <1>1, <1>4, <1>5, <1>6, <1>8, <2>1 DEF TypeOK, Ended
  <1>11. NothingSent'
    BY <1>1, <1>2 DEF NothingSent
  <1>12. RebindingsKnown'
    BY <1>1, <1>4, <1>6, <1>7 DEF RebindingsKnown
  <1>13. EachInOnePlace'
    <2>1. /\ todo \cup Arriving \cup Held \subseteq Later
          /\ todo \cap Arriving = {} /\ todo \cap Held = {} /\ Arriving \cap Held = {}
          /\ \A i, j \in DOMAIN channel : channel[i].path = channel[j].path => i = j
          /\ failed \/ Later \subseteq todo \cup Arriving \cup Held
      BY <1>6, <1>7 DEF EachInOnePlace
    <2>2. Arriving = Arriving' \cup {it.path}
      BY <1>8 DEF Arriving
    <2>3. it.path \notin Arriving'
      <3> SUFFICES ASSUME NEW i \in DOMAIN channel', channel'[i].path = it.path
                   PROVE  FALSE
        BY DEF Arriving
      <3>1. i + 1 \in DOMAIN channel /\ channel[i + 1].path = channel[1].path /\ i + 1 # 1
        BY <1>8
      <3> QED
        BY <1>8, <2>1, <3>1
    <2>4. Later' = Later
      BY <1>1, <1>5 DEF Later
    <2>5. Held' = Held \/ (failed' = failed /\ Held' = Held \cup {it.path})
      BY <1>3 DEF Held
    <2>6. failed' \/ (~failed /\ Held' = Held \cup {it.path})
      BY <1>3 DEF Held
    <2>7. \A i, j \in DOMAIN channel' : channel'[i].path = channel'[j].path => i = j
      <3> SUFFICES ASSUME NEW i \in DOMAIN channel', NEW j \in DOMAIN channel',
                          channel'[i].path = channel'[j].path
                   PROVE  i = j
        OBVIOUS
      <3>1. i + 1 = j + 1
        BY <1>8, <2>1
      <3> QED
        BY <1>8, <3>1
    <2>8. /\ todo' \cup Arriving' \cup Held' \subseteq Later'
          /\ todo' \cap Arriving' = {} /\ todo' \cap Held' = {} /\ Arriving' \cap Held' = {}
      BY <1>1, <2>1, <2>2, <2>3, <2>4, <2>5
    <2>9. failed' \/ Later' \subseteq todo' \cup Arriving' \cup Held'
      BY <1>1, <2>1, <2>2, <2>4, <2>6
    <2> QED
      BY <1>1, <1>2, <2>7, <2>8, <2>9 DEF EachInOnePlace
  <1>14. ScansAreComplete'
    <2>1. \A i \in DOMAIN channel' : channel'[i].found = Scan(channel'[i].path, AllRebound)
      BY <1>6, <1>7, <1>8 DEF ScansAreComplete
    <2>2. \A item \in buffered' :
             item.found = Scan(item.path, AllRebound) /\ input[item.path].kind # "failing"
      BY <1>3, <1>6, <1>7, <1>9 DEF ScansAreComplete
    <2> QED
      BY <1>1, <1>4, <1>5, <1>6, <1>7, <2>1, <2>2 DEF ScansAreComplete
  <1>15. ReleasedInOrder'
    BY <1>1, <1>4, <1>5, <1>6, <1>7 DEF ReleasedInOrder, Released
  <1>16. DealtGreedily'
    BY <1>1, <1>4, <1>6, <1>7 DEF DealtGreedily
  <1>17. AnsweredOnce'
    BY <1>1, <1>4, <1>6, <1>7 DEF AnsweredOnce, Answered
  <1>18. NoneIsLost'
    <2>1. /\ failed' => \E f \in Paths : input[f].kind = "failing"
          /\ failed => failed'
          /\ senders' => senders
          /\ failed' \/ senders'
      BY <1>2, <1>3, <1>6, <1>7, <1>9 DEF NoneIsLost
    <2>2. \A s \in Shards :
              /\ shard'[s] = "failed" => \E f \in Paths : Fatal(f)'
              /\ queue'[s] # <<>> => shard'[s] = "running"
              /\ shard'[s] = "ended" => ~senders'
      BY <1>1, <1>4, <1>6, <1>7, <2>1 DEF NoneIsLost
    <2>3. Answered' = Answered /\ (ShardFailed' <=> ShardFailed)
      BY <1>1 DEF Answered, ShardFailed
    <2>4. failed' \/ ShardFailed'
            \/ ToSet(slots') \subseteq Answered' \cup UNION {ToSet(queue'[s]) : s \in Shards}
      BY <1>1, <1>6, <1>7, <2>1, <2>3 DEF NoneIsLost
    <2> QED
      BY <1>1, <1>4, <2>1, <2>2, <2>4 DEF NoneIsLost
  <1>19. CachedAreGood' /\ CacheHoldsSerial' /\ ErrorsAreNeverSwallowed' /\ ResultIsSerial'
    BY <1>1, <1>2, StillRunning
  <1> QED
    BY <1>10, <1>11, <1>12, <1>13, <1>14, <1>15, <1>16, <1>17, <1>18, <1>19 DEF IInv

\* The channels of the shards are closed when every file is released or an
\* error is known.
LEMMA CloseChannelsStep ==
  ASSUME IInv, CloseChannels
  PROVE  IInv'
  <1>1. /\ input' = input /\ cache' = cache /\ todo' = todo /\ excluded' = excluded
        /\ channel' = channel /\ buffered' = buffered /\ next' = next /\ loads' = loads
        /\ sent' = sent /\ queue' = queue /\ shard' = shard /\ slots' = slots
        /\ answers' = answers /\ failed' = failed
        /\ diagnostics' = diagnostics /\ result' = result
    BY DEF CloseChannels
  <1>2. /\ phase = "scan" /\ phase' = "collect" /\ senders' = FALSE
        /\ todo = {} /\ channel = <<>> /\ Releasable = {}
    BY DEF CloseChannels, Drained
  <1>3. /\ Paths' = Paths /\ Diagnostic' = Diagnostic /\ Item' = Item /\ AllRebound' = AllRebound
        /\ ForTy' = ForTy
        /\ \A g : Good(g)' <=> Good(g)
        /\ \A g : Fatal(g)' <=> Fatal(g)
        /\ \A g : Resolved(g)' = Resolved(g)
        /\ \A g, x : Scan(g, x)' = Scan(g, x)
        /\ \A files : Weight(files)' = Weight(files)
        /\ \A files : Dealt(files)' = Dealt(files)
    BY <1>1, SameInput
  <1>4. Misses' = Misses /\ Cached' = Cached
    BY <1>1, SameProject
  <1>5. /\ TypeOK /\ RebindingsKnown /\ EachInOnePlace /\ ScansAreComplete
        /\ ReleasedInOrder /\ DealtGreedily /\ AnsweredOnce /\ NoneIsLost /\ input \in Inputs
    BY DEF IInv, TypeOK
  <1>6. Streaming /\ Streaming'
    BY <1>2 DEF Streaming
  <1>7. TypeOK'
    BY <1>1, <1>2, <1>3, <1>4, <1>5 DEF TypeOK, Ended
  <1>8. NothingSent'
    BY <1>2 DEF NothingSent
  <1>9. RebindingsKnown'
    BY <1>1, <1>2, <1>3, <1>5, <1>6 DEF RebindingsKnown
  <1>10. EachInOnePlace'
    <2>1. /\ todo \cup Arriving \cup Held \subseteq Later
          /\ todo \cap Arriving = {} /\ todo \cap Held = {} /\ Arriving \cap Held = {}
          /\ \A i, j \in DOMAIN channel : channel[i].path = channel[j].path => i = j
          /\ failed \/ Later \subseteq todo \cup Arriving \cup Held
      BY <1>5, <1>6 DEF EachInOnePlace
    <2>2. Later' = Later /\ Arriving' = Arriving /\ Held' = Held
      BY <1>1, <1>4 DEF Later, Arriving, Held
    <2>3. failed \/ next = Len(Misses) + 1
      <3> SUFFICES ASSUME ~failed, next # Len(Misses) + 1
                   PROVE  FALSE
        OBVIOUS
      <3>1. next \in 1 .. Len(Misses) + 1 /\ Len(Misses) \in Nat
        BY <1>2, <1>5, MissesFacts DEF TypeOK, Ended
      <3>2. Misses[next] \in Later
        BY <3>1 DEF Later
      <3>3. Arriving = {}
        BY <1>2 DEF Arriving
      <3>4. Misses[next] \in Held
        BY <1>2, <2>1, <3>2, <3>3
      <3> QED
        BY <1>2, <3>4 DEF Held, Releasable, Ready
    <2> QED
      BY <1>1, <1>4, <2>1, <2>2, <2>3 DEF EachInOnePlace
  <1>11. ScansAreComplete'
    BY <1>1, <1>3, <1>4, <1>5, <1>6 DEF ScansAreComplete
  <1>12. ReleasedInOrder'
    BY <1>1, <1>3, <1>4, <1>5, <1>6 DEF ReleasedInOrder, Released
  <1>13. DealtGreedily'
    BY <1>1, <1>3, <1>5, <1>6 DEF DealtGreedily
  <1>14. AnsweredOnce'
    BY <1>1, <1>3, <1>5, <1>6 DEF AnsweredOnce, Answered
  <1>15. NoneIsLost'
    BY <1>1, <1>2, <1>3, <1>5, <1>6 DEF NoneIsLost, Answered, ShardFailed
  <1>16. CachedAreGood' /\ CacheHoldsSerial' /\ ErrorsAreNeverSwallowed' /\ ResultIsSerial'
    BY <1>1, <1>2, StillRunning
  <1> QED
    BY <1>7, <1>8, <1>9, <1>10, <1>11, <1>12, <1>13, <1>14, <1>15, <1>16 DEF IInv

\* What was released ends before the next file to release.
LEMMA ReleasedAppend ==
  ASSUME input \in Inputs, next \in 1 .. Len(Misses)
  PROVE  /\ Misses[next] \in Paths /\ Released \in Seq(Paths)
         /\ SubSeq(Misses, 1, next) = Append(Released, Misses[next])
         /\ Misses[next] \notin ToSet(Released)
         /\ {Misses[k] : k \in next + 1 .. Len(Misses)} = Later \ {Misses[next]}
  <1>1. Misses \in Seq(Paths) /\ Len(Misses) \in Nat /\ Distinct(Misses)
    BY MissesFacts
  <1>2. next \in Nat /\ next - 1 \in Nat /\ next - 1 <= Len(Misses)
    BY <1>1
  <1>3. Misses[next] \in Paths
    BY <1>1, ElementOfSeq
  <1>4. /\ Released \in Seq(Paths) /\ Len(Released) = next - 1
        /\ \A i \in 1 .. next - 1 : Released[i] = Misses[i]
    <2>1. \A i \in 1 .. next - 1 : Misses[i] \in Paths
      BY <1>1, <1>2, ElementOfSeq
    <2> QED
      BY <1>1, <1>2, <2>1, SubSeqProperties DEF Released
  <1>5. SubSeq(Misses, 1, next) = Append(Released, Misses[next])
    <2> DEFINE a == SubSeq(Misses, 1, next)
               b == Append(Released, Misses[next])
    <2>1. a \in Seq(Paths) /\ Len(a) = next /\ \A i \in 1 .. next : a[i] = Misses[i]
      <3>1. \A i \in 1 .. next : Misses[i] \in Paths
        BY <1>1, <1>2, ElementOfSeq
      <3> QED
        BY <1>1, <1>2, <3>1, SubSeqProperties
    <2>2. b \in Seq(Paths) /\ Len(b) = next /\ \A i \in 1 .. next : b[i] = Misses[i]
      BY <1>2, <1>3, <1>4, AppendProperties
    <2> HIDE DEF a, b
    <2>3. a = b
      BY <2>1, <2>2, SeqEqual
    <2> QED
      BY <2>3 DEF a, b
  <1>6. Misses[next] \notin ToSet(Released)
    <2>1. \A i \in 1 .. next - 1 : Misses[i] # Misses[next]
      BY <1>1, <1>2 DEF Distinct
    <2>2. ToSet(Released) = {Released[i] : i \in 1 .. next - 1}
      BY <1>4 DEF ToSet
    <2> QED
      BY <1>4, <2>1, <2>2
  <1>7. {Misses[k] : k \in next + 1 .. Len(Misses)} = Later \ {Misses[next]}
    <2>1. \A k \in next + 1 .. Len(Misses) : Misses[k] # Misses[next]
      BY <1>1, <1>2 DEF Distinct
    <2>2. \A k \in next .. Len(Misses) : k = next \/ k \in next + 1 .. Len(Misses)
      BY <1>1, <1>2
    <2>3. \A k \in next + 1 .. Len(Misses) : k \in next .. Len(Misses)
      BY <1>1, <1>2
    <2> QED
      BY <2>1, <2>2, <2>3 DEF Later
  <1> QED
    BY <1>3, <1>4, <1>5, <1>6, <1>7

\* The outcome released next, and what is known of it.
LEMMA ReleaseFacts ==
  ASSUME IInv, Release
  PROVE  \E item \in Releasable :
            LET f == item.path
            IN /\ next \in 1 .. Len(Misses) /\ f = Misses[next] /\ f \in Paths
               /\ item.found = Scan(f, AllRebound) /\ input[f].kind # "failing"
               /\ buffered' = buffered \ {item} /\ next' = next + 1
               /\ diagnostics' = IF Good(f) THEN diagnostics \o item.found ELSE diagnostics
               /\ f \in ForTy => Assign(f)
               /\ f \notin ForTy => loads' = loads /\ sent' = sent /\ queue' = queue /\ slots' = slots
  <1>1. PICK item \in Releasable :
          /\ buffered' = buffered \ {item}
          /\ next' = next + 1
          /\ \/ /\ Good(item.path)
                /\ diagnostics' = diagnostics \o item.found
                /\ \/ input[item.path].weight > 0 /\ Assign(item.path)
                   \/ /\ input[item.path].weight = 0
                      /\ UNCHANGED <<loads, sent, queue, slots>>
             \/ /\ ~Good(item.path)
                /\ UNCHANGED <<diagnostics, loads, sent, queue, slots>>
    BY DEF Release
  <1>2. /\ TypeOK /\ EachInOnePlace /\ ScansAreComplete /\ Streaming /\ input \in Inputs
        /\ phase = "scan"
    BY DEF IInv, TypeOK, Release, Streaming
  <1>3. item \in buffered /\ item.path = Misses[next]
    BY DEF Releasable, Ready
  <1>4. next \in 1 .. Len(Misses)
    <2>1. item.path \in Later
      BY <1>2, <1>3 DEF EachInOnePlace, Held
    <2>2. PICK k \in next .. Len(Misses) : TRUE
      BY <2>1 DEF Later
    <2>3. next \in 1 .. Len(Misses) + 1 /\ Len(Misses) \in Nat
      BY <1>2, MissesFacts DEF TypeOK, Ended
    <2> QED
      BY <2>2, <2>3
  <1>5. item.path \in Paths
    BY <1>2, <1>3, <1>4, ReleasedAppend
  <1>6. item.found = Scan(item.path, AllRebound) /\ input[item.path].kind # "failing"
    BY <1>2, <1>3 DEF ScansAreComplete
  <1>7. input[item.path].weight \in Nat
    BY <1>2, <1>5, InputFacts, FileFacts
  <1>8. item.path \in ForTy <=> (Good(item.path) /\ input[item.path].weight > 0)
    BY <1>5 DEF ForTy
  <1>9. CASE Good(item.path) /\ input[item.path].weight > 0
    <2>1. Assign(item.path) /\ diagnostics' = diagnostics \o item.found
      BY <1>1, <1>7, <1>9
    <2> QED
      BY <1>1, <1>3, <1>4, <1>5, <1>6, <1>8, <1>9, <2>1
  <1>10. CASE Good(item.path) /\ ~(input[item.path].weight > 0)
    BY <1>1, <1>3, <1>4, <1>5, <1>6, <1>7, <1>8, <1>10
  <1>11. CASE ~Good(item.path)
    BY <1>1, <1>3, <1>4, <1>5, <1>6, <1>7, <1>8, <1>11
  <1> QED
    BY <1>9, <1>10, <1>11

\* What a release adds to the slots and the diagnostics.
Adds(f) ==
  /\ diagnostics' = IF Good(f) THEN diagnostics \o Scan(f, AllRebound) ELSE diagnostics
  /\ slots' = IF f \in ForTy THEN Append(slots, f) ELSE slots

\* What the coordinator knows after it releases a file more.
LEMMA ReleaseInOrder ==
  ASSUME IInv, next \in 1 .. Len(Misses), Streaming, Streaming',
         input' = input, cache' = cache, next' = next + 1,
         Adds(Misses[next])
  PROVE  ReleasedInOrder' /\ diagnostics' \in Seq(Diagnostic)
  <1> DEFINE f == Misses[next]
             g(k) == IF Good(Misses[k]) THEN Scan(Misses[k], AllRebound) ELSE <<>>
             before == [k \in 1 .. next - 1 |-> g(k)]
             after == [k \in 1 .. next |-> g(k)]
  <1>0. Adds(f) /\ g(next) = IF Good(f) THEN Scan(f, AllRebound) ELSE <<>>
    OBVIOUS
  <1>1. /\ input \in Inputs /\ DOMAIN cache \subseteq Paths /\ CacheHoldsSerial
        /\ diagnostics \in Seq(Diagnostic) /\ ReleasedInOrder
    BY DEF IInv, TypeOK
  <1>2. f \in Paths /\ Released \in Seq(Paths) /\ Released' = Append(Released, f)
    <2>1. Misses' = Misses
      BY SameProject
    <2>2. Len(Misses) \in Nat
      BY <1>1, MissesFacts
    <2>3. Released' = SubSeq(Misses, 1, next)
      BY <2>1, <2>2 DEF Released
    <2> QED
      BY <1>1, <2>3, ReleasedAppend
  <1> HIDE DEF f
  <1>3. Misses \in Seq(Paths) /\ Len(Misses) \in Nat /\ next \in Nat \ {0}
    BY <1>1, MissesFacts
  <1>4. \A k \in 1 .. next : g(k) \in Seq(Diagnostic)
    <2> TAKE k \in 1 .. next
    <2>1. Misses[k] \in Paths
      BY <1>3, ElementOfSeq
    <2>2. Scan(Misses[k], AllRebound) \in Seq(Diagnostic)
      BY <1>1, <2>1, ScanType, OfFile
    <2> QED
      BY <2>2, EmptySeq
  <1>5. slots' = Only(Released', ForTy')
    <2>1. slots = Only(Released, ForTy) /\ ForTy' = ForTy
      BY <1>1, SameInput DEF ReleasedInOrder
    <2> DEFINE files == Released
    <2>2. files \in Seq(Paths) /\ Released' = Append(files, f) /\ slots = Only(files, ForTy)
      BY <1>2, <2>1
    <2> HIDE DEF files
    <2>3. Only(Append(files, f), ForTy) =
             IF f \in ForTy THEN Append(Only(files, ForTy), f) ELSE Only(files, ForTy)
      BY <1>2, <2>2, OnlyAppend
    <2> QED
      BY <1>0, <2>1, <2>2, <2>3 DEF Adds
  <1>6. diagnostics = Cached \o FlattenSeq(before)
    BY <1>1 DEF ReleasedInOrder
  <1>8. /\ [k \in 1 .. next' - 1 |->
               IF Good(Misses[k])' THEN Scan(Misses[k], AllRebound)' ELSE <<>>] = after
    <2>1. next' - 1 = next /\ Misses' = Misses /\ AllRebound' = AllRebound
      BY <1>3, SameProject, SameInput
    <2>2. \A k : (Good(Misses[k])' <=> Good(Misses[k]))
                 /\ Scan(Misses[k], AllRebound)' = Scan(Misses[k], AllRebound)
      BY <2>1, SameInput
    <2> QED
      BY <2>1, <2>2
  <1>9. before \in Seq(Seq(Diagnostic)) /\ after = Append(before, g(next))
    <2> HIDE DEF g
    <2>1. before \in [1 .. next - 1 -> Seq(Diagnostic)] /\ after \in [1 .. next -> Seq(Diagnostic)]
      BY <1>3, <1>4
    <2>2. before \in Seq(Seq(Diagnostic)) /\ Len(before) = next - 1
      <3> HIDE DEF before
      <3>1. next - 1 \in Nat
        BY <1>3
      <3> DEFINE n == next - 1
      <3> HIDE DEF n
      <3>2. n \in Nat /\ before \in [1 .. n -> Seq(Diagnostic)]
        BY <2>1, <3>1 DEF n
      <3>3. before \in Seq(Seq(Diagnostic)) /\ Len(before) = n
        BY <3>2, FcnIsSeq
      <3> QED
        BY <3>3 DEF n
    <2>3. after \in Seq(Seq(Diagnostic)) /\ Len(after) = next
      <3> HIDE DEF after
      <3> QED
        BY <1>3, <2>1, FcnIsSeq
    <2>4. next \in 1 .. next /\ g(next) \in Seq(Diagnostic)
      BY <1>3, <1>4
    <2>5. /\ Append(before, g(next)) \in Seq(Seq(Diagnostic))
          /\ Len(Append(before, g(next))) = next
          /\ \A k \in 1 .. next - 1 : Append(before, g(next))[k] = before[k]
          /\ Append(before, g(next))[next] = g(next)
      <3> HIDE DEF before
      <3> QED
        BY <1>3, <2>2, <2>4, AppendProperties
    <2>6. \A k \in 1 .. next : Append(before, g(next))[k] = after[k]
      <3>1. \A k \in 1 .. next - 1 : Append(before, g(next))[k] = g(k)
        BY <2>5
      <3>2. \A k \in 1 .. next : k = next \/ k \in 1 .. next - 1
        BY <1>3
      <3>3. \A k \in 1 .. next : after[k] = g(k)
        OBVIOUS
      <3> QED
        BY <2>5, <3>1, <3>2, <3>3
    <2> DEFINE e == Append(before, g(next))
    <2> HIDE DEF before, after, e
    <2>7. e \in Seq(Seq(Diagnostic)) /\ Len(e) = Len(after) /\ \A k \in 1 .. Len(after) : e[k] = after[k]
      BY <2>3, <2>5, <2>6 DEF e
    <2>8. e = after
      BY <2>3, <2>7, SeqEqual
    <2> QED
      BY <2>2, <2>8 DEF e
  <1>10. diagnostics' = diagnostics \o g(next) /\ g(next) \in Seq(Diagnostic)
    <2>1. g(next) \in Seq(Diagnostic)
      BY <1>3, <1>4
    <2>2. CASE Good(f)
      BY <1>0, <2>1, <2>2 DEF Adds
    <2>3. CASE ~Good(f)
      BY <1>1, <1>0, <2>1, <2>3, ConcatEmptySeq DEF Adds
    <2> QED
      BY <2>2, <2>3
  <1> DEFINE last == g(next)
  <1>11. FlattenSeq(after) = FlattenSeq(before) \o last
    <2>1. last \in Seq(Diagnostic) /\ after = Append(before, last)
      BY <1>9, <1>10
    <2> HIDE DEF last, before, after
    <2> QED
      BY <1>9, <2>1, FlattenAppend
  <1>12. diagnostics' = Cached \o FlattenSeq(after)
    <2>1. FlattenSeq(before) \in Seq(Diagnostic)
      BY <1>9, FlattenType
    <2>2. Cached \in Seq(Diagnostic)
      BY <1>1, CachedFacts
    <2>3. last \in Seq(Diagnostic) /\ diagnostics' = diagnostics \o last
      BY <1>10
    <2> DEFINE flat == FlattenSeq(before)
    <2>4. /\ diagnostics = Cached \o flat /\ FlattenSeq(after) = flat \o last
          /\ flat \in Seq(Diagnostic)
      BY <1>6, <1>11, <2>1
    <2> HIDE DEF last, before, after, flat
    <2>5. (Cached \o flat) \o last = Cached \o (flat \o last)
      BY <2>2, <2>3, <2>4, ConcatAssociative, SMTT(30)
    <2> QED
      BY <2>3, <2>4, <2>5
  <1>13. diagnostics' \in Seq(Diagnostic)
    <2> HIDE DEF g
    <2> QED
      BY <1>1, <1>10, ConcatProperties
  <1>14. Cached' = Cached
    BY SameProject
  <1> HIDE DEF after
  <1> QED
    BY <1>5, <1>8, <1>12, <1>13, <1>14 DEF ReleasedInOrder

\* A release deals the file to the part of the least weight.
LEMMA ReleaseDeals ==
  ASSUME IInv, Streaming, Streaming', input' = input, NEW f \in Paths,
         f \in ForTy => Assign(f),
         f \notin ForTy => loads' = loads /\ sent' = sent /\ slots' = slots
  PROVE  DealtGreedily' /\ loads' \in [Shards -> Nat] /\ sent' \in [Shards -> Seq(Paths)]
  <1>1. /\ input \in Inputs /\ slots \in Seq(Paths) /\ loads \in [Shards -> Nat]
        /\ sent \in [Shards -> Seq(Paths)]
        /\ sent = Dealt(slots) /\ \A s \in Shards : loads[s] = Weight(sent[s])
    BY DEF IInv, TypeOK, DealtGreedily
  <1>2. /\ \A files : Weight(files)' = Weight(files)
        /\ \A files : Dealt(files)' = Dealt(files)
    BY SameInput
  <1>3. CASE f \notin ForTy
    BY <1>1, <1>2, <1>3 DEF DealtGreedily
  <1>4. CASE f \in ForTy
    <2>1. /\ loads' = [loads EXCEPT ![Lightest] = @ + input[f].weight]
          /\ sent' = [sent EXCEPT ![Lightest] = Append(@, f)]
          /\ slots' = Append(slots, f)
      BY <1>4 DEF Assign
    <2>2. Lightest \in Shards
      BY <1>1, LightestFacts
    <2>3. input[f].weight \in Nat
      BY <1>1, InputFacts, FileFacts
    <2>4. Append(sent[Lightest], f) \in Seq(Paths)
      BY <1>1, <2>2
    <2>5. loads' \in [Shards -> Nat] /\ sent' \in [Shards -> Seq(Paths)]
      BY <1>1, <2>1, <2>2, <2>3, <2>4
    <2>6. Dealt(Append(slots, f)) = Deal(sent, f)
      BY <1>1, DealtFacts
    <2>7. Deal(sent, f) = [sent EXCEPT ![Lightest] = Append(@, f)]
      BY <1>1, LightestIsLeast
    <2>8. sent' = Dealt(slots)'
      BY <1>2, <2>1, <2>6, <2>7
    <2>9. ASSUME NEW s \in Shards
          PROVE  loads'[s] = Weight(sent'[s])
      <3>1. CASE s = Lightest
        <4>1. sent[s] \in Seq(Paths)
          BY <1>1
        <4>2. sent'[s] = Append(sent[s], f) /\ loads'[s] = loads[s] + input[f].weight
          BY <1>1, <2>1, <2>2, <3>1
        <4>3. Weight(Append(sent[s], f)) = Weight(sent[s]) + input[f].weight
          BY <1>1, <4>1, WeightFacts
        <4> QED
          BY <1>1, <4>2, <4>3
      <3>2. CASE s # Lightest
        BY <1>1, <2>1, <3>2
      <3> QED
        BY <3>1, <3>2
    <2> QED
      BY <1>2, <2>5, <2>8, <2>9 DEF DealtGreedily
  <1> QED
    BY <1>3, <1>4

\* The queue of a shard with a file more.
LEMMA AssignQueue ==
  ASSUME IInv, NEW f \in Paths, Assign(f)
  PROVE  /\ queue' \in [Shards -> Seq(Paths)] /\ Lightest \in Shards
         /\ slots' = Append(slots, f) /\ slots' \in Seq(Paths)
         /\ ToSet(slots') = ToSet(slots) \cup {f}
         /\ \A s \in Shards : s # Lightest => queue'[s] = queue[s]
         /\ queue'[Lightest] = IF shard[Lightest] = "running" THEN Append(queue[Lightest], f)
                               ELSE queue[Lightest]
  <1>1. /\ queue \in [Shards -> Seq(Paths)] /\ slots \in Seq(Paths)
        /\ loads \in [Shards -> Nat]
    BY DEF IInv, TypeOK
  <1>2. Lightest \in Shards
    BY <1>1, LightestFacts
  <1>3. /\ queue' = IF shard[Lightest] = "running"
                    THEN [queue EXCEPT ![Lightest] = Append(@, f)] ELSE queue
        /\ slots' = Append(slots, f)
    BY DEF Assign
  <1>4. queue[Lightest] \in Seq(Paths)
    BY <1>1, <1>2
  <1>5. Append(queue[Lightest], f) \in Seq(Paths)
    BY <1>4, AppendProperties
  <1>6. slots' \in Seq(Paths) /\ ToSet(slots') = ToSet(slots) \cup {f}
    BY <1>1, <1>3, AppendProperties, ToSetAppend
  <1>7. CASE shard[Lightest] = "running"
    BY <1>1, <1>2, <1>3, <1>5, <1>6, <1>7
  <1>8. CASE shard[Lightest] # "running"
    BY <1>1, <1>2, <1>3, <1>6, <1>8
  <1> QED
    BY <1>7, <1>8

\* A released file is queued for one shard only, and only once.
LEMMA ReleaseAnswers ==
  ASSUME IInv, Streaming, Streaming', input' = input, answers' = answers, NEW f \in Paths,
         f \notin ToSet(slots),
         f \in ForTy => Assign(f),
         f \notin ForTy => queue' = queue /\ slots' = slots
  PROVE  AnsweredOnce'
  <1>1. /\ queue \in [Shards -> Seq(Paths)] /\ slots \in Seq(Paths) /\ AnsweredOnce
    BY DEF IInv, TypeOK
  <1>2. \A g : Resolved(g)' = Resolved(g)
    BY SameInput
  <1>3. Answered' = Answered
    BY DEF Answered
  <1>4. CASE f \notin ForTy
    BY <1>1, <1>2, <1>3, <1>4 DEF AnsweredOnce
  <1>5. CASE f \in ForTy
    <2>1. /\ Lightest \in Shards /\ ToSet(slots') = ToSet(slots) \cup {f}
          /\ \A s \in Shards : s # Lightest => queue'[s] = queue[s]
          /\ queue'[Lightest] = IF shard[Lightest] = "running" THEN Append(queue[Lightest], f)
                                ELSE queue[Lightest]
      BY <1>5, AssignQueue
    <2>2. f \notin Answered
      BY <1>1 DEF AnsweredOnce
    <2>3. \A s \in Shards : f \notin ToSet(queue[s])
      BY <1>1 DEF AnsweredOnce
    <2>4. \A s \in Shards : \/ queue'[s] = queue[s]
                            \/ s = Lightest /\ queue'[s] = Append(queue[s], f)
      BY <2>1
    <2>5. \A s \in Shards : \/ ToSet(queue'[s]) = ToSet(queue[s])
                            \/ s = Lightest /\ ToSet(queue'[s]) = ToSet(queue[s]) \cup {f}
      <3> TAKE s \in Shards
      <3>1. queue[s] \in Seq(Paths)
        BY <1>1
      <3>2. ToSet(Append(queue[s], f)) = ToSet(queue[s]) \cup {f}
        BY <3>1, ToSetAppend
      <3> QED
        BY <2>4, <3>2
    <2>6. ASSUME NEW s \in Shards
          PROVE  /\ ToSet(queue'[s]) \subseteq ToSet(slots') \ Answered'
                 /\ \A i, j \in DOMAIN queue'[s] : queue'[s][i] = queue'[s][j] => i = j
                 /\ \A t \in Shards : s # t => ToSet(queue'[s]) \cap ToSet(queue'[t]) = {}
      <3>1. /\ ToSet(queue[s]) \subseteq ToSet(slots) \ Answered
            /\ \A i, j \in DOMAIN queue[s] : queue[s][i] = queue[s][j] => i = j
            /\ \A t \in Shards : s # t => ToSet(queue[s]) \cap ToSet(queue[t]) = {}
        BY <1>1 DEF AnsweredOnce
      <3>2. ToSet(queue'[s]) \subseteq ToSet(slots') \ Answered'
        BY <1>3, <2>1, <2>2, <2>5, <3>1
      <3>3. \A i, j \in DOMAIN queue'[s] : queue'[s][i] = queue'[s][j] => i = j
        <4>1. queue[s] \in Seq(Paths) /\ DOMAIN queue[s] = 1 .. Len(queue[s])
          BY <1>1, LenProperties
        <4>2. Distinct(queue[s])
          BY <3>1, <4>1 DEF Distinct
        <4>3. Append(queue[s], f) \in Seq(Paths) /\ Distinct(Append(queue[s], f))
          BY <2>3, <4>1, <4>2, DistinctAppend, AppendProperties
        <4>4. DOMAIN Append(queue[s], f) = 1 .. Len(Append(queue[s], f))
          BY <4>3, LenProperties
        <4> DEFINE q == Append(queue[s], f)
        <4>5. \A i, j \in DOMAIN q : q[i] = q[j] => i = j
          BY <4>3, <4>4 DEF Distinct
        <4> HIDE DEF q
        <4>6. queue'[s] = queue[s] \/ queue'[s] = q
          BY <2>4 DEF q
        <4> QED
          BY <3>1, <4>5, <4>6
      <3>4. \A t \in Shards : s # t => ToSet(queue'[s]) \cap ToSet(queue'[t]) = {}
        BY <2>3, <2>5, <3>1
      <3> QED
        BY <3>2, <3>3, <3>4
    <2>7. /\ Answered' \subseteq ToSet(slots')
          /\ \A i, j \in DOMAIN answers' : answers'[i].path = answers'[j].path => i = j
          /\ \A j \in DOMAIN answers' :
                answers'[j].found = Resolved(answers[j].path)' /\ ~input'[answers'[j].path].tyFails
      BY <1>1, <1>2, <1>3, <2>1 DEF AnsweredOnce
    <2> QED
      BY <2>6, <2>7 DEF AnsweredOnce
  <1> QED
    BY <1>4, <1>5

\* A released file is lost only to an error.
LEMMA ReleaseLoses ==
  ASSUME IInv, phase = "scan", phase' = phase, input' = input, answers' = answers, shard' = shard,
         senders' = senders, failed' = failed, NEW f \in Paths,
         f \in ForTy => Assign(f),
         f \notin ForTy => queue' = queue /\ slots' = slots
  PROVE  NoneIsLost'
  <1>1. /\ Streaming /\ Streaming' /\ NoneIsLost
        /\ shard \in [Shards -> {"running", "failed", "ended"}]
    BY DEF IInv, TypeOK, Streaming
  <1>2. /\ Answered' = Answered /\ (ShardFailed' <=> ShardFailed) /\ Paths' = Paths
        /\ \A g : Fatal(g)' <=> Fatal(g)
    BY SameInput DEF Answered, ShardFailed
  <1>3. CASE f \notin ForTy
    BY <1>1, <1>2, <1>3 DEF NoneIsLost
  <1>4. CASE f \in ForTy
    <2>1. /\ Lightest \in Shards /\ ToSet(slots') = ToSet(slots) \cup {f}
          /\ \A s \in Shards : s # Lightest => queue'[s] = queue[s]
          /\ queue'[Lightest] = IF shard[Lightest] = "running" THEN Append(queue[Lightest], f)
                                ELSE queue[Lightest]
      BY <1>4, AssignQueue
    <2>2. \A s \in Shards :
              /\ shard'[s] = "failed" => \E g \in Paths : Fatal(g)'
              /\ queue'[s] # <<>> => shard'[s] = "running"
              /\ shard'[s] = "ended" => ~senders'
      <3> TAKE s \in Shards
      <3>1. /\ shard[s] = "failed" => \E g \in Paths : Fatal(g)
            /\ queue[s] # <<>> => shard[s] = "running"
            /\ shard[s] = "ended" => ~senders
        BY <1>1 DEF NoneIsLost
      <3>2. queue'[s] = queue[s] \/ shard[s] = "running"
        BY <2>1
      <3> QED
        BY <1>2, <3>1, <3>2
    <2>3. failed' \/ ShardFailed'
            \/ ToSet(slots') \subseteq Answered' \cup UNION {ToSet(queue'[s]) : s \in Shards}
      <3>1. failed \/ senders
        BY <1>1 DEF NoneIsLost
      <3>2. CASE shard[Lightest] = "failed"
        BY <1>2, <2>1, <3>2 DEF ShardFailed
      <3>3. CASE shard[Lightest] = "ended"
        BY <1>1, <2>1, <3>1, <3>3 DEF NoneIsLost
      <3>4. CASE shard[Lightest] = "running"
        <4>1. queue[Lightest] \in Seq(Paths)
          BY <2>1 DEF IInv, TypeOK
        <4>2. ToSet(queue'[Lightest]) = ToSet(queue[Lightest]) \cup {f}
          BY <2>1, <3>4, <4>1, ToSetAppend
        <4>3. \A s \in Shards : ToSet(queue[s]) \subseteq ToSet(queue'[s])
          BY <2>1, <4>2
        <4>4. f \in UNION {ToSet(queue'[s]) : s \in Shards}
          BY <2>1, <4>2
        <4>5. UNION {ToSet(queue[s]) : s \in Shards} \subseteq UNION {ToSet(queue'[s]) : s \in Shards}
          BY <4>3
        <4>6. failed \/ ShardFailed
                \/ ToSet(slots) \subseteq Answered \cup UNION {ToSet(queue[s]) : s \in Shards}
          BY <1>1 DEF NoneIsLost
        <4> QED
          BY <1>2, <2>1, <4>4, <4>5, <4>6
      <3> QED
        BY <1>1, <2>1, <3>2, <3>3, <3>4
    <2> QED
      BY <1>1, <1>2, <2>2, <2>3 DEF NoneIsLost
  <1> QED
    BY <1>3, <1>4

\* The next file is released to the shards.
LEMMA ReleaseStep ==
  ASSUME IInv, Release
  PROVE  IInv'
  <1>1. /\ input' = input /\ cache' = cache /\ phase' = phase /\ todo' = todo
        /\ excluded' = excluded /\ channel' = channel /\ shard' = shard
        /\ answers' = answers /\ senders' = senders /\ failed' = failed /\ result' = result
        /\ phase = "scan"
    BY DEF Release
  <1>2. PICK item \in Releasable :
            LET f == item.path
            IN /\ next \in 1 .. Len(Misses) /\ f = Misses[next] /\ f \in Paths
               /\ item.found = Scan(f, AllRebound) /\ input[f].kind # "failing"
               /\ buffered' = buffered \ {item} /\ next' = next + 1
               /\ diagnostics' = IF Good(f) THEN diagnostics \o item.found ELSE diagnostics
               /\ f \in ForTy => Assign(f)
               /\ f \notin ForTy => loads' = loads /\ sent' = sent /\ queue' = queue /\ slots' = slots
    BY ReleaseFacts
  <1> DEFINE f == item.path
  <1>3. /\ item \in buffered /\ next \in 1 .. Len(Misses) /\ f = Misses[next] /\ f \in Paths
        /\ item.found = Scan(f, AllRebound) /\ input[f].kind # "failing"
        /\ buffered' = buffered \ {item} /\ next' = next + 1
    BY <1>2 DEF Releasable
  <1>4. /\ f \in ForTy => Assign(f)
        /\ f \notin ForTy => loads' = loads /\ sent' = sent /\ queue' = queue /\ slots' = slots
    BY <1>2
  <1>5. Adds(Misses[next])
    <2>1. slots' = IF f \in ForTy THEN Append(slots, f) ELSE slots
      BY <1>4 DEF Assign
    <2>2. diagnostics' = IF Good(f) THEN diagnostics \o Scan(f, AllRebound) ELSE diagnostics
      BY <1>2
    <2> HIDE DEF f
    <2> QED
      BY <1>3, <2>1, <2>2 DEF Adds
  <1> HIDE DEF f
  <1>6. /\ Paths' = Paths /\ Diagnostic' = Diagnostic /\ Item' = Item /\ AllRebound' = AllRebound
        /\ ForTy' = ForTy
        /\ \A g : Good(g)' <=> Good(g)
        /\ \A g, x : Scan(g, x)' = Scan(g, x)
    BY <1>1, SameInput
  <1>7. Misses' = Misses /\ Cached' = Cached
    BY <1>1, SameProject
  <1>8. /\ TypeOK /\ RebindingsKnown /\ EachInOnePlace /\ ScansAreComplete
        /\ ReleasedInOrder /\ input \in Inputs
    BY DEF IInv, TypeOK
  <1>9. Streaming /\ Streaming'
    BY <1>1 DEF Streaming
  <1>10. /\ SubSeq(Misses, 1, next) = Append(Released, f) /\ f \notin ToSet(Released)
         /\ Released \in Seq(Paths) /\ {Misses[k] : k \in next + 1 .. Len(Misses)} = Later \ {f}
    BY <1>3, <1>8, ReleasedAppend
  <1>11. Len(Misses) \in Nat /\ next \in Nat \ {0}
    BY <1>3, <1>8, MissesFacts
  <1>12. f \notin ToSet(slots)
    <2>1. slots = Only(Released, ForTy)
      BY <1>8, <1>9 DEF ReleasedInOrder
    <2>2. ToSet(Only(Released, ForTy)) = ToSet(Released) \cap ForTy
      BY <1>10, OnlyElements
    <2> QED
      BY <1>10, <2>1, <2>2
  <1>13. ReleasedInOrder' /\ diagnostics' \in Seq(Diagnostic)
    BY <1>1, <1>3, <1>5, <1>9, ReleaseInOrder
  <1>14. DealtGreedily' /\ loads' \in [Shards -> Nat] /\ sent' \in [Shards -> Seq(Paths)]
    <2>1. f \notin ForTy => loads' = loads /\ sent' = sent /\ slots' = slots
      BY <1>4
    <2> QED
      BY <1>1, <1>3, <1>4, <1>9, <2>1, ReleaseDeals
  <1>15. AnsweredOnce' /\ NoneIsLost'
    <2>1. f \notin ForTy => queue' = queue /\ slots' = slots
      BY <1>4
    <2>2. AnsweredOnce'
      BY <1>1, <1>3, <1>4, <1>9, <1>12, <2>1, ReleaseAnswers
    <2>3. NoneIsLost'
      BY <1>1, <1>3, <1>4, <2>1, ReleaseLoses
    <2> QED
      BY <2>2, <2>3
  <1>16. TypeOK'
    <2>1. queue' \in [Shards -> Seq(Paths)] /\ slots' \in Seq(Paths)
      <3>1. CASE f \in ForTy
        BY <1>3, <1>4, <3>1, AssignQueue
      <3>2. CASE f \notin ForTy
        BY <1>4, <1>8, <3>2 DEF TypeOK
      <3> QED
        BY <3>1, <3>2
    <2>2. next' \in 1 .. Len(Misses') + 1
      BY <1>3, <1>7, <1>11
    <2>3. buffered' \subseteq Item'
      BY <1>3, <1>6, <1>8 DEF TypeOK
    <2> QED
      BY <1>1, <1>6, <1>8, <1>13, <1>14, <2>1, <2>2, <2>3 DEF TypeOK
  <1>17. NothingSent'
    BY <1>1 DEF NothingSent
  <1>18. RebindingsKnown'
    BY <1>1, <1>6, <1>8, <1>9 DEF RebindingsKnown
  <1>19. EachInOnePlace'
    <2>1. /\ todo \cup Arriving \cup Held \subseteq Later
          /\ todo \cap Arriving = {} /\ todo \cap Held = {} /\ Arriving \cap Held = {}
          /\ \A i, j \in DOMAIN channel : channel[i].path = channel[j].path => i = j
          /\ failed \/ Later \subseteq todo \cup Arriving \cup Held
      BY <1>8, <1>9 DEF EachInOnePlace
    <2>2. Later' = Later \ {f}
      BY <1>3, <1>7, <1>10 DEF Later
    <2>3. Arriving' = Arriving
      BY <1>1 DEF Arriving
    <2>4. \A other \in buffered : other.path = f => other = item
      <3> TAKE other \in buffered
      <3>1. other \in Item /\ item \in Item
        BY <1>3, <1>8 DEF TypeOK
      <3>2. other.found = Scan(other.path, AllRebound)
        BY <1>8, <1>9 DEF ScansAreComplete
      <3>3. item.path = f
        BY DEF f
      <3> QED
        BY <1>3, <3>1, <3>2, <3>3 DEF Item
    <2>5. Held' = Held \ {f} /\ f \in Held
      <3>1. item.path = f
        BY DEF f
      <3> QED
        BY <1>3, <2>4, <3>1 DEF Held
    <2>6. /\ todo' \cup Arriving' \cup Held' \subseteq Later'
          /\ todo' \cap Arriving' = {} /\ todo' \cap Held' = {} /\ Arriving' \cap Held' = {}
          /\ failed' \/ Later' \subseteq todo' \cup Arriving' \cup Held'
      BY <1>1, <2>1, <2>2, <2>3, <2>5
    <2> QED
      BY <1>1, <2>1, <2>6 DEF EachInOnePlace
  <1>20. ScansAreComplete'
    <2>1. \A k \in 1 .. next' - 1 : input[Misses[k]].kind # "failing"
      <3>1. \A k \in 1 .. next - 1 : input[Misses[k]].kind # "failing"
        BY <1>8, <1>9 DEF ScansAreComplete
      <3>2. \A k \in 1 .. next' - 1 : k = next \/ k \in 1 .. next - 1
        BY <1>3, <1>11
      <3> QED
        BY <1>3, <3>1, <3>2
    <2>2. /\ \A i \in DOMAIN channel' : channel'[i].found = Scan(channel'[i].path, AllRebound)
          /\ \A other \in buffered' :
                other.found = Scan(other.path, AllRebound) /\ input[other.path].kind # "failing"
      BY <1>1, <1>3, <1>8, <1>9 DEF ScansAreComplete
    <2> QED
      BY <1>1, <1>6, <1>7, <2>1, <2>2 DEF ScansAreComplete
  <1>21. CachedAreGood' /\ CacheHoldsSerial' /\ ErrorsAreNeverSwallowed' /\ ResultIsSerial'
    BY <1>1, StillRunning
  <1> QED
    BY <1>13, <1>14, <1>15, <1>16, <1>17, <1>18, <1>19, <1>20, <1>21 DEF IInv

(***************************************************************************)
(* The steps of the ty shards                                              *)
(***************************************************************************)
\* A step that touches neither the phase, the cache nor the result keeps the
\* promises of the check.
LEMMA SamePromises ==
  ASSUME IInv, input' = input, cache' = cache, phase' = phase, next' = next, result' = result
  PROVE  CachedAreGood' /\ CacheHoldsSerial' /\ ErrorsAreNeverSwallowed' /\ ResultIsSerial'
  <1>1. CachedAreGood /\ CacheHoldsSerial /\ ErrorsAreNeverSwallowed /\ ResultIsSerial
    BY DEF IInv
  <1>2. CachedAreGood' /\ CacheHoldsSerial'
    BY <1>1, SameInput DEF CachedAreGood, CacheHoldsSerial
  <1>3. ErrorsAreNeverSwallowed'
    BY <1>1, SameInput DEF ErrorsAreNeverSwallowed, Ended
  <1>4. ResultIsSerial'
    <2>1. Sorted(result)' = Sorted(result)
      BY SameInput DEF Sorted
    <2> QED
      BY <1>1, <2>1, SameInput DEF ResultIsSerial
  <1> QED
    BY <1>2, <1>3, <1>4

\* What a shard's queue holds besides its head.
LEMMA QueueTail ==
  ASSUME NEW q \in Seq(Paths), q # <<>>, \A i, j \in DOMAIN q : q[i] = q[j] => i = j
  PROVE  /\ Head(q) \in Paths /\ Tail(q) \in Seq(Paths) /\ Head(q) \in ToSet(q)
         /\ ToSet(Tail(q)) = ToSet(q) \ {Head(q)}
         /\ \A i, j \in DOMAIN Tail(q) : Tail(q)[i] = Tail(q)[j] => i = j
  <1>1. /\ Head(q) = q[1] /\ Head(q) \in Paths /\ Tail(q) \in Seq(Paths)
        /\ DOMAIN q = 1 .. Len(q) /\ Len(q) \in Nat \ {0} /\ 1 \in DOMAIN q
        /\ DOMAIN Tail(q) = 1 .. Len(q) - 1
        /\ \A i \in DOMAIN Tail(q) : i + 1 \in DOMAIN q /\ Tail(q)[i] = q[i + 1]
        /\ \A i \in DOMAIN q : i # 1 => i - 1 \in DOMAIN Tail(q) /\ Tail(q)[i - 1] = q[i]
    BY ItemTail
  <1>2. \A i \in DOMAIN Tail(q) : i \in Int /\ i + 1 # 1
    BY <1>1
  <1>3. ToSet(Tail(q)) = ToSet(q) \ {Head(q)}
    <2>1. \A i \in DOMAIN Tail(q) : Tail(q)[i] \in ToSet(q) /\ Tail(q)[i] # q[1]
      BY <1>1, <1>2 DEF ToSet
    <2>2. ASSUME NEW i \in DOMAIN q, q[i] # q[1]
          PROVE  q[i] \in ToSet(Tail(q))
      <3> DEFINE r == Tail(q)
      <3>1. i # 1
        BY <2>2
      <3>2. i - 1 \in DOMAIN r /\ r[i - 1] = q[i]
        BY <1>1, <3>1
      <3> HIDE DEF r
      <3>3. r[i - 1] \in ToSet(r)
        BY <3>2 DEF ToSet
      <3> QED
        BY <3>2, <3>3 DEF r
    <2> QED
      BY <1>1, <2>1, <2>2 DEF ToSet
  <1>4. Head(q) \in ToSet(q)
    BY <1>1 DEF ToSet
  <1>5. \A i, j \in DOMAIN Tail(q) : Tail(q)[i] = Tail(q)[j] => i = j
    BY <1>1, <1>2
  <1> QED
    BY <1>1, <1>3, <1>4, <1>5

\* A shard answers for the first file of its queue, or fails on it.
LEMMA AnswerStep ==
  ASSUME IInv, NEW s \in Shards, Answer(s)
  PROVE  IInv'
  <1> DEFINE f == Head(queue[s])
             it == [path |-> f, found |-> Resolved(f)]
  <1>1. /\ input' = input /\ cache' = cache /\ phase' = phase /\ todo' = todo
        /\ excluded' = excluded /\ channel' = channel /\ buffered' = buffered
        /\ next' = next /\ loads' = loads /\ sent' = sent /\ slots' = slots
        /\ senders' = senders /\ failed' = failed
        /\ diagnostics' = diagnostics /\ result' = result
    BY DEF Answer
  <1>2. /\ shard[s] = "running" /\ queue[s] # <<>>
        /\ \/ /\ input[f].tyFails /\ shard' = [shard EXCEPT ![s] = "failed"]
              /\ queue' = [queue EXCEPT ![s] = <<>>] /\ answers' = answers
           \/ /\ ~input[f].tyFails /\ shard' = shard
              /\ queue' = [queue EXCEPT ![s] = Tail(@)] /\ answers' = Append(answers, it)
    BY DEF Answer
  <1>3. /\ Paths' = Paths /\ Diagnostic' = Diagnostic /\ Item' = Item /\ AllRebound' = AllRebound
        /\ ForTy' = ForTy
        /\ \A g : Good(g)' <=> Good(g)
        /\ \A g : Fatal(g)' <=> Fatal(g)
        /\ \A g : Resolved(g)' = Resolved(g)
        /\ \A g, x : Scan(g, x)' = Scan(g, x)
        /\ \A files : Weight(files)' = Weight(files)
        /\ \A files : Dealt(files)' = Dealt(files)
    BY <1>1, SameInput
  <1>4. Misses' = Misses /\ Cached' = Cached
    BY <1>1, SameProject
  <1>5. /\ TypeOK /\ NothingSent /\ RebindingsKnown /\ EachInOnePlace /\ ScansAreComplete
        /\ ReleasedInOrder /\ DealtGreedily /\ AnsweredOnce /\ NoneIsLost /\ input \in Inputs
        /\ queue \in [Shards -> Seq(Paths)] /\ answers \in Seq(Item)
        /\ shard \in [Shards -> {"running", "failed", "ended"}]
    BY DEF IInv, TypeOK
  <1>6. queue[s] \in Seq(Paths) /\ f \in Paths /\ Tail(queue[s]) \in Seq(Paths)
    BY <1>2, <1>5, ItemTail
  <1>7. it \in Item /\ it.path = f /\ it.found = Resolved(f)
    <2>1. /\ Resolved(f) \in Seq(Of(f, 1 .. Lines, {"KW001"}))
          /\ Seq(Of(f, 1 .. Lines, {"KW001"})) \subseteq Seq(Diagnostic)
      BY <1>5, <1>6, ScanType, OfFile
    <2> QED
      BY <1>6, <2>1 DEF Item
  <1> HIDE DEF it, f
  <1>8. TypeOK'
    <2>1. queue' \in [Shards -> Seq(Paths)]
      BY <1>2, <1>5, <1>6, EmptySeq
    <2>2. shard' \in [Shards -> {"running", "failed", "ended"}]
      BY <1>2, <1>5
    <2>3. answers' \in Seq(Item)
      <3>1. Append(answers, it) \in Seq(Item)
        BY <1>5, <1>7, AppendProperties
      <3>2. answers' = answers \/ answers' = Append(answers, it)
        BY <1>2
      <3> QED
        BY <1>3, <1>5, <3>1, <3>2
    <2> QED
      BY <1>1, <1>3, <1>4, <1>5, <2>1, <2>2, <2>3 DEF TypeOK, Ended
  <1>9. phase \notin {"open", "discover"}
    BY <1>2, <1>5 DEF NothingSent
  <1>10. NothingSent'
    BY <1>1, <1>9 DEF NothingSent
  <1>11. RebindingsKnown'
    BY <1>1, <1>3, <1>5 DEF RebindingsKnown, Streaming
  <1>12. EachInOnePlace'
    <2>1. Later' = Later /\ Arriving' = Arriving /\ Held' = Held /\ (Streaming' <=> Streaming)
      BY <1>1, <1>4 DEF Later, Arriving, Held, Streaming
    <2> QED
      BY <1>1, <1>4, <1>5, <2>1 DEF EachInOnePlace
  <1>13. ScansAreComplete'
    BY <1>1, <1>3, <1>4, <1>5 DEF ScansAreComplete, Streaming
  <1>14. ReleasedInOrder'
    BY <1>1, <1>3, <1>4, <1>5 DEF ReleasedInOrder, Released, Streaming
  <1>15. DealtGreedily'
    BY <1>1, <1>3, <1>5 DEF DealtGreedily, Streaming
  <1>16. AnsweredOnce' /\ NoneIsLost'
    <2> SUFFICES ASSUME Streaming
                 PROVE  AnsweredOnce' /\ NoneIsLost'
      BY <1>1 DEF AnsweredOnce, NoneIsLost, Streaming
    <2>0. Streaming'
      BY <1>1 DEF Streaming
    <2>1. /\ \A t \in Shards :
              /\ ToSet(queue[t]) \subseteq ToSet(slots) \ Answered
              /\ \A i, j \in DOMAIN queue[t] : queue[t][i] = queue[t][j] => i = j
              /\ \A u \in Shards : t # u => ToSet(queue[t]) \cap ToSet(queue[u]) = {}
          /\ Answered \subseteq ToSet(slots)
          /\ \A i, j \in DOMAIN answers : answers[i].path = answers[j].path => i = j
          /\ \A j \in DOMAIN answers :
                answers[j].found = Resolved(answers[j].path) /\ ~input[answers[j].path].tyFails
      BY <1>5 DEF AnsweredOnce
    <2>2. /\ failed => \E g \in Paths : input[g].kind = "failing"
          /\ \A t \in Shards :
                /\ shard[t] = "failed" => \E g \in Paths : Fatal(g)
                /\ queue[t] # <<>> => shard[t] = "running"
                /\ shard[t] = "ended" => ~senders
          /\ failed \/ ShardFailed
                \/ ToSet(slots) \subseteq Answered \cup UNION {ToSet(queue[t]) : t \in Shards}
          /\ phase = "scan" => failed \/ senders
      BY <1>5 DEF NoneIsLost
    <2>3. /\ f \in ToSet(queue[s]) /\ ToSet(Tail(queue[s])) = ToSet(queue[s]) \ {f}
          /\ \A i, j \in DOMAIN Tail(queue[s]) : Tail(queue[s])[i] = Tail(queue[s])[j] => i = j
      <3> DEFINE q == queue[s]
      <3>1. /\ q \in Seq(Paths) /\ q # <<>>
            /\ \A i, j \in DOMAIN q : q[i] = q[j] => i = j
        BY <1>2, <1>6, <2>1
      <3> HIDE DEF q
      <3>2. /\ Head(q) \in ToSet(q) /\ ToSet(Tail(q)) = ToSet(q) \ {Head(q)}
            /\ \A i, j \in DOMAIN Tail(q) : Tail(q)[i] = Tail(q)[j] => i = j
        BY <3>1, QueueTail
      <3> QED
        BY <3>2 DEF q, f
    <2>4. f \in ToSet(slots) /\ f \notin Answered
      BY <2>1, <2>3
    <2>5. f \in ForTy
      <3>1. ToSet(slots) = ToSet(Released) \cap ForTy
        <4>1. Released \in Seq(Paths)
          <5>1. Misses \in Seq(Paths) /\ Len(Misses) \in Nat /\ next \in 1 .. Len(Misses) + 1
            BY <1>5, MissesFacts DEF TypeOK, Ended, Streaming
          <5>2. next - 1 \in Nat /\ \A i \in 1 .. next - 1 : Misses[i] \in Paths
            BY <5>1, ElementOfSeq
          <5> QED
            BY <5>1, <5>2, SubSeqProperties DEF Released
        <4>2. slots = Only(Released, ForTy)
          BY <1>5 DEF ReleasedInOrder
        <4> QED
          BY <4>1, <4>2, OnlyElements
      <3> QED
        BY <2>4, <3>1
    <2>6. CASE input[f].tyFails
      <3>1. /\ answers' = answers /\ shard'[s] = "failed" /\ queue'[s] = <<>>
            /\ \A t \in Shards : t # s => shard'[t] = shard[t] /\ queue'[t] = queue[t]
        BY <1>2, <1>5, <2>6
      <3>2. Fatal(f)
        BY <2>5, <2>6 DEF Fatal
      <3>3. Answered' = Answered /\ ShardFailed'
        BY <3>1 DEF Answered, ShardFailed
      <3>4. NoneIsLost'
        <4>1. \A t \in Shards :
                /\ shard'[t] = "failed" => \E g \in Paths : Fatal(g)
                /\ queue'[t] # <<>> => shard'[t] = "running"
                /\ shard'[t] = "ended" => ~senders
          BY <1>6, <2>2, <3>1, <3>2
        <4> QED
          BY <1>1, <1>3, <2>2, <3>3, <4>1 DEF NoneIsLost
      <3>5. AnsweredOnce'
        <4>1. ToSet(queue'[s]) = {} /\ DOMAIN queue'[s] = {}
          BY <3>1, ToSetEmpty
        <4>2. \A t \in Shards :
              /\ ToSet(queue'[t]) \subseteq ToSet(slots) \ Answered
              /\ \A i, j \in DOMAIN queue'[t] : queue'[t][i] = queue'[t][j] => i = j
              /\ \A u \in Shards : t # u => ToSet(queue'[t]) \cap ToSet(queue'[u]) = {}
          BY <2>1, <3>1, <4>1
        <4> QED
          BY <1>1, <1>3, <2>1, <3>1, <3>3, <4>2 DEF AnsweredOnce
      <3> QED
        BY <3>4, <3>5
    <2>7. CASE ~input[f].tyFails
      <3>1. /\ answers' = Append(answers, it) /\ shard' = shard /\ queue'[s] = Tail(queue[s])
            /\ \A t \in Shards : t # s => queue'[t] = queue[t]
        BY <1>2, <1>5, <2>7
      <3>2. /\ DOMAIN answers = 1 .. Len(answers) /\ Len(answers) \in Nat
            /\ \A i \in DOMAIN answers : i \in DOMAIN answers' /\ answers'[i] = answers[i]
            /\ answers'[Len(answers) + 1] = it /\ Len(answers) + 1 \in DOMAIN answers'
            /\ \A i \in DOMAIN answers' : i \in DOMAIN answers \/ i = Len(answers) + 1
        BY <1>5, <1>7, <3>1, ItemAppend
      <3>3. Answered' = Answered \cup {f} /\ (ShardFailed' <=> ShardFailed)
        BY <1>7, <3>1, <3>2 DEF Answered, ShardFailed
      <3>4. ToSet(queue'[s]) = ToSet(queue[s]) \ {f}
        BY <2>3, <3>1
      <3>5. NoneIsLost'
        <4>1. \A t \in Shards : queue'[t] # <<>> => shard'[t] = "running"
          BY <1>2, <2>2, <3>1
        <4>2. \A t \in Shards : ToSet(queue[t]) \subseteq ToSet(queue'[t]) \cup {f}
          BY <3>1, <3>4
        <4>3. failed \/ ShardFailed'
                 \/ \A x \in ToSet(slots) : x \in Answered' \/ \E t \in Shards : x \in ToSet(queue'[t])
          <5> SUFFICES ASSUME ~failed, ~ShardFailed, NEW x \in ToSet(slots), x \notin Answered'
                       PROVE  \E t \in Shards : x \in ToSet(queue'[t])
            BY <3>3
          <5>1. PICK t \in Shards : x \in ToSet(queue[t])
            BY <2>2, <3>3
          <5>2. x # f
            BY <3>3
          <5> QED
            BY <4>2, <5>1, <5>2
        <4>4. failed \/ ShardFailed'
                 \/ ToSet(slots) \subseteq Answered' \cup UNION {ToSet(queue'[t]) : t \in Shards}
          BY <4>3
        <4>5. \A t \in Shards :
                /\ shard'[t] = "failed" => \E g \in Paths : Fatal(g)
                /\ shard'[t] = "ended" => ~senders
          BY <2>2, <3>1
        <4> QED
          BY <1>1, <1>3, <2>2, <4>1, <4>4, <4>5 DEF NoneIsLost
      <3>6. AnsweredOnce'
        <4>1. \A t \in Shards : f \in ToSet(queue[t]) => t = s
          BY <2>1, <2>3
        <4>2. \A t \in Shards : ToSet(queue'[t]) \subseteq ToSet(queue[t]) /\ f \notin ToSet(queue'[t])
          BY <3>1, <3>4, <4>1
        <4>3. \A t \in Shards :
              /\ ToSet(queue'[t]) \subseteq ToSet(slots) \ Answered'
              /\ \A u \in Shards : t # u => ToSet(queue'[t]) \cap ToSet(queue'[u]) = {}
          BY <2>1, <3>3, <4>2
        <4>4. \A t \in Shards :
                \A i, j \in DOMAIN queue'[t] : queue'[t][i] = queue'[t][j] => i = j
          BY <2>1, <2>3, <3>1
        <4>5. ASSUME NEW i \in DOMAIN answers', NEW j \in DOMAIN answers',
                     answers'[i].path = answers'[j].path
              PROVE  i = j
          <5>1. \A k \in DOMAIN answers : answers'[k].path # f
            BY <2>4, <3>2 DEF Answered
          <5>2. answers'[Len(answers) + 1].path = f
            BY <1>7, <3>2
          <5>3. CASE i \in DOMAIN answers /\ j \in DOMAIN answers
            BY <2>1, <3>2, <4>5, <5>3
          <5> QED
            BY <3>2, <4>5, <5>1, <5>2, <5>3
        <4>6. \A j \in DOMAIN answers' :
                 answers'[j].found = Resolved(answers'[j].path) /\ ~input[answers'[j].path].tyFails
          BY <1>7, <2>1, <2>7, <3>2
        <4>7. Answered' \subseteq ToSet(slots)
          BY <2>1, <2>4, <3>3
        <4> QED
          BY <1>1, <1>3, <4>3, <4>4, <4>5, <4>6, <4>7 DEF AnsweredOnce
      <3> QED
        BY <3>5, <3>6
    <2> QED
      BY <2>6, <2>7
  <1>17. CachedAreGood' /\ CacheHoldsSerial' /\ ErrorsAreNeverSwallowed' /\ ResultIsSerial'
    BY <1>1, SamePromises
  <1> QED
    BY <1>8, <1>10, <1>11, <1>12, <1>13, <1>14, <1>15, <1>16, <1>17 DEF IInv

\* A shard ends when its channel is closed and its queue is empty.
LEMMA EndShardStep ==
  ASSUME IInv, NEW s \in Shards, EndShard(s)
  PROVE  IInv'
  <1>1. /\ input' = input /\ cache' = cache /\ phase' = phase /\ todo' = todo
        /\ excluded' = excluded /\ channel' = channel /\ buffered' = buffered
        /\ next' = next /\ loads' = loads /\ sent' = sent /\ slots' = slots
        /\ senders' = senders /\ failed' = failed /\ queue' = queue /\ answers' = answers
        /\ diagnostics' = diagnostics /\ result' = result
    BY DEF EndShard
  <1>2. /\ shard[s] = "running" /\ queue[s] = <<>> /\ ~senders
        /\ shard' = [shard EXCEPT ![s] = "ended"]
    BY DEF EndShard
  <1>3. /\ Paths' = Paths /\ Diagnostic' = Diagnostic /\ Item' = Item /\ AllRebound' = AllRebound
        /\ ForTy' = ForTy
        /\ \A g : Good(g)' <=> Good(g)
        /\ \A g : Fatal(g)' <=> Fatal(g)
        /\ \A g : Resolved(g)' = Resolved(g)
        /\ \A g, x : Scan(g, x)' = Scan(g, x)
        /\ \A files : Weight(files)' = Weight(files)
        /\ \A files : Dealt(files)' = Dealt(files)
    BY <1>1, SameInput
  <1>4. Misses' = Misses /\ Cached' = Cached
    BY <1>1, SameProject
  <1>5. /\ TypeOK /\ NothingSent /\ RebindingsKnown /\ EachInOnePlace /\ ScansAreComplete
        /\ ReleasedInOrder /\ DealtGreedily /\ AnsweredOnce /\ NoneIsLost
        /\ shard \in [Shards -> {"running", "failed", "ended"}]
    BY DEF IInv, TypeOK
  <1>6. shard' \in [Shards -> {"running", "failed", "ended"}]
    BY <1>2, <1>5
  <1>7. TypeOK'
    BY <1>1, <1>3, <1>4, <1>5, <1>6 DEF TypeOK, Ended
  <1>8. NothingSent'
    BY <1>1, <1>2, <1>5 DEF NothingSent
  <1>9. RebindingsKnown'
    BY <1>1, <1>3, <1>5 DEF RebindingsKnown, Streaming
  <1>10. EachInOnePlace'
    <2>1. Later' = Later /\ Arriving' = Arriving /\ Held' = Held /\ (Streaming' <=> Streaming)
      BY <1>1, <1>4 DEF Later, Arriving, Held, Streaming
    <2> QED
      BY <1>1, <1>4, <1>5, <2>1 DEF EachInOnePlace
  <1>11. ScansAreComplete'
    BY <1>1, <1>3, <1>4, <1>5 DEF ScansAreComplete, Streaming
  <1>12. ReleasedInOrder'
    BY <1>1, <1>3, <1>4, <1>5 DEF ReleasedInOrder, Released, Streaming
  <1>13. DealtGreedily'
    BY <1>1, <1>3, <1>5 DEF DealtGreedily, Streaming
  <1>14. AnsweredOnce'
    BY <1>1, <1>3, <1>5 DEF AnsweredOnce, Answered, Streaming
  <1>15. NoneIsLost'
    <2> SUFFICES ASSUME Streaming
                 PROVE  NoneIsLost'
      BY <1>1 DEF NoneIsLost, Streaming
    <2>1. \A t \in Shards : shard'[t] = IF t = s THEN "ended" ELSE shard[t]
      BY <1>2, <1>5
    <2>2. (ShardFailed' <=> ShardFailed) /\ Answered' = Answered
      BY <1>1, <1>2, <2>1 DEF ShardFailed, Answered
    <2>3. \A t \in Shards :
                /\ shard'[t] = "failed" => \E g \in Paths : Fatal(g)
                /\ queue[t] # <<>> => shard'[t] = "running"
                /\ shard'[t] = "ended" => ~senders
      BY <1>2, <1>5, <2>1 DEF NoneIsLost
    <2> QED
      BY <1>1, <1>3, <1>5, <2>2, <2>3 DEF NoneIsLost, Streaming
  <1>16. CachedAreGood' /\ CacheHoldsSerial' /\ ErrorsAreNeverSwallowed' /\ ResultIsSerial'
    BY <1>1, SamePromises
  <1> QED
    BY <1>7, <1>8, <1>9, <1>10, <1>11, <1>12, <1>13, <1>14, <1>15, <1>16 DEF IInv

(***************************************************************************)
(* The end of the check                                                    *)
(***************************************************************************)
\* When the check succeeds everything was released and answered.
LEMMA AllIsKnown ==
  ASSUME IInv, phase = "collect", \A s \in Shards : shard[s] # "running", ~failed, ~ShardFailed
  PROVE  /\ next = Len(Misses) + 1 /\ Released = Misses
         /\ slots = Only(Misses, ForTy) /\ slots \in Seq(Paths) /\ Distinct(slots)
         /\ ToSet(slots) = (Paths \ DOMAIN cache) \cap ForTy
         /\ ToSet(slots) = Answered
         /\ \A f \in Paths \ DOMAIN cache : input[f].kind # "failing"
         /\ \A f \in ToSet(slots) : ~input[f].tyFails
  <1>1. /\ input \in Inputs /\ Streaming /\ EachInOnePlace /\ ScansAreComplete
        /\ ReleasedInOrder /\ AnsweredOnce /\ NoneIsLost
    BY DEF IInv, TypeOK, Streaming
  <1>2. /\ Misses \in Seq(Paths) /\ Len(Misses) \in Nat /\ Distinct(Misses)
        /\ ToSet(Misses) = Paths \ DOMAIN cache /\ DOMAIN Misses = 1 .. Len(Misses)
    BY <1>1, MissesFacts
  <1>3. next = Len(Misses) + 1
    BY <1>1 DEF EachInOnePlace
  <1>4. Released = Misses
    <2>1. next - 1 = Len(Misses)
      BY <1>2, <1>3
    <2> QED
      BY <1>2, <2>1, SubSeqFull DEF Released
  <1>5. slots = Only(Misses, ForTy)
    BY <1>1, <1>4 DEF ReleasedInOrder
  <1>6. slots \in Seq(Paths) /\ Distinct(slots) /\ ToSet(slots) = (Paths \ DOMAIN cache) \cap ForTy
    BY <1>2, <1>5, OnlyType, OnlyDistinct, OnlyElements
  <1>7. ToSet(slots) = Answered
    <2>1. \A s \in Shards : ToSet(queue[s]) = {}
      BY <1>1, ToSetEmpty DEF NoneIsLost
    <2>2. Answered \subseteq ToSet(slots)
      BY <1>1 DEF AnsweredOnce
    <2>3. \A f \in ToSet(slots) : f \in Answered \/ \E s \in Shards : f \in ToSet(queue[s])
      BY <1>1 DEF NoneIsLost
    <2> QED
      BY <2>1, <2>2, <2>3
  <1>8. \A f \in Paths \ DOMAIN cache : input[f].kind # "failing"
    <2>1. \A k \in 1 .. Len(Misses) : input[Misses[k]].kind # "failing"
      BY <1>1, <1>2, <1>3 DEF ScansAreComplete
    <2> QED
      BY <1>2, <2>1 DEF ToSet
  <1>9. \A f \in ToSet(slots) : ~input[f].tyFails
    BY <1>1, <1>7 DEF AnsweredOnce, Answered
  <1> QED
    BY <1>3, <1>4, <1>5, <1>6, <1>7, <1>8, <1>9

\* What the shards found for one slot.
AnswersFor(f) ==
  FlattenSeq([j \in DOMAIN answers |-> IF answers[j].path = f THEN answers[j].found ELSE <<>>])

\* The answers to a file answered are what ty resolves for it.
LEMMA SlotAnswer ==
  ASSUME IInv, Streaming, NEW f \in Answered
  PROVE  AnswersFor(f) = Resolved(f)
  <1> DEFINE ss == [j \in DOMAIN answers |-> IF answers[j].path = f THEN answers[j].found ELSE <<>>]
             N == Len(answers)
  <1>1. /\ answers \in Seq(Item) /\ AnsweredOnce
    BY DEF IInv, TypeOK
  <1>2. DOMAIN answers = 1 .. N /\ N \in Nat
    BY <1>1, LenProperties
  <1>3. \A j \in 1 .. N : answers[j] \in Item
    BY <1>1, ElementOfSeq
  <1>4. ss \in [1 .. N -> Seq(Diagnostic)]
    <2>1. \A j \in 1 .. N : answers[j].found \in Seq(Diagnostic)
      BY <1>3 DEF Item
    <2> QED
      BY <1>2, <2>1, EmptySeq
  <1>5. ss \in Seq(Seq(Diagnostic)) /\ Len(ss) = N
    <2> HIDE DEF ss, N
    <2> QED
      BY <1>2, <1>4, FcnIsSeq
  <1>6. PICK k \in 1 .. N : answers[k].path = f
    BY <1>2 DEF Answered
  <1>7. \A j \in 1 .. N : j # k => answers[j].path # f
    BY <1>1, <1>2, <1>6 DEF AnsweredOnce
  <1>8. ss[k] = Resolved(f) /\ \A j \in 1 .. N : j # k => ss[j] = <<>>
    BY <1>1, <1>2, <1>6, <1>7 DEF AnsweredOnce
  <1>9. FlattenSeq(ss) = ss[k]
    <2> HIDE DEF ss
    <2>1. k \in 1 .. Len(ss) /\ \A j \in 1 .. Len(ss) : j # k => ss[j] = <<>>
      BY <1>5, <1>6, <1>8
    <2> QED
      BY <1>5, <2>1, FlattenOne
  <1> QED
    BY <1>8, <1>9 DEF AnswersFor

\* What the shards found, file by file.
LEMMA SlotsFacts ==
  ASSUME IInv, Streaming, Distinct(slots), ToSet(slots) = Answered
  PROVE  /\ SlotDiagnostics \in Seq(Diagnostic)
         /\ \A f \in ToSet(slots) : Only(SlotDiagnostics, AllOf(f)) = Resolved(f)
         /\ \A f \in Paths \ ToSet(slots) : Only(SlotDiagnostics, AllOf(f)) = <<>>
  <1> DEFINE ss == [i \in 1 .. Len(slots) |-> Resolved(slots[i])]
  <1>1. input \in Inputs /\ slots \in Seq(Paths)
    BY DEF IInv, TypeOK
  <1>2. DOMAIN slots = 1 .. Len(slots) /\ Len(slots) \in Nat
    BY <1>1, LenProperties
  <1>3. \A i \in 1 .. Len(slots) : slots[i] \in Answered /\ slots[i] \in Paths
    BY <1>1, <1>2, ElementOfSeq DEF ToSet
  <1>4. SlotDiagnostics = FlattenSeq(ss)
    <2>1. SlotDiagnostics = FlattenSeq([i \in DOMAIN slots |-> AnswersFor(slots[i])])
      BY DEF SlotDiagnostics, AnswersFor
    <2>2. \A i \in 1 .. Len(slots) : AnswersFor(slots[i]) = Resolved(slots[i])
      BY <1>3, SlotAnswer
    <2>3. [i \in DOMAIN slots |-> AnswersFor(slots[i])] = ss
      BY <1>2, <2>2
    <2> QED
      BY <2>1, <2>3
  <1>5. \A i \in 1 .. Len(slots) : ss[i] \in Seq(AllOf(slots[i]))
    <2> TAKE i \in 1 .. Len(slots)
    <2>1. Resolved(slots[i]) \in Seq(KW1(slots[i]))
      BY <1>1, <1>3, ScanType DEF KW1
    <2>2. Seq(KW1(slots[i])) \subseteq Seq(AllOf(slots[i]))
      BY <1>3, CodeFacts
    <2> QED
      BY <2>1, <2>2
  <1>6. DOMAIN ss = 1 .. Len(slots) /\ ss = [i \in 1 .. Len(slots) |-> ss[i]]
        /\ \A i \in 1 .. Len(slots) : ss[i] = Resolved(slots[i])
    OBVIOUS
  <1> HIDE DEF ss
  <1>7. /\ FlattenSeq(ss) \in Seq(Diagnostic)
        /\ \A i \in 1 .. Len(slots) : Only(FlattenSeq(ss), AllOf(slots[i])) = ss[i]
        /\ \A f \in Paths : f \notin ToSet(slots) => Only(FlattenSeq(ss), AllOf(f)) = <<>>
    BY <1>1, <1>5, <1>6, FlattenOwn
  <1>8. ASSUME NEW f \in ToSet(slots)
        PROVE  Only(SlotDiagnostics, AllOf(f)) = Resolved(f)
    <2>1. PICK i \in 1 .. Len(slots) : f = slots[i]
      BY <1>2 DEF ToSet
    <2>2. Only(FlattenSeq(ss), AllOf(slots[i])) = Resolved(slots[i])
      BY <1>6, <1>7
    <2> QED
      BY <1>4, <2>1, <2>2
  <1> QED
    BY <1>4, <1>7, <1>8

\* What the scans found, file by file.
LEMMA ScansFacts ==
  ASSUME input \in Inputs
  PROVE  LET found == FlattenSeq([k \in 1 .. Len(Misses) |->
                          IF Good(Misses[k]) THEN Scan(Misses[k], AllRebound) ELSE <<>>])
         IN /\ found \in Seq(Diagnostic)
            /\ \A f \in Paths \ DOMAIN cache :
                  Only(found, AllOf(f)) = IF Good(f) THEN Scan(f, AllRebound) ELSE <<>>
            /\ \A f \in DOMAIN cache : f \in Paths => Only(found, AllOf(f)) = <<>>
  <1> DEFINE of(f) == IF Good(f) THEN Scan(f, AllRebound) ELSE <<>>
             ss == [k \in 1 .. Len(Misses) |-> of(Misses[k])]
  <1>1. /\ Misses \in Seq(Paths) /\ Len(Misses) \in Nat /\ Distinct(Misses)
        /\ ToSet(Misses) = Paths \ DOMAIN cache /\ DOMAIN Misses = 1 .. Len(Misses)
    BY MissesFacts
  <1>2. \A k \in 1 .. Len(Misses) : ss[k] \in Seq(AllOf(Misses[k]))
    <2> TAKE k \in 1 .. Len(Misses)
    <2>1. Misses[k] \in Paths
      BY <1>1, ElementOfSeq
    <2>2. Scan(Misses[k], AllRebound) \in Seq(KW1(Misses[k]))
      BY <2>1, ScanType DEF KW1
    <2>3. Seq(KW1(Misses[k])) \subseteq Seq(AllOf(Misses[k]))
      BY <2>1, CodeFacts
    <2> QED
      BY <2>2, <2>3, EmptySeq
  <1>3. DOMAIN ss = 1 .. Len(Misses) /\ ss = [k \in 1 .. Len(Misses) |-> ss[k]]
        /\ \A k \in 1 .. Len(Misses) : ss[k] = of(Misses[k])
    OBVIOUS
  <1>4. /\ FlattenSeq(ss) \in Seq(Diagnostic)
        /\ \A k \in 1 .. Len(Misses) : Only(FlattenSeq(ss), AllOf(Misses[k])) = ss[k]
        /\ \A f \in Paths : f \notin ToSet(Misses) => Only(FlattenSeq(ss), AllOf(f)) = <<>>
    <2> HIDE DEF ss, of
    <2> QED
      BY <1>1, <1>2, <1>3, FlattenOwn
  <1>5. ASSUME NEW f \in Paths \ DOMAIN cache
        PROVE  Only(FlattenSeq(ss), AllOf(f)) = of(f)
    <2>1. PICK k \in 1 .. Len(Misses) : f = Misses[k]
      BY <1>1 DEF ToSet
    <2> HIDE DEF ss, of
    <2>2. Only(FlattenSeq(ss), AllOf(Misses[k])) = of(Misses[k])
      BY <1>3, <1>4
    <2> QED
      BY <2>1, <2>2
  <1> QED
    BY <1>1, <1>4, <1>5

\* What is known when all is found is what the serial check of a file finds
\* before its noqa directives.
LEMMA AllIsFound ==
  ASSUME IInv, phase = "collect", \A s \in Shards : shard[s] # "running", ~failed, ~ShardFailed
  PROVE  LET ds == diagnostics \o SlotDiagnostics
         IN /\ ds \in Seq(Diagnostic)
            /\ \A f \in Paths \ DOMAIN cache :
                  Only(ds, AllOf(f)) =
                     IF Good(f) THEN Scan(f, AllRebound) \o Resolved(f) ELSE <<>>
            /\ \A f \in DOMAIN cache : Only(ds, AllOf(f)) = cache[f]
  <1> DEFINE found == FlattenSeq([k \in 1 .. Len(Misses) |->
                          IF Good(Misses[k]) THEN Scan(Misses[k], AllRebound) ELSE <<>>])
             sd == SlotDiagnostics
             ds == diagnostics \o sd
  <1>1. /\ input \in Inputs /\ DOMAIN cache \subseteq Paths /\ CacheHoldsSerial /\ Streaming
        /\ diagnostics \in Seq(Diagnostic) /\ ReleasedInOrder
    BY DEF IInv, TypeOK, Streaming
  <1>2. /\ next = Len(Misses) + 1 /\ Distinct(slots)
        /\ ToSet(slots) = (Paths \ DOMAIN cache) \cap ForTy /\ ToSet(slots) = Answered
    BY AllIsKnown
  <1>3. /\ sd \in Seq(Diagnostic)
        /\ \A f \in ToSet(slots) : Only(sd, AllOf(f)) = Resolved(f)
        /\ \A f \in Paths \ ToSet(slots) : Only(sd, AllOf(f)) = <<>>
    BY <1>1, <1>2, SlotsFacts
  <1>4. /\ found \in Seq(Diagnostic)
        /\ \A f \in Paths \ DOMAIN cache :
              Only(found, AllOf(f)) = IF Good(f) THEN Scan(f, AllRebound) ELSE <<>>
        /\ \A f \in DOMAIN cache : Only(found, AllOf(f)) = <<>>
    BY <1>1, ScansFacts
  <1>5. diagnostics = Cached \o found
    <2>1. Len(Misses) \in Nat
      BY <1>1, MissesFacts
    <2>2. next - 1 = Len(Misses)
      BY <1>2, <2>1
    <2> QED
      BY <1>1, <2>2 DEF ReleasedInOrder
  <1>6. /\ Cached \in Seq(Diagnostic)
        /\ \A f \in DOMAIN cache : Only(Cached, AllOf(f)) = cache[f] /\ cache[f] \in Seq(AllOf(f))
        /\ \A f \in Paths \ DOMAIN cache : Only(Cached, AllOf(f)) = <<>>
    BY <1>1, CachedFacts
  <1>7. ds \in Seq(Diagnostic)
    BY <1>1, <1>3, ConcatProperties
  <1> HIDE DEF found, sd
  <1>8. ASSUME NEW f \in Paths
        PROVE  Only(ds, AllOf(f)) =
                 (Only(Cached, AllOf(f)) \o Only(found, AllOf(f))) \o Only(sd, AllOf(f))
    <2>1. Only(diagnostics, AllOf(f)) = Only(Cached, AllOf(f)) \o Only(found, AllOf(f))
      BY <1>4, <1>5, <1>6, OnlyConcat
    <2>2. Only(ds, AllOf(f)) = Only(diagnostics, AllOf(f)) \o Only(sd, AllOf(f))
      BY <1>1, <1>3, OnlyConcat
    <2> QED
      BY <2>1, <2>2
  <1>9. ASSUME NEW f \in Paths \ DOMAIN cache
        PROVE  Only(ds, AllOf(f)) =
                 IF Good(f) THEN Scan(f, AllRebound) \o Resolved(f) ELSE <<>>
    <2>1. /\ Scan(f, AllRebound) \in Seq(KW1(f)) /\ Resolved(f) \in Seq(KW1(f))
          /\ input[f].weight = 0 => Resolved(f) = <<>>
      BY <1>1, ScanType DEF KW1
    <2>2. Only(Cached, AllOf(f)) = <<>>
      BY <1>6
    <2>3. CASE ~Good(f)
      <3>1. f \notin ToSet(slots)
        BY <1>2, <2>3 DEF ForTy
      <3>2. Only(found, AllOf(f)) = <<>> /\ Only(sd, AllOf(f)) = <<>>
        BY <1>3, <1>4, <2>3, <3>1
      <3>3. (<<>> \o <<>>) \o <<>> = <<>>
        OBVIOUS
      <3> QED
        BY <1>8, <2>2, <2>3, <3>2, <3>3
    <2>4. CASE Good(f)
      <3>1. Only(found, AllOf(f)) = Scan(f, AllRebound)
        BY <1>4, <2>4
      <3>2. Only(sd, AllOf(f)) = Resolved(f)
        <4>1. CASE f \in ForTy
          BY <1>2, <1>3, <4>1
        <4>2. CASE f \notin ForTy
          <5>1. input[f].weight \in Nat
            BY <1>1, InputFacts, FileFacts
          <5>2. input[f].weight = 0
            BY <2>4, <4>2, <5>1 DEF ForTy
          <5>3. f \notin ToSet(slots)
            BY <1>2, <4>2
          <5> QED
            BY <1>3, <2>1, <5>2, <5>3
        <4> QED
          BY <4>1, <4>2
      <3>3. <<>> \o Scan(f, AllRebound) = Scan(f, AllRebound)
        BY <2>1, ConcatEmptySeq
      <3> QED
        BY <1>8, <2>2, <2>4, <3>1, <3>2, <3>3
    <2> QED
      BY <2>3, <2>4
  <1>10. ASSUME NEW f \in DOMAIN cache
         PROVE  Only(ds, AllOf(f)) = cache[f]
    <2>1. f \in Paths /\ f \notin ToSet(slots)
      BY <1>1, <1>2
    <2>2. Only(found, AllOf(f)) = <<>> /\ Only(sd, AllOf(f)) = <<>> /\ Only(Cached, AllOf(f)) = cache[f]
      BY <1>3, <1>4, <1>6, <2>1
    <2>3. cache[f] \in Seq(AllOf(f))
      BY <1>6
    <2>4. (cache[f] \o <<>>) \o <<>> = cache[f]
      BY <2>3, ConcatEmptySeq
    <2>5. Only(ds, AllOf(f)) =
                 (Only(Cached, AllOf(f)) \o Only(found, AllOf(f))) \o Only(sd, AllOf(f))
      BY <1>8, <2>1
    <2> QED
      BY <2>2, <2>4, <2>5
  <1> QED
    BY <1>7, <1>9, <1>10 DEF sd

\* The files whose results are judged and stored when the check succeeds.
LEMMA JudgedFacts ==
  ASSUME IInv, phase = "collect", \A s \in Shards : shard[s] # "running", ~failed, ~ShardFailed
  PROVE  LET scanned == Only(Misses, {f \in Paths : Good(f)})
             judged == ApplyNoqa(diagnostics \o SlotDiagnostics, scanned)
         IN /\ scanned \in Seq(Paths) /\ ToSet(scanned) = {f \in Paths \ DOMAIN cache : Good(f)}
            /\ judged \in Seq(Diagnostic) /\ Sorted(judged) = SerialResult
            /\ \A f \in ToSet(scanned) : Entry(judged, f) = Entry(Serial(f), f)
  <1> DEFINE good == {f \in Paths : Good(f)}
             scanned == Only(Misses, good)
             ds == diagnostics \o SlotDiagnostics
             judged == ApplyNoqa(ds, scanned)
  <1>1. input \in Inputs /\ DOMAIN cache \subseteq Paths /\ CacheHoldsSerial
    BY DEF IInv, TypeOK
  <1>2. /\ Misses \in Seq(Paths) /\ Distinct(Misses) /\ ToSet(Misses) = Paths \ DOMAIN cache
    BY <1>1, MissesFacts
  <1>3. /\ ds \in Seq(Diagnostic)
        /\ \A f \in Paths \ DOMAIN cache :
              Only(ds, AllOf(f)) = IF Good(f) THEN Scan(f, AllRebound) \o Resolved(f) ELSE <<>>
        /\ \A f \in DOMAIN cache : Only(ds, AllOf(f)) = cache[f]
    BY AllIsFound
  <1> HIDE DEF good
  <1>4. scanned \in Seq(Paths) /\ Distinct(scanned) /\ ToSet(scanned) = ToSet(Misses) \cap good
    BY <1>2, OnlyType, OnlyDistinct, OnlyElements
  <1>5. ToSet(scanned) = {f \in Paths \ DOMAIN cache : Good(f)}
    BY <1>2, <1>4 DEF good
  <1> HIDE DEF ds, scanned
  <1>6. judged \in Seq(Diagnostic)
    BY <1>1, <1>3, <1>4, ApplyNoqaType
  <1>7. /\ \A f \in ToSet(scanned) : Only(ds, AllOf(f)) = Scan(f, AllRebound) \o Resolved(f)
        /\ \A f \in Paths \ DOMAIN cache : ~Good(f) => Only(ds, AllOf(f)) = <<>>
    BY <1>3, <1>5
  <1>8. /\ Sorted(ApplyNoqa(ds, scanned)) = SerialResult
        /\ \A f \in ToSet(scanned) : Entry(ApplyNoqa(ds, scanned), f) = Entry(Serial(f), f)
    BY <1>1, <1>3, <1>4, <1>5, <1>7, JudgedIsSerial
  <1> QED
    BY <1>4, <1>5, <1>6, <1>8 DEF ds, scanned, good

\* The check ends, and keeps its promises.
LEMMA FinishStep ==
  ASSUME IInv, Finish
  PROVE  IInv'
  <1>1. /\ input' = input /\ todo' = todo /\ excluded' = excluded /\ channel' = channel
        /\ buffered' = buffered /\ next' = next /\ loads' = loads /\ sent' = sent
        /\ queue' = queue /\ shard' = shard /\ slots' = slots /\ answers' = answers
        /\ senders' = senders /\ failed' = failed
        /\ phase = "collect" /\ \A s \in Shards : shard[s] # "running"
    BY DEF Finish, channels
  <1>2. /\ Paths' = Paths /\ Diagnostic' = Diagnostic /\ Item' = Item /\ AllRebound' = AllRebound
        /\ SerialResult' = SerialResult
        /\ \A g : Good(g)' <=> Good(g)
        /\ \A g : Fatal(g)' <=> Fatal(g)
        /\ \A ds, g : Entry(ds, g)' = Entry(ds, g)
        /\ \A g : Serial(g)' = Serial(g)
    BY <1>1, SameInput
  <1>3. /\ TypeOK /\ NothingSent /\ RebindingsKnown /\ NoneIsLost /\ CachedAreGood
        /\ CacheHoldsSerial /\ input \in Inputs /\ Streaming /\ DOMAIN cache \subseteq Paths
    BY <1>1 DEF IInv, TypeOK, Streaming
  <1>4. phase' \in {"done", "error"}
    BY DEF Finish
  <1>5. NothingSent' /\ ~Streaming' /\ Ended'
    BY <1>4 DEF NothingSent, Streaming, Ended
  <1>6. RebindingsKnown'
    BY <1>1, <1>2, <1>3, <1>4, <1>5 DEF RebindingsKnown
  <1>7. EachInOnePlace' /\ ScansAreComplete' /\ ReleasedInOrder'
    BY <1>5 DEF EachInOnePlace, ScansAreComplete, ReleasedInOrder
  <1>8. DealtGreedily' /\ AnsweredOnce' /\ NoneIsLost'
    BY <1>5 DEF DealtGreedily, AnsweredOnce, NoneIsLost
  <1>9. CASE failed \/ ShardFailed
    <2>1. /\ phase' = "error" /\ cache' = cache /\ diagnostics' = diagnostics /\ result' = result
      BY <1>9 DEF Finish
    <2>2. TypeOK'
      BY <1>1, <1>2, <1>3, <1>5, <2>1 DEF TypeOK
    <2>3. CachedAreGood' /\ CacheHoldsSerial'
      BY <1>2, <1>3, <2>1 DEF CachedAreGood, CacheHoldsSerial
    <2>4. \E f \in Paths : input[f].kind = "failing" \/ Fatal(f)
      BY <1>3, <1>9 DEF NoneIsLost, ShardFailed
    <2>5. ErrorsAreNeverSwallowed'
      BY <1>1, <1>2, <2>1, <2>4 DEF ErrorsAreNeverSwallowed
    <2>6. ResultIsSerial'
      BY <2>1 DEF ResultIsSerial
    <2> QED
      BY <1>5, <1>6, <1>7, <1>8, <2>2, <2>3, <2>5, <2>6 DEF IInv
  <1>10. CASE ~failed /\ ~ShardFailed
    <2> DEFINE scanned == Only(Misses, {f \in Paths : Good(f)})
               judged == ApplyNoqa(diagnostics \o SlotDiagnostics, scanned)
    <2>1. /\ phase' = "done" /\ diagnostics' = judged /\ result' = Sorted(diagnostics')
          /\ cache' = [f \in DOMAIN cache \cup ToSet(scanned) |->
                         IF f \in DOMAIN cache THEN cache[f] ELSE Entry(diagnostics', f)]
      BY <1>10 DEF Finish
    <2>2. /\ scanned \in Seq(Paths) /\ ToSet(scanned) = {f \in Paths \ DOMAIN cache : Good(f)}
          /\ judged \in Seq(Diagnostic) /\ Sorted(judged) = SerialResult
          /\ \A f \in ToSet(scanned) : Entry(judged, f) = Entry(Serial(f), f)
      BY <1>1, <1>10, JudgedFacts
    <2> HIDE DEF scanned, judged
    <2>3. /\ diagnostics' \in Seq(Diagnostic) /\ result' = SerialResult
          /\ result' = Sorted(judged)
      BY <2>1, <2>2
    <2>4. /\ ToSet(slots) = (Paths \ DOMAIN cache) \cap ForTy
          /\ \A f \in Paths \ DOMAIN cache : input[f].kind # "failing"
          /\ \A f \in ToSet(slots) : ~input[f].tyFails
      BY <1>1, <1>10, AllIsKnown
    <2>5. \A f \in Paths \ DOMAIN cache : ~Fatal(f)
      BY <2>4 DEF Fatal
    <2>6. DOMAIN cache' = DOMAIN cache \cup ToSet(scanned)
      BY <2>1
    <2>7. \A f \in DOMAIN cache' : Good(f) /\ cache'[f] = Entry(Serial(f), f) /\ f \in Paths /\ ~Fatal(f)
      <3> TAKE f \in DOMAIN cache'
      <3>1. CASE f \in DOMAIN cache
        BY <1>3, <2>1, <3>1 DEF CacheHoldsSerial, CachedAreGood
      <3>2. CASE f \notin DOMAIN cache
        <4>1. f \in ToSet(scanned)
          BY <2>6, <3>2
        <4>2. cache'[f] = Entry(judged, f)
          BY <2>1, <3>2, <4>1
        <4> QED
          BY <2>2, <2>5, <4>1, <4>2
      <3> QED
        BY <3>1, <3>2
    <2>8. CachedAreGood' /\ CacheHoldsSerial'
      BY <1>2, <2>7 DEF CachedAreGood, CacheHoldsSerial
    <2>9. TypeOK'
      <3>1. \A f \in DOMAIN cache' : cache'[f] \in Seq(Diagnostic)
        <4> TAKE f \in DOMAIN cache'
        <4>1. f \in Paths /\ cache'[f] = Entry(Serial(f), f)
          BY <2>7
        <4> QED
          BY <1>3, <4>1, EntrySerialType
      <3>2. result' \in Seq(Diagnostic)
        BY <1>3, <2>2, <2>3, SortedFacts
      <3>3. DOMAIN cache' \subseteq Paths
        BY <2>7
      <3> QED
        BY <1>1, <1>2, <1>3, <1>4, <1>5, <2>3, <3>1, <3>2, <3>3 DEF TypeOK
    <2>10. ErrorsAreNeverSwallowed'
      <3>1. ~\E f \in Paths : input[f].kind = "failing" \/ Fatal(f)
        <4>1. \A f \in DOMAIN cache : input[f].kind # "failing" /\ ~Fatal(f)
          BY <1>3 DEF CachedAreGood, Good
        <4> QED
          BY <2>4, <2>5, <4>1
      <3> QED
        BY <1>1, <1>2, <2>1, <3>1 DEF ErrorsAreNeverSwallowed
    <2>11. ResultIsSerial'
      <3>1. Sorted(result)' = Sorted(result')
        BY <1>2 DEF Sorted
      <3>2. Sorted(Sorted(judged)) = Sorted(judged)
        BY <1>3, <2>2, SortedTwice
      <3>3. Sorted(result)' = SerialResult'
        BY <1>2, <2>2, <2>3, <3>1, <3>2
      <3> QED
        BY <1>2, <2>3, <3>3 DEF ResultIsSerial
    <2> QED
      BY <1>5, <1>6, <1>7, <1>8, <2>8, <2>9, <2>10, <2>11 DEF IInv
  <1> QED
    BY <1>9, <1>10

\* A step that changes nothing.
LEMMA StutterStep ==
  ASSUME IInv, UNCHANGED vars
  PROVE  IInv'
  <1>1. /\ input' = input /\ cache' = cache /\ phase' = phase /\ todo' = todo
        /\ excluded' = excluded /\ channel' = channel /\ buffered' = buffered
        /\ next' = next /\ loads' = loads /\ sent' = sent /\ queue' = queue
        /\ shard' = shard /\ slots' = slots /\ answers' = answers /\ senders' = senders
        /\ failed' = failed /\ diagnostics' = diagnostics /\ result' = result
    BY DEF vars
  <1>2. /\ Paths' = Paths /\ Diagnostic' = Diagnostic /\ Item' = Item /\ AllRebound' = AllRebound
        /\ ForTy' = ForTy
        /\ \A g : Good(g)' <=> Good(g)
        /\ \A g : Fatal(g)' <=> Fatal(g)
        /\ \A g : Resolved(g)' = Resolved(g)
        /\ \A g, x : Scan(g, x)' = Scan(g, x)
        /\ \A files : Weight(files)' = Weight(files)
        /\ \A files : Dealt(files)' = Dealt(files)
    BY <1>1, SameInput
  <1>3. Misses' = Misses /\ Cached' = Cached
    BY <1>1, SameProject
  <1>4. /\ TypeOK /\ NothingSent /\ RebindingsKnown /\ EachInOnePlace /\ ScansAreComplete
        /\ ReleasedInOrder /\ DealtGreedily /\ AnsweredOnce /\ NoneIsLost
    BY DEF IInv
  <1>5. TypeOK' /\ NothingSent'
    BY <1>1, <1>2, <1>3, <1>4 DEF TypeOK, NothingSent, Ended
  <1>6. RebindingsKnown'
    BY <1>1, <1>2, <1>4 DEF RebindingsKnown, Streaming
  <1>7. EachInOnePlace'
    <2>1. Later' = Later /\ Arriving' = Arriving /\ Held' = Held /\ (Streaming' <=> Streaming)
      BY <1>1, <1>3 DEF Later, Arriving, Held, Streaming
    <2> QED
      BY <1>1, <1>3, <1>4, <2>1 DEF EachInOnePlace
  <1>8. ScansAreComplete'
    BY <1>1, <1>2, <1>3, <1>4 DEF ScansAreComplete, Streaming
  <1>9. ReleasedInOrder'
    BY <1>1, <1>2, <1>3, <1>4 DEF ReleasedInOrder, Released, Streaming
  <1>10. DealtGreedily'
    BY <1>1, <1>2, <1>4 DEF DealtGreedily, Streaming
  <1>11. AnsweredOnce'
    BY <1>1, <1>2, <1>4 DEF AnsweredOnce, Answered, Streaming
  <1>12. NoneIsLost'
    BY <1>1, <1>2, <1>4 DEF NoneIsLost, Answered, ShardFailed, Streaming
  <1>13. CachedAreGood' /\ CacheHoldsSerial' /\ ErrorsAreNeverSwallowed' /\ ResultIsSerial'
    BY <1>1, SamePromises
  <1> QED
    BY <1>5, <1>6, <1>7, <1>8, <1>9, <1>10, <1>11, <1>12, <1>13 DEF IInv

(***************************************************************************)
(* The theorems                                                            *)
(***************************************************************************)
\* Every step keeps the invariant.
LEMMA NextIInv == IInv /\ [Next]_vars => IInv'
  <1> SUFFICES ASSUME IInv, [Next]_vars
               PROVE  IInv'
    OBVIOUS
  <1>1. ASSUME NEW f \in Paths, Discover(f)
        PROVE  IInv'
    BY <1>1, DiscoverStep
  <1>2. ASSUME NEW f \in Paths, ScanFile(f)
        PROVE  IInv'
    BY <1>2, ScanFileStep
  <1>3. CASE Open
    BY <1>3, OpenStep
  <1>4. CASE BeginScan
    BY <1>4, BeginScanStep
  <1>5. CASE Receive
    BY <1>5, ReceiveStep
  <1>6. CASE Release
    BY <1>6, ReleaseStep
  <1>7. CASE CloseChannels
    BY <1>7, CloseChannelsStep
  <1>8. CASE Finish
    BY <1>8, FinishStep
  <1>9. ASSUME NEW s \in Shards, Answer(s)
        PROVE  IInv'
    BY <1>9, AnswerStep
  <1>10. ASSUME NEW s \in Shards, EndShard(s)
         PROVE  IInv'
    BY <1>10, EndShardStep
  <1>11. CASE UNCHANGED vars
    BY <1>11, StutterStep
  <1> QED
    BY <1>1, <1>2, <1>3, <1>4, <1>5, <1>6, <1>7, <1>8, <1>9, <1>10, <1>11
       DEF Next, Worker, Coordinator, Shard

\* The invariant holds of every behaviour.
LEMMA Invariance == Spec => []IInv
  BY InitIInv, NextIInv, PTL DEF Spec

\* The variables of the pipeline keep their types.
THEOREM TypeCorrect == Spec => []TypeOK
  <1>1. IInv => TypeOK
    BY DEF IInv
  <1> QED
    BY <1>1, Invariance, PTL

\* A check fails if and only if some file it has to scan fails or ty fails on
\* one, however the threads interleave.
THEOREM ErrorsNeverSwallowed == Spec => []ErrorsAreNeverSwallowed
  <1>1. IInv => ErrorsAreNeverSwallowed
    BY DEF IInv
  <1> QED
    BY <1>1, Invariance, PTL

\* What a check stores is what a serial check of the file finds.
THEOREM StoredIsSerial == Spec => []CacheHoldsSerial
  <1>1. IInv => CacheHoldsSerial
    BY DEF IInv
  <1> QED
    BY <1>1, Invariance, PTL

\* A check that succeeds finds what a serial check of every file finds.
THEOREM PipelineIsSerial == Spec => []ResultIsSerial
  <1>1. IInv => ResultIsSerial
    BY DEF IInv
  <1> QED
    BY <1>1, Invariance, PTL

\* Each shard is sent a prefix of its part of the sorted files.
THEOREM StreamsAreReproducible == Spec => []ShardStreamsAreReproducible
  <1>1. IInv => ShardStreamsAreReproducible
    <2> SUFFICES ASSUME IInv, Streaming, NEW s \in Shards
                 PROVE  IsPrefix(sent[s], Greedy[s])
      BY DEF ShardStreamsAreReproducible, Streaming
    <2> DEFINE rest == Only(SubSeq(Misses, next, Len(Misses)), ForTy)
    <2>1. /\ input \in Inputs /\ slots = Only(Released, ForTy) /\ sent = Dealt(slots)
          /\ slots \in Seq(Paths)
      BY DEF IInv, TypeOK, ReleasedInOrder, DealtGreedily
    <2>2. /\ Misses \in Seq(Paths) /\ Len(Misses) \in Nat /\ next \in 1 .. Len(Misses) + 1
      BY <2>1, MissesFacts DEF IInv, TypeOK, Ended, Streaming
    <2>3. /\ Released \in Seq(Paths) /\ SubSeq(Misses, next, Len(Misses)) \in Seq(Paths)
          /\ Misses = Released \o SubSeq(Misses, next, Len(Misses))
      <3>1. next - 1 \in Nat /\ next \in Nat /\ (next - 1) + 1 = next
        BY <2>2
      <3>2. \A i \in 1 .. next - 1 : Misses[i] \in Paths
        BY <2>2, ElementOfSeq
      <3>3. \A i \in next .. Len(Misses) : Misses[i] \in Paths
        BY <2>2, ElementOfSeq
      <3>4. Released \in Seq(Paths) /\ SubSeq(Misses, next, Len(Misses)) \in Seq(Paths)
        BY <2>2, <3>1, <3>2, <3>3, SubSeqProperties DEF Released
      <3>5. Released \o SubSeq(Misses, next, Len(Misses)) = SubSeq(Misses, 1, Len(Misses))
        <4> DEFINE n == next - 1
                   N == Len(Misses)
        <4>1. n \in 1 - 1 .. N /\ N \in 1 - 1 .. N /\ n <= N /\ n + 1 = next
              /\ n \in 0 .. N /\ N \in n .. N
          BY <2>2
        <4>2. Released = SubSeq(Misses, 1, n)
          BY DEF Released
        <4>3. 1 \in 1 .. N + 1
          BY <2>2
        <4> HIDE DEF n
        <4>4. SubSeq(Misses, 1, n) \o SubSeq(Misses, n + 1, N) = SubSeq(Misses, 1, N)
          BY <2>2, <4>1, <4>3, ConcatAdjacentSubSeq
        <4> QED
          BY <4>1, <4>2, <4>4
      <3> QED
        BY <2>2, <3>4, <3>5, SubSeqFull
    <2>4. Only(Misses, ForTy) = slots \o rest
      <3> DEFINE a == Released
                 b == SubSeq(Misses, next, Len(Misses))
      <3>1. a \in Seq(Paths) /\ b \in Seq(Paths) /\ Misses = a \o b
        BY <2>3
      <3>2. slots = Only(a, ForTy) /\ rest = Only(b, ForTy)
        BY <2>1
      <3> HIDE DEF a, b, rest
      <3>3. Only(a \o b, ForTy) = Only(a, ForTy) \o Only(b, ForTy)
        BY <3>1, OnlyConcat
      <3> QED
        BY <3>1, <3>2, <3>3
    <2>5. rest \in Seq(Paths)
      BY <2>3, OnlyType
    <2> HIDE DEF rest
    <2>6. IsPrefix(Dealt(slots)[s], Dealt(slots \o rest)[s])
      BY <2>1, <2>5, DealtPrefix
    <2> QED
      BY <2>1, <2>4, <2>6 DEF Greedy
  <1> QED
    BY <1>1, Invariance, PTL
=============================================================================
