-------------------------- MODULE DiagCacheProofs ---------------------------
(***************************************************************************)
(* Proofs about DiagCache: what the cache answers is what the files say    *)
(* now, for any set of files, checks, selections, tokens and layouts and   *)
(* any number of edits, as long as no checked file is loaded first as the  *)
(* module of another's base (the code is known not to keep its promise     *)
(* then).  What makes it inductive is that a manifest is sound for the     *)
(* project it describes, and a check for the project it reads.             *)
(***************************************************************************)
EXTENDS DiagCache, TLAPS

(***************************************************************************)
(* What sound entries stay sound through                                   *)
(***************************************************************************)
\* Without entries there is nothing to be wrong about.
LEMMA NoEntries ==
    ASSUME NEW d, NEW w
    PROVE  Sound(<<>>, d, w)
  BY DEF Sound

\* Fewer entries are still sound.
LEMMA FewerEntries ==
    ASSUME NEW entries, NEW d, NEW w, NEW S, S \subseteq DOMAIN entries,
           Sound(entries, d, w)
    PROVE  Sound([f \in S |-> entries[f]], d, w)
  BY DEF Sound

\* What a check finds of files that parse is sound for the project it reads.
LEMMA NewEntries ==
    ASSUME LoadedFirst = {}, NEW files, NEW S, S \subseteq Cacheable(files),
           files \subseteq DOMAIN disk
    PROVE  Sound([f \in S |-> Found(files, f)], outside, disk)
  BY DEF Sound, Cacheable, Found, Semantic, Fingerprinted, Agrees, Parsed

\* The entries of two sound sets of entries.
LEMMA MoreEntries ==
    ASSUME NEW entries, NEW new, NEW d, NEW w,
           Sound(entries, d, w), Sound(new, d, w)
    PROVE  Sound(Merged(entries, new), d, w)
  BY DEF Sound, Merged

\* What validation keeps of entries that were sound for the project before is
\* sound for the project now: a changed file that parses has its entry, with the
\* tokens it has now, or nothing is kept.
LEMMA RetainedEntries ==
    ASSUME LoadedFirst = {}, NEW entries, NEW old, Sound(entries, outside, old)
    PROVE  Sound([f \in Retained(entries, old, disk, DOMAIN disk) |-> entries[f]],
                 outside, disk)
  <1> DEFINE kept == Retained(entries, old, disk, DOMAIN disk)
             changed == {f \in DOMAIN disk : ~Same(old, disk, f)}
             parsed == {g \in DOMAIN disk : Parsed(disk, g)}
  <1>1. CASE kept = {}
    BY <1>1 DEF Sound
  <1>2. CASE kept # {}
    <2>1. DOMAIN old = DOMAIN disk /\ kept \subseteq DOMAIN entries \cap DOMAIN disk
      BY <1>2 DEF Retained
    <2>2. \A g \in changed : ~Drifted(entries, DOMAIN disk, g)
      BY <1>2 DEF Retained, Drifted
    <2>3. \A g \in changed \cap parsed :
              g \in DOMAIN entries /\ entries[g].semantic = disk[g].tokens
      BY <2>2 DEF Drifted, SameTokens, Semantic, Fingerprinted
    <2>4. \A g \in changed \cap parsed : Parsed(old, g) /\ old[g].tokens = disk[g].tokens
      BY <2>3 DEF Sound
    <2>5. \A g \in DOMAIN disk \ changed : old[g] = disk[g]
      BY DEF Same
    <2>6. \A g \in parsed : Parsed(old, g) /\ old[g].tokens = disk[g].tokens
      BY <2>4, <2>5 DEF Parsed
    <2>7. \A f \in kept : f \notin changed \/ SameTokens(entries, DOMAIN disk, f)
      BY <1>2 DEF Retained
    <2>8. \A f \in kept : f \in parsed
      <3> TAKE f \in kept
      <3>1. Parsed(old, f) /\ entries[f].semantic = old[f].tokens
        BY <2>1 DEF Sound
      <3>2. CASE f \notin changed
        BY <2>1, <2>5, <3>1, <3>2 DEF Parsed
      <3>3. CASE SameTokens(entries, DOMAIN disk, f)
        BY <2>1, <3>1, <3>3 DEF SameTokens, Semantic, Fingerprinted, Parsed
      <3> QED
        BY <2>7, <3>2, <3>3
    <2>9. \A f \in kept :
              /\ entries[f].outside = outside
              /\ entries[f].semantic = disk[f].tokens
              /\ Agrees(entries[f], parsed, disk)
      <3> TAKE f \in kept
      <3>1. /\ entries[f].outside = outside /\ entries[f].semantic = old[f].tokens
            /\ Agrees(entries[f], {g \in DOMAIN old : Parsed(old, g)}, old)
        BY <2>1 DEF Sound
      <3> QED
        BY <2>1, <2>6, <2>8, <3>1 DEF Agrees
    <2>10. ASSUME parsed = DOMAIN disk, NEW f \in kept
           PROVE  entries[f].layout = disk[f].layout
      <3>1. {g \in DOMAIN old : Parsed(old, g)} = DOMAIN old
        BY <2>1, <2>6, <2>10
      <3>2. entries[f].layout = old[f].layout
        BY <2>1, <3>1 DEF Sound
      <3>3. \A g \in changed : SameTokens(entries, DOMAIN disk, g)
        BY <2>3, <2>10 DEF SameTokens, Semantic, Fingerprinted
      <3>4. f \notin changed
        BY <1>2, <2>1, <3>3 DEF Retained
      <3> QED
        BY <2>1, <2>5, <3>2, <3>4
    <2> QED
      BY <2>8, <2>9, <2>10 DEF Sound
  <1> QED
    BY <1>1, <1>2

(***************************************************************************)
(* The steps                                                               *)
(***************************************************************************)
\* Soundness is about nothing in the state but what is compared, and a check goes on
\* reading as long as the files stay as they are.
LEMMA SoundKept ==
    ASSUME NEW entries, NEW d, NEW w, Sound(entries, d, w)
    PROVE  Sound(entries, d, w)'
  BY DEF Sound, Agrees, Parsed

LEMMA ReadingKept ==
    ASSUME NEW k, IsReading(k), UNCHANGED <<disk, outside>>
    PROVE  IsReading(k)'
  <1>1. k.fingerprints = Fingerprints' /\ k.inventory = Inventory(k.selection)'
    BY DEF IsReading, Fingerprints, Inventory
  <1>2. CASE k.validate
    <2>1. \A w \in k.previous : k.previous = {w} /\ Sound(k.entries, outside, w)'
      BY <1>2, SoundKept DEF IsReading
    <2> QED
      BY <1>1, <1>2, <2>1 DEF IsReading
  <1>3. CASE ~k.validate
    <2>1. Sound(k.entries, outside, disk)'
      BY <1>3, SoundKept DEF IsReading
    <2> QED
      BY <1>1, <1>3, <2>1 DEF IsReading
  <1> QED
    BY <1>2, <1>3

LEMMA WritingKept ==
    ASSUME NEW k, IsWriting(k)
    PROVE  IsWriting(k)'
  BY SoundKept DEF IsWriting, IsStored

\* Nothing is stored, read or answered at first.
LEMMA InitInv == Init => IInv
  BY DEF Init, IInv, Sound

\* A check stays as it is while the files stay as they are.
LEMMA OthersKept ==
    ASSUME IInv, NEW c \in DOMAIN check, check'[c] = check[c],
           UNCHANGED <<disk, outside>> \/ check[c].phase = "write"
    PROVE  IsReading(check[c])' \/ IsWriting(check[c])'
  <1>1. CASE IsWriting(check[c])
    BY <1>1, WritingKept
  <1>2. CASE IsReading(check[c])
    <2>1. UNCHANGED <<disk, outside>>
      BY <1>2 DEF IsReading
    <2> QED
      BY <1>2, <2>1, ReadingKept
  <1> QED
    BY <1>1, <1>2 DEF IInv

\* A manifest stays sound whatever happens to the files.
LEMMA StoredKept ==
    ASSUME IInv, UNCHANGED manifest
    PROVE  (\A m \in manifest : IsStored(m))'
  BY DEF IInv, IsStored, Sound, Agrees, Parsed

\* A check begins with the manifest's entries: of this very project, or of the one
\* it has to validate them against.
LEMMA OpenInv ==
    ASSUME IInv, NEW c \in Checks, NEW s \in Explicit \cup {Project}, Open(c, s)
    PROVE  IInv'
  <1> DEFINE opened == {m \in manifest : Usable(m, s)}
             fresh == [phase |-> "open", selection |-> s,
                       fingerprints |-> Fingerprints, inventory |-> Inventory(s),
                       previous |-> {}, entries |-> <<>>, validate |-> FALSE, dirty |-> FALSE]
             m == CHOOSE m \in opened : TRUE
             begun == IF opened = {} THEN fresh
                      ELSE [fresh EXCEPT !.previous = m.inventory, !.entries = m.entries,
                                         !.validate = m.project # Fingerprints.project]
  <1>1. check' = With(check, c, begun) /\ UNCHANGED <<disk, outside, manifest>> /\ served' = <<>>
    BY DEF Open
  <1>2. s # Project => s \subseteq DOMAIN disk
    BY DEF Open
  <1>3. IsReading(begun)
    <2>1. CASE opened = {}
      BY <1>2, <2>1 DEF IsReading, Sound
    <2>2. CASE opened # {}
      <3> HIDE DEF m
      <3>1. m \in manifest /\ Usable(m, s)
        BY <2>2 DEF m
      <3>2. /\ m.inventory \subseteq {m.project} /\ Sound(m.entries, m.dependency, m.project)
            /\ m.dependency = outside
        BY <3>1 DEF IInv, IsStored, Usable, Fingerprints
      <3>3. /\ begun.phase = "open" /\ begun.selection = s
            /\ begun.fingerprints = Fingerprints /\ begun.inventory = Inventory(s)
            /\ begun.previous = m.inventory /\ begun.entries = m.entries
            /\ begun.validate = (m.project # disk)
            /\ DOMAIN begun = {"phase", "selection", "fingerprints", "inventory", "previous",
                               "entries", "validate", "dirty"}
        BY <2>2 DEF Fingerprints
      <3>4. CASE m.project = disk
        BY <1>2, <3>2, <3>3, <3>4 DEF IsReading
      <3>5. CASE m.project # disk
        <4>1. s = Project
          BY <3>1, <3>5 DEF Usable, Fingerprints, Inventory
        <4> QED
          BY <3>2, <3>3, <3>5, <4>1 DEF IsReading
      <3> QED
        BY <3>4, <3>5
    <2> QED
      BY <2>1, <2>2
  <1> HIDE DEF begun
  <1>4. PICK k : k = begun
    OBVIOUS
  <1>5. IsReading(k)'
    BY <1>1, <1>3, <1>4, ReadingKept
  <1>6. ASSUME NEW b \in DOMAIN check'
        PROVE  IsReading(check[b])' \/ IsWriting(check[b])'
    <2>1. CASE b = c
      <3>1. check'[b] = k
        BY <1>1, <1>4, <2>1 DEF With
      <3> QED
        BY <1>5, <3>1
    <2>2. CASE b # c
      <3>1. b \in DOMAIN check /\ check'[b] = check[b]
        BY <1>1, <2>2 DEF With
      <3> QED
        BY <1>1, <3>1, OthersKept
    <2> QED
      BY <2>1, <2>2
  <1> QED
    BY <1>1, <1>6, StoredKept DEF IInv, Sound

\* The checks that a step leaves alone, when one changes or ends.
LEMMA OneChanges ==
    ASSUME IInv, NEW c, UNCHANGED <<disk, outside>>, DOMAIN check' \subseteq DOMAIN check,
           \A b \in DOMAIN check' \ {c} : check'[b] = check[b],
           c \in DOMAIN check' => (IsReading(check[c])' \/ IsWriting(check[c])')
    PROVE  (\A b \in DOMAIN check : IsReading(check[b]) \/ IsWriting(check[b]))'
  <1>1. ASSUME NEW b \in DOMAIN check', b # c
        PROVE  IsReading(check[b])' \/ IsWriting(check[b])'
    BY <1>1, OthersKept
  <1> QED
    BY <1>1

\* Validation turns entries that were sound before into entries that are sound now.
LEMMA ValidateInv ==
    ASSUME IInv, LoadedFirst = {}, NEW c \in Checks, Validate(c)
    PROVE  IInv'
  <1> DEFINE kept(k) == Retained(k.entries, Metadata(k.previous), Metadata(k.inventory),
                                 Selected(k.selection))
             after(k) == [k EXCEPT !.entries = Restrict(@, kept(k)), !.previous = k.inventory,
                                   !.validate = FALSE, !.dirty = TRUE]
  <1>1. c \in DOMAIN check /\ IsReading(check[c]) /\ check[c].validate
    BY DEF Validate, At, IInv, IsWriting
  <1>2. PICK k : k = check[c]
    OBVIOUS
  <1>3. check' = [check EXCEPT ![c] = after(k)] /\ UNCHANGED <<disk, outside, manifest, served>>
    BY <1>2 DEF Validate
  <1>4. /\ k.selection = Project /\ k.inventory = {disk} /\ Selected(k.selection) = DOMAIN disk
        /\ Metadata(k.inventory) = disk
    BY <1>1, <1>2 DEF IsReading, Inventory, Selected, Metadata
  <1>5. Sound([f \in kept(k) |-> k.entries[f]], outside, disk)
    <2>1. CASE k.previous = {}
      <3>1. DOMAIN Metadata(k.previous) = {}
        BY <2>1 DEF Metadata
      <3>2. kept(k) = {}
        BY <1>4, <3>1 DEF Retained
      <3> QED
        BY <3>2 DEF Sound
    <2>2. CASE k.previous # {}
      <3>1. PICK w \in k.previous : k.previous = {w} /\ Sound(k.entries, outside, w)
        BY <1>1, <1>2, <2>2 DEF IsReading
      <3>2. Metadata(k.previous) = w
        BY <3>1 DEF Metadata
      <3> QED
        BY <1>4, <3>1, <3>2, RetainedEntries
    <2> QED
      BY <2>1, <2>2
  <1>6. PICK j : j = after(k)
    OBVIOUS
  <1>7. IsReading(j)
    <2>1. /\ DOMAIN j = DOMAIN k
          /\ j.phase = k.phase /\ j.selection = k.selection /\ j.fingerprints = k.fingerprints
          /\ j.inventory = k.inventory /\ j.entries = [f \in kept(k) |-> k.entries[f]]
          /\ j.validate = FALSE
      <3>1. DOMAIN k = {"phase", "selection", "fingerprints", "inventory", "previous",
                        "entries", "validate", "dirty"}
        BY <1>1, <1>2 DEF IsReading
      <3> HIDE DEF kept
      <3> QED
        BY <1>6, <3>1 DEF Restrict
    <2> QED
      BY <1>1, <1>2, <1>4, <1>5, <2>1 DEF IsReading
  <1>8. IsReading(check[c])'
    BY <1>1, <1>3, <1>6, <1>7, ReadingKept
  <1>9. (\A b \in DOMAIN check : IsReading(check[b]) \/ IsWriting(check[b]))'
    BY <1>3, <1>8, OneChanges
  <1>10. Sound(served, outside, disk)'
    BY <1>3, SoundKept DEF IInv
  <1> QED
    BY <1>3, <1>9, <1>10, StoredKept DEF IInv

\* A scan answers from what is sound now, and stores that with what it finds.
LEMMA ScanInv ==
    ASSUME IInv, LoadedFirst = {}, NEW c \in Checks, Scan(c)
    PROVE  IInv'
  <1>1. PICK k : k = check[c]
    OBVIOUS
  <1> DEFINE files == Selected(k.selection)
             scanned == Cacheable(Misses(c))
             new == [f \in scanned |-> Found(files, f)]
             stored == Stored(k, Merged(k.entries, new))
  <1>2. c \in DOMAIN check /\ IsReading(k) /\ ~k.validate
    BY <1>1 DEF Scan, At, IInv, IsWriting
  <1>3. /\ UNCHANGED <<disk, outside, manifest>>
        /\ served' = [f \in Hits(c) |-> k.entries[f]]
        /\ \/ check' = Restrict(check, DOMAIN check \ {c})
           \/ check' = [check EXCEPT ![c] = [phase |-> "write", manifest |-> stored]]
    BY <1>1 DEF Scan
  <1>4. Sound(k.entries, outside, disk)
    BY <1>2 DEF IsReading
  <1>5. Sound(served, outside, disk)'
    <2>1. Sound([f \in Hits(c) |-> k.entries[f]], outside, disk)
      BY <1>1, <1>4, FewerEntries DEF Hits
    <2>2. PICK e : e = [f \in Hits(c) |-> k.entries[f]]
      OBVIOUS
    <2>3. Sound(e, outside, disk)'
      BY <1>3, <2>1, <2>2, SoundKept
    <2>4. served' = e
      BY <1>3, <2>2
    <2> QED
      BY <2>3, <2>4
  <1>6. IsStored(stored)
    <2>1. files \subseteq DOMAIN disk
      BY <1>2 DEF IsReading, Selected
    <2>2. scanned \subseteq Cacheable(files)
      BY <1>1 DEF Cacheable, Misses
    <2>3. Sound(new, outside, disk)
      BY <2>1, <2>2, NewEntries
    <2>4. Sound(Merged(k.entries, new), outside, disk)
      BY <1>4, <2>3, MoreEntries
    <2>5. k.fingerprints.dependency = outside /\ k.fingerprints.project = disk
      BY <1>2 DEF IsReading, Fingerprints
    <2>6. k.inventory \subseteq {disk}
      BY <1>2 DEF IsReading, Inventory
    <2> HIDE DEF new
    <2> QED
      BY <2>4, <2>5, <2>6 DEF IsStored, Stored
  <1>7. PICK m : m = stored
    OBVIOUS
  <1>8. (\A b \in DOMAIN check : IsReading(check[b]) \/ IsWriting(check[b]))'
    <2>1. CASE check' = Restrict(check, DOMAIN check \ {c})
      BY <1>3, <2>1, OneChanges DEF Restrict
    <2>2. CASE check' = [check EXCEPT ![c] = [phase |-> "write", manifest |-> m]]
      <3>1. IsWriting([phase |-> "write", manifest |-> m])
        BY <1>6, <1>7 DEF IsWriting
      <3>2. IsWriting([phase |-> "write", manifest |-> m])'
        BY <3>1, WritingKept
      <3>3. IsWriting(check[c])'
        BY <1>2, <2>2, <3>2
      <3> QED
        BY <1>3, <2>2, <3>3, OneChanges
    <2> QED
      BY <1>3, <1>7, <2>1, <2>2
  <1> QED
    BY <1>3, <1>5, <1>8, StoredKept DEF IInv

\* A manifest that is written is sound for the project its check began with, and a
\* check that ends without leaves the others as they are.
LEMMA WriteInv ==
    ASSUME IInv, NEW c \in Checks, Replace(c) \/ Abandon(c)
    PROVE  IInv'
  <1>1. /\ UNCHANGED <<disk, outside>> /\ served' = <<>>
        /\ check' = Restrict(check, DOMAIN check \ {c})
    BY DEF Replace, Abandon
  <1>2. (\A b \in DOMAIN check : IsReading(check[b]) \/ IsWriting(check[b]))'
    BY <1>1, OneChanges DEF Restrict
  <1>3. (\A m \in manifest : IsStored(m))'
    <2>1. CASE Abandon(c)
      BY <2>1, StoredKept DEF Abandon
    <2>2. CASE Replace(c)
      <3>1. IsWriting(check[c]) /\ manifest' = {check[c].manifest}
        BY <2>2 DEF Replace, Replacement, At, IInv, IsReading
      <3>2. PICK m : m = check[c].manifest
        OBVIOUS
      <3>3. IsStored(m) /\ manifest' = {m}
        BY <3>1, <3>2 DEF IsWriting
      <3>4. IsStored(m)'
        BY <3>3, SoundKept DEF IsStored
      <3> QED
        BY <3>3, <3>4
    <2> QED
      BY <2>1, <2>2
  <1>4. Sound(served, outside, disk)'
    BY <1>1 DEF Sound
  <1> QED
    BY <1>2, <1>3, <1>4 DEF IInv

\* Edits happen while no check reads the project, and take every answer back.
LEMMA ChangeInv ==
    ASSUME IInv, Change
    PROVE  IInv'
  <1>1. \A c \in DOMAIN check : IsWriting(check[c])
    BY DEF Change, Quiet, IInv, IsReading
  <1>2. UNCHANGED <<manifest, check>> /\ served' = <<>>
    BY DEF Change
  <1>3. (\A c \in DOMAIN check : IsReading(check[c]) \/ IsWriting(check[c]))'
    BY <1>1, <1>2, WritingKept
  <1> QED
    BY <1>2, <1>3, StoredKept DEF IInv, Sound

\* Every step keeps the invariant.
LEMMA NextInv ==
    ASSUME LoadedFirst = {}
    PROVE  IInv /\ [Next]_vars => IInv'
  <1> SUFFICES ASSUME IInv, [Next]_vars
               PROVE  IInv'
    OBVIOUS
  <1>1. ASSUME NEW c \in Checks, NEW s \in Explicit \cup {Project}, Open(c, s)
        PROVE  IInv'
    BY <1>1, OpenInv
  <1>2. ASSUME NEW c \in Checks, Validate(c) \/ Scan(c) \/ Replace(c) \/ Abandon(c)
        PROVE  IInv'
    BY <1>2, ValidateInv, ScanInv, WriteInv
  <1>3. ASSUME NEW f \in Files, (\E v \in Versions : Edit(f, v)) \/ Delete(f)
        PROVE  IInv'
    BY <1>3, ChangeInv DEF Edit, Delete
  <1>4. CASE ChangeOutside
    BY <1>4, ChangeInv DEF ChangeOutside
  <1>5. CASE UNCHANGED vars
    <2>1. (\A c \in DOMAIN check : IsReading(check[c]) \/ IsWriting(check[c]))'
      BY <1>5, OthersKept DEF vars
    <2>2. Sound(served, outside, disk)'
      BY <1>5, SoundKept DEF vars, IInv
    <2> QED
      BY <1>5, <2>1, <2>2, StoredKept DEF vars, IInv
  <1> QED
    BY <1>1, <1>2, <1>3, <1>4, <1>5 DEF Next

(***************************************************************************)
(* What is promised of every run                                           *)
(***************************************************************************)
\* Whatever is stored, read, written or answered is sound for the project it is of.
THEOREM Invariance ==
    ASSUME LoadedFirst = {}
    PROVE  Spec => []IInv
  BY InitInv, NextInv, PTL DEF Spec

\* However many checks, edits, crashes and lost writes: an answer from the cache was
\* found in this environment, among these paths and from the tokens that every file
\* that parses has now (DiagnosticCache::open, validate_project).
THEOREM CurrentHits ==
    ASSUME LoadedFirst = {}
    PROVE  Spec => []HitsAreCurrent
  <1>1. IInv => HitsAreCurrent
    BY DEF IInv, Sound, HitsAreCurrent
  <1> QED
    BY <1>1, Invariance, PTL

\* While every file parses, an answer from the cache has its file's own positions.
THEOREM CurrentPositions ==
    ASSUME LoadedFirst = {}
    PROVE  Spec => []PositionsAreCurrent
  <1>1. IInv => PositionsAreCurrent
    BY DEF IInv, Sound, PositionsAreCurrent
  <1> QED
    BY <1>1, Invariance, PTL

\* A file that does not parse is never answered from the cache.
THEOREM SkippedAreNotServed ==
    ASSUME LoadedFirst = {}
    PROVE  Spec => []SkippedIsNeverServed
  <1>1. IInv => SkippedIsNeverServed
    BY DEF IInv, Sound, SkippedIsNeverServed
  <1> QED
    BY <1>1, Invariance, PTL

\* Whichever checks wrote it and whatever was edited meanwhile, a manifest's entries
\* are all of the project that its own fingerprint describes.
THEOREM ManifestsAreSnapshots ==
    ASSUME LoadedFirst = {}
    PROVE  Spec => []ManifestIsOneSnapshot
  <1>1. IInv => ManifestIsOneSnapshot
    BY DEF IInv, IsStored, Sound, ManifestIsOneSnapshot
  <1> QED
    BY <1>1, Invariance, PTL
=============================================================================
