-------------------------- MODULE TyFallbackProofs --------------------------
(***************************************************************************)
(* Theorems about TyFallback: whatever the `ty server` does, however often *)
(* it is late, wrong or gone, the client asks in order and uses no answer  *)
(* but a request's own, and with that a file's diagnostics are exactly the *)
(* ones it deserves, every one of them is rewritten or declined once, and  *)
(* no single bad request makes a run fail.                                 *)
(*                                                                         *)
(* IInv is inductive by itself.  On top of it BadRequestsSpoil, Booked and *)
(* AllJudged are each inductive, and imply a property of TyFallback.  The  *)
(* actions are of three kinds, proved about once each: those at which      *)
(* nothing is awaited (TurnStep), those that ask (Ask, AskIgnore), and     *)
(* those that use an answer, from wherever it comes (TakeStep).            *)
(***************************************************************************)
EXTENDS TyFallback, FiniteSetTheorems, TLAPS

(***************************************************************************)
(* Sequences                                                               *)
(***************************************************************************)
\* A list of the numbers up to one.
LEMMA UpToList ==
    ASSUME NEW n \in Nat
    PROVE  UpTo(n) \in Seq(1..n) /\ Len(UpTo(n)) = n /\ \A i \in 1..n : UpTo(n)[i] = i
  BY DEF UpTo

\* What goes on after the first.
LEMMA AfterFirst ==
    ASSUME NEW S, NEW s \in Seq(S), s # <<>>
    PROVE  /\ Tail(s) \in Seq(S) /\ Len(Tail(s)) = Len(s) - 1 /\ Len(s) >= 1
           /\ Head(s) = s[1] /\ s[1] \in S
           /\ \A k \in 1..(Len(s) - 1) : Tail(s)[k] = s[k + 1]
  OBVIOUS

\* What is put last.
LEMMA PutLast ==
    ASSUME NEW S, NEW s \in Seq(S), NEW x \in S
    PROVE  /\ Append(s, x) \in Seq(S) /\ Len(Append(s, x)) = Len(s) + 1
           /\ \A k \in 1..(Len(s) + 1) :
                 Append(s, x)[k] = IF k = Len(s) + 1 THEN x ELSE s[k]
  OBVIOUS

\* A sequence with another first.
LEMMA OtherFirst ==
    ASSUME NEW S, NEW s \in Seq(S), s # <<>>, NEW x \in S
    PROVE  /\ [s EXCEPT ![1] = x] \in Seq(S) /\ Len([s EXCEPT ![1] = x]) = Len(s)
           /\ \A k \in 1..Len(s) : [s EXCEPT ![1] = x][k] = IF k = 1 THEN x ELSE s[k]
  <1>1. 1 \in DOMAIN s
    OBVIOUS
  <1> QED
    BY <1>1

(***************************************************************************)
(* What a step does, whichever action it is of                             *)
(***************************************************************************)
Waits == [call : Nat, id : Nat]

\* The fields of a work.
LEMMA WorkFields ==
    ASSUME NEW w \in Work
    PROVE  /\ w.calls \in Seq(Call)
           /\ w.overloads \in Seq({"named", "arms", "null"})
           /\ Len(w.calls) \in Nat /\ DOMAIN w.calls = 1..Len(w.calls)
           /\ Len(w.overloads) \in Nat /\ DOMAIN w.overloads = 1..Len(w.overloads)
           /\ Untold(w) \in [DOMAIN w.calls -> Nat]
           /\ \A i \in DOMAIN w.calls :
                 /\ w.calls[i] \in Call
                 /\ w.calls[i].group \in Groups \cup {0} /\ w.calls[i].hover \in Hovers
                 /\ w.calls[i].def \in Definitions /\ w.calls[i].static \in BOOLEAN
           /\ \A i \in DOMAIN w.overloads : w.overloads[i] \in {"named", "arms", "null"}
  <1>1. w.calls \in Seq(Call) /\ w.overloads \in Seq({"named", "arms", "null"})
    BY DEF Work
  <1>2. \A i \in DOMAIN w.calls : w.calls[i] \in Call
    BY <1>1
  <1>3. \A c \in Call : /\ c.group \in Groups \cup {0} /\ c.hover \in Hovers
                       /\ c.def \in Definitions /\ c.static \in BOOLEAN
    BY DEF Call
  <1>4. \A i \in DOMAIN w.overloads : w.overloads[i] \in {"named", "arms", "null"}
    BY <1>1
  <1> QED
    BY <1>1, <1>2, <1>3, <1>4 DEF Untold

\* What is asked is a sequence of natural numbers, of calls where it is not of
\* overloads.
LEMMA AskedList ==
    ASSUME TypeOK
    PROVE  /\ Asked \in Seq(Nat) /\ Len(Asked) \in Nat
           /\ phase \in {"hover", "ignore"} =>
                 Len(Asked) = Len(calls) /\ \A k \in 1..Len(calls) : Asked[k] = k
           /\ phase = "overload" =>
                 Len(Asked) = Len(overloads) /\ \A k \in 1..Len(overloads) : Asked[k] = k
           /\ phase = "def" => Asked = needsDef
  <1>1. Len(calls) \in Nat /\ Len(overloads) \in Nat /\ needsDef \in Seq(Nat)
    BY WorkFields DEF TypeOK, calls, overloads
  <1>2. phase \in {"hover", "ignore", "def", "overload"}
    BY DEF TypeOK, Phases
  <1>3. \A n \in Nat : UpTo(n) \in Seq(Nat) /\ Len(UpTo(n)) = n
                       /\ \A i \in 1..n : UpTo(n)[i] = i
    BY DEF UpTo
  <1>4. CASE phase \in {"hover", "ignore"}
    <2>1. Asked = UpTo(Len(calls))
      BY <1>4 DEF Asked
    <2> QED
      BY <2>1, <1>1, <1>3, <1>4
  <1>5. CASE phase = "def"
    <2>1. Asked = needsDef
      BY <1>5 DEF Asked
    <2> QED
      BY <2>1, <1>1, <1>5
  <1>6. CASE phase = "overload"
    <2>1. Asked = UpTo(Len(overloads))
      BY <1>6 DEF Asked
    <2> QED
      BY <2>1, <1>1, <1>3, <1>6
  <1> QED
    BY <1>2, <1>4, <1>5, <1>6

\* The next call asked about, or overload, is one of the file.
LEMMA AskedOne ==
    ASSUME TypeOK, AsksInOrder, Asking
    PROVE  /\ \A k \in DOMAIN chunk :
                 chunk[k].call \in IF phase = "overload" THEN DOMAIN overloads ELSE DOMAIN calls
           /\ \A k \in DOMAIN todo :
                 todo[k] \in IF phase = "overload" THEN DOMAIN overloads ELSE DOMAIN calls
  <1> DEFINE Of == IF phase = "overload" THEN DOMAIN overloads ELSE DOMAIN calls
  <1>1. /\ Len(chunk) \in Nat /\ DOMAIN chunk = 1..Len(chunk)
        /\ Len(todo) \in Nat /\ DOMAIN todo = 1..Len(todo)
        /\ DOMAIN calls = 1..Len(calls) /\ DOMAIN overloads = 1..Len(overloads)
    BY WorkFields DEF TypeOK, calls, overloads
  <1>2. \A k \in 1..Len(Asked) : Asked[k] \in Of
    <2>1. CASE phase \in {"hover", "ignore"}
      BY <2>1, <1>1, AskedList
    <2>2. CASE phase = "overload"
      BY <2>2, <1>1, AskedList
    <2>3. CASE phase = "def"
      BY <2>3, AskedList DEF AsksInOrder
    <2> QED
      BY <2>1, <2>2, <2>3 DEF TypeOK, Phases
  <1>3. Done \in Nat /\ Len(Asked) = Done + Len(chunk) + Len(todo) /\ Len(Asked) \in Nat
    BY <1>1, AskedList DEF AsksInOrder, Done
  <1>4. \A k \in DOMAIN chunk : Done + k \in 1..Len(Asked)
    BY <1>1, <1>3
  <1>5. \A k \in DOMAIN todo : Done + Len(chunk) + k \in 1..Len(Asked)
    BY <1>1, <1>3
  <1>6. \A k \in DOMAIN chunk : chunk[k].call \in Of
    BY <1>2, <1>4 DEF AsksInOrder
  <1>7. \A k \in DOMAIN todo : todo[k] \in Of
    BY <1>2, <1>5 DEF AsksInOrder
  <1> QED
    BY <1>6, <1>7

\* The answer in hand is used: a hover that depends on the definition keeps its call
\* at hand, any other answer is done with.
LEMMA UseEffect ==
    ASSUME TypeOK, AsksInOrder, pc = "take", NEW a, Use(a)
    PROVE  /\ chunk # <<>>
           /\ UNCHANGED <<nextId, opened, server, place, todo>>
           /\ \/ /\ phase = "hover" /\ a = "asks" /\ phase' = "ignore" /\ pc' = "ask"
                 /\ UNCHANGED <<chunk, needsDef, given, groupDef>>
              \/ /\ phase' = IF phase = "ignore" THEN "hover" ELSE phase
                 /\ Collected
                 /\ \/ UNCHANGED needsDef
                    \/ phase = "hover" /\ needsDef' = Append(needsDef, chunk[1].call)
  <1>1. chunk # <<>>
    BY DEF AsksInOrder
  <1>2. CASE phase = "hover" /\ UseHover(chunk[1].call, a)
    <2>1. CASE a = "asks"
      BY <1>1, <1>2, <2>1 DEF Use, UseHover
    <2>2. CASE a # "asks"
      <3>1. Collected /\ phase' = phase
        BY <1>2, <2>2 DEF UseHover
      <3>2. UNCHANGED needsDef \/ needsDef' = Append(needsDef, chunk[1].call)
        BY <1>2, <2>2 DEF UseHover
      <3> QED
        BY <1>1, <1>2, <3>1, <3>2 DEF Use
    <2> QED
      BY <2>1, <2>2
  <1>3. CASE phase = "ignore" /\ UseIgnore(chunk[1].call, a)
    BY <1>1, <1>3 DEF Use, UseIgnore
  <1>4. CASE phase = "def" /\ UseDef(chunk[1].call, a)
    BY <1>1, <1>4 DEF Use, UseDef
  <1>5. CASE phase = "overload" /\ UseOverload(a)
    BY <1>1, <1>5 DEF Use, UseOverload
  <1> QED
    BY <1>2, <1>3, <1>4, <1>5 DEF Use

\* What a phase asks about, if all it does is to come or go between a hover and its
\* ignore entry.
LEMMA AskedStays ==
    ASSUME TypeOK, work' = work,
           \/ phase' = phase /\ (phase = "def" => needsDef' = needsDef)
           \/ phase \in {"hover", "ignore"} /\ phase' \in {"hover", "ignore"}
    PROVE  Asked' = Asked
  <1>1. calls' = calls /\ overloads' = overloads
    BY DEF calls, overloads
  <1>2. CASE phase \in {"hover", "ignore"} /\ phase' \in {"hover", "ignore"}
    BY <1>1, <1>2 DEF Asked, UpTo
  <1>3. CASE phase' = phase /\ phase = "def"
    BY <1>1, <1>3 DEF Asked
  <1>4. CASE phase' = phase /\ phase = "overload"
    BY <1>1, <1>4 DEF Asked, UpTo
  <1> QED
    BY <1>2, <1>3, <1>4 DEF TypeOK, Phases

\* A step to the next call.
LEMMA CollectedEffect ==
    ASSUME TypeOK, chunk # <<>>, Collected
    PROVE  /\ chunk' \in Seq(Waits) /\ Len(chunk') = Len(chunk) - 1
           /\ Len(chunk) \in Nat /\ Len(chunk) >= 1
           /\ \A k \in DOMAIN chunk' : k + 1 \in DOMAIN chunk /\ chunk'[k] = chunk[k + 1]
           /\ pc' \in {"ask", "take"} /\ (pc' = "take" <=> chunk' # <<>>)
  <1>1. chunk \in Seq(Waits)
    BY DEF TypeOK, Waits
  <1>2. /\ Tail(chunk) \in Seq(Waits) /\ Len(Tail(chunk)) = Len(chunk) - 1 /\ Len(chunk) >= 1
        /\ \A k \in 1..(Len(chunk) - 1) : Tail(chunk)[k] = chunk[k + 1]
    BY <1>1, AfterFirst
  <1>3. chunk' = Tail(chunk) /\ pc' = IF Tail(chunk) = <<>> THEN "ask" ELSE "take"
    BY DEF Collected
  <1>4. Len(chunk) \in Nat /\ DOMAIN chunk = 1..Len(chunk)
    BY <1>1
  <1>5. DOMAIN Tail(chunk) = 1..(Len(chunk) - 1)
    BY <1>2
  <1> QED
    BY <1>2, <1>3, <1>4, <1>5

\* A phase goes on to its next call in order.
LEMMA UseKeepsOrder ==
    ASSUME TypeOK, AsksInOrder, pc = "take", NEW a, Use(a)
    PROVE  AsksInOrder' /\ Asked' = Asked
  <1>1. /\ work' = work /\ todo' = todo
        /\ Len(chunk) \in Nat /\ Len(todo) \in Nat /\ Done \in Nat
        /\ DOMAIN chunk = 1..Len(chunk)
    BY UseEffect DEF TypeOK, place, AsksInOrder, Asking
  <1>2. Asked' = Asked
    <2>1. \/ phase' = phase /\ (phase = "def" => needsDef' = needsDef)
          \/ phase \in {"hover", "ignore"} /\ phase' \in {"hover", "ignore"}
      BY UseEffect DEF TypeOK, Phases
    <2> QED
      BY <2>1, <1>1, AskedStays
  <1>3. Asking /\ Asking'
    BY UseEffect DEF Asking, Collected
  <1>4. phase' # "overload" => needsDef' \in Seq(DOMAIN calls')
    <2>1. calls' = calls /\ (phase' # "overload" => phase # "overload")
      BY <1>1, UseEffect DEF calls
    <2>2. phase # "overload" => needsDef \in Seq(DOMAIN calls)
      BY <1>3 DEF AsksInOrder
    <2>3. phase # "overload" => chunk[1].call \in DOMAIN calls
      BY <1>1, <1>3, AskedOne, UseEffect
    <2> QED
      BY <2>1, <2>2, <2>3, UseEffect, PutLast
  <1>5. CASE chunk' = chunk /\ phase' = "ignore" /\ pc' = "ask"
    <2>1. Done' = Done
      BY <1>1, <1>2, <1>5 DEF Done
    <2> QED
      BY <1>1, <1>2, <1>3, <1>4, <1>5, <2>1, UseEffect DEF AsksInOrder
  <1>6. CASE Collected /\ phase' = IF phase = "ignore" THEN "hover" ELSE phase
    <2>1. /\ Len(chunk') = Len(chunk) - 1
          /\ \A k \in DOMAIN chunk' : k + 1 \in DOMAIN chunk /\ chunk'[k] = chunk[k + 1]
          /\ pc' = "take" <=> chunk' # <<>>
          /\ DOMAIN chunk' \subseteq Nat /\ Len(chunk) >= 1
      BY <1>6, CollectedEffect, UseEffect
    <2>2. Done' = Done + 1
      BY <1>1, <1>2, <2>1, AskedList DEF Done
    <2>3. \A k \in DOMAIN chunk' : chunk'[k].call = Asked'[Done' + k]
      <3>1. \A k \in DOMAIN chunk : chunk[k].call = Asked[Done + k]
        BY <1>3 DEF AsksInOrder
      <3>2. \A k \in DOMAIN chunk' : Done + (k + 1) = Done' + k
        BY <2>1, <2>2, <1>1
      <3> QED
        BY <3>1, <3>2, <2>1, <1>2
    <2>4. \A k \in DOMAIN todo' : todo'[k] = Asked'[Done' + Len(chunk') + k]
      <3>1. \A k \in DOMAIN todo : todo[k] = Asked[Done + Len(chunk) + k]
        BY <1>3 DEF AsksInOrder
      <3>2. \A k \in DOMAIN todo : Done' + Len(chunk') + k = Done + Len(chunk) + k
        BY <2>1, <2>2, <1>1 DEF TypeOK
      <3> QED
        BY <3>1, <3>2, <1>1, <1>2
    <2>5. ~ (phase' = "ignore")
      BY <1>6
    <2>6. Done' \in Nat
      BY <1>1, <2>2
    <2>7. pc' = "take" \/ (pc' = "ask" /\ phase' = "ignore") => chunk' # <<>>
      BY <2>1, <2>5
    <2> QED
      BY <1>2, <1>3, <1>4, <2>3, <2>4, <2>6, <2>7 DEF AsksInOrder
  <1> QED
    BY <1>2, <1>5, <1>6, UseEffect

\* A call is reported.
LEMMA EmitTypes ==
    ASSUME TypeOK, NEW i, NEW b \in BOOLEAN, Emit(i, b), work' = work
    PROVE  /\ diags' \in [DOMAIN work'.calls -> Nat]
           /\ fixed' \in Nat /\ declined' \in Nat
  <1>1. diags' \in [DOMAIN work'.calls -> Nat]
    <2>1. diags' = [diags EXCEPT ![i] = @ + 1] /\ diags \in [DOMAIN work.calls -> Nat]
      BY DEF Emit, TypeOK
    <2>2. work'.calls = work.calls
      OBVIOUS
    <2> DEFINE D == DOMAIN work.calls
    <2>3. diags' \in [D -> Nat]
      <3> HIDE DEF D
      <3>1. diags \in [D -> Nat]
        BY <2>1 DEF D
      <3>2. diags' = [diags EXCEPT ![i] = diags[i] + 1]
        BY <2>1
      <3>3. i \in D => diags[i] + 1 \in Nat
        BY <3>1
      <3>4. \A n : (i \in D => n \in Nat) => [diags EXCEPT ![i] = n] \in [D -> Nat]
        BY <3>1
      <3> QED
        BY <3>2, <3>3, <3>4
    <2> QED
      BY <2>2, <2>3
  <1>3. /\ fixed' = fixed + Count(FixMode /\ b)
        /\ declined' = declined + Count(FixMode /\ ~b)
    BY DEF Emit
  <1>4. fixed \in Nat /\ declined \in Nat
    BY DEF TypeOK
  <1>5. Count(FixMode /\ b) \in Nat /\ Count(FixMode /\ ~b) \in Nat
    BY DEF Count
  <1> HIDE DEF Count
  <1> QED
    BY <1>1, <1>3, <1>4, <1>5

\* What the use of an answer leaves of a file's record.
LEMMA UseTypes ==
    ASSUME TypeOK, AsksInOrder, pc = "take", NEW a \in Answers \cup {Off}, Use(a),
           phase = "def" => a \in Definitions \cup {Off}
    PROVE  /\ diags' \in [DOMAIN work'.calls -> Nat]
           /\ fixed' \in Nat /\ declined' \in Nat
           /\ groupHover' \in [Groups -> Named \cup {Off}]
           /\ groupDef' \in [Groups -> Definitions \cup {Off}]
           /\ \A g \in Groups : /\ groupHover[g] # Off => groupHover'[g] # Off
                                /\ groupDef[g] # Off => groupDef'[g] # Off
  <1> DEFINE i == chunk[1].call
  <1>1. work' = work /\ Asking
    BY UseEffect DEF place, Asking
  <1>2. phase # "overload" => calls[i].static \in BOOLEAN /\ calls[i].group \in Groups \cup {0}
    <2>1. chunk # <<>> /\ 1 \in DOMAIN chunk
      BY UseEffect DEF TypeOK
    <2>2. phase # "overload" => i \in DOMAIN calls
      BY <1>1, <2>1, AskedOne
    <2> QED
      BY <2>2, WorkFields DEF TypeOK, calls
  <1>3. groupHover \in [Groups -> Named \cup {Off}] /\ groupDef \in [Groups -> Definitions \cup {Off}]
    BY DEF TypeOK
  <1>4. /\ diags \in [DOMAIN work.calls -> Nat] /\ fixed \in Nat /\ declined \in Nat
    BY DEF TypeOK
  <1>5. CASE phase = "hover" /\ UseHover(i, a)
    <2>1. diags' \in [DOMAIN work'.calls -> Nat] /\ fixed' \in Nat /\ declined' \in Nat
      <3>1. (a = "named" /\ ~calls[i].static) \in BOOLEAN
        OBVIOUS
      <3>2. UNCHANGED given \/ Emit(i, a = "named" /\ ~calls[i].static)
        BY <1>5 DEF UseHover
      <3> QED
        BY <1>1, <1>4, <3>1, <3>2, EmitTypes DEF given
    <2>2. UNCHANGED groupDef
      BY <1>5 DEF UseHover
    <2>3. \/ groupHover' = groupHover
          \/ a \in Named /\ groupHover' = [groupHover EXCEPT ![calls[i].group] = a]
      BY <1>5 DEF UseHover, Shareable
    <2>4. Off \notin Named
      BY DEF Off, Named
    <2> QED
      BY <1>3, <2>1, <2>2, <2>3, <2>4
  <1>6. CASE phase = "ignore" /\ UseIgnore(i, a)
    <2>1. diags' \in [DOMAIN work'.calls -> Nat] /\ fixed' \in Nat /\ declined' \in Nat
      <3>1. (~calls[i].static) \in BOOLEAN
        OBVIOUS
      <3>2. UNCHANGED given \/ Emit(i, ~calls[i].static)
        BY <1>6 DEF UseIgnore
      <3> QED
        BY <1>1, <1>4, <3>1, <3>2, EmitTypes DEF given
    <2>2. UNCHANGED <<groupHover, groupDef>>
      BY <1>6 DEF UseIgnore, caches
    <2> QED
      BY <1>3, <2>1, <2>2
  <1>7. CASE phase = "def" /\ UseDef(i, a)
    <2>1. diags' \in [DOMAIN work'.calls -> Nat] /\ fixed' \in Nat /\ declined' \in Nat
      <3>1. UNCHANGED given \/ Emit(i, FALSE)
        BY <1>7 DEF UseDef
      <3> QED
        BY <1>1, <1>4, <3>1, EmitTypes DEF given
    <2>2. UNCHANGED groupHover
      BY <1>7 DEF UseDef
    <2>3. \/ groupDef' = groupDef
          \/ a # Off /\ groupDef' = [groupDef EXCEPT ![calls[i].group] = a]
      BY <1>7 DEF UseDef
    <2> QED
      BY <1>3, <1>7, <2>1, <2>2, <2>3
  <1>8. CASE phase = "overload" /\ UseOverload(a)
    <2>1. diags' \in [DOMAIN work'.calls -> Nat] /\ fixed' \in Nat /\ declined' \in Nat
      BY <1>1, <1>4, <1>8 DEF UseOverload, Count
    <2>2. UNCHANGED <<groupHover, groupDef>>
      BY <1>8 DEF UseOverload, caches
    <2> QED
      BY <1>3, <2>1, <2>2
  <1> QED
    BY <1>5, <1>6, <1>7, <1>8 DEF Use

\* The use of an answer keeps every type that the steps of the client keep besides.
LEMMA UseKeepsTypes ==
    ASSUME TypeOK, AsksInOrder, pc = "take", NEW a \in Answers \cup {Off}, Use(a),
           phase = "def" => a \in Definitions \cup {Off},
           buffer' \subseteq Request, outstanding' \subseteq Request,
           disabled' \in BOOLEAN, bad' \subseteq Nat
    PROVE  TypeOK'
  <1>1. /\ UNCHANGED <<nextId, opened, server, file, work, attempt, todo>>
    BY UseEffect DEF place
  <1>2. phase' \in Phases /\ pc' \in {"ask", "take"}
    BY UseEffect DEF TypeOK, Phases, Collected
  <1>3. chunk' \in Seq([call: Nat, id: Nat])
    BY UseEffect, CollectedEffect DEF TypeOK, Waits
  <1>4. needsDef' \in Seq(Nat)
    <2>1. chunk \in Seq(Waits) /\ chunk # <<>>
      BY UseEffect DEF TypeOK, Waits
    <2>2. chunk[1] \in Waits
      BY <2>1, AfterFirst
    <2>3. chunk[1].call \in Nat
      BY <2>2 DEF Waits
    <2>4. needsDef \in Seq(Nat)
      BY DEF TypeOK
    <2>5. Append(needsDef, chunk[1].call) \in Seq(Nat)
      BY <2>3, <2>4, PutLast
    <2> QED
      BY <2>4, <2>5, UseEffect
  <1> QED
    BY <1>1, <1>2, <1>3, <1>4, UseTypes DEF TypeOK

\* The steps that use an answer, in common.
Takes(a) ==
    /\ pc = "take" /\ a \in Answers \cup {Off} /\ Use(a)
    /\ phase = "def" => a \in Definitions \cup {Off}
    /\ outstanding' \subseteq outstanding /\ buffer' \subseteq buffer
    /\ disabled' \in BOOLEAN /\ (disabled => disabled')
    /\ \/ bad' = bad
       \/ /\ disabled'
          /\ \E m \in outstanding : m.id = chunk[1].id /\ bad' = bad \cup {m.id}
    /\ ~disabled' =>
          a = IF Cached(phase, chunk[1].call) # Off THEN Cached(phase, chunk[1].call)
              ELSE Truth(phase, chunk[1].call)

\* They are these.
TakeStep ==
    \/ TakeCached \/ TakeNothing \/ TakeBuffered \/ Timeout \/ Disconnect
    \/ \E m \in outstanding : Receive(m)

\* What the cache holds is an answer, and where definitions are asked a definition.
LEMMA CachedTypes ==
    ASSUME TypeOK, AsksInOrder, Asking, chunk # <<>>
    PROVE  /\ Cached(phase, chunk[1].call) \in Answers \cup {Off}
           /\ phase = "def" => /\ Cached(phase, chunk[1].call) \in Definitions \cup {Off}
                               /\ Truth(phase, chunk[1].call) \in Definitions
  <1> DEFINE i == chunk[1].call
  <1>1. 1 \in DOMAIN chunk
    BY DEF TypeOK
  <1>2. phase # "overload" => i \in DOMAIN calls
    BY <1>1, AskedOne
  <1>3. phase # "overload" => /\ calls[i].group \in Groups \cup {0}
                              /\ calls[i].def \in Definitions
    BY <1>2, WorkFields DEF TypeOK, calls
  <1>4. CASE phase = "hover"
    <2>1. Cached(phase, i) = IF calls[i].group # 0 THEN groupHover[calls[i].group] ELSE Off
      BY <1>4 DEF Cached
    <2>2. groupHover \in [Groups -> Named \cup {Off}] /\ Named \subseteq Answers
      BY DEF TypeOK, Answers, Hovers
    <2> QED
      BY <2>1, <2>2, <1>3, <1>4
  <1>5. CASE phase = "def"
    <2>1. Cached(phase, i) = IF calls[i].group # 0 THEN groupDef[calls[i].group] ELSE Off
      BY <1>5 DEF Cached
    <2>2. groupDef \in [Groups -> Definitions \cup {Off}] /\ Definitions \subseteq Answers
      BY DEF TypeOK, Answers
    <2>3. Truth(phase, i) = calls[i].def
      BY <1>5 DEF Truth
    <2> QED
      BY <2>1, <2>2, <2>3, <1>3, <1>5
  <1>6. CASE phase \notin {"hover", "def"}
    <2>1. Cached(phase, i) = Off
      BY <1>6 DEF Cached
    <2> QED
      BY <2>1, <1>6
  <1> QED
    BY <1>4, <1>5, <1>6

\* A response to the request at hand carries its answer.
LEMMA AnswerInHand ==
    ASSUME IInv, pc = "take", NEW m \in outstanding \cup buffer, m.id = chunk[1].id
    PROVE  /\ m.answer \in Answers /\ m.id \in Nat
           /\ \/ m.answer = Truth(phase, chunk[1].call)
              \/ disabled /\ m.answer = "null"
  <1>1. 1 \in DOMAIN chunk
    BY DEF IInv, AsksInOrder, TypeOK
  <1>2. Asker(1) = phase
    BY DEF Asker
  <1>3. m \in Request
    BY DEF IInv, TypeOK
  <1> QED
    BY <1>1, <1>2, <1>3 DEF IInv, AnswersAreTrue, Asking, Request

\* Whichever answer is taken, it is the right one unless the client goes off.
LEMMA TakesOne ==
    ASSUME IInv, TakeStep
    PROVE  \E a : Takes(a)
  <1> DEFINE i == chunk[1].call
             c == Cached(phase, i)
  <1>1. pc = "take" /\ chunk # <<>> /\ Asking
    BY DEF TakeStep, TakeCached, TakeNothing, TakeBuffered, Timeout, Disconnect, Receive,
           Awaiting, Collecting, IInv, AsksInOrder, Asking
  <1>2. /\ c \in Answers \cup {Off}
        /\ phase = "def" => c \in Definitions \cup {Off} /\ Truth(phase, i) \in Definitions
    BY <1>1, CachedTypes DEF IInv
  <1>3. disabled \in BOOLEAN /\ Off \in Answers \cup {Off} /\ Off \in Definitions \cup {Off}
        /\ "null" \in Definitions
    BY DEF IInv, TypeOK, Definitions
  <1>4. CASE TakeCached
    <2>1. Takes(c)
      BY <1>1, <1>2, <1>3, <1>4 DEF TakeCached, Takes
    <2> QED
      BY <2>1
  <1>5. CASE TakeNothing
    <2>1. disabled
      <3>1. chunk[1].id = 0 /\ 1 \in DOMAIN chunk /\ c = Off
        BY <1>1, <1>5 DEF TakeNothing, Collecting, IInv, TypeOK
      <3>2. Asker(1) = phase
        BY DEF Asker
      <3> QED
        BY <1>1, <3>1, <3>2 DEF IInv, AnswersAreTrue
    <2>2. Takes(Off)
      BY <1>1, <1>3, <1>5, <2>1 DEF TakeNothing, Takes
    <2> QED
      BY <2>2
  <1>6. CASE TakeBuffered
    <2>1. PICK m \in buffer : /\ m.id = chunk[1].id /\ Use(m.answer) /\ buffer' = buffer \ {m}
                              /\ c = Off /\ UNCHANGED <<disabled, outstanding, bad>>
      BY <1>6 DEF TakeBuffered, Buffered, Collecting
    <2>2. /\ m.answer \in Answers
          /\ m.answer = Truth(phase, i) \/ (disabled /\ m.answer = "null")
      BY <1>1, <2>1, AnswerInHand
    <2>3. Takes(m.answer)
      BY <1>1, <1>2, <1>3, <2>1, <2>2 DEF Takes
    <2> QED
      BY <2>3
  <1>7. CASE Timeout
    <2>1. PICK m \in outstanding : m.id = chunk[1].id /\ bad' = bad \cup {m.id}
      BY <1>7 DEF Timeout, Awaiting
    <2>2. Use(Off) /\ disabled' = TRUE /\ UNCHANGED <<buffer, outstanding>>
      BY <1>7 DEF Timeout
    <2>3. Takes(Off)
      BY <1>1, <1>3, <2>1, <2>2 DEF Takes
    <2> QED
      BY <2>3
  <1>8. CASE Disconnect
    <2>1. Takes(Off)
      BY <1>1, <1>3, <1>8 DEF Disconnect, Takes
    <2> QED
      BY <2>1
  <1>9. ASSUME NEW m \in outstanding, Receive(m) PROVE \E a : Takes(a)
    <2>1. m.id = chunk[1].id /\ c = Off /\ outstanding' = outstanding \ {m} /\ buffer' = buffer
      BY <1>9 DEF Receive, Awaiting, Collecting
    <2>2. CASE Use(m.answer) /\ UNCHANGED <<disabled, bad>>
      <3>1. /\ m.answer \in Answers
            /\ m.answer = Truth(phase, i) \/ (disabled /\ m.answer = "null")
        BY <1>1, <2>1, AnswerInHand
      <3>2. Takes(m.answer)
        BY <1>1, <1>2, <1>3, <2>1, <2>2, <3>1 DEF Takes
      <3> QED
        BY <3>2
    <2>3. CASE Use(Off) /\ disabled' = TRUE /\ bad' = bad \cup {m.id}
      <3>1. Takes(Off)
        BY <1>1, <1>3, <2>1, <2>3 DEF Takes
      <3> QED
        BY <3>1
    <2> QED
      BY <1>9, <2>2, <2>3 DEF Receive
  <1> QED
    BY <1>4, <1>5, <1>6, <1>7, <1>8, <1>9 DEF TakeStep

\* A step that uses an answer keeps the types, the order and the ids.
LEMMA TakeKeepsTypes ==
    ASSUME IInv, NEW a, Takes(a)
    PROVE  TypeOK'
  <1>1. buffer' \subseteq Request /\ outstanding' \subseteq Request /\ bad' \subseteq Nat
    BY DEF IInv, TypeOK, Takes, Request
  <1> QED
    BY <1>1, UseKeepsTypes DEF Takes, IInv

\* What the use of an answer leaves in the cache.
LEMMA CacheStays ==
    ASSUME TypeOK, work' = work,
           \A g \in Groups : /\ groupHover[g] # Off => groupHover'[g] # Off
                             /\ groupDef[g] # Off => groupDef'[g] # Off,
           NEW step, NEW i, step \in {"hover", "def"} => i \in DOMAIN calls
    PROVE  /\ Truth(step, i)' = Truth(step, i)
           /\ Cached(step, i) # Off => Cached(step, i)' # Off
  <1>1. calls' = calls /\ overloads' = overloads
    BY DEF calls, overloads
  <1>2. step \in {"hover", "def"} => calls[i].group \in Groups \cup {0}
    BY WorkFields DEF TypeOK, calls
  <1>3. Truth(step, i)' = Truth(step, i)
    BY <1>1 DEF Truth
  <1>4. CASE step = "hover"
    BY <1>1, <1>2, <1>4, <1>3 DEF Cached
  <1>5. CASE step = "def"
    BY <1>1, <1>2, <1>5, <1>3 DEF Cached
  <1>6. CASE step \notin {"hover", "def"}
    BY <1>6, <1>3 DEF Cached
  <1> QED
    BY <1>4, <1>5, <1>6

\* The calls that wait after an answer is used, and who asked for them.
LEMMA WaitsAfter ==
    ASSUME TypeOK, AsksInOrder, pc = "take", NEW a, Use(a), NEW k \in DOMAIN chunk'
    PROVE  \E j \in DOMAIN chunk :
              /\ chunk'[k] = chunk[j]
              /\ (pc' = "ask" /\ phase' = "ignore" => k # 1) =>
                    Asker(k)' = Asker(j)
  <1>1. CASE phase = "hover" /\ phase' = "ignore" /\ pc' = "ask" /\ chunk' = chunk
    BY <1>1 DEF Asker
  <1>2. CASE /\ phase' = IF phase = "ignore" THEN "hover" ELSE phase
             /\ Collected
    <2>1. k + 1 \in DOMAIN chunk /\ chunk'[k] = chunk[k + 1]
      BY <1>2, UseEffect, CollectedEffect
    <2>2. k \in Nat /\ k >= 1
      BY <2>1, <1>2, UseEffect, CollectedEffect
    <2>3. Asker(k)' = Asker(k + 1)
      BY <1>2, <2>2 DEF Asker
    <2> QED
      BY <2>1, <2>3
  <1> QED
    BY <1>1, <1>2, UseEffect

\* A step that uses an answer leaves the right answers to the calls that wait.
LEMMA TakeKeepsAnswers ==
    ASSUME IInv, NEW a, Takes(a)
    PROVE  AnswersAreTrue'
  <1>1. /\ TypeOK /\ AsksInOrder /\ Asking /\ pc = "take" /\ Use(a)
    BY DEF IInv, Takes, Asking
  <1>2. /\ work' = work
        /\ \A g \in Groups : /\ groupHover[g] # Off => groupHover'[g] # Off
                             /\ groupDef[g] # Off => groupDef'[g] # Off
    BY <1>1, UseEffect, UseTypes DEF Takes, place
  <1> SUFFICES ASSUME NEW k \in DOMAIN chunk',
                      pc' = "ask" /\ phase' = "ignore" => k # 1
               PROVE  /\ chunk'[k].id = 0 =>
                            disabled' \/ Cached(Asker(k), chunk[k].call)' # Off
                      /\ \A m \in outstanding' \cup buffer' : m.id = chunk'[k].id =>
                            \/ m.answer = Truth(Asker(k), chunk[k].call)'
                            \/ disabled' /\ m.answer = "null"
    BY DEF AnswersAreTrue
  <1>3. PICK j \in DOMAIN chunk : /\ chunk'[k] = chunk[j] /\ Asker(k)' = Asker(j)
    BY <1>1, WaitsAfter
  <1>4. /\ chunk[j].id = 0 => disabled \/ Cached(Asker(j), chunk[j].call) # Off
        /\ \A m \in outstanding \cup buffer : m.id = chunk[j].id =>
              \/ m.answer = Truth(Asker(j), chunk[j].call)
              \/ disabled /\ m.answer = "null"
    BY <1>1 DEF IInv, AnswersAreTrue
  <1>5. Asker(j) \in {"hover", "def"} => chunk[j].call \in DOMAIN calls
    BY <1>1, AskedOne DEF Asker
  <1>6. PICK step, i : step = Asker(j) /\ i = chunk[j].call
    OBVIOUS
  <1>7. /\ Truth(step, i)' = Truth(step, i)
        /\ Cached(step, i) # Off => Cached(step, i)' # Off
    BY <1>1, <1>2, <1>5, <1>6, CacheStays
  <1>8. /\ Truth(Asker(k), chunk[k].call)' = Truth(step, i)'
        /\ Cached(Asker(k), chunk[k].call)' = Cached(step, i)'
    <2>1. Asker(k)' = step /\ chunk[k].call' = i
      BY <1>3, <1>6
    <2> QED
      BY <2>1 DEF Truth, Cached
  <1>9. outstanding' \subseteq outstanding /\ buffer' \subseteq buffer /\ (disabled => disabled')
    BY DEF Takes
  <1> QED
    BY <1>3, <1>4, <1>6, <1>7, <1>8, <1>9

\* A step that uses an answer keeps the ids.
LEMMA TakeKeepsIds ==
    ASSUME IInv, NEW a, Takes(a)
    PROVE  IdsAreFresh' /\ AsksServer'
  <1>1. /\ TypeOK /\ AsksInOrder /\ pc = "take" /\ Use(a)
    BY DEF IInv, Takes
  <1>2. UNCHANGED <<nextId, server>> /\ pc' \in {"ask", "take"} /\ chunk # <<>>
    BY <1>1, UseEffect DEF Collected
  <1>3. /\ outstanding' \subseteq outstanding /\ buffer' \subseteq buffer
        /\ (disabled => disabled')
        /\ \/ bad' = bad
           \/ disabled' /\ \E m \in outstanding : bad' = bad \cup {m.id}
    BY DEF Takes
  <1>4. \A k \in DOMAIN chunk' : \E j \in DOMAIN chunk : chunk'[k] = chunk[j]
    BY <1>1, WaitsAfter
  <1>5. IdsAreFresh
    BY DEF IInv
  <1>6. \A m \in outstanding' \cup buffer' : m.id \in 1..(nextId' - 1)
    BY <1>2, <1>3, <1>5 DEF IdsAreFresh
  <1>7. \A m, o \in outstanding' : m.id = o.id => m = o
    BY <1>3, <1>5 DEF IdsAreFresh
  <1>8. \A k \in DOMAIN chunk' : chunk'[k].id < nextId'
    BY <1>2, <1>4, <1>5 DEF IdsAreFresh
  <1>9. \A x \in bad' : x \in 1..(nextId' - 1)
    BY <1>2, <1>3, <1>5 DEF IdsAreFresh
  <1>10. IsFiniteSet(bad')
    BY <1>3, <1>5, FS_AddElement DEF IdsAreFresh
  <1>11. ~disabled' => \A k \in DOMAIN chunk' : chunk'[k].id \notin bad'
    BY <1>3, <1>4, <1>5 DEF IdsAreFresh
  <1>12. AsksServer'
    BY <1>1, <1>2 DEF IInv, AsksServer
  <1> QED
    BY <1>6, <1>7, <1>8, <1>9, <1>10, <1>11, <1>12 DEF IdsAreFresh

\* A step that uses an answer keeps the inductive invariant.
LEMMA TakeKeepsIInv ==
    ASSUME IInv, NEW a, Takes(a)
    PROVE  IInv'
  <1>1. AsksInOrder'
    BY UseKeepsOrder DEF Takes, IInv
  <1> QED
    BY <1>1, TakeKeepsTypes, TakeKeepsIds, TakeKeepsAnswers DEF IInv

\* The types put the phase's calls in a list, also after a step.
LEMMA AskedTypes == TypeOK => Asked \in Seq(Nat) /\ Len(Asked) \in Nat
  BY AskedList

\* A step from where nothing is awaited to where nothing is, at which a phase may begin.
Turn == /\ chunk = <<>> /\ chunk' = <<>>
        /\ UNCHANGED <<buffer, outstanding, bad>> /\ nextId' >= nextId
        /\ pc' # "take"
        /\ pc' = "ask" => /\ phase' # "ignore" /\ todo' = Asked'
                          /\ phase' # "overload" => needsDef' \in Seq(DOMAIN calls')

\* It keeps the order, the ids and the answers.
LEMMA TurnKeepsIInv ==
    ASSUME IInv, Turn, TypeOK', AsksServer'
    PROVE  IInv' /\ (pc' = "ask" => Done' = 0)
  <1>1. Len(chunk') = 0 /\ DOMAIN chunk' = {}
    BY DEF Turn
  <1>2. pc' = "ask" => Done' = 0
    <2>1. (TypeOK => Asked \in Seq(Nat) /\ Len(Asked) \in Nat)'
      BY AskedTypes, PTL
    <2> QED
      BY <1>1, <2>1 DEF Done, Turn
  <1>3. AsksInOrder'
    <2>1. Asking' => pc' = "ask"
      BY DEF Asking, Turn
    <2>2. pc' = "ask" => \A k \in DOMAIN todo' : todo'[k] = Asked'[Done' + Len(chunk') + k]
      <3>1. pc' = "ask" => \A k \in DOMAIN todo' : Done' + Len(chunk') + k = k
        BY <1>1, <1>2 DEF TypeOK
      <3> QED
        BY <3>1 DEF Turn
    <2> QED
      BY <1>1, <1>2, <2>1, <2>2 DEF AsksInOrder, Turn
  <1>4. AnswersAreTrue'
    BY <1>1 DEF AnswersAreTrue
  <1>5. nextId \in Nat /\ nextId' \in Nat /\ nextId' >= nextId
    BY DEF IInv, TypeOK, Turn
  <1>6. 1..(nextId - 1) \subseteq 1..(nextId' - 1)
    <2>1. \A m, n \in Nat : n >= m => 1..(m - 1) \subseteq 1..(n - 1)
      OBVIOUS
    <2> QED
      BY <1>5, <2>1
  <1>7. IdsAreFresh'
    BY <1>1, <1>6 DEF IInv, IdsAreFresh, Turn
  <1> QED
    BY <1>2, <1>3, <1>4, <1>7 DEF IInv

\* The steps between files, attempts and phases.
TurnStep == \/ BeginFile \/ EnterFile \/ BeginAttempt \/ EndPhase
            \/ Normalize \/ Judge \/ BeginOverloads \/ EndFile

\* The static calls of a file are so many.
LEMMA Statics ==
    ASSUME NEW w \in Work
    PROVE  LET statics == {i \in DOMAIN w.calls : w.calls[i].static}
           IN /\ IsFiniteSet(statics) /\ Cardinality(statics) \in Nat
  <1>1. Len(w.calls) \in Nat /\ DOMAIN w.calls = 1..Len(w.calls)
    BY WorkFields
  <1>2. IsFiniteSet(1..Len(w.calls))
    BY <1>1, FS_Interval
  <1>3. IsFiniteSet({i \in DOMAIN w.calls : w.calls[i].static})
    BY <1>1, <1>2, FS_Subset
  <1> QED
    BY <1>3, FS_CardinalityType

\* What a product with a truth value counts.
LEMMA Counted ==
    ASSUME NEW n \in Nat, NEW b \in BOOLEAN
    PROVE  n * Count(b) \in Nat /\ n * Count(b) = IF b THEN n ELSE 0
  BY DEF Count

\* A turn begins with nothing awaited.
LEMMA TurnFrom ==
    ASSUME IInv, TurnStep
    PROVE  chunk = <<>> /\ pc # "take"
  BY DEF TurnStep, BeginFile, EnterFile, BeginAttempt, EndPhase, Normalize, Judge,
         BeginOverloads, EndFile, IInv, AsksInOrder, Asking

\* The server is started once.
LEMMA StartEffect ==
    ASSUME IInv, NEW next, NEW onFailure, StartServer(next, onFailure)
    PROVE  /\ nextId' \in Nat /\ nextId' >= nextId
           /\ \/ server' = "up" /\ pc' = next
              \/ server' = "absent" /\ pc' = onFailure /\ nextId' = 1
  BY DEF StartServer, IInv, TypeOK, AsksServer

\* The steps that neither begin a phase nor count anything.
LEMMA PlainTurns ==
    ASSUME IInv, BeginFile \/ EnterFile \/ Judge \/ EndFile
    PROVE  Turn /\ TypeOK' /\ AsksServer'
  <1>1. TypeOK /\ AsksServer
    BY DEF IInv
  <1>2. chunk = <<>>
    BY TurnFrom DEF TurnStep
  <1>3. CASE BeginFile
    <2>1. PICK w \in Works : work' = w /\ diags' = Untold(w)
      BY <1>3 DEF BeginFile
    <2>2. work' \in Work /\ diags' \in [DOMAIN work'.calls -> Nat]
      BY <2>1, WorksAssumption, WorkFields
    <2>3. TypeOK'
      BY <1>1, <1>3, <2>2 DEF TypeOK, BeginFile, client, backend, loop, caches
    <2>4. AsksServer'
      BY <1>1, <1>3 DEF AsksServer, BeginFile, client, backend
    <2>5. Turn
      BY <1>1, <1>2, <1>3 DEF Turn, BeginFile, client, backend, loop, TypeOK
    <2> QED
      BY <2>3, <2>4, <2>5
  <1>4. CASE EnterFile
    <2>1. /\ UNCHANGED <<opened, buffer, disabled, outstanding, file, work, attempt, phase,
                         todo, chunk, needsDef, groupHover, groupDef, diags, fixed, declined,
                         bad>>
      BY <1>4 DEF EnterFile, place, loop, caches, given
    <2>2. /\ nextId' \in Nat /\ nextId' >= nextId
          /\ server' \in {"unstarted", "up", "dead", "absent"}
          /\ pc' \in {"overloads", "attempt", "failed"}
          /\ pc' = "attempt" => server' \in {"up", "dead"}
          /\ server' \in {"unstarted", "absent"} => nextId' = 1
      <3>1. CASE /\ calls = <<>> \/ server = "absent"
                 /\ pc' = "overloads" /\ UNCHANGED <<server, nextId>>
        BY <1>1, <3>1 DEF TypeOK, AsksServer
      <3>2. CASE StartServer("attempt", "failed")
        BY <3>2, StartEffect
      <3>3. CASE /\ server \in {"up", "dead"} /\ pc' = "attempt"
                 /\ UNCHANGED <<server, nextId>>
        BY <1>1, <3>3 DEF TypeOK, AsksServer
      <3> QED
        BY <1>4, <3>1, <3>2, <3>3 DEF EnterFile
    <2>3. TypeOK'
      BY <1>1, <2>1, <2>2 DEF TypeOK
    <2>4. AsksServer'
      BY <2>2 DEF AsksServer
    <2>5. Turn
      BY <1>2, <2>1, <2>2 DEF Turn
    <2> QED
      BY <2>3, <2>4, <2>5
  <1>5. CASE Judge
    <2>1. /\ UNCHANGED <<nextId, opened, buffer, server, outstanding, file, work, phase,
                         todo, chunk, needsDef, groupHover, groupDef, bad>>
          /\ disabled' = FALSE /\ pc = "judge"
      BY <1>5 DEF Judge, backend, loop, caches
    <2>2. /\ attempt' \in Nat /\ fixed' \in Nat /\ declined' \in Nat
          /\ diags' \in [DOMAIN work'.calls -> Nat]
          /\ pc' \in {"overloads", "attempt", "failed"}
      <3>1. Untold(work) \in [DOMAIN work.calls -> Nat]
        BY <1>1, WorkFields DEF TypeOK
      <3> QED
        BY <1>1, <1>5, <2>1, <3>1 DEF Judge, Undo, given, TypeOK
    <2>3. TypeOK'
      BY <1>1, <2>1, <2>2 DEF TypeOK
    <2>4. AsksServer'
      BY <1>1, <2>1 DEF AsksServer
    <2>5. Turn
      BY <1>1, <1>2, <2>1, <2>2 DEF Turn, TypeOK
    <2> QED
      BY <2>3, <2>4, <2>5
  <1>6. CASE EndFile
    <2>1. /\ UNCHANGED <<nextId, opened, buffer, disabled, server, outstanding, work, attempt,
                         phase, todo, chunk, needsDef, groupHover, groupDef, diags, fixed,
                         declined, bad>>
      BY <1>6 DEF EndFile, client, backend, loop, caches, given
    <2>2. file' \in 1..Files /\ pc' \in {"file", "ok"}
      BY <1>1, <1>6, FilesAssumption DEF EndFile, TypeOK
    <2>3. TypeOK'
      BY <1>1, <2>1, <2>2 DEF TypeOK
    <2>4. AsksServer'
      BY <1>1, <2>1, <2>2 DEF AsksServer
    <2>5. Turn
      BY <1>1, <1>2, <2>1, <2>2 DEF Turn, TypeOK
    <2> QED
      BY <2>3, <2>4, <2>5
  <1> QED
    BY <1>3, <1>4, <1>5, <1>6

\* What is asked about from its beginning.
LEMMA AskedFrom ==
    ASSUME NEW n \in Nat
    PROVE  UpTo(n) \in Seq(Nat)
  BY DEF UpTo

\* An attempt begins with the hovers, when the file can be announced.
LEMMA AttemptTurns ==
    ASSUME IInv, BeginAttempt
    PROVE  Turn /\ TypeOK' /\ AsksServer'
  <1>1. TypeOK /\ AsksServer /\ pc = "attempt" /\ chunk = <<>>
    BY TurnFrom DEF TurnStep, IInv, BeginAttempt
  <1>2. /\ UNCHANGED <<nextId, buffer, server, outstanding, file, work, attempt,
                       diags, fixed, declined, bad>>
        /\ phase' = "hover" /\ chunk' = <<>> /\ needsDef' = <<>>
        /\ groupHover' = [g \in Groups |-> Off] /\ groupDef' = [g \in Groups |-> Off]
        /\ Open
        /\ \/ CanOpen /\ pc' = "ask" /\ todo' = UpTo(Len(calls))
           \/ pc' = "judge" /\ todo' = todo
    BY DEF BeginAttempt, backend, place, given
  <1>3. opened' \subseteq 1..Files /\ disabled' \in BOOLEAN
    <2>1. file \in 1..Files /\ opened \subseteq 1..Files
      BY <1>1 DEF TypeOK
    <2>2. disabled' = ~CanOpen /\ (opened' = opened \/ opened' = opened \cup {file})
      BY <1>2 DEF Open
    <2> QED
      BY <2>1, <2>2
  <1>4. todo' \in Seq(Nat)
    BY <1>1, <1>2, AskedFrom, WorkFields DEF TypeOK, calls
  <1>5. calls' = calls
    BY <1>2 DEF calls
  <1>6. TypeOK'
    BY <1>1, <1>2, <1>3, <1>4 DEF TypeOK, Phases
  <1>7. AsksServer'
    BY <1>1, <1>2 DEF AsksServer
  <1>8. Turn
    <2>1. pc' = "ask" => todo' = Asked'
      BY <1>2, <1>5 DEF Asked
    <2> QED
      BY <1>1, <1>2, <2>1 DEF Turn, TypeOK
  <1> QED
    BY <1>6, <1>7, <1>8

\* The definitions are asked for after the hovers.
LEMMA EndPhaseTurns ==
    ASSUME IInv, EndPhase
    PROVE  Turn /\ TypeOK' /\ AsksServer'
  <1>1. TypeOK /\ AsksServer /\ AsksInOrder /\ pc = "ask" /\ chunk = <<>>
    BY DEF IInv, EndPhase
  <1>2. /\ UNCHANGED <<nextId, opened, buffer, disabled, server, outstanding, file, work,
                       attempt, chunk, needsDef, groupHover, groupDef, diags, fixed,
                       declined, bad>>
    BY DEF EndPhase, client, backend, place, caches, given
  <1>3. \/ phase = "hover" /\ phase' = "def" /\ todo' = needsDef /\ pc' = "ask"
        \/ phase = "def" /\ pc' = "normalize" /\ UNCHANGED <<phase, todo>>
        \/ phase = "overload" /\ pc' = "filed" /\ UNCHANGED <<phase, todo>>
    BY <1>1 DEF EndPhase, TypeOK, Phases
  <1>4. TypeOK'
    BY <1>1, <1>2, <1>3 DEF TypeOK, Phases
  <1>5. AsksServer'
    BY <1>1, <1>2, <1>3 DEF AsksServer
  <1>6. Turn
    <2>1. pc' = "ask" => todo' = Asked'
      BY <1>2, <1>3 DEF Asked
    <2>2. pc' = "ask" => needsDef' \in Seq(DOMAIN calls')
      BY <1>1, <1>2, <1>3 DEF AsksInOrder, Asking, calls
    <2> QED
      BY <1>1, <1>2, <1>3, <2>1, <2>2 DEF Turn, TypeOK
  <1> QED
    BY <1>4, <1>5, <1>6

\* The static calls are given their diagnostics.
LEMMA NormalizeTurns ==
    ASSUME IInv, Normalize
    PROVE  Turn /\ TypeOK' /\ AsksServer'
  <1> DEFINE statics == {i \in DOMAIN calls : calls[i].static}
  <1>1. TypeOK /\ AsksServer /\ pc = "normalize" /\ chunk = <<>>
    BY TurnFrom DEF TurnStep, IInv, Normalize
  <1>2. /\ UNCHANGED <<nextId, opened, buffer, disabled, server, outstanding, file, work,
                       attempt, phase, todo, chunk, needsDef, groupHover, groupDef, fixed,
                       bad>>
        /\ pc' = "judge"
    BY DEF Normalize, client, backend, place, loop, caches
  <1>3. declined' \in Nat
    <2>1. Cardinality(statics) \in Nat /\ FixMode \in BOOLEAN /\ declined \in Nat
      BY <1>1, Statics, ModeAssumption DEF TypeOK, calls
    <2>2. Cardinality(statics) * Count(FixMode) \in Nat
      BY <2>1, Counted
    <2>3. declined' = declined + Cardinality(statics) * Count(FixMode)
      BY DEF Normalize
    <2> HIDE DEF statics
    <2> QED
      BY <2>1, <2>2, <2>3
  <1>4. diags' \in [DOMAIN work'.calls -> Nat]
    <2>1. diags \in [DOMAIN work.calls -> Nat]
      BY <1>1 DEF TypeOK
    <2>2. diags' = [i \in DOMAIN work.calls |-> IF i \in statics THEN 1 ELSE diags[i]]
      BY <2>1 DEF Normalize
    <2> QED
      BY <1>2, <2>1, <2>2
  <1>5. TypeOK'
    BY <1>1, <1>2, <1>3, <1>4 DEF TypeOK
  <1>6. AsksServer'
    BY <1>1, <1>2 DEF AsksServer
  <1>7. Turn
    BY <1>1, <1>2 DEF Turn, TypeOK
  <1> QED
    BY <1>5, <1>6, <1>7

\* The overloads' signatures are asked for, or all of them declined.
LEMMA OverloadsTurn ==
    ASSUME IInv, BeginOverloads
    PROVE  Turn /\ TypeOK' /\ AsksServer'
  <1>1. TypeOK /\ AsksServer /\ pc = "overloads" /\ chunk = <<>>
    BY TurnFrom DEF TurnStep, IInv, BeginOverloads
  <1>2. /\ UNCHANGED <<buffer, outstanding, file, work, attempt, chunk, needsDef, groupHover,
                       groupDef, diags, fixed, bad>>
    BY DEF BeginOverloads, place, caches
  <1>3. Len(overloads) \in Nat /\ declined \in Nat
    BY <1>1, WorkFields DEF TypeOK, overloads
  <1>4. disabled \in BOOLEAN /\ opened \subseteq 1..Files
    BY <1>1 DEF TypeOK
  <1>5. /\ nextId' \in Nat /\ nextId' >= nextId
        /\ server' \in {"unstarted", "up", "dead", "absent"}
        /\ server' \in {"unstarted", "absent"} => nextId' = 1
        /\ opened' \subseteq 1..Files /\ disabled' \in BOOLEAN
        /\ declined' \in Nat
        /\ \/ pc' \in {"overloads", "filed"} /\ UNCHANGED <<phase, todo>>
           \/ /\ pc' = "ask" /\ phase' = "overload" /\ todo' = UpTo(Len(overloads))
              /\ server' \in {"up", "dead"}
    <2>1. CASE pc' = "filed" /\ UNCHANGED <<opened, disabled, server, nextId, phase, todo, declined>>
      BY <1>1, <1>3, <1>4, <2>1 DEF TypeOK, AsksServer
    <2>2. CASE /\ StartServer("overloads", "filed")
               /\ declined' = declined + Len(overloads) * Count(server' = "absent")
               /\ UNCHANGED <<opened, disabled, phase, todo>>
      <3>1. Len(overloads) * Count(server' = "absent") \in Nat
        BY <1>3, Counted
      <3>2. declined' \in Nat
        BY <1>3, <2>2, <3>1
      <3> QED
        BY <1>1, <1>4, <2>2, <3>2, StartEffect DEF TypeOK
    <2>3. CASE /\ server \in {"up", "dead"} /\ CanOpen /\ Open
               /\ phase' = "overload" /\ todo' = UpTo(Len(overloads)) /\ pc' = "ask"
               /\ UNCHANGED <<server, nextId, declined>>
      <3>1. opened' = opened \cup {file} /\ disabled' = FALSE
        BY <2>3 DEF Open
      <3>2. file \in 1..Files /\ nextId \in Nat
        BY <1>1 DEF TypeOK
      <3>3. opened' \subseteq 1..Files
        BY <1>4, <3>1, <3>2
      <3>4. /\ server' = server /\ nextId' = nextId /\ declined' = declined
            /\ server \in {"up", "dead"}
        BY <2>3
      <3>5. nextId >= nextId
        BY <3>2
      <3>6. disabled' \in BOOLEAN
        BY <3>1
      <3> QED
        BY <1>3, <2>3, <3>2, <3>3, <3>4, <3>5, <3>6
    <2>4. CASE /\ \/ server = "absent" /\ UNCHANGED <<opened, disabled>>
                  \/ server \in {"up", "dead"} /\ ~CanOpen /\ Open
               /\ declined' = declined + Len(overloads)
               /\ pc' = "filed"
               /\ UNCHANGED <<server, nextId, phase, todo>>
      <3>1. opened' = opened /\ disabled' \in BOOLEAN
        BY <1>4, <2>4 DEF Open
      <3> QED
        BY <1>1, <1>3, <1>4, <2>4, <3>1 DEF TypeOK, AsksServer
    <2> QED
      BY <2>1, <2>2, <2>3, <2>4 DEF BeginOverloads
  <1>6. todo' \in Seq(Nat)
    BY <1>1, <1>3, <1>5, AskedFrom DEF TypeOK
  <1>7. TypeOK'
    BY <1>1, <1>2, <1>5, <1>6 DEF TypeOK, Phases
  <1>8. AsksServer'
    BY <1>1, <1>2, <1>5 DEF AsksServer
  <1>9. Turn
    <2>1. overloads' = overloads
      BY <1>2 DEF overloads
    <2>2. pc' = "ask" => todo' = Asked'
      BY <1>5, <2>1 DEF Asked
    <2> QED
      BY <1>1, <1>2, <1>5, <2>2 DEF Turn
  <1> QED
    BY <1>7, <1>8, <1>9

\* What becomes of call i, whose request is sent, found cached or refused: it waits for
\* an id that is its own, or for nothing.
Sent(i, id) ==
    \/ Send(i, id)
    \/ Cached(phase, i) # Off /\ id = 0 /\ UNCHANGED <<nextId, disabled, outstanding>>

\* The answer ty has is an answer.
LEMMA TruthTypes ==
    ASSUME TypeOK, NEW i \in IF phase = "overload" THEN DOMAIN overloads ELSE DOMAIN calls
    PROVE  Truth(phase, i) \in Answers
  <1>1. work \in Work /\ phase \in {"hover", "ignore", "def", "overload"}
    BY DEF TypeOK, Phases
  <1>2. CASE phase \in {"hover", "ignore", "def"}
    <2>1. calls[i].hover \in Hovers /\ calls[i].def \in Definitions
      BY <1>1, <1>2, WorkFields DEF calls
    <2> QED
      BY <1>2, <2>1 DEF Truth, Answers
  <1>3. CASE phase = "overload"
    <2>1. overloads[i] \in {"named", "arms", "null"}
      BY <1>1, <1>3, WorkFields DEF overloads
    <2> QED
      BY <1>3, <2>1 DEF Truth, Answers, Hovers, Named
  <1> QED
    BY <1>1, <1>2, <1>3

\* A call that waits has an id.
LEMMA WaitFields ==
    ASSUME TypeOK
    PROVE  \A k \in DOMAIN chunk : /\ chunk[k] \in Waits
                                   /\ chunk[k].call \in Nat /\ chunk[k].id \in Nat
  <1>1. chunk \in Seq(Waits)
    BY DEF TypeOK, Waits
  <1>2. \A k \in DOMAIN chunk : chunk[k] \in Waits
    BY <1>1
  <1>3. \A c \in Waits : c.call \in Nat /\ c.id \in Nat
    BY DEF Waits
  <1> QED
    BY <1>2, <1>3

\* The id is fresh, and only the request's own answer comes under it.
LEMMA SentEffect ==
    ASSUME IInv, NEW i, NEW id \in Nat, Sent(i, id), Truth(phase, i) \in Answers
    PROVE  /\ nextId' \in Nat \ {0} /\ nextId' >= nextId /\ id < nextId' /\ id \notin bad
           /\ nextId \in Nat \ {0}
           /\ outstanding' \subseteq Request /\ disabled' \in BOOLEAN
           /\ disabled => disabled'
           /\ id = 0 => disabled' \/ Cached(phase, i) # Off
           /\ \A m \in outstanding' \cup buffer : m.id \in 1..(nextId' - 1)
           /\ \A m, o \in outstanding' : m.id = o.id => m = o
           /\ \A m \in outstanding' : m \in outstanding \/ m.id = nextId
           /\ \A m \in outstanding' \cup buffer : m.id = id => m.answer = Truth(phase, i)
  <1>1. /\ nextId \in Nat \ {0} /\ outstanding \subseteq Request /\ disabled \in BOOLEAN
        /\ \A m \in outstanding \cup buffer : m.id \in 1..(nextId - 1)
        /\ \A m, o \in outstanding : m.id = o.id => m = o
        /\ \A x \in bad : x \in 1..(nextId - 1)
    BY DEF IInv, TypeOK, IdsAreFresh
  <1>2. CASE id = 0 /\ outstanding' = outstanding
    <2>1. /\ nextId' = nextId \/ nextId' = nextId + 1
          /\ disabled' = disabled \/ disabled' = TRUE
          /\ disabled' \/ Cached(phase, i) # Off
      BY <1>1, <1>2 DEF Sent, Send
    <2>2. \A m \in outstanding' \cup buffer : m.id \in 1..(nextId' - 1) /\ m.id # id
      BY <1>1, <1>2, <2>1
    <2>3. id \notin bad
      BY <1>1, <1>2
    <2>4. nextId' \in Nat \ {0} /\ nextId' >= nextId /\ id < nextId'
      BY <1>1, <1>2, <2>1
    <2>5. disabled' \in BOOLEAN /\ (disabled => disabled')
      <3>1. CASE disabled' = disabled
        BY <1>1, <3>1
      <3>2. CASE disabled' = TRUE
        BY <3>2
      <3> QED
        BY <2>1, <3>1, <3>2
    <2>6. \A m \in outstanding' \cup buffer : m.id = id => m.answer = Truth(phase, i)
      BY <2>2
    <2>7. \A m, o \in outstanding' : m.id = o.id => m = o
      BY <1>1, <1>2
    <2> QED
      BY <1>1, <1>2, <2>1, <2>2, <2>3, <2>4, <2>5, <2>6, <2>7
  <1>3. CASE /\ ~disabled /\ server = "up" /\ id = nextId /\ nextId' = nextId + 1
             /\ outstanding' = outstanding \cup {[id |-> id, answer |-> Truth(phase, i)]}
             /\ UNCHANGED disabled
    <2> DEFINE new == [id |-> id, answer |-> Truth(phase, i)]
    <2>1. new \in Request /\ new.id = id /\ new.answer = Truth(phase, i)
      BY DEF Request
    <2>2. \A m \in outstanding \cup buffer : m.id # id /\ m.id \in 1..(nextId' - 1)
      BY <1>1, <1>3
    <2>3. id \in 1..(nextId' - 1) /\ id \notin bad /\ id # 0
      BY <1>1, <1>3
    <2>4. nextId' \in Nat \ {0} /\ nextId' >= nextId /\ id < nextId'
      BY <1>1, <1>3
    <2>5. outstanding' = outstanding \cup {new}
      BY <1>3
    <2> HIDE DEF new
    <2>6. \A m \in outstanding' : m \in outstanding \/ m = new
      BY <2>5
    <2>7. outstanding' \subseteq Request
      BY <1>1, <2>1, <2>5
    <2>8. \A m \in outstanding' \cup buffer : m.id \in 1..(nextId' - 1)
      BY <2>1, <2>2, <2>3, <2>6
    <2>9. \A m, o \in outstanding' : m.id = o.id => m = o
      BY <1>1, <2>1, <2>2, <2>6
    <2>10. \A m \in outstanding' \cup buffer : m.id = id => m.answer = Truth(phase, i)
      BY <2>1, <2>2, <2>6
    <2>11. \A m \in outstanding' : m \in outstanding \/ m.id = nextId
      BY <1>3, <2>1, <2>6
    <2> QED
      BY <1>1, <1>3, <2>3, <2>4, <2>7, <2>8, <2>9, <2>10, <2>11
  <1> QED
    BY <1>2, <1>3 DEF Sent, Send

\* The step asks for a call, or an overload.
LEMMA AskKeepsIInv ==
    ASSUME IInv, Ask
    PROVE  IInv' /\ Asked' = Asked /\ Done' = Done
  <1>1. /\ TypeOK /\ AsksInOrder /\ AsksServer /\ IdsAreFresh /\ AnswersAreTrue
        /\ pc = "ask" /\ Asking /\ phase # "ignore" /\ todo # <<>>
    BY DEF IInv, Ask, Asking
  <1> DEFINE i == todo[1]
  <1>2. /\ Tail(todo) \in Seq(Nat) /\ Len(Tail(todo)) = Len(todo) - 1 /\ Len(todo) >= 1
        /\ Len(todo) \in Nat /\ Head(todo) = i /\ i \in Nat
        /\ \A k \in 1..(Len(todo) - 1) : Tail(todo)[k] = todo[k + 1]
        /\ DOMAIN Tail(todo) = 1..(Len(todo) - 1) /\ DOMAIN todo = 1..Len(todo)
    <2>1. todo \in Seq(Nat)
      BY <1>1 DEF TypeOK
    <2> QED
      BY <1>1, <2>1, AfterFirst
  <1>3. i \in IF phase = "overload" THEN DOMAIN overloads ELSE DOMAIN calls
    <2>1. 1 \in DOMAIN todo
      BY <1>1, <1>2 DEF TypeOK
    <2> QED
      BY <1>1, <2>1, AskedOne
  <1>4. /\ UNCHANGED <<opened, buffer, server, file, work, attempt, phase, needsDef,
                       groupHover, groupDef, diags, fixed, declined, bad>>
        /\ todo' = Tail(todo)
        /\ pc' = IF Len(chunk') = InFlight \/ todo' = <<>> THEN "take" ELSE "ask"
    BY DEF Ask, place, caches, given
  <1>5. PICK id \in Nat : Sent(i, id) /\ chunk' = Append(chunk, [call |-> i, id |-> id])
    <2>1. PICK id \in 0..nextId :
             /\ IF Cached(phase, i) = Off
                THEN Send(i, id)
                ELSE id = 0 /\ UNCHANGED <<nextId, disabled, outstanding>>
             /\ chunk' = Append(chunk, [call |-> i, id |-> id])
      BY <1>2 DEF Ask
    <2>2. id \in Nat
      BY <2>1, <1>1 DEF TypeOK
    <2> QED
      BY <2>1, <2>2 DEF Sent
  <1>6. Truth(phase, i) \in Answers
    BY <1>1, <1>3, TruthTypes
  <1>7. /\ nextId' \in Nat \ {0} /\ nextId' >= nextId /\ id < nextId' /\ id \notin bad
        /\ nextId \in Nat \ {0}
        /\ outstanding' \subseteq Request /\ disabled' \in BOOLEAN
        /\ disabled => disabled'
        /\ id = 0 => disabled' \/ Cached(phase, i) # Off
        /\ \A m \in outstanding' \cup buffer : m.id \in 1..(nextId' - 1)
        /\ \A m, o \in outstanding' : m.id = o.id => m = o
        /\ \A m \in outstanding' : m \in outstanding \/ m.id = nextId
        /\ \A m \in outstanding' \cup buffer : m.id = id => m.answer = Truth(phase, i)
    BY <1>5, <1>6, SentEffect
  <1> DEFINE new == [call |-> i, id |-> id]
  <1>8. new \in Waits /\ new.call = i /\ new.id = id
    BY <1>2 DEF Waits
  <1>9. /\ chunk' \in Seq(Waits) /\ Len(chunk') = Len(chunk) + 1 /\ Len(chunk) \in Nat
        /\ DOMAIN chunk = 1..Len(chunk) /\ DOMAIN chunk' = 1..(Len(chunk) + 1)
        /\ \A k \in 1..(Len(chunk) + 1) :
              chunk'[k] = IF k = Len(chunk) + 1 THEN new ELSE chunk[k]
    <2>1. chunk \in Seq(Waits)
      BY <1>1 DEF TypeOK, Waits
    <2>2. chunk' = Append(chunk, new)
      BY <1>5
    <2> HIDE DEF new
    <2>3. /\ chunk' \in Seq(Waits) /\ Len(chunk') = Len(chunk) + 1
          /\ \A k \in 1..(Len(chunk) + 1) :
                chunk'[k] = IF k = Len(chunk) + 1 THEN new ELSE chunk[k]
      BY <1>8, <2>1, <2>2, PutLast
    <2> QED
      BY <2>1, <2>3
  <1> HIDE DEF new, i
  <1>10. \A k \in DOMAIN chunk' : \/ k \in DOMAIN chunk /\ chunk'[k] = chunk[k]
                                  \/ k = Len(chunk) + 1 /\ chunk'[k] = new
    BY <1>9
  <1>11. TypeOK'
    BY <1>1, <1>2, <1>4, <1>7, <1>9 DEF TypeOK, Waits
  <1>12. Asked' = Asked /\ calls' = calls /\ overloads' = overloads
    BY <1>1, <1>4, AskedStays DEF calls, overloads
  <1>13. Done' = Done /\ Done \in Nat
    <2>1. Len(Asked) \in Nat
      BY <1>1, AskedList
    <2>2. Len(todo') = Len(todo) - 1
      BY <1>2, <1>4
    <2>3. Len(Asked) - (Len(chunk) + 1) - (Len(todo) - 1) = Len(Asked) - Len(chunk) - Len(todo)
      BY <1>2, <1>9, <2>1
    <2> QED
      BY <1>1, <1>9, <1>12, <2>2, <2>3 DEF Done, AsksInOrder
  <1>14. AsksInOrder'
    <2>1. Asking' /\ chunk' # <<>>
      BY <1>4, <1>9 DEF Asking
    <2>2. \A k \in DOMAIN chunk' : chunk'[k].call = Asked'[Done' + k]
      <3>1. \A k \in DOMAIN chunk : chunk[k].call = Asked[Done + k]
        BY <1>1 DEF AsksInOrder
      <3>2. todo[1] = Asked[Done + Len(chunk) + 1]
        <4>1. 1 \in DOMAIN todo
          BY <1>2
        <4> QED
          BY <1>1, <4>1 DEF AsksInOrder
      <3>3. Done + (Len(chunk) + 1) = Done + Len(chunk) + 1
        BY <1>9, <1>13
      <3> QED
        BY <1>8, <1>10, <1>12, <1>13, <3>1, <3>2, <3>3 DEF i
    <2>3. \A k \in DOMAIN todo' : todo'[k] = Asked'[Done' + Len(chunk') + k]
      <3>1. \A k \in DOMAIN todo : todo[k] = Asked[Done + Len(chunk) + k]
        BY <1>1 DEF AsksInOrder
      <3>2. \A k \in DOMAIN todo' : /\ k \in 1..(Len(todo) - 1) /\ k + 1 \in DOMAIN todo
                                    /\ Done + Len(chunk) + (k + 1) = Done + (Len(chunk) + 1) + k
        <4>1. DOMAIN todo' = 1..(Len(todo) - 1)
          BY <1>2, <1>4
        <4>2. \A k \in 1..(Len(todo) - 1) :
                 /\ k + 1 \in 1..Len(todo)
                 /\ Done + Len(chunk) + (k + 1) = Done + (Len(chunk) + 1) + k
          BY <1>2, <1>9, <1>13
        <4> QED
          BY <1>2, <4>1, <4>2
      <3> QED
        BY <1>2, <1>4, <1>9, <1>12, <1>13, <3>1, <3>2
    <2>4. phase' # "overload" => needsDef' \in Seq(DOMAIN calls')
      BY <1>1, <1>4, <1>12 DEF AsksInOrder
    <2> QED
      BY <1>13, <2>1, <2>2, <2>3, <2>4 DEF AsksInOrder
  <1>15. AsksServer'
    BY <1>1, <1>4 DEF AsksServer
  <1>16. IdsAreFresh'
    <2>1. \A k \in DOMAIN chunk' : chunk'[k].id < nextId'
      <3>1. \A k \in DOMAIN chunk : chunk[k].id < nextId /\ chunk[k].id \in Nat
        BY <1>1, WaitFields DEF IdsAreFresh
      <3> QED
        BY <1>7, <1>8, <1>10, <3>1
    <2>2. \A x \in bad' : x \in 1..(nextId' - 1)
      BY <1>1, <1>4, <1>7 DEF IdsAreFresh
    <2>3. ~disabled' => \A k \in DOMAIN chunk' : chunk'[k].id \notin bad'
      BY <1>1, <1>4, <1>7, <1>8, <1>10 DEF IdsAreFresh
    <2> QED
      BY <1>1, <1>4, <1>7, <2>1, <2>2, <2>3 DEF IdsAreFresh
  <1>17. AnswersAreTrue'
    <2> SUFFICES ASSUME NEW k \in DOMAIN chunk'
                 PROVE  /\ chunk'[k].id = 0 =>
                              disabled' \/ Cached(Asker(k), chunk[k].call)' # Off
                        /\ \A m \in outstanding' \cup buffer' : m.id = chunk'[k].id =>
                              \/ m.answer = Truth(Asker(k), chunk[k].call)'
                              \/ disabled' /\ m.answer = "null"
      BY DEF AnswersAreTrue
    <2>1. Asker(k)' = phase /\ Asker(k) = phase
      BY <1>1, <1>4 DEF Asker
    <2>2. PICK c : c = chunk'[k].call
      OBVIOUS
    <2>3. /\ Cached(Asker(k), chunk[k].call)' = Cached(phase, c)
          /\ Truth(Asker(k), chunk[k].call)' = Truth(phase, c)
      BY <1>4, <1>12, <2>1, <2>2 DEF Cached, Truth
    <2>4. CASE k \in DOMAIN chunk /\ chunk'[k] = chunk[k]
      <3>1. chunk[k].id < nextId /\ chunk[k].id \in Nat
        BY <1>1, <2>4, WaitFields DEF IdsAreFresh
      <3>2. \A m \in outstanding' \cup buffer' : m.id = chunk[k].id => m \in outstanding \cup buffer
        BY <1>4, <1>7, <3>1
      <3>3. /\ chunk[k].id = 0 => disabled \/ Cached(phase, c) # Off
            /\ \A m \in outstanding \cup buffer : m.id = chunk[k].id =>
                  \/ m.answer = Truth(phase, c)
                  \/ disabled /\ m.answer = "null"
        BY <1>1, <2>1, <2>2, <2>4 DEF AnswersAreTrue
      <3> QED
        BY <1>7, <2>3, <2>4, <3>2, <3>3
    <2>5. CASE chunk'[k] = new
      <3>1. c = i /\ chunk'[k].id = id
        BY <1>8, <2>2, <2>5
      <3> QED
        BY <1>4, <1>7, <2>3, <3>1
    <2> QED
      BY <1>10, <2>4, <2>5
  <1> QED
    BY <1>11, <1>12, <1>13, <1>14, <1>15, <1>16, <1>17 DEF IInv

\* The step asks for the definition of a call whose hover is at hand.
LEMMA AskIgnoreKeepsIInv ==
    ASSUME IInv, AskIgnore
    PROVE  IInv' /\ Asked' = Asked /\ Done' = Done
  <1>1. /\ TypeOK /\ AsksInOrder /\ AsksServer /\ IdsAreFresh /\ AnswersAreTrue
        /\ pc = "ask" /\ Asking /\ phase = "ignore" /\ chunk # <<>>
    BY DEF IInv, AskIgnore, Asking, AsksInOrder
  <1> DEFINE i == chunk[1].call
  <1>2. /\ UNCHANGED <<opened, buffer, server, file, work, attempt, phase, todo, needsDef,
                       groupHover, groupDef, diags, fixed, declined, bad>>
        /\ pc' = "take"
    BY DEF AskIgnore, place, caches, given
  <1>3. PICK id \in Nat : Sent(i, id) /\ chunk' = [chunk EXCEPT ![1].id = id]
    <2>1. PICK id \in 0..nextId : Send(i, id) /\ chunk' = [chunk EXCEPT ![1].id = id]
      BY DEF AskIgnore
    <2>2. id \in Nat
      BY <2>1, <1>1 DEF TypeOK
    <2> QED
      BY <2>1, <2>2 DEF Sent
  <1>4. chunk \in Seq(Waits) /\ Len(chunk) \in Nat /\ DOMAIN chunk = 1..Len(chunk)
        /\ 1 \in DOMAIN chunk /\ chunk[1] \in Waits
    <2>1. chunk \in Seq(Waits)
      BY <1>1 DEF TypeOK, Waits
    <2>2. Len(chunk) \in Nat /\ DOMAIN chunk = 1..Len(chunk) /\ 1 \in DOMAIN chunk
      BY <1>1, <2>1
    <2> QED
      BY <1>1, <2>1, <2>2, WaitFields
  <1>5. Truth(phase, i) \in Answers
    <2>1. i \in DOMAIN calls
      BY <1>1, <1>4, AskedOne
    <2> QED
      BY <1>1, <2>1, TruthTypes
  <1>6. Cached(phase, i) = Off
    BY <1>1 DEF Cached
  <1>7. /\ nextId' \in Nat \ {0} /\ nextId' >= nextId /\ id < nextId' /\ id \notin bad
        /\ nextId \in Nat \ {0}
        /\ outstanding' \subseteq Request /\ disabled' \in BOOLEAN
        /\ disabled => disabled'
        /\ id = 0 => disabled'
        /\ \A m \in outstanding' \cup buffer : m.id \in 1..(nextId' - 1)
        /\ \A m, o \in outstanding' : m.id = o.id => m = o
        /\ \A m \in outstanding' : m \in outstanding \/ m.id = nextId
        /\ \A m \in outstanding' \cup buffer : m.id = id => m.answer = Truth(phase, i)
    BY <1>3, <1>5, <1>6, SentEffect
  <1> DEFINE new == [chunk[1] EXCEPT !.id = id]
  <1>8. new \in Waits /\ new.call = i /\ new.id = id
    BY <1>4 DEF Waits
  <1>9. /\ chunk' \in Seq(Waits) /\ Len(chunk') = Len(chunk) /\ DOMAIN chunk' = DOMAIN chunk
        /\ \A k \in DOMAIN chunk : chunk'[k] = IF k = 1 THEN new ELSE chunk[k]
    <2>1. chunk' = [chunk EXCEPT ![1] = new]
      BY <1>3
    <2> HIDE DEF new
    <2> QED
      BY <1>1, <1>4, <1>8, <2>1, OtherFirst
  <1> HIDE DEF new, i
  <1>10. \A k \in DOMAIN chunk' : \/ k \in DOMAIN chunk /\ k # 1 /\ chunk'[k] = chunk[k]
                                  \/ k = 1 /\ chunk'[k] = new
    BY <1>9
  <1>11. TypeOK'
    BY <1>1, <1>2, <1>7, <1>9 DEF TypeOK, Waits
  <1>12. Asked' = Asked /\ calls' = calls /\ overloads' = overloads
    BY <1>1, <1>2, AskedStays DEF calls, overloads
  <1>13. Done' = Done
    BY <1>2, <1>9, <1>12 DEF Done
  <1>14. AsksInOrder'
    <2>1. Asking' /\ chunk' # <<>>
      BY <1>2, <1>4, <1>9 DEF Asking
    <2>2. \A k \in DOMAIN chunk' : chunk'[k].call = chunk[k].call
      BY <1>8, <1>10 DEF i
    <2> QED
      BY <1>1, <1>2, <1>9, <1>12, <1>13, <2>1, <2>2 DEF AsksInOrder
  <1>15. AsksServer'
    BY <1>1, <1>2 DEF AsksServer
  <1>16. IdsAreFresh'
    <2>1. \A k \in DOMAIN chunk' : chunk'[k].id < nextId'
      <3>1. \A k \in DOMAIN chunk : chunk[k].id < nextId /\ chunk[k].id \in Nat
        BY <1>1, WaitFields DEF IdsAreFresh
      <3> QED
        BY <1>7, <1>8, <1>10, <3>1
    <2>2. \A x \in bad' : x \in 1..(nextId' - 1)
      BY <1>1, <1>2, <1>7 DEF IdsAreFresh
    <2>3. ~disabled' => \A k \in DOMAIN chunk' : chunk'[k].id \notin bad'
      BY <1>1, <1>2, <1>7, <1>8, <1>10 DEF IdsAreFresh
    <2> QED
      BY <1>1, <1>2, <1>7, <2>1, <2>2, <2>3 DEF IdsAreFresh
  <1>17. AnswersAreTrue'
    <2> SUFFICES ASSUME NEW k \in DOMAIN chunk'
                 PROVE  /\ chunk'[k].id = 0 =>
                              disabled' \/ Cached(Asker(k), chunk[k].call)' # Off
                        /\ \A m \in outstanding' \cup buffer' : m.id = chunk'[k].id =>
                              \/ m.answer = Truth(Asker(k), chunk[k].call)'
                              \/ disabled' /\ m.answer = "null"
      BY DEF AnswersAreTrue
    <2>1. PICK a, c : a = Asker(k) /\ c = chunk'[k].call
      OBVIOUS
    <2>2. Asker(k)' = a
      BY <1>2, <2>1 DEF Asker
    <2>3. /\ Cached(Asker(k), chunk[k].call)' = Cached(a, c)
          /\ Truth(Asker(k), chunk[k].call)' = Truth(a, c)
      BY <1>2, <1>12, <2>1, <2>2 DEF Cached, Truth
    <2>4. CASE k \in DOMAIN chunk /\ k # 1 /\ chunk'[k] = chunk[k]
      <3>1. chunk[k].id < nextId /\ chunk[k].id \in Nat
        BY <1>1, <2>4, WaitFields DEF IdsAreFresh
      <3>2. \A m \in outstanding' \cup buffer' : m.id = chunk[k].id => m \in outstanding \cup buffer
        BY <1>2, <1>7, <3>1
      <3>3. /\ chunk[k].id = 0 => disabled \/ Cached(a, c) # Off
            /\ \A m \in outstanding \cup buffer : m.id = chunk[k].id =>
                  \/ m.answer = Truth(a, c)
                  \/ disabled /\ m.answer = "null"
        BY <1>1, <2>1, <2>4 DEF AnswersAreTrue
      <3> QED
        BY <1>7, <2>3, <2>4, <3>2, <3>3
    <2>5. CASE k = 1 /\ chunk'[k] = new
      <3>1. c = i /\ chunk'[k].id = id /\ a = phase
        BY <1>8, <2>1, <2>5 DEF Asker
      <3> QED
        BY <1>2, <1>7, <2>3, <3>1
    <2> QED
      BY <1>10, <2>4, <2>5
  <1> QED
    BY <1>11, <1>12, <1>13, <1>14, <1>15, <1>16, <1>17 DEF IInv

\* The step puts a response aside.
LEMMA AbsorbKeepsIInv ==
    ASSUME IInv, NEW m \in outstanding, Absorb(m)
    PROVE  IInv' /\ Asked' = Asked /\ Done' = Done
  <1>1. /\ TypeOK /\ AsksInOrder /\ AsksServer /\ IdsAreFresh /\ AnswersAreTrue
        /\ m \in Request
    BY DEF IInv, TypeOK
  <1>2. /\ UNCHANGED <<nextId, opened, server, file, work, attempt, pc, phase, todo, chunk,
                       needsDef, groupHover, groupDef, diags, fixed, declined>>
        /\ outstanding' = outstanding \ {m}
    BY DEF Absorb, place, loop, caches, given
  <1>3. PICK o \in Request :
           /\ buffer' = buffer \cup {o} /\ o.id = m.id
           /\ \/ o = m /\ UNCHANGED <<disabled, bad>>
              \/ o.answer = "null" /\ disabled' = TRUE /\ bad' = bad \cup {m.id}
    <2> DEFINE null == [m EXCEPT !.answer = "null"]
    <2>1. null \in Request /\ null.id = m.id /\ null.answer = "null"
      BY <1>1 DEF Request, Answers, Hovers
    <2>2. \/ buffer' = buffer \cup {m} /\ UNCHANGED <<disabled, bad>>
          \/ buffer' = buffer \cup {null} /\ disabled' = TRUE /\ bad' = bad \cup {m.id}
      BY DEF Absorb
    <2> HIDE DEF null
    <2> QED
      BY <1>1, <2>1, <2>2
  <1>4. m.id \in 1..(nextId - 1) /\ nextId \in Nat
    BY <1>1 DEF IdsAreFresh, TypeOK
  <1>5. TypeOK'
    <2>1. buffer' \subseteq Request /\ outstanding' \subseteq Request
      BY <1>1, <1>2, <1>3 DEF TypeOK
    <2>2. m.id \in Nat /\ bad \subseteq Nat /\ disabled \in BOOLEAN
      BY <1>1, <1>4 DEF TypeOK
    <2>3. disabled' \in BOOLEAN /\ bad' \subseteq Nat
      <3>1. CASE UNCHANGED <<disabled, bad>>
        BY <2>2, <3>1
      <3>2. CASE disabled' = TRUE /\ bad' = bad \cup {m.id}
        BY <2>2, <3>2
      <3> QED
        BY <1>3, <3>1, <3>2
    <2> QED
      BY <1>1, <1>2, <2>1, <2>3 DEF TypeOK
  <1>6. Asked' = Asked /\ calls' = calls /\ overloads' = overloads
    BY <1>1, <1>2, AskedStays DEF calls, overloads
  <1>7. Done' = Done
    BY <1>2, <1>6 DEF Done
  <1>8. AsksInOrder'
    BY <1>1, <1>2, <1>6, <1>7 DEF AsksInOrder, Asking
  <1>9. AsksServer'
    BY <1>1, <1>2 DEF AsksServer
  <1>10. IdsAreFresh'
    <2>1. \A n \in outstanding' \cup buffer' : n.id \in 1..(nextId' - 1)
      BY <1>1, <1>2, <1>3, <1>4 DEF IdsAreFresh
    <2>2. \A n, p \in outstanding' : n.id = p.id => n = p
      BY <1>1, <1>2 DEF IdsAreFresh
    <2>3. \A x \in bad' : x \in 1..(nextId' - 1)
      BY <1>1, <1>2, <1>3, <1>4 DEF IdsAreFresh
    <2>4. IsFiniteSet(bad')
      BY <1>1, <1>3, FS_AddElement DEF IdsAreFresh
    <2>5. ~disabled' => \A k \in DOMAIN chunk' : chunk'[k].id \notin bad'
      BY <1>1, <1>2, <1>3 DEF IdsAreFresh
    <2>6. \A k \in DOMAIN chunk' : chunk'[k].id < nextId'
      BY <1>1, <1>2 DEF IdsAreFresh
    <2> QED
      BY <2>1, <2>2, <2>3, <2>4, <2>5, <2>6 DEF IdsAreFresh
  <1>11. AnswersAreTrue'
    <2> SUFFICES ASSUME Asking, NEW k \in DOMAIN chunk,
                        pc = "ask" /\ phase = "ignore" => k # 1
                 PROVE  /\ chunk[k].id = 0 =>
                              disabled' \/ Cached(Asker(k), chunk[k].call)' # Off
                        /\ \A n \in outstanding' \cup buffer' : n.id = chunk[k].id =>
                              \/ n.answer = Truth(Asker(k), chunk[k].call)'
                              \/ disabled' /\ n.answer = "null"
      BY <1>2 DEF AnswersAreTrue, Asking
    <2>1. PICK a, c : a = Asker(k) /\ c = chunk[k].call
      OBVIOUS
    <2>2. Asker(k)' = a
      BY <1>2, <2>1 DEF Asker
    <2>3. /\ Cached(Asker(k), chunk[k].call)' = Cached(a, c)
          /\ Truth(Asker(k), chunk[k].call)' = Truth(a, c)
      BY <1>2, <1>6, <2>1, <2>2 DEF Cached, Truth
    <2>4. /\ chunk[k].id = 0 => disabled \/ Cached(a, c) # Off
          /\ \A n \in outstanding \cup buffer : n.id = chunk[k].id =>
                \/ n.answer = Truth(a, c)
                \/ disabled /\ n.answer = "null"
      BY <1>1, <2>1 DEF AnswersAreTrue
    <2>5. \A n \in outstanding' \cup buffer' : n \in outstanding \cup buffer \/ n = o
      BY <1>2, <1>3
    <2> QED
      BY <1>3, <2>3, <2>4, <2>5
  <1> QED
    BY <1>5, <1>6, <1>7, <1>8, <1>9, <1>10, <1>11 DEF IInv

\* A step that touches none of what IInv says, and one that only loses the server.
LEMMA QuietKeepsIInv ==
    ASSUME IInv, ServerDies \/ UNCHANGED vars
    PROVE  IInv' /\ Asked' = Asked /\ Done' = Done
  <1>1. /\ UNCHANGED <<nextId, opened, buffer, disabled, outstanding, file, work, pc, phase,
                       attempt, todo, chunk, needsDef, groupHover, groupDef, diags, fixed,
                       declined, bad>>
        /\ \/ server' = server
           \/ server = "up" /\ server' = "dead"
    BY DEF ServerDies, vars, client, place, loop, caches, given
  <1>2. TypeOK /\ AsksInOrder /\ AsksServer /\ IdsAreFresh /\ AnswersAreTrue
    BY DEF IInv
  <1>3. TypeOK'
    BY <1>1, <1>2 DEF TypeOK
  <1>4. Asked' = Asked /\ calls' = calls /\ overloads' = overloads
    BY <1>1, <1>2, AskedStays DEF calls, overloads
  <1>5. Done' = Done
    BY <1>1, <1>4 DEF Done
  <1>6. AsksInOrder'
    BY <1>1, <1>2, <1>4, <1>5 DEF AsksInOrder, Asking
  <1>7. AsksServer'
    BY <1>1, <1>2 DEF AsksServer
  <1>8. IdsAreFresh'
    BY <1>1, <1>2 DEF IdsAreFresh
  <1>9. AnswersAreTrue'
    <2> SUFFICES ASSUME Asking, NEW k \in DOMAIN chunk,
                        pc = "ask" /\ phase = "ignore" => k # 1
                 PROVE  /\ chunk[k].id = 0 =>
                              disabled \/ Cached(Asker(k), chunk[k].call)' # Off
                        /\ \A n \in outstanding \cup buffer : n.id = chunk[k].id =>
                              \/ n.answer = Truth(Asker(k), chunk[k].call)'
                              \/ disabled /\ n.answer = "null"
      BY <1>1 DEF AnswersAreTrue, Asking
    <2>1. PICK a, c : a = Asker(k) /\ c = chunk[k].call
      OBVIOUS
    <2>2. Asker(k)' = a
      BY <1>1, <2>1 DEF Asker
    <2>3. /\ Cached(Asker(k), chunk[k].call)' = Cached(a, c)
          /\ Truth(Asker(k), chunk[k].call)' = Truth(a, c)
      BY <1>1, <1>4, <2>1, <2>2 DEF Cached, Truth
    <2>4. /\ chunk[k].id = 0 => disabled \/ Cached(a, c) # Off
          /\ \A n \in outstanding \cup buffer : n.id = chunk[k].id =>
                \/ n.answer = Truth(a, c)
                \/ disabled /\ n.answer = "null"
      BY <1>2, <2>1 DEF AnswersAreTrue
    <2> QED
      BY <2>3, <2>4
  <1> QED
    BY <1>3, <1>4, <1>5, <1>6, <1>7, <1>8, <1>9 DEF IInv

\* The turns keep the inductive invariant.
LEMMA TurnsKeepIInv ==
    ASSUME IInv, TurnStep
    PROVE  IInv' /\ Turn /\ (pc' = "ask" => Done' = 0)
  <1>1. Turn /\ TypeOK' /\ AsksServer'
    BY PlainTurns, AttemptTurns, EndPhaseTurns, NormalizeTurns, OverloadsTurn DEF TurnStep
  <1> QED
    BY <1>1, TurnKeepsIInv

\* A step is a turn, one that asks, one that uses an answer, or the server's.
LEMMA Steps ==
    ASSUME [Next]_vars
    PROVE  \/ TurnStep \/ Ask \/ AskIgnore \/ TakeStep
           \/ (\E m \in outstanding : Absorb(m)) \/ ServerDies \/ UNCHANGED vars
  BY DEF Next, ClientStep, ServerStep, TurnStep, TakeStep

\* The invariant is inductive.
LEMMA InitIInv == Init => IInv
  <1> SUFFICES ASSUME Init PROVE IInv
    OBVIOUS
  <1> USE DEF Init
  <1>1. work \in Work /\ diags \in [DOMAIN work.calls -> Nat]
    <2> DEFINE none == [calls |-> <<>>, overloads |-> <<>>]
    <2>1. none \in Work
      BY DEF Work
    <2> QED
      BY <2>1, WorkFields
  <1>2. TypeOK
    <2>1. file \in 1..Files
      BY FilesAssumption
    <2>2. /\ nextId \in Nat \ {0} /\ attempt \in Nat /\ fixed \in Nat /\ declined \in Nat
          /\ disabled \in BOOLEAN
      <3>1. nextId = 1 /\ attempt = 1 /\ fixed = 0 /\ declined = 0 /\ disabled = FALSE
        OBVIOUS
      <3> HIDE DEF Init
      <3>2. disabled \in BOOLEAN
        BY <3>1
      <3>3. nextId \in Nat \ {0} /\ attempt \in Nat /\ fixed \in Nat /\ declined \in Nat
        BY <3>1
      <3> QED
        BY <3>2, <3>3
    <2>3. todo \in Seq(Nat) /\ needsDef \in Seq(Nat) /\ chunk \in Seq([call: Nat, id: Nat])
      OBVIOUS
    <2>4. groupHover \in [Groups -> Named \cup {Off}] /\ groupDef \in [Groups -> Definitions \cup {Off}]
      OBVIOUS
    <2>5. /\ opened \subseteq 1..Files /\ buffer \subseteq Request
          /\ outstanding \subseteq Request /\ bad \subseteq Nat
      OBVIOUS
    <2>6. /\ server \in {"unstarted", "up", "dead", "absent"}
          /\ pc \in {"file", "start", "attempt", "ask", "take", "normalize", "judge",
                     "overloads", "filed", "ok", "failed"}
          /\ phase \in Phases
      BY DEF Phases
    <2> HIDE DEF Init
    <2> QED
      BY <1>1, <2>1, <2>2, <2>3, <2>4, <2>5, <2>6 DEF TypeOK
  <1>3. AsksInOrder
    BY DEF AsksInOrder, Asking
  <1>4. AsksServer
    BY DEF AsksServer
  <1>5. IdsAreFresh
    <2>1. DOMAIN chunk = {}
      OBVIOUS
    <2> QED
      BY <2>1, FS_EmptySet DEF IdsAreFresh
  <1>6. AnswersAreTrue
    BY DEF AnswersAreTrue, Asking
  <1> QED
    BY <1>2, <1>3, <1>4, <1>5, <1>6 DEF IInv

\* Every step keeps it.
LEMMA NextIInv == IInv /\ [Next]_vars => IInv'
  <1> SUFFICES ASSUME IInv, [Next]_vars PROVE IInv'
    OBVIOUS
  <1>1. CASE TakeStep
    BY <1>1, TakesOne, TakeKeepsIInv
  <1>2. ASSUME NEW m \in outstanding, Absorb(m) PROVE IInv'
    BY <1>2, AbsorbKeepsIInv
  <1> QED
    BY <1>1, <1>2, Steps, TurnsKeepIInv, AskKeepsIInv, AskIgnoreKeepsIInv, QuietKeepsIInv

\* Whatever the server does, the client asks and judges the calls of its phase in order,
\* gives out every request id once, uses under an id nothing but the answer to that
\* request, and, while it is on, waits for no request that has gone wrong (ty_resolver.rs
\* ask, absorb, collect_until).
THEOREM Invariance == Spec => []IInv
  BY InitIInv, NextIInv, PTL DEF Spec

\* No answer is used but a request's own, or the cache's: what had been asked by an
\* attempt that was given up, or comes out of order, is never taken for another's
\* (ty_resolver.rs absorb, collect_until).
THEOREM AnswersAreOwn == Spec => []AnswersAreTrue
  <1>1. IInv => AnswersAreTrue
    BY DEF IInv
  <1> QED
    BY <1>1, Invariance, PTL

(***************************************************************************)
(* FatalNeedsTwoBadRequests                                                *)
(***************************************************************************)
\* How many attempts have failed, in terms of what it is defined by.
LEMMA FailuresCount ==
    ASSUME NEW n \in Nat, NEW b \in BOOLEAN
    PROVE  n - 1 + Count(b) = IF b THEN n ELSE n - 1
  BY DEF Count

\* A step on which no request goes wrong, and that gives nothing up.
Calm ==
    /\ pc # "failed" /\ (pc' = "failed" => server' = "absent") /\ bad' = bad
    /\ \A m \in outstanding' : m \in outstanding \/ m.id = nextId
    /\ server' \in {"unstarted", "up"} =>
          /\ server \in {"unstarted", "up"}
          /\ \/ attempt' = attempt /\ disabled' = disabled
             \/ attempt' = 1 /\ disabled' = disabled
             \/ attempt' = attempt + 1 /\ disabled /\ disabled' = FALSE

\* Such a step leaves the attempts as they were.
LEMMA CalmSpoilsNothing ==
    ASSUME IInv, BadRequestsSpoil, Calm
    PROVE  BadRequestsSpoil'
  <1>1. FatalNeedsTwoBadRequests'
    BY DEF Calm, FatalNeedsTwoBadRequests
  <1>2. ASSUME server' \in {"unstarted", "up"}, pc' # "failed"
        PROVE  /\ attempt' >= 1
               /\ bad' = {} => Failures' = 0
               /\ \A x \in bad' : bad' = {x} =>
                     /\ Failures' <= 2
                     /\ Failures' = 2 => \A m \in outstanding' : m.id # x
    <2>1. /\ attempt >= 1 /\ attempt \in Nat /\ disabled \in BOOLEAN
          /\ bad = {} => Failures = 0
          /\ \A x \in bad : bad = {x} =>
                /\ Failures <= 2
                /\ Failures = 2 => \A m \in outstanding : m.id # x
      BY <1>2 DEF Calm, BadRequestsSpoil, IInv, TypeOK
    <2>2. \A x \in bad : x # nextId
      BY DEF IInv, IdsAreFresh, TypeOK
    <2>3. Failures = IF disabled THEN attempt ELSE attempt - 1
      BY <2>1, FailuresCount DEF Failures
    <2>4. CASE attempt' = attempt /\ disabled' = disabled
      <3>1. Failures' = Failures
        BY <2>4 DEF Failures
      <3> QED
        BY <2>1, <2>2, <2>4, <3>1 DEF Calm
    <2>5. CASE attempt' = 1 /\ disabled' = disabled
      <3>1. Failures' = IF disabled THEN 1 ELSE 0
        BY <2>1, <2>5, FailuresCount DEF Failures
      <3>2. Failures' <= 1 /\ Failures' # 2 /\ attempt' >= 1
        BY <2>5, <3>1
      <3>3. bad = {} => ~disabled
        BY <2>1, <2>3
      <3> QED
        BY <3>1, <3>2, <3>3 DEF Calm
    <2>6. CASE attempt' = attempt + 1 /\ disabled /\ disabled' = FALSE
      <3>1. Failures' = attempt + 1 - 1
        <4>1. attempt + 1 \in Nat
          BY <2>1
        <4>2. Failures' = attempt' - 1 + Count(disabled')
          BY DEF Failures
        <4>3. Count(disabled') = 0
          BY <2>6 DEF Count
        <4> QED
          BY <2>1, <2>6, <4>1, <4>2, <4>3
      <3>2. Failures' = Failures /\ attempt' >= 1
        BY <2>1, <2>3, <2>6, <3>1
      <3> QED
        BY <2>1, <2>2, <3>2 DEF Calm
    <2> QED
      BY <1>2, <2>4, <2>5, <2>6 DEF Calm
  <1> QED
    BY <1>1, <1>2 DEF BadRequestsSpoil

\* A request goes wrong, and the client goes off: the one awaited, which has not gone
\* wrong before if the client was on, or one that is answered with this.
Spoils(m) ==
    /\ pc # "failed" /\ pc' # "failed"
    /\ bad' = bad \cup {m.id} /\ disabled' = TRUE
    /\ UNCHANGED <<attempt, server>>
    /\ \/ /\ outstanding' \subseteq outstanding
          /\ chunk # <<>> /\ chunk[1].id = m.id
       \/ outstanding' = outstanding \ {m}

\* One request does so twice at most: by its deadline, and by its error.
LEMMA OneSpoilsTwo ==
    ASSUME IInv, BadRequestsSpoil, NEW m \in outstanding, Spoils(m)
    PROVE  BadRequestsSpoil'
  <1>1. FatalNeedsTwoBadRequests'
    BY DEF Spoils, FatalNeedsTwoBadRequests
  <1>2. ASSUME server' \in {"unstarted", "up"}, pc' # "failed"
        PROVE  /\ attempt' >= 1
               /\ bad' = {} => Failures' = 0
               /\ \A x \in bad' : bad' = {x} =>
                     /\ Failures' <= 2
                     /\ Failures' = 2 => \A o \in outstanding' : o.id # x
    <2>1. /\ attempt >= 1 /\ attempt \in Nat /\ disabled \in BOOLEAN
          /\ bad = {} => Failures = 0
          /\ \A x \in bad : bad = {x} =>
                /\ Failures <= 2
                /\ Failures = 2 => \A o \in outstanding : o.id # x
      BY <1>2 DEF Spoils, BadRequestsSpoil, IInv, TypeOK
    <2>2. Failures = IF disabled THEN attempt ELSE attempt - 1
      BY <2>1, FailuresCount DEF Failures
    <2>3. Failures' = attempt
      BY <2>1, FailuresCount DEF Failures, Spoils
    <2>4. attempt' >= 1 /\ bad' # {}
      BY <2>1 DEF Spoils
    <2>5. ASSUME NEW x \in bad', bad' = {x}
          PROVE  /\ Failures' <= 2
                 /\ Failures' = 2 => \A o \in outstanding' : o.id # x
      <3>1. m.id = x /\ (bad = {} \/ bad = {x})
        BY <2>5 DEF Spoils
      <3>2. CASE bad = {}
        <4>1. attempt = 1
          BY <2>1, <2>2, <3>2
        <4> QED
          BY <2>3, <4>1
      <3>3. CASE bad = {x}
        <4>1. Failures <= 1
          BY <2>1, <2>2, <3>1, <3>3
        <4>2. CASE disabled
          BY <2>1, <2>2, <2>3, <4>1, <4>2
        <4>3. CASE ~disabled
          <5>1. ~(chunk # <<>> /\ chunk[1].id = m.id)
            <6>1. chunk # <<>> => 1 \in DOMAIN chunk
              BY DEF IInv, TypeOK
            <6> QED
              BY <3>1, <3>3, <4>3, <6>1 DEF IInv, IdsAreFresh
          <5>2. outstanding' = outstanding \ {m}
            BY <5>1 DEF Spoils
          <5>3. \A o \in outstanding' : o.id # x
            BY <3>1, <5>2 DEF IInv, IdsAreFresh
          <5>4. attempt <= 2
            BY <2>1, <2>2, <4>1, <4>3
          <5> QED
            BY <2>3, <5>3, <5>4
        <4> QED
          BY <2>1, <4>2, <4>3
      <3> QED
        BY <3>1, <3>2, <3>3
    <2> QED
      BY <2>4, <2>5
  <1> QED
    BY <1>1, <1>2 DEF BadRequestsSpoil

\* The file can be announced to a live server unless the client is off.
LEMMA OpenOnLive ==
    ASSUME TypeOK, Open, server = "up"
    PROVE  disabled' = disabled
  <1>1. CanOpen <=> ~disabled
    BY DEF CanOpen
  <1>2. disabled' = ~CanOpen /\ disabled \in BOOLEAN
    BY DEF Open, TypeOK
  <1> QED
    BY <1>1, <1>2

\* The turns, the last failing attempt apart, are calm.
LEMMA TurnsSpoilNothing ==
    ASSUME IInv, BadRequestsSpoil, TurnStep, Attempts >= 3
    PROVE  BadRequestsSpoil'
  <1>1. TypeOK /\ AsksServer
    BY DEF IInv
  <1>2. CASE BeginFile
    <2>1. Calm
      BY <1>2 DEF BeginFile, client, backend, Calm
    <2> QED
      BY <2>1, CalmSpoilsNothing
  <1>3. CASE EnterFile
    <2>1. /\ UNCHANGED <<attempt, disabled, bad, outstanding>> /\ pc = "start"
          /\ server' \in {"unstarted", "up"} => server \in {"unstarted", "up"}
          /\ pc' = "failed" => server' = "absent"
      BY <1>3 DEF EnterFile, place, StartServer
    <2>2. Calm
      BY <2>1 DEF Calm
    <2> QED
      BY <2>2, CalmSpoilsNothing
  <1>4. CASE BeginAttempt
    <2>1. /\ UNCHANGED <<attempt, server, bad, outstanding>> /\ pc = "attempt"
          /\ pc' \in {"ask", "judge"} /\ Open
      BY <1>4 DEF BeginAttempt, backend, place
    <2>2. server' \in {"unstarted", "up"} => server = "up" /\ disabled' = disabled
      BY <1>1, <2>1, OpenOnLive DEF AsksServer
    <2>3. Calm
      BY <2>1, <2>2 DEF Calm
    <2> QED
      BY <2>3, CalmSpoilsNothing
  <1>5. CASE EndPhase
    <2>1. Calm
      BY <1>1, <1>5 DEF EndPhase, client, backend, place, Calm, TypeOK, Phases
    <2> QED
      BY <2>1, CalmSpoilsNothing
  <1>6. CASE Normalize
    <2>1. Calm
      BY <1>6 DEF Normalize, client, backend, place, Calm
    <2> QED
      BY <2>1, CalmSpoilsNothing
  <1>7. CASE EndFile
    <2>1. Calm
      BY <1>7 DEF EndFile, client, backend, Calm
    <2> QED
      BY <2>1, CalmSpoilsNothing
  <1>8. CASE BeginOverloads
    <2>1. /\ UNCHANGED <<attempt, bad, outstanding>> /\ pc = "overloads" /\ pc' # "failed"
          /\ server' \in {"unstarted", "up"} => server \in {"unstarted", "up"}
      BY <1>8 DEF BeginOverloads, place, StartServer
    <2>2. server' \in {"unstarted", "up"} => disabled' = disabled
      <3>1. CASE UNCHANGED disabled
        BY <3>1
      <3>2. CASE server \in {"up", "dead"} /\ Open /\ UNCHANGED server
        BY <1>1, <3>2, OpenOnLive
      <3> QED
        BY <1>8, <3>1, <3>2 DEF BeginOverloads
    <2>3. Calm
      BY <2>1, <2>2 DEF Calm
    <2> QED
      BY <2>3, CalmSpoilsNothing
  <1>9. CASE Judge
    <2>1. /\ UNCHANGED <<server, bad, outstanding>> /\ pc = "judge" /\ disabled' = FALSE
          /\ server \in {"up", "dead"} /\ disabled \in BOOLEAN
      BY <1>1, <1>9 DEF Judge, backend, AsksServer, TypeOK
    <2>2. CASE ~disabled /\ pc' = "overloads" /\ attempt' = attempt
      <3>1. Calm
        BY <2>1, <2>2 DEF Calm
      <3> QED
        BY <3>1, CalmSpoilsNothing
    <2>3. CASE disabled /\ pc' = "attempt" /\ attempt' = attempt + 1
      <3>1. Calm
        BY <2>1, <2>3 DEF Calm
      <3> QED
        BY <3>1, CalmSpoilsNothing
    <2>4. CASE disabled /\ LastAttempt /\ pc' = "failed"
      <3>1. ASSUME server = "up" PROVE Cardinality(bad) >= 2
        <4>1. attempt \in Nat /\ attempt >= 3
          BY <1>1, <2>4, AttemptsAssumption DEF LastAttempt, TypeOK
        <4>2. Failures = attempt
          BY <2>1, <2>4, <4>1, FailuresCount DEF Failures
        <4>3. bad # {} /\ \A x \in bad : bad # {x}
          BY <2>1, <3>1, <4>1, <4>2 DEF BadRequestsSpoil
        <4>4. IsFiniteSet(bad) /\ Cardinality(bad) \in Nat
          BY FS_CardinalityType DEF IInv, IdsAreFresh
        <4>5. Cardinality(bad) # 0
          BY <4>3, <4>4, FS_EmptySet
        <4>6. Cardinality(bad) # 1
          BY <4>3, <4>4, FS_Singleton
        <4> QED
          BY <4>4, <4>5, <4>6
      <3> QED
        BY <2>1, <2>4, <3>1 DEF BadRequestsSpoil, FatalNeedsTwoBadRequests
    <2> QED
      BY <1>9, <2>2, <2>3, <2>4 DEF Judge
  <1> QED
    BY <1>2, <1>3, <1>4, <1>5, <1>6, <1>7, <1>8, <1>9 DEF TurnStep

\* Asking is calm: a send fails only with the server.
LEMMA AsksSpoilNothing ==
    ASSUME IInv, BadRequestsSpoil, Ask \/ AskIgnore
    PROVE  BadRequestsSpoil'
  <1>1. /\ UNCHANGED <<attempt, server, bad>> /\ pc = "ask" /\ pc' # "failed"
    BY DEF Ask, AskIgnore, place
  <1>2. PICK i, id : \/ Send(i, id)
                     \/ UNCHANGED <<nextId, disabled, outstanding>>
    BY DEF Ask, AskIgnore
  <1>3. server \in {"up", "dead"}
    BY <1>1 DEF IInv, AsksServer
  <1>4. /\ \A m \in outstanding' : m \in outstanding \/ m.id = nextId
        /\ server = "up" => disabled' = disabled
    BY <1>2, <1>3 DEF Send
  <1>5. Calm
    BY <1>1, <1>3, <1>4 DEF Calm
  <1> QED
    BY <1>5, CalmSpoilsNothing

\* Using an answer is calm, unless it did not come or is an error.
LEMMA TakesSpoil ==
    ASSUME IInv, BadRequestsSpoil, TakeStep
    PROVE  BadRequestsSpoil'
  <1>1. PICK a : Takes(a)
    BY TakesOne
  <1>2. /\ UNCHANGED <<attempt, server>> /\ pc = "take" /\ pc' # "failed" /\ chunk # <<>>
    BY <1>1, UseEffect DEF Takes, IInv, place, Collected
  <1>3. CASE UNCHANGED <<bad, disabled>> /\ outstanding' \subseteq outstanding
    <2>1. Calm
      BY <1>2, <1>3 DEF Calm
    <2> QED
      BY <2>1, CalmSpoilsNothing
  <1>4. CASE Disconnect
    <2>1. Calm
      BY <1>2, <1>4 DEF Calm, Disconnect
    <2> QED
      BY <2>1, CalmSpoilsNothing
  <1>5. CASE Timeout
    <2>1. PICK m \in outstanding : m.id = chunk[1].id /\ bad' = bad \cup {m.id}
      BY <1>5 DEF Timeout, Awaiting
    <2>2. Spoils(m)
      BY <1>2, <1>5, <2>1 DEF Spoils, Timeout
    <2> QED
      BY <2>2, OneSpoilsTwo
  <1>6. ASSUME NEW m \in outstanding, Receive(m), disabled' = TRUE, bad' = bad \cup {m.id}
        PROVE  BadRequestsSpoil'
    <2>1. Spoils(m)
      BY <1>2, <1>6 DEF Spoils, Receive
    <2> QED
      BY <2>1, OneSpoilsTwo
  <1>7. ASSUME NEW m \in outstanding, Receive(m) PROVE BadRequestsSpoil'
    BY <1>3, <1>6, <1>7 DEF Receive
  <1> QED
    BY <1>3, <1>4, <1>5, <1>7 DEF TakeStep, TakeCached, TakeNothing, TakeBuffered

\* So is putting one aside.
LEMMA AbsorbSpoils ==
    ASSUME IInv, BadRequestsSpoil, NEW m \in outstanding, Absorb(m)
    PROVE  BadRequestsSpoil'
  <1>1. /\ UNCHANGED <<attempt, server, pc>> /\ pc = "take" /\ outstanding' = outstanding \ {m}
    BY DEF Absorb, place, Collecting
  <1>2. CASE UNCHANGED <<disabled, bad>>
    <2>1. Calm
      BY <1>1, <1>2 DEF Calm
    <2> QED
      BY <2>1, CalmSpoilsNothing
  <1>3. CASE disabled' = TRUE /\ bad' = bad \cup {m.id}
    <2>1. Spoils(m)
      BY <1>1, <1>3 DEF Spoils
    <2> QED
      BY <2>1, OneSpoilsTwo
  <1> QED
    BY <1>2, <1>3 DEF Absorb

\* With three attempts or more every step keeps BadRequestsSpoil.
LEMMA NextSpoils ==
    ASSUME Attempts >= 3
    PROVE  IInv /\ BadRequestsSpoil /\ [Next]_vars => BadRequestsSpoil'
  <1> SUFFICES ASSUME IInv, BadRequestsSpoil, [Next]_vars PROVE BadRequestsSpoil'
    OBVIOUS
  <1>1. CASE ServerDies
    <2>1. server' = "dead"
      BY <1>1 DEF ServerDies
    <2> QED
      BY <2>1 DEF BadRequestsSpoil, FatalNeedsTwoBadRequests
  <1>2. CASE UNCHANGED vars
    BY <1>2 DEF BadRequestsSpoil, FatalNeedsTwoBadRequests, Failures, vars
  <1> QED
    BY <1>1, <1>2, Steps, TurnsSpoilNothing, AsksSpoilNothing, TakesSpoil, AbsorbSpoils

\* On a server that lives, no single request makes the run fail, though it is slow and
\* then answered with an error on top, at TY_FILE_ATTEMPTS = 3 attempts or more (check.rs
\* resolve_file_with_ty, issue #275).  With two attempts it can: the timeout spoils the
\* first and the late error the second.
THEOREM OneBadRequestIsSurvived ==
    ASSUME Attempts >= 3
    PROVE  Spec => []FatalNeedsTwoBadRequests
  <1>1. Init => BadRequestsSpoil
    <2> SUFFICES ASSUME Init PROVE BadRequestsSpoil
      OBVIOUS
    <2>1. attempt = 1 /\ disabled = FALSE /\ bad = {} /\ pc = "file"
      BY DEF Init
    <2>2. Count(disabled) = 0
      BY <2>1 DEF Count
    <2>3. Failures = 0
      BY <2>1, <2>2 DEF Failures
    <2> QED
      BY <2>1, <2>3 DEF BadRequestsSpoil, FatalNeedsTwoBadRequests
  <1>2. IInv /\ BadRequestsSpoil /\ [Next]_vars => BadRequestsSpoil'
    BY NextSpoils
  <1>3. BadRequestsSpoil => FatalNeedsTwoBadRequests
    BY DEF BadRequestsSpoil
  <1> QED
    BY <1>1, <1>2, <1>3, Invariance, PTL DEF Spec

(***************************************************************************)
(* FixesAddUp                                                              *)
(***************************************************************************)
\* A file has finitely many diagnostics.
LEMMA FinitelyMany == TypeOK => IsFiniteSet(Diagnostics) /\ Cardinality(Diagnostics) \in Nat
  <1> SUFFICES ASSUME TypeOK PROVE IsFiniteSet(Diagnostics)
    BY FS_CardinalityType
  <1> DEFINE D == DOMAIN calls
             S == {{i} \X (1..diags[i]) : i \in D}
             f == [i \in D |-> {i} \X (1..diags[i])]
  <1>1. Len(calls) \in Nat /\ D = 1..Len(calls) /\ \A i \in D : diags[i] \in Nat
    BY WorkFields DEF TypeOK, calls
  <1>2. IsFiniteSet(D)
    BY <1>1, FS_Interval
  <1>3. f \in Surjection(D, S)
    BY DEF Surjection
  <1>4. IsFiniteSet(S)
    <2> HIDE DEF f, S
    <2> QED
      BY <1>2, <1>3, FS_Surjection
  <1>5. \A T \in S : IsFiniteSet(T)
    <2> SUFFICES ASSUME NEW i \in D PROVE IsFiniteSet({i} \X (1..diags[i]))
      OBVIOUS
    <2>1. diags[i] \in Int
      BY <1>1
    <2>2. IsFiniteSet(1..diags[i])
      BY <2>1, FS_Interval
    <2>3. IsFiniteSet({i})
      BY FS_Singleton
    <2> QED
      BY <2>2, <2>3, FS_Product
  <1>6. IsFiniteSet(UNION S)
    <2> HIDE DEF S
    <2> QED
      BY <1>4, <1>5, FS_UNION
  <1> QED
    BY <1>6 DEF Diagnostics

\* A diagnostic is of a call, and one of those that it has.
LEMMA DiagnosticsAre ==
    ASSUME NEW p
    PROVE  p \in Diagnostics <=> \E i \in DOMAIN calls : \E n \in 1..diags[i] : p = <<i, n>>
  BY DEF Diagnostics

\* None at first.
LEMMA UntoldHasNone ==
    ASSUME diags = Untold(work)
    PROVE  Diagnostics = {} /\ Cardinality(Diagnostics) = 0
  <1>1. \A i \in DOMAIN calls : 1..diags[i] = {}
    BY DEF Untold, calls
  <1>2. Diagnostics = {}
    BY <1>1 DEF Diagnostics
  <1> QED
    BY <1>2, FS_EmptySet

\* A report is one more, rewritten or declined.
LEMMA EmitCounts ==
    ASSUME TypeOK, NEW i \in DOMAIN calls, NEW b \in BOOLEAN, Emit(i, b), work' = work
    PROVE  /\ Cardinality(Diagnostics)' = Cardinality(Diagnostics) + 1
           /\ fixed' + declined' = fixed + declined + Count(FixMode)
           /\ ~FixMode => fixed' = fixed /\ declined' = declined
  <1> DEFINE new == <<i, diags[i] + 1>>
  <1>1. calls' = calls
    BY DEF calls
  <1>2. diags \in [DOMAIN calls -> Nat]
    BY DEF TypeOK, calls
  <1>3. /\ diags'[i] = diags[i] + 1
        /\ \A j \in DOMAIN calls : j # i => diags'[j] = diags[j]
    <2>1. diags' = [diags EXCEPT ![i] = diags[i] + 1]
      BY DEF Emit
    <2> HIDE DEF calls
    <2> QED
      BY <1>2, <2>1
  <1>4. diags[i] \in Nat /\ 1..(diags[i] + 1) = (1..diags[i]) \cup {diags[i] + 1}
        /\ diags[i] + 1 \notin 1..diags[i]
    BY <1>2
  <1>5. Diagnostics' = Diagnostics \cup {new}
    <2>1. \A p : p \in Diagnostics' <=> \E j \in DOMAIN calls : \E n \in 1..diags'[j] : p = <<j, n>>
      BY <1>1 DEF Diagnostics
    <2>2. \A j \in DOMAIN calls : \A n : n \in 1..diags'[j] <=>
             n \in 1..diags[j] \/ (j = i /\ n = diags[i] + 1)
      BY <1>3, <1>4
    <2>3. \A p : p \in Diagnostics' <=> p \in Diagnostics \/ p = new
      BY <2>1, <2>2, DiagnosticsAre
    <2> QED
      BY <2>3
  <1>6. new \notin Diagnostics
    BY <1>4, DiagnosticsAre
  <1>7. Cardinality(Diagnostics)' = Cardinality(Diagnostics) + 1
    BY <1>5, <1>6, FinitelyMany, FS_AddElement
  <1>8. fixed \in Nat /\ declined \in Nat /\ FixMode \in BOOLEAN
    BY ModeAssumption DEF TypeOK
  <1>9. fixed' = fixed + Count(FixMode /\ b) /\ declined' = declined + Count(FixMode /\ ~b)
    BY DEF Emit
  <1>10. /\ fixed' + declined' = fixed + declined + Count(FixMode)
         /\ ~FixMode => fixed' = fixed /\ declined' = declined
    <2>1. CASE FixMode /\ b
      BY <1>8, <1>9, <2>1 DEF Count
    <2>2. CASE FixMode /\ ~b
      BY <1>8, <1>9, <2>2 DEF Count
    <2>3. CASE ~FixMode
      BY <1>8, <1>9, <2>3 DEF Count
    <2> QED
      BY <1>8, <2>1, <2>2, <2>3
  <1> QED
    BY <1>7, <1>10

\* Using an answer to a question about a call books what it reports.
LEMMA UseCounts ==
    ASSUME IInv, pc = "take", NEW a, Use(a)
    PROVE  /\ phase # "overload" =>
                 \/ UNCHANGED given
                 \/ /\ Cardinality(Diagnostics)' = Cardinality(Diagnostics) + 1
                    /\ fixed' + declined' = fixed + declined + Count(FixMode)
                    /\ ~FixMode => fixed' = fixed /\ declined' = declined
           /\ phase = "overload" =>
                 diags' = diags /\ fixed' + declined' = fixed + declined + 1
  <1> DEFINE i == chunk[1].call
  <1>1. TypeOK /\ AsksInOrder /\ work' = work
    BY UseEffect DEF IInv, place
  <1>2. phase # "overload" => i \in DOMAIN calls /\ calls[i].static \in BOOLEAN
    <2>1. chunk # <<>> /\ 1 \in DOMAIN chunk /\ Asking
      BY <1>1, UseEffect DEF TypeOK, Asking
    <2>2. phase # "overload" => i \in DOMAIN calls
      BY <1>1, <2>1, AskedOne
    <2> QED
      BY <1>1, <2>2, WorkFields DEF TypeOK, calls
  <1>3. CASE phase = "hover" /\ UseHover(i, a)
    <2>1. UNCHANGED given \/ Emit(i, a = "named" /\ ~calls[i].static)
      BY <1>3 DEF UseHover
    <2>2. (a = "named" /\ ~calls[i].static) \in BOOLEAN
      OBVIOUS
    <2> QED
      BY <1>1, <1>2, <1>3, <2>1, <2>2, EmitCounts
  <1>4. CASE phase = "ignore" /\ UseIgnore(i, a)
    <2>1. UNCHANGED given \/ Emit(i, ~calls[i].static)
      BY <1>4 DEF UseIgnore
    <2>2. (~calls[i].static) \in BOOLEAN
      OBVIOUS
    <2> QED
      BY <1>1, <1>2, <1>4, <2>1, <2>2, EmitCounts
  <1>5. CASE phase = "def" /\ UseDef(i, a)
    <2>1. UNCHANGED given \/ Emit(i, FALSE)
      BY <1>5 DEF UseDef
    <2> QED
      BY <1>1, <1>2, <1>5, <2>1, EmitCounts
  <1>6. CASE phase = "overload" /\ UseOverload(a)
    <2>1. diags' = diags
      BY <1>6 DEF UseOverload
    <2>2. fixed \in Nat /\ declined \in Nat
      BY <1>1 DEF TypeOK
    <2>3. fixed' = fixed + Count(a = "named") /\ declined' = declined + Count(a # "named")
      BY <1>6 DEF UseOverload
    <2>4. fixed' + declined' = fixed + declined + 1
      <3>1. CASE a = "named"
        BY <2>2, <2>3, <3>1 DEF Count
      <3>2. CASE a # "named"
        BY <2>2, <2>3, <3>2 DEF Count
      <3> QED
        BY <3>1, <3>2
    <2> QED
      BY <1>6, <2>1, <2>4
  <1> QED
    BY <1>3, <1>4, <1>5, <1>6 DEF Use

\* A file whose record is not touched keeps its diagnostics.
LEMMA GivenStays ==
    ASSUME UNCHANGED <<work, diags>>
    PROVE  /\ Diagnostics' = Diagnostics /\ Cardinality(Diagnostics)' = Cardinality(Diagnostics)
           /\ Untold(work)' = Untold(work) /\ calls' = calls /\ overloads' = overloads
  BY DEF Diagnostics, Untold, calls, overloads

\* Steps within a phase that give the file nothing.
LEMMA SameBooks ==
    ASSUME Booked, UNCHANGED <<work, diags, fixed, declined, phase>>, Done' = Done,
           pc' = pc \/ (Asking /\ Asking')
    PROVE  Booked'
  <1>1. /\ Cardinality(Diagnostics)' = Cardinality(Diagnostics)
        /\ Untold(work)' = Untold(work) /\ overloads' = overloads
    BY GivenStays
  <1>2. Asking' = Asking
    BY DEF Asking
  <1>3. \/ pc' = pc
        \/ /\ pc' \notin {"start", "attempt", "normalize", "judge", "overloads", "filed"}
           /\ pc \notin {"start", "attempt", "normalize", "judge", "overloads", "filed"}
    BY DEF Asking
  <1>4. pc' \in {"start", "attempt"} => fixed' = 0 /\ declined' = 0 /\ diags' = Untold(work)'
    BY <1>1, <1>3 DEF Booked
  <1>5. ~FixMode => fixed' = 0 /\ declined' = 0 /\ ~(Asking' /\ phase' = "overload")
    BY <1>2 DEF Booked
  <1>6. ASSUME FixMode
        PROVE  /\ pc' \in {"normalize", "judge", "overloads"} \/ (Asking' /\ phase' # "overload") =>
                     fixed' + declined' = Cardinality(Diagnostics)'
               /\ Asking' /\ phase' = "overload" =>
                     fixed' + declined' = Cardinality(Diagnostics)' + Done'
               /\ pc' = "filed" =>
                     fixed' + declined' = Cardinality(Diagnostics)' + Len(overloads')
    BY <1>1, <1>2, <1>3, <1>6 DEF Booked
  <1> QED
    BY <1>4, <1>5, <1>6 DEF Booked

\* Using an answer keeps the books.
LEMMA TakesBook ==
    ASSUME IInv, Booked, NEW a, Takes(a)
    PROVE  Booked'
  <1>1. /\ TypeOK /\ AsksInOrder /\ pc = "take" /\ Use(a) /\ Asking
    BY DEF IInv, Takes, Asking
  <1>2. /\ work' = work /\ chunk # <<>> /\ todo' = todo
        /\ phase' = "overload" <=> phase = "overload"
        /\ pc' \in {"ask", "take"} /\ Asking'
    BY <1>1, UseEffect DEF Collected, Asking, place
  <1>3. /\ fixed \in Nat /\ declined \in Nat /\ Cardinality(Diagnostics) \in Nat
        /\ fixed' \in Nat /\ declined' \in Nat
    BY <1>1, FinitelyMany, UseTypes DEF TypeOK, Takes
  <1>4. CASE phase # "overload"
    <2>1. ~FixMode => fixed' = 0 /\ declined' = 0
      BY <1>1, <1>4, UseCounts DEF Booked, given
    <2>2. ASSUME FixMode PROVE fixed' + declined' = Cardinality(Diagnostics)'
      <3>1. fixed + declined = Cardinality(Diagnostics)
        BY <1>1, <1>4, <2>2 DEF Booked
      <3>2. CASE UNCHANGED given
        BY <1>2, <3>1, <3>2, GivenStays DEF given
      <3>3. CASE /\ Cardinality(Diagnostics)' = Cardinality(Diagnostics) + 1
                 /\ fixed' + declined' = fixed + declined + Count(FixMode)
        BY <2>2, <3>1, <3>3 DEF Count
      <3> QED
        BY <1>1, <1>4, <3>2, <3>3, UseCounts
    <2> QED
      BY <1>2, <1>4, <2>1, <2>2 DEF Booked
  <1>5. CASE phase = "overload"
    <2>1. FixMode
      BY <1>1, <1>5, ModeAssumption DEF Booked
    <2>2. fixed + declined = Cardinality(Diagnostics) + Done /\ Done \in Nat
      BY <1>1, <1>5, <2>1 DEF Booked, AsksInOrder
    <2>3. /\ Cardinality(Diagnostics)' = Cardinality(Diagnostics)
          /\ fixed' + declined' = fixed + declined + 1
      BY <1>1, <1>2, <1>5, UseCounts, GivenStays
    <2>4. Done' = Done + 1
      <3>1. Asked' = Asked /\ Len(Asked) \in Nat /\ Len(todo) \in Nat
        BY <1>1, UseKeepsOrder, AskedList DEF TypeOK
      <3>2. Len(chunk') = Len(chunk) - 1 /\ Len(chunk) \in Nat
        BY <1>1, <1>2, <1>5, UseEffect, CollectedEffect
      <3> QED
        BY <1>2, <2>2, <3>1, <3>2 DEF Done
    <2>5. fixed' + declined' = Cardinality(Diagnostics)' + Done'
      <3>1. \A f, d, c, n \in Nat : f + d = c + n => f + d + 1 = c + (n + 1)
        OBVIOUS
      <3> QED
        <4>1. fixed + declined + 1 = Cardinality(Diagnostics) + (Done + 1)
          BY <1>3, <2>2, <3>1
        <4> QED
          BY <2>3, <2>4, <4>1
    <2> QED
      BY <1>2, <1>5, <2>1, <2>5 DEF Booked
  <1> QED
    BY <1>4, <1>5

\* A file none of whose calls is given an indexed diagnostic, when rewrites are planned.
Unindexed(w) == FixMode => \A i \in DOMAIN w.calls : ~w.calls[i].static

\* Nor do the turns lose a count.
LEMMA TurnsBook ==
    ASSUME IInv, Booked, Unindexed(work), TurnStep
    PROVE  Booked'
  <1>1. /\ TypeOK /\ AsksInOrder
        /\ fixed \in Nat /\ declined \in Nat /\ Cardinality(Diagnostics) \in Nat
        /\ Len(overloads) \in Nat /\ FixMode \in BOOLEAN
    BY FinitelyMany, WorkFields, ModeAssumption DEF IInv, TypeOK, overloads
  <1>2. CASE BeginFile
    <2>1. pc' = "start" /\ fixed' = 0 /\ declined' = 0 /\ diags' = Untold(work)'
      BY <1>2 DEF BeginFile, Untold
    <2> QED
      BY <2>1 DEF Booked, Asking
  <1>3. CASE EnterFile
    <2>1. /\ UNCHANGED <<work, diags, fixed, declined>> /\ pc = "start"
          /\ pc' \in {"overloads", "attempt", "failed"}
      BY <1>3 DEF EnterFile, place, given, StartServer
    <2>2. fixed = 0 /\ declined = 0 /\ diags = Untold(work)
      BY <2>1 DEF Booked
    <2>3. Cardinality(Diagnostics)' = 0 /\ diags' = Untold(work)'
      BY <2>1, <2>2, UntoldHasNone, GivenStays
    <2> QED
      BY <2>1, <2>2, <2>3 DEF Booked, Asking
  <1>4. CASE BeginAttempt
    <2>1. /\ UNCHANGED <<work, diags, fixed, declined>> /\ pc = "attempt"
          /\ pc' \in {"ask", "judge"} /\ phase' = "hover"
      BY <1>4 DEF BeginAttempt, place, given
    <2>2. fixed = 0 /\ declined = 0 /\ diags = Untold(work)
      BY <2>1 DEF Booked
    <2>3. Cardinality(Diagnostics)' = 0
      BY <2>1, <2>2, UntoldHasNone, GivenStays
    <2> QED
      BY <2>1, <2>2, <2>3 DEF Booked, Asking
  <1>5. CASE EndPhase
    <2>1. /\ UNCHANGED <<work, diags, fixed, declined>> /\ pc = "ask" /\ Asking
          /\ todo = <<>> /\ chunk = <<>>
          /\ \/ phase = "hover" /\ phase' = "def" /\ pc' = "ask"
             \/ phase = "def" /\ pc' = "normalize" /\ phase' = phase
             \/ phase = "overload" /\ pc' = "filed" /\ phase' = phase
      BY <1>1, <1>5 DEF EndPhase, place, given, Asking, TypeOK, Phases
    <2>2. Cardinality(Diagnostics)' = Cardinality(Diagnostics) /\ overloads' = overloads
      BY <2>1, GivenStays
    <2>3. phase = "overload" => Done = Len(overloads)
      BY <1>1, <2>1, AskedList DEF Done
    <2>4. ~FixMode => fixed = 0 /\ declined = 0 /\ phase # "overload"
      BY <2>1 DEF Booked
    <2>5. FixMode => fixed + declined = Cardinality(Diagnostics)
                                        + IF phase = "overload" THEN Len(overloads) ELSE 0
      BY <1>1, <2>1, <2>3 DEF Booked
    <2>6. CASE phase = "overload"
      BY <2>1, <2>2, <2>4, <2>5, <2>6 DEF Booked, Asking
    <2>7. CASE phase # "overload"
      BY <1>1, <2>1, <2>2, <2>4, <2>5, <2>7 DEF Booked, Asking
    <2> QED
      BY <2>6, <2>7
  <1>6. CASE Normalize
    <2>1. pc = "normalize" /\ pc' = "judge" /\ UNCHANGED <<work, fixed>>
      BY <1>6 DEF Normalize, place
    <2>2. CASE ~FixMode
      <3>1. declined' = declined
        <4> DEFINE n == Cardinality({i \in DOMAIN calls : calls[i].static})
        <4>1. n \in Nat
          BY <1>1, Statics DEF TypeOK, calls
        <4>2. declined' = declined + n * Count(FixMode)
          BY <1>6 DEF Normalize
        <4>3. Count(FixMode) = 0
          BY <2>2 DEF Count
        <4> HIDE DEF n
        <4> QED
          BY <1>1, <4>1, <4>2, <4>3
      <3> QED
        BY <2>1, <2>2, <3>1 DEF Booked, Asking
    <2>3. CASE FixMode
      <3>1. {i \in DOMAIN calls : calls[i].static} = {}
        BY <2>3 DEF Unindexed, calls
      <3>2. diags' = diags
        BY <1>1, <1>6, <3>1 DEF Normalize, TypeOK
      <3>3. declined' = declined
        <4>1. declined' = declined + 0 * Count(FixMode)
          BY <1>6, <3>1, FS_EmptySet DEF Normalize
        <4> QED
          BY <1>1, <2>3, <4>1 DEF Count
      <3>4. Cardinality(Diagnostics)' = Cardinality(Diagnostics)
        BY <2>1, <3>2, GivenStays
      <3> QED
        BY <2>1, <2>3, <3>3, <3>4 DEF Booked, Asking
    <2> QED
      BY <1>1, <2>2, <2>3
  <1>7. CASE Judge
    <2>1. pc = "judge" /\ work' = work
      BY <1>7 DEF Judge
    <2>2. CASE pc' = "overloads" /\ UNCHANGED given
      <3>1. Cardinality(Diagnostics)' = Cardinality(Diagnostics)
        BY <2>1, <2>2, GivenStays DEF given
      <3> QED
        BY <2>1, <2>2, <3>1 DEF Booked, Asking, given
    <2>3. CASE pc' \in {"attempt", "failed"} /\ Undo
      <3>1. fixed' = 0 /\ declined' = 0 /\ diags' = Untold(work)'
        BY <2>1, <2>3 DEF Undo, Untold
      <3> QED
        BY <2>3, <3>1 DEF Booked, Asking
    <2> QED
      BY <1>7, <2>2, <2>3 DEF Judge
  <1>8. CASE EndFile
    <2>1. UNCHANGED <<fixed, declined>> /\ pc' \in {"file", "ok"}
      BY <1>8 DEF EndFile, given
    <2> QED
      BY <2>1 DEF Booked, Asking
  <1>9. CASE BeginOverloads
    <2>1. pc = "overloads" /\ UNCHANGED <<work, diags, fixed>>
      BY <1>9 DEF BeginOverloads, place
    <2>2. Cardinality(Diagnostics)' = Cardinality(Diagnostics) /\ overloads' = overloads
      BY <2>1, GivenStays
    <2>3. FixMode => fixed + declined = Cardinality(Diagnostics)
      BY <2>1 DEF Booked
    <2>4. CASE ~FixMode
      <3>1. pc' = "filed" /\ declined' = declined
        BY <1>9, <2>4 DEF BeginOverloads
      <3> QED
        BY <2>1, <2>4, <3>1 DEF Booked, Asking
    <2>5. CASE FixMode /\ pc' = "filed" /\ declined' = declined + Len(overloads)
      <3>1. fixed' + declined' = Cardinality(Diagnostics)' + Len(overloads')
        BY <1>1, <2>1, <2>2, <2>3, <2>5
      <3> QED
        BY <2>5, <3>1 DEF Booked, Asking
    <2>6. CASE FixMode /\ pc' = "overloads" /\ declined' = declined
      BY <2>1, <2>2, <2>3, <2>6 DEF Booked, Asking
    <2>7. CASE FixMode /\ pc' = "ask" /\ phase' = "overload" /\ declined' = declined
      <3>1. Done' = 0
        BY <2>7, TurnsKeepIInv
      <3>2. fixed' + declined' = Cardinality(Diagnostics)' + Done'
        BY <1>1, <2>1, <2>2, <2>3, <2>7, <3>1
      <3> QED
        BY <2>7, <3>2 DEF Booked, Asking
    <2>8. ASSUME FixMode
          PROVE  \/ pc' = "filed" /\ declined' = declined + Len(overloads)
                 \/ pc' = "overloads" /\ declined' = declined
                 \/ pc' = "ask" /\ phase' = "overload" /\ declined' = declined
      <3>1. CASE overloads = <<>> /\ pc' = "filed" /\ declined' = declined
        <4>1. Len(overloads) = 0
          BY <3>1
        <4> QED
          BY <1>1, <3>1, <4>1
      <3>2. CASE /\ StartServer("overloads", "filed")
                 /\ declined' = declined + Len(overloads) * Count(server' = "absent")
        BY <1>1, <3>2 DEF StartServer, Count
      <3> QED
        BY <1>9, <2>8, <3>1, <3>2 DEF BeginOverloads
    <2> QED
      BY <1>1, <2>4, <2>5, <2>6, <2>7, <2>8
  <1> QED
    BY <1>2, <1>3, <1>4, <1>5, <1>6, <1>7, <1>8, <1>9 DEF TurnStep

\* Nor does any other step.
LEMMA NextBooks == IInv /\ Booked /\ Unindexed(work) /\ [Next]_vars => Booked'
  <1> SUFFICES ASSUME IInv, Booked, Unindexed(work), [Next]_vars PROVE Booked'
    OBVIOUS
  <1>1. CASE Ask \/ AskIgnore
    <2>1. Done' = Done
      BY <1>1, AskKeepsIInv, AskIgnoreKeepsIInv
    <2>2. UNCHANGED <<work, diags, fixed, declined, phase>> /\ Asking /\ Asking'
      BY <1>1 DEF Ask, AskIgnore, place, given, Asking
    <2> QED
      BY <2>1, <2>2, SameBooks
  <1>2. CASE TakeStep
    BY <1>2, TakesOne, TakesBook
  <1>3. ASSUME NEW m \in outstanding, Absorb(m) PROVE Booked'
    <2>1. Done' = Done
      BY <1>3, AbsorbKeepsIInv
    <2>2. UNCHANGED <<work, diags, fixed, declined, phase, pc>>
      BY <1>3 DEF Absorb, place, given
    <2> QED
      BY <2>1, <2>2, SameBooks
  <1>4. CASE ServerDies \/ UNCHANGED vars
    <2>1. Done' = Done
      BY <1>4, QuietKeepsIInv
    <2>2. UNCHANGED <<work, diags, fixed, declined, phase, pc>>
      BY <1>4 DEF ServerDies, place, given, vars
    <2> QED
      BY <2>1, <2>2, SameBooks
  <1> QED
    BY <1>1, <1>2, <1>3, <1>4, Steps, TurnsBook

\* The file at hand, if there is one yet, is one of those the shard may get.
LEMMA NextWork ==
    ASSUME IInv, [Next]_vars
    PROVE  work' = work \/ work' \in Works
  <1>1. CASE TurnStep
    BY <1>1 DEF TurnStep, BeginFile, EnterFile, BeginAttempt, EndPhase, Normalize, Judge,
                BeginOverloads, EndFile, place
  <1>2. CASE TakeStep
    <2>1. PICK a : Takes(a)
      BY <1>2, TakesOne
    <2> QED
      BY <2>1 DEF Takes, Use, place
  <1>3. ASSUME NEW m \in outstanding, Absorb(m) PROVE work' = work
    BY <1>3 DEF Absorb, place
  <1>4. CASE Ask \/ AskIgnore \/ ServerDies \/ UNCHANGED vars
    BY <1>4 DEF Ask, AskIgnore, ServerDies, place, vars
  <1> QED
    BY <1>1, <1>2, <1>3, <1>4, Steps

\* Every diagnostic of a file is counted once, as rewritten or as declined, and none is
\* while no rewrites are planned (fix_runner.rs resolve_fix_scan's debug_assert), unless
\* a call's diagnostic is replaced by the indexed one, which is then counted twice
\* (check.rs normalize_static_ty_fallback).
THEOREM RewritesAddUp ==
    ASSUME \A w \in Works : Unindexed(w)
    PROVE  Spec => []FixesAddUp
  <1>1. Init => Booked /\ Unindexed(work)
    <2> SUFFICES ASSUME Init PROVE Booked /\ Unindexed(work)
      OBVIOUS
    <2>1. pc = "file" /\ fixed = 0 /\ declined = 0 /\ DOMAIN work.calls = {}
      BY DEF Init
    <2> QED
      BY <2>1 DEF Booked, Asking, Unindexed
  <1>2. IInv /\ Booked /\ Unindexed(work) /\ [Next]_vars => Booked' /\ Unindexed(work)'
    BY NextBooks, NextWork DEF Unindexed
  <1>3. IInv /\ Booked => FixesAddUp
    <2> SUFFICES ASSUME IInv, Booked, pc = "filed"
                 PROVE  fixed + declined
                        = (Len(overloads) + Cardinality(Diagnostics)) * Count(FixMode)
      BY DEF FixesAddUp
    <2>1. /\ Cardinality(Diagnostics) \in Nat /\ Len(overloads) \in Nat /\ FixMode \in BOOLEAN
      BY FinitelyMany, WorkFields, ModeAssumption DEF IInv, TypeOK, overloads
    <2>2. (Len(overloads) + Cardinality(Diagnostics)) * Count(FixMode)
          = IF FixMode THEN Len(overloads) + Cardinality(Diagnostics) ELSE 0
      BY <2>1 DEF Count
    <2>3. fixed + declined = IF FixMode THEN Cardinality(Diagnostics) + Len(overloads) ELSE 0
      BY <2>1 DEF Booked
    <2> QED
      BY <2>1, <2>2, <2>3
  <1> QED
    BY <1>1, <1>2, <1>3, Invariance, PTL DEF Spec

(***************************************************************************)
(* FiledIsExact                                                            *)
(***************************************************************************)
\* The first of some numbers is their least.
LEMMA FirstIs ==
    ASSUME NEW S \in SUBSET Int, NEW j \in S, \A k \in S : j <= k
    PROVE  First(S) = j
  <1>1. \A x, y \in S : (\A k \in S : x <= k) /\ (\A k \in S : y <= k) => x = y
    OBVIOUS
  <1> QED
    BY <1>1 DEF First

\* What a file deserves depends on its calls alone.
LEMMA CallsStay ==
    ASSUME work' = work
    PROVE  /\ calls' = calls
           /\ \A i : /\ HoverOf(i)' = HoverOf(i) /\ NeedsDef(i)' = NeedsDef(i)
                     /\ ByHover(i)' = ByHover(i) /\ ByDefinition(i)' = ByDefinition(i)
                     /\ Reported(i)' = Reported(i)
  <1>1. calls' = calls
    BY DEF calls
  <1>2. \A i : HoverOf(i)' = HoverOf(i) /\ Earlier(i)' = Earlier(i)
    BY <1>1 DEF HoverOf, Earlier
  <1>3. \A i : NeedsDef(i)' = NeedsDef(i)
    BY <1>2 DEF NeedsDef
  <1>4. \A i : ByHover(i)' = ByHover(i)
    BY <1>1, <1>2 DEF ByHover
  <1>5. \A i : DefOf(i)' = DefOf(i)
    BY <1>1, <1>2, <1>3 DEF DefOf
  <1>6. \A i : ByDefinition(i)' = ByDefinition(i)
    BY <1>3, <1>5 DEF ByDefinition
  <1>7. \A i : Reported(i)' = Reported(i)
    BY <1>1, <1>4, <1>6 DEF Reported
  <1> QED
    BY <1>1, <1>2, <1>3, <1>4, <1>6, <1>7

\* The hover of a call is an answer, and what follows from it is one of three.
LEMMA HoverTypes ==
    ASSUME TypeOK, NEW i \in DOMAIN calls
    PROVE  /\ calls[i].hover \in Hovers /\ calls[i].def \in Definitions
           /\ calls[i].group \in Groups \cup {0}
           /\ i \in Nat /\ i >= 1
  <1>1. /\ \A j \in DOMAIN calls : /\ calls[j].hover \in Hovers /\ calls[j].def \in Definitions
                                   /\ calls[j].group \in Groups \cup {0}
        /\ DOMAIN calls = 1..Len(calls) /\ Len(calls) \in Nat
    BY WorkFields DEF TypeOK, calls
  <1> QED
    BY <1>1

\* The hover a call is judged by is the one its group has kept, or else its own.
LEMMA HoverIsKept ==
    ASSUME TypeOK, NEW i \in DOMAIN calls, NEW kept,
           LET g == calls[i].group
           IN IF g = 0 THEN kept = Off ELSE KeepsFirst(kept, Seeds(g, i - 1), "hover")
    PROVE  /\ HoverOf(i) = IF kept # Off THEN kept ELSE calls[i].hover
           /\ kept # Off => HoverOf(i) \in Named
  <1> DEFINE g == calls[i].group
             seeds == {j \in Earlier(i) : calls[j].hover \in Named}
  <1>1. HoverOf(i) = calls[IF seeds = {} THEN i ELSE First(seeds)].hover
    BY DEF HoverOf
  <1>2. CASE g = 0
    <2>1. Earlier(i) = {}
      BY <1>2 DEF Earlier
    <2>2. seeds = {}
      BY <2>1
    <2> QED
      BY <1>1, <1>2, <2>2
  <1>3. CASE g # 0
    <2>1. seeds = Seeds(g, i - 1)
      BY <1>3 DEF Earlier, Seeds
    <2>2. seeds \subseteq Int /\ \A j \in seeds : calls[j].hover \in Named
      BY DEF Earlier
    <2>3. CASE seeds = {} /\ kept = Off
      BY <1>1, <2>3
    <2>4. CASE \E j \in seeds : (\A k \in seeds : j <= k) /\ kept = calls[j].hover
      <3>1. PICK j \in seeds : (\A k \in seeds : j <= k) /\ kept = calls[j].hover
        BY <2>4
      <3> HIDE DEF seeds
      <3>2. First(seeds) = j /\ seeds # {}
        BY <2>2, <3>1, FirstIs
      <3>3. kept \in Named /\ kept # Off
        BY <2>2, <3>1 DEF Named, Off
      <3> QED
        BY <1>1, <3>1, <3>2, <3>3
    <2> QED
      BY <1>3, <2>1, <2>3, <2>4 DEF KeepsFirst
  <1> QED
    BY <1>2, <1>3

\* The answer taken for a call is kept for its group, as the first of those it could
\* have been.
LEMMA KeepsOn ==
    ASSUME NEW S \in SUBSET Int, NEW i \in Int, \A k \in S : k < i,
           NEW kept, NEW field,
           KeepsFirst(kept, S, field), \A j \in S : calls[j][field] # Off
    PROVE  KeepsFirst(IF kept # Off THEN kept ELSE calls[i][field], S \cup {i}, field)
  <1> DEFINE a == IF kept # Off THEN kept ELSE calls[i][field]
             T == S \cup {i}
  <1>1. CASE S = {} /\ kept = Off
    BY <1>1 DEF KeepsFirst
  <1>2. CASE \E j \in S : (\A k \in S : j <= k) /\ kept = calls[j][field]
    <2>1. PICK j \in S : (\A k \in S : j <= k) /\ kept = calls[j][field]
      BY <1>2
    <2>2. a = calls[j][field] /\ j \in T
      BY <2>1
    <2>3. \A k \in T : j <= k
      BY <2>1
    <2> QED
      BY <2>2, <2>3 DEF KeepsFirst
  <1> QED
    BY <1>1, <1>2 DEF KeepsFirst

\* The calls a group has before one whose definition is needed, that need it too.
Needy(g, n) == {j \in 1..n : calls[j].group = g /\ NeedsDef(j)}

\* The definition a call is judged by is the one its group has kept, or else its own.
LEMMA DefIsKept ==
    ASSUME TypeOK, NEW i \in DOMAIN calls, NEW kept, NeedsDef(i),
           LET g == calls[i].group
           IN IF g = 0 THEN kept = Off ELSE KeepsFirst(kept, Needy(g, i - 1), "def"),
           \A j \in 1..(i - 1) : calls[j].def # Off
    PROVE  DefOf(i) = IF kept # Off THEN kept ELSE calls[i].def
  <1> DEFINE g == calls[i].group
             T == {j \in Earlier(i) \cup {i} : NeedsDef(j)}
  <1>1. DefOf(i) = calls[First(T)].def
    BY DEF DefOf
  <1>2. i \in Nat /\ i >= 1
    BY HoverTypes
  <1>3. CASE IF g = 0 THEN TRUE ELSE Needy(g, i - 1) = {} /\ kept = Off
    <2>1. T = {i}
      <3>1. CASE g = 0
        BY <3>1 DEF Earlier
      <3>2. CASE g # 0
        <4>1. \A j \in Earlier(i) : ~NeedsDef(j)
          BY <1>3, <3>2 DEF Earlier, Needy
        <4> QED
          BY <4>1
      <3> QED
        BY <3>1, <3>2
    <2>2. First(T) = i
      <3> HIDE DEF T
      <3> QED
        BY <1>2, <2>1, FirstIs
    <2> QED
      BY <1>1, <1>3, <2>2
  <1>4. CASE g # 0 /\ \E j \in Needy(g, i - 1) :
                         (\A k \in Needy(g, i - 1) : j <= k) /\ kept = calls[j].def
    <2>1. PICK j \in Needy(g, i - 1) :
             (\A k \in Needy(g, i - 1) : j <= k) /\ kept = calls[j].def
      BY <1>4
    <2>2. T = Needy(g, i - 1) \cup {i}
      BY <1>4 DEF Earlier, Needy
    <2>3. T \subseteq Int /\ j \in T /\ \A k \in T : j <= k
      BY <1>2, <2>1, <2>2 DEF Needy
    <2>4. First(T) = j
      <3> HIDE DEF T
      <3> QED
        BY <2>3, FirstIs
    <2>5. kept # Off
      BY <2>1 DEF Needy
    <2> QED
      BY <1>1, <2>1, <2>4, <2>5
  <1> QED
    BY <1>3, <1>4 DEF KeepsFirst

\* What comes before an element of a list is what is less.
LEMMA ListBefore ==
    ASSUME NEW S, NEW s \in Seq(Nat), Lists(s, S), NEW n \in Nat, n + 1 \in DOMAIN s
    PROVE  /\ s[n + 1] \in S /\ s[n + 1] \notin {s[k] : k \in 1..n}
           /\ \A j : j \in {s[k] : k \in 1..n} <=> j \in S /\ j < s[n + 1]
  <1>1. /\ \A k \in DOMAIN s : s[k] \in S /\ s[k] \in Nat
        /\ \A i \in S : \E k \in DOMAIN s : s[k] = i
        /\ \A j, k \in DOMAIN s : j < k => s[j] < s[k]
        /\ DOMAIN s = 1..Len(s) /\ Len(s) \in Nat
    BY DEF Lists
  <1>2. \A k \in 1..n : k \in DOMAIN s /\ k < n + 1
    BY <1>1
  <1>3. \A k \in 1..n : s[k] \in S /\ s[k] < s[n + 1]
    BY <1>1, <1>2
  <1>4. ASSUME NEW j \in S, j < s[n + 1] PROVE j \in {s[k] : k \in 1..n}
    <2>1. PICK k \in DOMAIN s : s[k] = j
      BY <1>1
    <2>2. ~(n + 1 < k) /\ k # n + 1
      BY <1>1, <1>4, <2>1
    <2>3. k \in 1..n
      BY <1>1, <2>2
    <2> QED
      BY <2>1, <2>3
  <1>5. \A j : j \in {s[k] : k \in 1..n} => j \in S /\ j < s[n + 1]
    BY <1>3
  <1>6. s[n + 1] \in Nat
    BY <1>1
  <1>7. s[n + 1] \notin {s[k] : k \in 1..n}
    <2>1. ~(s[n + 1] < s[n + 1])
      BY <1>6
    <2> QED
      BY <1>5, <2>1
  <1> QED
    BY <1>1, <1>4, <1>5, <1>7

\* A list goes on with something that is more.
LEMMA ListMore ==
    ASSUME NEW S, NEW s \in Seq(Nat), Lists(s, S), NEW i \in Nat, \A j \in S : j < i
    PROVE  Lists(Append(s, i), S \cup {i})
  <1> DEFINE t == Append(s, i)
  <1>1. /\ Len(s) \in Nat /\ DOMAIN s = 1..Len(s) /\ DOMAIN t = 1..(Len(s) + 1)
        /\ \A k \in 1..(Len(s) + 1) : t[k] = IF k = Len(s) + 1 THEN i ELSE s[k]
    OBVIOUS
  <1> HIDE DEF t
  <1>2. /\ \A k \in DOMAIN s : s[k] \in S
        /\ \A j \in S : \E k \in DOMAIN s : s[k] = j
        /\ \A j, k \in DOMAIN s : j < k => s[j] < s[k]
    BY DEF Lists
  <1>3. \A k \in DOMAIN t : t[k] \in S \cup {i}
    BY <1>1, <1>2
  <1>4. \A j \in S \cup {i} : \E k \in DOMAIN t : t[k] = j
    <2>1. Len(s) + 1 \in DOMAIN t /\ t[Len(s) + 1] = i
      BY <1>1
    <2>2. \A k \in DOMAIN s : k \in DOMAIN t /\ t[k] = s[k]
      BY <1>1
    <2> QED
      BY <1>2, <2>1, <2>2
  <1>5. \A j, k \in DOMAIN t : j < k => t[j] < t[k]
    <2> SUFFICES ASSUME NEW j \in DOMAIN t, NEW k \in DOMAIN t, j < k PROVE t[j] < t[k]
      OBVIOUS
    <2>1. j \in DOMAIN s /\ t[j] = s[j]
      BY <1>1
    <2>2. CASE k = Len(s) + 1
      BY <1>1, <1>2, <2>1, <2>2
    <2>3. CASE k # Len(s) + 1
      <3>1. k \in DOMAIN s /\ t[k] = s[k]
        BY <1>1, <2>3
      <3> QED
        BY <1>2, <2>1, <3>1
    <2> QED
      BY <2>2, <2>3
  <1> QED
    BY <1>3, <1>4, <1>5 DEF Lists, t

\* The call at hand is the next to be judged.
LEMMA AtHand ==
    ASSUME TypeOK, AsksInOrder, Asking, chunk # <<>>
    PROVE  /\ Done \in Nat /\ Done + 1 \in 1..Len(Asked) /\ chunk[1].call = Asked[Done + 1]
           /\ phase \in {"hover", "ignore"} =>
                 chunk[1].call = Done + 1 /\ Done + 1 \in DOMAIN calls
           /\ phase = "def" =>
                 chunk[1].call = needsDef[Done + 1] /\ Done + 1 \in DOMAIN needsDef
  <1>1. /\ Len(chunk) \in Nat /\ Len(chunk) >= 1 /\ 1 \in DOMAIN chunk
        /\ Len(todo) \in Nat /\ Len(Asked) \in Nat /\ Done \in Nat
        /\ DOMAIN calls = 1..Len(calls) /\ DOMAIN needsDef = 1..Len(needsDef)
    BY AskedList, WorkFields DEF TypeOK, AsksInOrder, calls
  <1>2. Done = Len(Asked) - Len(chunk) - Len(todo)
    BY DEF Done
  <1>3. Done + 1 \in 1..Len(Asked)
    BY <1>1, <1>2
  <1>4. chunk[1].call = Asked[Done + 1]
    BY <1>1 DEF AsksInOrder
  <1> QED
    BY <1>1, <1>3, <1>4, AskedList

\* What has been judged, said of the state after a step.
LEMMA HoversJudgedNext ==
    ASSUME work' = work, NEW heard, heard = Heard', NEW done, done = Done',
           \A h \in Groups : KeepsFirst(groupHover'[h], Seeds(h, heard), "hover")
                             /\ groupDef'[h] = Off,
           phase' = "ignore" => HoverOf(done + 1) = "asks",
           Lists(needsDef', {j \in 1..done : NeedsDef(j)}),
           \A j \in DOMAIN calls : diags'[j] = Count(j <= done /\ ByHover(j))
    PROVE  HoversJudged'
  <1>1. /\ calls' = calls
        /\ \A i : HoverOf(i)' = HoverOf(i) /\ NeedsDef(i)' = NeedsDef(i) /\ ByHover(i)' = ByHover(i)
    BY CallsStay
  <1>2. \A h \in Groups : KeepsFirst(groupHover[h], Seeds(h, Heard), "hover")' /\ groupDef'[h] = Off
    <2> TAKE h \in Groups
    <2>1. Seeds(h, Heard)' = Seeds(h, heard)
      BY <1>1 DEF Seeds
    <2>2. KeepsFirst(groupHover'[h], Seeds(h, heard), "hover") /\ groupDef'[h] = Off
      OBVIOUS
    <2> QED
      BY <1>1, <2>1, <2>2 DEF KeepsFirst
  <1>3. {j \in 1..Done : NeedsDef(j)}' = {j \in 1..done : NeedsDef(j)}
    BY <1>1
  <1>4. phase' = "ignore" => HoverOf(Done + 1)' = "asks"
    <2>1. HoverOf(Done + 1)' = HoverOf(done + 1)
      BY <1>1 DEF HoverOf, Earlier
    <2> QED
      BY <2>1
  <1>5. \A j \in DOMAIN calls' : diags'[j] = Count(j <= Done /\ ByHover(j))'
    BY <1>1 DEF Count
  <1>6. Lists(needsDef, {j \in 1..Done : NeedsDef(j)})'
    BY <1>3
  <1> QED
    BY <1>2, <1>4, <1>5, <1>6 DEF HoversJudged

\* With a call done, one more is.
LEMMA CollectedDone ==
    ASSUME TypeOK, AsksInOrder, pc = "take", NEW a, Use(a), Collected
    PROVE  Done' = Done + 1
  <1>1. /\ Asked' = Asked /\ Len(Asked) \in Nat /\ Len(todo) \in Nat /\ todo' = todo
        /\ chunk # <<>>
    BY UseKeepsOrder, AskedList, UseEffect DEF TypeOK
  <1>2. Len(chunk') = Len(chunk) - 1 /\ Len(chunk) \in Nat
    BY <1>1, CollectedEffect
  <1> QED
    BY <1>1, <1>2 DEF Done

\* A call not judged yet is judged by one report.
LEMMA EmitJudges ==
    ASSUME TypeOK, NEW i \in DOMAIN calls, NEW b, Emit(i, b), NEW judged, NEW judgedNow,
           \A j \in DOMAIN calls : diags[j] = Count(j \in judged),
           i \notin judged,
           \A j \in DOMAIN calls : j \in judgedNow <=> j \in judged \/ j = i
    PROVE  \A j \in DOMAIN calls : diags'[j] = Count(j \in judgedNow)
  <1>1. diags \in [DOMAIN calls -> Nat]
    BY DEF TypeOK, calls
  <1>2. diags' = [diags EXCEPT ![i] = diags[i] + 1]
    BY DEF Emit
  <1>3. /\ diags'[i] = diags[i] + 1
        /\ \A j \in DOMAIN calls : j # i => diags'[j] = diags[j]
    <2> HIDE DEF calls
    <2> QED
      BY <1>1, <1>2
  <1>4. diags[i] = 0
    BY DEF Count
  <1>5. diags'[i] = Count(i \in judgedNow)
    BY <1>3, <1>4 DEF Count
  <1>6. \A j \in DOMAIN calls : j # i => diags'[j] = Count(j \in judgedNow)
    BY <1>3 DEF Count
  <1> QED
    BY <1>5, <1>6

\* A judged hover: what the use of the right answer does to the hover phase.
LEMMA HoverJudges ==
    ASSUME IInv, HoversJudged, NEW a, Takes(a), phase = "hover", ~disabled'
    PROVE  HoversJudged'
  <1> DEFINE i == Done + 1
             g == calls[i].group
  <1>1. /\ TypeOK /\ AsksInOrder /\ Asking /\ Use(a) /\ chunk # <<>> /\ work' = work
        /\ ~disabled /\ pc = "take"
    BY UseEffect DEF IInv, Takes, Asking, place
  <1>2. /\ Done \in Nat /\ i \in DOMAIN calls /\ chunk[1].call = i /\ i \in Nat
        /\ 1..i = (1..Done) \cup {i} /\ i - 1 = Done
    BY <1>1, AtHand
  <1>3. /\ calls[i].hover \in Hovers /\ g \in Groups \cup {0} /\ 0 \notin Groups
        /\ calls[i].def \in Definitions
    BY <1>1, <1>2, HoverTypes, WorksAssumption
  <1>4. /\ \A h \in Groups : KeepsFirst(groupHover[h], Seeds(h, Done), "hover") /\ groupDef[h] = Off
        /\ Lists(needsDef, {j \in 1..Done : NeedsDef(j)})
        /\ \A j \in DOMAIN calls : diags[j] = Count(j <= Done /\ ByHover(j))
    <2>1. Heard = Done
      BY <1>1, <1>2 DEF Heard, Count
    <2> QED
      BY <1>1, <2>1 DEF HoversJudged
  <1> DEFINE kept == IF g = 0 THEN Off ELSE groupHover[g]
  <1>5. /\ HoverOf(i) = IF kept # Off THEN kept ELSE calls[i].hover
        /\ kept # Off => HoverOf(i) \in Named
    <2>1. IF g = 0 THEN kept = Off ELSE KeepsFirst(kept, Seeds(g, i - 1), "hover")
      BY <1>2, <1>3, <1>4
    <2> HIDE DEF kept
    <2> QED
      BY <1>1, <1>2, <2>1, HoverIsKept
  <1>6. a = HoverOf(i) /\ a \in Hovers
    <2>1. Cached(phase, i) = kept /\ Truth(phase, i) = calls[i].hover
      BY DEF Cached, Truth
    <2>2. a = IF Cached(phase, i) # Off THEN Cached(phase, i) ELSE Truth(phase, i)
      BY <1>2 DEF Takes
    <2>3. Named \subseteq Hovers
      BY DEF Hovers
    <2> QED
      BY <1>3, <1>5, <2>1, <2>2, <2>3
  <1> HIDE DEF i
  <1>7. /\ UseHover(i, a)
        /\ groupHover' = IF g # 0 /\ a \in Named THEN [groupHover EXCEPT ![g] = a] ELSE groupHover
        /\ groupDef' = groupDef
    BY <1>1, <1>2 DEF Use, UseHover, Shareable
  <1>8. \A h \in Groups : KeepsFirst(groupHover'[h], Seeds(h, i), "hover")
    <2> TAKE h \in Groups
    <2>1. groupHover \in [Groups -> Named \cup {Off}]
      BY <1>1 DEF TypeOK
    <2>2. CASE h # g
      <3>1. groupHover'[h] = groupHover[h]
        BY <1>7, <2>1, <2>2
      <3>2. Seeds(h, i) = Seeds(h, Done)
        BY <1>2, <2>2 DEF Seeds
      <3> QED
        BY <1>4, <3>1, <3>2
    <2>3. CASE h = g /\ a \in Named
      <3>1. groupHover'[h] = a /\ kept = groupHover[h]
        BY <1>3, <1>7, <2>1, <2>3
      <3>2. CASE calls[i].hover \in Named
        <4>1. Seeds(h, i) = Seeds(h, Done) \cup {i}
          BY <1>2, <2>3, <3>2 DEF Seeds
        <4>2. Seeds(h, Done) \subseteq Int /\ \A k \in Seeds(h, Done) : k < i /\ calls[k]["hover"] # Off
          BY <1>2 DEF Seeds, Named, Off, i
        <4>3. KeepsFirst(a, Seeds(h, i), "hover")
          <5>1. a = IF groupHover[h] # Off THEN groupHover[h] ELSE calls[i]["hover"]
            BY <1>5, <1>6, <3>1
          <5>2. KeepsFirst(groupHover[h], Seeds(h, Done), "hover") /\ i \in Int
            BY <1>2, <1>4
          <5>3. KeepsFirst(IF groupHover[h] # Off THEN groupHover[h] ELSE calls[i]["hover"],
                           Seeds(h, Done) \cup {i}, "hover")
            BY <4>2, <5>2, KeepsOn
          <5> QED
            BY <4>1, <5>1, <5>3
        <4> QED
          BY <3>1, <4>3
      <3>3. CASE calls[i].hover \notin Named
        <4>1. Seeds(h, i) = Seeds(h, Done)
          BY <1>2, <3>3 DEF Seeds
        <4>2. a = groupHover[h]
          BY <1>5, <1>6, <2>3, <3>1, <3>3
        <4> QED
          BY <1>4, <3>1, <4>1, <4>2
      <3> QED
        BY <3>2, <3>3
    <2>4. CASE h = g /\ a \notin Named
      <3>1. groupHover'[h] = groupHover[h]
        BY <1>7, <2>4
      <3>2. calls[i].hover \notin Named
        BY <1>5, <1>6, <2>4
      <3>3. Seeds(h, i) = Seeds(h, Done)
        BY <1>2, <3>2 DEF Seeds
      <3> QED
        BY <1>4, <3>1, <3>3
    <2> QED
      BY <2>2, <2>3, <2>4
  <1>9. \A h \in Groups : groupDef'[h] = Off
    BY <1>4, <1>7
  <1>10. ByHover(i) <=> a \in {"named", "arms"} \/ (a = "asks" /\ calls[i].def = "null")
    BY <1>6 DEF ByHover
  <1>11. NeedsDef(i) <=> a \in {"type", "null"}
    BY <1>6 DEF NeedsDef
  <1>12. CASE a = "asks"
    <2>1. /\ phase' = "ignore" /\ UNCHANGED <<chunk, needsDef, diags>>
      BY <1>7, <1>12 DEF UseHover, given, Off
    <2>2. Done' = Done
      BY <1>1, <2>1, UseKeepsOrder, UseEffect DEF Done
    <2>3. Heard' = i
      BY <1>2, <2>1, <2>2 DEF Heard, Count, i
    <2>4. PICK done : done = Done
      OBVIOUS
    <2>5. \A j \in DOMAIN calls : diags'[j] = Count(j <= done /\ ByHover(j))
      BY <1>4, <2>1, <2>4
    <2>6. Lists(needsDef', {j \in 1..done : NeedsDef(j)})
      BY <1>4, <2>1, <2>4
    <2>7. HoverOf(done + 1) = "asks"
      BY <1>6, <1>12, <2>4 DEF i
    <2> QED
      BY <1>1, <1>8, <1>9, <2>2, <2>3, <2>4, <2>5, <2>6, <2>7, HoversJudgedNext
  <1>13. CASE a # "asks"
    <2>1. phase' = "hover" /\ Collected
      BY <1>1, <1>7, <1>13 DEF UseHover, Takes
    <2>2. Done' = i
      BY <1>1, <1>2, <2>1, CollectedDone DEF i
    <2>3. Heard' = i
      BY <1>2, <2>1, <2>2 DEF Heard, Count
    <2>4. Lists(needsDef', {j \in 1..i : NeedsDef(j)})
      <3>1. CASE NeedsDef(i)
        <4>1. needsDef' = Append(needsDef, i)
          BY <1>2, <1>7, <1>11, <3>1 DEF UseHover
        <4>2. {j \in 1..i : NeedsDef(j)} = {j \in 1..Done : NeedsDef(j)} \cup {i}
          BY <1>2, <3>1
        <4>3. \A j \in {j \in 1..Done : NeedsDef(j)} : j < i
          BY <1>2 DEF i
        <4> QED
          <5>1. needsDef \in Seq(Nat)
            BY <1>1 DEF TypeOK
          <5>2. Lists(Append(needsDef, i), {j \in 1..Done : NeedsDef(j)} \cup {i})
            BY <1>2, <1>4, <4>3, <5>1, ListMore
          <5> QED
            BY <4>1, <4>2, <5>2
      <3>2. CASE ~NeedsDef(i)
        <4>1. needsDef' = needsDef
          BY <1>6, <1>7, <1>11, <1>13, <3>2 DEF UseHover, Hovers, Named, Off
        <4>2. {j \in 1..i : NeedsDef(j)} = {j \in 1..Done : NeedsDef(j)}
          BY <1>2, <3>2
        <4> QED
          BY <1>4, <4>1, <4>2
      <3> QED
        BY <3>1, <3>2
    <2>5. \A j \in DOMAIN calls : diags'[j] = Count(j <= i /\ ByHover(j))
      <3>1. \A j \in DOMAIN calls : j \in Nat /\ (j <= i <=> j <= Done \/ j = i) /\ ~(i <= Done)
        BY <1>1, <1>2, HoverTypes DEF i
      <3>2. CASE ByHover(i)
        <4>1. Emit(i, a = "named" /\ ~calls[i].static)
          BY <1>2, <1>7, <1>10, <1>13, <3>2 DEF UseHover, Off
        <4> DEFINE judged == {j \in DOMAIN calls : j <= Done /\ ByHover(j)}
                   judgedNow == {j \in DOMAIN calls : j <= i /\ ByHover(j)}
        <4>2. /\ \A j \in DOMAIN calls : diags[j] = Count(j \in judged)
              /\ i \notin judged
              /\ \A j \in DOMAIN calls : j \in judgedNow <=> j \in judged \/ j = i
          BY <1>2, <1>4, <3>1, <3>2
        <4>3. \A j \in DOMAIN calls : diags'[j] = Count(j \in judgedNow)
          <5> HIDE DEF judged, judgedNow
          <5> QED
            BY <1>1, <1>2, <4>1, <4>2, EmitJudges
        <4> QED
          BY <4>3 DEF Count
      <3>3. CASE ~ByHover(i)
        <4>1. diags' = diags
          BY <1>6, <1>7, <1>10, <1>13, <3>3 DEF UseHover, given, Hovers, Named
        <4> QED
          BY <1>4, <3>1, <3>3, <4>1 DEF Count
      <3> QED
        BY <3>2, <3>3
    <2> QED
      BY <1>1, <1>8, <1>9, <2>1, <2>2, <2>3, <2>4, <2>5, HoversJudgedNext
  <1> QED
    BY <1>12, <1>13

\* An ignore entry judged: it silences the call, or it does not.
LEMMA IgnoreJudges ==
    ASSUME IInv, HoversJudged, NEW a, Takes(a), phase = "ignore", ~disabled'
    PROVE  HoversJudged'
  <1> DEFINE i == Done + 1
  <1>1. /\ TypeOK /\ AsksInOrder /\ Asking /\ Use(a) /\ chunk # <<>> /\ work' = work
        /\ ~disabled /\ pc = "take"
    BY UseEffect DEF IInv, Takes, Asking, place
  <1>2. /\ Done \in Nat /\ i \in DOMAIN calls /\ chunk[1].call = i /\ i \in Nat
        /\ 1..i = (1..Done) \cup {i}
    BY <1>1, AtHand
  <1>3. calls[i].def \in Definitions
    BY <1>1, <1>2, HoverTypes
  <1>4. /\ \A h \in Groups : KeepsFirst(groupHover[h], Seeds(h, i), "hover") /\ groupDef[h] = Off
        /\ HoverOf(i) = "asks"
        /\ Lists(needsDef, {j \in 1..Done : NeedsDef(j)})
        /\ \A j \in DOMAIN calls : diags[j] = Count(j <= Done /\ ByHover(j))
    <2>1. Heard = i
      BY <1>1, <1>2 DEF Heard, Count
    <2> QED
      BY <1>1, <2>1 DEF HoversJudged
  <1>5. a = calls[i].def
    <2>1. Cached(phase, i) = Off /\ Truth(phase, i) = calls[i].def
      BY DEF Cached, Truth
    <2> QED
      BY <1>2, <2>1 DEF Takes
  <1>6. ~NeedsDef(i) /\ (ByHover(i) <=> a # "loc")
    BY <1>3, <1>4, <1>5 DEF NeedsDef, ByHover, Definitions
  <1> HIDE DEF i
  <1>7. /\ IF a = "loc" THEN UNCHANGED given ELSE Emit(i, ~calls[i].static)
        /\ phase' = "hover" /\ Collected /\ UNCHANGED <<needsDef, groupHover, groupDef>>
    BY <1>1, <1>2 DEF Use, UseIgnore, caches
  <1>8. Done' = i
    BY <1>1, <1>2, <1>7, CollectedDone DEF i
  <1>9. Heard' = i
    BY <1>2, <1>7, <1>8 DEF Heard, Count
  <1>10. Lists(needsDef', {j \in 1..i : NeedsDef(j)})
    <2>1. {j \in 1..i : NeedsDef(j)} = {j \in 1..Done : NeedsDef(j)}
      BY <1>2, <1>6
    <2> QED
      BY <1>4, <1>7, <2>1
  <1>11. \A j \in DOMAIN calls : diags'[j] = Count(j <= i /\ ByHover(j))
    <2>1. \A j \in DOMAIN calls : j \in Nat /\ (j <= i <=> j <= Done \/ j = i) /\ ~(i <= Done)
      BY <1>1, <1>2, HoverTypes DEF i
    <2>2. CASE a = "loc"
      <3>1. diags' = diags
        BY <1>7, <2>2 DEF given
      <3> QED
        BY <1>4, <1>6, <2>1, <2>2, <3>1 DEF Count
    <2>3. CASE a # "loc"
      <3> DEFINE judged == {j \in DOMAIN calls : j <= Done /\ ByHover(j)}
                 judgedNow == {j \in DOMAIN calls : j <= i /\ ByHover(j)}
      <3>1. /\ \A j \in DOMAIN calls : diags[j] = Count(j \in judged)
            /\ i \notin judged
            /\ \A j \in DOMAIN calls : j \in judgedNow <=> j \in judged \/ j = i
        BY <1>2, <1>4, <1>6, <2>1, <2>3
      <3>2. \A j \in DOMAIN calls : diags'[j] = Count(j \in judgedNow)
        <4> HIDE DEF judged, judgedNow
        <4> QED
          BY <1>1, <1>2, <1>7, <2>3, <3>1, EmitJudges
      <3> QED
        BY <3>2 DEF Count
    <2> QED
      BY <2>2, <2>3
  <1>12. \A h \in Groups : KeepsFirst(groupHover'[h], Seeds(h, i), "hover") /\ groupDef'[h] = Off
    BY <1>4, <1>7
  <1> QED
    BY <1>1, <1>7, <1>8, <1>9, <1>10, <1>11, <1>12, HoversJudgedNext

\* What has been judged by its definition, said of the state after a step.
LEMMA DefinitionsJudgedNext ==
    ASSUME work' = work, needsDef' = needsDef, NEW judged,
           judged = {needsDef[k] : k \in 1..Done'},
           Lists(needsDef, {j \in DOMAIN calls : NeedsDef(j)}),
           \A h \in Groups : KeepsFirst(groupDef'[h], {j \in judged : calls[j].group = h}, "def"),
           \A j \in DOMAIN calls :
              diags'[j] = Count(ByHover(j) \/ (ByDefinition(j) /\ j \in judged))
    PROVE  DefinitionsJudged'
  <1>1. /\ calls' = calls
        /\ \A i : /\ NeedsDef(i)' = NeedsDef(i) /\ ByHover(i)' = ByHover(i)
                  /\ ByDefinition(i)' = ByDefinition(i)
    BY CallsStay
  <1>2. {needsDef[k] : k \in 1..Done}' = judged
    OBVIOUS
  <1>3. {j \in DOMAIN calls : NeedsDef(j)}' = {j \in DOMAIN calls : NeedsDef(j)}
    BY <1>1
  <1>4. \A h \in Groups : KeepsFirst(groupDef[h], {j \in {needsDef[k] : k \in 1..Done} :
                                                    calls[j].group = h}, "def")'
    <2> TAKE h \in Groups
    <2>1. KeepsFirst(groupDef'[h], {j \in judged : calls[j].group = h}, "def")
      OBVIOUS
    <2>2. {j \in {needsDef[k] : k \in 1..Done} : calls[j].group = h}'
          = {j \in judged : calls[j].group = h}
      BY <1>1, <1>2
    <2> QED
      BY <1>1, <2>1, <2>2 DEF KeepsFirst
  <1>5. \A j \in DOMAIN calls' :
           diags'[j] = Count(ByHover(j) \/ (ByDefinition(j) /\ j \in {needsDef[k] : k \in 1..Done}))'
    BY <1>1, <1>2 DEF Count
  <1>6. Lists(needsDef, {j \in DOMAIN calls : NeedsDef(j)})'
    BY <1>3
  <1> QED
    BY <1>4, <1>5, <1>6 DEF DefinitionsJudged

\* A definition judged: a call with a usable one is reported.
LEMMA DefinitionJudges ==
    ASSUME IInv, DefinitionsJudged, NEW a, Takes(a), phase = "def", ~disabled'
    PROVE  DefinitionsJudged'
  <1> DEFINE i == needsDef[Done + 1]
             g == calls[i].group
             Need == {j \in DOMAIN calls : NeedsDef(j)}
             judged == {needsDef[k] : k \in 1..Done}
             Of(h) == {j \in judged : calls[j].group = h}
  <1>1. /\ TypeOK /\ AsksInOrder /\ Asking /\ Use(a) /\ chunk # <<>> /\ work' = work
        /\ ~disabled /\ pc = "take"
    BY UseEffect DEF IInv, Takes, Asking, place
  <1>2. /\ Done \in Nat /\ chunk[1].call = i /\ Done + 1 \in DOMAIN needsDef
        /\ 1..(Done + 1) = (1..Done) \cup {Done + 1} /\ needsDef \in Seq(Nat)
    <2>1. Done \in Nat /\ chunk[1].call = i /\ Done + 1 \in DOMAIN needsDef
      BY <1>1, AtHand
    <2>2. needsDef \in Seq(Nat)
      BY <1>1 DEF TypeOK
    <2>3. \A n \in Nat : 1..(n + 1) = (1..n) \cup {n + 1}
      OBVIOUS
    <2> QED
      BY <2>1, <2>2, <2>3
  <1>3. /\ Lists(needsDef, Need)
        /\ \A h \in Groups : KeepsFirst(groupDef[h], Of(h), "def")
        /\ \A j \in DOMAIN calls :
              diags[j] = Count(ByHover(j) \/ (ByDefinition(j) /\ j \in judged))
    BY <1>1 DEF DefinitionsJudged
  <1>4. /\ i \in Need /\ i \notin judged
        /\ \A j : j \in judged <=> j \in Need /\ j < i
    <2> HIDE DEF Need
    <2> QED
      BY <1>2, <1>3, ListBefore
  <1>5. /\ i \in DOMAIN calls /\ NeedsDef(i) /\ i \in Nat /\ i \in Int
        /\ g \in Groups \cup {0} /\ 0 \notin Groups /\ calls[i].def \in Definitions
    BY <1>1, <1>4, HoverTypes, WorksAssumption
  <1>6. \A j \in DOMAIN calls : calls[j].def \in Definitions /\ calls[j].def # Off
    <2>1. Off \notin Definitions
      BY DEF Off, Definitions
    <2> QED
      BY <1>1, <2>1, HoverTypes
  <1>7. \A j : j \in 1..(i - 1) => j \in DOMAIN calls
    <2>1. DOMAIN calls = 1..Len(calls) /\ Len(calls) \in Nat
      BY <1>1, WorkFields DEF TypeOK, calls
    <2>2. i <= Len(calls)
      BY <1>5, <2>1
    <2> HIDE DEF i
    <2> QED
      BY <1>5, <2>1, <2>2
  <1>8. \A h : Of(h) = Needy(h, i - 1)
    <2>1. \A j \in DOMAIN calls : j < i <=> j \in 1..(i - 1)
      BY <1>1, <1>5, HoverTypes
    <2> QED
      BY <1>4, <1>7, <2>1 DEF Needy
  <1> HIDE DEF i, judged, Need
  <1> DEFINE kept == IF g = 0 THEN Off ELSE groupDef[g]
  <1>9. DefOf(i) = IF kept # Off THEN kept ELSE calls[i].def
    <2>1. IF g = 0 THEN kept = Off ELSE KeepsFirst(kept, Needy(g, i - 1), "def")
      BY <1>3, <1>5, <1>8
    <2>2. \A j \in 1..(i - 1) : calls[j].def # Off
      BY <1>6, <1>7
    <2> HIDE DEF kept
    <2> QED
      BY <1>1, <1>5, <2>1, <2>2, DefIsKept
  <1>10. a = DefOf(i) /\ a \in Definitions
    <2>1. Cached(phase, i) = kept /\ Truth(phase, i) = calls[i].def
      BY DEF Cached, Truth
    <2>2. a = IF Cached(phase, i) # Off THEN Cached(phase, i) ELSE Truth(phase, i)
      BY <1>2 DEF Takes
    <2>3. kept \in Definitions \cup {Off}
      BY <1>1, <1>5 DEF TypeOK
    <2> QED
      BY <1>5, <1>9, <2>1, <2>2, <2>3
  <1>11. /\ groupDef' = IF g # 0 /\ a # Off THEN [groupDef EXCEPT ![g] = a] ELSE groupDef
         /\ IF a = "loc" THEN Emit(i, FALSE) ELSE UNCHANGED given
         /\ Collected /\ UNCHANGED <<needsDef, phase>>
    BY <1>1, <1>2 DEF Use, UseDef
  <1>12. a # Off
    BY <1>10 DEF Definitions, Off
  <1>13. Done' = Done + 1
    BY <1>1, <1>11, CollectedDone
  <1> DEFINE judgedNow == judged \cup {i}
  <1>14. {needsDef[k] : k \in 1..Done'} = judgedNow
    BY <1>2, <1>13 DEF judged, i
  <1>15. \A h \in Groups :
            KeepsFirst(groupDef'[h], {j \in judgedNow : calls[j].group = h}, "def")
    <2> TAKE h \in Groups
    <2>1. groupDef \in [Groups -> Definitions \cup {Off}]
      BY <1>1 DEF TypeOK
    <2>2. CASE h # g
      <3>1. groupDef'[h] = groupDef[h]
        BY <1>11, <2>1, <2>2
      <3>2. {j \in judgedNow : calls[j].group = h} = Of(h)
        BY <2>2
      <3> QED
        BY <1>3, <3>1, <3>2
    <2>3. CASE h = g
      <3>1. groupDef'[h] = a /\ kept = groupDef[h]
        BY <1>5, <1>11, <1>12, <2>1, <2>3
      <3>2. {j \in judgedNow : calls[j].group = h} = Of(h) \cup {i}
        BY <2>3
      <3>3. a = IF groupDef[h] # Off THEN groupDef[h] ELSE calls[i]["def"]
        BY <1>9, <1>10, <3>1
      <3>4. Of(h) \subseteq Int /\ \A k \in Of(h) : k < i /\ calls[k]["def"] # Off
        BY <1>5, <1>6, <1>7, <1>8 DEF Needy
      <3>5. KeepsFirst(IF groupDef[h] # Off THEN groupDef[h] ELSE calls[i]["def"],
                       Of(h) \cup {i}, "def")
        <4> HIDE DEF Of
        <4> QED
          BY <1>3, <1>5, <3>4, KeepsOn
      <3> QED
        BY <3>1, <3>2, <3>3, <3>5
    <2> QED
      BY <2>2, <2>3
  <1>16. ~ByHover(i) /\ (ByDefinition(i) <=> a = "loc")
    BY <1>5, <1>10 DEF ByHover, ByDefinition, NeedsDef
  <1>17. \A j \in DOMAIN calls :
            diags'[j] = Count(ByHover(j) \/ (ByDefinition(j) /\ j \in judgedNow))
    <2>1. CASE a = "loc"
      <3> DEFINE told == {j \in DOMAIN calls : ByHover(j) \/ (ByDefinition(j) /\ j \in judged)}
                 toldNow == {j \in DOMAIN calls : ByHover(j) \/ (ByDefinition(j) /\ j \in judgedNow)}
      <3>1. /\ \A j \in DOMAIN calls : diags[j] = Count(j \in told)
            /\ i \notin told
            /\ \A j \in DOMAIN calls : j \in toldNow <=> j \in told \/ j = i
        BY <1>3, <1>4, <1>16, <2>1
      <3>2. \A j \in DOMAIN calls : diags'[j] = Count(j \in toldNow)
        <4> HIDE DEF told, toldNow
        <4> QED
          BY <1>1, <1>5, <1>11, <2>1, <3>1, EmitJudges
      <3> QED
        BY <3>2 DEF Count
    <2>2. CASE a # "loc"
      <3>1. diags' = diags
        BY <1>11, <2>2 DEF given
      <3> QED
        BY <1>3, <1>16, <2>2, <3>1 DEF Count
    <2> QED
      BY <2>1, <2>2
  <1>18. Lists(needsDef, {j \in DOMAIN calls : NeedsDef(j)})
    BY <1>3 DEF Need
  <1> HIDE DEF judgedNow
  <1> QED
    BY <1>1, <1>11, <1>14, <1>15, <1>17, <1>18, DefinitionsJudgedNext

\* What a file deserves is what it did.
LEMMA ReportsStay ==
    ASSUME UNCHANGED <<work, diags>>, \A i \in DOMAIN calls : diags[i] = Count(Reported(i))
    PROVE  \A i \in DOMAIN calls' : diags'[i] = Count(Reported(i))'
  BY CallsStay DEF Count

\* Steps within a phase that judge nothing.
LEMMA SameJudged ==
    ASSUME IInv, AllJudged,
           UNCHANGED <<work, diags, phase, needsDef, groupHover, groupDef>>, Done' = Done,
           disabled => disabled', pc' = pc \/ (Asking /\ Asking'),
           server' = "absent" => server = "absent"
    PROVE  AllJudged'
  <1>1. Asking' = Asking
    BY DEF Asking
  <1>2. /\ calls' = calls
        /\ \A i : /\ HoverOf(i)' = HoverOf(i) /\ NeedsDef(i)' = NeedsDef(i)
                  /\ ByHover(i)' = ByHover(i) /\ ByDefinition(i)' = ByDefinition(i)
                  /\ Reported(i)' = Reported(i)
    BY CallsStay
  <1>3. HoversJudged'
    <2>1. CASE Asking /\ phase \in {"hover", "ignore"} /\ ~disabled
      <3>1. Heard' = Heard
        BY DEF Heard, Count
      <3>2. /\ \A h \in Groups : KeepsFirst(groupHover[h], Seeds(h, Heard), "hover")
                                 /\ groupDef[h] = Off
            /\ phase = "ignore" => HoverOf(Done + 1) = "asks"
            /\ Lists(needsDef, {i \in 1..Done : NeedsDef(i)})
            /\ \A i \in DOMAIN calls : diags[i] = Count(i <= Done /\ ByHover(i))
        BY <2>1 DEF AllJudged, HoversJudged
      <3>3. PICK heard, done : heard = Heard /\ done = Done
        OBVIOUS
      <3>4. HoverOf(Done + 1) = HoverOf(done + 1)
        BY <3>3
      <3> QED
        BY <3>1, <3>2, <3>3, <3>4, HoversJudgedNext
    <2>2. CASE ~(Asking /\ phase \in {"hover", "ignore"} /\ ~disabled)
      BY <1>1, <2>2 DEF HoversJudged
    <2> QED
      BY <2>1, <2>2
  <1>4. DefinitionsJudged'
    <2>1. CASE Asking /\ phase = "def" /\ ~disabled
      <3>1. PICK judged : judged = {needsDef[k] : k \in 1..Done}
        OBVIOUS
      <3>2. /\ Lists(needsDef, {i \in DOMAIN calls : NeedsDef(i)})
            /\ \A h \in Groups : KeepsFirst(groupDef[h], {j \in judged : calls[j].group = h}, "def")
            /\ \A i \in DOMAIN calls :
                  diags[i] = Count(ByHover(i) \/ (ByDefinition(i) /\ i \in judged))
        BY <2>1, <3>1 DEF AllJudged, DefinitionsJudged
      <3>3. judged = {needsDef[k] : k \in 1..Done'}
        BY <3>1
      <3> QED
        BY <3>2, <3>3, DefinitionsJudgedNext
    <2>2. CASE ~(Asking /\ phase = "def" /\ ~disabled)
      BY <1>1, <2>2 DEF DefinitionsJudged
    <2> QED
      BY <2>1, <2>2
  <1>5. \/ pc' = pc
        \/ /\ pc' \notin {"start", "attempt", "normalize", "judge", "overloads", "filed", "failed"}
           /\ pc \notin {"start", "attempt", "normalize", "judge", "overloads", "filed", "failed"}
    BY DEF Asking
  <1>6. pc' \in {"start", "attempt"} => diags' = Untold(work)'
    BY <1>5 DEF AllJudged, Judged, Untold
  <1>7. pc' = "normalize" /\ ~disabled' =>
           \A i \in DOMAIN calls' : diags'[i] = Count(ByHover(i) \/ ByDefinition(i))'
    BY <1>2, <1>5 DEF AllJudged, Judged, Count
  <1>8. (pc' = "judge" /\ ~disabled') \/ pc' \in {"overloads", "filed"}
        \/ (Asking' /\ phase' = "overload") =>
           \A i \in DOMAIN calls' : diags'[i] = Count(Reported(i))'
    BY <1>1, <1>5, ReportsStay DEF AllJudged, Judged
  <1>9. StartsOrFails'
    BY <1>5 DEF AllJudged, StartsOrFails
  <1>10. Judged'
    BY <1>6, <1>7, <1>8 DEF Judged
  <1> QED
    BY <1>3, <1>4, <1>9, <1>10 DEF AllJudged

\* Using an answer.
LEMMA TakesJudge ==
    ASSUME IInv, AllJudged, NEW a, Takes(a)
    PROVE  AllJudged'
  <1>1. /\ TypeOK /\ AsksInOrder /\ Asking /\ Use(a) /\ work' = work /\ pc = "take"
        /\ server' = server /\ pc' \in {"ask", "take"}
        /\ phase' = phase \/ (phase \in {"hover", "ignore"} /\ phase' \in {"hover", "ignore"})
        /\ phase \in {"hover", "ignore", "def", "overload"}
    BY UseEffect DEF IInv, Takes, Asking, place, Collected, TypeOK, Phases
  <1>2. HoversJudged'
    <2>1. CASE phase = "hover" /\ ~disabled'
      BY <2>1, HoverJudges DEF AllJudged
    <2>2. CASE phase = "ignore" /\ ~disabled'
      BY <2>2, IgnoreJudges DEF AllJudged
    <2>3. CASE phase \in {"def", "overload"} \/ disabled'
      BY <1>1, <2>3 DEF HoversJudged
    <2> QED
      BY <1>1, <2>1, <2>2, <2>3
  <1>3. DefinitionsJudged'
    <2>1. CASE phase = "def" /\ ~disabled'
      BY <2>1, DefinitionJudges DEF AllJudged
    <2>2. CASE phase # "def" \/ disabled'
      BY <1>1, <2>2 DEF DefinitionsJudged
    <2> QED
      BY <2>1, <2>2
  <1>4. Judged'
    <2>1. CASE phase = "overload"
      <3>1. diags' = diags
        BY <1>1, <2>1, UseCounts
      <3>2. \A i \in DOMAIN calls : diags[i] = Count(Reported(i))
        BY <1>1, <2>1 DEF AllJudged, Judged
      <3> QED
        BY <1>1, <3>1, <3>2, ReportsStay DEF Judged
    <2>2. CASE phase # "overload"
      <3>1. phase' # "overload"
        BY <1>1, <2>2
      <3> QED
        BY <1>1, <3>1 DEF Judged
    <2> QED
      BY <2>1, <2>2
  <1>5. StartsOrFails'
    BY <1>1 DEF AllJudged, StartsOrFails
  <1> QED
    BY <1>2, <1>3, <1>4, <1>5 DEF AllJudged

\* Nothing is said of the phases but while they ask.
LEMMA NotAsking ==
    ASSUME ~Asking'
    PROVE  HoversJudged' /\ DefinitionsJudged'
  BY DEF HoversJudged, DefinitionsJudged

\* A file begins, or ends, with nothing asked.
LEMMA FileJudges ==
    ASSUME IInv, AllJudged, BeginFile \/ EnterFile \/ EndFile
    PROVE  AllJudged'
  <1>1. /\ pc' \in {"file", "start", "attempt", "overloads", "failed", "ok"}
        /\ StartsOrFails /\ Judged
    BY DEF BeginFile, EnterFile, EndFile, StartServer, AllJudged
  <1>2. HoversJudged' /\ DefinitionsJudged'
    BY <1>1, NotAsking DEF Asking
  <1>3. CASE BeginFile
    <2>1. pc' = "start" /\ server' = server /\ diags' = Untold(work') /\ server # "absent"
      BY <1>1, <1>3 DEF BeginFile, backend, StartsOrFails
    <2>2. Untold(work)' = Untold(work')
      BY DEF Untold
    <2>3. Judged' /\ StartsOrFails'
      BY <2>1, <2>2 DEF Judged, StartsOrFails, Asking
    <2> QED
      BY <1>2, <2>3 DEF AllJudged
  <1>4. CASE EnterFile
    <2>1. /\ server # "absent" /\ diags = Untold(work) /\ UNCHANGED <<work, diags>>
          /\ \/ calls = <<>> /\ pc' = "overloads" /\ server' = server
             \/ pc' = "attempt" /\ server' # "absent"
             \/ pc' = "failed"
      BY <1>1, <1>4 DEF EnterFile, StartServer, StartsOrFails, Judged, place, given
    <2>2. calls' = calls /\ Untold(work)' = Untold(work)
      BY <2>1 DEF calls, Untold
    <2>3. pc' = "overloads" => DOMAIN calls' = {}
      BY <2>1, <2>2
    <2>4. Judged' /\ StartsOrFails'
      BY <2>1, <2>2, <2>3 DEF Judged, StartsOrFails, Asking
    <2> QED
      BY <1>2, <2>4 DEF AllJudged
  <1>5. CASE EndFile
    <2>1. pc' \in {"file", "ok"} /\ server' = server /\ server # "absent"
      BY <1>1, <1>5 DEF EndFile, StartsOrFails, backend
    <2>2. Judged' /\ StartsOrFails'
      BY <2>1 DEF Judged, StartsOrFails, Asking
    <2> QED
      BY <1>2, <2>2 DEF AllJudged
  <1> QED
    BY <1>3, <1>4, <1>5

\* An attempt begins with nothing judged.
LEMMA AttemptJudges ==
    ASSUME IInv, AllJudged, BeginAttempt
    PROVE  AllJudged'
  <1>1. /\ pc = "attempt" /\ UNCHANGED <<work, diags, server>> /\ server # "absent"
        /\ diags = Untold(work)
        /\ phase' = "hover" /\ needsDef' = <<>>
        /\ groupHover' = [g \in Groups |-> Off] /\ groupDef' = [g \in Groups |-> Off]
        /\ \/ pc' = "ask"
           \/ pc' = "judge" /\ disabled'
    BY DEF BeginAttempt, Open, AllJudged, Judged, StartsOrFails, place, given, backend
  <1>2. StartsOrFails' /\ Judged'
    BY <1>1 DEF StartsOrFails, Judged, Asking
  <1>3. CASE pc' = "ask"
    <2>1. Done' = 0
      BY <1>3, TurnsKeepIInv DEF TurnStep
    <2>2. Heard' = 0
      BY <1>1, <2>1 DEF Heard, Count
    <2>3. \A h \in Groups : KeepsFirst(groupHover'[h], Seeds(h, 0), "hover") /\ groupDef'[h] = Off
      <3>1. \A h \in Groups : Seeds(h, 0) = {}
        BY DEF Seeds
      <3> QED
        BY <1>1, <3>1 DEF KeepsFirst
    <2>4. Lists(needsDef', {j \in 1..0 : NeedsDef(j)})
      BY <1>1 DEF Lists
    <2>5. \A j \in DOMAIN calls : diags'[j] = Count(j <= 0 /\ ByHover(j))
      <3>1. \A j \in DOMAIN calls : j \in Nat /\ j >= 1
        BY HoverTypes DEF IInv
      <3>2. \A j \in DOMAIN calls : diags'[j] = 0
        BY <1>1 DEF Untold, calls
      <3>3. \A j \in DOMAIN calls : ~(j <= 0)
        BY <3>1
      <3> QED
        BY <3>2, <3>3 DEF Count
    <2>6. phase' # "ignore"
      BY <1>1
    <2>7. HoversJudged'
      BY <1>1, <2>1, <2>2, <2>3, <2>4, <2>5, <2>6, HoversJudgedNext
    <2>8. DefinitionsJudged'
      BY <1>1 DEF DefinitionsJudged
    <2> QED
      BY <1>2, <2>7, <2>8 DEF AllJudged
  <1>4. CASE pc' = "judge"
    BY <1>2, <1>4, NotAsking DEF AllJudged, Asking
  <1> QED
    BY <1>1, <1>3, <1>4

\* A phase ends with all its calls judged.
LEMMA PhaseJudges ==
    ASSUME IInv, AllJudged, EndPhase
    PROVE  AllJudged'
  <1>1. /\ pc = "ask" /\ Asking /\ phase \in {"hover", "def", "overload"}
        /\ todo = <<>> /\ chunk = <<>>
        /\ UNCHANGED <<work, diags, server, disabled, needsDef, groupHover, groupDef>>
        /\ TypeOK /\ AsksInOrder
    BY DEF EndPhase, IInv, TypeOK, Phases, Asking, place, given, backend, client, caches
  <1>2. Done = Len(Asked) /\ Len(Asked) \in Nat
    <2>1. Len(Asked) \in Nat
      BY <1>1, AskedList
    <2> QED
      BY <1>1, <2>1 DEF Done
  <1>3. StartsOrFails'
    BY <1>1 DEF AllJudged, StartsOrFails
  <1>4. /\ calls' = calls
        /\ \A i : ByHover(i)' = ByHover(i) /\ ByDefinition(i)' = ByDefinition(i)
    BY <1>1, CallsStay
  <1>5. CASE phase = "hover"
    <2>1. /\ phase' = "def" /\ pc' = "ask"
      BY <1>1, <1>5 DEF EndPhase
    <2>2. Done' = 0
      BY <2>1, TurnsKeepIInv DEF TurnStep
    <2>3. /\ Len(calls) \in Nat /\ DOMAIN calls = 1..Len(calls) /\ Done = Len(calls)
      BY <1>1, <1>2, <1>5, AskedList, WorkFields DEF TypeOK, calls
    <2>4. ASSUME ~disabled PROVE DefinitionsJudged'
      <3>1. /\ \A h \in Groups : groupDef[h] = Off
            /\ Lists(needsDef, {i \in 1..Done : NeedsDef(i)})
            /\ \A i \in DOMAIN calls : diags[i] = Count(i <= Done /\ ByHover(i))
        BY <1>1, <1>5, <2>4 DEF AllJudged, HoversJudged
      <3>2. PICK judged : judged = {}
        OBVIOUS
      <3>3. judged = {needsDef[k] : k \in 1..Done'}
        BY <2>2, <3>2
      <3>4. Lists(needsDef, {j \in DOMAIN calls : NeedsDef(j)})
        BY <2>3, <3>1
      <3>5. \A h \in Groups : KeepsFirst(groupDef'[h], {j \in judged : calls[j].group = h}, "def")
        BY <1>1, <3>1, <3>2 DEF KeepsFirst
      <3>6. \A j \in DOMAIN calls :
               diags'[j] = Count(ByHover(j) \/ (ByDefinition(j) /\ j \in judged))
        <4>1. \A j \in DOMAIN calls : j <= Done
          BY <2>3
        <4> QED
          BY <1>1, <3>1, <3>2, <4>1 DEF Count
      <3> QED
        BY <1>1, <3>3, <3>4, <3>5, <3>6, DefinitionsJudgedNext
    <2>5. DefinitionsJudged'
      <3>1. CASE disabled
        BY <1>1, <3>1 DEF DefinitionsJudged
      <3> QED
        BY <2>4, <3>1
    <2>6. HoversJudged' /\ Judged'
      BY <2>1 DEF HoversJudged, Judged
    <2> QED
      BY <1>3, <2>5, <2>6 DEF AllJudged
  <1>6. CASE phase = "def"
    <2>1. phase' = "def" /\ pc' = "normalize"
      BY <1>1, <1>6 DEF EndPhase
    <2>2. Done = Len(needsDef) /\ DOMAIN needsDef = 1..Done
      <3>1. Asked = needsDef /\ needsDef \in Seq(Nat)
        BY <1>1, <1>6, AskedList DEF TypeOK
      <3> QED
        BY <1>2, <3>1
    <2>3. ASSUME ~disabled
          PROVE  \A i \in DOMAIN calls : diags[i] = Count(ByHover(i) \/ ByDefinition(i))
      <3>1. PICK judged : judged = {needsDef[k] : k \in 1..Done}
        OBVIOUS
      <3>2. /\ Lists(needsDef, {i \in DOMAIN calls : NeedsDef(i)})
            /\ \A i \in DOMAIN calls :
                  diags[i] = Count(ByHover(i) \/ (ByDefinition(i) /\ i \in judged))
        BY <1>1, <1>6, <2>3, <3>1 DEF AllJudged, DefinitionsJudged
      <3>3. \A i \in DOMAIN calls : NeedsDef(i) => i \in judged
        BY <2>2, <3>1, <3>2 DEF Lists
      <3>4. \A i \in DOMAIN calls : ByDefinition(i) => i \in judged
        BY <3>3 DEF ByDefinition
      <3> QED
        BY <3>2, <3>4
    <2>4. ~disabled => \A i \in DOMAIN calls' : diags'[i] = Count(ByHover(i) \/ ByDefinition(i))'
      BY <1>1, <1>4, <2>3 DEF Count
    <2>5. Judged'
      BY <1>1, <2>1, <2>4 DEF Judged, Asking
    <2> QED
      BY <1>3, <2>1, <2>5, NotAsking DEF AllJudged, Asking
  <1>7. CASE phase = "overload"
    <2>1. pc' = "filed"
      BY <1>1, <1>7 DEF EndPhase
    <2>2. \A i \in DOMAIN calls : diags[i] = Count(Reported(i))
      BY <1>1, <1>7 DEF AllJudged, Judged
    <2>3. Judged'
      BY <1>1, <2>1, <2>2, ReportsStay DEF Judged
    <2> QED
      BY <1>3, <2>1, <2>3, NotAsking DEF AllJudged, Asking
  <1> QED
    BY <1>1, <1>5, <1>6, <1>7

\* The indexed diagnostics are given instead of ty's.
LEMMA NormalizeJudges ==
    ASSUME IInv, AllJudged, Normalize
    PROVE  AllJudged'
  <1>1. /\ pc = "normalize" /\ pc' = "judge" /\ UNCHANGED <<work, server, disabled, phase>>
        /\ diags' = [i \in DOMAIN diags |->
                        IF i \in {j \in DOMAIN calls : calls[j].static} THEN 1 ELSE diags[i]]
    BY DEF Normalize, place, backend, client
  <1>2. HoversJudged' /\ DefinitionsJudged'
    BY <1>1, NotAsking DEF Asking
  <1>3. calls' = calls /\ \A i : Reported(i)' = Reported(i)
    BY <1>1, CallsStay
  <1>4. DOMAIN diags = DOMAIN calls
    BY DEF IInv, TypeOK, calls
  <1>5. ~disabled => \A i \in DOMAIN calls : diags'[i] = Count(Reported(i))
    <2> SUFFICES ASSUME ~disabled, NEW i \in DOMAIN calls PROVE diags'[i] = Count(Reported(i))
      OBVIOUS
    <2>1. diags[i] = Count(ByHover(i) \/ ByDefinition(i))
      BY <1>1 DEF AllJudged, Judged
    <2>2. CASE calls[i].static
      BY <1>1, <1>4, <2>2 DEF Reported, Count
    <2>3. CASE ~calls[i].static
      BY <1>1, <1>4, <2>1, <2>3 DEF Reported, Count
    <2> QED
      BY <2>2, <2>3
  <1>6. Judged'
    BY <1>1, <1>3, <1>5 DEF Judged, Asking, Count
  <1>7. StartsOrFails'
    BY <1>1 DEF AllJudged, StartsOrFails
  <1> QED
    BY <1>2, <1>6, <1>7 DEF AllJudged

\* What an attempt that failed recorded is undone.
LEMMA JudgeJudges ==
    ASSUME IInv, AllJudged, Judge
    PROVE  AllJudged'
  <1>1. /\ pc = "judge" /\ UNCHANGED <<work, server, phase>> /\ server # "absent"
        /\ \/ ~disabled /\ pc' = "overloads" /\ diags' = diags
           \/ pc' \in {"attempt", "failed"} /\ diags' = Untold(work)
    BY DEF Judge, Undo, AllJudged, StartsOrFails, place, backend, given
  <1>2. HoversJudged' /\ DefinitionsJudged'
    BY <1>1, NotAsking DEF Asking
  <1>3. StartsOrFails'
    BY <1>1 DEF StartsOrFails
  <1>4. CASE ~disabled /\ pc' = "overloads" /\ diags' = diags
    <2>1. \A i \in DOMAIN calls : diags[i] = Count(Reported(i))
      BY <1>1, <1>4 DEF AllJudged, Judged
    <2> QED
      BY <1>1, <1>2, <1>3, <1>4, <2>1, ReportsStay DEF AllJudged, Judged
  <1>5. CASE pc' \in {"attempt", "failed"} /\ diags' = Untold(work)
    <2>1. Untold(work)' = diags'
      BY <1>1, <1>5 DEF Untold
    <2> QED
      BY <1>1, <1>2, <1>3, <1>5, <2>1 DEF AllJudged, Judged, Asking
  <1> QED
    BY <1>1, <1>4, <1>5

\* The overloads' rewrites give the file no more diagnostics.
LEMMA OverloadsJudge ==
    ASSUME IInv, AllJudged, BeginOverloads, FixMode => ~StartFailures
    PROVE  AllJudged'
  <1>1. /\ pc = "overloads" /\ UNCHANGED <<work, diags>> /\ server # "absent"
        /\ pc' \in {"overloads", "filed", "ask"} /\ server' # "absent"
        /\ pc' = "ask" => phase' = "overload"
    BY DEF BeginOverloads, StartServer, Open, AllJudged, StartsOrFails, place
  <1>2. HoversJudged' /\ DefinitionsJudged'
    BY <1>1 DEF HoversJudged, DefinitionsJudged, Asking
  <1>3. \A i \in DOMAIN calls : diags[i] = Count(Reported(i))
    BY <1>1 DEF AllJudged, Judged
  <1>4. \A i \in DOMAIN calls' : diags'[i] = Count(Reported(i))'
    BY <1>1, <1>3, ReportsStay
  <1>5. Judged' /\ StartsOrFails'
    BY <1>1, <1>4 DEF Judged, StartsOrFails
  <1> QED
    BY <1>2, <1>5 DEF AllJudged

\* Asking, and what the server does, judge nothing.
LEMMA AsksJudgeNothing ==
    ASSUME IInv, AllJudged,
           \/ Ask \/ AskIgnore \/ ServerDies \/ UNCHANGED vars
           \/ \E m \in outstanding : Absorb(m)
    PROVE  AllJudged'
  <1>1. Done' = Done
    BY AskKeepsIInv, AskIgnoreKeepsIInv, AbsorbKeepsIInv, QuietKeepsIInv
  <1>2. CASE Ask
    <2>1. /\ UNCHANGED <<work, diags, phase, needsDef, groupHover, groupDef, server>>
          /\ pc = "ask" /\ pc' \in {"ask", "take"}
      BY <1>2 DEF Ask, place, given, caches
    <2>2. disabled => disabled'
      BY <1>2 DEF Ask, Send
    <2> QED
      BY <1>1, <2>1, <2>2, SameJudged DEF Asking
  <1>3. CASE AskIgnore
    <2>1. /\ UNCHANGED <<work, diags, phase, needsDef, groupHover, groupDef, server>>
          /\ pc = "ask" /\ pc' = "take"
      BY <1>3 DEF AskIgnore, place, given, caches
    <2>2. disabled => disabled'
      BY <1>3 DEF AskIgnore, Send
    <2> QED
      BY <1>1, <2>1, <2>2, SameJudged DEF Asking
  <1>4. ASSUME NEW m \in outstanding, Absorb(m) PROVE AllJudged'
    <2>1. /\ UNCHANGED <<work, diags, phase, pc, needsDef, groupHover, groupDef, server>>
          /\ disabled => disabled'
      BY <1>4 DEF Absorb, place, given, caches, loop
    <2> QED
      BY <1>1, <2>1, SameJudged
  <1>5. CASE ServerDies \/ UNCHANGED vars
    <2>1. /\ UNCHANGED <<work, diags, phase, pc, needsDef, groupHover, groupDef, disabled>>
          /\ server' = server \/ server' = "dead"
      BY <1>5 DEF ServerDies, vars, place, given, caches, loop, client
    <2> QED
      BY <1>1, <2>1, SameJudged
  <1> QED
    BY <1>2, <1>3, <1>4, <1>5

\* The invariant is inductive, where a server that fails to start ends the run.
LEMMA InitJudged == Init => AllJudged
  <1> SUFFICES ASSUME Init PROVE AllJudged
    OBVIOUS
  <1>1. pc = "file" /\ server = "unstarted"
    BY DEF Init
  <1> QED
    BY <1>1 DEF AllJudged, HoversJudged, DefinitionsJudged, Judged, StartsOrFails, Asking

\* Every step keeps it.
LEMMA NextJudged ==
    ASSUME FixMode => ~StartFailures
    PROVE  IInv /\ AllJudged /\ [Next]_vars => AllJudged'
  <1> SUFFICES ASSUME IInv, AllJudged, [Next]_vars PROVE AllJudged'
    OBVIOUS
  <1>1. CASE TurnStep
    BY <1>1, FileJudges, AttemptJudges, PhaseJudges, NormalizeJudges, JudgeJudges,
       OverloadsJudge DEF TurnStep
  <1>2. CASE TakeStep
    BY <1>2, TakesOne, TakesJudge
  <1> QED
    BY <1>1, <1>2, Steps, AsksJudgeNothing

\* A file is given exactly the diagnostics its calls deserve, none twice, however late,
\* disordered or failing the server was on the way.  A run that plans rewrites must have
\* a server that starts: one that failed to start for an overload is remembered, and the
\* deferred calls of later files are dropped (check.rs resolve_overload_fixes_with_ty).
THEOREM FilesAreExact ==
    ASSUME FixMode => ~StartFailures
    PROVE  Spec => []FiledIsExact
  <1>1. IInv /\ AllJudged /\ [Next]_vars => (IInv /\ AllJudged)'
    BY NextIInv, NextJudged
  <1>2. Init => IInv /\ AllJudged
    BY InitIInv, InitJudged
  <1>3. IInv /\ AllJudged => FiledIsExact
    BY DEF AllJudged, Judged, FiledIsExact
  <1> QED
    BY <1>1, <1>2, <1>3, PTL DEF Spec
=============================================================================
