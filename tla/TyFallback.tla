----------------------------- MODULE TyFallback -----------------------------
(***************************************************************************)
(* One shard of the ty fallback: the thread that resolves, file after      *)
(* file, the calls the built-in pass could not judge by asking a           *)
(* `ty server` for hovers and definitions (src/src/check.rs                *)
(* resolve_file_with_ty, resolve_pending_with_ty,                          *)
(* resolve_overload_fixes_with_ty), over the LSP client of                 *)
(* src/src/ty_resolver.rs.                                                 *)
(*                                                                         *)
(* The server may answer late, in any order, with an error, or never; it   *)
(* may die.  Any of these latches the client OFF, and the file is tried    *)
(* again on the same server with what the failed attempt recorded undone.  *)
(***************************************************************************)
EXTENDS Naturals, Sequences, FiniteSets

CONSTANTS
    Files,          \* how many files the shard owns; one that owns none never runs
    Works,          \* what a file may bring: its deferred calls, its overloads
    Groups,         \* hover groups: calls "proven to hover identically"
    InFlight,       \* TY_MAX_IN_FLIGHT: requests sent before one is collected
    Attempts,       \* TY_FILE_ATTEMPTS
    FixMode,        \* whether the run plans rewrites
    StartFailures   \* whether the server may fail to start

ASSUME FilesAssumption == Files \in Nat \ {0}
ASSUME InFlightAssumption == InFlight \in Nat \ {0}
ASSUME AttemptsAssumption == Attempts \in Nat \ {0}
ASSUME ModeAssumption == FixMode \in BOOLEAN /\ StartFailures \in BOOLEAN

(***************************************************************************)
(* What ty knows of a call.  Its hover is a single named signature         *)
(* ("named"), one whose ignore entry depends on the definition ("asks"),   *)
(* several callable arms ("arms"), a plain type (`Never`, a class: "type") *)
(* or nothing ("null"); its definition is usable ("loc") or not ("null").  *)
(* Every call of the model passes too many positional arguments.           *)
(***************************************************************************)
Named == {"named", "asks"}
Hovers == Named \cup {"arms", "type", "null"}
Definitions == {"loc", "null"}
Call == [group: Groups \cup {0}, hover: Hovers, def: Definitions,
         static: BOOLEAN]
Work == [calls: Seq(Call), overloads: Seq({"named", "arms", "null"})]

ASSUME WorksAssumption == Works \subseteq Work /\ 0 \notin Groups

VARIABLES
    \* the LSP client, TyResolver
    nextId,       \* the next request id
    opened,       \* files announced with didOpen
    buffer,       \* responses that arrived while another was awaited
    disabled,     \* the OFF latch
    \* the server
    server,       \* "unstarted", "up", "dead" or "absent" (it did not start)
    outstanding,  \* requests sent and not yet answered
    \* the file at hand
    file, work, pc, phase, attempt,
    todo,         \* calls the phase has still to ask about
    chunk,        \* calls asked about, whose answers are to be collected
    needsDef, groupHover, groupDef,
    \* what the file has been given
    diags,            \* how many diagnostics it has of each call
    fixed, declined,
    bad           \* history: requests that timed out or got an error

client == <<nextId, opened, buffer, disabled>>
backend == <<server, outstanding>>
place == <<file, work, attempt>>
loop == <<todo, chunk, needsDef>>
caches == <<groupHover, groupDef>>
given == <<diags, fixed, declined>>
vars == <<nextId, opened, buffer, disabled, server, outstanding, file, work,
          pc, phase, attempt, todo, chunk, needsDef, groupHover, groupDef,
          diags, fixed, declined, bad>>

\* Off is the client's None: no answer at all.
Off == "off"
Answers == Hovers \cup Definitions
Phases == {"hover", "ignore", "def", "overload"}
Request == [id: Nat, answer: Answers]

TypeOK ==
    /\ nextId \in Nat \ {0}
    /\ opened \subseteq 1..Files
    /\ buffer \subseteq Request
    /\ disabled \in BOOLEAN
    /\ server \in {"unstarted", "up", "dead", "absent"}
    /\ outstanding \subseteq Request
    /\ file \in 1..Files
    /\ work \in Work
    /\ pc \in {"file", "start", "attempt", "ask", "take", "normalize", "judge",
               "overloads", "filed", "ok", "failed"}
    /\ phase \in Phases
    /\ attempt \in Nat
    /\ todo \in Seq(Nat)
    /\ chunk \in Seq([call: Nat, id: Nat])
    /\ needsDef \in Seq(Nat)
    /\ groupHover \in [Groups -> Named \cup {Off}]
    /\ groupDef \in [Groups -> Definitions \cup {Off}]
    /\ diags \in [DOMAIN work.calls -> Nat]
    /\ fixed \in Nat
    /\ declined \in Nat
    /\ bad \subseteq Nat

\* A file comes without diagnostics of its deferred calls; each of its overloads has
\* been given one by the built-in pass, and it is not touched again.
Untold(w) == [i \in DOMAIN w.calls |-> 0]

Init ==
    /\ nextId = 1
    /\ opened = {}
    /\ buffer = {}
    /\ disabled = FALSE
    /\ server = "unstarted"
    /\ outstanding = {}
    /\ file = 1
    /\ work = [calls |-> <<>>, overloads |-> <<>>]
    /\ pc = "file"
    /\ phase = "hover"
    /\ attempt = 1
    /\ todo = <<>> /\ chunk = <<>> /\ needsDef = <<>>
    /\ groupHover = [g \in Groups |-> Off]
    /\ groupDef = [g \in Groups |-> Off]
    /\ diags = Untold(work) /\ fixed = 0 /\ declined = 0
    /\ bad = {}

calls == work.calls
overloads == work.overloads
UpTo(n) == [i \in 1..n |-> i]
Count(b) == IF b THEN 1 ELSE 0

(***************************************************************************)
(* The client                                                              *)
(***************************************************************************)
\* ensure_open: a file is announced once; a client that is off, or whose
\* message cannot be sent, refuses.
CanOpen == ~disabled /\ (file \in opened \/ server = "up")

Open ==
    /\ opened' = IF CanOpen THEN opened \cup {file} ELSE opened
    /\ disabled' = ~CanOpen

\* What ty will answer to the request that a phase makes about call i.
Truth(step, i) ==
    CASE step = "hover" -> calls[i].hover
      [] step \in {"ignore", "def"} -> calls[i].def
      [] step = "overload" -> overloads[i]

\* The answer a group-mate of call i has left in this attempt's cache.
Cached(step, i) ==
    CASE step = "hover" /\ calls[i].group # 0 -> groupHover[calls[i].group]
      [] step = "def" /\ calls[i].group # 0 -> groupDef[calls[i].group]
      [] OTHER -> Off

\* ask: send a request; id 0 stands for the None of a client that is off or of
\* a send that failed, which latches it.
Send(i, id) ==
    \/ /\ disabled
       /\ id = 0
       /\ UNCHANGED <<nextId, disabled, outstanding>>
    \/ /\ ~disabled
       /\ nextId' = nextId + 1
       /\ \/ /\ server = "up"
             /\ id = nextId
             /\ outstanding' = outstanding \cup {[id |-> id, answer |-> Truth(phase, i)]}
             /\ UNCHANGED disabled
          \/ /\ server = "dead"
             /\ id = 0
             /\ disabled' = TRUE
             /\ UNCHANGED outstanding

(***************************************************************************)
(* Files, attempts and phases: resolve_file_with_ty                        *)
(***************************************************************************)
BeginFile ==
    /\ pc = "file"
    /\ \E w \in Works :
          /\ work' = w
          /\ diags' = Untold(w)
    /\ fixed' = 0 /\ declined' = 0 /\ attempt' = 1
    /\ pc' = "start"
    /\ UNCHANGED <<client, backend, file, phase, loop, caches, bad>>

\* The handshake is the first request; without its answer there is no server.
StartServer(next, onFailure) ==
    /\ server = "unstarted"
    /\ \/ server' = "up" /\ nextId' = 2 /\ pc' = next
       \/ StartFailures /\ server' = "absent" /\ pc' = onFailure /\ UNCHANGED nextId

\* Nothing deferred: nothing to do.  The first need of ty starts the server,
\* and a failing start is fatal; a start that failed earlier is not retried.
EnterFile ==
    /\ pc = "start"
    /\ \/ /\ calls = <<>> \/ server = "absent"
          /\ pc' = "overloads"
          /\ UNCHANGED <<server, nextId>>
       \/ /\ calls # <<>>
          /\ StartServer("attempt", "failed")
       \/ /\ calls # <<>>
          /\ server \in {"up", "dead"}
          /\ pc' = "attempt"
          /\ UNCHANGED <<server, nextId>>
    /\ UNCHANGED <<opened, buffer, disabled, outstanding, place, phase, loop,
                   caches, given, bad>>

BeginAttempt ==
    /\ pc = "attempt"
    /\ Open
    /\ IF CanOpen
       THEN /\ pc' = "ask"
            /\ todo' = UpTo(Len(calls))
       ELSE pc' = "judge" /\ UNCHANGED todo
    /\ phase' = "hover"
    /\ chunk' = <<>> /\ needsDef' = <<>>
    /\ groupHover' = [g \in Groups |-> Off]
    /\ groupDef' = [g \in Groups |-> Off]
    /\ UNCHANGED <<nextId, buffer, backend, place, given, bad>>

\* Hovers first; definitions for the calls whose hover is no callable.
EndPhase ==
    /\ pc = "ask"
    /\ phase # "ignore"
    /\ todo = <<>> /\ chunk = <<>>
    /\ CASE phase = "hover" -> /\ phase' = "def"
                               /\ todo' = needsDef
                               /\ UNCHANGED pc
         [] phase = "def" -> pc' = "normalize" /\ UNCHANGED <<phase, todo>>
         [] phase = "overload" -> pc' = "filed" /\ UNCHANGED <<phase, todo>>
    /\ UNCHANGED <<client, backend, place, chunk, needsDef, caches, given, bad>>

\* normalize_static_ty_fallback: an `instance.__class__` call gets its indexed
\* diagnostic, whatever ty said of it, and its rewrite is declined.
Normalize ==
    /\ pc = "normalize"
    /\ LET statics == {i \in DOMAIN calls : calls[i].static}
       IN /\ diags' = [i \in DOMAIN diags |-> IF i \in statics THEN 1 ELSE diags[i]]
          /\ declined' = declined + Cardinality(statics) * Count(FixMode)
    /\ pc' = "judge"
    /\ UNCHANGED <<client, backend, place, phase, loop, caches, fixed, bad>>

\* Mutants of Undo: nothing is undone; the declined rewrites are not.
UndoNothing == UNCHANGED given
UndoUndeclined == diags' = Untold(work) /\ fixed' = 0 /\ UNCHANGED declined

\* The file is as the built-in pass left it.
Undo == diags' = Untold(work) /\ fixed' = 0 /\ declined' = 0

\* Mutant of LastAttempt: one attempt less.
LastAttemptEarly == attempt + 1 >= Attempts

LastAttempt == attempt >= Attempts

\* After an attempt: done when the client is still on; else undo and retry on
\* the same server, up to the last attempt.
Judge ==
    /\ pc = "judge"
    /\ disabled' = FALSE
    /\ \/ ~disabled /\ pc' = "overloads" /\ UNCHANGED <<attempt, given>>
       \/ disabled /\ Undo /\ ~LastAttempt /\ pc' = "attempt" /\ attempt' = attempt + 1
       \/ disabled /\ Undo /\ LastAttempt /\ pc' = "failed" /\ UNCHANGED attempt
    /\ UNCHANGED <<nextId, opened, buffer, backend, file, work, phase, loop,
                   caches, bad>>

\* resolve_overload_fixes_with_ty: without a server to ask, every overload is
\* declined.
BeginOverloads ==
    /\ pc = "overloads"
    /\ \/ /\ ~FixMode \/ overloads = <<>>
          /\ pc' = "filed"
          /\ UNCHANGED <<opened, disabled, server, nextId, phase, todo, declined>>
       \/ /\ FixMode /\ overloads # <<>>
          /\ StartServer("overloads", "filed")
          /\ declined' = declined + Len(overloads) * Count(server' = "absent")
          /\ UNCHANGED <<opened, disabled, phase, todo>>
       \/ /\ FixMode /\ overloads # <<>>
          /\ server \in {"up", "dead"} /\ CanOpen
          /\ Open
          /\ phase' = "overload" /\ todo' = UpTo(Len(overloads)) /\ pc' = "ask"
          /\ UNCHANGED <<server, nextId, declined>>
       \/ /\ FixMode /\ overloads # <<>>
          /\ \/ server = "absent" /\ UNCHANGED <<opened, disabled>>
             \/ server \in {"up", "dead"} /\ ~CanOpen /\ Open
          /\ declined' = declined + Len(overloads)
          /\ pc' = "filed"
          /\ UNCHANGED <<server, nextId, phase, todo>>
    /\ UNCHANGED <<buffer, outstanding, place, chunk, needsDef, caches, diags,
                   fixed, bad>>

EndFile ==
    /\ pc = "filed"
    /\ IF file < Files THEN file' = file + 1 /\ pc' = "file"
                       ELSE pc' = "ok" /\ UNCHANGED file
    /\ UNCHANGED <<client, backend, work, attempt, phase, loop, caches, given, bad>>

(***************************************************************************)
(* Asking and collecting                                                   *)
(***************************************************************************)
Ask ==
    /\ pc = "ask" /\ phase # "ignore" /\ todo # <<>>
    /\ LET i == Head(todo) IN
       \E id \in 0..nextId :
          /\ IF Cached(phase, i) = Off
             THEN Send(i, id)
             ELSE id = 0 /\ UNCHANGED <<nextId, disabled, outstanding>>
          /\ chunk' = Append(chunk, [call |-> i, id |-> id])
    /\ todo' = Tail(todo)
    /\ pc' = IF Len(chunk') = InFlight \/ todo' = <<>> THEN "take" ELSE "ask"
    /\ UNCHANGED <<opened, buffer, server, place, phase, needsDef, caches, given, bad>>

\* resolve_ty_definition_for_pending, in the middle of collecting a hover.
AskIgnore ==
    /\ pc = "ask" /\ phase = "ignore"
    /\ \E id \in 0..nextId :
          /\ Send(chunk[1].call, id)
          /\ chunk' = [chunk EXCEPT ![1].id = id]
    /\ pc' = "take"
    /\ UNCHANGED <<opened, buffer, server, place, phase, todo, needsDef, caches,
                   given, bad>>

Collected ==
    /\ chunk' = Tail(chunk)
    /\ pc' = IF Tail(chunk) = <<>> THEN "ask" ELSE "take"

\* Report call i, and rewrite it when its signature is safe to rewrite from.
Emit(i, rewritable) ==
    /\ diags' = [diags EXCEPT ![i] = @ + 1]
    /\ fixed' = fixed + Count(FixMode /\ rewritable)
    /\ declined' = declined + Count(FixMode /\ ~rewritable)

\* Only a usable signature is taken for the whole group's.
Shareable(a) == a \in Named

UseHover(i, a) ==
    /\ groupHover' = IF calls[i].group # 0 /\ Shareable(a)
                     THEN [groupHover EXCEPT ![calls[i].group] = a] ELSE groupHover
    /\ \/ /\ a = "asks"
          /\ phase' = "ignore" /\ pc' = "ask"
          /\ UNCHANGED <<chunk, needsDef, given>>
       \/ /\ a \in {"named", "arms"}
          /\ Emit(i, a = "named" /\ ~calls[i].static)
          /\ Collected /\ UNCHANGED <<needsDef, phase>>
       \/ /\ a \in {"type", "null", Off}
          /\ needsDef' = Append(needsDef, i)
          /\ Collected /\ UNCHANGED <<given, phase>>
    /\ UNCHANGED groupDef

\* A definition on the ignore list silences the call.
UseIgnore(i, a) ==
    /\ IF a = "loc" THEN UNCHANGED given ELSE Emit(i, ~calls[i].static)
    /\ phase' = "hover"
    /\ Collected
    /\ UNCHANGED <<needsDef, caches>>

UseDef(i, a) ==
    /\ groupDef' = IF calls[i].group # 0 /\ a # Off
                   THEN [groupDef EXCEPT ![calls[i].group] = a] ELSE groupDef
    /\ IF a = "loc" THEN Emit(i, FALSE) ELSE UNCHANGED given
    /\ Collected
    /\ UNCHANGED <<needsDef, phase, groupHover>>

\* The diagnostic is there already: this decides only about the rewrite.
UseOverload(a) ==
    /\ fixed' = fixed + Count(a = "named")
    /\ declined' = declined + Count(a # "named")
    /\ Collected
    /\ UNCHANGED <<needsDef, phase, caches, diags>>

Use(a) ==
    LET i == chunk[1].call IN
    /\ \/ phase = "hover" /\ UseHover(i, a)
       \/ phase = "ignore" /\ UseIgnore(i, a)
       \/ phase = "def" /\ UseDef(i, a)
       \/ phase = "overload" /\ UseOverload(a)
    /\ UNCHANGED <<nextId, opened, server, place, todo>>

\* A cached answer is used without collecting the call's own.
TakeCached ==
    /\ pc = "take"
    /\ Cached(phase, chunk[1].call) # Off
    /\ Use(Cached(phase, chunk[1].call))
    /\ UNCHANGED <<buffer, disabled, outstanding, bad>>

Collecting == pc = "take" /\ Cached(phase, chunk[1].call) = Off
Awaiting(id) == Collecting /\ chunk[1].id = id /\ id # 0

\* Mutant of Buffered: a response is taken whatever request it answers.
BufferedAny(id) == buffer

Buffered(id) == {m \in buffer : m.id = id}

TakeNothing ==
    /\ Collecting /\ chunk[1].id = 0
    /\ Use(Off)
    /\ UNCHANGED <<buffer, disabled, outstanding, bad>>

TakeBuffered ==
    /\ Collecting
    /\ \E m \in Buffered(chunk[1].id) :
          /\ Use(m.answer)
          /\ buffer' = buffer \ {m}
    /\ UNCHANGED <<disabled, outstanding, bad>>

\* The awaited response; an error is a backend failure, not a miss.
Receive(m) ==
    /\ Awaiting(m.id)
    /\ outstanding' = outstanding \ {m}
    /\ \/ Use(m.answer) /\ UNCHANGED <<disabled, bad>>
       \/ Use(Off) /\ disabled' = TRUE /\ bad' = bad \cup {m.id}
    /\ UNCHANGED buffer

\* absorb: a response to another request is kept under its id; an error
\* latches the client OFF all the same and leaves a null result.
Absorb(m) ==
    /\ Collecting /\ chunk[1].id \notin {0, m.id} /\ Buffered(chunk[1].id) = {}
    /\ outstanding' = outstanding \ {m}
    /\ \/ buffer' = buffer \cup {m} /\ UNCHANGED <<disabled, bad>>
       \/ /\ buffer' = buffer \cup {[m EXCEPT !.answer = "null"]}
          /\ disabled' = TRUE
          /\ bad' = bad \cup {m.id}
    /\ UNCHANGED <<nextId, opened, server, place, pc, phase, loop, caches, given>>

\* Mutant of Timeout: the client waits for as long as the server takes.
TimeoutNever == FALSE /\ UNCHANGED vars

\* The deadline passes.
Timeout ==
    /\ \E id \in {m.id : m \in outstanding} :
          /\ Awaiting(id)
          /\ bad' = bad \cup {id}
    /\ Use(Off)
    /\ disabled' = TRUE
    /\ UNCHANGED <<buffer, outstanding>>

\* The server exits; what it had answered may still be read, after which the
\* client finds the channel disconnected.
ServerDies ==
    /\ server = "up"
    /\ server' = "dead"
    /\ UNCHANGED <<client, outstanding, place, pc, phase, loop, caches, given, bad>>

Disconnect ==
    /\ server = "dead"
    /\ Collecting /\ chunk[1].id # 0 /\ Buffered(chunk[1].id) = {}
    /\ Use(Off)
    /\ disabled' = TRUE
    /\ UNCHANGED <<buffer, outstanding, bad>>

(***************************************************************************)
(* The specification                                                       *)
(***************************************************************************)
ClientStep ==
    \/ BeginFile \/ EnterFile \/ BeginAttempt \/ EndPhase \/ Normalize \/ Judge
    \/ BeginOverloads \/ EndFile \/ Ask \/ AskIgnore
    \/ TakeCached \/ TakeNothing \/ TakeBuffered \/ Timeout \/ Disconnect

ServerStep == ServerDies \/ \E m \in outstanding : Receive(m) \/ Absorb(m)

Next == ClientStep \/ ServerStep

Spec == Init /\ [][Next]_vars

\* The client runs and its clock goes on; the server owes nothing.
FairSpec == Spec /\ WF_vars(ClientStep)

(***************************************************************************)
(* What the answers of a file amount to when nothing goes wrong            *)
(***************************************************************************)
Earlier(i) ==
    {j \in 1..(i - 1) : calls[j].group = calls[i].group /\ calls[i].group # 0}
First(S) == CHOOSE j \in S : \A k \in S : j <= k

\* The hover a call is judged by: its group's first signature, or its own.
HoverOf(i) ==
    LET seeds == {j \in Earlier(i) : calls[j].hover \in Named}
    IN calls[IF seeds = {} THEN i ELSE First(seeds)].hover

NeedsDef(i) == HoverOf(i) \in {"type", "null"}
DefOf(i) == calls[First({j \in Earlier(i) \cup {i} : NeedsDef(j)})].def

ByHover(i) ==
    \/ HoverOf(i) \in {"named", "arms"}
    \/ HoverOf(i) = "asks" /\ calls[i].def = "null"
ByDefinition(i) == NeedsDef(i) /\ DefOf(i) = "loc"
Reported(i) == ByHover(i) \/ ByDefinition(i) \/ calls[i].static

(***************************************************************************)
(* Properties                                                              *)
(***************************************************************************)
\* A file is given exactly the diagnostics its calls deserve, none twice,
\* however late, disordered or failing the server was on the way: attempts
\* that failed leave nothing behind and no stale answer is used (check.rs
\* resolve_file_with_ty, issue #275).
FiledIsExact == pc = "filed" => \A i \in DOMAIN calls : diags[i] = Count(Reported(i))

\* One request that is slow, and then answered with an error on top, never
\* makes the run fail on a live server: the attempts outlast it (check.rs
\* TY_FILE_ATTEMPTS).
FatalNeedsTwoBadRequests ==
    pc = "failed" /\ server \in {"up", "dead"} =>
        server = "dead" \/ Cardinality(bad) >= 2

\* Whatever the server does, the shard finishes: every wait has a deadline
\* and every file a last attempt (ty_resolver.rs collect_until, issue #277).
ShardEnds == <>(pc \in {"ok", "failed"})

\* The diagnostics a file has of its calls, one pair for each.
Diagnostics == UNION {{i} \X (1..diags[i]) : i \in DOMAIN calls}

\* Every diagnostic is rewritten or declined, once (fix_runner.rs
\* resolve_fix_scan's debug_assert).
FixesAddUp ==
    pc = "filed" =>
        fixed + declined = (Len(overloads) + Cardinality(Diagnostics)) * Count(FixMode)

\* A call that ty can judge by its definition is judged by it, also when an
\* unreachable member of its group had no definition (check.rs: "A definition
\* miss at an unreachable member must not suppress live members of the same
\* group").
LiveMembersJudged ==
    pc = "filed" =>
        \A i \in DOMAIN calls :
            calls[i].hover \in {"type", "null"} /\ calls[i].def = "loc" =>
                diags[i] > 0

(***************************************************************************)
(* The inductive invariant: IInv of every run, with BadRequestsSpoil behind *)
(* FatalNeedsTwoBadRequests and Booked behind FixesAddUp                   *)
(***************************************************************************)
Asking == pc \in {"ask", "take"}

\* The calls, or overloads, that the phase asks about, and how many it has judged.
Asked == CASE phase \in {"hover", "ignore"} -> UpTo(Len(calls))
           [] phase = "def" -> needsDef
           [] phase = "overload" -> UpTo(Len(overloads))
Done == Len(Asked) - Len(chunk) - Len(todo)

\* A phase asks and judges in the order of its calls.
AsksInOrder ==
    /\ ~Asking => chunk = <<>>
    /\ pc = "take" \/ (pc = "ask" /\ phase = "ignore") => chunk # <<>>
    /\ Asking =>
          /\ Done \in Nat
          /\ \A k \in DOMAIN chunk : chunk[k].call = Asked[Done + k]
          /\ \A k \in DOMAIN todo : todo[k] = Asked[Done + Len(chunk) + k]
          /\ phase # "overload" => needsDef \in Seq(DOMAIN calls)

\* The server is there when it is asked.
AsksServer ==
    /\ pc \in {"attempt", "ask", "take", "normalize", "judge"} => server \in {"up", "dead"}
    /\ server \in {"unstarted", "absent"} => nextId = 1

\* Every id is of a request made, a response arrives once, and a client that is on
\* waits for nothing that has gone wrong.
IdsAreFresh ==
    /\ \A m \in outstanding \cup buffer : m.id \in 1..(nextId - 1)
    /\ \A m, o \in outstanding : m.id = o.id => m = o
    /\ \A k \in DOMAIN chunk : chunk[k].id < nextId
    /\ \A x \in bad : x \in 1..(nextId - 1)
    /\ IsFiniteSet(bad)
    /\ ~disabled => \A k \in DOMAIN chunk : chunk[k].id \notin bad

\* The phase that asked for the k-th answer to be collected.
Asker(k) == IF phase = "ignore" /\ k # 1 THEN "hover" ELSE phase

\* An answer still to be used is the one to its own question, or comes from the
\* cache; only a client that is off may have a null instead, whatever was late, failed or
\* left over from an attempt before (ty_resolver.rs absorb, collect_until).
AnswersAreTrue ==
    Asking => \A k \in DOMAIN chunk : (pc = "ask" /\ phase = "ignore" => k # 1) =>
        /\ chunk[k].id = 0 => disabled \/ Cached(Asker(k), chunk[k].call) # Off
        /\ \A m \in outstanding \cup buffer : m.id = chunk[k].id =>
              \/ m.answer = Truth(Asker(k), chunk[k].call)
              \/ disabled /\ m.answer = "null"

IInv ==
    /\ TypeOK
    /\ AsksInOrder /\ AsksServer /\ IdsAreFresh /\ AnswersAreTrue

\* The attempts at this file that the client has not come out of on.
Failures == attempt - 1 + Count(disabled)

\* On a live server one request spoils two attempts: when it times out and when its
\* error arrives.
BadRequestsSpoil ==
    /\ FatalNeedsTwoBadRequests
    /\ server \in {"unstarted", "up"} /\ pc # "failed" =>
          /\ attempt >= 1
          /\ bad = {} => Failures = 0
          /\ \A x \in bad : bad = {x} =>
                /\ Failures <= 2
                /\ Failures = 2 => \A m \in outstanding : m.id # x

\* Every diagnostic so far is counted, as rewritten or as declined.
Booked ==
    /\ pc \in {"start", "attempt"} => fixed = 0 /\ declined = 0 /\ diags = Untold(work)
    /\ ~FixMode => fixed = 0 /\ declined = 0 /\ ~(Asking /\ phase = "overload")
    /\ FixMode =>
          /\ pc \in {"normalize", "judge", "overloads"} \/ (Asking /\ phase # "overload") =>
                fixed + declined = Cardinality(Diagnostics)
          /\ Asking /\ phase = "overload" =>
                fixed + declined = Cardinality(Diagnostics) + Done
          /\ pc = "filed" => fixed + declined = Cardinality(Diagnostics) + Len(overloads)

(***************************************************************************)
(* The inductive invariant behind FiledIsExact, which speaks of a client   *)
(* that is on: whatever puts it off is undone                              *)
(***************************************************************************)
Lists(s, S) ==
    /\ \A k \in DOMAIN s : s[k] \in S
    /\ \A i \in S : \E k \in DOMAIN s : s[k] = i
    /\ \A j, k \in DOMAIN s : j < k => s[j] < s[k]

\* A group's answer, kept for calls that come later, is that of the first of these.
KeepsFirst(answer, S, field) ==
    \/ S = {} /\ answer = Off
    \/ \E j \in S : (\A k \in S : j <= k) /\ answer = calls[j][field]

\* How many calls' hovers are known, while hovers are asked for.
Heard == Done + Count(phase = "ignore")

\* The calls of a group, among the first n, whose hover can be the group's.
Seeds(g, n) == {j \in 1..n : calls[j].group = g /\ calls[j].hover \in Named}

HoversJudged ==
    Asking /\ phase \in {"hover", "ignore"} /\ ~disabled =>
        /\ \A g \in Groups :
              /\ KeepsFirst(groupHover[g], Seeds(g, Heard), "hover")
              /\ groupDef[g] = Off
        /\ phase = "ignore" => HoverOf(Done + 1) = "asks"
        /\ Lists(needsDef, {i \in 1..Done : NeedsDef(i)})
        /\ \A i \in DOMAIN calls : diags[i] = Count(i <= Done /\ ByHover(i))

DefinitionsJudged ==
    Asking /\ phase = "def" /\ ~disabled =>
        LET judged == {needsDef[k] : k \in 1..Done}
        IN /\ Lists(needsDef, {i \in DOMAIN calls : NeedsDef(i)})
           /\ \A g \in Groups :
                 KeepsFirst(groupDef[g], {j \in judged : calls[j].group = g}, "def")
           /\ \A i \in DOMAIN calls :
                 diags[i] = Count(ByHover(i) \/ (ByDefinition(i) /\ i \in judged))

\* Once a file's calls are judged it has their diagnostics.
Judged ==
    /\ pc \in {"start", "attempt"} => diags = Untold(work)
    /\ pc = "normalize" /\ ~disabled =>
          \A i \in DOMAIN calls : diags[i] = Count(ByHover(i) \/ ByDefinition(i))
    /\ (pc = "judge" /\ ~disabled) \/ pc \in {"overloads", "filed"}
       \/ (Asking /\ phase = "overload") =>
          \A i \in DOMAIN calls : diags[i] = Count(Reported(i))

\* A server that did not start ends the run.
StartsOrFails == server = "absent" => pc = "failed"

\* Everything that FiledIsExact rests on besides IInv.
AllJudged == HoversJudged /\ DefinitionsJudged /\ Judged /\ StartsOrFails
=============================================================================
