-------------------------- MODULE AgentRuntimeProofs ---------------------------
(***************************************************************************)
(* Proofs about AgentRuntime, for every number of tasks, server processes, *)
(* faults, tools, commands and every limit.                                *)
(***************************************************************************)
EXTENDS AgentRuntime, SequenceTheorems, TLAPS

USE McpAssumption, RuntimeAssumption

-------------------------------------------------------------------------------
(* The client: what ties a pending request, its answer and its promise.    *)

RequestOf(p) == [child |-> p.child, id |-> p.id]

\* A pending request is the one its task has last made, a number on the wire belongs to one
\* connection, and a task waits exactly as long as its request is pending.
Matched ==
    /\ \A t \in Tasks : Waiting(t) <=> \E p \in pending : p.task = t
    /\ \A p \in pending : asked[p.task] = RequestOf(p)
    /\ \A r \in wire, p \in pending : r.id = p.id => r.child = p.child

ClientInv == McpTypeOK /\ Matched /\ OrphanOnlyByLateExit

USE DEF Children

LEMMA NoRequestType == NoRequest \in [child : 0..MaxChildren, id : Nat]
BY DEF NoRequest

\* A task has at most one request pending.
LEMMA OnePending ==
    ASSUME McpTypeOK, Matched, NEW p \in pending, NEW q \in pending, q.task = p.task
    PROVE  q = p
<1>1. /\ p \in [task : Tasks, child : Children, id : 1..(nextId - 1)]
      /\ q \in [task : Tasks, child : Children, id : 1..(nextId - 1)]
  BY DEF McpTypeOK
<1>2. RequestOf(q) = RequestOf(p)
  BY DEF Matched
<1>3. q.child = p.child /\ q.id = p.id
  BY <1>2 DEF RequestOf
<1>4. QED BY <1>1, <1>3

LEMMA ClientInit == McpInit => ClientInv
<1> SUFFICES ASSUME McpInit PROVE ClientInv
  OBVIOUS
<1> USE DEF McpInit
<1>1. McpTypeOK
  <2>1. asked \in [Tasks -> [child : 0..MaxChildren, id : Nat]]
        /\ answered \in [Tasks -> [child : 0..MaxChildren, id : Nat]]
    BY NoRequestType
  <2>2. proc \in [Children -> {"unborn", "running", "killed", "gone"}]
        /\ reply \in [Tasks -> {"none", "waiting", "ok", "fail"}]
    OBVIOUS
  <2>3. child \in 0..MaxChildren /\ nextId \in Nat \ {0}
    OBVIOUS
  <2>4. QED BY <2>1, <2>2, <2>3 DEF McpTypeOK
<1>2. Matched
  BY DEF Matched, Waiting
<1>3. OrphanOnlyByLateExit
  BY DEF OrphanOnlyByLateExit
<1>4. QED BY <1>1, <1>2, <1>3 DEF ClientInv

\* A request that is registered, in a state where its task has nothing pending.
LEMMA SendKeeps ==
    ASSUME McpTypeOK, Matched, NEW t \in Tasks, ~Waiting(t), NEW c \in 0..MaxChildren, Send(t, c)
    PROVE  /\ nextId' \in Nat \ {0}
           /\ pending' \subseteq [task : Tasks, child : Children, id : 1..(nextId' - 1)]
           /\ wire' \subseteq [child : Children, id : 1..(nextId' - 1)]
           /\ reply' \in [Tasks -> {"none", "waiting", "ok", "fail"}]
           /\ asked' \in [Tasks -> [child : 0..MaxChildren, id : Nat]]
           /\ answered' \in [Tasks -> [child : 0..MaxChildren, id : Nat]]
           /\ Matched'
           /\ \A u \in Tasks : answered'[u] \in {answered[u], NoRequest}
           /\ reply'[t] # "none" /\ \A u \in Tasks \ {t} : reply'[u] = reply[u]
<1> USE DEF McpTypeOK
<1>1. nextId' = nextId + 1 /\ nextId \in Nat \ {0}
  BY DEF Send
<1>2. asked' \in [Tasks -> [child : 0..MaxChildren, id : Nat]]
      /\ asked'[t] = [child |-> c, id |-> nextId] /\ \A u \in Tasks \ {t} : asked'[u] = asked[u]
  BY DEF Send
<1>3. answered' \in [Tasks -> [child : 0..MaxChildren, id : Nat]]
      /\ \A u \in Tasks : answered'[u] \in {answered[u], NoRequest}
  BY DEF Send, NoRequest
<1>4. /\ reply' \in [Tasks -> {"none", "waiting", "ok", "fail"}]
      /\ reply'[t] = IF c = 0 THEN "fail" ELSE "waiting"
      /\ \A u \in Tasks \ {t} : reply'[u] = reply[u]
  BY DEF Send
<1>5. \A p \in pending : p.task # t /\ p.id < nextId
  BY DEF Matched
<1>6. \A r \in wire : r.id < nextId
  OBVIOUS
<1>7. CASE c = 0
  <2>1. pending' = pending /\ wire' = wire
    BY <1>7 DEF Send
  <2>2. Matched'
    BY <1>2, <1>4, <1>5, <1>7, <2>1 DEF Matched, Waiting, RequestOf
  <2>3. QED BY <1>1, <1>2, <1>3, <1>4, <1>7, <2>1, <2>2
<1>8. CASE c # 0
  <2> DEFINE new == [task |-> t, child |-> c, id |-> nextId]
  <2>1. pending' = pending \cup {new} /\ wire' = wire \cup {[child |-> c, id |-> nextId]}
    BY <1>8 DEF Send, Request
  <2>2. \A p \in pending' : asked'[p.task] = RequestOf(p)
    <3> SUFFICES ASSUME NEW p \in pending' PROVE asked'[p.task] = RequestOf(p)
      OBVIOUS
    <3>1. CASE p = new
      BY <1>2, <3>1 DEF RequestOf
    <3>2. CASE p \in pending
      <4>1. p.task \in Tasks /\ p.task # t
        BY <1>5, <3>2
      <4>2. QED BY <1>2, <3>2, <4>1 DEF Matched
    <3>3. QED BY <2>1, <3>1, <3>2
  <2>3. \A u \in Tasks : Waiting(u)' <=> \E p \in pending' : p.task = u
    <3> SUFFICES ASSUME NEW u \in Tasks
                 PROVE  Waiting(u)' <=> \E p \in pending' : p.task = u
      OBVIOUS
    <3>1. CASE u = t
      <4>1. new \in pending' /\ new.task = t
        BY <2>1
      <4>2. Waiting(t)'
        BY <1>4, <1>8 DEF Waiting
      <4>3. QED BY <3>1, <4>1, <4>2
    <3>2. CASE u # t
      BY <1>4, <2>1, <3>2 DEF Matched, Waiting
    <3>3. QED BY <3>1, <3>2
  <2>4. \A r \in wire', p \in pending' : r.id = p.id => r.child = p.child
    <3> SUFFICES ASSUME NEW r \in wire', NEW p \in pending', r.id = p.id
                 PROVE  r.child = p.child
      OBVIOUS
    <3>1. CASE p = new
      BY <1>6, <2>1, <3>1
    <3>2. CASE p \in pending
      BY <1>5, <2>1, <3>2 DEF Matched
    <3>3. QED BY <2>1, <3>1, <3>2
  <2>5. Matched'
    BY <2>2, <2>3, <2>4 DEF Matched
  <2>6. /\ pending' \subseteq [task : Tasks, child : Children, id : 1..(nextId' - 1)]
        /\ wire' \subseteq [child : Children, id : 1..(nextId' - 1)]
    BY <1>1, <1>8, <2>1
  <2>7. QED BY <1>1, <1>2, <1>3, <1>4, <1>8, <2>5, <2>6
<1>9. QED BY <1>7, <1>8

\* What a task does with the client when it waits for nothing: the promise of a request it
\* made is there, any other one is gone, the other tasks keep theirs, and nothing is answered.
CallsDone(t, awaits) ==
    /\ ClientInv'
    /\ \A u \in Tasks : answered'[u] \in {answered[u], NoRequest}
    /\ (reply'[t] # "none") <=> awaits
    /\ \A u \in Tasks \ {t} : reply'[u] = "none" <=> reply[u] = "none"

LEMMA AskKeeps ==
    ASSUME ClientInv, NEW t \in Tasks, ~Waiting(t), Ask(t)
    PROVE  CallsDone(t, TRUE)
<1> USE DEF ClientInv, Ask
<1>1. child \in 0..MaxChildren
  BY DEF McpTypeOK
<1>2. McpTypeOK'
  BY <1>1, SendKeeps DEF McpTypeOK
<1>3. Matched' /\ (\A u \in Tasks : answered'[u] \in {answered[u], NoRequest})
      /\ reply'[t] # "none" /\ \A u \in Tasks \ {t} : reply'[u] = reply[u]
  BY <1>1, SendKeeps
<1>4. OrphanOnlyByLateExit'
  BY DEF OrphanOnlyByLateExit
<1>5. QED BY <1>2, <1>3, <1>4 DEF CallsDone

LEMMA SpawnKeeps ==
    ASSUME ClientInv, NEW t \in Tasks, ~Waiting(t), Spawn(t)
    PROVE  CallsDone(t, TRUE)
<1> USE DEF ClientInv, Spawn
<1>1. NewChild \in Children /\ proc[NewChild] = "unborn"
  BY DEF NewChild, Unborn
<1>2. NewChild \in 0..MaxChildren /\ NewChild # 0
  BY <1>1
<1>3. proc' \in [Children -> {"unborn", "running", "killed", "gone"}]
  BY <1>1 DEF McpTypeOK
<1>4. McpTypeOK'
  BY <1>2, <1>3, SendKeeps DEF McpTypeOK
<1>5. Matched' /\ (\A u \in Tasks : answered'[u] \in {answered[u], NoRequest})
      /\ reply'[t] # "none" /\ \A u \in Tasks \ {t} : reply'[u] = reply[u]
  BY <1>2, SendKeeps
<1>6. OrphanOnlyByLateExit'
  BY <1>1 DEF OrphanOnlyByLateExit, McpTypeOK
<1>7. QED BY <1>4, <1>5, <1>6 DEF CallsDone

LEMMA TakeKeeps ==
    ASSUME ClientInv, NEW t \in Tasks, ~Waiting(t), Take(t)
    PROVE  CallsDone(t, FALSE)
<1> USE DEF ClientInv, Take, Forget
<1>1. McpTypeOK'
  BY DEF McpTypeOK, NoRequest
<1>2. Matched'
  BY DEF Matched, McpTypeOK, Waiting, RequestOf
<1>3. OrphanOnlyByLateExit'
  BY DEF OrphanOnlyByLateExit
<1>4. reply'[t] = "none" /\ (\A u \in Tasks \ {t} : reply'[u] = reply[u])
      /\ \A u \in Tasks : answered'[u] \in {answered[u], NoRequest}
  BY DEF McpTypeOK
<1>5. QED BY <1>1, <1>2, <1>3, <1>4 DEF CallsDone

LEMMA DisconnectKeeps ==
    ASSUME ClientInv, NEW t \in Tasks, ~Waiting(t), Disconnect(t)
    PROVE  CallsDone(t, FALSE)
<1>1. CASE child = 0
  BY <1>1, TakeKeeps DEF Disconnect
<1>2. CASE child # 0
  <2> USE DEF ClientInv, Forget
  <2>1. /\ pending' = {} /\ child' = 0 /\ reply' = FailedBy(t)
        /\ proc' = [proc EXCEPT ![child] = IF @ = "running" THEN "killed" ELSE @]
        /\ UNCHANGED <<nextId, wire, mcpFaults, cutLoose>>
        /\ closing' = TRUE /\ buffer' = "clean" /\ Forget(t)
    BY <1>2 DEF Disconnect
  <2>2. child \in Children
    BY <1>2 DEF McpTypeOK
  <2>3. /\ reply' \in [Tasks -> {"none", "waiting", "ok", "fail"}]
        /\ reply'[t] = "none"
        /\ \A u \in Tasks : reply'[u] # "waiting"
        /\ \A u \in Tasks \ {t} : reply'[u] = "none" <=> reply[u] = "none"
    BY <2>1 DEF FailedBy, McpTypeOK, Matched, Waiting
  <2>4. McpTypeOK'
    <3>1. asked' \in [Tasks -> [child : 0..MaxChildren, id : Nat]]
          /\ answered' \in [Tasks -> [child : 0..MaxChildren, id : Nat]]
      BY <2>1, NoRequestType DEF McpTypeOK
    <3>2. proc' \in [Children -> {"unborn", "running", "killed", "gone"}]
      BY <2>1, <2>2 DEF McpTypeOK
    <3>3. QED BY <2>1, <2>3, <3>1, <3>2 DEF McpTypeOK
  <2>5. Matched'
    BY <2>1, <2>3 DEF Matched, Waiting
  <2>6. OrphanOnlyByLateExit'
    BY <2>1, <2>2 DEF OrphanOnlyByLateExit, McpTypeOK
  <2>7. \A u \in Tasks : answered'[u] \in {answered[u], NoRequest}
    BY <2>1 DEF McpTypeOK
  <2>8. QED BY <2>3, <2>4, <2>5, <2>6, <2>7 DEF CallsDone
<1>3. QED BY <1>1, <1>2

\* A callback keeps the promises that are awaited and answers a request with its own answer,
\* or with a request of the server's own.
Rightly(u) ==
    \/ answered'[u] \in {answered[u], asked[u]}
    \/ \E c \in Children : answered'[u] = ServersOwn(c)
CallbackDone ==
    /\ ClientInv'
    /\ \A u \in Tasks : reply'[u] = "none" <=> reply[u] = "none"
    /\ \A u \in Tasks : Rightly(u)
    /\ asked' = asked

\* failAll settles what is pending and nothing else.
LEMMA FailAllKeeps ==
    ASSUME ClientInv, FailAll
    PROVE  /\ pending' = {}
           /\ reply' \in [Tasks -> {"none", "waiting", "ok", "fail"}]
           /\ \A u \in Tasks : reply'[u] # "waiting"
           /\ \A u \in Tasks : reply'[u] = "none" <=> reply[u] = "none"
BY DEF FailAll, ClientInv, Matched, Waiting, McpTypeOK

LEMMA AnswerKeeps == ASSUME ClientInv, NEW r \in wire, Answer(r) PROVE CallbackDone
<1> USE DEF ClientInv
<1>1. /\ wire' = wire \ {r}
      /\ UNCHANGED <<child, proc, closing, nextId, mcpFaults, asked, cutLoose>>
  BY DEF Answer
<1>2. OrphanOnlyByLateExit'
  BY <1>1 DEF OrphanOnlyByLateExit
<1>3. CASE buffer # "clean"
  <2>1. FailAll /\ buffer' = "bad" /\ UNCHANGED answered
    BY <1>3 DEF Answer
  <2>2. McpTypeOK'
    BY <1>1, <2>1, FailAllKeeps DEF McpTypeOK
  <2>3. Matched'
    BY <2>1, FailAllKeeps DEF Matched, Waiting
  <2>4. QED BY <1>1, <1>2, <2>1, <2>2, <2>3, FailAllKeeps DEF CallbackDone, Rightly
<1>4. CASE buffer = "clean" /\ ~ \E p \in pending : p.id = r.id
  <2>1. UNCHANGED <<pending, reply, answered, buffer>>
    BY <1>4 DEF Answer, HandleMessage
  <2>2. McpTypeOK' /\ Matched'
    BY <1>1, <2>1 DEF McpTypeOK, Matched, Waiting, RequestOf
  <2>3. QED BY <1>1, <1>2, <2>1, <2>2 DEF CallbackDone, Rightly
<1>5. CASE buffer = "clean" /\ \E p \in pending : p.id = r.id
  <2>1. UNCHANGED buffer
    BY <1>5 DEF Answer
  <2>2. PICK p \in pending, outcome \in {"ok", "fail"} :
          /\ p.id = r.id /\ pending' = pending \ {p}
          /\ reply' = [reply EXCEPT ![p.task] = outcome]
          /\ answered' = [answered EXCEPT ![p.task] = r]
    BY <1>5 DEF Answer, HandleMessage
  <2>3. p \in [task : Tasks, child : Children, id : 1..(nextId - 1)]
        /\ r \in [child : Children, id : 1..(nextId - 1)] /\ nextId \in Nat
    BY DEF McpTypeOK
  <2>4. r = asked[p.task]
    BY <2>2, <2>3 DEF Matched, RequestOf
  <2>5. reply[p.task] = "waiting"
    BY <2>3 DEF Matched, Waiting
  <2>6. /\ reply' \in [Tasks -> {"none", "waiting", "ok", "fail"}]
        /\ answered' \in [Tasks -> [child : 0..MaxChildren, id : Nat]]
    BY <2>2, <2>3 DEF McpTypeOK
  <2>7. McpTypeOK'
    BY <1>1, <2>1, <2>2, <2>6 DEF McpTypeOK
  <2>8. \A q \in pending : q.task = p.task => q = p
    BY OnePending
  <2>9. Matched'
    BY <1>1, <2>2, <2>3, <2>8 DEF Matched, McpTypeOK, Waiting, RequestOf
  <2>10. QED
    BY <1>1, <1>2, <2>2, <2>3, <2>4, <2>5, <2>7, <2>9 DEF CallbackDone, Rightly, McpTypeOK
<1>6. QED BY <1>3, <1>4, <1>5

LEMMA TimeOutKeeps == ASSUME ClientInv, NEW t \in Tasks, RequestTimesOut(t) PROVE CallbackDone
<1> USE DEF ClientInv
<1>1. PICK p \in pending : p.task = t /\ pending' = pending \ {p}
  BY DEF RequestTimesOut
<1>2. reply' = [reply EXCEPT ![t] = "fail"] /\ reply[t] = "waiting"
  BY <1>1 DEF RequestTimesOut, Matched, Waiting
<1>3. UNCHANGED <<child, proc, closing, nextId, buffer, wire, mcpFaults, asked, answered, cutLoose>>
  BY DEF RequestTimesOut
<1>4. McpTypeOK'
  BY <1>1, <1>2, <1>3 DEF McpTypeOK
<1>5. \A q \in pending : q.task = t => q = p
  BY <1>1, OnePending
<1>6. Matched'
  BY <1>1, <1>2, <1>3, <1>5 DEF Matched, McpTypeOK, Waiting, RequestOf
<1>7. OrphanOnlyByLateExit'
  BY <1>3 DEF OrphanOnlyByLateExit
<1>8. QED BY <1>2, <1>3, <1>4, <1>6, <1>7 DEF CallbackDone, Rightly, McpTypeOK

\* The exit listener fails what is pending unless a disconnect has done so.
LEMMA ExitKeeps ==
    ASSUME ClientInv, NEW c \in Children, Exit(c), buffer' \in {"clean", "partial", "bad"}
    PROVE  CallbackDone
<1> USE DEF ClientInv
<1>1. /\ proc' = [proc EXCEPT ![c] = "gone"]
      /\ wire' = {r \in wire : r.child # c}
      /\ child' = 0
      /\ cutLoose' = IF child \in {0, c} THEN cutLoose ELSE cutLoose \cup {child}
      /\ UNCHANGED <<closing, nextId, asked, answered>>
  BY DEF Exit
<1>2. /\ (pending' = pending /\ reply' = reply) \/ pending' = {}
      /\ reply' \in [Tasks -> {"none", "waiting", "ok", "fail"}]
      /\ \A u \in Tasks : reply'[u] = "none" <=> reply[u] = "none"
      /\ pending' = {} => (reply' = reply /\ pending = {}) \/ \A u \in Tasks : reply'[u] # "waiting"
  BY FailAllKeeps DEF Exit, McpTypeOK
<1>3. McpTypeOK'
  BY <1>1, <1>2 DEF McpTypeOK
<1>4. Matched'
  BY <1>1, <1>2 DEF Matched, Waiting, RequestOf
<1>5. OrphanOnlyByLateExit'
  BY <1>1 DEF OrphanOnlyByLateExit, McpTypeOK
<1>6. QED BY <1>1, <1>2, <1>3, <1>4, <1>5 DEF CallbackDone, Rightly

\* Garbage on stdout, or a command that could not be spawned.
LEMMA FaultKeeps ==
    ASSUME ClientInv, NEW c \in Children, Malformed(c) \/ SpawnFails(c)
    PROVE  CallbackDone
<1> USE DEF ClientInv
<1>1. FailAll /\ UNCHANGED <<child, closing, nextId, asked, answered, cutLoose>>
  BY DEF Malformed, SpawnFails
<1>2. /\ proc' = proc \/ proc' = [proc EXCEPT ![c] = "gone"]
      /\ wire' \subseteq wire
      /\ buffer' \in {buffer, "bad"}
  BY DEF Malformed, SpawnFails
<1>3. McpTypeOK'
  BY <1>1, <1>2, FailAllKeeps DEF McpTypeOK
<1>4. Matched'
  BY <1>1, FailAllKeeps DEF Matched, Waiting
<1>5. OrphanOnlyByLateExit'
  BY <1>1, <1>2 DEF OrphanOnlyByLateExit, McpTypeOK
<1>6. QED BY <1>1, <1>3, <1>4, <1>5, FailAllKeeps DEF CallbackDone, Rightly

LEMMA ServerAsksKeeps ==
    ASSUME ClientInv, NEW c \in Children, NEW p \in pending, NEW outcome \in {"ok", "fail"},
           ServerAsks(c, p, outcome)
    PROVE  CallbackDone
<1> USE DEF ClientInv
<1>1. /\ pending' = pending \ {p}
      /\ reply' = [reply EXCEPT ![p.task] = outcome]
      /\ answered' = [answered EXCEPT ![p.task] = ServersOwn(c)]
  BY DEF ServerAsks
<1>2. UNCHANGED <<child, proc, closing, nextId, buffer, wire, asked, cutLoose>>
  BY DEF ServerAsks
<1>3. p.task \in Tasks /\ reply[p.task] = "waiting"
  BY DEF McpTypeOK, Matched, Waiting
<1>4. ServersOwn(c) \in [child : 0..MaxChildren, id : Nat]
  BY DEF ServersOwn
<1>5. McpTypeOK'
  BY <1>1, <1>2, <1>3, <1>4 DEF McpTypeOK
<1>6. \A q \in pending : q.task = p.task => q = p
  BY OnePending
<1>7. Matched'
  BY <1>1, <1>2, <1>3, <1>6 DEF Matched, McpTypeOK, Waiting, RequestOf
<1>8. OrphanOnlyByLateExit'
  BY <1>2 DEF OrphanOnlyByLateExit
<1>9. QED BY <1>1, <1>2, <1>3, <1>5, <1>7, <1>8 DEF CallbackDone, Rightly, McpTypeOK

LEMMA CallbackKeeps == ASSUME ClientInv, Callback PROVE CallbackDone
<1>1. \A c \in Children : KilledExits(c) \/ Dies(c) => Exit(c) /\ buffer' \in {"clean", "partial", "bad"}
  BY DEF KilledExits, Dies, ClientInv, McpTypeOK
<1>2. QED
  BY <1>1, AnswerKeeps, TimeOutKeeps, ExitKeeps, FaultKeeps DEF Callback

LEMMA ClientStepKeeps == ASSUME ClientInv, ClientStep PROVE CallbackDone
<1>1. CASE Callback
  BY <1>1, CallbackKeeps
<1>2. CASE TakenForAnswer
  BY <1>2, ServerAsksKeeps DEF TakenForAnswer
<1>3. QED BY <1>1, <1>2 DEF ClientStep

-------------------------------------------------------------------------------
(* The tasks.                                                              *)

Labels == {"idle", "prompt", "connect", "list", "model", "tools", "call", "raw", "trace", "done"}
Awaits == {"connect", "list", "call"}
Tools == RuntimeBuiltins \cup McpTools
Limit == MaxToolCalls + MaxUses - 1

Types ==
    /\ started \in BOOLEAN
    /\ definitions \in ProviderMayFind
    /\ pc \in [Tasks -> Labels]
    /\ input \in [Tasks -> Inputs \cup {NoInput}]
    /\ result \in [Tasks -> Final \cup {"none", "running"}]
    /\ pool \in [Tasks -> SUBSET Tools]
    /\ calls \in [Tasks -> Nat]
    /\ left \in [Tasks -> 0..MaxUses]
    /\ artifacts \in [Tasks -> SUBSET {"raw", "trace"}]
    /\ ran \in [Tasks -> SUBSET (Tools \cup Commands)]

\* The part of OnlyPermittedToolsRun about one thing that was executed.
Permitted(t, what) ==
    IF what \in Commands
    THEN /\ Builtin("run_command") \in input[t].allowed
         /\ \E a \in CommandAllowlist[input[t].profile] :
                Len(a) <= Len(what.words) /\ SubSeq(what.words, 1, Len(a)) = a
    ELSE what \in input[t].allowed /\ CheckTaskPermissions(input[t]) = {}

\* A task before it begins and after its executor has stopped has no locals, at work it was
\* admitted, and its result says which of the two it is unless the timer has decided.
Stage(t) ==
    /\ pc[t] = "idle" => result[t] = "none"
    /\ pc[t] # "idle" => result[t] # "none"
    /\ result[t] \in Final \ {"timed_out"} => pc[t] = "done"
    /\ pc[t] \in {"idle", "done"} => pool[t] = {} /\ ran[t] = {} /\ calls[t] = 0
    /\ pc[t] \notin {"idle", "done"} => CheckTaskPermissions(input[t]) = {}

\* The calls that are made and those the last answer still asks for are within the limit.
Counted(t) ==
    /\ calls[t] <= Limit
    /\ pc[t] = "tools" => left[t] >= 1 /\ calls[t] + left[t] <= Limit
    /\ pc[t] = "call" => left[t] >= 1 /\ calls[t] + left[t] <= Limit + 1
    /\ ran[t] # {} => calls[t] > 0

Used(t) ==
    /\ pool[t] \subseteq input[t].allowed
    /\ \A what \in ran[t] : Permitted(t, what)
    /\ pc[t] = "trace" => "raw" \in artifacts[t]

Awaiting(t) == reply[t] # "none" <=> pc[t] \in Awaits

IInv ==
    /\ ClientInv /\ Types
    /\ \A t \in Tasks : Stage(t) /\ Counted(t) /\ Used(t) /\ Awaiting(t)

\* A step of one task leaves the others as they are.
Alone(t) ==
    \A u \in Tasks \ {t} :
        /\ pc'[u] = pc[u] /\ input'[u] = input[u] /\ result'[u] = result[u]
        /\ pool'[u] = pool[u] /\ calls'[u] = calls[u] /\ left'[u] = left[u]
        /\ artifacts'[u] = artifacts[u] /\ ran'[u] = ran[u]
        /\ reply'[u] = "none" <=> reply[u] = "none"

\* A step of a task answers no request, keeps a result that was given, and succeeds with
\* the evidence stored.
Lawful(t) ==
    /\ \A u \in Tasks : answered'[u] \in {answered[u], NoRequest}
    /\ result[t] \in Final => result'[t] = result[t]
    /\ result[t] = "running" /\ result'[t] = "succeeded" =>
           "raw" \in artifacts'[t] /\ (ran[t] # {} => "trace" \in artifacts'[t])

\* What is to be shown of a step of a task.
StepDone(t) ==
    /\ ClientInv' /\ Types'
    /\ (Stage(t) /\ Counted(t) /\ Used(t) /\ Awaiting(t))'
    /\ Alone(t) /\ Lawful(t)

LEMMA Lift == ASSUME IInv, NEW t \in Tasks, StepDone(t) PROVE IInv'
<1> SUFFICES ASSUME NEW u \in Tasks, u # t
             PROVE  (Stage(u) /\ Counted(u) /\ Used(u) /\ Awaiting(u))'
  BY DEF IInv, StepDone
<1>1. Stage(u) /\ Counted(u) /\ Used(u) /\ Awaiting(u)
  BY DEF IInv
<1>2. Stage(u)'
  BY <1>1 DEF StepDone, Alone, Stage
<1>3. Counted(u)'
  BY <1>1 DEF StepDone, Alone, Counted
<1>4. Used(u)'
  BY <1>1 DEF StepDone, Alone, Used, Permitted
<1>5. Awaiting(u)'
  BY <1>1 DEF StepDone, Alone, Awaiting
<1>6. QED BY <1>2, <1>3, <1>4, <1>5

LEMMA IInvInit == Init => IInv
<1> SUFFICES ASSUME Init PROVE IInv
  OBVIOUS
<1> USE DEF Init
<1>1. ClientInv
  BY ClientInit
<1>2. Types
  <2>1. started \in BOOLEAN /\ definitions \in ProviderMayFind
    BY DEF ProviderMayFind
  <2>2. pc \in [Tasks -> Labels] /\ input \in [Tasks -> Inputs \cup {NoInput}]
    BY DEF Labels
  <2>3. result \in [Tasks -> Final \cup {"none", "running"}]
    OBVIOUS
  <2>4. pool \in [Tasks -> SUBSET Tools] /\ ran \in [Tasks -> SUBSET (Tools \cup Commands)]
    OBVIOUS
  <2>5. calls \in [Tasks -> Nat] /\ left \in [Tasks -> 0..MaxUses]
    OBVIOUS
  <2>6. artifacts \in [Tasks -> SUBSET {"raw", "trace"}]
    OBVIOUS
  <2>7. QED BY <2>1, <2>2, <2>3, <2>4, <2>5, <2>6 DEF Types
<1>3. ASSUME NEW t \in Tasks PROVE Stage(t) /\ Counted(t) /\ Used(t) /\ Awaiting(t)
  BY DEF Stage, Counted, Used, Awaiting, Awaits, McpInit, Limit, Final
<1>4. QED BY <1>1, <1>2, <1>3 DEF IInv

\* A step of a task that waits for nothing and does not call the client.
LEMMA Uncalled ==
    ASSUME IInv, NEW t \in Tasks, pc[t] \notin Awaits, UNCHANGED mcpVars
    PROVE  CallsDone(t, FALSE)
<1>1. ClientInv'
  BY DEF IInv, ClientInv, McpTypeOK, Matched, OrphanOnlyByLateExit, Waiting, RequestOf, mcpVars
<1>2. reply' = reply /\ answered' = answered /\ reply[t] = "none"
  BY DEF IInv, Awaiting, mcpVars
<1>3. QED BY <1>1, <1>2 DEF CallsDone

\* The executor ends, with an outcome or with an error.
LEMMA ConcludeDone ==
    ASSUME IInv, NEW t \in Tasks, pc[t] # "idle",
           NEW outcome \in {"succeeded", "failed", "blocked"}, Conclude(t, outcome),
           UNCHANGED <<input, definitions>>, started' \in BOOLEAN,
           artifacts' \in [Tasks -> SUBSET {"raw", "trace"}],
           \A u \in Tasks \ {t} : artifacts'[u] = artifacts[u],
           outcome = "succeeded" =>
               "raw" \in artifacts'[t] /\ (ran[t] # {} => "trace" \in artifacts'[t]),
           CallsDone(t, FALSE)
    PROVE  StepDone(t)
<1> USE DEF Conclude, NoLocals, Goto, CallsDone
<1>1. Types'
  <2> USE DEF IInv, Types
  <2>1. pc' \in [Tasks -> Labels] /\ input' \in [Tasks -> Inputs \cup {NoInput}]
    BY DEF Labels
  <2>2. result' \in [Tasks -> Final \cup {"none", "running"}]
    BY DEF Final
  <2>3. pool' \in [Tasks -> SUBSET Tools]
    OBVIOUS
  <2>4. ran' \in [Tasks -> SUBSET (Tools \cup Commands)]
    OBVIOUS
  <2>5. calls' \in [Tasks -> Nat] /\ left' \in [Tasks -> 0..MaxUses]
    OBVIOUS
  <2>6. QED BY <2>1, <2>2, <2>3, <2>4, <2>5
<1>2. Alone(t)
  BY DEF Alone, IInv, Types
<1>3. /\ pc'[t] = "done" /\ pool'[t] = {} /\ ran'[t] = {} /\ calls'[t] = 0
      /\ result'[t] = IF result[t] = "running" THEN outcome ELSE result[t]
  BY DEF IInv, Types
<1>4. Stage(t)'
  BY <1>3 DEF Stage, IInv
<1>5. Counted(t)'
  BY <1>3 DEF Counted, Limit
<1>6. Used(t)' /\ Awaiting(t)'
  BY <1>3 DEF Used, Awaiting, Awaits
<1>7. Lawful(t)
  BY <1>3 DEF Lawful, Final
<1>8. QED BY <1>1, <1>2, <1>4, <1>5, <1>6, <1>7 DEF StepDone

LEMMA ThrowDone ==
    ASSUME IInv, NEW t \in Tasks, pc[t] # "idle",
           NEW outcomes \in SUBSET ErrorOutcomes, Throw(t, outcomes),
           UNCHANGED definitions, started' \in BOOLEAN, CallsDone(t, FALSE)
    PROVE  StepDone(t)
<1>1. PICK outcome \in {"failed", "blocked"} : Conclude(t, outcome)
  BY DEF Throw, ErrorOutcomes
<1>2. artifacts' = artifacts /\ input' = input /\ artifacts \in [Tasks -> SUBSET {"raw", "trace"}]
  BY DEF Throw, IInv, Types
<1>3. QED BY <1>1, <1>2, ConcludeDone

-------------------------------------------------------------------------------
(* One lemma per action, or for those that are alike.                      *)

LEMMA BeginDone == ASSUME IInv, NEW t \in Tasks, Begin(t) PROVE StepDone(t)
<1>1. PICK i \in Inputs :
        /\ input' = [input EXCEPT ![t] = i]
        /\ IF Admitted(i)
           THEN Goto(t, "prompt") /\ result' = [result EXCEPT ![t] = "running"]
           ELSE Goto(t, "done") /\ result' = [result EXCEPT ![t] = "blocked"]
  BY DEF Begin
<1>2. UNCHANGED <<pool, calls, left, ran, artifacts, started, definitions>> /\ UNCHANGED mcpVars
  BY DEF Begin, locals, providerVars
<1>3. /\ pc[t] = "idle" /\ result[t] = "none"
      /\ pool[t] = {} /\ ran[t] = {} /\ calls[t] = 0
  BY DEF Begin, IInv, Stage
<1>4. CallsDone(t, FALSE)
  BY <1>2, <1>3, Uncalled DEF Awaits
<1>5. Types'
  BY <1>1, <1>2 DEF IInv, Types, Goto, Final, Labels
<1>6. Alone(t)
  BY <1>1, <1>2, <1>4 DEF Alone, Goto, IInv, Types, CallsDone
<1>7. /\ input'[t] = i /\ pool'[t] = {} /\ ran'[t] = {} /\ calls'[t] = 0
      /\ \/ Admitted(i) /\ pc'[t] = "prompt" /\ result'[t] = "running"
         \/ pc'[t] = "done" /\ result'[t] = "blocked"
  BY <1>1, <1>2, <1>3 DEF Goto, IInv, Types
<1>8. Stage(t)' /\ Counted(t)'
  BY <1>7 DEF Stage, Counted, Limit, Admitted, Final
<1>9. Used(t)' /\ Awaiting(t)'
  BY <1>4, <1>7 DEF Used, Awaiting, Awaits, CallsDone
<1>10. Lawful(t)
  BY <1>3, <1>4, <1>7 DEF Lawful, Final, CallsDone
<1>11. QED BY <1>4, <1>5, <1>6, <1>8, <1>9, <1>10 DEF StepDone, CallsDone

LEMMA TaskTimesOutDone == ASSUME IInv, NEW t \in Tasks, TaskTimesOut(t) PROVE StepDone(t)
<1>1. /\ result[t] = "running" /\ result' = [result EXCEPT ![t] = "timed_out"]
      /\ UNCHANGED <<pc, input, pool, calls, left, ran, artifacts, started, definitions>>
      /\ UNCHANGED mcpVars
  BY DEF TaskTimesOut, locals, providerVars
<1>2. ClientInv' /\ reply' = reply /\ answered' = answered
  BY <1>1 DEF IInv, ClientInv, McpTypeOK, Matched, OrphanOnlyByLateExit, Waiting, RequestOf, mcpVars
<1>3. Types'
  BY <1>1 DEF IInv, Types, Final
<1>4. Alone(t) /\ result'[t] = "timed_out"
  BY <1>1, <1>2 DEF Alone, IInv, Types
<1>5. Stage(t)' /\ Counted(t)' /\ Used(t)' /\ Awaiting(t)'
  BY <1>1, <1>2, <1>4 DEF IInv, Stage, Counted, Used, Permitted, Awaiting, Final
<1>6. Lawful(t)
  BY <1>1, <1>2, <1>4 DEF Lawful, Final
<1>7. QED BY <1>2, <1>3, <1>4, <1>5, <1>6 DEF StepDone

\* The task goes on to another step, with its locals as they are.
LEMMA MoveDone ==
    ASSUME IInv, NEW t \in Tasks, pc[t] \notin {"idle", "done"},
           NEW label \in {"connect", "list", "raw"}, Goto(t, label),
           UNCHANGED <<input, result, locals, artifacts, definitions>>, started' \in BOOLEAN,
           CallsDone(t, label \in Awaits)
    PROVE  StepDone(t)
<1> USE DEF Goto, locals
<1>1. Types' /\ pc'[t] = label
  BY DEF IInv, Types, Labels
<1>2. Alone(t)
  BY DEF Alone, IInv, Types, CallsDone
<1>3. Stage(t)' /\ Counted(t)' /\ Used(t)'
  BY <1>1 DEF IInv, Stage, Counted, Used, Permitted
<1>4. Awaiting(t)' /\ Lawful(t) /\ ClientInv'
  BY <1>1 DEF Awaiting, Lawful, CallsDone
<1>5. QED BY <1>1, <1>2, <1>3, <1>4 DEF StepDone

\* The model is offered what was found and is allowed.
LEMMA OfferDone ==
    ASSUME IInv, NEW t \in Tasks, pc[t] \in {"prompt", "connect", "list"},
           NEW found \in ProviderMayFind, Offer(t, found),
           definitions' \in ProviderMayFind, started' \in BOOLEAN, CallsDone(t, FALSE)
    PROVE  StepDone(t)
<1> USE DEF Offer, Goto
<1>1. AssembleToolPool(input[t], found) \subseteq Tools
      /\ AssembleToolPool(input[t], found) \subseteq input[t].allowed
  BY DEF AssembleToolPool, Tools, ProviderMayFind
<1>2. Types' /\ pc'[t] = "model" /\ pool'[t] = AssembleToolPool(input[t], found)
  <2>1. pool' \in [Tasks -> SUBSET Tools] /\ pool'[t] = AssembleToolPool(input[t], found)
    BY <1>1 DEF IInv, Types
  <2>2. pc' \in [Tasks -> Labels] /\ pc'[t] = "model"
    BY DEF IInv, Types, Labels
  <2>3. QED BY <2>1, <2>2 DEF IInv, Types
<1>3. Alone(t)
  BY DEF Alone, IInv, Types, CallsDone
<1>4. Stage(t)' /\ Counted(t)' /\ Used(t)'
  BY <1>1, <1>2 DEF IInv, Stage, Counted, Used, Permitted
<1>5. Awaiting(t)' /\ Lawful(t) /\ ClientInv'
  BY <1>2 DEF Awaiting, Awaits, Lawful, CallsDone
<1>6. QED BY <1>2, <1>3, <1>4, <1>5 DEF StepDone

LEMMA ListToolsDone ==
    ASSUME IInv, NEW t \in Tasks, pc[t] \in {"prompt", "connect"}, ~Waiting(t),
           ListToolsOfProvider(t), started' \in BOOLEAN
    PROVE  StepDone(t)
<1>1. UNCHANGED definitions /\ definitions \in ProviderMayFind
  BY DEF ListToolsOfProvider, IInv, Types
<1>2. CASE Ask(t) /\ Goto(t, "list") /\ UNCHANGED <<input, result, locals, artifacts>>
  <2>1. CallsDone(t, TRUE)
    BY <1>2, AskKeeps DEF IInv
  <2>2. CallsDone(t, "list" \in Awaits)
    BY <2>1 DEF Awaits, CallsDone
  <2>3. QED BY <1>1, <1>2, <2>2, MoveDone
<1>3. CASE Take(t) /\ Offer(t, definitions)
  <2>1. CallsDone(t, FALSE)
    BY <1>3, TakeKeeps DEF IInv
  <2>2. QED BY <1>1, <1>3, <2>1, OfferDone
<1>4. QED BY <1>2, <1>3 DEF ListToolsOfProvider

LEMMA AssembleDone == ASSUME IInv, NEW t \in Tasks, Assemble(t) PROVE StepDone(t)
<1>1. pc[t] = "prompt" /\ ~Waiting(t)
  BY DEF Assemble, IInv, Awaiting, Awaits, Waiting
<1>2. UNCHANGED mcpVars => CallsDone(t, FALSE)
  BY <1>1, Uncalled DEF Awaits
<1>3. started \in BOOLEAN /\ definitions \in ProviderMayFind /\ {} \in ProviderMayFind
  BY DEF IInv, Types, ProviderMayFind
<1>4. CASE Offer(t, {}) /\ UNCHANGED <<mcpVars, providerVars>>
  BY <1>1, <1>2, <1>3, <1>4, OfferDone DEF providerVars
<1>5. CASE started' = TRUE /\ ListToolsOfProvider(t)
  BY <1>1, <1>5, ListToolsDone
<1>6. CASE Throw(t, {"blocked"}) /\ UNCHANGED <<mcpVars, providerVars>>
  BY <1>1, <1>2, <1>3, <1>6, ThrowDone DEF providerVars, ErrorOutcomes
<1>7. CASE /\ Spawn(t) /\ Goto(t, "connect")
           /\ UNCHANGED <<input, result, locals, artifacts, providerVars>>
  <2>1. CallsDone(t, TRUE)
    BY <1>1, <1>7, SpawnKeeps DEF IInv
  <2>2. CallsDone(t, "connect" \in Awaits)
    BY <2>1 DEF Awaits, CallsDone
  <2>3. QED BY <1>1, <1>3, <1>7, <2>2, MoveDone DEF providerVars
<1>8. QED BY <1>4, <1>5, <1>6, <1>7 DEF Assemble

\* The answers of the server that come after a request of the provider.
LEMMA ConnectDone ==
    ASSUME IInv, NEW t \in Tasks, Connected(t) \/ ConnectFails(t)
    PROVE  StepDone(t)
<1>1. pc[t] = "connect" /\ ~Waiting(t) /\ started \in BOOLEAN
  BY DEF Connected, ConnectFails, Waiting, IInv, Types
<1>2. CASE Disconnect(t) /\ Throw(t, ErrorOutcomes) /\ UNCHANGED providerVars
  <2>1. CallsDone(t, FALSE)
    BY <1>1, <1>2, DisconnectKeeps DEF IInv
  <2>2. QED BY <1>1, <1>2, <2>1, ThrowDone DEF providerVars
<1>3. CASE started' = TRUE /\ ListToolsOfProvider(t)
  BY <1>1, <1>3, ListToolsDone
<1>4. QED BY <1>2, <1>3 DEF Connected, ConnectFails

LEMMA ListReturnsDone == ASSUME IInv, NEW t \in Tasks, ListReturns(t) PROVE StepDone(t)
<1>1. pc[t] = "list" /\ ~Waiting(t) /\ Take(t) /\ started' = started /\ started \in BOOLEAN
  BY DEF ListReturns, Settled, Waiting, IInv, Types
<1>2. CallsDone(t, FALSE)
  BY <1>1, TakeKeeps DEF IInv
<1>3. CASE reply[t] = "ok"
  <2>1. PICK found \in ProviderMayFind : definitions' = found /\ Offer(t, found)
    BY <1>3 DEF ListReturns
  <2>2. QED BY <1>1, <1>2, <2>1, OfferDone
<1>4. CASE reply[t] # "ok"
  <2>1. Throw(t, ErrorOutcomes) /\ UNCHANGED definitions
    BY <1>4 DEF ListReturns
  <2>2. QED BY <1>1, <1>2, <2>1, ThrowDone
<1>5. QED BY <1>3, <1>4

\* Errors of the prompt, of the model and of the evidence writer.
LEMMA ErrorDone ==
    ASSUME IInv, NEW t \in Tasks, PromptFails(t) \/ ModelFails(t) \/ WriteFails(t)
    PROVE  StepDone(t)
<1>1. pc[t] \in {"prompt", "model", "raw", "trace"} /\ UNCHANGED <<mcpVars, providerVars>>
  BY DEF PromptFails, ModelFails, WriteFails
<1>2. CallsDone(t, FALSE)
  BY <1>1, Uncalled DEF Awaits
<1>3. Throw(t, ErrorOutcomes) \/ Throw(t, {"failed"})
  BY DEF PromptFails, ModelFails, WriteFails
<1>4. UNCHANGED definitions /\ started' \in BOOLEAN
  BY <1>1 DEF providerVars, IInv, Types
<1>5. QED BY <1>1, <1>2, <1>3, <1>4, ThrowDone DEF ErrorOutcomes

LEMMA ModelConcludesDone == ASSUME IInv, NEW t \in Tasks, ModelConcludes(t) PROVE StepDone(t)
<1>1. pc[t] = "model" /\ UNCHANGED <<mcpVars, providerVars>>
  BY DEF ModelConcludes
<1>2. CallsDone(t, FALSE) /\ CallsDone(t, "raw" \in Awaits)
  BY <1>1, Uncalled DEF Awaits, CallsDone
<1>3. UNCHANGED definitions /\ started' \in BOOLEAN
  BY <1>1 DEF providerVars, IInv, Types
<1>4. CASE Throw(t, {"failed"})
  BY <1>1, <1>2, <1>3, <1>4, ThrowDone DEF ErrorOutcomes
<1>5. CASE Goto(t, "raw") /\ UNCHANGED <<input, result, locals, artifacts>>
  BY <1>1, <1>2, <1>3, <1>5, MoveDone
<1>6. QED BY <1>4, <1>5 DEF ModelConcludes

LEMMA ModelUsesToolsDone == ASSUME IInv, NEW t \in Tasks, ModelUsesTools(t) PROVE StepDone(t)
<1>1. pc[t] = "model" /\ UNCHANGED <<mcpVars, providerVars>>
  BY DEF ModelUsesTools
<1>2. CallsDone(t, FALSE)
  BY <1>1, Uncalled DEF Awaits
<1>3. UNCHANGED definitions /\ started' = started /\ started \in BOOLEAN
  BY <1>1 DEF providerVars, IInv, Types
<1>4. CASE calls[t] >= MaxToolCalls
  <2>1. Throw(t, {"failed"})
    BY <1>4 DEF ModelUsesTools
  <2>2. QED BY <1>1, <1>2, <1>3, <2>1, ThrowDone DEF ErrorOutcomes
<1>5. CASE ~(calls[t] >= MaxToolCalls)
  <2>1. PICK n \in 1..MaxUses : left' = [left EXCEPT ![t] = n]
    BY <1>5 DEF ModelUsesTools
  <2>2. Goto(t, "tools") /\ UNCHANGED <<input, result, pool, calls, artifacts, ran>>
    BY <1>5 DEF ModelUsesTools
  <2>3. Types' /\ pc'[t] = "tools" /\ left'[t] = n
    BY <1>3, <2>1, <2>2 DEF IInv, Types, Labels, Goto
  <2>4. Alone(t)
    BY <1>2, <2>1, <2>2 DEF Alone, IInv, Types, CallsDone, Goto
  <2>5. Counted(t)'
    <3>1. calls'[t] = calls[t] /\ calls[t] \in Nat /\ n \in Nat /\ n >= 1 /\ n <= MaxUses
      BY <2>2 DEF IInv, Types
    <3>2. calls[t] + n <= Limit /\ calls[t] <= Limit
      BY <1>5, <3>1 DEF Limit
    <3>3. QED BY <2>2, <2>3, <3>1, <3>2 DEF IInv, Counted
  <2>6. Stage(t)' /\ Used(t)'
    BY <1>1, <2>2, <2>3 DEF IInv, Stage, Used, Permitted
  <2>7. Awaiting(t)' /\ Lawful(t) /\ ClientInv'
    BY <1>2, <2>2, <2>3 DEF Awaiting, Awaits, Lawful, CallsDone
  <2>8. QED BY <2>3, <2>4, <2>5, <2>6, <2>7 DEF StepDone
<1>6. QED BY <1>4, <1>5

\* A tool use that is over with its call: one call more, one use fewer, and what was
\* executed for it is permitted.
LEMMA UseDone ==
    ASSUME IInv, NEW t \in Tasks, pc[t] = "tools", Called(t), ToolResult(t),
           NEW new \in SUBSET (Tools \cup Commands),
           \A what \in new : Permitted(t, what),
           ran' = [ran EXCEPT ![t] = @ \cup new],
           UNCHANGED <<input, result, pool, artifacts, mcpVars, providerVars>>
    PROVE  StepDone(t)
<1> USE DEF Called, ToolResult, Goto
<1>1. CallsDone(t, FALSE)
  BY Uncalled DEF Awaits
<1>2. /\ calls[t] \in Nat /\ left[t] \in Nat /\ left[t] >= 1 /\ left[t] <= MaxUses
      /\ calls[t] + left[t] <= Limit
  BY DEF IInv, Types, Counted
<1>3. left[t] - 1 \in 0..MaxUses /\ calls[t] + 1 \in Nat
  BY <1>2
<1>4. /\ calls' \in [Tasks -> Nat] /\ calls'[t] = calls[t] + 1
      /\ left' \in [Tasks -> 0..MaxUses] /\ left'[t] = left[t] - 1
  BY <1>3 DEF IInv, Types
<1>5. /\ pc' \in [Tasks -> Labels]
      /\ pc'[t] = IF left[t] = 1 THEN "model" ELSE "tools"
  BY DEF IInv, Types, Labels
<1>6. ran' \in [Tasks -> SUBSET (Tools \cup Commands)] /\ ran'[t] = ran[t] \cup new
  BY DEF IInv, Types
<1>7. Types'
  BY <1>4, <1>5, <1>6 DEF IInv, Types, providerVars
<1>8. Alone(t)
  BY <1>1 DEF Alone, IInv, Types, CallsDone
<1>9. Counted(t)'
  BY <1>2, <1>4, <1>5 DEF Counted, Limit
<1>10. Stage(t)' /\ Used(t)'
  BY <1>5, <1>6 DEF IInv, Stage, Used, Permitted
<1>11. Awaiting(t)' /\ Lawful(t) /\ ClientInv'
  BY <1>1, <1>5 DEF Awaiting, Awaits, Lawful, CallsDone
<1>12. QED BY <1>7, <1>8, <1>9, <1>10, <1>11 DEF StepDone

LEMMA UseUnknownDone == ASSUME IInv, NEW t \in Tasks, UseUnknown(t) PROVE StepDone(t)
<1>1. ran' = [ran EXCEPT ![t] = @ \cup {}]
  BY DEF UseUnknown, IInv, Types
<1>2. QED BY <1>1, UseDone DEF UseUnknown

LEMMA UseWorkspaceToolDone ==
    ASSUME IInv, NEW t \in Tasks, UseWorkspaceTool(t)
    PROVE  StepDone(t)
<1>1. PICK tool \in pool[t] \cap Builtins({"read_file", "list_files"}) :
        \/ Runs(t, tool) /\ Called(t) /\ ToolResult(t) /\ UNCHANGED <<result, pool>>
        \/ Conclude(t, "failed")
  BY DEF UseWorkspaceTool
<1>2. pc[t] = "tools" /\ UNCHANGED <<input, artifacts, mcpVars, providerVars>>
  BY DEF UseWorkspaceTool
<1>3. CASE Runs(t, tool) /\ Called(t) /\ ToolResult(t) /\ UNCHANGED <<result, pool>>
  <2>1. tool \in RuntimeBuiltins
    BY DEF RuntimeBuiltins, Builtins
  <2>2. tool \notin Commands /\ tool \in Tools
    BY <2>1 DEF Tools
  <2>3. Permitted(t, tool)
    BY <1>2, <2>2 DEF Permitted, IInv, Used, Stage
  <2>4. ran' = [ran EXCEPT ![t] = @ \cup {tool}]
    BY <1>3 DEF Runs
  <2>5. {tool} \in SUBSET (Tools \cup Commands) /\ \A what \in {tool} : Permitted(t, what)
    BY <2>2, <2>3
  <2>6. QED BY <1>2, <1>3, <2>4, <2>5, UseDone
<1>4. CASE Conclude(t, "failed")
  <2>1. CallsDone(t, FALSE)
    BY <1>2, Uncalled DEF Awaits
  <2>2. started' \in BOOLEAN /\ UNCHANGED definitions /\ artifacts \in [Tasks -> SUBSET {"raw", "trace"}]
    BY <1>2 DEF providerVars, IInv, Types
  <2>3. QED BY <1>2, <1>4, <2>1, <2>2, ConcludeDone
<1>5. QED BY <1>1, <1>3, <1>4

\* An allowlist entry is a sequence, so it is its own prefix of full length.
LEMMA AllowlistEntries ==
    ASSUME NEW profile \in DOMAIN CommandAllowlist, NEW a \in CommandAllowlist[profile]
    PROVE  SubSeq(a, 1, Len(a)) = a
<1>1. CommandAllowlist[profile] \subseteq ReadCommands \cup {<<"yq">>, <<"kustomize", "build">>}
  BY DEF CommandAllowlist
<1>2. a \in {<<"rg">>, <<"git", "diff">>, <<"git", "show">>, <<"git", "status">>, <<"yq">>,
             <<"kustomize", "build">>}
  BY <1>1 DEF ReadCommands
<1> DEFINE Words == {"rg", "git", "diff", "show", "status", "yq", "kustomize", "build"}
<1>3. a \in Seq(Words)
  <2>1. \A v \in Words : <<v>> \in Seq(Words)
    OBVIOUS
  <2>2. \A v, w \in Words : <<v, w>> \in Seq(Words)
    OBVIOUS
  <2>3. "rg" \in Words /\ "git" \in Words /\ "diff" \in Words /\ "show" \in Words
        /\ "status" \in Words /\ "yq" \in Words /\ "kustomize" \in Words /\ "build" \in Words
    OBVIOUS
  <2> HIDE DEF Words
  <2>4. QED BY <1>2, <2>1, <2>2, <2>3
<1>4. QED BY <1>3, SubSeqFull

\* A command that is executed is one the profile allows.
LEMMA CommandDone ==
    ASSUME IInv, NEW t \in Tasks, NEW command \in Commands,
           pc[t] = "tools", Builtin("run_command") \in pool[t], Called(t), ToolResult(t),
           IF IsCommandAllowed(input[t].profile, command) THEN Runs(t, command)
                                                          ELSE UNCHANGED ran,
           UNCHANGED <<input, result, pool, artifacts, mcpVars, providerVars>>
    PROVE  StepDone(t)
<1>3. CASE IsCommandAllowed(input[t].profile, command)
  <2>1. PICK a \in CommandAllowlist[input[t].profile] : IsPrefix(a, command.words)
    BY <1>3 DEF IsCommandAllowed
  <2>2. Len(a) <= Len(command.words) /\ SubSeq(a, 1, Len(a)) = SubSeq(command.words, 1, Len(a))
    BY <2>1 DEF IsPrefix
  <2>3. SubSeq(a, 1, Len(a)) = a
    BY <1>3, AllowlistEntries DEF IsCommandAllowed
  <2>4. Builtin("run_command") \in input[t].allowed
    BY DEF IInv, Used
  <2>5. Permitted(t, command)
    BY <2>2, <2>3, <2>4 DEF Permitted
  <2>6. ran' = [ran EXCEPT ![t] = @ \cup {command}]
    BY <1>3 DEF Runs
  <2>7. {command} \in SUBSET (Tools \cup Commands) /\ \A what \in {command} : Permitted(t, what)
    BY <2>5
  <2>8. QED BY <2>6, <2>7, UseDone
<1>4. CASE ~IsCommandAllowed(input[t].profile, command)
  <2>1. ran' = [ran EXCEPT ![t] = @ \cup {}]
    BY <1>4 DEF IInv, Types
  <2>2. QED BY <2>1, UseDone
<1>5. QED BY <1>3, <1>4

LEMMA UseRunCommandDone == ASSUME IInv, NEW t \in Tasks, UseRunCommand(t) PROVE StepDone(t)
<1>1. /\ pc[t] = "tools" /\ Builtin("run_command") \in pool[t]
      /\ UNCHANGED <<input, artifacts, mcpVars, providerVars>>
  BY DEF UseRunCommand
<1>2. CASE Conclude(t, "failed")
  <2>1. CallsDone(t, FALSE)
    BY <1>1, Uncalled DEF Awaits
  <2>2. started' \in BOOLEAN /\ UNCHANGED definitions /\ artifacts \in [Tasks -> SUBSET {"raw", "trace"}]
    BY <1>1 DEF providerVars, IInv, Types
  <2>3. QED BY <1>1, <1>2, <2>1, <2>2, ConcludeDone
<1>3. CASE ~Conclude(t, "failed")
  <2>1. /\ Called(t) /\ ToolResult(t) /\ UNCHANGED <<result, pool>>
        /\ \E command \in Commands :
             IF IsCommandAllowed(input[t].profile, command) THEN Runs(t, command)
                                                            ELSE UNCHANGED ran
    BY <1>3 DEF UseRunCommand
  <2>2. QED BY <1>1, <2>1, CommandDone
<1>4. QED BY <1>2, <1>3

\* The call is counted when it is made, the use when its answer is there.
LEMMA UseMcpToolDone == ASSUME IInv, NEW t \in Tasks, UseMcpTool(t) PROVE StepDone(t)
<1> USE DEF Called, Goto
<1>1. PICK tool \in pool[t] \cap McpTools : Runs(t, tool)
  BY DEF UseMcpTool
<1>2. /\ pc[t] = "tools" /\ Called(t) /\ Ask(t) /\ Goto(t, "call")
      /\ UNCHANGED <<input, result, pool, left, artifacts, providerVars>>
  BY DEF UseMcpTool
<1>3. CallsDone(t, TRUE)
  BY <1>2, AskKeeps DEF IInv, Awaiting, Awaits, Waiting
<1>4. /\ calls[t] \in Nat /\ left[t] \in Nat /\ left[t] >= 1
      /\ calls[t] + left[t] <= Limit
  BY <1>2 DEF IInv, Types, Counted
<1>5. calls' \in [Tasks -> Nat] /\ calls'[t] = calls[t] + 1
  BY <1>2 DEF IInv, Types
<1>6. pc' \in [Tasks -> Labels] /\ pc'[t] = "call"
  BY <1>2 DEF IInv, Types, Labels
<1>7. tool \notin Commands /\ tool \in Tools
  BY DEF Tools
<1>8. ran' \in [Tasks -> SUBSET (Tools \cup Commands)] /\ ran'[t] = ran[t] \cup {tool}
  BY <1>1, <1>7 DEF IInv, Types, Runs
<1>9. Types'
  BY <1>2, <1>5, <1>6, <1>8 DEF IInv, Types, providerVars
<1>10. Alone(t)
  BY <1>1, <1>2, <1>3 DEF Alone, IInv, Types, CallsDone, Runs
<1>11. Counted(t)'
  BY <1>2, <1>4, <1>5, <1>6 DEF Counted, Limit
<1>12. Permitted(t, tool)
  BY <1>2, <1>7 DEF Permitted, IInv, Used, Stage
<1>13. Stage(t)' /\ Used(t)'
  BY <1>2, <1>6, <1>8, <1>12 DEF IInv, Stage, Used, Permitted
<1>14. Awaiting(t)' /\ Lawful(t) /\ ClientInv'
  BY <1>2, <1>3, <1>6 DEF Awaiting, Awaits, Lawful, CallsDone
<1>15. QED BY <1>9, <1>10, <1>11, <1>13, <1>14 DEF StepDone

LEMMA McpToolReturnsDone ==
    ASSUME IInv, NEW t \in Tasks, McpToolReturns(t)
    PROVE  StepDone(t)
<1> USE DEF ToolResult, Goto
<1>1. /\ pc[t] = "call" /\ ~Waiting(t) /\ Take(t) /\ ToolResult(t)
      /\ UNCHANGED <<input, result, pool, calls, artifacts, ran, providerVars>>
  BY DEF McpToolReturns, Settled, Waiting
<1>2. CallsDone(t, FALSE)
  BY <1>1, TakeKeeps DEF IInv
<1>3. /\ calls[t] \in Nat /\ left[t] \in Nat /\ left[t] >= 1 /\ left[t] <= MaxUses
      /\ calls[t] + left[t] <= Limit + 1
  BY <1>1 DEF IInv, Types, Counted
<1>4. left' \in [Tasks -> 0..MaxUses] /\ left'[t] = left[t] - 1
  <2>1. left[t] - 1 \in 0..MaxUses
    BY <1>3
  <2>2. QED BY <1>1, <2>1 DEF IInv, Types
<1>5. /\ pc' \in [Tasks -> Labels]
      /\ pc'[t] = IF left[t] = 1 THEN "model" ELSE "tools"
  BY <1>1 DEF IInv, Types, Labels
<1>6. Types'
  BY <1>1, <1>4, <1>5 DEF IInv, Types, providerVars
<1>7. Alone(t)
  BY <1>1, <1>2 DEF Alone, IInv, Types, CallsDone
<1>8. Counted(t)'
  <2>1. calls'[t] = calls[t] /\ ran'[t] = ran[t] /\ (ran[t] # {} => calls[t] > 0)
    BY <1>1 DEF IInv, Counted
  <2>2. QED BY <1>3, <1>4, <1>5, <2>1 DEF Counted, Limit
<1>9. Stage(t)' /\ Used(t)'
  BY <1>1, <1>5 DEF IInv, Stage, Used, Permitted
<1>10. Awaiting(t)' /\ Lawful(t) /\ ClientInv'
  BY <1>1, <1>2, <1>5 DEF Awaiting, Awaits, Lawful, CallsDone
<1>11. QED BY <1>6, <1>7, <1>8, <1>9, <1>10 DEF StepDone

\* The evidence: a task without calls has executed nothing, so the raw answer is all of it.
LEMMA StoreDone == ASSUME IInv, NEW t \in Tasks, StoreRaw(t) \/ StoreTrace(t) PROVE StepDone(t)
<1>1. pc[t] \in {"raw", "trace"} /\ UNCHANGED <<input, mcpVars, providerVars>>
  BY DEF StoreRaw, StoreTrace
<1>2. CallsDone(t, FALSE)
  BY <1>1, Uncalled DEF Awaits
<1>3. UNCHANGED definitions /\ started' = started /\ started \in BOOLEAN
  BY <1>1 DEF providerVars, IInv, Types
<1>4. PICK what \in {"raw", "trace"} :
        /\ pc[t] = what
        /\ artifacts' = [artifacts EXCEPT ![t] = @ \cup {what}]
        /\ \/ what = "raw" /\ calls[t] > 0 /\ Goto(t, "trace") /\ UNCHANGED <<result, locals>>
           \/ (what = "raw" => ~(calls[t] > 0))
              /\ \E outcome \in Judged : Conclude(t, outcome)
  BY DEF StoreRaw, StoreTrace
<1>5. /\ artifacts' \in [Tasks -> SUBSET {"raw", "trace"}]
      /\ artifacts'[t] = artifacts[t] \cup {what}
      /\ \A u \in Tasks \ {t} : artifacts'[u] = artifacts[u]
  BY <1>4 DEF IInv, Types
<1>6. CASE what = "raw" /\ calls[t] > 0 /\ Goto(t, "trace") /\ UNCHANGED <<result, locals>>
  <2> USE DEF Goto, locals
  <2>1. Types' /\ pc'[t] = "trace"
    BY <1>1, <1>3, <1>5, <1>6 DEF IInv, Types, Labels
  <2>2. Alone(t)
    BY <1>1, <1>2, <1>5, <1>6 DEF Alone, IInv, Types, CallsDone
  <2>3. Stage(t)' /\ Counted(t)' /\ Used(t)'
    BY <1>1, <1>5, <1>6, <2>1 DEF IInv, Stage, Counted, Used, Permitted
  <2>4. Awaiting(t)' /\ Lawful(t) /\ ClientInv'
    BY <1>2, <1>6, <2>1 DEF Awaiting, Awaits, Lawful, CallsDone
  <2>5. QED BY <2>1, <2>2, <2>3, <2>4 DEF StepDone
<1>7. CASE (what = "raw" => ~(calls[t] > 0)) /\ \E outcome \in Judged : Conclude(t, outcome)
  <2>1. PICK outcome \in {"succeeded", "failed"} : Conclude(t, outcome)
    BY <1>7 DEF Judged
  <2>2. "raw" \in artifacts'[t] /\ (ran[t] # {} => "trace" \in artifacts'[t])
    BY <1>4, <1>5, <1>7 DEF IInv, Used, Counted
  <2>3. QED BY <1>1, <1>2, <1>3, <1>5, <2>1, <2>2, ConcludeDone
<1>8. QED BY <1>4, <1>6, <1>7

-------------------------------------------------------------------------------
(* The invariant and the properties.                                       *)

TaskStep(t) ==
    \/ Begin(t) \/ TaskTimesOut(t)
    \/ Assemble(t) \/ PromptFails(t) \/ Resume(t)
    \/ ModelFails(t) \/ ModelUsesTools(t) \/ ModelConcludes(t)
    \/ UseUnknown(t) \/ UseWorkspaceTool(t) \/ UseRunCommand(t) \/ UseMcpTool(t)
    \/ WriteFails(t) \/ StoreRaw(t) \/ StoreTrace(t)

LEMMA NextSteps ==
    Next <=> (\E t \in Tasks : TaskStep(t)) \/ ClientStep
BY DEF Next, TaskStep

LEMMA TaskStepDone == ASSUME IInv, NEW t \in Tasks, TaskStep(t) PROVE StepDone(t)
<1>1. CASE Begin(t) \/ TaskTimesOut(t) \/ Assemble(t)
  BY <1>1, BeginDone, TaskTimesOutDone, AssembleDone
<1>2. CASE PromptFails(t) \/ ModelFails(t) \/ WriteFails(t)
  BY <1>2, ErrorDone
<1>3. CASE Resume(t)
  BY <1>3, ConnectDone, ListReturnsDone, McpToolReturnsDone DEF Resume
<1>4. CASE ModelUsesTools(t) \/ ModelConcludes(t)
  BY <1>4, ModelUsesToolsDone, ModelConcludesDone
<1>5. CASE UseUnknown(t) \/ UseWorkspaceTool(t) \/ UseRunCommand(t) \/ UseMcpTool(t)
  BY <1>5, UseUnknownDone, UseWorkspaceToolDone, UseRunCommandDone, UseMcpToolDone
<1>6. CASE StoreRaw(t) \/ StoreTrace(t)
  BY <1>6, StoreDone
<1>7. QED BY <1>1, <1>2, <1>3, <1>4, <1>5, <1>6 DEF TaskStep

\* A callback of the client keeps the invariant and everything of the tasks.
LEMMA CallbackStep ==
    ASSUME IInv, ClientStep
    PROVE  IInv' /\ CallbackDone
<1>1. CallbackDone
  BY ClientStepKeeps DEF IInv
<1>2. Types'
  BY DEF IInv, Types, ClientStep, providerVars, taskVars
<1>3. ASSUME NEW t \in Tasks PROVE (Stage(t) /\ Counted(t) /\ Used(t) /\ Awaiting(t))'
  BY <1>1 DEF IInv, Stage, Counted, Used, Permitted, Awaiting, CallbackDone, ClientStep, taskVars
<1>4. QED BY <1>1, <1>2, <1>3 DEF IInv, CallbackDone

LEMMA IInvStep == IInv /\ [Next]_vars => IInv'
<1> SUFFICES ASSUME IInv, [Next]_vars PROVE IInv'
  OBVIOUS
<1>1. CASE \E t \in Tasks : TaskStep(t)
  BY <1>1, TaskStepDone, Lift
<1>2. CASE ClientStep
  BY <1>2, CallbackStep
<1>3. CASE UNCHANGED vars
  <2>1. ClientInv'
    BY <1>3 DEF IInv, ClientInv, McpTypeOK, Matched, OrphanOnlyByLateExit, Waiting, RequestOf, vars,
                mcpVars
  <2>2. Types'
    BY <1>3 DEF IInv, Types, vars, providerVars, taskVars
  <2>3. ASSUME NEW t \in Tasks PROVE (Stage(t) /\ Counted(t) /\ Used(t) /\ Awaiting(t))'
    BY <1>3 DEF IInv, Stage, Counted, Used, Permitted, Awaiting, vars, mcpVars, taskVars
  <2>4. QED BY <2>1, <2>2, <2>3 DEF IInv
<1>4. QED BY <1>1, <1>2, <1>3, NextSteps

\* IInv is an invariant: the other theorems rest on it.
THEOREM Inductive == Spec => []IInv
BY IInvInit, IInvStep, PTL DEF Spec

\* The types, and a task awaits the client exactly at the steps that made a request.
THEOREM TypeCorrect == Spec => []TypeOK
<1>1. IInv => TypeOK
  BY DEF IInv, ClientInv, Matched, Types, Used, Awaiting, Awaits, Labels, TypeOK
<1>2. QED BY <1>1, Inductive, PTL

\* A server that runs out of reach was cut loose by the exit of another one.
THEOREM OrphansAreLate == Spec => []OrphanOnlyByLateExit
<1>1. IInv => OrphanOnlyByLateExit
  BY DEF IInv, ClientInv
<1>2. QED BY <1>1, Inductive, PTL

\* What is executed for a task is permitted by its profile and its own list.
THEOREM PermittedTools == Spec => []OnlyPermittedToolsRun
<1>1. IInv => OnlyPermittedToolsRun
  BY DEF IInv, Used, Permitted, OnlyPermittedToolsRun
<1>2. QED BY <1>1, Inductive, PTL

\* The calls of a task overshoot the limit by at most the rest of one answer.
THEOREM CallsAreBounded == Spec => []ToolCallBound
<1>1. IInv => ToolCallBound
  BY DEF IInv, Counted, Limit, ToolCallBound
<1>2. QED BY <1>1, Inductive, PTL

\* A promise is settled by the answer to its own request, or by a request of the server's
\* own under the same number.
THEOREM AnswersMatch == Spec => OwnAnswer
<1>1. ASSUME IInv, [Next]_vars
      PROVE  [\A t \in Tasks :
                 \/ answered'[t] \in {answered[t], NoRequest, asked[t]}
                 \/ \E c \in Children : answered'[t] = ServersOwn(c)]_vars
  <2>1. CASE \E t \in Tasks : TaskStep(t)
    BY <1>1, <2>1, TaskStepDone DEF StepDone, Lawful
  <2>2. CASE ClientStep
    BY <1>1, <2>2, CallbackStep DEF CallbackDone, Rightly
  <2>3. QED BY <1>1, <2>1, <2>2, NextSteps
<1>2. QED BY <1>1, Inductive, PTL DEF Spec, OwnAnswer

\* A result that was given stands, and any other but a time-out means that the executor has
\* stopped.
THEOREM ResultsStand == Spec => ResultStands
<1>1. ASSUME IInv, [Next]_vars
      PROVE  [\A t \in Tasks :
                 /\ result[t] \in Final => result'[t] = result[t]
                 /\ result'[t] \in Final \ {"timed_out"} => pc'[t] = "done"]_vars
  <2>1. \A t \in Tasks : result'[t] \in Final \ {"timed_out"} => pc'[t] = "done"
    BY <1>1, IInvStep DEF IInv, Stage
  <2>2. CASE \E t \in Tasks : TaskStep(t)
    BY <1>1, <2>1, <2>2, TaskStepDone DEF StepDone, Lawful, Alone
  <2>3. CASE ClientStep
    BY <2>1, <2>3 DEF ClientStep, taskVars
  <2>4. QED BY <1>1, <2>2, <2>3, NextSteps
<1>2. QED BY <1>1, Inductive, PTL DEF Spec, ResultStands

\* A task succeeds with its evidence stored.
THEOREM EvidenceIsStored == Spec => SucceededHasEvidence
<1>1. ASSUME IInv, [Next]_vars
      PROVE  [\A t \in Tasks :
                 result[t] = "running" /\ result'[t] = "succeeded" =>
                     /\ "raw" \in artifacts'[t]
                     /\ ran[t] # {} => "trace" \in artifacts'[t]]_vars
  <2>1. CASE \E t \in Tasks : TaskStep(t)
    <3>1. PICK t \in Tasks : StepDone(t)
      BY <1>1, <2>1, TaskStepDone
    <3>2. ASSUME NEW u \in Tasks, result[u] = "running", result'[u] = "succeeded"
          PROVE  "raw" \in artifacts'[u] /\ (ran[u] # {} => "trace" \in artifacts'[u])
      <4>1. u = t
        BY <3>1, <3>2 DEF StepDone, Alone
      <4>2. QED BY <3>1, <3>2, <4>1 DEF StepDone, Lawful
    <3>3. QED BY <3>2
  <2>2. CASE ClientStep
    BY <2>2 DEF ClientStep, taskVars
  <2>3. QED BY <1>1, <2>1, <2>2, NextSteps
<1>2. QED BY <1>1, Inductive, PTL DEF Spec, SucceededHasEvidence
================================================================================
