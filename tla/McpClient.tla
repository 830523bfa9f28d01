------------------------------- MODULE McpClient -------------------------------
(***************************************************************************)
(* StdioMcpClient: one JSON-RPC connection to an MCP server that runs as a *)
(* child process, shared by all tasks of a runtime.  Every action below is *)
(* one callback of the event loop or the synchronous part of a call; the   *)
(* promises it settles run before the next callback, which is what Quiet   *)
(* says.  The server is external: it may answer in any order, not at all,  *)
(* with garbage, or exit, and a killed one takes its time to exit.         *)
(***************************************************************************)
EXTENDS Naturals, FiniteSets

CONSTANTS Tasks,        \* the tasks that share the client
          MaxChildren,  \* bound: server processes spawned
          MaxMcpFaults  \* bound: exits, spawn errors, malformed output and own requests of servers

ASSUME McpAssumption ==
    /\ MaxChildren \in Nat \ {0}
    /\ MaxMcpFaults \in Nat

VARIABLES child,    \* this.child, 0 when undefined
          proc,     \* the server processes
          closing, nextId, pending,
          buffer,   \* stdoutBuffer: "clean", "partial" (bytes of a dead server), "bad" (no header)
          wire,     \* requests a server has not answered
          reply,    \* the promise of the request each task awaits
          mcpFaults

\* What the promise was settled with, for stating properties: no action reads these.
VARIABLES asked,    \* the request each task has last made
          answered, \* the request whose answer settled it, or a request of the server's own
          cutLoose  \* servers the exit of another one made the client forget

mcpVars == <<child, proc, closing, nextId, pending, buffer, wire, reply, mcpFaults,
             asked, answered, cutLoose>>

Children == 1..MaxChildren
NoRequest == [child |-> 0, id |-> 0]
ServersOwn(c) == [child |-> c, id |-> 0]

McpInit ==
    /\ child = 0
    /\ proc = [c \in Children |-> "unborn"]
    /\ closing = FALSE
    /\ nextId = 1
    /\ pending = {}
    /\ buffer = "clean"
    /\ wire = {}
    /\ reply = [t \in Tasks |-> "none"]
    /\ mcpFaults = 0
    /\ asked = [t \in Tasks |-> NoRequest]
    /\ answered = [t \in Tasks |-> NoRequest]
    /\ cutLoose = {}

Settled(t) == reply[t] \in {"ok", "fail"}
Quiet == \A t \in Tasks : ~Settled(t)
Waiting(t) == reply[t] = "waiting"

McpFault == mcpFaults < MaxMcpFaults /\ mcpFaults' = mcpFaults + 1

-------------------------------------------------------------------------------
(* Calls of the client.  They are made from actions of a task.             *)

Request(t, c, id) == [task |-> t, child |-> c, id |-> id]

\* Mutant of Send: a write that throws leaves the promise unsettled.
SendUnsettled(t, c) ==
    /\ nextId' = nextId + 1
    /\ asked' = [asked EXCEPT ![t] = [child |-> c, id |-> nextId]]
    /\ answered' = [answered EXCEPT ![t] = NoRequest]
    /\ reply' = [reply EXCEPT ![t] = "waiting"]
    /\ pending' = IF c = 0 THEN pending ELSE pending \cup {Request(t, c, nextId)}
    /\ wire' = IF c = 0 THEN wire ELSE wire \cup {[child |-> c, id |-> nextId]}

\* request(): registers the id and its timer, then writes; without a child the write
\* throws and the promise is rejected at once.  A write to a server that has closed its
\* stdin (EPIPE) is not modelled: nothing listens to "error" there, so it ends the process.
Send(t, c) ==
    /\ nextId' = nextId + 1
    /\ asked' = [asked EXCEPT ![t] = [child |-> c, id |-> nextId]]
    /\ answered' = [answered EXCEPT ![t] = NoRequest]
    /\ reply' = [reply EXCEPT ![t] = IF c = 0 THEN "fail" ELSE "waiting"]
    /\ pending' = IF c = 0 THEN pending ELSE pending \cup {Request(t, c, nextId)}
    /\ wire' = IF c = 0 THEN wire ELSE wire \cup {[child |-> c, id |-> nextId]}

\* callTool, listTools: a request to the current child.
Ask(t) ==
    /\ Send(t, child)
    /\ UNCHANGED <<child, proc, closing, buffer, mcpFaults, cutLoose>>

Unborn == {c \in Children : proc[c] = "unborn"}
NewChild == CHOOSE c \in Unborn : TRUE

\* Mutant of Spawn: every connection counts its requests from one.
SpawnResettingIds(t) ==
    /\ child = 0 /\ Unborn # {}
    /\ closing' = FALSE
    /\ child' = NewChild
    /\ proc' = [proc EXCEPT ![NewChild] = "running"]
    /\ nextId' = 2
    /\ asked' = [asked EXCEPT ![t] = [child |-> NewChild, id |-> 1]]
    /\ answered' = [answered EXCEPT ![t] = NoRequest]
    /\ reply' = [reply EXCEPT ![t] = "waiting"]
    /\ pending' = {p \in pending : p.id # 1} \cup {Request(t, NewChild, 1)}
    /\ wire' = wire \cup {[child |-> NewChild, id |-> 1]}
    /\ UNCHANGED <<buffer, mcpFaults, cutLoose>>

\* connect() without a child: spawn, then request "initialize".
Spawn(t) ==
    /\ child = 0 /\ Unborn # {}
    /\ closing' = FALSE
    /\ child' = NewChild
    /\ proc' = [proc EXCEPT ![NewChild] = "running"]
    /\ Send(t, NewChild)
    /\ UNCHANGED <<buffer, mcpFaults, cutLoose>>

\* A task takes the outcome of its request and has nothing to wait for.
Forget(t) ==
    /\ asked' = [asked EXCEPT ![t] = NoRequest]
    /\ answered' = [answered EXCEPT ![t] = NoRequest]
Take(t) ==
    /\ reply' = [reply EXCEPT ![t] = "none"]
    /\ Forget(t)
    /\ UNCHANGED <<child, proc, closing, nextId, pending, buffer, wire, mcpFaults, cutLoose>>

\* Mutant of FailedBy: the other requests are dropped without an answer.
FailedByNobody(t) == [reply EXCEPT ![t] = "none"]

\* failAll, on the promises other than that of the task that calls it.
FailedBy(t) ==
    [u \in Tasks |-> IF u = t THEN "none"
                     ELSE IF \E p \in pending : p.task = u THEN "fail" ELSE reply[u]]

\* Mutant of Disconnect: the child is forgotten and not killed.
DisconnectLeavesRunning(t) ==
    IF child = 0 THEN Take(t)
    ELSE /\ closing' = TRUE
         /\ reply' = FailedBy(t)
         /\ pending' = {}
         /\ child' = 0
         /\ buffer' = "clean"
         /\ Forget(t)
         /\ UNCHANGED <<proc, nextId, wire, mcpFaults, cutLoose>>

\* disconnect() after the initialize request of t has failed.
Disconnect(t) ==
    IF child = 0 THEN Take(t)
    ELSE /\ closing' = TRUE
         /\ reply' = FailedBy(t)
         /\ pending' = {}
         /\ proc' = [proc EXCEPT ![child] = IF @ = "running" THEN "killed" ELSE @]
         /\ child' = 0
         /\ buffer' = "clean"
         /\ Forget(t)
         /\ UNCHANGED <<nextId, wire, mcpFaults, cutLoose>>

-------------------------------------------------------------------------------
(* Callbacks.                                                              *)

FailAll ==
    /\ reply' = [t \in Tasks |-> IF \E p \in pending : p.task = t THEN "fail" ELSE reply[t]]
    /\ pending' = {}

\* handleMessage: the pending request with the id of the answer, if there is one.
HandleMessage(r) ==
    IF \E p \in pending : p.id = r.id
    THEN \E p \in pending :
           /\ p.id = r.id
           /\ pending' = pending \ {p}
           /\ \E outcome \in {"ok", "fail"} : reply' = [reply EXCEPT ![p.task] = outcome]
           /\ answered' = [answered EXCEPT ![p.task] = r]
    ELSE UNCHANGED <<pending, reply, answered>>

\* A complete message arrives on the stdout of a server, current or not: the listeners of
\* an old child stay.  Behind bytes of a dead server it has no header of its own.
Answer(r) ==
    /\ Quiet
    /\ r \in wire /\ proc[r.child] \in {"running", "killed"}
    /\ wire' = wire \ {r}
    /\ IF buffer = "clean"
       THEN HandleMessage(r) /\ UNCHANGED buffer
       ELSE buffer' = "bad" /\ FailAll /\ UNCHANGED answered
    /\ UNCHANGED <<child, proc, closing, nextId, mcpFaults, asked, cutLoose>>

\* A header without Content-Length stays at the front of the buffer; a body that is not
\* JSON has been taken off it.
Malformed(c) ==
    /\ Quiet /\ McpFault
    /\ proc[c] = "running"
    /\ FailAll
    /\ buffer' \in {buffer, "bad"}
    /\ UNCHANGED <<child, proc, closing, nextId, wire, asked, answered, cutLoose>>

\* A server sends a request of its own under the number of a pending one (a number that is
\* not pending is ignored): the client looks at the number alone and takes it for an answer,
\* one that has no result.
ServerAsks(c, p, outcome) ==
    /\ Quiet /\ McpFault
    /\ proc[c] \in {"running", "killed"} /\ buffer = "clean"
    /\ pending' = pending \ {p}
    /\ reply' = [reply EXCEPT ![p.task] = outcome]
    /\ answered' = [answered EXCEPT ![p.task] = ServersOwn(c)]
    /\ UNCHANGED <<child, proc, closing, nextId, buffer, wire, asked, cutLoose>>

RequestTimesOut(t) ==
    /\ Quiet
    /\ \E p \in pending :
         /\ p.task = t
         /\ pending' = pending \ {p}
    /\ reply' = [reply EXCEPT ![t] = "fail"]
    /\ UNCHANGED <<child, proc, closing, nextId, buffer, wire, mcpFaults, asked, answered, cutLoose>>

\* The exit listener clears this.child whichever child has exited.
Exit(c) ==
    /\ proc' = [proc EXCEPT ![c] = "gone"]
    /\ wire' = {r \in wire : r.child # c}
    /\ IF closing THEN UNCHANGED <<reply, pending>> ELSE FailAll
    /\ child' = 0
    /\ cutLoose' = IF child \in {0, c} THEN cutLoose ELSE cutLoose \cup {child}
    /\ UNCHANGED <<closing, nextId, asked, answered>>

KilledExits(c) ==
    /\ Quiet /\ proc[c] = "killed"
    /\ Exit(c)
    /\ UNCHANGED <<buffer, mcpFaults>>

\* A server may die in the middle of a message.
Dies(c) ==
    /\ Quiet /\ proc[c] = "running" /\ McpFault
    /\ Exit(c)
    /\ buffer' \in {buffer, "partial"}

\* "error" without "exit": the command could not be spawned.  The child stays set.
SpawnFails(c) ==
    /\ Quiet /\ child = c /\ proc[c] = "running" /\ McpFault
    /\ [child |-> c, id |-> nextId - 1] \in wire
    /\ FailAll
    /\ proc' = [proc EXCEPT ![c] = "gone"]
    /\ wire' = {r \in wire : r.child # c}
    /\ UNCHANGED <<child, closing, nextId, buffer, asked, answered, cutLoose>>

Callback ==
    \/ \E r \in wire : Answer(r)
    \/ \E c \in Children : Malformed(c) \/ KilledExits(c) \/ Dies(c) \/ SpawnFails(c)
    \/ \E t \in Tasks : RequestTimesOut(t)

McpTypeOK ==
    /\ child \in 0..MaxChildren
    /\ proc \in [Children -> {"unborn", "running", "killed", "gone"}]
    /\ closing \in BOOLEAN
    /\ nextId \in Nat \ {0}
    /\ pending \subseteq [task : Tasks, child : Children, id : 1..(nextId - 1)]
    /\ buffer \in {"clean", "partial", "bad"}
    /\ wire \subseteq [child : Children, id : 1..(nextId - 1)]
    /\ reply \in [Tasks -> {"none", "waiting", "ok", "fail"}]
    /\ asked \in [Tasks -> [child : 0..MaxChildren, id : Nat]]
    /\ answered \in [Tasks -> [child : 0..MaxChildren, id : Nat]]
    /\ cutLoose \subseteq Children
================================================================================
