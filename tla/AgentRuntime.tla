----------------------------- MODULE AgentRuntime -----------------------------
(***************************************************************************)
(* PolicyCheckedAgentRuntime with the code-task executor: the tasks of one *)
(* process, the model they talk to, the pool of tools each of them was     *)
(* offered, and the MCP provider all of them share.  The caller starts a   *)
(* task when the former one has a result; an executor that lost the race   *)
(* with its timer goes on working.                                         *)
(***************************************************************************)
EXTENDS McpClient, ToolPolicy

CONSTANTS Inputs,       \* [capable, profile, allowed, environment] of a task
          McpServer,    \* server_name of the provider
          McpTools,     \* the tools the server may list
          Commands,     \* what the model may write into a run_command call
          EnvComplete,  \* the required_env of the server is set
          MaxToolCalls, \* runtime_policy.max_tool_calls
          MaxUses       \* bound: tool_use blocks in one answer of the model

ASSUME RuntimeAssumption ==
    /\ EnvComplete \in BOOLEAN
    /\ MaxToolCalls \in Nat /\ MaxUses \in Nat \ {0}
    /\ Commands \cap (RuntimeBuiltins \cup McpTools) = {}

VARIABLES started, definitions,   \* ManagedMcpToolProvider
          pc, input, result, pool, calls, left, artifacts

\* What a working executor has executed, for stating properties: no action reads it.
VARIABLE ran

providerVars == <<started, definitions>>
taskVars == <<pc, input, result, pool, calls, left, artifacts, ran>>
vars == <<mcpVars, providerVars, taskVars>>

Final == {"succeeded", "failed", "blocked", "timed_out"}
NoInput == [capable |-> FALSE, allowed |-> {}]
ProviderMayFind == {{}, McpTools}

Init ==
    /\ McpInit
    /\ started = FALSE /\ definitions = {}
    /\ pc = [t \in Tasks |-> "idle"]
    /\ input = [t \in Tasks |-> NoInput]
    /\ result = [t \in Tasks |-> "none"]
    /\ pool = [t \in Tasks |-> {}]
    /\ calls = [t \in Tasks |-> 0]
    /\ left = [t \in Tasks |-> 0]
    /\ artifacts = [t \in Tasks |-> {}]
    /\ ran = [t \in Tasks |-> {}]

Goto(t, label) == pc' = [pc EXCEPT ![t] = label]

\* The locals of the executor: the tools it offered, the calls it has made and the tool
\* uses of the last answer it has not come to.
NoLocals(t) ==
    /\ pool' = [pool EXCEPT ![t] = {}]
    /\ calls' = [calls EXCEPT ![t] = 0]
    /\ left' = [left EXCEPT ![t] = 0]
    /\ ran' = [ran EXCEPT ![t] = {}]
locals == <<pool, calls, left, ran>>

\* Mutant of Conclude: the outcome of the executor wins whenever it comes.
ConcludeLate(t, outcome) ==
    /\ result' = [result EXCEPT ![t] = outcome]
    /\ Goto(t, "done") /\ NoLocals(t)

\* The executor returns: its outcome counts if the timer has not won the race.
Conclude(t, outcome) ==
    /\ result' = [result EXCEPT ![t] = IF @ = "running" THEN outcome ELSE @]
    /\ Goto(t, "done") /\ NoLocals(t)

\* normalizeRuntimeError: an error that is about authentication blocks the task.
ErrorOutcomes == {"blocked", "failed"}
Throw(t, outcomes) ==
    /\ \E outcome \in outcomes : Conclude(t, outcome)
    /\ UNCHANGED <<input, artifacts>>

-------------------------------------------------------------------------------
(* PolicyCheckedAgentRuntime.run                                           *)

Admitted(i) == i.capable /\ CheckTaskPermissions(i) = {}

Begin(t) ==
    /\ Quiet
    /\ pc[t] = "idle" /\ \A u \in Tasks : result[u] # "running"
    /\ \E i \in Inputs :
         /\ input' = [input EXCEPT ![t] = i]
         /\ IF Admitted(i)
            THEN Goto(t, "prompt") /\ result' = [result EXCEPT ![t] = "running"]
            ELSE Goto(t, "done") /\ result' = [result EXCEPT ![t] = "blocked"]
    /\ UNCHANGED <<locals, artifacts, mcpVars, providerVars>>

\* Mutant of TaskTimesOut: the timer is cleared when the first tool is called.
TaskTimesOutBeforeTools(t) ==
    /\ Quiet
    /\ result[t] = "running" /\ calls[t] = 0
    /\ result' = [result EXCEPT ![t] = "timed_out"]
    /\ UNCHANGED <<pc, input, locals, artifacts, mcpVars, providerVars>>

\* withTimeout: the result is settled, the executor is not stopped.
TaskTimesOut(t) ==
    /\ Quiet
    /\ result[t] = "running"
    /\ result' = [result EXCEPT ![t] = "timed_out"]
    /\ UNCHANGED <<pc, input, locals, artifacts, mcpVars, providerVars>>

-------------------------------------------------------------------------------
(* The tool pool: assembleToolPool over the provider of the MCP server.    *)

Offer(t, found) ==
    /\ pool' = [pool EXCEPT ![t] = AssembleToolPool(input[t], found)]
    /\ Goto(t, "model")
    /\ UNCHANGED <<input, result, calls, left, artifacts, ran>>

\* listTools of a provider that is started: cached definitions serve until they are older
\* than the refresh interval, which they may be at any call.
ListToolsOfProvider(t) ==
    /\ \/ /\ Ask(t)
          /\ Goto(t, "list")
          /\ UNCHANGED <<input, result, locals, artifacts>>
       \/ definitions # {} /\ Take(t) /\ Offer(t, definitions)
    /\ UNCHANGED definitions

\* buildPrompt and assembleToolPool, up to the first answer they wait for.  connect()
\* returns at once when a child is there, whether or not it has been initialized.
Assemble(t) ==
    /\ Quiet
    /\ pc[t] = "prompt"
    /\ IF ~ShouldStartForAllowedTools(input[t], McpServer)
       THEN Offer(t, {}) /\ UNCHANGED <<mcpVars, providerVars>>
       ELSE IF started \/ (EnvComplete /\ child # 0)
       THEN started' = TRUE /\ ListToolsOfProvider(t)
       ELSE IF ~EnvComplete
       THEN Throw(t, {"blocked"}) /\ UNCHANGED <<mcpVars, providerVars>>
       ELSE /\ Spawn(t)
            /\ Goto(t, "connect")
            /\ UNCHANGED <<input, result, locals, artifacts, providerVars>>

PromptFails(t) ==
    /\ Quiet
    /\ pc[t] = "prompt"
    /\ Throw(t, {"failed"})
    /\ UNCHANGED <<mcpVars, providerVars>>

\* initialize was answered: the notification is written and throws when the child is gone.
Connected(t) ==
    /\ pc[t] = "connect" /\ reply[t] = "ok"
    /\ IF child = 0
       THEN Disconnect(t) /\ Throw(t, ErrorOutcomes) /\ UNCHANGED providerVars
       ELSE started' = TRUE /\ ListToolsOfProvider(t)

ConnectFails(t) ==
    /\ pc[t] = "connect" /\ reply[t] = "fail"
    /\ Disconnect(t)
    /\ Throw(t, ErrorOutcomes)
    /\ UNCHANGED providerVars

ListReturns(t) ==
    /\ pc[t] = "list" /\ Settled(t)
    /\ Take(t)
    /\ IF reply[t] = "ok"
       THEN \E found \in ProviderMayFind :
              /\ definitions' = found
              /\ Offer(t, found)
       ELSE Throw(t, ErrorOutcomes) /\ UNCHANGED definitions
    /\ UNCHANGED started

-------------------------------------------------------------------------------
(* The loop of the executor: the model answers with tool uses or with the  *)
(* result, every use is one call.                                          *)

ModelFails(t) ==
    /\ Quiet
    /\ pc[t] = "model"
    /\ Throw(t, ErrorOutcomes)
    /\ UNCHANGED <<mcpVars, providerVars>>

\* Mutant of ModelUsesTools: the calls made are not compared with the limit.
ModelUsesToolsUnlimited(t) ==
    /\ Quiet
    /\ pc[t] = "model" /\ calls[t] <= MaxToolCalls + MaxUses
    /\ \E n \in 1..MaxUses : left' = [left EXCEPT ![t] = n] /\ Goto(t, "tools")
    /\ UNCHANGED <<input, result, pool, calls, artifacts, ran, mcpVars, providerVars>>

\* The limit is compared before the uses of one answer, not between them.
ModelUsesTools(t) ==
    /\ Quiet
    /\ pc[t] = "model"
    /\ IF calls[t] >= MaxToolCalls
       THEN Throw(t, {"failed"})
       ELSE /\ \E n \in 1..MaxUses : left' = [left EXCEPT ![t] = n]
            /\ Goto(t, "tools")
            /\ UNCHANGED <<input, result, pool, calls, artifacts, ran>>
    /\ UNCHANGED <<mcpVars, providerVars>>

\* Text that is not JSON, or a schema that cannot be loaded, ends the task before anything
\* is stored.
ModelConcludes(t) ==
    /\ Quiet
    /\ pc[t] = "model"
    /\ \/ Throw(t, {"failed"})
       \/ Goto(t, "raw") /\ UNCHANGED <<input, result, locals, artifacts>>
    /\ UNCHANGED <<mcpVars, providerVars>>

\* The tool_result is there; after the last one of an answer the model is asked again.
ToolResult(t) ==
    /\ left' = [left EXCEPT ![t] = @ - 1]
    /\ Goto(t, IF left[t] = 1 THEN "model" ELSE "tools")

Runs(t, what) == ran' = [ran EXCEPT ![t] = @ \cup {what}]
Called(t) == calls' = [calls EXCEPT ![t] = @ + 1]

\* A name the pool does not have is answered with an error and counted.
UseUnknown(t) ==
    /\ pc[t] = "tools"
    /\ \E tool \in RuntimeBuiltins \cup McpTools : tool \notin pool[t]
    /\ Called(t) /\ ToolResult(t)
    /\ UNCHANGED <<input, result, pool, artifacts, ran, mcpVars, providerVars>>

\* read_file and list_files: blocked outside the workspace, and an error of the file
\* system ends the whole task.
UseWorkspaceTool(t) ==
    /\ pc[t] = "tools"
    /\ \E tool \in pool[t] \cap Builtins({"read_file", "list_files"}) :
         \/ Runs(t, tool) /\ Called(t) /\ ToolResult(t) /\ UNCHANGED <<result, pool>>
         \/ Conclude(t, "failed")
    /\ UNCHANGED <<input, artifacts, mcpVars, providerVars>>

\* run_command executes what the profile allows and turns a failure into a result.  A
\* command that is not a string is different: the permission check trims it outside of the
\* try block, and the TypeError ends the whole task.
UseRunCommand(t) ==
    /\ pc[t] = "tools" /\ Builtin("run_command") \in pool[t]
    /\ \/ /\ Called(t)
          /\ \E command \in Commands :
               IF IsCommandAllowed(input[t].profile, command) THEN Runs(t, command)
                                                              ELSE UNCHANGED ran
          /\ ToolResult(t)
          /\ UNCHANGED <<result, pool>>
       \/ Conclude(t, "failed")
    /\ UNCHANGED <<input, artifacts, mcpVars, providerVars>>

UseMcpTool(t) ==
    /\ pc[t] = "tools"
    /\ \E tool \in pool[t] \cap McpTools : Runs(t, tool)
    /\ Called(t)
    /\ Ask(t)
    /\ Goto(t, "call")
    /\ UNCHANGED <<input, result, pool, left, artifacts, providerVars>>

\* toCoreTool.call turns every error into a tool result.
McpToolReturns(t) ==
    /\ pc[t] = "call" /\ Settled(t)
    /\ Take(t)
    /\ ToolResult(t)
    /\ UNCHANGED <<input, result, pool, calls, artifacts, ran, providerVars>>

-------------------------------------------------------------------------------
(* Evidence and result.                                                    *)

Judged == {"succeeded", "failed"}

WriteFails(t) ==
    /\ Quiet
    /\ pc[t] \in {"raw", "trace"}
    /\ Throw(t, {"failed"})
    /\ UNCHANGED <<mcpVars, providerVars>>

\* Mutant of StoreRaw: the task is over once the answer of the model is stored.
StoreRawOnly(t) ==
    /\ Quiet
    /\ pc[t] = "raw"
    /\ artifacts' = [artifacts EXCEPT ![t] = @ \cup {"raw"}]
    /\ \E outcome \in Judged : Conclude(t, outcome)
    /\ UNCHANGED <<input, mcpVars, providerVars>>

\* The raw answer is stored first; the trace follows when a tool was called.
StoreRaw(t) ==
    /\ Quiet
    /\ pc[t] = "raw"
    /\ artifacts' = [artifacts EXCEPT ![t] = @ \cup {"raw"}]
    /\ IF calls[t] > 0 THEN Goto(t, "trace") /\ UNCHANGED <<result, locals>>
                       ELSE \E outcome \in Judged : Conclude(t, outcome)
    /\ UNCHANGED <<input, mcpVars, providerVars>>

StoreTrace(t) ==
    /\ Quiet
    /\ pc[t] = "trace"
    /\ artifacts' = [artifacts EXCEPT ![t] = @ \cup {"trace"}]
    /\ \E outcome \in Judged : Conclude(t, outcome)
    /\ UNCHANGED <<input, mcpVars, providerVars>>

-------------------------------------------------------------------------------
\* What is taken for an answer has no result: connect() does not look at it, listTools and
\* callTool throw on it.
TakenForAnswer ==
    \E c \in Children, p \in pending :
        ServerAsks(c, p, IF pc[p.task] = "connect" THEN "ok" ELSE "fail")
ClientStep == (Callback \/ TakenForAnswer) /\ UNCHANGED <<providerVars, taskVars>>

Resume(t) == Connected(t) \/ ConnectFails(t) \/ ListReturns(t) \/ McpToolReturns(t)

Next ==
    \/ \E t \in Tasks :
         \/ Begin(t) \/ TaskTimesOut(t)
         \/ Assemble(t) \/ PromptFails(t) \/ Resume(t)
         \/ ModelFails(t) \/ ModelUsesTools(t) \/ ModelConcludes(t)
         \/ UseUnknown(t) \/ UseWorkspaceTool(t) \/ UseRunCommand(t) \/ UseMcpTool(t)
         \/ WriteFails(t) \/ StoreRaw(t) \/ StoreTrace(t)
    \/ ClientStep

Spec == Init /\ [][Next]_vars

\* The event loop runs: settled promises are resumed and due timers fire.  Nothing is
\* assumed of the model, of the tools or of the server.
Fairness ==
    \A t \in Tasks :
        /\ WF_vars(Resume(t))
        /\ WF_vars(RequestTimesOut(t) /\ UNCHANGED <<providerVars, taskVars>>)
        /\ WF_vars(TaskTimesOut(t))
FairSpec == Spec /\ Fairness

-------------------------------------------------------------------------------
\* Types, and the two sides of a request: a task that waits for the server is at a step
\* that does, and nothing else is settled or pending.
TypeOK ==
    /\ McpTypeOK
    /\ started \in BOOLEAN
    /\ definitions \in ProviderMayFind
    /\ input \in [Tasks -> Inputs \cup {NoInput}]
    /\ result \in [Tasks -> Final \cup {"none", "running"}]
    /\ \A t \in Tasks : pool[t] \subseteq input[t].allowed
    /\ calls \in [Tasks -> Nat] /\ left \in [Tasks -> 0..MaxUses]
    /\ artifacts \in [Tasks -> SUBSET {"raw", "trace"}]
    /\ \A t \in Tasks :
         /\ pc[t] \in {"idle", "prompt", "connect", "list", "model", "tools", "call",
                       "raw", "trace", "done"}
         /\ reply[t] # "none" <=> pc[t] \in {"connect", "list", "call"}
         /\ Waiting(t) <=> \E p \in pending : p.task = t

\* The answer that settles the promise of a task is the answer to the request it last made,
\* also when it comes after a time-out, after a reconnection or from a server that was
\* killed: a request id is never used twice (StdioMcpClient.nextId).  The exception is a
\* request of the server's own under the same number, which handleMessage takes for it.
OwnAnswer ==
    [][\A t \in Tasks :
          \/ answered'[t] \in {answered[t], NoRequest, asked[t]}
          \/ \E c \in Children : answered'[t] = ServersOwn(c)]_vars

\* A server nobody can reach any more keeps running only when the exit listener of an older
\* one has cleared this.child (StdioMcpClient.connect, the "exit" callback).
OrphanOnlyByLateExit ==
    \A c \in Children : proc[c] = "running" /\ c # child => c \in cutLoose

\* What is executed for a task is what its profile and its own list allow, and a command
\* begins with all the words of an allowlisted one.
OnlyPermittedToolsRun ==
    \A t \in Tasks : \A what \in ran[t] :
        IF what \in Commands
        THEN /\ Builtin("run_command") \in input[t].allowed
             /\ \E a \in CommandAllowlist[input[t].profile] :
                    Len(a) <= Len(what.words) /\ SubSeq(what.words, 1, Len(a)) = a
        ELSE what \in input[t].allowed /\ CheckTaskPermissions(input[t]) = {}

\* The limit of tool calls is overshot by at most the rest of one answer: it is compared
\* once per answer of the model (code-task-executor.ts, the while loop).
ToolCallBound == \A t \in Tasks : calls[t] <= MaxToolCalls + MaxUses - 1

\* A task that succeeded left the answer of the model and, if anything was executed for it,
\* the trace of its tool calls, although every write may fail.
SucceededHasEvidence ==
    [][\A t \in Tasks :
          result[t] = "running" /\ result'[t] = "succeeded" =>
              /\ "raw" \in artifacts'[t]
              /\ ran[t] # {} => "trace" \in artifacts'[t]]_vars

\* The result the caller was given stands, whatever an executor that timed out still does,
\* and any other result means that the executor has stopped.
ResultStands ==
    [][\A t \in Tasks :
          /\ result[t] \in Final => result'[t] = result[t]
          /\ result'[t] \in Final \ {"timed_out"} => pc'[t] = "done"]_vars

\* Every request to the server is settled by an answer, an error or its timer, also when
\* there is no server left to write to.
RequestsSettle == \A t \in Tasks : Waiting(t) ~> ~Waiting(t)

\* Every task that was started gets a result, also when the model never answers.
RuntimeAnswers == \A t \in Tasks : result[t] = "running" ~> result[t] \in Final
================================================================================
