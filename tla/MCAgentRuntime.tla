---------------------------- MODULE MCAgentRuntime ----------------------------
(* A small instance of AgentRuntime: a task with the tool of the server, one *)
(* with files and commands, and one that is not permitted.                  *)
EXTENDS AgentRuntime

Pods == Mcp("kubernetes", "get_pods")
MCTools == {Pods}
MCInputs ==
    {[capable |-> TRUE, profile |-> "diagnosis-readonly", environment |-> "prod",
      allowed |-> {Pods}],
     [capable |-> TRUE, profile |-> "ci-yaml-edit", environment |-> "dev",
      allowed |-> {Builtin("edit_file"), Builtin("read_file"), Builtin("run_command")}],
     [capable |-> TRUE, profile |-> "ci-yaml-edit", environment |-> "prod",
      allowed |-> {Builtin("edit_file"), Builtin("read_file")}]}
MCCommands ==
    {[words |-> <<"git", "diff", "HEAD">>, shell |-> FALSE, path |-> FALSE],
     [words |-> <<"git", "push">>, shell |-> FALSE, path |-> FALSE],
     [words |-> <<"rg">>, shell |-> TRUE, path |-> FALSE]}
================================================================================
