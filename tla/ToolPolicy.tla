------------------------------ MODULE ToolPolicy ------------------------------
(***************************************************************************)
(* What a task of the runtime may use: the permission profiles, the check  *)
(* of a task before it starts, the pool of tools its model is offered and  *)
(* the commands run_command accepts.  A tool is named by its server and    *)
(* its name; a command is its words, with a flag for shell characters and  *)
(* one for a program given as a path.                                      *)
(***************************************************************************)
EXTENDS Sequences, SequencesExt, TLC

Builtin(name) == [server |-> "fde-builtin", name |-> name]
Mcp(server, name) == [server |-> server, name |-> name]
Builtins(names) == {Builtin(n) : n \in names}

PermissionProfileNames ==
    {"ci-readonly", "ci-yaml-edit", "diagnosis-readonly", "collaboration-notify"}

ProfileTools ==
    ("ci-readonly" :> Builtins({"read_file", "list_files", "run_command", "read_artifact",
                                "write_artifact", "validate_schema"})) @@
    ("ci-yaml-edit" :> Builtins({"read_file", "edit_file", "write_file", "list_files",
                                 "run_command", "create_patch", "read_artifact",
                                 "write_artifact", "validate_schema"})) @@
    ("diagnosis-readonly" :> Builtins({"read_artifact", "write_artifact", "summarize_log",
                                       "reason_about_failure", "validate_schema",
                                       "redact_sensitive_fields"})) @@
    ("collaboration-notify" :> Builtins({"read_artifact", "write_artifact", "classify_reply",
                                         "draft_notification", "validate_schema",
                                         "redact_sensitive_fields"}))

McpServerAllowlist ==
    [p \in PermissionProfileNames |->
        IF p = "collaboration-notify" THEN {"feishu", "gitlab"}
                                      ELSE {"gitlab", "tekton", "argocd", "kubernetes"}]

\* The profiles without an entry have no command allowlist.
ReadCommands == {<<"rg">>, <<"git", "diff">>, <<"git", "show">>, <<"git", "status">>}
CommandAllowlist ==
    [p \in {"ci-readonly", "ci-yaml-edit"} |->
        IF p = "ci-readonly" THEN ReadCommands
                             ELSE ReadCommands \cup {<<"yq">>, <<"kustomize", "build">>}]

-------------------------------------------------------------------------------
IsToolAllowedByProfile(profile, tool) ==
    \/ tool \in ProfileTools[profile]
    \/ tool.server \in McpServerAllowlist[profile]

WriteTools == Builtins({"write_file", "edit_file"})

\* The tools for which a task is blocked; it starts when there are none.
CheckTaskPermissions(input) ==
    {tool \in input.allowed : ~IsToolAllowedByProfile(input.profile, tool)}
        \cup (IF input.environment = "prod" THEN input.allowed \cap WriteTools ELSE {})

\* The model is offered what the providers have and the task allows.
RuntimeBuiltins == Builtins({"read_file", "list_files", "run_command"})
AssembleToolPool(input, definitions) ==
    (RuntimeBuiltins \cup definitions) \cap input.allowed

ShouldStartForAllowedTools(input, server) == \E tool \in input.allowed : tool.server = server

\* Mutant of IsCommandAllowed: the program decides, not the words after it.
IsCommandAllowedByProgram(profile, command) ==
    /\ profile \in DOMAIN CommandAllowlist
    /\ command.words # <<>> /\ ~command.shell /\ ~command.path
    /\ \E a \in CommandAllowlist[profile] : Head(a) = Head(command.words)

IsCommandAllowed(profile, command) ==
    /\ profile \in DOMAIN CommandAllowlist
    /\ command.words # <<>> /\ ~command.shell /\ ~command.path
    /\ \E a \in CommandAllowlist[profile] : IsPrefix(a, command.words)
================================================================================
