SPECIFICATION FairSpec
CONSTANTS
    t1 = t1
    t2 = t2
    Tasks = {t1, t2}
    MaxChildren = 2
    MaxMcpFaults = 1
    Inputs <- MCInputs
    McpServer = "kubernetes"
    McpTools <- MCTools
    Commands <- MCCommands
    EnvComplete = TRUE
    MaxToolCalls = 1
    MaxUses = 2
INVARIANTS TypeOK OrphanOnlyByLateExit OnlyPermittedToolsRun ToolCallBound
PROPERTIES OwnAnswer SucceededHasEvidence ResultStands RequestsSettle RuntimeAnswers
CHECK_DEADLOCK FALSE
