SPECIFICATION FairSpec
CONSTANTS
    r1 = r1
    r2 = r2
    Requests = {r1, r2}
    Inputs <- MCInputs
    Messages <- MCMessages
    Backends = {"redis", "memory"}
    MaxClock = 1
    MaxFaults = 2
    MaxSignals = 2
INVARIANTS TypeOK AnswerTellsPublished ConfirmedReachesHandler DrainedBeforeExit
PROPERTIES TakenIsAnswered
CHECK_DEADLOCK FALSE
