SPECIFICATION FairSpec
CONSTANTS
    n1 = n1  m1 = m1  ops = ops  NoId = NoId
    Ids <- MCIds
    Targets <- MCTargets
    Fallback = ops
    RecordsKept = TRUE
    Arrivals <- MCArrivals
    MaxAttempts = 2
    MaxArrivals = 2
    MaxFailures = 2
CHECK_DEADLOCK FALSE
INVARIANTS
    TypeOK
    AckedMeansDone
    ProcessedMeansDone
    NoticesBounded
PROPERTIES
    RefinesEscalationChain
    TimeoutAnswered
