\* Two replicas of one consumer, two entries, two kinds of event and a crash: safety.
SPECIFICATION Spec
CONSTANTS
    Events = {build, other}
    HandledEvents = {build}
    Workers = {w1, w2}
    BatchSize = 2
    MaxEntries = 2
    MaxAttempts = 2
    MaxCrashes = 1
    MaxStoreFaults = 0
SYMMETRY WorkerSymmetry
INVARIANTS TypeOK AckedMeansSettled DeadLetterLostOnlyByCrash
PROPERTIES RefinesAtLeastOnce
