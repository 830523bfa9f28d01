\* One process that crashes once: is a dead letter ever dropped?
SPECIFICATION Spec
CONSTANTS
    Events = {build, other}
    HandledEvents = {build}
    Workers = {w1}
    BatchSize = 2
    MaxEntries = 3
    MaxAttempts = 2
    MaxCrashes = 1
    MaxStoreFaults = 0
INVARIANT NoDeadLetterDropped
