\* One process, three entries that may repeat an event, a crash and a lost SET.
SPECIFICATION FairSpec
CONSTANTS
    Events = {build, other}
    HandledEvents = {build}
    Workers = {w1}
    BatchSize = 2
    MaxEntries = 3
    MaxAttempts = 2
    MaxCrashes = 1
    MaxStoreFaults = 1
INVARIANTS EffectivelyOnce DeliveryBudget
PROPERTIES ProcessedIsFinal EventuallyAcked GivenUpReachesDLQ
