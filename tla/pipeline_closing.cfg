\* A good and a failed build; a crash, failing calls and retries, under fairness.
SPECIFICATION FairSpec
CONSTANTS
    Events = {"e1", "e2"}
    Builds = {"api-1", "api-bad"}
    FailedBuilds = {"api-bad"}
    BuildOf <- MCFailedBuild
    Images = {"api"}
    Tags = {"old", "v1"}
    ImageOf <- MCImageOf
    TagOf <- MCTagOf
    OldTag = "old"
    NoEvent = "none"
    MaxAttempts = 2
    MaxCrashes = 1
    MaxRemotePushes = 0
    MaxExpiries = 0
INVARIANTS OutcomeOrAbandoned
PROPERTIES EventuallyClosed
\* Once every event is acknowledged the bus has nothing to deliver.
CHECK_DEADLOCK FALSE
