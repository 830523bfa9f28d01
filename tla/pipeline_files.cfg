\* Two builds share a file; a crash, a push by somebody else and an expired key.
SPECIFICATION Spec
CONSTANTS
    Events = {"e1", "e3"}
    Builds = {"api-1", "web-1"}
    FailedBuilds = {}
    BuildOf <- MCSharedFile
    Images = {"api", "web"}
    Tags = {"old", "v1"}
    ImageOf <- MCImageOf
    TagOf <- MCTagOf
    OldTag = "old"
    NoEvent = "none"
    MaxAttempts = 1
    MaxCrashes = 1
    MaxRemotePushes = 1
    MaxExpiries = 1
INVARIANTS TypeOK CleanBetweenRuns OnlyApprovedPushed UpdatedMeansPushedOrStranded
\* Once every event is acknowledged the bus has nothing to deliver.
CHECK_DEADLOCK FALSE
