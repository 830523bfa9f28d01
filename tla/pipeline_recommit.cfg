\* Two deliveries of one build around a later build of the same image.
SPECIFICATION Spec
CONSTANTS
    Events = {"e1", "e2", "e3"}
    Builds = {"api-1", "api-2"}
    FailedBuilds = {}
    BuildOf <- MCSameImage
    Images = {"api"}
    Tags = {"old", "v1", "v2"}
    ImageOf <- MCImageOf
    TagOf <- MCTagOf
    OldTag = "old"
    NoEvent = "none"
    MaxAttempts = 2
    MaxCrashes = 0
    MaxRemotePushes = 0
    MaxExpiries = 0
INVARIANTS CommittedOnce
\* Once every event is acknowledged the bus has nothing to deliver.
CHECK_DEADLOCK FALSE
