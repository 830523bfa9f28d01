SPECIFICATION Spec
CONSTANTS
    MaxScans = 2
    MaxFaults = 3
    Requested <- MCRequested
    Probes = {"gitlab", "tekton"}
    Configured = {"gitlab", "tekton"}
INVARIANTS TypeOK ReportsBehindRecords OneVerdict PassedWasSeen LatestIsNewest
CHECK_DEADLOCK FALSE
