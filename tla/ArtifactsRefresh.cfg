\* A refresh of a meeting that is more than six hours old.
SPECIFICATION ArtifactsSpec
CONSTANTS
    Meetings = {1}
    ActionItems = {i1}
    RunCap = 1
    MaxRefreshes = 1
    MaxScanFaults = 0
INVARIANTS
    RefreshRefetches
CHECK_DEADLOCK FALSE
