\* A second tab commits while a dry-run of the job is in flight.
SPECIFICATION Spec
CONSTANTS
    Jobs = {j1}
    Requests = {q1, q2}
    NoJob = NoJob
    NRows = 1
    Overlap = TRUE
    MaxCrashes = 0
INVARIANTS
    RowsWrittenOnce
CHECK_DEADLOCK FALSE
