\* Two deliveries of one endpoint on two slots; one worker crash and BullMQ's
\* default of one stalled re-run; two attempts per job and a threshold of 2.
SPECIFICATION Spec
CONSTANTS
    e1 = e1
    d1 = d1
    d2 = d2
    r1 = r1
    r2 = r2
    Endpoints = {e1}
    Deliveries = {d1, d2}
    EndpointOf <- OneEndpoint
    Runners = {r1, r2}
    Emitters = {m1}
    NoRunner = NoRunner
    NoDelivery = NoDelivery
    Threshold = 2
    MaxAttempts = 2
    MaxStalled = 1
    MaxCrashes = 1
    LockLoss = FALSE
SYMMETRY Symmetry
INVARIANTS
    EnabledBelowThreshold
    CounterBackedByFailures
    NoEarlyGiveUp
PROPERTIES
    ImplementsContract
\* The rows of the model run out and the endpoint may be deleted: then the
\* system is at rest.
CHECK_DEADLOCK FALSE
