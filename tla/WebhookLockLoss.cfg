\* Two deliveries on two slots whose locks may be lost while they run: the
\* same delivery can be run by both.  A threshold of 1, so that a late success
\* meets an endpoint that is already disabled.
SPECIFICATION Spec
CONSTANTS
    e1 = e1
    d1 = d1
    d2 = d2
    r1 = r1
    r2 = r2
    Endpoints = {e1}
    Deliveries = {d1, d2}
    EndpointOf <- OneEndpoint
    Runners = {r1, r2}
    Emitters = {m1}
    NoRunner = NoRunner
    NoDelivery = NoDelivery
    Threshold = 1
    MaxAttempts = 1
    MaxStalled = 1
    MaxCrashes = 0
    LockLoss = TRUE
SYMMETRY Symmetry
INVARIANTS
    ReasonExplainsDisable
CHECK_DEADLOCK FALSE
