\* Two deliveries of one endpoint competing for one slot that may crash once.
SPECIFICATION FairSpec
CONSTANTS
    e1 = e1
    d1 = d1
    d2 = d2
    r1 = r1
    r2 = r2
    Endpoints = {e1}
    Deliveries = {d1, d2}
    EndpointOf <- OneEndpoint
    Runners = {r1}
    Emitters = {m1}
    NoRunner = NoRunner
    NoDelivery = NoDelivery
    Threshold = 2
    MaxAttempts = 2
    MaxStalled = 1
    MaxCrashes = 1
    LockLoss = FALSE
PROPERTIES
    EnqueuedSettles
CHECK_DEADLOCK FALSE
