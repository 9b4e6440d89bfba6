\* Import jobs: four requests on one job of two rows, up to two lost, commits
\* never beside a dry-run. Enrichment: two runs, two slots, one fault. Geocoding:
\* one address in two seconds. The Google connection: two consents, one fault.
\* A part may stop: its jobs are done, its bounds are used up.
SPECIFICATION PartSpec
CONSTANTS
    Jobs = {j1}
    Requests = {q1, q2, q3, q4}
    NoJob = NoJob
    NRows = 2
    Overlap = FALSE
    MaxCrashes = 2
    EnrichRuns = {r1, r2}
    EnrichSlots = {e1, e2}
    DailyCap = 2
    Debounces = TRUE
    Tabs = {t1}
    MaxEnrichFaults = 1
    GeoAttempts = 3
    GeoSlots = {g1, g2}
    MaxSeconds = 2
    MaxAddresses = 1
    MaxGeoFaults = 3
    StateIds = {"s1", "s2"}
    Callbacks = {"c1"}
    Cards = {"t1"}
    MaxLinkFaults = 1
INVARIANTS
    RowsWrittenOnce
    CompletedCoversFile
    SourceOutlivesRow
    StateConnectsOnce
PROPERTIES
    FinishedIsLocked
    
    EnrichmentSafe
    
    
    ConnectedSyncs
CHECK_DEADLOCK FALSE
