\* Links: two events, two edits in the calendar, one by the user, one fault.
\* Artifacts: two meetings, one a run, one action item, one refresh, one fault.
\* The matcher: two contacts, one company, three deals with a word in common.
\* A part may stop: its bounds are used up.
SPECIFICATION PartSpec
CONSTANTS
    Events = {m1, m2}
    MaxEventEdits = 2
    MaxLinkEdits = 1
    MaxMeetFaults = 1
    Meetings = {1, 2}
    ActionItems = {i1}
    RunCap = 1
    MaxRefreshes = 1
    MaxScanFaults = 1
    People = {"c1", "c2"}
    Firms = {"k1"}
    OpenDeals = {"d1", "d2", "d3"}
    TitleWords <- Titles
    None = None
INVARIANTS
    ArtifactsSound
    DecisionSound
PROPERTIES
    
    EndedMeetingCompletes
    EndedMeetingSettles
CHECK_DEADLOCK FALSE
