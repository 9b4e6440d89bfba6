\* The pull: a book of more pages than a job lists, two job slots, two connects and
\* one fault. One contact, two resource names, one push at a time, three edits and one
\* crash at any call but between an update and its record.
\* The mapping: two addresses, two entries a field, three edits.
\* A part may stop: its bounds are used up.
SPECIFICATION PartSpec
CONSTANTS
    BookPages = 3
    PageCap = 2
    PullSlots = {s1, s2}
    NoPullSlot = NoPullSlot
    MaxConnects = 2
    MaxPullFaults = 1
    SlowPulls = TRUE
    ConnectsSpan = FALSE
    Resources = {g1, g2}
    PushSlots = {p1}
    MaxEdits = 3
    MaxSyncFaults = 1
    CrashPoints = {"links", "get", "update", "create", "link", "unlink"}
    Reverts = FALSE
    SyncOverlap = FALSE
    Mails = {"a", "b"}
    Jobs = {"j"}
    MaxEntries = 2
    MaxFieldEdits = 3
    Blank = Blank

    
PROPERTIES
    ImportCompletes
    
    PushIsFaithful
CHECK_DEADLOCK FALSE
