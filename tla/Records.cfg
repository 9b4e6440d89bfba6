\* Deals: any three requests, one at a time, over three deals and three stages.
\* Fields: one record, one tag, a select field of two options, one request at a
\* time. A task of four writes, one at a time. MCP: one approval, two calls on two
\* records. Backups: two slots, two attempts, one fault, one migration.
\* A part may stop: its bounds are used up.
SPECIFICATION PartSpec
CONSTANTS
    Deals = {1, 2, 3}
    Stages = {open, won, lost}
    Won = {won}
    Lost = {lost}
    Requests = {r1, r2, r3}
    Kinds = {"create", "patch", "move", "delete"}
    Nobody = Nobody
    Overlap = FALSE
    Recs = {c1}
    TagIds = {g1}
    Choices = {"x", "y"}
    CrmRequests = {q1}
    Empty = Empty
    CrmOverlap = FALSE
    Unsent = Unsent
    TaskCalls = {k1}
    TasksOverlap = FALSE
    MaxTaskWrites = 4
    ApiTokens = {t1}
    McpIds = {1, 2}
    ApprovalIds = {a1}
    McpCalls = {m1, m2}
    NoApproval = NoApproval
    McpKinds = {"deal"}
    ScopeSets = {{"read"}, {"read", "write", "delete"}}
    MaxMcpFaults = 1
    Dumps = {"d1", "d2", "d3"}
    BackupSlots = {"w1", "w2"}
    BackupAttempts = 2
    MaxBackupFaults = 1
    MaxSchemas = 1
INVARIANTS
    
    CompletionsAgree
    BackupsSound
PROPERTIES
    CardsLandAsAsked
    
    
    DeletionsAccounted
CHECK_DEADLOCK FALSE
