\* Attachments: one key over four days of three ticks; the daily sweep starts late
\* enough in the day, and it may run more than once. Imports: two runs of a file of two rows; one page of the wizard with two requests in
\* flight; two columns; one enrichment dialog over one record.
\* A part may stop: its file is done, its bounds are used up.
SPECIFICATION PartSpec
CONSTANTS
    Keys = {k1}
    DayLen = 3
    Grace = 3
    PutTTL = 2
    IssueTTL = 1
    RegisterTime = 1
    SweepHours = {1}
    Horizon = 9
    Idents = {"x", "y"}
    RowKeys = {"a", "b"}
    Cells = {"v"}
    RecordSlots = {s1, s2, s3}
    ParentSlots = {"p1", "p2"}
    RowShapes <- Shapes
    ParentTables <- Tables
    CsvRows = 2
    HandEdits = 1
    None = None
    WizardJobs = {1}
    Columns = {1, 2}
    StageIds = {1, 2}
    ValuesIn <- ColumnValues
    SameNamed <- StageNames
    MaxWizardCalls = 2
    Unset = Unset
    NHeaders = 2
    Confidences = {0, 85, 100}
    PresetHits = {6, 7, 8}
    Unmapped = Unmapped
    ReviewRuns = {1}
    MaxRecordEdits = 1
    NoReview = NoReview
INVARIANTS
    NoDanglingRow
    AbandonedUploadsHanded
    
    ColumnsAndCellsKept
PROPERTIES
    FullSweepHandsAll
    ImportAsForeseen
    ReviewRespected
CHECK_DEADLOCK FALSE
