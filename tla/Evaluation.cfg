SPECIFICATION SpecBatch
CONSTANTS
    None = None
    Missing = Missing
    Unit = 10
    MaxApplications = 3
    Tasks <- AllTasks
    Tracks <- MCTracks
    Facts <- MCFacts
    Offers <- MCOffers
    BuiltIns <- MCBuiltIns
    Imported <- MCImported
    RecordSets <- MCRecordSets
INVARIANTS
    SelectionOptimal
    GradeWithinGrades
    OnlyVerifiedCounts
    Computable
    DecisionStable
    WithinLimits
    TableUnambiguous
    SameRecords
    PublishedFirst
    ConfirmationCovers
CHECK_DEADLOCK FALSE
