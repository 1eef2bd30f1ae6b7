SPECIFICATION SpecBatch
CONSTANTS
    None = None
    Missing = Missing
    Unit = 10
    MaxApplications = 3
    Tasks <- AllTasks
    Tracks <- MCTracks
    Facts <- MCFacts
    Offers <- MCOffers
    BuiltIns <- MCBuiltIns
    Imported <- MCImported
    RecordSets <- MCRecordSets
INVARIANT EqualComputable
CHECK_DEADLOCK FALSE
