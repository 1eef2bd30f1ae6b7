SPECIFICATION Spec
CONSTANTS
    Requests = {p1, p2}
    Files = {"list", "one", "portal"}
    Portal = {"portal"}
    Source <- MCSource
    LinesOf <- MCLinesOf
    Text <- MCText
    Programs <- MCPrograms
    Tracks <- MCTracks
    Targets = {1, 2}
    FirstTarget = 1
    Pages = 1
    MaxRetries = 1
    None = None
SYMMETRY Symmetry
INVARIANTS
    OneResultShown
    OnePublishedDataset
    AsUploaded
CHECK_DEADLOCK FALSE
