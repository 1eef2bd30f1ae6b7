SPECIFICATION SeededSpec
CONSTANTS
    Rules = {"r1", "r2", "r3"}
    Requests = {p1, p2}
    Actors = {"a"}
    Reviewers = {"b"}
    Contents = {c1}
    TrackOf <- MCTrackOf
    Sources = {s1}
    Extractable = {c1}
    Usable <- MCUsable
    Artifacts = {"r1", "r2", "r3"}
    None = None
    MaxTime = 10
    Seeds <- ApprovedSeeds
SYMMETRY Symmetry
PROPERTIES
    PublicationServes
    ReplacedAtOnce
CHECK_DEADLOCK FALSE
