SPECIFICATION Spec
CONSTANTS
    Rules = {"r1"}
    Requests = {p1, p2}
    Actors = {"a", "b"}
    Reviewers = {"b"}
    Contents = {c1, c2}
    TrackOf <- MCTrackOf
    Sources = {s1, s2}
    Extractable = {c1, c2}
    Usable <- MCUsable
    Artifacts = {"g1"}
    None = None
    MaxTime = 7
    Seeds = {}
SYMMETRY Symmetry
INVARIANTS
    ReviewerIndependent
PROPERTIES
    LoadedTextStable
CHECK_DEADLOCK FALSE
