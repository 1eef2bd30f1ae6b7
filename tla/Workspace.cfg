SPECIFICATION Spec
CONSTANTS
    Sessions = {s1}
    Requests = {p1, p2}
    Cleaners = {}
    Inputs = {a, b}
    TTL = 1
    None = None
SYMMETRY Symmetry
INVARIANTS
    AnsweredMeansErased
PROPERTIES
    KeepsPromise
CHECK_DEADLOCK FALSE
