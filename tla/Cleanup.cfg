SPECIFICATION Spec
CONSTANTS
    Sessions = {s1}
    Requests = {p1}
    Cleaners = {c1}
    Inputs = {"a"}
    TTL = 2
    None = None
PROPERTIES
    ErasedInTheEnd
CHECK_DEADLOCK FALSE
