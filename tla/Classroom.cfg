SPECIFICATION SpecSchool
CONSTANTS
    Users = {1, 2, 3}
    DemoUsers = {}
    Root = 1
    Roles = {"STUDENT"}
    Rows = {1, 2}
    ClassroomOf <- MCClassroomOf
    TeacherOf <- MCTeacherOf
    NoUser = NoUser
    MaxSerial = 2
    Procs = {p1, p2}
    NoRequest = NoRequest
    NoRow = NoRow
SYMMETRY Symmetry
INVARIANTS
    LinkStateConsistent
    LinkedTeacherCapable
PROPERTIES
    PromisedSteps
    CurrentCodeRedeemed
CHECK_DEADLOCK FALSE
