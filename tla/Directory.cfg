SPECIFICATION SpecTxn
CONSTANTS
    Users = {1, 2, 3}
    DemoUsers = {3}
    Root = 1
    Roles = {"ADMIN", "STUDENT"}
    Rows = {}
    ClassroomOf <- MCClassroomOf
    TeacherOf <- MCTeacherOf
    NoUser = NoUser
    MaxSerial = 1
    Procs = {p1, p2}
    NoRequest = NoRequest
    NoRow = NoRow
SYMMETRY Symmetry
INVARIANTS
    AdminRemains
    UnapprovedHoldNoPrivilege
    ActiveAreVerified
PROPERTIES
    Spec
    DecidedByAdministrator
CHECK_DEADLOCK FALSE
