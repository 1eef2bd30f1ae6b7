SPECIFICATION FairSchool
CONSTANTS
    Users = {1, 2, 3}
    DemoUsers = {}
    Root = 1
    Roles = {"STUDENT"}
    Rows = {1}
    ClassroomOf <- MCClassroomOf
    TeacherOf <- MCTeacherOf
    NoUser = NoUser
    MaxSerial = 1
    Procs = {p1, p2}
    NoRequest = NoRequest
    NoRow = NoRow
PROPERTIES
    RequestsEnd
CHECK_DEADLOCK FALSE
