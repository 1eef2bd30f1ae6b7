SPECIFICATION SpecShared
CONSTANTS
    Users = {1, 2, 3}
    DemoUsers = {}
    Root = 1
    Roles = {"STUDENT", "TEACHER"}
    Rows = {1}
    ClassroomOf <- MCClassroomOf
    TeacherOf <- MCTeacherOf
    NoUser = NoUser
    MaxSerial = 1
    Requests = {p1}
    Overtaken = {2, 3}
    MaxRecords = 2
    MaxConsultations = 1
    MaxWrites = 2
    None = None
INVARIANTS
    ReferenceNamesOwner
    ListsMatchChecks
    TrainingConsistent
    CoursesBelong
    NotesPrivate
PROPERTIES
    EditedAsShown
CHECK_DEADLOCK FALSE
