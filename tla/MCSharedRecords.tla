--------------------------- MODULE MCSharedRecords ---------------------------
(* 1 is the administrator, 2 teaches a class with one roster entry and its  *)
(* code, 3 is a student; 2 and 3 may be made teacher and student, suspended *)
(* and brought back.                                                        *)
EXTENDS SharedRecords

MCClassroomOf == [x \in Rows |-> 1]
MCTeacherOf == [x \in Rows |-> 2]

InitSchool ==
    /\ role = [u \in Users |-> CASE u = 2 -> "TEACHER" [] u = 3 -> "STUDENT" [] OTHER -> "ADMIN"]
    /\ status = [u \in Users |-> "ACTIVE"]
    /\ verified = [u \in Users |-> TRUE]
    /\ link = [x \in Rows |-> NoUser]
    /\ code = [x \in Rows |-> "live"]
    /\ serial = [x \in Rows |-> 1]
    /\ SharedInit

SpecShared == InitSchool /\ [][SharedNext]_allVars
=============================================================================
