---------------------------- MODULE MCAccountTxn ----------------------------
(* Directories of a bootstrap administrator (1) and two more people.       *)
EXTENDS AccountTxn, TLC

MCTeacherOf == [r \in Rows |-> 2]
MCClassroomOf == [r \in Rows |-> 1]
Symmetry == Permutations(Procs)

(* A school in operation: 2 teaches a class in which roster entry 1 has    *)
(* its first code, and 3 is a student.                                     *)
InitSchool ==
    /\ role = [u \in Users |-> CASE u = 1 -> "ADMIN" [] u = 2 -> "TEACHER" [] OTHER -> "STUDENT"]
    /\ status = [u \in Users |-> "ACTIVE"]
    /\ verified = [u \in Users |-> TRUE]
    /\ link = [r \in Rows |-> NoUser]
    /\ code = [r \in Rows |-> IF r = 1 THEN "live" ELSE "none"]
    /\ serial = [r \in Rows |-> IF r = 1 THEN 1 ELSE 0]
    /\ phase = [p \in Procs |-> "idle"]
    /\ req = [p \in Procs |-> NoRequest]
    /\ admins = [p \in Procs |-> {}]
    /\ todo = [p \in Procs |-> {}]
    /\ held = [p \in Procs |-> {}]

SpecSchool == InitSchool /\ [][NextTxn]_allVars
FairSchool == SpecSchool /\ Fairness
=============================================================================
