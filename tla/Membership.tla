------------------------------ MODULE Membership ------------------------------
(***************************************************************************)
(* What the account directory and the classroom links promise, with every  *)
(* database transaction as one step: registration, approval, role and      *)
(* status changes by an administrator, connection codes issued by a        *)
(* teacher and redeemed by a student.  AccountTxn refines this module to   *)
(* the row locks and the unlocked reads of the web handlers.               *)
(*                                                                         *)
(* An operator with an underscore in its name states a mistake that could  *)
(* be made in the operator it precedes; the README says which property     *)
(* notices it.                                                             *)
(***************************************************************************)
EXTENDS Integers, FiniteSets

CONSTANTS
    Users,      \* account ids; their order is the ORDER BY of the lock queries
    DemoUsers,  \* accounts whose actor_ref is reserved for the public demo
    Root,       \* the administrator created by `flask auth bootstrap-admin`
    Roles,      \* the account roles in use
    Rows,       \* ids of classroom roster entries (ClassroomStudent)
    ClassroomOf, \* the classroom a roster entry belongs to
    TeacherOf,  \* the owner of that classroom
    NoUser,     \* NULL in linked_user_account_id
    MaxSerial   \* bound: codes issued per roster entry

ASSUME UsersAssumption == Users \subseteq Nat /\ IsFiniteSet(Users)
ASSUME RowsAssumption ==
    /\ Rows \subseteq Nat \ {0}
    /\ TeacherOf \in [Rows -> Users \ DemoUsers]
    /\ \A r, q \in Rows : ClassroomOf[r] = ClassroomOf[q] => TeacherOf[r] = TeacherOf[q]
ASSUME RootAssumption == Root \in Users \ DemoUsers /\ NoUser \notin Users
ASSUME MaxSerialAssumption == MaxSerial \in Nat \ {0}
ASSUME RolesAssumption ==
    Roles \subseteq {"ADMIN", "ASSISTANT_ADMIN", "MEMBER", "STUDENT", "TEACHER"}

VARIABLES
    role,       \* UserAccount.role
    status,     \* UserAccount.status, "ABSENT" before the row exists
    verified,   \* the account has a login name or a verified e-mail address
    link,       \* ClassroomStudent.linked_user_account_id
    code,       \* the state of the entry's connection code
    serial      \* how many codes the entry has had, 0 before it exists

accounts == <<role, status, verified>>
roster == <<link, code, serial>>
vars == <<role, status, verified, link, code, serial>>

-----------------------------------------------------------------------------
AnyRole == {"ADMIN", "ASSISTANT_ADMIN", "MEMBER", "STUDENT", "TEACHER"}
SelfServiceRoles == {"MEMBER", "STUDENT", "TEACHER"}
Statuses == {"PENDING_APPROVAL", "ACTIVE", "REJECTED", "SUSPENDED"}
Codes == {"none", "live", "expired"}

StatusMoves == {<<"PENDING_APPROVAL", "REJECTED">>, <<"REJECTED", "PENDING_APPROVAL">>,
                <<"ACTIVE", "SUSPENDED">>, <<"SUSPENDED", "ACTIVE">>}

TeacherRole(r) == r \in {"ADMIN", "TEACHER"}
TeacherCapable(u) == status[u] = "ACTIVE" /\ TeacherRole(role[u])

ActiveAdmins == {u \in Users \ DemoUsers : status[u] = "ACTIVE" /\ role[u] = "ADMIN"}
CanApprove(u) == /\ u \in Users \ DemoUsers
                 /\ status[u] = "ACTIVE"
                 /\ role[u] \in {"ADMIN", "ASSISTANT_ADMIN"}

TypeOK ==
    /\ role \in [Users -> AnyRole]
    /\ status \in [Users -> Statuses \cup {"ABSENT"}]
    /\ verified \in [Users -> BOOLEAN]
    /\ link \in [Rows -> Users \cup {NoUser}]
    /\ code \in [Rows -> Codes]
    /\ serial \in [Rows -> 0..MaxSerial]

Init ==
    /\ role \in [Users -> AnyRole]
    /\ role[Root] = "ADMIN"
    /\ \A u \in Users \ (DemoUsers \cup {Root}) : role[u] = "MEMBER"
    /\ \A u \in DemoUsers : role[u] \in Roles
    /\ status = [u \in Users |-> IF u = Root THEN "ACTIVE" ELSE "ABSENT"]
    /\ verified = [u \in Users |-> u = Root \/ u \in DemoUsers]
    /\ link = [r \in Rows |-> NoUser]
    /\ code = [r \in Rows |-> "none"]
    /\ serial = [r \in Rows |-> 0]

-----------------------------------------------------------------------------
(* Accounts come into being and prove an e-mail address.                   *)

Register(u, r, v) ==
    /\ u \notin DemoUsers
    /\ status[u] = "ABSENT"
    /\ r \in SelfServiceRoles
    /\ role' = [role EXCEPT ![u] = r]
    /\ status' = [status EXCEPT ![u] = "PENDING_APPROVAL"]
    /\ verified' = [verified EXCEPT ![u] = v]
    /\ UNCHANGED roster

VerifyEmail(u) ==
    /\ u \notin DemoUsers
    /\ status[u] # "ABSENT"
    /\ verified' = [verified EXCEPT ![u] = TRUE]
    /\ UNCHANGED <<role, status, roster>>

BootstrapDemo(u) ==
    /\ u \in DemoUsers
    /\ ActiveAdmins # {}
    /\ status' = [status EXCEPT ![u] = "ACTIVE"]
    /\ UNCHANGED <<role, verified, roster>>

RevokeDemo(u) ==
    /\ u \in DemoUsers
    /\ status[u] = "ACTIVE"
    /\ status' = [status EXCEPT ![u] = "SUSPENDED"]
    /\ UNCHANGED <<role, verified, roster>>

-----------------------------------------------------------------------------
(* Administrators change accounts; a change that ends the right to share   *)
(* takes the links and the unused codes of that account with it.           *)

Shares(r, u) == serial[r] > 0 /\ (TeacherOf[r] = u \/ link[r] = u)

RevokeLinks(u) ==
    /\ link' = [r \in Rows |-> IF Shares(r, u) THEN NoUser ELSE link[r]]
    /\ code' = [r \in Rows |-> IF Shares(r, u) THEN "none" ELSE code[r]]
    /\ UNCHANGED serial

AnotherAdminRemains(u) == \E a \in ActiveAdmins : a # u

Approve(actor, u) ==
    /\ CanApprove(actor)
    /\ u \notin DemoUsers
    /\ u # actor
    /\ role[u] \in SelfServiceRoles
    /\ status[u] = "PENDING_APPROVAL"
    /\ verified[u]
    /\ status' = [status EXCEPT ![u] = "ACTIVE"]
    /\ UNCHANGED <<role, verified, roster>>

ChangeRole(actor, u, r) ==
    /\ actor \in ActiveAdmins
    /\ u \notin DemoUsers
    /\ status[u] = "ACTIVE"
    /\ role[u] # r
    /\ role[u] = "ADMIN" => AnotherAdminRemains(u)
    /\ role' = [role EXCEPT ![u] = r]
    /\ IF TeacherRole(role[u]) /\ TeacherRole(r) THEN UNCHANGED roster ELSE RevokeLinks(u)
    /\ UNCHANGED <<status, verified>>

ChangeStatus(actor, u, s) ==
    /\ actor \in ActiveAdmins
    /\ u \notin DemoUsers
    /\ <<status[u], s>> \in StatusMoves
    /\ role[u] = "ADMIN" /\ s # "ACTIVE" => AnotherAdminRemains(u)
    /\ status' = [status EXCEPT ![u] = s]
    /\ IF status[u] = "ACTIVE" THEN RevokeLinks(u) ELSE UNCHANGED roster
    /\ UNCHANGED <<role, verified>>

-----------------------------------------------------------------------------
(* Classroom links.  Whether the teacher who issues a code and the student *)
(* who redeems one are still active is read before the transaction takes   *)
(* its locks, so the promise is about accounts approved at some time.      *)

Approved(u) == u \in Users \ DemoUsers /\ status[u] \in {"ACTIVE", "SUSPENDED"}

LinkedInClassroom_Unchecked(r, u) == FALSE

LinkedInClassroom(r, u) == \E q \in Rows : ClassroomOf[q] = ClassroomOf[r] /\ link[q] = u

IssueCode(r) ==
    /\ Approved(TeacherOf[r])
    /\ link[r] = NoUser
    /\ serial[r] < MaxSerial
    /\ serial' = [serial EXCEPT ![r] = @ + 1]
    /\ code' = [code EXCEPT ![r] = "live"]
    /\ UNCHANGED <<accounts, link>>

(* The handler compares the expiry with the clock it read on entry, so the *)
(* code may have expired by the time the link is committed.                *)
Redeem(r, u) ==
    /\ Approved(u)
    /\ TeacherCapable(TeacherOf[r])
    /\ code[r] # "none"
    /\ link[r] = NoUser
    /\ ~LinkedInClassroom(r, u)
    /\ link' = [link EXCEPT ![r] = u]
    /\ code' = [code EXCEPT ![r] = "none"]
    /\ UNCHANGED <<accounts, serial>>

Disconnect(r) ==
    /\ link[r] # NoUser
    /\ link' = [link EXCEPT ![r] = NoUser]
    /\ code' = [code EXCEPT ![r] = "none"]
    /\ UNCHANGED <<accounts, serial>>

ExpireCode(r) ==
    /\ code[r] = "live"
    /\ code' = [code EXCEPT ![r] = "expired"]
    /\ UNCHANGED <<accounts, link, serial>>

-----------------------------------------------------------------------------
Next ==
    \/ \E u \in Users :
        \/ \E r \in SelfServiceRoles \cap Roles, v \in BOOLEAN : Register(u, r, v)
        \/ VerifyEmail(u)
        \/ BootstrapDemo(u)
        \/ RevokeDemo(u)
    \/ \E actor, u \in Users :
        \/ Approve(actor, u)
        \/ \E r \in Roles : ChangeRole(actor, u, r)
        \/ \E s \in Statuses : ChangeStatus(actor, u, s)
    \/ \E r \in Rows :
        \/ IssueCode(r)
        \/ \E u \in Users : Redeem(r, u)
        \/ Disconnect(r)
        \/ ExpireCode(r)

Spec == Init /\ [][Next]_vars

-----------------------------------------------------------------------------
(* Whatever sequence of promotions, demotions, suspensions and demo        *)
(* bootstraps has run, some real (non-demo) account is an active ADMIN:    *)
(* the "last active administrator" checks of change_member_role and        *)
(* change_member_status lock nobody out of the system.                     *)
AdminRemains == ActiveAdmins # {}

(* An account that was never approved holds no administrative role: roles  *)
(* change only on active accounts and nobody goes back from active to      *)
(* pending (the database CHECK on pending accounts is never hit).          *)
UnapprovedHoldNoPrivilege ==
    \A u \in Users : status[u] \in {"PENDING_APPROVAL", "REJECTED"} => role[u] \in SelfServiceRoles

(* Nobody becomes or stays active without a login name or a proven e-mail  *)
(* address, along every path of rejection, suspension and reactivation.    *)
ActiveAreVerified ==
    \A u \in Users \ DemoUsers : status[u] \in {"ACTIVE", "SUSPENDED"} => verified[u]

(* A linked roster entry belongs to a teacher who is active and has the    *)
(* teacher capability now: suspension and demotion end the sharing.        *)
LinkedTeacherCapable ==
    \A r \in Rows : link[r] # NoUser => TeacherCapable(TeacherOf[r])

(* A roster entry is linked or has a code, never both, and a student       *)
(* occupies at most one entry of a classroom.                              *)
LinkStateConsistent ==
    /\ \A r \in Rows : link[r] # NoUser => code[r] = "none"
    /\ \A r, q \in Rows :
        link[r] # NoUser /\ link[r] = link[q] /\ ClassroomOf[r] = ClassroomOf[q] => r = q

=============================================================================
