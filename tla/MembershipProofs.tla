-------------------------- MODULE MembershipProofs --------------------------
(* Type correctness and the safety of the account directory, for every     *)
(* set of accounts, demo accounts and roster entries.                      *)
EXTENDS Membership, TLAPS

USE UsersAssumption, RowsAssumption, RootAssumption, RolesAssumption, MaxSerialAssumption

(***************************************************************************)
(* Every variable keeps its type.                                          *)
(***************************************************************************)
LEMMA TypeStep == TypeOK /\ [Next]_vars => TypeOK'
<1> SUFFICES ASSUME TypeOK, [Next]_vars PROVE TypeOK'
  OBVIOUS
<1> USE DEF TypeOK, AnyRole, Statuses, Codes, accounts, roster
<1>1. ASSUME NEW u \in Users, NEW r \in SelfServiceRoles, NEW v \in BOOLEAN, Register(u, r, v)
      PROVE  TypeOK'
  BY <1>1 DEF Register, SelfServiceRoles
<1>2. ASSUME NEW u \in Users, VerifyEmail(u) PROVE TypeOK'
  BY <1>2 DEF VerifyEmail
<1>3. ASSUME NEW u \in Users, BootstrapDemo(u) \/ RevokeDemo(u) PROVE TypeOK'
  BY <1>3 DEF BootstrapDemo, RevokeDemo
<1>4. ASSUME NEW actor \in Users, NEW u \in Users, Approve(actor, u) PROVE TypeOK'
  BY <1>4 DEF Approve
<1>5. ASSUME NEW actor \in Users, NEW u \in Users, NEW r \in Roles, ChangeRole(actor, u, r)
      PROVE  TypeOK'
  BY <1>5 DEF ChangeRole, RevokeLinks
<1>6. ASSUME NEW actor \in Users, NEW u \in Users, NEW s \in Statuses, ChangeStatus(actor, u, s)
      PROVE  TypeOK'
  BY <1>6 DEF ChangeStatus, RevokeLinks
<1>7. ASSUME NEW r \in Rows, IssueCode(r) PROVE TypeOK'
  BY <1>7 DEF IssueCode
<1>8. ASSUME NEW r \in Rows, NEW u \in Users, Redeem(r, u) PROVE TypeOK'
  BY <1>8 DEF Redeem
<1>9. ASSUME NEW r \in Rows, Disconnect(r) \/ ExpireCode(r) PROVE TypeOK'
  BY <1>9 DEF Disconnect, ExpireCode
<1>10. CASE UNCHANGED vars
  BY <1>10 DEF vars
<1> QED
  BY <1>1, <1>2, <1>3, <1>4, <1>5, <1>6, <1>7, <1>8, <1>9, <1>10 DEF Next

(* Every column keeps its type, whatever transactions ran: no role but the *)
(* five, and no link to an account that is not there.                      *)
THEOREM TypeCorrect == Spec => []TypeOK
<1>1. Init => TypeOK
  BY DEF Init, TypeOK, AnyRole, Statuses, Codes
<1>2. TypeOK /\ [Next]_vars => TypeOK'
  BY TypeStep
<1> QED
  BY <1>1, <1>2, PTL DEF Spec

(***************************************************************************)
(* The last active administrator is never lost: AdminRemains is inductive  *)
(* because a demotion or suspension leaves the other administrator alone.  *)
(***************************************************************************)
THEOREM AdministratorRemains == Spec => []AdminRemains
<1>1. Init => AdminRemains
  BY DEF Init, AdminRemains, ActiveAdmins
<1>2. TypeOK /\ AdminRemains /\ [Next]_vars => AdminRemains'
  <2> SUFFICES ASSUME TypeOK, AdminRemains, [Next]_vars PROVE AdminRemains'
    OBVIOUS
  <2> USE DEF TypeOK, AdminRemains, ActiveAdmins
  <2>1. PICK a \in ActiveAdmins : TRUE
    OBVIOUS
  <2>2. ASSUME NEW u \in Users, NEW r \in SelfServiceRoles, NEW v \in BOOLEAN, Register(u, r, v)
        PROVE  AdminRemains'
    BY <2>1, <2>2 DEF Register
  <2>3. ASSUME NEW u \in Users, VerifyEmail(u) PROVE AdminRemains'
    BY <2>1, <2>3 DEF VerifyEmail
  <2>4. ASSUME NEW u \in Users, BootstrapDemo(u) \/ RevokeDemo(u) PROVE AdminRemains'
    BY <2>1, <2>4 DEF BootstrapDemo, RevokeDemo
  <2>5. ASSUME NEW actor \in Users, NEW u \in Users, Approve(actor, u) PROVE AdminRemains'
    BY <2>1, <2>5 DEF Approve
  <2>6. ASSUME NEW actor \in Users, NEW u \in Users, NEW r \in Roles, ChangeRole(actor, u, r)
        PROVE  AdminRemains'
    <3>1. PICK b \in ActiveAdmins : b # u
      BY <2>1, <2>6 DEF ChangeRole, AnotherAdminRemains
    <3> QED
      BY <2>6, <3>1 DEF ChangeRole
  <2>7. ASSUME NEW actor \in Users, NEW u \in Users, NEW s \in Statuses, ChangeStatus(actor, u, s)
        PROVE  AdminRemains'
    <3>1. CASE s = "ACTIVE"
      BY <2>1, <2>7, <3>1 DEF ChangeStatus
    <3>2. CASE s # "ACTIVE"
      <4>1. PICK b \in ActiveAdmins : b # u
        BY <2>1, <2>7, <3>2 DEF ChangeStatus, AnotherAdminRemains
      <4> QED
        BY <2>7, <4>1 DEF ChangeStatus
    <3> QED
      BY <3>1, <3>2
  <2>8. ASSUME NEW r \in Rows,
               \/ IssueCode(r) \/ Disconnect(r) \/ ExpireCode(r)
               \/ \E u \in Users : Redeem(r, u)
        PROVE  AdminRemains'
    BY <2>8 DEF IssueCode, Disconnect, ExpireCode, Redeem, accounts
  <2>9. CASE UNCHANGED vars
    BY <2>9 DEF vars
  <2> QED
    BY <2>2, <2>3, <2>4, <2>5, <2>6, <2>7, <2>8, <2>9 DEF Next
<1> QED
  BY <1>1, <1>2, TypeCorrect, PTL DEF Spec

(***************************************************************************)
(* An account is approved before it is anything else: pending and rejected *)
(* accounts hold no privileged role, and active or suspended ones have a   *)
(* proven identity.                                                        *)
(***************************************************************************)
ApprovalInv == UnapprovedHoldNoPrivilege /\ ActiveAreVerified

(* Nobody holds a role approve_pending_member has not given, and nobody is *)
(* active without a proven identity.                                       *)
THEOREM ApprovalSound == Spec => [](UnapprovedHoldNoPrivilege /\ ActiveAreVerified)
<1>1. Init => ApprovalInv
  BY DEF Init, ApprovalInv, UnapprovedHoldNoPrivilege, ActiveAreVerified
<1>2. TypeOK /\ ApprovalInv /\ [Next]_vars => ApprovalInv'
  <2> SUFFICES ASSUME TypeOK, ApprovalInv, [Next]_vars PROVE ApprovalInv'
    OBVIOUS
  <2> USE DEF TypeOK, ApprovalInv, UnapprovedHoldNoPrivilege, ActiveAreVerified, SelfServiceRoles
  <2>1. ASSUME NEW u \in Users, NEW r \in SelfServiceRoles, NEW v \in BOOLEAN, Register(u, r, v)
        PROVE  ApprovalInv'
    BY <2>1 DEF Register
  <2>2. ASSUME NEW u \in Users, VerifyEmail(u) PROVE ApprovalInv'
    BY <2>2 DEF VerifyEmail
  <2>3. ASSUME NEW u \in Users, BootstrapDemo(u) \/ RevokeDemo(u) PROVE ApprovalInv'
    BY <2>3 DEF BootstrapDemo, RevokeDemo
  <2>4. ASSUME NEW actor \in Users, NEW u \in Users, Approve(actor, u) PROVE ApprovalInv'
    BY <2>4 DEF Approve
  <2>5. ASSUME NEW actor \in Users, NEW u \in Users, NEW r \in Roles, ChangeRole(actor, u, r)
        PROVE  ApprovalInv'
    BY <2>5 DEF ChangeRole
  <2>6. ASSUME NEW actor \in Users, NEW u \in Users, NEW s \in Statuses, ChangeStatus(actor, u, s)
        PROVE  ApprovalInv'
    BY <2>6 DEF ChangeStatus, StatusMoves
  <2>7. ASSUME NEW r \in Rows,
               \/ IssueCode(r) \/ Disconnect(r) \/ ExpireCode(r)
               \/ \E u \in Users : Redeem(r, u)
        PROVE  ApprovalInv'
    BY <2>7 DEF IssueCode, Disconnect, ExpireCode, Redeem, accounts
  <2>8. CASE UNCHANGED vars
    BY <2>8 DEF vars
  <2> QED
    BY <2>1, <2>2, <2>3, <2>4, <2>5, <2>6, <2>7, <2>8 DEF Next
<1> QED
  BY <1>1, <1>2, TypeCorrect, PTL DEF Spec, ApprovalInv

(***************************************************************************)
(* Links live only under a capable teacher, exclude codes and are unique   *)
(* in a classroom.  A linked entry has had a code (so RevokeLinks sees it).*)
(***************************************************************************)
LinkInv == /\ LinkedTeacherCapable
           /\ LinkStateConsistent
           /\ \A r \in Rows : link[r] # NoUser => serial[r] > 0
           /\ \A r \in Rows : code[r] # "none" => serial[r] > 0

(* Links end with the capability of their teacher, and are unique.         *)
THEOREM LinksSound == Spec => [](LinkedTeacherCapable /\ LinkStateConsistent)
<1>1. Init => LinkInv
  BY DEF Init, LinkInv, LinkedTeacherCapable, LinkStateConsistent
<1>2. TypeOK /\ LinkInv /\ [Next]_vars => LinkInv'
  <2> SUFFICES ASSUME TypeOK, LinkInv, [Next]_vars PROVE LinkInv'
    OBVIOUS
  <2> USE DEF TypeOK, LinkInv, LinkedTeacherCapable, LinkStateConsistent, TeacherCapable,
              accounts, roster
  <2>1. ASSUME NEW u \in Users, NEW r \in SelfServiceRoles, NEW v \in BOOLEAN, Register(u, r, v)
        PROVE  LinkInv'
    BY <2>1 DEF Register
  <2>2. ASSUME NEW u \in Users, VerifyEmail(u) PROVE LinkInv'
    BY <2>2 DEF VerifyEmail
  <2>3. ASSUME NEW u \in Users, BootstrapDemo(u) \/ RevokeDemo(u) PROVE LinkInv'
    <3>1. \A r \in Rows : TeacherOf[r] \in Users /\ TeacherOf[r] # u
      BY <2>3 DEF BootstrapDemo, RevokeDemo
    <3>2. UNCHANGED <<role, link, code, serial>> /\ \A w \in Users : w # u => status'[w] = status[w]
      BY <2>3 DEF BootstrapDemo, RevokeDemo
    <3> QED
      BY <3>1, <3>2
  <2>4. ASSUME NEW actor \in Users, NEW u \in Users, Approve(actor, u) PROVE LinkInv'
    BY <2>4 DEF Approve
  <2>5. ASSUME NEW actor \in Users, NEW u \in Users, NEW r \in Roles, ChangeRole(actor, u, r)
        PROVE  LinkInv'
    <3>1. CASE TeacherRole(role[u]) /\ TeacherRole(r)
      BY <2>5, <3>1 DEF ChangeRole
    <3>2. CASE ~(TeacherRole(role[u]) /\ TeacherRole(r))
      BY <2>5, <3>2 DEF ChangeRole, RevokeLinks, Shares
    <3> QED
      BY <3>1, <3>2
  <2>6. ASSUME NEW actor \in Users, NEW u \in Users, NEW s \in Statuses, ChangeStatus(actor, u, s)
        PROVE  LinkInv'
    <3>1. CASE status[u] = "ACTIVE"
      BY <2>6, <3>1 DEF ChangeStatus, RevokeLinks, Shares
    <3>2. CASE status[u] # "ACTIVE"
      BY <2>6, <3>2 DEF ChangeStatus
    <3> QED
      BY <3>1, <3>2
  <2>7. ASSUME NEW r \in Rows, IssueCode(r) PROVE LinkInv'
    BY <2>7 DEF IssueCode
  <2>8. ASSUME NEW r \in Rows, NEW u \in Users, Redeem(r, u) PROVE LinkInv'
    BY <2>8 DEF Redeem, LinkedInClassroom
  <2>9. ASSUME NEW r \in Rows, Disconnect(r) \/ ExpireCode(r) PROVE LinkInv'
    BY <2>9 DEF Disconnect, ExpireCode
  <2>10. CASE UNCHANGED vars
    BY <2>10 DEF vars
  <2> QED
    BY <2>1, <2>2, <2>3, <2>4, <2>5, <2>6, <2>7, <2>8, <2>9, <2>10 DEF Next
<1> QED
  BY <1>1, <1>2, TypeCorrect, PTL DEF Spec, LinkInv

(* An account is not made active before it has a login name or has proven   *)
(* an address (approve_pending_member), and does not lose either.           *)
THEOREM ActiveVerified == Spec => []ActiveAreVerified
<1> QED
  BY ApprovalSound, PTL

(* A roster entry never has a linked student and a live code at once, and   *)
(* no student holds two entries of a classroom (connect_student_account).   *)
THEOREM LinkedOnce == Spec => []LinkStateConsistent
<1> QED
  BY LinksSound, PTL
=============================================================================
