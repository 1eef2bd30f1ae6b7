------------------------------ MODULE AccountTxn ------------------------------
(***************************************************************************)
(* The web handlers that change accounts and classroom links, at the       *)
(* granularity PostgreSQL sees: a handler reads its session's account      *)
(* without a lock, then takes row locks one at a time (READ COMMITTED,     *)
(* SELECT ... FOR UPDATE; foreign keys take FOR KEY SHARE), decides on the *)
(* values it then holds, and commits or rolls back.  Refines Membership.   *)
(***************************************************************************)
EXTENDS Membership

CONSTANTS Procs,     \* concurrent requests
          NoRequest, NoRow

VARIABLES
    phase,   \* how far the request of a process has come
    req,     \* the request, with the account values it has read under its locks
    admins,  \* the active administrators it has locked
    todo,    \* the row locks its current statement still needs
    held     \* the row locks it holds: <<table, id, mode>>

txnVars == <<phase, req, admins, todo, held>>
allVars == <<vars, txnVars>>

MembershipKinds == {"approve", "role", "status"}
TeacherKinds == {"add", "rotate"}
ClassroomKinds == TeacherKinds \cup {"connect", "disconnect"}
Phases == {"idle", "start", "admins", "accounts", "links", "roster", "insert"}

Accounts == [role : AnyRole, status : Statuses \cup {"ABSENT"}]
Account(u) == [role |-> role[u], status |-> status[u]]

Requests ==
    [kind : MembershipKinds \cup ClassroomKinds, actor : Users, target : Users,
     arg : AnyRole \cup Statuses \cup {"none"}, row : Rows \cup {0}, code : 0..MaxSerial,
     actorRow : Accounts \cup {NoRow}, targetRow : Accounts \cup {NoRow}]

ASSUME TxnAssumption == NoRequest \notin Requests /\ NoRow \notin Accounts

Locks == ({"account"} \X Users \X {"update", "share"}) \cup ({"roster"} \X Rows \X {"update"})

TxnTypeOK ==
    /\ TypeOK
    /\ phase \in [Procs -> Phases]
    /\ req \in [Procs -> Requests \cup {NoRequest}]
    /\ \A p \in Procs : phase[p] = "idle" <=> req[p] = NoRequest
    /\ admins \in [Procs -> SUBSET Users]
    /\ todo \in [Procs -> SUBSET Locks]
    /\ held \in [Procs -> SUBSET Locks]

-----------------------------------------------------------------------------
(* Row locks.  An UPDATE lock excludes every other; key-share locks of     *)
(* several transactions are compatible.                                    *)

Conflict(l, m) == /\ <<l[1], l[2]>> = <<m[1], m[2]>>
                  /\ "update" \in {l[3], m[3]}

Blockers_NoForUpdate(p, l) == {}

Blockers(p, l) == {q \in Procs \ {p} : \E m \in held[q] : Conflict(l, m)}

(* One statement locks its rows in the order of its ORDER BY; the join of  *)
(* connect_student_account locks the roster entry before the teacher.      *)
Before(l, m) == \/ l[1] = "roster" /\ m[1] = "account"
                \/ l[1] = m[1] /\ l[2] <= m[2]

IsNext(p, l) == l \in todo[p] /\ \A m \in todo[p] : Before(l, m)

ForUpdate(table, ids) == {table} \X ids \X {"update"}
KeyShare(ids) == {"account"} \X ids \X {"share"}

WaitsFor(p, q) == \E l \in todo[p] : IsNext(p, l) /\ q \in Blockers(p, l)

(* p waits, directly or through others, for itself.                        *)
Deadlocked(p) ==
    \E n \in 1..Cardinality(Procs) : \E cycle \in [0..n -> Procs] :
        /\ cycle[0] = p /\ cycle[n] = p
        /\ \A i \in 1..n : WaitsFor(cycle[i - 1], cycle[i])

Unlocked(u) == \A q \in Procs : \A l \in held[q] : l[1] = "account" => l[2] # u

-----------------------------------------------------------------------------
InitTxn ==
    /\ Init
    /\ phase = [p \in Procs |-> "idle"]
    /\ req = [p \in Procs |-> NoRequest]
    /\ admins = [p \in Procs |-> {}]
    /\ todo = [p \in Procs |-> {}]
    /\ held = [p \in Procs |-> {}]

End(p) ==
    /\ phase' = [phase EXCEPT ![p] = "idle"]
    /\ req' = [req EXCEPT ![p] = NoRequest]
    /\ admins' = [admins EXCEPT ![p] = {}]
    /\ todo' = [todo EXCEPT ![p] = {}]
    /\ held' = [held EXCEPT ![p] = {}]

Refuse_NoRollback(p) ==
    /\ phase' = [phase EXCEPT ![p] = "idle"]
    /\ req' = [req EXCEPT ![p] = NoRequest]
    /\ todo' = [todo EXCEPT ![p] = {}]
    /\ UNCHANGED <<vars, admins, held>>

(* A MembershipError, a ClassroomLinkError or an IntegrityError: the       *)
(* handler rolls back, which releases every lock.                          *)
Refuse(p) == End(p) /\ UNCHANGED vars

(* The next statement of the handler, and the rows it has to lock.         *)
Execute(p, statement, locks) ==
    /\ phase' = [phase EXCEPT ![p] = statement]
    /\ todo' = [todo EXCEPT ![p] = locks]
    /\ UNCHANGED <<vars, req, admins, held>>

Granted(p, statement) == phase[p] = statement /\ todo[p] = {}

-----------------------------------------------------------------------------
(* The view decorators: session_user() compares the cookie's auth_version  *)
(* and reads role and status without a lock.                               *)

MayStart(u, kind) ==
    /\ u \notin DemoUsers
    /\ status[u] = "ACTIVE"
    /\ CASE kind = "approve" -> verified[u] /\ role[u] \in {"ADMIN", "ASSISTANT_ADMIN"}
         [] kind \in {"role", "status"} -> verified[u] /\ role[u] = "ADMIN"
         [] kind \in TeacherKinds -> TeacherRole(role[u])
         [] kind = "connect" -> verified[u] /\ role[u] = "STUDENT"
         [] kind = "disconnect" -> TeacherRole(role[u]) \/ (verified[u] /\ role[u] = "STUDENT")

Start(p, kind, actor, target, arg, row, n) ==
    /\ phase[p] = "idle"
    /\ MayStart(actor, kind)
    /\ phase' = [phase EXCEPT ![p] = "start"]
    /\ req' = [req EXCEPT ![p] =
                [kind |-> kind, actor |-> actor, target |-> target, arg |-> arg, row |-> row, code |-> n,
                 actorRow |-> NoRow, targetRow |-> NoRow]]
    /\ UNCHANGED <<vars, admins, todo, held>>

StartMembership(p) ==
    \E actor \in Users, target \in {u \in Users : status[u] # "ABSENT"} :
        \/ Start(p, "approve", actor, target, "none", 0, 0)
        \/ \E r \in Roles : Start(p, "role", actor, target, r, 0, 0)
        \/ \E s \in Statuses : Start(p, "status", actor, target, s, 0, 0)

(* A student redeems any code of an entry it was ever told.                *)
StartClassroom(p) ==
    \E actor \in Users, row \in Rows :
        /\ serial[row] > 0
        /\ \/ Start(p, "rotate", actor, actor, "none", row, 0)
           \/ Start(p, "disconnect", actor, actor, role[actor], row, 0)
           \/ \E n \in 1..serial[row] : Start(p, "connect", actor, actor, "none", row, n)

(* A new roster entry gets a fresh id, which no other request can name.    *)
StartAdd(p) ==
    \E row \in Rows :
        /\ serial[row] = 0
        /\ \A q \in Procs : req[q] # NoRequest => req[q].row # row
        /\ Start(p, "add", TeacherOf[row], TeacherOf[row], "none", row, 0)

-----------------------------------------------------------------------------
(* One row lock.  A membership handler re-reads the accounts it locks      *)
(* (populate_existing).  An account that has stopped being an active       *)
(* administrator by the time its lock is granted is not returned by the    *)
(* first statement, though it stays locked.                                *)

Reread(p, u) ==
    [req[p] EXCEPT !.actorRow = IF u = req[p].actor THEN Account(u) ELSE @,
                   !.targetRow = IF u = req[p].target THEN Account(u) ELSE @]

TakeLock(p) ==
    \E l \in todo[p] :
        /\ IsNext(p, l)
        /\ Blockers(p, l) = {}
        /\ held' = [held EXCEPT ![p] = @ \cup {l}]
        /\ todo' = [todo EXCEPT ![p] = @ \ {l}]
        /\ LET returned == \/ phase[p] = "accounts"
                           \/ phase[p] = "admins" /\ l[2] \in ActiveAdmins
           IN /\ req' = [req EXCEPT ![p] = IF returned THEN Reread(p, l[2]) ELSE @]
              /\ admins' = [admins EXCEPT ![p] =
                              IF returned /\ phase[p] = "admins" THEN @ \cup {l[2]} ELSE @]
        /\ UNCHANGED <<vars, phase>>

-----------------------------------------------------------------------------
(* _lock_membership_mutation_accounts: the active administrators by id,    *)
(* then whichever of actor and target is not among them.                   *)

LockAdmins(p) ==
    /\ phase[p] = "start"
    /\ req[p].kind \in MembershipKinds
    /\ Execute(p, "admins", ForUpdate("account", ActiveAdmins))

LockOthers(p) ==
    /\ Granted(p, "admins")
    /\ Execute(p, "accounts", ForUpdate("account", {req[p].actor, req[p].target} \ admins[p]))

(* The guards of approve_pending_member, change_member_role and            *)
(* change_member_status, over the values read under the locks.             *)

ActorPermitted_TrustsDecorator(q) == TRUE

ActorPermitted(q) ==
    /\ q.actorRow.status = "ACTIVE"
    /\ q.actorRow.role \in IF q.kind = "approve" THEN {"ADMIN", "ASSISTANT_ADMIN"} ELSE {"ADMIN"}

LastAdmin(p) == req[p].targetRow.role = "ADMIN" /\ Cardinality(admins[p]) <= 1

ApproveAllowed_Unverified(q) ==
    /\ q.target # q.actor
    /\ q.targetRow.role \in SelfServiceRoles
    /\ q.targetRow.status = "PENDING_APPROVAL"

ApproveAllowed(q) ==
    /\ q.target # q.actor
    /\ q.targetRow.role \in SelfServiceRoles
    /\ q.targetRow.status = "PENDING_APPROVAL"
    /\ verified[q.target]

RoleAllowed_AnyStatus(p) == req[p].targetRow.role # req[p].arg /\ ~LastAdmin(p)

RoleAllowed(p) ==
    /\ req[p].targetRow.status = "ACTIVE"
    /\ req[p].targetRow.role # req[p].arg
    /\ ~LastAdmin(p)

StatusAllowed(p) ==
    /\ req[p].arg # "ACTIVE" => ~LastAdmin(p)
    /\ <<req[p].targetRow.status, req[p].arg>> \in StatusMoves

Allowed(p) ==
    /\ ActorPermitted(req[p])
    /\ req[p].target \notin DemoUsers
    /\ CASE req[p].kind = "approve" -> ApproveAllowed(req[p])
         [] req[p].kind = "role" -> RoleAllowed(p)
         [] req[p].kind = "status" -> StatusAllowed(p)

EndsSharing_RoleOnly(q) == q.kind = "role" /\ ~TeacherRole(q.arg)

EndsSharing(q) ==
    \/ q.kind = "role" /\ ~(TeacherRole(q.targetRow.role) /\ TeacherRole(q.arg))
    \/ q.kind = "status" /\ q.targetRow.status = "ACTIVE"

Decide(p) ==
    /\ Granted(p, "accounts")
    /\ IF Allowed(p)
       THEN Execute(p, "links", IF EndsSharing(req[p])
                                THEN ForUpdate("roster", {r \in Rows : Shares(r, req[p].target)})
                                ELSE {})
       ELSE Refuse(p)

LockedRows(p) == {r \in Rows : <<"roster", r, "update">> \in held[p]}

CommitMembership(p) ==
    /\ Granted(p, "links")
    /\ LET t == req[p].target
           revoked == {r \in LockedRows(p) : Shares(r, t)}
           next == CASE req[p].kind = "approve" -> "ACTIVE"
                     [] req[p].kind = "status" -> req[p].arg
                     [] OTHER -> status[t]
       IN /\ status' = [status EXCEPT ![t] = next]
          /\ role' = [role EXCEPT ![t] = IF req[p].kind = "role" THEN req[p].arg ELSE @]
          /\ link' = [r \in Rows |-> IF r \in revoked THEN NoUser ELSE link[r]]
          /\ code' = [r \in Rows |-> IF r \in revoked THEN "none" ELSE code[r]]
    /\ UNCHANGED <<verified, serial>>
    /\ End(p)

-----------------------------------------------------------------------------
(* Classroom handlers: find the roster entry and lock it, look at it under *)
(* the lock, then write; the audit event's foreign key needs the actor's   *)
(* account row (FOR KEY SHARE) before the transaction can commit.          *)

Names(q) == code[q.row] # "none" /\ serial[q.row] = q.code

FindRow(p) ==
    /\ phase[p] = "start"
    /\ LET r == req[p].row
           u == req[p].actor
       IN CASE req[p].kind = "add" -> Execute(p, "insert", KeyShare({u}))
            [] req[p].kind = "rotate" ->
                 IF TeacherOf[r] = u THEN Execute(p, "roster", ForUpdate("roster", {r}))
                                     ELSE Refuse(p)
            [] req[p].kind = "connect" ->
                 IF Names(req[p]) /\ code[r] = "live" /\ TeacherCapable(TeacherOf[r])
                 THEN Execute(p, "roster", ForUpdate("roster", {r})
                                             \cup ForUpdate("account", {TeacherOf[r]}))
                 ELSE Refuse(p)
            [] req[p].kind = "disconnect" -> Execute(p, "roster", ForUpdate("roster", {r}))
            [] OTHER -> FALSE

(* disconnect_student_account: the owning teacher or the linked student,   *)
(* by the role the session's (then active) account had when it was read.   *)
MayDisconnect(q) ==
    \/ TeacherRole(q.arg) /\ TeacherOf[q.row] = q.actor
    \/ q.arg = "STUDENT" /\ link[q.row] = q.actor

RowAccepts_Relinks(q) ==
    CASE q.kind = "rotate" -> serial[q.row] < MaxSerial
      [] q.kind = "connect" -> /\ Names(q)
                               /\ TeacherCapable(TeacherOf[q.row])
                               /\ link[q.row] = NoUser
                               /\ ~LinkedInClassroom(q.row, q.actor)
      [] q.kind = "disconnect" -> link[q.row] # NoUser /\ MayDisconnect(q)
      [] OTHER -> FALSE

RowAccepts_StaleCode(q) ==
    CASE q.kind = "rotate" -> link[q.row] = NoUser /\ serial[q.row] < MaxSerial
      [] q.kind = "connect" -> /\ code[q.row] # "none"
                               /\ TeacherCapable(TeacherOf[q.row])
                               /\ link[q.row] = NoUser
                               /\ ~LinkedInClassroom(q.row, q.actor)
      [] q.kind = "disconnect" -> link[q.row] # NoUser /\ MayDisconnect(q)
      [] OTHER -> FALSE

RowAccepts(q) ==
    CASE q.kind = "rotate" -> link[q.row] = NoUser /\ serial[q.row] < MaxSerial
      [] q.kind = "connect" -> /\ Names(q)
                               /\ TeacherCapable(TeacherOf[q.row])
                               /\ link[q.row] = NoUser
                               /\ ~LinkedInClassroom(q.row, q.actor)
      [] q.kind = "disconnect" -> link[q.row] # NoUser /\ MayDisconnect(q)
      [] OTHER -> FALSE

CheckRow(p) ==
    /\ Granted(p, "roster")
    /\ IF RowAccepts(req[p]) THEN Execute(p, "insert", KeyShare({req[p].actor})) ELSE Refuse(p)

(* The database refuses a second entry of one student in one classroom     *)
(* (UNIQUE), whichever of two handlers gets that far first.                *)
CommitClassroom(p) ==
    /\ Granted(p, "insert")
    /\ LET r == req[p].row
           u == req[p].actor
           redeems == req[p].kind = "connect"
       IN IF redeems /\ LinkedInClassroom(r, u)
          THEN Refuse(p)
          ELSE /\ link' = [link EXCEPT ![r] = IF redeems THEN u ELSE NoUser]
               /\ code' = [code EXCEPT ![r] =
                              IF req[p].kind \in TeacherKinds THEN "live" ELSE "none"]
               /\ serial' = [serial EXCEPT ![r] =
                                IF req[p].kind \in TeacherKinds THEN @ + 1 ELSE @]
               /\ UNCHANGED accounts
               /\ End(p)

-----------------------------------------------------------------------------
(* PostgreSQL's deadlock detector aborts a transaction of a wait cycle; a  *)
(* worker or a connection may be lost at any point.  Both roll back.       *)
AbortDeadlock(p) == Deadlocked(p) /\ Refuse(p)
Crash(p) == phase[p] # "idle" /\ Refuse(p)

(* Sign-in, credential changes, the demo bootstrap and the clock, each     *)
(* one short transaction on rows nobody else has locked.                   *)
Environment ==
    /\ \/ \E u \in Users :
            /\ Unlocked(u)
            /\ \/ \E r \in SelfServiceRoles \cap Roles, v \in BOOLEAN : Register(u, r, v)
               \/ VerifyEmail(u)
               \/ BootstrapDemo(u)
               \/ RevokeDemo(u)
       \/ \E r \in Rows : ExpireCode(r)
    /\ UNCHANGED txnVars

Step(p) ==
    \/ TakeLock(p)
    \/ LockAdmins(p)
    \/ LockOthers(p)
    \/ Decide(p)
    \/ CommitMembership(p)
    \/ FindRow(p)
    \/ CheckRow(p)
    \/ CommitClassroom(p)
    \/ AbortDeadlock(p)

NextTxn ==
    \/ Environment
    \/ \E p \in Procs :
        \/ StartMembership(p)
        \/ StartClassroom(p)
        \/ StartAdd(p)
        \/ Step(p)
        \/ Crash(p)

SpecTxn == InitTxn /\ [][NextTxn]_allVars

(* The application server runs every request to its end, and PostgreSQL    *)
(* queues the transactions that wait for one row.                          *)
Fairness == \A p \in Procs : SF_allVars(TakeLock(p)) /\ WF_allVars(Step(p))

-----------------------------------------------------------------------------
(* Every committed transaction is a step Membership allows: an account is  *)
(* changed only by somebody who is entitled to it at that moment, and the  *)
(* links and codes it ends are exactly those of the account.               *)
PromisedSteps == [][Next]_vars

(* A link is made only with the code the student typed, while that is the  *)
(* entry's newest code and nobody has used it: a code that the teacher has *)
(* replaced, or that another student has redeemed, is worth nothing, also  *)
(* to a request that found it valid before it waited for the row.          *)
CurrentCodeRedeemed ==
    [][\A r \in Rows : link'[r] # link[r] /\ link'[r] # NoUser =>
          /\ code[r] # "none"
          /\ \E p \in Procs : /\ req[p] # NoRequest
                             /\ <<req[p].kind, req[p].row>> = <<"connect", r>>
                             /\ <<req[p].actor, req[p].code>> = <<link'[r], serial[r]>>]_vars

(* Whoever was an administrator when the request came in is still one when *)
(* the decision is committed, however long the request waited for locks.   *)
DecidedByAdministrator ==
    [][\A p \in Procs : phase[p] = "links" /\ phase'[p] = "idle" /\ accounts' # accounts =>
          /\ status[req[p].actor] = "ACTIVE"
          /\ \/ role[req[p].actor] = "ADMIN"
             \/ role[req[p].actor] = "ASSISTANT_ADMIN" /\ req[p].kind = "approve"]_allVars

(* Every request gets an answer: waits end, and the detector breaks the    *)
(* cycles that membership and classroom handlers can form.                 *)
RequestsEnd == \A p \in Procs : phase[p] # "idle" ~> phase[p] = "idle"

(* "suspension or a role change discards shares immediately": a linked     *)
(* account is an active student.                                           *)
LinkedIsActiveStudent ==
    \A r \in Rows : link[r] # NoUser => status[link[r]] = "ACTIVE" /\ role[link[r]] = "STUDENT"
=============================================================================
