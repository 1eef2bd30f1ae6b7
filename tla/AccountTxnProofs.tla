---------------------------- MODULE AccountTxnProofs ----------------------------
(***************************************************************************)
(* The handlers with their row locks implement Membership, for any number  *)
(* of accounts, roster entries and concurrent requests.  The invariant     *)
(* says, for each statement a request may have come to, which rows it has  *)
(* locked and that what it has read under a lock is still so; a commit of  *)
(* another request respects the locks, and so leaves all of that alone.    *)
(***************************************************************************)
EXTENDS AccountTxn, MembershipProofs, FiniteSetTheorems

USE UsersAssumption, RowsAssumption, RootAssumption, MaxSerialAssumption, RolesAssumption

-----------------------------------------------------------------------------
AccountLock(u) == <<"account", u, "update">>
KeyLock(u) == <<"account", u, "share">>
RowLock(r) == <<"roster", r, "update">>

RowKinds == {"rotate", "connect", "disconnect"}

(* What the decorators have seen, and does not change any more.             *)
Begun(q) ==
    /\ q.actor \notin DemoUsers
    /\ q.kind = "role" => q.arg \in Roles
    /\ q.kind = "status" => q.arg \in Statuses
    /\ q.kind \in MembershipKinds => q.row = 0
    /\ q.kind \in ClassroomKinds => q.row \in Rows /\ Approved(q.actor)
    /\ q.kind = "add" => TeacherOf[q.row] = q.actor /\ serial[q.row] = 0
    /\ q.kind \in RowKinds => serial[q.row] > 0

(* The account is locked, and the request has the values it has now.        *)
Current(q, u, hd) ==
    /\ AccountLock(u) \in hd
    /\ u = q.actor => q.actorRow = Account(u)
    /\ u = q.target => q.targetRow = Account(u)

Selected(q, ad, hd) == \A a \in ad : Current(q, a, hd) /\ a \in ActiveAdmins

AnotherAdmin(q, ad) == q.targetRow.role = "ADMIN" => \E a \in ad : a # q.target

Decided(q, ad) ==
    /\ ActorPermitted(q)
    /\ q.target \notin DemoUsers
    /\ q.kind = "approve" => ApproveAllowed(q)
    /\ q.kind = "role" => /\ q.targetRow.status = "ACTIVE" /\ q.targetRow.role # q.arg
                          /\ AnotherAdmin(q, ad)
    /\ q.kind = "status" => /\ <<q.targetRow.status, q.arg>> \in StatusMoves
                            /\ q.arg # "ACTIVE" => AnotherAdmin(q, ad)

RowFound(q, hd) ==
    /\ q.kind # "add" => RowLock(q.row) \in hd
    /\ q.kind = "rotate" => TeacherOf[q.row] = q.actor
    /\ q.kind = "connect" => AccountLock(TeacherOf[q.row]) \in hd

RowAccepted(q) ==
    /\ q.kind = "rotate" => link[q.row] = NoUser /\ serial[q.row] < MaxSerial
    /\ q.kind = "connect" => Names(q) /\ TeacherCapable(TeacherOf[q.row]) /\ link[q.row] = NoUser
    /\ q.kind = "disconnect" => link[q.row] # NoUser

(* A request q that has come to statement ph, with the administrators ad,   *)
(* the locks td it is waiting for and the locks hd it has got.              *)
SoundAdmins(q, ad, td, hd) ==
    /\ q.kind \in MembershipKinds
    /\ Selected(q, ad, hd)
    /\ td \subseteq {AccountLock(u) : u \in Users} /\ hd \subseteq {AccountLock(u) : u \in Users}

SoundAccounts(q, ad, td, hd) ==
    /\ SoundAdmins(q, ad, td, hd)
    /\ td \subseteq {AccountLock(q.actor), AccountLock(q.target)}
    /\ \A u \in {q.actor, q.target} : AccountLock(u) \in td \/ Current(q, u, hd)

SoundLinks(q, ad, td, hd) ==
    /\ q.kind \in MembershipKinds
    /\ Selected(q, ad, hd)
    /\ Current(q, q.actor, hd) /\ Current(q, q.target, hd)
    /\ Decided(q, ad)
    /\ td \subseteq {RowLock(r) : r \in Rows}
    /\ \A r \in Rows : IF EndsSharing(q) THEN Shares(r, q.target) => RowLock(r) \in td \cup hd
                                         ELSE RowLock(r) \notin td \cup hd

SoundRoster(q, td, hd) ==
    /\ q.kind \in RowKinds
    /\ RowFound(q, td \cup hd)

SoundInsert(q, td, hd) ==
    /\ q.kind \in ClassroomKinds
    /\ RowFound(q, hd) /\ RowAccepted(q)
    /\ KeyLock(q.actor) \in td \cup hd

Sound(ph, q, ad, td, hd) ==
    /\ ph \in Phases /\ ad \subseteq Users /\ td \subseteq Locks /\ hd \subseteq Locks
    /\ ph = "idle" => q = NoRequest
    /\ ph \in {"idle", "start"} => ad = {} /\ td = {} /\ hd = {}
    /\ ph # "idle" => q \in Requests /\ Begun(q)
    /\ ph = "admins" => SoundAdmins(q, ad, td, hd)
    /\ ph = "accounts" => SoundAccounts(q, ad, td, hd)
    /\ ph = "links" => SoundLinks(q, ad, td, hd)
    /\ ph = "roster" => SoundRoster(q, td, hd)
    /\ ph = "insert" => SoundInsert(q, td, hd)

(* Row locks do exclude, and a new roster entry is nobody else's business.  *)
Exclusive ==
    \A p \in Procs : \A q \in Procs \ {p} :
        /\ \A u \in Users : AccountLock(u) \in held[p] => held[q] \cap {AccountLock(u), KeyLock(u)} = {}
        /\ \A r \in Rows : RowLock(r) \in held[p] => RowLock(r) \notin held[q]

AddAlone ==
    \A p \in Procs : \A q \in Procs \ {p} :
        phase[p] # "idle" /\ phase[q] # "idle" /\ req[p].kind = "add" => req[q].row # req[p].row

NewEntriesFree == \A r \in Rows : serial[r] = 0 => link[r] = NoUser

Tables ==
    /\ phase = [p \in Procs |-> phase[p]] /\ req = [p \in Procs |-> req[p]]
    /\ admins = [p \in Procs |-> admins[p]] /\ todo = [p \in Procs |-> todo[p]]
    /\ held = [p \in Procs |-> held[p]]

TxnInv ==
    /\ TypeOK /\ Tables
    /\ \A p \in Procs : Sound(phase[p], req[p], admins[p], todo[p], held[p])
    /\ Exclusive
    /\ AddAlone
    /\ NewEntriesFree

-----------------------------------------------------------------------------
(* What a step may do to the accounts and the roster while request o is     *)
(* under way: locked rows stay as they are, but for a code that expires,    *)
(* and nobody begins to share with an account that is locked.               *)
Respected(o) ==
    /\ \A u \in Users : AccountLock(u) \in held[o] =>
         role'[u] = role[u] /\ status'[u] = status[u] /\ verified'[u] = verified[u]
    /\ \A r \in Rows : RowLock(r) \in held[o] /\ serial[r] > 0 =>
         link'[r] = link[r] /\ serial'[r] = serial[r] /\ (code[r] # "none" => code'[r] # "none")
    /\ \A r \in Rows, u \in Users : AccountLock(u) \in held[o] /\ Shares(r, u)' => Shares(r, u)
    /\ \A u \in Users : Approved(u) => Approved(u)'
    /\ \A r \in Rows : serial[r] > 0 => serial'[r] > 0
    /\ phase[o] # "idle" /\ req[o].kind = "add" => serial'[req[o].row] = serial[req[o].row]

LEMMA BegunLasts ==
    ASSUME NEW o, NEW q \in Requests, Respected(o), phase[o] # "idle", q = req[o], Begun(q)
    PROVE  Begun(q)'
<1>1. q.actor \in Users
  BY DEF Requests
<1> QED
  BY <1>1 DEF Begun, Respected, ClassroomKinds, MembershipKinds, RowKinds, TeacherKinds

LEMMA CurrentLasts ==
    ASSUME NEW o, NEW u \in Users, NEW q, NEW hd, Respected(o), hd = held[o], Current(q, u, hd)
    PROVE  Current(q, u, hd)' /\ Account(u)' = Account(u) /\ verified'[u] = verified[u]
  BY DEF Respected, Current, Account

LEMMA SelectedLasts ==
    ASSUME NEW o, NEW q, NEW ad \in SUBSET Users, NEW hd, Respected(o), hd = held[o], Selected(q, ad, hd)
    PROVE  Selected(q, ad, hd)'
<1> SUFFICES ASSUME NEW a \in ad PROVE Current(q, a, hd)' /\ (a \in ActiveAdmins)'
  BY DEF Selected
<1>1. Current(q, a, hd) /\ a \in ActiveAdmins /\ a \in Users
  BY DEF Selected
<1>2. AccountLock(a) \in held[o]
  BY <1>1 DEF Current
<1>3. role'[a] = role[a] /\ status'[a] = status[a]
  BY <1>1, <1>2 DEF Respected
<1> QED
  BY <1>1, <1>3, CurrentLasts DEF ActiveAdmins

LEMMA LinksLast ==
    ASSUME NEW o, NEW q \in Requests, NEW ad \in SUBSET Users, NEW td, NEW hd,
           Respected(o), hd = held[o], SoundLinks(q, ad, td, hd)
    PROVE  SoundLinks(q, ad, td, hd)'
<1>1. q.actor \in Users /\ q.target \in Users
  BY DEF Requests
<1>2. Current(q, q.actor, hd)' /\ Current(q, q.target, hd)' /\ verified'[q.target] = verified[q.target]
  BY <1>1, CurrentLasts DEF SoundLinks
<1>3. Selected(q, ad, hd)'
  BY SelectedLasts DEF SoundLinks
<1>4. Decided(q, ad)'
  BY <1>2 DEF SoundLinks, Decided, ApproveAllowed, ActorPermitted, AnotherAdmin
<1>5. AccountLock(q.target) \in held[o]
  BY DEF SoundLinks, Current
<1>6. \A r \in Rows : Shares(r, q.target)' => Shares(r, q.target)
  BY <1>1, <1>5 DEF Respected
<1>7. EndsSharing(q)' <=> EndsSharing(q)
  BY DEF EndsSharing
<1> QED
  BY <1>2, <1>3, <1>4, <1>6, <1>7 DEF SoundLinks

LEMMA InsertLasts ==
    ASSUME NEW o, NEW q \in Requests, NEW td, NEW hd, q.row \in Rows, Begun(q), Respected(o), hd = held[o],
           SoundInsert(q, td, hd)
    PROVE  SoundInsert(q, td, hd)'
<1>1. TeacherOf[q.row] \in Users
  OBVIOUS
<1>2. ASSUME q.kind # "add"
      PROVE  /\ link'[q.row] = link[q.row] /\ serial'[q.row] = serial[q.row]
             /\ code[q.row] # "none" => code'[q.row] # "none"
  <2>1. q.kind \in RowKinds
    BY <1>2 DEF SoundInsert, ClassroomKinds, TeacherKinds, RowKinds
  <2>2. serial[q.row] > 0
    BY <2>1 DEF Begun
  <2> QED
    BY <1>2, <2>2 DEF SoundInsert, RowFound, Respected
<1>3. q.kind = "connect" => (TeacherCapable(TeacherOf[q.row]) => TeacherCapable(TeacherOf[q.row])')
  BY <1>1 DEF SoundInsert, RowFound, Respected, TeacherCapable
<1>4. RowAccepted(q)'
  <2>1. CASE q.kind = "connect"
    <3>1. TeacherCapable(TeacherOf[q.row])'
      BY <1>3, <2>1 DEF SoundInsert, RowAccepted
    <3>2. Names(q)' /\ link'[q.row] = NoUser
      BY <1>2, <2>1 DEF SoundInsert, RowAccepted, Names
    <3> QED
      BY <2>1, <3>1, <3>2 DEF RowAccepted
  <2>2. CASE q.kind # "connect"
    BY <1>2, <2>2 DEF SoundInsert, RowAccepted
  <2> QED
    BY <2>1, <2>2
<1> QED
  BY <1>4 DEF SoundInsert, RowFound

LEMMA SoundLasts ==
    ASSUME NEW o, NEW ph, NEW q, NEW ad, NEW td, NEW hd, Respected(o),
           ph = phase[o], q = req[o], hd = held[o], Sound(ph, q, ad, td, hd)
    PROVE  Sound(ph, q, ad, td, hd)'
<1>1. ph # "idle" => q \in Requests /\ q.actor \in Users /\ q.target \in Users /\ Begun(q)'
  BY BegunLasts DEF Sound, Requests
<1>2. ad \in SUBSET Users
  BY DEF Sound
<1>3. ph = "admins" => SoundAdmins(q, ad, td, hd)'
  BY <1>2, SelectedLasts DEF Sound, SoundAdmins
<1>4. ph = "accounts" => SoundAccounts(q, ad, td, hd)'
  <2> SUFFICES ASSUME ph = "accounts" PROVE SoundAccounts(q, ad, td, hd)'
    OBVIOUS
  <2>1. SoundAccounts(q, ad, td, hd)
    BY DEF Sound
  <2>2. SoundAdmins(q, ad, td, hd)'
    BY <1>2, <2>1, SelectedLasts DEF SoundAccounts, SoundAdmins
  <2>3. \A u \in {q.actor, q.target} : AccountLock(u) \in td \/ Current(q, u, hd)'
    BY <1>1, <2>1, CurrentLasts DEF SoundAccounts
  <2> QED
    BY <2>1, <2>2, <2>3 DEF SoundAccounts
<1>5. ph = "links" => SoundLinks(q, ad, td, hd)'
  BY <1>1, <1>2, LinksLast DEF Sound
<1>6. ph = "roster" => SoundRoster(q, td, hd)'
  BY DEF Sound, SoundRoster, RowFound
<1>7. ph = "insert" => SoundInsert(q, td, hd)'
  <2>1. ph = "insert" => q.row \in Rows /\ Begun(q)
    BY DEF Sound, SoundInsert, Begun
  <2> QED
    BY <1>1, <2>1, InsertLasts DEF Sound
<1> QED
  BY <1>1, <1>3, <1>4, <1>5, <1>6, <1>7 DEF Sound

LEMMA UnchangedRespects ==
    ASSUME UNCHANGED vars, NEW o
    PROVE  Respected(o)
  BY DEF vars, Respected, Shares, Approved

-----------------------------------------------------------------------------
(* A step of request p, which leaves the others where they are.             *)
Moves(p, ph, q, ad, td, hd) ==
    /\ phase' = [phase EXCEPT ![p] = ph]
    /\ req' = [req EXCEPT ![p] = q]
    /\ admins' = [admins EXCEPT ![p] = ad]
    /\ todo' = [todo EXCEPT ![p] = td]
    /\ held' = [held EXCEPT ![p] = hd]

LEMMA OthersMove ==
    ASSUME TxnInv, NEW p \in Procs, NEW ph, NEW q, NEW ad, NEW td, NEW hd, Moves(p, ph, q, ad, td, hd)
    PROVE  /\ Tables'
           /\ phase'[p] = ph /\ req'[p] = q /\ admins'[p] = ad /\ todo'[p] = td /\ held'[p] = hd
           /\ \A o \in Procs \ {p} :
                /\ phase'[o] = phase[o] /\ req'[o] = req[o] /\ admins'[o] = admins[o]
                /\ todo'[o] = todo[o] /\ held'[o] = held[o]
  BY DEF TxnInv, Tables, Moves

(* It keeps the invariant when what it is left with is sound, it has taken  *)
(* no lock that conflicts with those of others, and the entry it adds, if   *)
(* any, is its own.                                                         *)
NoConflict(p, hd) ==
    \A o \in Procs \ {p} :
        /\ \A u \in Users : /\ AccountLock(u) \in hd => held[o] \cap {AccountLock(u), KeyLock(u)} = {}
                            /\ AccountLock(u) \in held[o] => hd \cap {AccountLock(u), KeyLock(u)} = {}
        /\ \A r \in Rows : RowLock(r) \in hd => RowLock(r) \notin held[o]

OwnEntry(p, ph, q) ==
    \A o \in Procs \ {p} : ph # "idle" /\ phase[o] # "idle" =>
        /\ q.kind = "add" => req[o].row # q.row
        /\ req[o].kind = "add" => q.row # req[o].row

LEMMA MovePreserves ==
    ASSUME TxnInv, TypeOK', NewEntriesFree',
           NEW p \in Procs, NEW ph, NEW q, NEW ad, NEW td, NEW hd, Moves(p, ph, q, ad, td, hd),
           Sound(ph, q, ad, td, hd)', NoConflict(p, hd), OwnEntry(p, ph, q),
           \A o \in Procs \ {p} : Respected(o)
    PROVE  TxnInv'
<1>1. /\ Tables'
      /\ phase'[p] = ph /\ req'[p] = q /\ admins'[p] = ad /\ todo'[p] = td /\ held'[p] = hd
      /\ \A o \in Procs \ {p} :
           /\ phase'[o] = phase[o] /\ req'[o] = req[o] /\ admins'[o] = admins[o]
           /\ todo'[o] = todo[o] /\ held'[o] = held[o]
  BY OthersMove
<1>2. ASSUME NEW o \in Procs
      PROVE  Sound(phase[o], req[o], admins[o], todo[o], held[o])'
  <2>1. CASE o = p
    BY <1>1, <2>1
  <2>2. CASE o # p
    <3>1. Sound(phase[o], req[o], admins[o], todo[o], held[o]) /\ Respected(o)
      BY <2>2 DEF TxnInv
    <3>2. UNCHANGED <<phase[o], req[o], admins[o], todo[o], held[o]>>
      BY <1>1, <2>2
    <3> QED
      BY <3>1, <3>2, SoundLasts
  <2> QED
    BY <2>1, <2>2
<1>3. Exclusive'
  BY <1>1 DEF Exclusive, TxnInv, NoConflict
<1>4. AddAlone'
  BY <1>1 DEF AddAlone, TxnInv, OwnEntry
<1> QED
  BY <1>1, <1>2, <1>3, <1>4 DEF TxnInv

-----------------------------------------------------------------------------
(* Steps that write nothing yet.                                            *)
LEMMA SoundSame ==
    ASSUME UNCHANGED vars, NEW ph, NEW q, NEW ad, NEW td, NEW hd, Sound(ph, q, ad, td, hd)
    PROVE  Sound(ph, q, ad, td, hd)'
<1> USE DEF vars
<1>1. Begun(q) => Begun(q)'
  BY DEF Begun, Approved
<1>2. \A u : Current(q, u, hd) => Current(q, u, hd)'
  BY DEF Current, Account
<1>3. Selected(q, ad, hd) => Selected(q, ad, hd)'
  BY <1>2 DEF Selected, ActiveAdmins
<1>4. SoundAdmins(q, ad, td, hd) => SoundAdmins(q, ad, td, hd)'
  BY <1>3 DEF SoundAdmins
<1>5. SoundAccounts(q, ad, td, hd) => SoundAccounts(q, ad, td, hd)'
  BY <1>2, <1>4 DEF SoundAccounts
<1>6. SoundLinks(q, ad, td, hd) => SoundLinks(q, ad, td, hd)'
  <2>1. Decided(q, ad) => Decided(q, ad)'
    BY DEF Decided, ApproveAllowed, ActorPermitted, AnotherAdmin
  <2>2. \A r \in Rows : Shares(r, q.target)' <=> Shares(r, q.target)
    BY DEF Shares
  <2>3. EndsSharing(q)' <=> EndsSharing(q)
    BY DEF EndsSharing
  <2> QED
    BY <1>2, <1>3, <2>1, <2>2, <2>3 DEF SoundLinks
<1>7. SoundRoster(q, td, hd) => SoundRoster(q, td, hd)'
  BY DEF SoundRoster, RowFound
<1>8. SoundInsert(q, td, hd) => SoundInsert(q, td, hd)'
  BY DEF SoundInsert, RowFound, RowAccepted, Names, TeacherCapable
<1> QED
  BY <1>1, <1>4, <1>5, <1>6, <1>7, <1>8 DEF Sound

LEMMA ReadingPreserves ==
    ASSUME TxnInv, UNCHANGED vars,
           NEW p \in Procs, NEW ph, NEW q, NEW ad, NEW td, NEW hd, Moves(p, ph, q, ad, td, hd),
           Sound(ph, q, ad, td, hd), NoConflict(p, hd), OwnEntry(p, ph, q)
    PROVE  TxnInv'
<1>1. TypeOK' /\ NewEntriesFree'
  BY DEF TxnInv, TypeOK, NewEntriesFree, vars
<1>2. Sound(ph, q, ad, td, hd)'
  BY SoundSame
<1>3. \A o \in Procs \ {p} : Respected(o)
  BY UnchangedRespects
<1> QED
  BY <1>1, <1>2, <1>3, MovePreserves

(* Locks that were held are no conflict, and a request that goes on names   *)
(* the same entry.                                                          *)
LEMMA SameLocks ==
    ASSUME TxnInv, NEW p \in Procs, NEW hd \in SUBSET held[p]
    PROVE  NoConflict(p, hd)
  BY DEF TxnInv, Exclusive, NoConflict

LEMMA SameEntry ==
    ASSUME TxnInv, NEW p \in Procs, NEW ph, NEW q,
           ph = "idle" \/ (phase[p] # "idle" /\ q.kind = req[p].kind /\ q.row = req[p].row)
    PROVE  OwnEntry(p, ph, q)
  BY DEF TxnInv, AddAlone, OwnEntry

LEMMA RequestSound ==
    ASSUME TxnInv, NEW p \in Procs
    PROVE  /\ Sound(phase[p], req[p], admins[p], todo[p], held[p])
           /\ phase[p] # "idle" =>
                /\ req[p] \in Requests /\ Begun(req[p])
                /\ req[p].actor \in Users /\ req[p].target \in Users
           /\ todo[p] \subseteq Locks /\ held[p] \subseteq Locks /\ admins[p] \subseteq Users
  BY DEF TxnInv, Sound, Requests

LEMMA RefusePreserves ==
    ASSUME TxnInv, NEW p \in Procs, Refuse(p)
    PROVE  TxnInv'
<1>1. Moves(p, "idle", NoRequest, {}, {}, {}) /\ UNCHANGED vars
  BY DEF Refuse, End, Moves
<1>2. Sound("idle", NoRequest, {}, {}, {})
  BY DEF Sound, Phases
<1> QED
  BY <1>1, <1>2, SameLocks, SameEntry, ReadingPreserves

LEMMA ExecutePreserves ==
    ASSUME TxnInv, NEW p \in Procs, NEW statement, NEW locks, Execute(p, statement, locks),
           phase[p] # "idle", Sound(statement, req[p], admins[p], locks, held[p])
    PROVE  TxnInv'
<1>1. Moves(p, statement, req[p], admins[p], locks, held[p]) /\ UNCHANGED vars
  BY DEF Execute, Moves, TxnInv, Tables
<1> QED
  BY <1>1, SameLocks, SameEntry, ReadingPreserves

LEMMA StartPreserves ==
    ASSUME TxnInv, NEW p \in Procs, NEW kind \in MembershipKinds \cup ClassroomKinds,
           NEW actor \in Users, NEW target \in Users, NEW arg \in AnyRole \cup Statuses \cup {"none"},
           NEW row \in Rows \cup {0}, NEW n \in 0..MaxSerial, Start(p, kind, actor, target, arg, row, n),
           kind = "role" => arg \in Roles, kind = "status" => arg \in Statuses,
           kind \in MembershipKinds => row = 0, kind \in ClassroomKinds => row \in Rows,
           kind \in RowKinds => serial[row] > 0,
           kind = "add" => /\ TeacherOf[row] = actor /\ serial[row] = 0
                           /\ \A o \in Procs : req[o] # NoRequest => req[o].row # row
    PROVE  TxnInv'
<1> DEFINE q == [kind |-> kind, actor |-> actor, target |-> target, arg |-> arg, row |-> row, code |-> n,
                 actorRow |-> NoRow, targetRow |-> NoRow]
<1>1. q \in Requests
  BY DEF Requests
<1>2. /\ q.kind = kind /\ q.actor = actor /\ q.target = target /\ q.arg = arg /\ q.row = row
      /\ q.actorRow = NoRow /\ q.targetRow = NoRow
  OBVIOUS
<1>3. phase[p] = "idle" /\ MayStart(actor, kind) /\ UNCHANGED vars
  BY DEF Start
<1>4. admins[p] = {} /\ todo[p] = {} /\ held[p] = {}
  BY <1>3, RequestSound DEF Sound
<1>5. Moves(p, "start", q, {}, {}, {})
  BY <1>4 DEF Start, Moves, TxnInv, Tables
<1> HIDE DEF q
<1>6. Approved(actor)
  BY <1>3 DEF MayStart, Approved
<1>7. Begun(q)
  BY <1>2, <1>3, <1>6 DEF Begun, MayStart
<1>8. Sound("start", q, {}, {}, {})
  BY <1>1, <1>7 DEF Sound, Phases
<1>9. NoConflict(p, {})
  BY SameLocks
<1>10. OwnEntry(p, "start", q)
  <2> SUFFICES ASSUME NEW o \in Procs \ {p}, phase[o] # "idle"
               PROVE  /\ q.kind = "add" => req[o].row # q.row
                      /\ req[o].kind = "add" => q.row # req[o].row
    BY DEF OwnEntry
  <2>1. req[o] \in Requests /\ Begun(req[o])
    BY RequestSound
  <2>2. req[o] # NoRequest
    BY <2>1, TxnAssumption
  <2>3. req[o].kind = "add" => serial[req[o].row] = 0 /\ req[o].row \in Rows
    BY <2>1 DEF Begun, ClassroomKinds, TeacherKinds
  <2>4. kind \in MembershipKinds \/ kind \in RowKinds \/ kind = "add"
    BY DEF ClassroomKinds, TeacherKinds, RowKinds
  <2>5. kind \in MembershipKinds /\ req[o].kind = "add" => q.row # req[o].row
    BY <1>2, <2>3
  <2>6. kind \in RowKinds /\ req[o].kind = "add" => q.row # req[o].row
    BY <1>2, <2>3
  <2>7. kind = "add" => req[o].row # q.row
    BY <1>2, <2>2
  <2> QED
    BY <1>2, <2>4, <2>5, <2>6, <2>7
<1> QED
  BY <1>3, <1>5, <1>8, <1>9, <1>10, ReadingPreserves

LEMMA StartsPreserve ==
    ASSUME TxnInv, NEW p \in Procs, StartMembership(p) \/ StartClassroom(p) \/ StartAdd(p)
    PROVE  TxnInv'
<1>1. CASE StartMembership(p)
  <2>1. PICK actor \in Users, target \in Users :
        \/ Start(p, "approve", actor, target, "none", 0, 0)
        \/ \E r \in Roles : Start(p, "role", actor, target, r, 0, 0)
        \/ \E s \in Statuses : Start(p, "status", actor, target, s, 0, 0)
    BY <1>1 DEF StartMembership
  <2>2. "approve" \in MembershipKinds /\ "role" \in MembershipKinds /\ "status" \in MembershipKinds
    BY DEF MembershipKinds
  <2>3. \A k \in MembershipKinds : k \notin ClassroomKinds /\ k \notin RowKinds /\ k # "add"
    BY DEF MembershipKinds, ClassroomKinds, RowKinds, TeacherKinds
  <2>4. CASE Start(p, "approve", actor, target, "none", 0, 0)
    BY <2>2, <2>3, <2>4, StartPreserves
  <2>5. ASSUME NEW r \in Roles, Start(p, "role", actor, target, r, 0, 0) PROVE TxnInv'
    <3>1. r \in AnyRole
      BY DEF AnyRole
    <3> QED
      BY <2>2, <2>3, <2>5, <3>1, StartPreserves
  <2>6. ASSUME NEW s \in Statuses, Start(p, "status", actor, target, s, 0, 0) PROVE TxnInv'
    BY <2>2, <2>3, <2>6, StartPreserves
  <2> QED
    BY <2>1, <2>4, <2>5, <2>6
<1>2. CASE StartClassroom(p)
  <2>1. PICK actor \in Users, row \in Rows :
        /\ serial[row] > 0
        /\ \/ Start(p, "rotate", actor, actor, "none", row, 0)
           \/ Start(p, "disconnect", actor, actor, role[actor], row, 0)
           \/ \E n \in 1..serial[row] : Start(p, "connect", actor, actor, "none", row, n)
    BY <1>2 DEF StartClassroom
  <2>2. \A k \in {"rotate", "disconnect", "connect"} :
          /\ k \in MembershipKinds \cup ClassroomKinds /\ k \notin MembershipKinds
          /\ k # "role" /\ k # "status" /\ k # "add"
    BY DEF ClassroomKinds, TeacherKinds, MembershipKinds
  <2>3. row \in Rows \cup {0} /\ 0 \in 0..MaxSerial
    OBVIOUS
  <2>4. role[actor] \in AnyRole /\ serial[row] \in 0..MaxSerial
    BY DEF TxnInv, TypeOK
  <2>5. CASE Start(p, "rotate", actor, actor, "none", row, 0)
    BY <2>1, <2>2, <2>3, <2>5, StartPreserves
  <2>6. CASE Start(p, "disconnect", actor, actor, role[actor], row, 0)
    BY <2>1, <2>2, <2>3, <2>4, <2>6, StartPreserves
  <2>7. ASSUME NEW n \in 1..serial[row], Start(p, "connect", actor, actor, "none", row, n) PROVE TxnInv'
    <3>1. n \in 0..MaxSerial
      BY <2>4
    <3> QED
      BY <2>1, <2>2, <2>3, <2>7, <3>1, StartPreserves
  <2> QED
    BY <2>1, <2>5, <2>6, <2>7
<1>3. CASE StartAdd(p)
  <2>1. PICK row \in Rows :
        /\ serial[row] = 0
        /\ \A o \in Procs : req[o] # NoRequest => req[o].row # row
        /\ Start(p, "add", TeacherOf[row], TeacherOf[row], "none", row, 0)
    BY <1>3 DEF StartAdd
  <2>2. /\ "add" \in MembershipKinds \cup ClassroomKinds /\ "add" \notin RowKinds /\ "add" \notin MembershipKinds
        /\ row \in Rows \cup {0} /\ 0 \in 0..MaxSerial
    BY DEF ClassroomKinds, TeacherKinds, RowKinds, MembershipKinds
  <2>3. TeacherOf[row] \in Users
    OBVIOUS
  <2> QED
    BY <2>1, <2>2, <2>3, StartPreserves
<1> QED
  BY <1>1, <1>2, <1>3

-----------------------------------------------------------------------------
(* A lock is granted when nobody else holds one that conflicts with it.     *)
LEMMA GrantExcludes ==
    ASSUME TxnInv, NEW p \in Procs, NEW l \in Locks, Blockers(p, l) = {}
    PROVE  NoConflict(p, held[p] \cup {l})
<1> SUFFICES ASSUME NEW o \in Procs \ {p}
             PROVE  /\ \A u \in Users :
                         /\ AccountLock(u) \in held[p] \cup {l} => held[o] \cap {AccountLock(u), KeyLock(u)} = {}
                         /\ AccountLock(u) \in held[o] => (held[p] \cup {l}) \cap {AccountLock(u), KeyLock(u)} = {}
                    /\ \A r \in Rows : RowLock(r) \in held[p] \cup {l} => RowLock(r) \notin held[o]
  BY DEF NoConflict
<1>1. NoConflict(p, held[p])
  BY SameLocks
<1>2. \A m \in held[o] : ~Conflict(l, m)
  BY DEF Blockers
<1>3. \A u \in Users : /\ Conflict(AccountLock(u), AccountLock(u)) /\ Conflict(AccountLock(u), KeyLock(u))
                       /\ Conflict(KeyLock(u), AccountLock(u))
  BY DEF Conflict, AccountLock, KeyLock
<1>4. \A r \in Rows : Conflict(RowLock(r), RowLock(r))
  BY DEF Conflict, RowLock
<1>5. ASSUME NEW u \in Users, AccountLock(u) \in held[p] \cup {l}
      PROVE  held[o] \cap {AccountLock(u), KeyLock(u)} = {}
  BY <1>1, <1>2, <1>3, <1>5 DEF NoConflict
<1>6. ASSUME NEW u \in Users, AccountLock(u) \in held[o]
      PROVE  (held[p] \cup {l}) \cap {AccountLock(u), KeyLock(u)} = {}
  BY <1>1, <1>2, <1>3, <1>6 DEF NoConflict
<1>7. ASSUME NEW r \in Rows, RowLock(r) \in held[p] \cup {l}
      PROVE  RowLock(r) \notin held[o]
  BY <1>1, <1>2, <1>4, <1>7 DEF NoConflict
<1> QED
  BY <1>5, <1>6, <1>7

LEMMA LocksDiffer ==
    \A u, v, r : /\ AccountLock(u) = AccountLock(v) => u = v
                 /\ AccountLock(u)[2] = u
                 /\ AccountLock(u) # RowLock(r) /\ AccountLock(u) # KeyLock(v) /\ RowLock(r) # KeyLock(v)
                 /\ RowLock(u) = RowLock(v) => u = v
  BY DEF AccountLock, RowLock, KeyLock

(* What has been read under a lock that is held is read again as it was.    *)
LEMMA RereadCurrent ==
    ASSUME NEW p \in Procs, req[p] \in Requests, NEW u \in Users, NEW hd, Account(u) \in Accounts
    PROVE  /\ Reread(p, u) \in Requests
           /\ Reread(p, u).kind = req[p].kind /\ Reread(p, u).actor = req[p].actor
           /\ Reread(p, u).target = req[p].target /\ Reread(p, u).arg = req[p].arg
           /\ Reread(p, u).row = req[p].row /\ Reread(p, u).code = req[p].code
           /\ Current(Reread(p, u), u, hd \cup {AccountLock(u)})
           /\ \A a \in Users : Current(req[p], a, hd) => Current(Reread(p, u), a, hd \cup {AccountLock(u)})
<1> DEFINE q == Reread(p, u)
           hd2 == hd \cup {AccountLock(u)}
<1>1. /\ q \in Requests
      /\ q.kind = req[p].kind /\ q.actor = req[p].actor /\ q.target = req[p].target
      /\ q.arg = req[p].arg /\ q.row = req[p].row /\ q.code = req[p].code
      /\ q.actorRow = IF u = req[p].actor THEN Account(u) ELSE req[p].actorRow
      /\ q.targetRow = IF u = req[p].target THEN Account(u) ELSE req[p].targetRow
  BY DEF Reread, Requests
<1> HIDE DEF q
<1>2. Current(q, u, hd2)
  BY <1>1 DEF Current
<1>3. ASSUME NEW a \in Users, Current(req[p], a, hd) PROVE Current(q, a, hd2)
  BY <1>1, <1>3 DEF Current
<1> QED
  BY <1>1, <1>2, <1>3 DEF q

LEMMA MoreHeld ==
    ASSUME NEW q, NEW td, NEW hd, NEW l \in td
    PROVE  /\ \A u : Current(q, u, hd) => Current(q, u, hd \cup {l})
           /\ \A ad : Selected(q, ad, hd) => Selected(q, ad, hd \cup {l})
           /\ \A ad : SoundLinks(q, ad, td, hd) => SoundLinks(q, ad, td \ {l}, hd \cup {l})
           /\ SoundRoster(q, td, hd) => SoundRoster(q, td \ {l}, hd \cup {l})
           /\ SoundInsert(q, td, hd) => SoundInsert(q, td \ {l}, hd \cup {l})
<1>1. \A u : Current(q, u, hd) => Current(q, u, hd \cup {l})
  BY DEF Current
<1>2. \A ad : Selected(q, ad, hd) => Selected(q, ad, hd \cup {l})
  BY <1>1 DEF Selected
<1>3. (td \ {l}) \cup (hd \cup {l}) = td \cup hd
  OBVIOUS
<1>4. \A ad : SoundLinks(q, ad, td, hd) => SoundLinks(q, ad, td \ {l}, hd \cup {l})
  BY <1>1, <1>2, <1>3 DEF SoundLinks
<1>5. SoundRoster(q, td, hd) => SoundRoster(q, td \ {l}, hd \cup {l})
  BY <1>3 DEF SoundRoster
<1>6. SoundInsert(q, td, hd) => SoundInsert(q, td \ {l}, hd \cup {l})
  BY <1>3 DEF SoundInsert, RowFound
<1> QED
  BY <1>1, <1>2, <1>4, <1>5, <1>6

LEMMA TakePreserves ==
    ASSUME TxnInv, NEW p \in Procs, TakeLock(p)
    PROVE  TxnInv'
<1>1. PICK l \in todo[p] :
        /\ Blockers(p, l) = {}
        /\ held' = [held EXCEPT ![p] = @ \cup {l}]
        /\ todo' = [todo EXCEPT ![p] = @ \ {l}]
        /\ LET returned == \/ phase[p] = "accounts"
                           \/ phase[p] = "admins" /\ l[2] \in ActiveAdmins
           IN /\ req' = [req EXCEPT ![p] = IF returned THEN Reread(p, l[2]) ELSE @]
              /\ admins' = [admins EXCEPT ![p] =
                              IF returned /\ phase[p] = "admins" THEN @ \cup {l[2]} ELSE @]
        /\ UNCHANGED <<vars, phase>>
  BY DEF TakeLock
<1> DEFINE returned == phase[p] = "accounts" \/ (phase[p] = "admins" /\ l[2] \in ActiveAdmins)
           q == IF returned THEN Reread(p, l[2]) ELSE req[p]
           ad == IF returned /\ phase[p] = "admins" THEN admins[p] \cup {l[2]} ELSE admins[p]
           td == todo[p]
           hd == held[p]
           td2 == todo[p] \ {l}
           hd2 == held[p] \cup {l}
<1>2. Moves(p, phase[p], q, ad, td2, hd2) /\ UNCHANGED vars
  BY <1>1 DEF Moves, TxnInv, Tables
<1>3. /\ Sound(phase[p], req[p], admins[p], td, hd) /\ td \subseteq Locks /\ l \in Locks
      /\ td2 \subseteq Locks /\ hd2 \subseteq Locks /\ admins[p] \subseteq Users
  BY <1>1, RequestSound
<1>4. phase[p] \notin {"idle", "start"}
  BY <1>3 DEF Sound
<1>5. req[p] \in Requests /\ Begun(req[p]) /\ req[p].actor \in Users /\ req[p].target \in Users
  BY <1>4, RequestSound
<1>6. NoConflict(p, hd2)
  BY <1>1, <1>3, GrantExcludes
<1>7. CASE returned
  <2>1. PICK u \in Users : l = AccountLock(u)
    <3>1. CASE phase[p] = "admins"
      BY <1>3, <3>1 DEF Sound, SoundAdmins
    <3>2. CASE phase[p] = "accounts"
      BY <1>3, <1>5, <3>2 DEF Sound, SoundAccounts
    <3> QED
      BY <1>7, <3>1, <3>2
  <2>2. l[2] = u /\ q = Reread(p, u)
    BY <1>7, <2>1, LocksDiffer
  <2>3. Account(u) \in Accounts
    BY DEF TxnInv, TypeOK, Accounts, Account
  <2>4. hd2 = hd \cup {AccountLock(u)}
    BY <2>1
  <2> HIDE DEF q, hd, hd2
  <2>5. /\ q \in Requests
        /\ q.kind = req[p].kind /\ q.actor = req[p].actor /\ q.target = req[p].target
        /\ q.arg = req[p].arg /\ q.row = req[p].row /\ q.code = req[p].code
        /\ Current(q, u, hd2)
        /\ \A a \in Users : Current(req[p], a, hd) => Current(q, a, hd2)
    <3>1. q = Reread(p, u)
      BY <2>2
    <3> HIDE DEF ad, td, td2, returned
    <3> QED
      BY <1>5, <2>3, <2>4, <3>1, RereadCurrent
  <2>6. Begun(q)
    BY <1>5, <2>5 DEF Begun
  <2>7. OwnEntry(p, phase[p], q)
    BY <1>4, <2>5, SameEntry
  <2>8. SoundAdmins(req[p], admins[p], td, hd)
    BY <1>3, <1>7 DEF Sound, SoundAccounts
  <2>9. Selected(q, admins[p], hd2)
    BY <1>3, <2>5, <2>8 DEF SoundAdmins, Selected
  <2>10. td2 \subseteq {AccountLock(v) : v \in Users} /\ hd2 \subseteq {AccountLock(v) : v \in Users}
    BY <2>4, <2>8 DEF SoundAdmins
  <2>11. CASE phase[p] = "admins"
    <3>1. u \in ActiveAdmins /\ ad = admins[p] \cup {u}
      BY <1>7, <2>2, <2>11
    <3>2. Selected(q, ad, hd2)
      BY <2>5, <2>9, <3>1 DEF Selected
    <3>3. SoundAdmins(q, ad, td2, hd2)
      BY <2>5, <2>8, <2>10, <3>2 DEF SoundAdmins
    <3>4. Sound(phase[p], q, ad, td2, hd2)
      BY <1>3, <2>5, <2>6, <2>11, <3>1, <3>3 DEF Sound, hd2
    <3> QED
      BY <1>2, <1>6, <2>7, <3>4, ReadingPreserves DEF hd2, q
  <2>12. CASE phase[p] = "accounts"
    <3>1. ad = admins[p]
      BY <2>12
    <3>2. SoundAccounts(req[p], admins[p], td, hd)
      BY <1>3, <2>12 DEF Sound
    <3>3. SoundAdmins(q, ad, td2, hd2)
      BY <2>5, <2>8, <2>9, <2>10, <3>1 DEF SoundAdmins
    <3>4. td2 \subseteq {AccountLock(q.actor), AccountLock(q.target)}
      BY <2>5, <3>2 DEF SoundAccounts
    <3>5. \A v \in {q.actor, q.target} : AccountLock(v) \in td2 \/ Current(q, v, hd2)
      <4> SUFFICES ASSUME NEW v \in {req[p].actor, req[p].target}
                   PROVE  AccountLock(v) \in td2 \/ Current(q, v, hd2)
        BY <2>5
      <4>1. v \in Users
        BY <1>5
      <4>2. AccountLock(v) \in td \/ Current(req[p], v, hd)
        BY <3>2 DEF SoundAccounts
      <4>3. v # u => AccountLock(v) # l
        BY <2>1, LocksDiffer
      <4> QED
        BY <2>5, <4>1, <4>2, <4>3
    <3>6. SoundAccounts(q, ad, td2, hd2)
      BY <3>3, <3>4, <3>5 DEF SoundAccounts
    <3>7. Sound(phase[p], q, ad, td2, hd2)
      BY <1>3, <2>5, <2>6, <2>12, <3>1, <3>6 DEF Sound, hd2
    <3> QED
      BY <1>2, <1>6, <2>7, <3>7, ReadingPreserves DEF hd2, q
  <2> QED
    BY <1>7, <2>11, <2>12
<1>8. CASE ~returned
  <2>1. q = req[p] /\ ad = admins[p]
    BY <1>8
  <2>2. phase[p] \in {"admins", "links", "roster", "insert"}
    BY <1>3, <1>4, <1>8 DEF Sound, Phases
  <2>3. phase[p] = "admins" => SoundAdmins(req[p], admins[p], td2, hd2)
    <3> SUFFICES ASSUME phase[p] = "admins" PROVE SoundAdmins(req[p], admins[p], td2, hd2)
      OBVIOUS
    <3>1. SoundAdmins(req[p], admins[p], td, hd)
      BY <1>3 DEF Sound
    <3>2. Selected(req[p], admins[p], hd2)
      BY <1>1, <3>1, MoreHeld DEF SoundAdmins
    <3> QED
      BY <3>1, <3>2 DEF SoundAdmins
  <2>4. Sound(phase[p], req[p], admins[p], td2, hd2)
    BY <1>1, <1>3, <1>5, <2>2, <2>3, MoreHeld DEF Sound
  <2>5. OwnEntry(p, phase[p], req[p])
    BY <1>4, SameEntry
  <2> QED
    BY <1>2, <1>6, <2>1, <2>4, <2>5, ReadingPreserves
<1> QED
  BY <1>7, <1>8

-----------------------------------------------------------------------------
(* The statements of a membership handler.                                  *)
LEMMA AccountLocks ==
    ASSUME NEW ids \in SUBSET Users
    PROVE  ForUpdate("account", ids) = {AccountLock(i) : i \in ids} /\ ForUpdate("account", ids) \subseteq Locks
<1>1. ASSUME NEW l \in ForUpdate("account", ids) PROVE l \in Locks /\ \E i \in ids : l = AccountLock(i)
  <2>1. l[1] = "account" /\ l[2] \in ids /\ l[3] = "update"
    BY DEF ForUpdate
  <2>2. l = <<l[1], l[2], l[3]>>
    BY DEF ForUpdate
  <2> QED
    BY <2>1, <2>2 DEF AccountLock, Locks
<1>2. ASSUME NEW i \in ids PROVE AccountLock(i) \in ForUpdate("account", ids)
  BY DEF ForUpdate, AccountLock
<1> QED
  BY <1>1, <1>2

LEMMA RowLocks ==
    ASSUME NEW ids \in SUBSET Rows
    PROVE  ForUpdate("roster", ids) = {RowLock(i) : i \in ids} /\ ForUpdate("roster", ids) \subseteq Locks
<1>1. ASSUME NEW l \in ForUpdate("roster", ids) PROVE l \in Locks /\ \E i \in ids : l = RowLock(i)
  <2>1. l[1] = "roster" /\ l[2] \in ids /\ l[3] = "update"
    BY DEF ForUpdate
  <2>2. l = <<l[1], l[2], l[3]>>
    BY DEF ForUpdate
  <2> QED
    BY <2>1, <2>2 DEF RowLock, Locks
<1>2. ASSUME NEW i \in ids PROVE RowLock(i) \in ForUpdate("roster", ids)
  BY DEF ForUpdate, RowLock
<1> QED
  BY <1>1, <1>2

LEMMA KeyLocks ==
    \A u \in Users : KeyShare({u}) = {KeyLock(u)} /\ KeyShare({u}) \subseteq Locks
  BY DEF KeyShare, KeyLock, Locks

LEMMA LockAdminsPreserves ==
    ASSUME TxnInv, NEW p \in Procs, LockAdmins(p)
    PROVE  TxnInv'
<1> DEFINE td == ForUpdate("account", ActiveAdmins)
<1>1. /\ phase[p] = "start" /\ phase[p] # "idle" /\ req[p].kind \in MembershipKinds
      /\ Execute(p, "admins", td)
  BY DEF LockAdmins
<1>2. ActiveAdmins \in SUBSET Users
  BY DEF ActiveAdmins
<1>3. td = {AccountLock(u) : u \in ActiveAdmins} /\ td \subseteq Locks
  BY <1>2, AccountLocks
<1>4. admins[p] = {} /\ held[p] = {} /\ req[p] \in Requests /\ Begun(req[p])
  BY <1>1, RequestSound DEF Sound
<1> HIDE DEF td
<1>5. SoundAdmins(req[p], admins[p], td, held[p])
  BY <1>1, <1>2, <1>3, <1>4 DEF SoundAdmins, Selected
<1>6. Sound("admins", req[p], admins[p], td, held[p])
  BY <1>3, <1>4, <1>5 DEF Sound, Phases
<1> QED
  BY <1>1, <1>6, ExecutePreserves

LEMMA LockOthersPreserves ==
    ASSUME TxnInv, NEW p \in Procs, LockOthers(p)
    PROVE  TxnInv'
<1> DEFINE others == {req[p].actor, req[p].target} \ admins[p]
           td == ForUpdate("account", others)
<1>1. phase[p] = "admins" /\ phase[p] # "idle" /\ todo[p] = {} /\ Execute(p, "accounts", td)
  BY DEF LockOthers, Granted
<1>2. /\ req[p] \in Requests /\ Begun(req[p]) /\ req[p].actor \in Users /\ req[p].target \in Users
      /\ admins[p] \subseteq Users /\ held[p] \subseteq Locks
      /\ SoundAdmins(req[p], admins[p], todo[p], held[p])
  BY <1>1, RequestSound DEF Sound
<1>3. td = {AccountLock(u) : u \in others} /\ td \subseteq Locks
  BY <1>2, AccountLocks
<1>4. ASSUME NEW u \in {req[p].actor, req[p].target}
      PROVE  AccountLock(u) \in td \/ Current(req[p], u, held[p])
  <2>1. CASE u \in admins[p]
    BY <1>2, <2>1 DEF SoundAdmins, Selected
  <2>2. CASE u \notin admins[p]
    BY <1>3, <2>2
  <2> QED
    BY <2>1, <2>2
<1>5. others \subseteq {req[p].actor, req[p].target} /\ others \subseteq Users
  BY <1>2
<1>6. td \subseteq {AccountLock(req[p].actor), AccountLock(req[p].target)}
  BY <1>3, <1>5
<1>7. td \subseteq {AccountLock(u) : u \in Users}
  BY <1>3, <1>5
<1> HIDE DEF td, others
<1>8. SoundAdmins(req[p], admins[p], td, held[p])
  BY <1>2, <1>7 DEF SoundAdmins
<1>9. SoundAccounts(req[p], admins[p], td, held[p])
  BY <1>4, <1>6, <1>8 DEF SoundAccounts
<1>10. Sound("accounts", req[p], admins[p], td, held[p])
  BY <1>2, <1>3, <1>9 DEF Sound, Phases
<1> QED
  BY <1>1, <1>10, ExecutePreserves

(* len(active_admins) <= 1 tells whether the target is the only one, as     *)
(* the target, an active administrator under lock, is among them.           *)
LEMMA AnotherRemains ==
    ASSUME NEW p \in Procs, admins[p] \subseteq Users, ~LastAdmin(p)
    PROVE  AnotherAdmin(req[p], admins[p])
<1> SUFFICES ASSUME req[p].targetRow.role = "ADMIN"
             PROVE  \E a \in admins[p] : a # req[p].target
  BY DEF AnotherAdmin
<1>1. IsFiniteSet(admins[p]) /\ Cardinality(admins[p]) \in Nat
  BY FS_Subset, FS_CardinalityType
<1>2. ~(Cardinality(admins[p]) <= 1)
  BY DEF LastAdmin
<1> SUFFICES ASSUME \A a \in admins[p] : a = req[p].target
             PROVE  FALSE
  OBVIOUS
<1>3. CASE admins[p] = {}
  BY <1>2, <1>3, FS_EmptySet
<1>4. CASE admins[p] # {}
  <2>1. admins[p] = {req[p].target}
    BY <1>4
  <2>2. Cardinality(admins[p]) = 1
    BY <1>1, <2>1, FS_Singleton
  <2> QED
    BY <1>2, <2>2
<1> QED
  BY <1>3, <1>4

LEMMA DecidePreserves ==
    ASSUME TxnInv, NEW p \in Procs, Decide(p)
    PROVE  TxnInv'
<1> DEFINE q == req[p]
           rows == {r \in Rows : Shares(r, q.target)}
           td == IF EndsSharing(q) THEN ForUpdate("roster", rows) ELSE {}
<1>1. phase[p] = "accounts" /\ phase[p] # "idle" /\ todo[p] = {}
  BY DEF Decide, Granted
<1>2. CASE ~Allowed(p)
  BY <1>2, RefusePreserves DEF Decide
<1>3. CASE Allowed(p)
  <2>1. Execute(p, "links", td)
    BY <1>3 DEF Decide
  <2>2. /\ q \in Requests /\ Begun(q) /\ q.actor \in Users /\ q.target \in Users
        /\ admins[p] \subseteq Users /\ held[p] \subseteq Locks
        /\ SoundAccounts(q, admins[p], todo[p], held[p])
    BY <1>1, RequestSound DEF Sound
  <2>3. rows \in SUBSET Rows
    OBVIOUS
  <2>4. td \subseteq {RowLock(r) : r \in Rows} /\ td \subseteq Locks
    BY <2>3, RowLocks
  <2>5. EndsSharing(q) => td = {RowLock(r) : r \in rows}
    BY <2>3, RowLocks
  <2>6. held[p] \subseteq {AccountLock(u) : u \in Users}
    BY <2>2 DEF SoundAccounts, SoundAdmins
  <2>7. \A r \in Rows : RowLock(r) \notin held[p]
    BY <2>6, LocksDiffer
  <2>8. ~EndsSharing(q) => td = {}
    OBVIOUS
  <2> HIDE DEF td
  <2>9. ASSUME NEW r \in Rows
        PROVE  IF EndsSharing(q) THEN Shares(r, q.target) => RowLock(r) \in td \cup held[p]
                                 ELSE RowLock(r) \notin td \cup held[p]
    BY <2>5, <2>7, <2>8
  <2>10. /\ q.kind \in MembershipKinds /\ Selected(q, admins[p], held[p])
         /\ Current(q, q.actor, held[p]) /\ Current(q, q.target, held[p])
    BY <1>1, <2>2 DEF SoundAccounts, SoundAdmins
  <2>11. Decided(q, admins[p])
    <3>1. ActorPermitted(q) /\ q.target \notin DemoUsers
      BY <1>3 DEF Allowed
    <3>2. q.kind = "approve" => ApproveAllowed(q)
      BY <1>3 DEF Allowed
    <3>3. q.kind = "role" => RoleAllowed(p)
      BY <1>3 DEF Allowed
    <3>4. q.kind = "status" => StatusAllowed(p)
      BY <1>3 DEF Allowed
    <3> QED
      BY <2>2, <3>1, <3>2, <3>3, <3>4, AnotherRemains DEF Decided, RoleAllowed, StatusAllowed
  <2>12. SoundLinks(q, admins[p], td, held[p])
    BY <2>4, <2>9, <2>10, <2>11 DEF SoundLinks
  <2>13. Sound("links", q, admins[p], td, held[p])
    BY <2>2, <2>4, <2>12 DEF Sound, Phases
  <2> QED
    BY <1>1, <2>1, <2>13, ExecutePreserves
<1> QED
  BY <1>2, <1>3

-----------------------------------------------------------------------------
(* The statements of a classroom handler.                                   *)
LEMMA InsertSound ==
    ASSUME TxnInv, NEW p \in Procs, phase[p] # "idle", req[p].kind \in ClassroomKinds,
           RowFound(req[p], held[p]), RowAccepted(req[p]), Execute(p, "insert", KeyShare({req[p].actor}))
    PROVE  TxnInv'
<1>1. /\ req[p] \in Requests /\ Begun(req[p]) /\ req[p].actor \in Users
      /\ admins[p] \subseteq Users /\ held[p] \subseteq Locks
  BY RequestSound
<1>2. KeyShare({req[p].actor}) = {KeyLock(req[p].actor)} /\ KeyShare({req[p].actor}) \subseteq Locks
  BY <1>1, KeyLocks
<1>3. SoundInsert(req[p], KeyShare({req[p].actor}), held[p])
  BY <1>2 DEF SoundInsert
<1>4. Sound("insert", req[p], admins[p], KeyShare({req[p].actor}), held[p])
  BY <1>1, <1>2, <1>3 DEF Sound, Phases
<1> QED
  BY <1>4, ExecutePreserves

LEMMA RosterSound ==
    ASSUME TxnInv, NEW p \in Procs, phase[p] # "idle", req[p].kind \in RowKinds,
           NEW td \in SUBSET Locks, RowFound(req[p], td), Execute(p, "roster", td)
    PROVE  TxnInv'
<1>1. /\ req[p] \in Requests /\ Begun(req[p])
      /\ admins[p] \subseteq Users /\ held[p] \subseteq Locks
  BY RequestSound
<1>2. RowFound(req[p], td \cup held[p])
  BY DEF RowFound
<1>3. SoundRoster(req[p], td, held[p])
  BY <1>2 DEF SoundRoster
<1>4. Sound("roster", req[p], admins[p], td, held[p])
  BY <1>1, <1>3 DEF Sound, Phases
<1> QED
  BY <1>4, ExecutePreserves

LEMMA FindRowPreserves ==
    ASSUME TxnInv, NEW p \in Procs, FindRow(p)
    PROVE  TxnInv'
<1> DEFINE q == req[p]
<1>1. phase[p] = "start" /\ phase[p] # "idle"
  BY DEF FindRow
<1>2. q \in Requests /\ Begun(q) /\ q.actor \in Users
  BY <1>1, RequestSound
<1>3. CASE Refuse(p)
  BY <1>3, RefusePreserves
<1>4. CASE q.kind = "add"
  <2>1. Execute(p, "insert", KeyShare({q.actor}))
    BY <1>4 DEF FindRow
  <2>2. q.kind \in ClassroomKinds /\ RowFound(q, held[p]) /\ RowAccepted(q)
    BY <1>4 DEF ClassroomKinds, TeacherKinds, RowFound, RowAccepted
  <2> QED
    BY <1>1, <2>1, <2>2, InsertSound
<1>5. ASSUME q.kind \in RowKinds, ~Refuse(p)
      PROVE  TxnInv'
  <2>1. q.row \in Rows /\ TeacherOf[q.row] \in Users
    BY <1>2, <1>5 DEF Begun, ClassroomKinds, TeacherKinds, RowKinds
  <2> DEFINE row == ForUpdate("roster", {q.row})
             teacher == ForUpdate("account", {TeacherOf[q.row]})
  <2>2. row = {RowLock(q.row)} /\ row \in SUBSET Locks
    BY <2>1, RowLocks
  <2>3. teacher = {AccountLock(TeacherOf[q.row])} /\ teacher \in SUBSET Locks
    BY <2>1, AccountLocks
  <2>4. q.kind = "rotate" => TeacherOf[q.row] = q.actor /\ Execute(p, "roster", row)
    BY <1>5 DEF FindRow
  <2>5. q.kind = "connect" => Execute(p, "roster", row \cup teacher)
    BY <1>5 DEF FindRow
  <2>6. q.kind = "disconnect" => Execute(p, "roster", row)
    BY <1>5 DEF FindRow
  <2> HIDE DEF row, teacher
  <2>7. CASE q.kind = "rotate"
    <3>1. RowFound(q, row)
      BY <2>2, <2>4, <2>7 DEF RowFound
    <3> QED
      BY <1>1, <1>5, <2>2, <2>4, <2>7, <3>1, RosterSound
  <2>8. CASE q.kind = "connect"
    <3>1. RowFound(q, row \cup teacher) /\ row \cup teacher \in SUBSET Locks
      BY <2>2, <2>3, <2>8 DEF RowFound
    <3> QED
      BY <1>1, <1>5, <2>5, <2>8, <3>1, RosterSound
  <2>9. CASE q.kind = "disconnect"
    <3>1. RowFound(q, row)
      BY <2>2, <2>9 DEF RowFound
    <3> QED
      BY <1>1, <1>5, <2>2, <2>6, <2>9, <3>1, RosterSound
  <2> QED
    BY <1>5, <2>7, <2>8, <2>9 DEF RowKinds
<1> QED
  BY <1>3, <1>4, <1>5 DEF FindRow, RowKinds

LEMMA RowAcceptsAll ==
    ASSUME NEW q, q.kind \in RowKinds, RowAccepts(q)
    PROVE  RowAccepted(q)
<1>1. CASE q.kind = "rotate"
  BY <1>1 DEF RowAccepts, RowAccepted
<1>2. CASE q.kind = "connect"
  BY <1>2 DEF RowAccepts, RowAccepted
<1>3. CASE q.kind = "disconnect"
  BY <1>3 DEF RowAccepts, RowAccepted
<1> QED
  BY <1>1, <1>2, <1>3 DEF RowKinds

LEMMA CheckRowPreserves ==
    ASSUME TxnInv, NEW p \in Procs, CheckRow(p)
    PROVE  TxnInv'
<1>1. phase[p] = "roster" /\ phase[p] # "idle" /\ todo[p] = {}
  BY DEF CheckRow, Granted
<1>2. req[p].kind \in RowKinds /\ RowFound(req[p], todo[p] \cup held[p])
  BY <1>1, RequestSound DEF Sound, SoundRoster
<1>3. RowFound(req[p], held[p])
  BY <1>1, <1>2
<1>4. req[p].kind \in ClassroomKinds
  BY <1>2 DEF RowKinds, ClassroomKinds, TeacherKinds
<1>5. CASE RowAccepts(req[p])
  BY <1>1, <1>2, <1>3, <1>4, <1>5, RowAcceptsAll, InsertSound DEF CheckRow
<1>6. CASE ~RowAccepts(req[p])
  BY <1>6, RefusePreserves DEF CheckRow
<1> QED
  BY <1>5, <1>6

-----------------------------------------------------------------------------
(* What a membership handler commits is the step the directory promises:    *)
(* every guard of it is decided on values that are locked, and so current.  *)
LEMMA MembershipCommitted ==
    ASSUME TxnInv, NEW p \in Procs, CommitMembership(p)
    PROVE  /\ phase[p] = "links" /\ Next
           /\ \A u \in Users : u # req[p].target => role'[u] = role[u] /\ status'[u] = status[u]
           /\ \A u \in Users : Approved(u) => Approved(u)'
           /\ \A r \in Rows : RowLock(r) \notin held[p] => link'[r] = link[r] /\ code'[r] = code[r]
           /\ \A r \in Rows : link'[r] # link[r] => link'[r] = NoUser
           /\ UNCHANGED <<verified, serial>>
           /\ AccountLock(req[p].target) \in held[p]
<1> DEFINE q == req[p]
           t == q.target
           revoked == {r \in LockedRows(p) : Shares(r, t)}
<1>1. phase[p] = "links" /\ phase[p] # "idle" /\ todo[p] = {} /\ UNCHANGED <<verified, serial>>
  BY DEF CommitMembership, Granted
<1>2. /\ q \in Requests /\ Begun(q) /\ q.actor \in Users /\ t \in Users /\ TypeOK
      /\ SoundLinks(q, admins[p], {}, held[p]) /\ admins[p] \subseteq Users
  BY <1>1, RequestSound DEF Sound, TxnInv
<1>3. /\ q.actorRow = Account(q.actor) /\ q.targetRow = Account(t) /\ AccountLock(t) \in held[p]
      /\ Selected(q, admins[p], held[p]) /\ Decided(q, admins[p])
      /\ q.kind \in MembershipKinds
  BY <1>2 DEF SoundLinks, Current
<1>4. /\ q.targetRow.role = role[t] /\ q.targetRow.status = status[t]
      /\ q.actorRow.role = role[q.actor] /\ q.actorRow.status = status[q.actor]
  BY <1>3 DEF Account
<1>5. EndsSharing(q) => revoked = {r \in Rows : Shares(r, t)}
  BY <1>2 DEF SoundLinks, LockedRows, RowLock
<1>6. ~EndsSharing(q) => revoked = {}
  BY <1>2 DEF SoundLinks, LockedRows, RowLock
<1>7. /\ link' = [r \in Rows |-> IF r \in revoked THEN NoUser ELSE link[r]]
      /\ code' = [r \in Rows |-> IF r \in revoked THEN "none" ELSE code[r]]
      /\ role' = [role EXCEPT ![t] = IF q.kind = "role" THEN q.arg ELSE @]
      /\ status' = [status EXCEPT ![t] = CASE q.kind = "approve" -> "ACTIVE"
                                           [] q.kind = "status" -> q.arg
                                           [] OTHER -> status[t]]
  BY DEF CommitMembership
<1>8. \A r \in revoked : RowLock(r) \in held[p]
  BY DEF LockedRows, RowLock
<1> HIDE DEF revoked
<1>9. EndsSharing(q) => RevokeLinks(t)
  BY <1>1, <1>5, <1>7 DEF RevokeLinks
<1>10. ~EndsSharing(q) => UNCHANGED roster
  BY <1>1, <1>2, <1>6, <1>7 DEF TypeOK, roster
<1>11. AnotherAdmin(q, admins[p]) => (role[t] = "ADMIN" => AnotherAdminRemains(t))
  BY <1>3, <1>4 DEF AnotherAdmin, AnotherAdminRemains, Selected
<1>12. q.actor \notin DemoUsers /\ t \notin DemoUsers /\ status[q.actor] = "ACTIVE"
  BY <1>2, <1>3, <1>4 DEF Begun, Decided, ActorPermitted
<1>13. CASE q.kind = "approve"
  <2>1. status' = [status EXCEPT ![t] = "ACTIVE"] /\ role' = role
    BY <1>2, <1>7, <1>13 DEF TypeOK
  <2>2. ~EndsSharing(q)
    BY <1>13 DEF EndsSharing
  <2>3. ApproveAllowed(q) /\ role[q.actor] \in {"ADMIN", "ASSISTANT_ADMIN"}
    BY <1>3, <1>4, <1>13 DEF Decided, ActorPermitted
  <2>4. Approve(q.actor, t)
    BY <1>1, <1>2, <1>4, <1>10, <1>12, <2>1, <2>2, <2>3 DEF Approve, CanApprove, ApproveAllowed
  <2>5. status[t] = "PENDING_APPROVAL"
    BY <2>4 DEF Approve
  <2> QED
    BY <1>1, <1>2, <1>3, <1>7, <1>8, <2>1, <2>4, <2>5 DEF Next, Approved, TypeOK
<1>14. CASE q.kind = "role"
  <2>1. role' = [role EXCEPT ![t] = q.arg] /\ status' = status
    BY <1>2, <1>7, <1>14 DEF TypeOK
  <2>2. q.arg \in Roles
    BY <1>2, <1>14 DEF Begun
  <2>3. /\ status[t] = "ACTIVE" /\ role[t] # q.arg /\ role[q.actor] = "ADMIN"
        /\ role[t] = "ADMIN" => AnotherAdminRemains(t)
    BY <1>3, <1>4, <1>11, <1>14 DEF Decided, ActorPermitted
  <2>4. EndsSharing(q) <=> ~(TeacherRole(role[t]) /\ TeacherRole(q.arg))
    BY <1>4, <1>14 DEF EndsSharing
  <2>5. q.actor \in ActiveAdmins
    BY <1>2, <1>12, <2>3 DEF ActiveAdmins
  <2>6. ChangeRole(q.actor, t, q.arg)
    BY <1>1, <1>9, <1>10, <1>12, <2>1, <2>3, <2>4, <2>5 DEF ChangeRole
  <2>7. Next
    BY <1>2, <2>2, <2>6 DEF Next
  <2> QED
    BY <1>1, <1>2, <1>3, <1>7, <1>8, <2>1, <2>7 DEF Approved, TypeOK
<1>15. CASE q.kind = "status"
  <2>1. status' = [status EXCEPT ![t] = q.arg] /\ role' = role
    BY <1>2, <1>7, <1>15 DEF TypeOK
  <2>2. q.arg \in Statuses
    BY <1>2, <1>15 DEF Begun
  <2>3. /\ <<status[t], q.arg>> \in StatusMoves /\ role[q.actor] = "ADMIN"
        /\ role[t] = "ADMIN" /\ q.arg # "ACTIVE" => AnotherAdminRemains(t)
    BY <1>3, <1>4, <1>11, <1>15 DEF Decided, ActorPermitted
  <2>4. EndsSharing(q) <=> status[t] = "ACTIVE"
    BY <1>4, <1>15 DEF EndsSharing
  <2>5. q.actor \in ActiveAdmins
    BY <1>2, <1>12, <2>3 DEF ActiveAdmins
  <2>6. ChangeStatus(q.actor, t, q.arg)
    BY <1>1, <1>9, <1>10, <1>12, <2>1, <2>3, <2>4, <2>5 DEF ChangeStatus
  <2>7. Next
    BY <1>2, <2>2, <2>6 DEF Next
  <2>8. status[t] \in {"ACTIVE", "SUSPENDED"} => q.arg \in {"ACTIVE", "SUSPENDED"}
    BY <2>3 DEF StatusMoves
  <2> QED
    BY <1>1, <1>2, <1>3, <1>7, <1>8, <2>1, <2>7, <2>8 DEF Approved, TypeOK
<1> QED
  BY <1>3, <1>13, <1>14, <1>15 DEF MembershipKinds

LEMMA CommitMembershipPreserves ==
    ASSUME TxnInv, NEW p \in Procs, CommitMembership(p)
    PROVE  TxnInv'
<1>1. /\ Next /\ phase[p] # "idle" /\ req[p].target \in Users /\ AccountLock(req[p].target) \in held[p]
      /\ \A u \in Users : u # req[p].target => role'[u] = role[u] /\ status'[u] = status[u]
      /\ \A u \in Users : Approved(u) => Approved(u)'
      /\ \A r \in Rows : RowLock(r) \notin held[p] => link'[r] = link[r] /\ code'[r] = code[r]
      /\ \A r \in Rows : link'[r] # link[r] => link'[r] = NoUser
      /\ UNCHANGED <<verified, serial>>
  <2>1. phase[p] # "idle"
    BY MembershipCommitted
  <2> QED
    BY <2>1, RequestSound, MembershipCommitted
<1>2. Moves(p, "idle", NoRequest, {}, {}, {})
  BY DEF CommitMembership, End, Moves
<1>3. TypeOK'
  BY <1>1, TypeStep DEF TxnInv
<1>4. NewEntriesFree'
  BY <1>1 DEF NewEntriesFree, TxnInv
<1>5. ASSUME NEW o \in Procs \ {p}
      PROVE  Respected(o)
  <2>1. \A u \in Users : AccountLock(u) \in held[o] => u # req[p].target
    BY <1>1, <1>5 DEF TxnInv, Exclusive
  <2>2. \A r \in Rows : RowLock(r) \in held[o] => RowLock(r) \notin held[p]
    BY <1>5 DEF TxnInv, Exclusive
  <2>3. \A r \in Rows, u \in Users : Shares(r, u)' => Shares(r, u)
    BY <1>1 DEF Shares
  <2>4. \A u \in Users : AccountLock(u) \in held[o] =>
           role'[u] = role[u] /\ status'[u] = status[u] /\ verified'[u] = verified[u]
    BY <1>1, <2>1
  <2>5. \A r \in Rows : RowLock(r) \in held[o] /\ serial[r] > 0 =>
           link'[r] = link[r] /\ serial'[r] = serial[r] /\ (code[r] # "none" => code'[r] # "none")
    BY <1>1, <2>2
  <2> QED
    BY <1>1, <2>3, <2>4, <2>5 DEF Respected
<1>6. Sound("idle", NoRequest, {}, {}, {})'
  BY DEF Sound, Phases
<1> QED
  BY <1>2, <1>3, <1>4, <1>5, <1>6, SameLocks, SameEntry, MovePreserves

-----------------------------------------------------------------------------
(* What a classroom handler commits: the entry it has locked, or the new    *)
(* one, is as it was when the handler looked at it.                         *)
LEMMA SerialTyped ==
    ASSUME TypeOK, NEW r \in Rows
    PROVE  serial[r] \in Nat /\ serial[r] <= MaxSerial
  BY DEF TypeOK

LEMMA ClassroomCommitted ==
    ASSUME TxnInv, NEW p \in Procs, CommitClassroom(p), ~Refuse(p)
    PROVE  /\ phase[p] = "insert" /\ Next
           /\ UNCHANGED accounts
           /\ Moves(p, "idle", NoRequest, {}, {}, {})
           /\ \A r \in Rows : r # req[p].row =>
                link'[r] = link[r] /\ code'[r] = code[r] /\ serial'[r] = serial[r]
           /\ serial'[req[p].row] \in {serial[req[p].row], serial[req[p].row] + 1}
           /\ link'[req[p].row] \in {NoUser, req[p].actor}
           /\ req[p].row \in Rows
           /\ KeyLock(req[p].actor) \in held[p]
           /\ req[p].kind # "add" => RowLock(req[p].row) \in held[p] /\ serial[req[p].row] > 0
           /\ req[p].kind = "add" => TeacherOf[req[p].row] = req[p].actor
                                     /\ serial'[req[p].row] = 1 /\ link'[req[p].row] = NoUser
           /\ link'[req[p].row] # NoUser =>
                /\ req[p].kind = "connect" /\ link'[req[p].row] = req[p].actor
                /\ code[req[p].row] # "none" /\ serial[req[p].row] = req[p].code
<1> DEFINE q == req[p]
           r == q.row
           u == q.actor
<1>1. phase[p] = "insert" /\ phase[p] # "idle" /\ todo[p] = {}
  BY DEF CommitClassroom, Granted
<1>2. /\ q \in Requests /\ Begun(q) /\ u \in Users /\ TypeOK
      /\ SoundInsert(q, {}, held[p]) /\ NewEntriesFree
  BY <1>1, RequestSound DEF Sound, TxnInv
<1>3. /\ q.kind \in ClassroomKinds /\ RowFound(q, held[p]) /\ RowAccepted(q) /\ KeyLock(u) \in held[p]
      /\ r \in Rows /\ Approved(u)
  BY <1>2 DEF SoundInsert, Begun
<1>4. ~(q.kind = "connect" /\ LinkedInClassroom(r, u))
  BY DEF CommitClassroom
<1>5. /\ link' = [link EXCEPT ![r] = IF q.kind = "connect" THEN u ELSE NoUser]
      /\ code' = [code EXCEPT ![r] = IF q.kind \in TeacherKinds THEN "live" ELSE "none"]
      /\ serial' = [serial EXCEPT ![r] = IF q.kind \in TeacherKinds THEN @ + 1 ELSE @]
      /\ UNCHANGED accounts
      /\ End(p)
  BY <1>4 DEF CommitClassroom
<1>6. Moves(p, "idle", NoRequest, {}, {}, {})
  BY <1>5 DEF End, Moves
<1>7. /\ \A x \in Rows : x # r => link'[x] = link[x] /\ code'[x] = code[x] /\ serial'[x] = serial[x]
      /\ link'[r] = IF q.kind = "connect" THEN u ELSE NoUser
      /\ serial'[r] = IF q.kind \in TeacherKinds THEN serial[r] + 1 ELSE serial[r]
  BY <1>2, <1>3, <1>5 DEF TypeOK
<1>8. q.kind # "add" => RowLock(r) \in held[p] /\ serial[r] > 0
  BY <1>2, <1>3 DEF RowFound, Begun, ClassroomKinds, TeacherKinds, RowKinds
<1>9. q.kind = "add" => TeacherOf[r] = u /\ serial[r] = 0 /\ "add" \in TeacherKinds /\ "add" # "connect"
  BY <1>2 DEF Begun, TeacherKinds
<1>10. q.kind = "connect" => code[r] # "none" /\ serial[r] = q.code
  BY <1>3 DEF RowAccepted, Names
<1>11. Next
  <2>1. CASE q.kind \in TeacherKinds
    <3>1. link[r] = NoUser /\ serial[r] < MaxSerial /\ TeacherOf[r] = u
      <4>1. CASE q.kind = "add"
        <5>1. link[r] = NoUser
          BY <1>2, <1>3, <1>9, <4>1 DEF NewEntriesFree
        <5> QED
          BY <1>9, <4>1, <5>1
      <4>2. CASE q.kind = "rotate"
        BY <1>3, <4>2 DEF RowAccepted, RowFound
      <4> QED
        BY <2>1, <4>1, <4>2 DEF TeacherKinds
    <3>2. q.kind # "connect"
      BY <2>1 DEF TeacherKinds
    <3>3. link' = link
      BY <1>2, <1>5, <3>1, <3>2 DEF TypeOK
    <3>4. IssueCode(r)
      BY <1>3, <1>5, <2>1, <3>1, <3>3 DEF IssueCode
    <3> QED
      BY <1>3, <3>4 DEF Next
  <2>2. CASE q.kind = "connect"
    <3>1. q.kind \notin TeacherKinds
      BY <2>2 DEF TeacherKinds
    <3>2. serial' = serial
      BY <1>2, <1>5, <3>1 DEF TypeOK
    <3>3. TeacherCapable(TeacherOf[r]) /\ code[r] # "none" /\ link[r] = NoUser
      BY <1>3, <2>2 DEF RowAccepted, Names
    <3>4. Redeem(r, u)
      BY <1>3, <1>4, <1>5, <2>2, <3>1, <3>2, <3>3 DEF Redeem
    <3> QED
      BY <1>2, <1>3, <3>4 DEF Next
  <2>3. CASE q.kind = "disconnect"
    <3>1. q.kind \notin TeacherKinds /\ q.kind # "connect"
      BY <2>3 DEF TeacherKinds
    <3>2. serial' = serial
      BY <1>2, <1>5, <3>1 DEF TypeOK
    <3>3. Disconnect(r)
      BY <1>3, <1>5, <2>3, <3>1, <3>2 DEF Disconnect, RowAccepted
    <3> QED
      BY <1>3, <3>3 DEF Next
  <2> QED
    BY <1>3, <2>1, <2>2, <2>3 DEF ClassroomKinds
<1>12. serial[r] \in Nat
  BY <1>2, <1>3, SerialTyped
<1> QED
  BY <1>1, <1>3, <1>5, <1>6, <1>7, <1>8, <1>9, <1>10, <1>11, <1>12

LEMMA CommitClassroomPreserves ==
    ASSUME TxnInv, NEW p \in Procs, CommitClassroom(p)
    PROVE  TxnInv'
<1>1. CASE Refuse(p)
  BY <1>1, RefusePreserves
<1>2. CASE ~Refuse(p)
  <2> DEFINE q == req[p]
             r == q.row
             u == q.actor
  <2>1. /\ phase[p] # "idle" /\ Next /\ UNCHANGED accounts
        /\ Moves(p, "idle", NoRequest, {}, {}, {})
    BY <1>2, ClassroomCommitted
  <2>2. /\ \A x \in Rows : x # r => link'[x] = link[x] /\ code'[x] = code[x] /\ serial'[x] = serial[x]
        /\ serial'[r] \in {serial[r], serial[r] + 1} /\ link'[r] \in {NoUser, u}
        /\ r \in Rows /\ KeyLock(u) \in held[p]
        /\ q.kind # "add" => RowLock(r) \in held[p] /\ serial[r] > 0
        /\ q.kind = "add" => TeacherOf[r] = u /\ serial'[r] = 1 /\ link'[r] = NoUser
    BY <1>2, ClassroomCommitted
  <2>3. TypeOK' /\ serial[r] \in Nat /\ serial'[r] \in Nat /\ u \in Users
    <3>1. TypeOK' /\ u \in Users
      BY <2>1, TypeStep, RequestSound DEF TxnInv
    <3>2. serial[r] \in Nat
      BY <2>2, SerialTyped DEF TxnInv
    <3> QED
      BY <2>2, <3>1, <3>2
  <2>4. q.kind = "add" => serial[r] = 0
    BY <2>1, RequestSound DEF Begun
  <2>5. NewEntriesFree'
    <3>1. serial'[r] # 0
      BY <2>2, <2>3
    <3>2. \A x \in Rows : x # r /\ serial'[x] = 0 => link'[x] = NoUser
      BY <2>2 DEF NewEntriesFree, TxnInv
    <3> QED
      BY <3>1, <3>2 DEF NewEntriesFree
  <2>6. \A w \in Users : Approved(w) => Approved(w)'
    BY <2>1 DEF Approved, accounts
  <2>7. \A x \in Rows : serial[x] > 0 => serial'[x] > 0
    BY <2>2, <2>3
  <2>8. ASSUME NEW o \in Procs \ {p}
        PROVE  Respected(o)
    <3>1. ASSUME NEW w \in Users, AccountLock(w) \in held[o]
          PROVE  w # u /\ role'[w] = role[w] /\ status'[w] = status[w] /\ verified'[w] = verified[w]
      BY <2>1, <2>2, <3>1 DEF TxnInv, Exclusive, accounts
    <3>2. ASSUME NEW x \in Rows, RowLock(x) \in held[o], serial[x] > 0
          PROVE  link'[x] = link[x] /\ serial'[x] = serial[x] /\ code'[x] = code[x]
      <4>1. x # r
        BY <2>2, <2>4, <3>2 DEF TxnInv, Exclusive
      <4> QED
        BY <2>2, <4>1
    <3>3. ASSUME NEW x \in Rows, NEW w \in Users, AccountLock(w) \in held[o], Shares(x, w)'
          PROVE  Shares(x, w)
      <4>1. w # u /\ w # NoUser
        BY <3>1, <3>3
      <4>2. serial'[x] > 0 /\ (TeacherOf[x] = w \/ link'[x] = w)
        BY <3>3 DEF Shares
      <4>3. CASE x # r
        BY <2>2, <4>2, <4>3 DEF Shares
      <4>4. CASE x = r
        BY <2>2, <4>1, <4>2, <4>4 DEF Shares
      <4> QED
        BY <4>3, <4>4
    <3>4. ASSUME phase[o] # "idle", req[o].kind = "add"
          PROVE  serial'[req[o].row] = serial[req[o].row]
      <4>1. req[o].row # r /\ req[o].row \in Rows
        BY <2>1, <3>4, RequestSound DEF TxnInv, AddAlone, Begun, ClassroomKinds, TeacherKinds
      <4> QED
        BY <2>2, <4>1
    <3> QED
      BY <2>6, <2>7, <3>1, <3>2, <3>3, <3>4 DEF Respected
  <2>9. Sound("idle", NoRequest, {}, {}, {})'
    BY DEF Sound, Phases
  <2> HIDE DEF q, r, u
  <2> QED
    BY <2>1, <2>3, <2>5, <2>8, <2>9, SameLocks, SameEntry, MovePreserves
<1> QED
  BY <1>1, <1>2

-----------------------------------------------------------------------------
(* The transactions of nobody's request.                                    *)
Elsewhere ==
    /\ UNCHANGED <<link, serial>>
    /\ \A r \in Rows : code[r] # "none" => code'[r] # "none"
    /\ \A u \in Users : Approved(u) => Approved(u)'
    /\ \A u \in Users : ~Unlocked(u) =>
         role'[u] = role[u] /\ status'[u] = status[u] /\ verified'[u] = verified[u]

LEMMA EnvironmentPreserves ==
    ASSUME TxnInv, Environment
    PROVE  TxnInv' /\ Next
<1>1. UNCHANGED txnVars
  BY DEF Environment
<1>2. Next /\ Elsewhere
  <2> USE DEF TxnInv, TypeOK, roster, accounts, Approved, Elsewhere
  <2>1. ASSUME NEW u \in Users, Unlocked(u), NEW r \in SelfServiceRoles \cap Roles, NEW v \in BOOLEAN,
               Register(u, r, v)
        PROVE  Next /\ Elsewhere
    BY <2>1 DEF Register, Next
  <2>2. ASSUME NEW u \in Users, Unlocked(u), VerifyEmail(u)
        PROVE  Next /\ Elsewhere
    BY <2>2 DEF VerifyEmail, Next
  <2>3. ASSUME NEW u \in Users, Unlocked(u), BootstrapDemo(u) \/ RevokeDemo(u)
        PROVE  Next /\ Elsewhere
    BY <2>3 DEF BootstrapDemo, RevokeDemo, Next
  <2>4. ASSUME NEW r \in Rows, ExpireCode(r)
        PROVE  Next /\ Elsewhere
    BY <2>4 DEF ExpireCode, Next
  <2>5. CASE \E r \in Rows : ExpireCode(r)
    BY <2>4, <2>5
  <2>6. ASSUME NEW u \in Users, Unlocked(u),
               \/ \E r \in SelfServiceRoles \cap Roles, v \in BOOLEAN : Register(u, r, v)
               \/ VerifyEmail(u)
               \/ BootstrapDemo(u)
               \/ RevokeDemo(u)
        PROVE  Next /\ Elsewhere
    BY <2>1, <2>2, <2>3, <2>6
  <2> HIDE DEF TxnInv, TypeOK, roster, accounts, Approved, Elsewhere
  <2> QED
    BY <2>5, <2>6 DEF Environment
<1>3. TypeOK'
  BY <1>2, TypeStep DEF TxnInv
<1>4. \A o \in Procs : Respected(o)
  <2>1. ASSUME NEW o \in Procs, NEW u \in Users, AccountLock(u) \in held[o]
        PROVE  ~Unlocked(u)
    BY <2>1 DEF Unlocked, AccountLock
  <2> QED
    BY <1>2, <2>1 DEF Respected, Shares, Elsewhere
<1>5. \A o \in Procs : Sound(phase[o], req[o], admins[o], todo[o], held[o])'
  BY <1>1, <1>4, SoundLasts DEF TxnInv, txnVars
<1>6. Tables' /\ Exclusive' /\ AddAlone' /\ NewEntriesFree'
  BY <1>1, <1>2 DEF Elsewhere, TxnInv, Tables, Exclusive, AddAlone, NewEntriesFree, txnVars
<1> QED
  BY <1>2, <1>3, <1>5, <1>6 DEF TxnInv

-----------------------------------------------------------------------------
LEMMA FirstState == InitTxn => TxnInv
<1> SUFFICES ASSUME InitTxn PROVE TxnInv
  OBVIOUS
<1>1. TypeOK
  BY DEF InitTxn, Init, TypeOK, AnyRole, Statuses, Codes
<1>2. Sound("idle", NoRequest, {}, {}, {})
  BY DEF Sound, Phases
<1> QED
  BY <1>1, <1>2 DEF InitTxn, Init, TxnInv, Tables, Exclusive, AddAlone, NewEntriesFree

LEMMA RefuseSteps ==
    ASSUME TxnInv, NEW p \in Procs, Refuse(p)
    PROVE  TxnInv' /\ UNCHANGED vars
  BY RefusePreserves DEF Refuse

(* Every step of the handlers keeps the invariant and is a step, or no      *)
(* step at all, of the directory.                                           *)
LEMMA EveryStep ==
    ASSUME TxnInv, [NextTxn]_allVars
    PROVE  TxnInv' /\ [Next]_vars
<1>1. CASE UNCHANGED allVars
  <2>1. UNCHANGED vars /\ UNCHANGED txnVars
    BY <1>1 DEF allVars
  <2>2. \A o \in Procs : Sound(phase[o], req[o], admins[o], todo[o], held[o])'
    BY <2>1, UnchangedRespects, SoundLasts DEF TxnInv, txnVars
  <2>3. TypeOK' /\ Tables' /\ Exclusive' /\ AddAlone' /\ NewEntriesFree'
    BY <2>1 DEF TxnInv, TypeOK, Tables, Exclusive, AddAlone, NewEntriesFree, vars, txnVars
  <2> QED
    BY <2>1, <2>2, <2>3 DEF TxnInv
<1>2. CASE Environment
  BY <1>2, EnvironmentPreserves
<1>3. ASSUME NEW p \in Procs, StartMembership(p) \/ StartClassroom(p) \/ StartAdd(p)
      PROVE  TxnInv' /\ UNCHANGED vars
  BY <1>3, StartsPreserve DEF StartMembership, StartClassroom, StartAdd, Start
<1>4. ASSUME NEW p \in Procs, TakeLock(p)
      PROVE  TxnInv' /\ UNCHANGED vars
  BY <1>4, TakePreserves DEF TakeLock
<1>5. ASSUME NEW p \in Procs, LockAdmins(p) \/ LockOthers(p)
      PROVE  TxnInv' /\ UNCHANGED vars
  BY <1>5, LockAdminsPreserves, LockOthersPreserves DEF LockAdmins, LockOthers, Execute
<1>6. ASSUME NEW p \in Procs, Decide(p)
      PROVE  TxnInv' /\ UNCHANGED vars
  BY <1>6, DecidePreserves DEF Decide, Execute, Refuse
<1>7. ASSUME NEW p \in Procs, CommitMembership(p)
      PROVE  TxnInv' /\ Next
  BY <1>7, CommitMembershipPreserves, MembershipCommitted
<1>8. ASSUME NEW p \in Procs, FindRow(p)
      PROVE  TxnInv' /\ UNCHANGED vars
  BY <1>8, FindRowPreserves DEF FindRow, Execute, Refuse
<1>9. ASSUME NEW p \in Procs, CheckRow(p)
      PROVE  TxnInv' /\ UNCHANGED vars
  BY <1>9, CheckRowPreserves DEF CheckRow, Execute, Refuse
<1>10. ASSUME NEW p \in Procs, CommitClassroom(p)
       PROVE  TxnInv' /\ [Next]_vars
  <2>1. CASE Refuse(p)
    BY <2>1, RefuseSteps
  <2>2. CASE ~Refuse(p)
    BY <1>10, <2>2, CommitClassroomPreserves, ClassroomCommitted
  <2> QED
    BY <2>1, <2>2
<1>11. ASSUME NEW p \in Procs, AbortDeadlock(p) \/ Crash(p)
       PROVE  TxnInv' /\ UNCHANGED vars
  BY <1>11, RefuseSteps DEF AbortDeadlock, Crash
<1> QED
  BY <1>1, <1>2, <1>3, <1>4, <1>5, <1>6, <1>7, <1>8, <1>9, <1>10, <1>11 DEF NextTxn, Step

(* What a request has read under its locks is true until it ends, and what  *)
(* it has decided on is still what it will commit.                          *)
THEOREM LocksSound == SpecTxn => []TxnInv
<1>1. TxnInv /\ [NextTxn]_allVars => TxnInv'
  BY EveryStep
<1> QED
  BY <1>1, FirstState, PTL DEF SpecTxn

(* Accounts, roster and requests keep their types; a process is idle        *)
(* exactly when it has no request.                                          *)
THEOREM TxnTypes == SpecTxn => []TxnTypeOK
<1>1. TxnInv => TxnTypeOK
  <2> SUFFICES ASSUME TxnInv PROVE TxnTypeOK
    OBVIOUS
  <2>1. ASSUME NEW p \in Procs
        PROVE  /\ phase[p] \in Phases /\ req[p] \in Requests \cup {NoRequest}
               /\ admins[p] \in SUBSET Users /\ todo[p] \in SUBSET Locks /\ held[p] \in SUBSET Locks
               /\ phase[p] = "idle" => req[p] = NoRequest
               /\ req[p] = NoRequest => phase[p] = "idle"
    BY TxnAssumption DEF TxnInv, Sound
  <2> QED
    BY <2>1 DEF TxnInv, Tables, TxnTypeOK
<1> QED
  BY <1>1, LocksSound, PTL

(* The handlers, with their locks and their unlocked reads, implement the   *)
(* directory in which every transaction is one step (approve_pending_member,*)
(* change_member_role, change_member_status and the classroom handlers).    *)
THEOREM ImplementsMembership == SpecTxn => Spec
<1>1. InitTxn => Init
  BY DEF InitTxn
<1>2. TxnInv /\ [NextTxn]_allVars => [Next]_vars
  BY EveryStep
<1> QED
  BY <1>1, <1>2, LocksSound, PTL DEF SpecTxn, Spec

(* Every transaction a request commits in a school in operation is a step  *)
(* of that directory.                                                      *)
THEOREM StepsPromised == SpecTxn => PromisedSteps
<1>1. TxnInv /\ [NextTxn]_allVars => [Next]_vars
  BY EveryStep
<1> QED
  BY <1>1, LocksSound, PTL DEF SpecTxn, PromisedSteps

-----------------------------------------------------------------------------
(* Only two kinds of steps write what a request has asked for.              *)
LEMMA Writers ==
    ASSUME TxnInv, [NextTxn]_allVars
    PROVE  \/ UNCHANGED vars
           \/ UNCHANGED <<phase, link>>
           \/ \E p \in Procs : \/ CommitMembership(p)
                               \/ CommitClassroom(p) /\ ~Refuse(p)
<1>1. CASE UNCHANGED allVars
  BY <1>1 DEF allVars
<1>2. CASE Environment
  <2>1. UNCHANGED phase
    BY <1>2 DEF Environment, txnVars
  <2>2. UNCHANGED link
    BY <1>2 DEF Environment, Register, VerifyEmail, BootstrapDemo, RevokeDemo, ExpireCode, roster
  <2> QED
    BY <2>1, <2>2
<1>3. ASSUME NEW p \in Procs, StartMembership(p) \/ StartClassroom(p) \/ StartAdd(p)
      PROVE  UNCHANGED vars
  BY <1>3 DEF StartMembership, StartClassroom, StartAdd, Start
<1>4. ASSUME NEW p \in Procs,
             \/ TakeLock(p) \/ LockAdmins(p) \/ LockOthers(p) \/ Decide(p)
             \/ FindRow(p) \/ CheckRow(p) \/ AbortDeadlock(p) \/ Crash(p)
             \/ CommitClassroom(p) /\ Refuse(p)
      PROVE  UNCHANGED vars
  BY <1>4 DEF TakeLock, LockAdmins, LockOthers, Decide, FindRow, CheckRow, AbortDeadlock, Crash,
              Execute, Refuse
<1>5. ASSUME NEW p \in Procs, CommitMembership(p) \/ (CommitClassroom(p) /\ ~Refuse(p))
      PROVE  \E o \in Procs : CommitMembership(o) \/ (CommitClassroom(o) /\ ~Refuse(o))
  BY <1>5
<1> QED
  BY <1>1, <1>2, <1>3, <1>4, <1>5 DEF NextTxn, Step

(* Whoever was let in by the decorator as an administrator is still one     *)
(* when the decision is committed.                                          *)
THEOREM DecidedUnderLock == SpecTxn => DecidedByAdministrator
<1>1. ASSUME TxnInv, [NextTxn]_allVars, NEW p \in Procs,
             phase[p] = "links", phase'[p] = "idle", accounts' # accounts
      PROVE  /\ status[req[p].actor] = "ACTIVE"
             /\ \/ role[req[p].actor] = "ADMIN"
                \/ role[req[p].actor] = "ASSISTANT_ADMIN" /\ req[p].kind = "approve"
  <2>1. ~UNCHANGED vars /\ ~UNCHANGED phase
    BY <1>1 DEF vars, accounts
  <2>2. PICK o \in Procs : CommitMembership(o) \/ (CommitClassroom(o) /\ ~Refuse(o))
    BY <1>1, <2>1, Writers
  <2>3. CASE CommitMembership(o)
    <3>1. Moves(o, "idle", NoRequest, {}, {}, {})
      BY <2>3 DEF CommitMembership, End, Moves
    <3>2. o = p
      BY <1>1, <3>1, OthersMove
    <3>3. phase[p] = "links" /\ todo[p] = {}
      BY <2>3, <3>2 DEF CommitMembership, Granted
    <3>4. SoundLinks(req[p], admins[p], {}, held[p])
      BY <1>1, <3>3, RequestSound DEF Sound
    <3>5. ActorPermitted(req[p]) /\ req[p].actorRow = Account(req[p].actor)
      BY <3>4 DEF SoundLinks, Decided, Current
    <3> QED
      BY <3>5 DEF ActorPermitted, Account
  <2>4. CASE CommitClassroom(o) /\ ~Refuse(o)
    BY <1>1, <2>4, ClassroomCommitted DEF accounts
  <2> QED
    BY <2>2, <2>3, <2>4
<1>2. TxnInv /\ [NextTxn]_allVars =>
        [\A p \in Procs : phase[p] = "links" /\ phase'[p] = "idle" /\ accounts' # accounts =>
          /\ status[req[p].actor] = "ACTIVE"
          /\ \/ role[req[p].actor] = "ADMIN"
             \/ role[req[p].actor] = "ASSISTANT_ADMIN" /\ req[p].kind = "approve"]_allVars
  BY <1>1
<1> QED
  BY <1>2, LocksSound, PTL DEF SpecTxn, DecidedByAdministrator

(* A link is made with the code the student typed while that code is the    *)
(* newest of its entry and unused, however long connect_student_account     *)
(* has waited for the row.                                                  *)
THEOREM NewestCodeRedeemed == SpecTxn => CurrentCodeRedeemed
<1>1. ASSUME TxnInv, [NextTxn]_allVars, NEW r \in Rows, link'[r] # link[r], link'[r] # NoUser
      PROVE  /\ code[r] # "none"
             /\ \E p \in Procs : /\ req[p] # NoRequest
                                /\ <<req[p].kind, req[p].row>> = <<"connect", r>>
                                /\ <<req[p].actor, req[p].code>> = <<link'[r], serial[r]>>
  <2>1. ~UNCHANGED vars /\ ~UNCHANGED link
    BY <1>1 DEF vars
  <2>2. PICK p \in Procs : CommitMembership(p) \/ (CommitClassroom(p) /\ ~Refuse(p))
    BY <1>1, <2>1, Writers
  <2>3. ~CommitMembership(p)
    BY <1>1, MembershipCommitted
  <2>4. CommitClassroom(p) /\ ~Refuse(p)
    BY <2>2, <2>3
  <2>5. phase[p] = "insert" /\ r = req[p].row
    BY <1>1, <2>4, ClassroomCommitted
  <2>6. /\ req[p].kind = "connect" /\ link'[r] = req[p].actor
        /\ code[r] # "none" /\ serial[r] = req[p].code
    BY <1>1, <2>4, <2>5, ClassroomCommitted
  <2>7. req[p] # NoRequest
    BY <1>1, <2>5, RequestSound, TxnAssumption
  <2> QED
    BY <2>5, <2>6, <2>7
<1>2. TxnInv /\ [NextTxn]_allVars =>
        [\A r \in Rows : link'[r] # link[r] /\ link'[r] # NoUser =>
          /\ code[r] # "none"
          /\ \E p \in Procs : /\ req[p] # NoRequest
                             /\ <<req[p].kind, req[p].row>> = <<"connect", r>>
                             /\ <<req[p].actor, req[p].code>> = <<link'[r], serial[r]>>]_vars
  BY <1>1
<1> QED
  BY <1>2, LocksSound, PTL DEF SpecTxn, CurrentCodeRedeemed

(* What Membership guarantees therefore holds of the handlers: some         *)
(* administrator remains, approval precedes everything, links are sound.    *)
THEOREM HandlersSafe ==
    SpecTxn => [](/\ AdminRemains /\ UnapprovedHoldNoPrivilege /\ ActiveAreVerified
                  /\ LinkedTeacherCapable /\ LinkStateConsistent)
<1> QED
  BY ImplementsMembership, AdministratorRemains, ApprovalSound, LinksSound, PTL
=============================================================================
