---------------------------- MODULE SharedRecords ----------------------------
(***************************************************************************)
(* What accounts keep, and who reads it: academic records with their       *)
(* courses, saved consultations, and the classroom links that share them.  *)
(* The directory and the links are those of Membership, and change while   *)
(* a person has a page open or a request under way.  A request goes by the *)
(* role its decorator read (session_user), and by the rows its transaction *)
(* finds, which it locks; so the transaction is one step after that.  Each  *)
(* of Requests may be overtaken between the two; beside them any number of  *)
(* requests is served at once.  Of a note it is only kept that there is    *)
(* one.                                                                    *)
(***************************************************************************)
EXTENDS Membership, SequencesExt

CONSTANTS
    Requests,    \* pages and requests open at once
    Overtaken,   \* bound: the users whose requests others may overtake
    MaxRecords,  \* bound: academic records ever made
    MaxConsultations, \* bound: consultations kept at once
    MaxWrites,   \* bound: course tables ever entered
    None

ASSUME SharedAssumption ==
    /\ MaxRecords \in Nat /\ MaxConsultations \in Nat /\ MaxWrites \in Nat
    /\ Overtaken \subseteq Users

VARIABLES
    records,        \* StudentAcademicRecord, None when deleted
    consultations,  \* SavedConsultation; two that agree in all of this are one
    written,        \* the student each course table was entered for
    req             \* pages and requests

shared == <<records, consultations, written, req>>
allVars == <<vars, shared>>

-----------------------------------------------------------------------------
(* A table of courses that somebody entered at one time, by its number.     *)
CourseTables == 1..MaxWrites

(* student_id of a record, student_reference of a consultation.             *)
Account(u) == <<"account", u>>
Entry(x) == <<"classroom", x>>
Private(u, n) == <<"teacher", u, n>>

References == {Account(u) : u \in Users} \cup {Entry(x) : x \in Rows}
                 \cup {Private(u, n) : u \in Users, n \in CourseTables}

(* The first semester of grade 3 may be spent in vocational training; all   *)
(* other terms are alike.                                                   *)
Terms == {"ordinary", "grade3first"}
Profiles == {"VOCATIONAL_CURRENT", "GENERAL_GRADUATE"}
Sources == {"HOME_SCHOOL_RECORD", "VOCATIONAL_TRAINING_RECORD"}

Nobody == NoUser
Record == [ref : References, owner : Users \cup {Nobody}, manager : Users \cup {Nobody},
           term : Terms, source : Sources, training : BOOLEAN, courses : SUBSET CourseTables]
Consultation == [ref : References, owner : Users \cup {Nobody}, manager : Users \cup {Nobody},
                 rows : SUBSET CourseTables, note : BOOLEAN]
Request == [user : Users, role : AnyRole \cup {None}, step : {"form", "edit", "work", "store"},
            record : 0..MaxRecords, ref : References \cup {None}, rows : SUBSET CourseTables]

SharedTypeOK ==
    /\ records \in Seq(Record \cup {None}) /\ Len(records) <= MaxRecords
    /\ consultations \subseteq Consultation /\ Cardinality(consultations) <= MaxConsultations
    /\ written \in Seq(References) /\ Len(written) <= MaxWrites
    /\ req \in [Requests -> Request \cup {None}]

SharedInit ==
    /\ records = <<>>
    /\ consultations = {}
    /\ written = <<>>
    /\ req = [p \in Requests |-> None]

Live == {i \in DOMAIN records : records[i] # None}

-----------------------------------------------------------------------------
(* Links, as the queries of classroom_links.py find them now.               *)

LinkedStudents(t) == {link[x] : x \in {x \in Rows : /\ TeacherOf[x] = t
                                                    /\ link[x] # NoUser
                                                    /\ status[link[x]] = "ACTIVE"
                                                    /\ role[link[x]] = "STUDENT"}}

LinkedEntries(u) == {x \in Rows : link[x] = u /\ TeacherCapable(TeacherOf[x])}
LinkedTeachers(u) == {TeacherOf[x] : x \in LinkedEntries(u)}
LinkedReferences(u) == {Entry(x) : x \in LinkedEntries(u)}

-----------------------------------------------------------------------------
(* Who changes and who reads a record or a consultation.  r is the role the *)
(* request goes by; an account whose status is not ACTIVE has got no page.  *)

MainAdmin(u, r) == r = "ADMIN" /\ u \notin DemoUsers

CanChange(u, r, row) ==
    \/ MainAdmin(u, r)
    \/ r = "STUDENT" /\ row.owner = u
    \/ TeacherRole(r) /\ row.manager = u

CanReadRecord(u, r, row) ==
    \/ CanChange(u, r, row)
    \/ r = "STUDENT" /\ row.ref \in LinkedReferences(u)
    \/ TeacherRole(r) /\ row.owner \in LinkedStudents(u)

CanReadConsultation_Linked(u, r, row) ==
    \/ CanChange(u, r, row)
    \/ r = "STUDENT" /\ (row.ref \in LinkedReferences(u) \/ row.ref = Account(u))
    \/ TeacherRole(r) /\ row.owner \in LinkedStudents(u)

CanReadConsultation(u, r, row) ==
    \/ CanChange(u, r, row)
    \/ /\ r = "STUDENT"
       /\ \/ row.ref \in LinkedReferences(u)
          \/ row.ref = Account(u) /\ row.manager \in LinkedTeachers(u)
    \/ TeacherRole(r) /\ row.owner \in LinkedStudents(u)

(* The lists of the account page, each a query of its own.                  *)
VisibleRecords(u) ==
    {i \in Live :
        CASE role[u] = "STUDENT" -> records[i].owner = u \/ records[i].ref \in LinkedReferences(u)
          [] TeacherRole(role[u]) /\ ~MainAdmin(u, role[u]) ->
                records[i].manager = u \/ records[i].owner \in LinkedStudents(u)
          [] OTHER -> role[u] = "ADMIN"}

VisibleConsultations(u) ==
    {row \in consultations :
        CASE role[u] = "STUDENT" -> \/ row.owner = u
                                    \/ row.ref \in LinkedReferences(u)
                                    \/ row.ref = Account(u) /\ row.manager \in LinkedTeachers(u)
          [] TeacherRole(role[u]) /\ ~MainAdmin(u, role[u]) ->
                row.manager = u \/ row.owner \in LinkedStudents(u)
          [] OTHER -> role[u] = "ADMIN"}

(* The teacher's page of one roster entry asks for the entry and for the    *)
(* account it is linked to, and not for the role of either.                 *)
EntryPage(x) ==
    {i \in Live : \/ records[i].ref = Entry(x)
                  \/ link[x] # NoUser /\ records[i].owner = link[x]}

OwnEntries_All(u) == {x \in Rows : serial[x] > 0}

OwnEntries(u) == {x \in Rows : serial[x] > 0 /\ TeacherOf[x] = u}

ClassroomPage(t) == UNION {EntryPage(x) : x \in OwnEntries(t)}

(* The print-outs of a saved consultation that a person may ask for.        *)
Printouts_AnyAudience(u, r, row) ==
    IF CanReadConsultation(u, r, row) THEN {"student", "teacher"} ELSE {}

Printouts(u, r, row) ==
    IF CanReadConsultation(u, r, row)
    THEN {"student"} \cup (IF TeacherRole(r) THEN {"teacher"} ELSE {}) ELSE {}

(* The note of a consultation: the account page shows it to its counselor   *)
(* and to administrators, and it is printed for teachers.                   *)
NoteShown(u, row) ==
    \/ row \in VisibleConsultations(u) /\ TeacherRole(role[u]) /\ row.manager = u
    \/ row \in VisibleConsultations(u) /\ role[u] = "ADMIN"
    \/ "teacher" \in Printouts(u, role[u], row)

(* The input form filled in from a saved consultation.                      *)
CloneRows(u, r, row) ==
    IF CanChange(u, r, row)
    THEN UNION {records[k].courses : k \in {k \in Live : records[k].ref = row.ref}}
    ELSE {}

(* It also names the student's profile, which is read with the consultation.*)
ClonePage(u, row) ==
    IF CanReadConsultation(u, role[u], row) THEN CloneRows(u, role[u], row) ELSE {}

-----------------------------------------------------------------------------
(* Pages and requests.                                                      *)

End(p) == req' = [req EXCEPT ![p] = None]
Working(p, step) == req[p] # None /\ req[p].step = step
SignedIn(u) == status[u] = "ACTIVE" /\ role[u] \in {"STUDENT", "TEACHER", "ADMIN"}

NewRequest(u, r, step) == [user |-> u, role |-> r, step |-> step, record |-> 0, ref |-> None, rows |-> {}]

Begin(p, u) ==
    /\ req[p] = None
    /\ SignedIn(u)
    /\ req' = [req EXCEPT ![p] = NewRequest(u, role[u], "work")]
    /\ UNCHANGED <<vars, records, consultations, written>>

(* The records page carries an edit form for every record one may change,   *)
(* with a field for each course it has now.                                 *)
ShowForm(p, u) ==
    /\ req[p] = None
    /\ SignedIn(u)
    /\ \E i \in VisibleRecords(u) :
         /\ CanChange(u, role[u], records[i])
         /\ req' = [req EXCEPT ![p] = [NewRequest(u, None, "form") EXCEPT !.record = i, !.rows = records[i].courses]]
    /\ UNCHANGED <<vars, records, consultations, written>>

Submit(p) ==
    /\ Working(p, "form")
    /\ SignedIn(req[p].user)
    /\ req' = [req EXCEPT ![p].step = "edit", ![p].role = role[req[p].user]]
    /\ UNCHANGED <<vars, records, consultations, written>>

(* A page is left, a request is refused, or its transaction is rolled back. *)
Leave(p) ==
    /\ req[p] # None
    /\ End(p)
    /\ UNCHANGED <<vars, records, consultations, written>>

-----------------------------------------------------------------------------
(* Records.  UNIQUE(student_id, academic_year, grade, semester,             *)
(* record_source) rolls a transaction back that would make a second one.    *)

SameKey(a, b) == a.ref = b.ref /\ a.term = b.term /\ a.source = b.source
Twin(i, row) == \E k \in Live \ {i} : SameKey(records[k], row)

(* public_record_classification.                                            *)
SourceOf(profile, t) ==
    IF t = "grade3first" /\ profile = "VOCATIONAL_CURRENT"
    THEN "VOCATIONAL_TRAINING_RECORD" ELSE "HOME_SCHOOL_RECORD"

(* _vocational_course_values: a classroom has students in training.         *)
ClassroomSource(t) == SourceOf("VOCATIONAL_CURRENT", t)

(* to_academic_record_inputs: the rows by term, source and training.        *)
Input(t, source, n) ==
    [term |-> t, source |-> source, training |-> source = "VOCATIONAL_TRAINING_RECORD", courses |-> {n}]

Inputs(profile, terms, n) == {Input(t, SourceOf(profile, t), n) : t \in terms}

NewRecord(ref, u, r, input) ==
    [ref |-> ref, owner |-> IF r = "STUDENT" THEN u ELSE Nobody,
     manager |-> IF TeacherRole(r) THEN u ELSE Nobody,
     term |-> input.term, source |-> input.source, training |-> input.training, courses |-> input.courses]

Keep(u, r, ref, rows) ==
    /\ Cardinality(consultations) < MaxConsultations
    /\ \E note \in BOOLEAN :
         /\ note => TeacherRole(r)
         /\ consultations' = consultations \cup
                {[ref |-> ref, owner |-> IF r = "STUDENT" THEN u ELSE Nobody,
                  manager |-> IF TeacherRole(r) THEN u ELSE Nobody, rows |-> rows, note |-> note]}

(* Saving a one-time calculation: a student's earlier courses of the same   *)
(* term and source are replaced; a teacher keeps each calculation apart.    *)
Replaced_Added(row, new) == [row EXCEPT !.courses = @ \cup new.courses, !.training = new.training]

Replaced(row, new) == [row EXCEPT !.courses = new.courses, !.training = new.training]

SaveCalculation(u, r) ==
    LET n == Len(written) + 1
        ref == IF r = "STUDENT" THEN Account(u) ELSE Private(u, n)
    IN /\ n <= MaxWrites
       /\ \E profile \in Profiles, terms \in SUBSET Terms \ {{}} :
            LET rows == {NewRecord(ref, u, r, input) : input \in Inputs(profile, terms, n)}
                Stored(row) == {i \in Live : SameKey(records[i], row)}
                new == {row \in rows : Stored(row) = {}}
            IN /\ Len(records) + Cardinality(new) <= MaxRecords
               /\ \A row \in rows : \A i \in Stored(row) :
                    r = "STUDENT" /\ records[i].owner = u /\ records[i].manager = Nobody
               /\ records' = [i \in DOMAIN records |->
                                 IF \E row \in rows : i \in Stored(row)
                                 THEN Replaced(records[i], CHOOSE row \in rows : i \in Stored(row))
                                 ELSE records[i]]
                              \o SetToSeq(new)
       /\ Keep(u, r, ref, {n})
       /\ written' = Append(written, ref)

(* A course the teacher adds to a roster entry of a classroom of theirs.    *)
WithCourse(row, n, training) == [row EXCEPT !.courses = @ \cup {n}, !.training = training]

AddCourse(u, r) ==
    LET n == Len(written) + 1
    IN /\ TeacherRole(r)
       /\ n <= MaxWrites
       /\ \E x \in OwnEntries(u), t \in Terms :
            LET new == NewRecord(Entry(x), u, r, Input(t, ClassroomSource(t), n))
                found == {i \in Live : SameKey(records[i], new)}
            IN /\ \A i \in found : records[i].manager = u /\ records[i].owner = Nobody
               /\ IF found = {}
                  THEN Len(records) < MaxRecords /\ records' = Append(records, new)
                  ELSE records' = [i \in DOMAIN records |->
                           IF i \in found
                           THEN WithCourse(records[i], n, new.training)
                           ELSE records[i]]
               /\ written' = Append(written, Entry(x))
       /\ UNCHANGED consultations

DeleteRecord(u, r) ==
    /\ \E i \in Live :
         /\ CanChange(u, r, records[i])
         /\ records' = [records EXCEPT ![i] = None]
    /\ UNCHANGED <<consultations, written>>

DeleteConsultation(u, r) ==
    /\ \E row \in consultations :
         /\ CanChange(u, r, row)
         /\ consultations' = consultations \ {row}
    /\ UNCHANGED <<records, written>>

EditNote(u, r) ==
    /\ TeacherRole(r)
    /\ \E row \in consultations, note \in BOOLEAN :
         /\ row.manager = u
         /\ consultations' = (consultations \ {row}) \cup {[row EXCEPT !.note = note]}
    /\ UNCHANGED <<records, written>>

(* A request of a person who went by role r when it began.                  *)
Handle(u, r) ==
    \/ SaveCalculation(u, r)
    \/ AddCourse(u, r)
    \/ DeleteRecord(u, r)
    \/ DeleteConsultation(u, r)
    \/ EditNote(u, r)

Serve(p) ==
    /\ Working(p, "work")
    /\ Handle(req[p].user, req[p].role)
    /\ End(p)
    /\ UNCHANGED vars

ServeAtOnce(u) ==
    /\ SignedIn(u)
    /\ Handle(u, role[u])
    /\ UNCHANGED <<vars, req>>

-----------------------------------------------------------------------------
(* update_academic_record_courses: a record of training that is moved to    *)
(* another term becomes one of the school, and does not turn back.          *)
Moved_KeepsSource(row, t) == [row EXCEPT !.term = t]

Moved(row, t) ==
    LET training == row.source = "VOCATIONAL_TRAINING_RECORD" /\ t = "grade3first"
    IN [row EXCEPT !.term = t, !.training = training,
                   !.source = IF training THEN "VOCATIONAL_TRAINING_RECORD" ELSE "HOME_SCHOOL_RECORD"]

(* A course without its fields in the form has no name, which is an error.  *)
NamesEveryCourse_Unchecked(p, row) == TRUE

NamesEveryCourse(p, row) == row.courses \subseteq req[p].rows

EditRecord(p) ==
    LET i == req[p].record
    IN /\ Working(p, "edit")
       /\ records[i] # None
       /\ CanChange(req[p].user, req[p].role, records[i])
       /\ NamesEveryCourse(p, records[i])
       /\ \E t \in Terms :
            /\ ~Twin(i, Moved(records[i], t))
            /\ records' = [records EXCEPT ![i] = Moved(records[i], t)]
       /\ End(p)
       /\ UNCHANGED <<vars, consultations, written>>

-----------------------------------------------------------------------------
(* Consultations over saved records: what is read is checked when it is     *)
(* loaded, and once more when the result is stored.                         *)

RecordsOf(ref) == {i \in Live : records[i].ref = ref}

MayConsult(u, r, ref) ==
    MainAdmin(u, r) \/ (RecordsOf(ref) # {} /\ \A i \in RecordsOf(ref) : CanReadRecord(u, r, records[i]))

Evaluate(p) ==
    /\ Working(p, "work")
    /\ \E ref \in {records[i].ref : i \in Live} :
         /\ MayConsult(req[p].user, req[p].role, ref)
         /\ req' = [req EXCEPT ![p].step = "store", ![p].ref = ref,
                               ![p].rows = UNION {records[i].courses : i \in RecordsOf(ref)}]
    /\ UNCHANGED <<vars, records, consultations, written>>

Store(p) ==
    LET u == req[p].user
        r == req[p].role
        ref == req[p].ref
    IN /\ Working(p, "store")
       /\ RecordsOf(ref) # {}
       /\ \A i \in RecordsOf(ref) : CanReadRecord(u, r, records[i])
       /\ r = "STUDENT" => ref = Account(u)
       /\ Keep(u, r, ref, req[p].rows)
       /\ End(p)
       /\ UNCHANGED <<vars, records, written>>

-----------------------------------------------------------------------------
RequestStep(p) ==
    \/ \E u \in Overtaken : Begin(p, u) \/ ShowForm(p, u)
    \/ Submit(p)
    \/ Leave(p)
    \/ Serve(p)
    \/ EditRecord(p)
    \/ Evaluate(p)
    \/ Store(p)

(* The steps of Membership on accounts and roster entries already there.    *)
DirectoryStep ==
    \/ \E actor, u \in Users :
        \/ \E r \in Roles : ChangeRole(actor, u, r)
        \/ \E s \in Statuses : ChangeStatus(actor, u, s)
    \/ \E x \in Rows :
        \/ \E u \in Users : Redeem(x, u)
        \/ Disconnect(x)

SharedNext ==
    \/ DirectoryStep /\ UNCHANGED shared
    \/ \E p \in Requests : RequestStep(p)
    \/ \E u \in Users : ServeAtOnce(u)

(* From the first account on, with every step of Membership between the     *)
(* requests.                                                                *)
SharedSpec == Init /\ SharedInit /\ [][(Next /\ UNCHANGED shared) \/ SharedNext]_allVars

-----------------------------------------------------------------------------
(* The reference of a record says whose it is, whatever roles its people    *)
(* have had when they wrote it: what is looked up by reference              *)
(* (load_academic_record_inputs, the shared lists of a student) and what is *)
(* looked up by owner (the lists of a teacher) are the same records.        *)
ReferenceNamesOwner ==
    /\ \A i \in Live :
         LET row == records[i]
         IN \/ \E u \in Users : row.ref = Account(u) /\ row.owner = u /\ row.manager = Nobody
            \/ \E x \in Rows : row.ref = Entry(x) /\ row.owner = Nobody /\ row.manager = TeacherOf[x]
            \/ \E u \in Users, n \in CourseTables :
                  row.ref = Private(u, n) /\ row.owner = Nobody /\ row.manager = u
    /\ \A row \in consultations :
         IF row.manager = Nobody THEN row.owner # Nobody /\ row.ref = Account(row.owner)
                                 ELSE row.owner = Nobody

(* Every list shows what the checks of the single pages allow, and the      *)
(* classroom page shows no record its teacher may not read, as long as the  *)
(* linked accounts are the active students that were linked: six queries    *)
(* and checks, written one by one, agree.                                   *)
ListsMatchChecks ==
    /\ \A u \in {u \in Users : SignedIn(u)} :
         /\ VisibleRecords(u) = {i \in Live : CanReadRecord(u, role[u], records[i])}
         /\ VisibleConsultations(u) = {row \in consultations : Printouts(u, role[u], row) # {}}
    /\ \A t \in {t \in Users : TeacherCapable(t)} :
         (\A x \in OwnEntries(t) : link[x] # NoUser => link[x] \in LinkedStudents(t))
            => ClassroomPage(t) \subseteq VisibleRecords(t)

(* A record is a training record exactly when it is of the first semester   *)
(* of grade 3 and of the training source, after any sequence of saves,      *)
(* additions and moves between terms: the calculation leaves training       *)
(* semesters out by the flag, the rules choose sources by the source.       *)
TrainingConsistent ==
    \A i \in Live :
        LET row == records[i]
        IN /\ row.training <=> row.source = "VOCATIONAL_TRAINING_RECORD"
           /\ row.training => row.term = "grade3first"

(* The courses of a record were entered for its student, and those of an    *)
(* account or of a kept calculation all by one save; a consultation is only *)
(* about courses of its own student, however late it is stored.             *)
CoursesBelong ==
    /\ \A i \in Live :
         /\ \A n \in records[i].courses : written[n] = records[i].ref
         /\ records[i].ref \notin {Entry(x) : x \in Rows} => Cardinality(records[i].courses) = 1
    /\ \A row \in consultations : \A n \in row.rows : written[n] = row.ref

(* What a counselor has noted is shown to that counselor and to main        *)
(* administrators only, on the account page and in print, whoever was       *)
(* student or teacher when it was written and is linked now: a consultation *)
(* is shared with its student, and a student's with the linked teachers.    *)
NotesPrivate ==
    \A u \in {u \in Users : SignedIn(u)}, row \in consultations :
        row.note /\ NoteShown(u, row) => row.manager = u \/ MainAdmin(u, role[u])

(* An edit changes the courses its form showed and no others, although the  *)
(* same record may have been saved again, or a course added, since the form *)
(* was opened.                                                              *)
EditedAsShown ==
    [][\A p \in Requests : EditRecord(p) => records[req[p].record].courses = req[p].rows]_allVars

(* Known disagreement: the courses that fill in a new form from a saved     *)
(* consultation are those the account may read.  The code looks at who      *)
(* manages the consultation only, so a teacher gets the courses of a        *)
(* student whose link has ended.                                            *)
CloneReadable ==
    \A u \in {u \in Users : SignedIn(u)}, row \in consultations :
        ClonePage(u, row) \subseteq UNION {records[k].courses : k \in VisibleRecords(u)}
=============================================================================
