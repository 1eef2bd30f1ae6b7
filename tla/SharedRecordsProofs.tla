-------------------------- MODULE SharedRecordsProofs --------------------------
(***************************************************************************)
(* Whose a record and a consultation is, whose courses they hold, and who  *)
(* reads them, for any accounts, classrooms and requests, and whatever     *)
(* happens to roles, statuses and links meanwhile.  Nothing of it rests on *)
(* the directory being in any particular state: a reference, an owner and  *)
(* a manager are written together, by the role of one request.             *)
(***************************************************************************)
EXTENDS SharedRecords, FiniteSetTheorems, TLAPS

USE RowsAssumption, RootAssumption, SharedAssumption

(* The roles a request goes by.                                             *)
Acting == {"STUDENT", "TEACHER", "ADMIN"}

-----------------------------------------------------------------------------
(* The conjuncts of the invariants, of one record or consultation, when w   *)
(* has been written.                                                        *)
Owned(row) ==
    \/ \E u \in Users : row.ref = Account(u) /\ row.owner = u /\ row.manager = Nobody
    \/ \E x \in Rows : row.ref = Entry(x) /\ row.owner = Nobody /\ row.manager = TeacherOf[x]
    \/ \E u \in Users, n \in CourseTables :
          row.ref = Private(u, n) /\ row.owner = Nobody /\ row.manager = u

Trained(row) ==
    /\ row.training <=> row.source = "VOCATIONAL_TRAINING_RECORD"
    /\ row.training => row.term = "grade3first"

Entered(tables, ref, w) == \A n \in tables : n \in DOMAIN w /\ w[n] = ref

SoundRecord(row, w) ==
    /\ row \in Record
    /\ Owned(row)
    /\ Trained(row)
    /\ Entered(row.courses, row.ref, w)
    /\ row.ref \in {Entry(x) : x \in Rows} \/ \E n \in CourseTables : row.courses = {n}

SoundConsultation(row, w) ==
    /\ row \in Consultation
    /\ IF row.manager = Nobody THEN row.owner # Nobody /\ row.ref = Account(row.owner)
                               ELSE row.owner = Nobody
    /\ row.note => row.manager # Nobody
    /\ Entered(row.rows, row.ref, w)

(* A form shows the courses of a record that is still there; when it shows  *)
(* all that the record has by now, it shows nothing else.                   *)
FormCurrent(q, rs, w) ==
    q # None /\ q.step \in {"form", "edit"} =>
        /\ q.record \in DOMAIN rs
        /\ q.rows \subseteq DOMAIN w
        /\ rs[q.record] # None /\ rs[q.record].courses \subseteq q.rows => rs[q.record].courses = q.rows

(* What a request has read and checked before its transaction.              *)
SoundRequest(q, w) ==
    /\ q \in Request \cup {None}
    /\ q # None /\ q.step # "form" => q.role \in Acting
    /\ q # None /\ q.step = "store" => q.ref \in References /\ Entered(q.rows, q.ref, w)

SoundStore(rs, cs, w) ==
    /\ rs \in Seq(Record \cup {None}) /\ Len(rs) <= MaxRecords
    /\ w \in Seq(References) /\ Len(w) <= MaxWrites
    /\ \A i \in DOMAIN rs : rs[i] # None => SoundRecord(rs[i], w)
    /\ IsFiniteSet(cs) /\ Cardinality(cs) <= MaxConsultations
    /\ \A row \in cs : SoundConsultation(row, w)

SoundRequests(q, rs, w) ==
    /\ q = [p \in Requests |-> q[p]]
    /\ \A p \in Requests : SoundRequest(q[p], w) /\ FormCurrent(q[p], rs, w)

IInv == SoundStore(records, consultations, written) /\ SoundRequests(req, records, written)

-----------------------------------------------------------------------------
(* What requests may do to each other: tables are only ever entered, a      *)
(* deleted record does not come back, and one whose courses change has a    *)
(* table then that was entered just now.                                    *)
Grown(v, w) == \A n \in DOMAIN v : n \in DOMAIN w /\ w[n] = v[n]

Later(qs, rs, v) ==
    \A i \in DOMAIN qs :
        /\ i \in DOMAIN rs
        /\ rs[i] # None =>
             /\ qs[i] # None
             /\ rs[i].courses = qs[i].courses \/ \E n \in rs[i].courses : n \notin DOMAIN v

LEMMA EnteredLasts ==
    ASSUME NEW tables, NEW ref, NEW v, NEW w, Entered(tables, ref, v), Grown(v, w)
    PROVE  Entered(tables, ref, w)
  BY DEF Entered, Grown

LEMMA SoundLasts ==
    ASSUME NEW v, NEW w, Grown(v, w)
    PROVE  /\ \A row : SoundRecord(row, v) => SoundRecord(row, w)
           /\ \A row : SoundConsultation(row, v) => SoundConsultation(row, w)
           /\ \A q : SoundRequest(q, v) => SoundRequest(q, w)
  BY EnteredLasts DEF SoundRecord, SoundConsultation, SoundRequest

LEMMA FormLasts ==
    ASSUME NEW q, NEW qs, NEW rs, NEW v, NEW w, FormCurrent(q, qs, v), Grown(v, w), Later(qs, rs, v)
    PROVE  FormCurrent(q, rs, w)
<1> SUFFICES ASSUME q # None, q.step \in {"form", "edit"}
             PROVE  /\ q.record \in DOMAIN rs
                    /\ q.rows \subseteq DOMAIN w
                    /\ rs[q.record] # None /\ rs[q.record].courses \subseteq q.rows
                          => rs[q.record].courses = q.rows
  BY DEF FormCurrent
<1> DEFINE i == q.record
<1>1. i \in DOMAIN qs /\ q.rows \subseteq DOMAIN v
  BY DEF FormCurrent
<1>2. q.rows \subseteq DOMAIN w
  BY <1>1 DEF Grown
<1>3. ASSUME rs[i] # None, rs[i].courses \subseteq q.rows
      PROVE  rs[i].courses = q.rows
  <2>1. qs[i] # None /\ rs[i].courses = qs[i].courses
    BY <1>1, <1>3 DEF Later
  <2> QED
    BY <1>3, <2>1 DEF FormCurrent
<1> QED
  BY <1>1, <1>2, <1>3 DEF Later

LEMMA RequestsLast ==
    ASSUME NEW q, NEW qs, NEW rs, NEW v, NEW w, SoundRequests(q, qs, v), Grown(v, w), Later(qs, rs, v)
    PROVE  SoundRequests(q, rs, w)
  BY SoundLasts, FormLasts DEF SoundRequests

-----------------------------------------------------------------------------
(* Entering a table for a student.                                          *)
LEMMA TableEntered ==
    ASSUME NEW v \in Seq(References), NEW ref \in References, Len(v) + 1 <= MaxWrites,
           NEW n, n = Len(v) + 1
    PROVE  /\ Append(v, ref) \in Seq(References)
           /\ Len(Append(v, ref)) <= MaxWrites
           /\ Grown(v, Append(v, ref))
           /\ Entered({n}, ref, Append(v, ref))
           /\ n \in CourseTables
           /\ n \notin DOMAIN v
  BY DEF Grown, Entered, CourseTables

LEMMA ReferenceTypes ==
    /\ \A u \in Users : Account(u) \in References
    /\ \A x \in Rows : Entry(x) \in References
    /\ \A u \in Users, n \in CourseTables : Private(u, n) \in References
  BY DEF References

(* What a person keeps of a calculation is theirs, by their role.           *)
LEMMA KeepSound ==
    ASSUME IsFiniteSet(consultations), Cardinality(consultations) <= MaxConsultations,
           NEW w, \A row \in consultations : SoundConsultation(row, w),
           NEW u \in Users, NEW r \in Acting, NEW ref \in References, NEW rows \in SUBSET CourseTables,
           Entered(rows, ref, w), r = "STUDENT" => ref = Account(u), Keep(u, r, ref, rows)
    PROVE  /\ IsFiniteSet(consultations') /\ Cardinality(consultations') <= MaxConsultations
           /\ \A row \in consultations' : SoundConsultation(row, w)
<1>1. PICK note \in BOOLEAN :
        /\ note => TeacherRole(r)
        /\ consultations' = consultations \cup
             {[ref |-> ref, owner |-> IF r = "STUDENT" THEN u ELSE Nobody,
               manager |-> IF TeacherRole(r) THEN u ELSE Nobody, rows |-> rows, note |-> note]}
  BY DEF Keep
<1> DEFINE new == [ref |-> ref, owner |-> IF r = "STUDENT" THEN u ELSE Nobody,
                   manager |-> IF TeacherRole(r) THEN u ELSE Nobody, rows |-> rows, note |-> note]
<1>2. SoundConsultation(new, w)
  <2>1. new \in Consultation
    BY DEF Consultation, Nobody
  <2>2. IF new.manager = Nobody THEN new.owner # Nobody /\ new.ref = Account(new.owner)
                                ELSE new.owner = Nobody
    BY DEF Nobody, Acting, TeacherRole
  <2>3. new.note => new.manager # Nobody
    BY <1>1 DEF Nobody
  <2> QED
    BY <2>1, <2>2, <2>3 DEF SoundConsultation
<1>3. consultations' = consultations \cup {new}
  BY <1>1
<1> HIDE DEF new
<1>4. Cardinality(consultations) \in Nat /\ Cardinality(consultations) < MaxConsultations
  BY FS_CardinalityType DEF Keep
<1>5. /\ IsFiniteSet(consultations')
      /\ Cardinality(consultations') = IF new \in consultations THEN Cardinality(consultations)
                                       ELSE Cardinality(consultations) + 1
  BY <1>3, FS_AddElement
<1> QED
  BY <1>2, <1>3, <1>4, <1>5


-----------------------------------------------------------------------------
(* Sequences.                                                               *)
LEMMA ConcatFacts ==
    ASSUME NEW S, NEW s \in Seq(S), NEW t \in Seq(S)
    PROVE  /\ s \o t \in Seq(S)
           /\ Len(s \o t) = Len(s) + Len(t)
           /\ \A i \in DOMAIN s : i \in DOMAIN (s \o t) /\ (s \o t)[i] = s[i]
           /\ \A i \in DOMAIN (s \o t) : i \in DOMAIN s \/ \E j \in DOMAIN t : (s \o t)[i] = t[j]
<1>1. s \o t \in Seq(S) /\ Len(s \o t) = Len(s) + Len(t)
  OBVIOUS
<1>2. \A i \in DOMAIN s : i \in DOMAIN (s \o t) /\ (s \o t)[i] = s[i]
  OBVIOUS
<1>3. ASSUME NEW i \in DOMAIN (s \o t), i \notin DOMAIN s
      PROVE  \E j \in DOMAIN t : (s \o t)[i] = t[j]
  <2>1. i - Len(s) \in DOMAIN t /\ (s \o t)[i] = t[i - Len(s)]
    BY <1>3
  <2> QED
    BY <2>1
<1> QED
  BY <1>1, <1>2, <1>3

LEMMA SetToSeqFacts ==
    ASSUME NEW S, IsFiniteSet(S)
    PROVE  /\ SetToSeq(S) \in Seq(S)
           /\ Len(SetToSeq(S)) = Cardinality(S)
           /\ \A j \in DOMAIN SetToSeq(S) : SetToSeq(S)[j] \in S
<1>1. Cardinality(S) \in Nat /\ \E f : f \in Bijection(1..Cardinality(S), S)
  BY FS_CardinalityType DEF ExistsBijection
<1>2. \E f \in [1..Cardinality(S) -> S] : IsInjective(f)
  BY <1>1 DEF Bijection, Injection
<1>3. SetToSeq(S) \in [1..Cardinality(S) -> S]
  BY <1>2 DEF SetToSeq
<1> HIDE DEF SetToSeq
<1> QED
  BY <1>1, <1>3

(* A store of records in which each is sound, when records are added.       *)
LEMMA SoundRecordType ==
    ASSUME NEW row, NEW w, SoundRecord(row, w)
    PROVE  row \in Record
  BY DEF SoundRecord

-----------------------------------------------------------------------------
(* The new table of courses n of a student, in a record of its own.         *)
LEMMA NewRecordSound ==
    ASSUME NEW u \in Users, NEW r \in Acting, NEW ref \in References, NEW w,
           NEW t \in Terms, NEW source \in Sources, NEW n \in CourseTables,
           source = "VOCATIONAL_TRAINING_RECORD" => t = "grade3first",
           Entered({n}, ref, w),
           \/ r = "STUDENT" /\ ref = Account(u)
           \/ TeacherRole(r) /\ ref = Private(u, n)
           \/ TeacherRole(r) /\ \E x \in Rows : ref = Entry(x) /\ TeacherOf[x] = u
    PROVE  SoundRecord(NewRecord(ref, u, r, Input(t, source, n)), w)
<1> DEFINE row == NewRecord(ref, u, r, Input(t, source, n))
<1>1. /\ row.ref = ref /\ row.courses = {n} /\ row.term = t /\ row.source = source
      /\ row.training = (source = "VOCATIONAL_TRAINING_RECORD")
      /\ row.owner = (IF r = "STUDENT" THEN u ELSE Nobody)
      /\ row.manager = (IF TeacherRole(r) THEN u ELSE Nobody)
  BY DEF NewRecord, Input
<1>2. row \in Record
  BY DEF NewRecord, Input, Record, Nobody
<1>3. Owned(row)
  <2>1. r = "STUDENT" => ~TeacherRole(r)
    BY DEF TeacherRole
  <2>2. TeacherRole(r) => r # "STUDENT"
    BY DEF TeacherRole
  <2> HIDE DEF row
  <2> QED
    BY <1>1, <2>1, <2>2 DEF Owned
<1> HIDE DEF row
<1>4. Trained(row)
  BY <1>1 DEF Trained
<1>5. Entered(row.courses, row.ref, w)
  BY <1>1
<1>6. \E m \in CourseTables : row.courses = {m}
  BY <1>1
<1> QED
  BY <1>2, <1>3, <1>4, <1>5, <1>6 DEF SoundRecord, row

LEMMA SourceTypes ==
    ASSUME NEW profile \in Profiles, NEW t \in Terms
    PROVE  /\ SourceOf(profile, t) \in Sources
           /\ SourceOf(profile, t) = "VOCATIONAL_TRAINING_RECORD" => t = "grade3first"
  BY DEF SourceOf, Sources

(* A record whose courses are replaced is that of the new ones.             *)
LEMMA ReplacedSound ==
    ASSUME NEW row, NEW new, NEW v, NEW w, SoundRecord(row, v), SoundRecord(new, w), SameKey(row, new),
           \E n \in CourseTables : new.courses = {n}
    PROVE  SoundRecord(Replaced(row, new), w)
<1> DEFINE done == Replaced(row, new)
<1>1. /\ done.ref = row.ref /\ done.owner = row.owner /\ done.manager = row.manager
      /\ done.term = row.term /\ done.source = row.source
      /\ done.courses = new.courses /\ done.training = new.training
      /\ done \in Record
  BY DEF SoundRecord, Record, Replaced
<1> HIDE DEF done
<1>2. Owned(done)
  BY <1>1 DEF SoundRecord, Owned
<1>3. Trained(done)
  BY <1>1 DEF SoundRecord, Trained, SameKey
<1>4. Entered(done.courses, done.ref, w)
  BY <1>1 DEF SoundRecord, SameKey
<1> QED
  BY <1>1, <1>2, <1>3, <1>4 DEF SoundRecord, done

LEMMA InputsFinite ==
    ASSUME NEW ref, NEW u, NEW r, NEW profile, NEW n, NEW terms \in SUBSET Terms
    PROVE  IsFiniteSet({NewRecord(ref, u, r, input) : input \in Inputs(profile, terms, n)})
<1>1. IsFiniteSet(Terms)
  <2>1. Terms = {"ordinary"} \cup {"grade3first"}
    BY DEF Terms
  <2> QED
    BY <2>1, FS_Singleton, FS_AddElement
<1>2. IsFiniteSet(terms)
  BY <1>1, FS_Subset
<1> DEFINE rows == {NewRecord(ref, u, r, input) : input \in Inputs(profile, terms, n)}
           f == [t \in terms |-> NewRecord(ref, u, r, Input(t, SourceOf(profile, t), n))]
<1>3. f \in Surjection(terms, rows)
  BY DEF Surjection, Inputs
<1> HIDE DEF f, rows
<1>4. IsFiniteSet(rows)
  BY <1>2, <1>3, FS_Surjection
<1> QED
  BY <1>4 DEF rows

-----------------------------------------------------------------------------
(* A handler leaves a sound store, and only enters tables.                  *)
Handled ==
    /\ SoundStore(records', consultations', written')
    /\ Grown(written, written')
    /\ Later(records, records', written)

LEMMA SaveHandled ==
    ASSUME SoundStore(records, consultations, written), NEW u \in Users, NEW r \in Acting,
           SaveCalculation(u, r)
    PROVE  Handled
<1> DEFINE n == Len(written) + 1
           ref == IF r = "STUDENT" THEN Account(u) ELSE Private(u, n)
           w == Append(written, ref)
<1>1. n <= MaxWrites /\ Keep(u, r, ref, {n}) /\ written' = w
  BY DEF SaveCalculation
<1>2. written \in Seq(References) /\ n \in CourseTables
  BY <1>1 DEF SoundStore, CourseTables
<1>3. ref \in References
  BY <1>2, ReferenceTypes
<1>4. PICK profile \in Profiles, terms \in SUBSET Terms \ {{}} :
        LET rows == {NewRecord(ref, u, r, input) : input \in Inputs(profile, terms, n)}
            Stored(row) == {i \in Live : SameKey(records[i], row)}
            new == {row \in rows : Stored(row) = {}}
        IN /\ Len(records) + Cardinality(new) <= MaxRecords
           /\ \A row \in rows : \A i \in Stored(row) :
                r = "STUDENT" /\ records[i].owner = u /\ records[i].manager = Nobody
           /\ records' = [i \in DOMAIN records |->
                             IF \E row \in rows : i \in Stored(row)
                             THEN Replaced(records[i], CHOOSE row \in rows : i \in Stored(row))
                             ELSE records[i]]
                          \o SetToSeq(new)
  BY DEF SaveCalculation
<1> DEFINE rows == {NewRecord(ref, u, r, input) : input \in Inputs(profile, terms, n)}
           Stored(row) == {i \in Live : SameKey(records[i], row)}
           new == {row \in rows : Stored(row) = {}}
           chosen(i) == CHOOSE row \in rows : i \in Stored(row)
           old == [i \in DOMAIN records |->
                     IF \E row \in rows : i \in Stored(row) THEN Replaced(records[i], chosen(i)) ELSE records[i]]
<1>5. Len(records) + Cardinality(new) <= MaxRecords /\ records' = old \o SetToSeq(new)
  BY <1>4
<1>6. /\ w \in Seq(References) /\ Len(w) <= MaxWrites
      /\ Grown(written, w) /\ Entered({n}, ref, w) /\ n \notin DOMAIN written
  BY <1>1, <1>2, <1>3, TableEntered
<1>7. ASSUME NEW row \in rows PROVE SoundRecord(row, w) /\ row.courses = {n}
  <2>1. PICK t \in Terms : row = NewRecord(ref, u, r, Input(t, SourceOf(profile, t), n))
    BY DEF Inputs
  <2>2. \/ r = "STUDENT" /\ ref = Account(u)
        \/ TeacherRole(r) /\ ref = Private(u, n)
    BY DEF Acting, TeacherRole
  <2>3. SoundRecord(row, w)
    <3> HIDE DEF n, ref, w
    <3> QED
      BY <1>2, <1>3, <1>6, <2>1, <2>2, SourceTypes, NewRecordSound
  <2>4. row.courses = {n}
    BY <2>1 DEF NewRecord, Input
  <2> QED
    BY <2>3, <2>4
<1>8. IsFiniteSet(new)
  <2>1. IsFiniteSet(rows)
    BY InputsFinite
  <2> HIDE DEF rows
  <2> QED
    BY <2>1, FS_Subset
<1>9. consultations' = consultations' /\ IsFiniteSet(consultations')
      /\ Cardinality(consultations') <= MaxConsultations
      /\ \A row \in consultations' : SoundConsultation(row, w)
  <2>1. \A row \in consultations : SoundConsultation(row, w)
    BY <1>6, SoundLasts DEF SoundStore
  <2>2. r = "STUDENT" => ref = Account(u)
    OBVIOUS
  <2> HIDE DEF n, ref, w
  <2> QED
    BY <1>1, <1>2, <1>3, <1>6, <2>1, <2>2, KeepSound DEF SoundStore
<1>10. ASSUME NEW i \in DOMAIN records
       PROVE  /\ old[i] = records[i] \/ (records[i] # None /\ old[i].courses = {n})
              /\ old[i] # None => SoundRecord(old[i], w)
  <2>1. CASE \E row \in rows : i \in Stored(row)
    <3>1. chosen(i) \in rows /\ i \in Stored(chosen(i))
      BY <2>1
    <3>2. records[i] # None /\ SameKey(records[i], chosen(i))
      BY <3>1 DEF Live
    <3>3. SoundRecord(chosen(i), w) /\ chosen(i).courses = {n}
      BY <1>7, <3>1
    <3>4. SoundRecord(records[i], written)
      BY <3>2 DEF SoundStore
    <3>5. old[i] = Replaced(records[i], chosen(i))
      BY <2>1
    <3> HIDE DEF chosen, old, rows, n, ref, w
    <3>6. SoundRecord(old[i], w)
      BY <1>2, <3>2, <3>3, <3>4, <3>5, ReplacedSound
    <3>7. old[i].courses = {n}
      BY <3>3, <3>4, <3>5 DEF Replaced, SoundRecord, Record
    <3> QED
      BY <3>2, <3>6, <3>7
  <2>2. CASE ~ \E row \in rows : i \in Stored(row)
    <3>1. old[i] = records[i]
      BY <2>2
    <3> HIDE DEF old, rows, n, ref, w
    <3> QED
      BY <1>6, <3>1, SoundLasts DEF SoundStore
  <2> QED
    BY <2>1, <2>2
<1> HIDE DEF rows
<1>11. old \in Seq(Record \cup {None}) /\ Len(old) = Len(records) /\ DOMAIN old = DOMAIN records
  <2>1. \A i \in DOMAIN records : old[i] \in Record \cup {None}
    BY <1>10, SoundRecordType
  <2>2. DOMAIN records = 1..Len(records) /\ Len(records) \in Nat
    BY DEF SoundStore
  <2>3. DOMAIN old = 1..Len(records)
    BY <2>2
  <2> HIDE DEF old
  <2>4. old = [i \in 1..Len(records) |-> old[i]]
    BY <2>3 DEF old
  <2> QED
    BY <2>1, <2>2, <2>3, <2>4
<1>12. /\ SetToSeq(new) \in Seq(Record \cup {None}) /\ Len(SetToSeq(new)) = Cardinality(new)
       /\ \A j \in DOMAIN SetToSeq(new) : SoundRecord(SetToSeq(new)[j], w)
  <2>1. \A row \in new : row \in Record /\ SoundRecord(row, w)
    BY <1>7, SoundRecordType
  <2> HIDE DEF new
  <2> QED
    BY <1>8, <2>1, SetToSeqFacts
<1> DEFINE added == SetToSeq(new)
<1> HIDE DEF old, new, n, ref, w, added
<1>13. /\ records' \in Seq(Record \cup {None})
       /\ Len(records') = Len(records) + Cardinality(new)
       /\ \A i \in DOMAIN records : i \in DOMAIN records' /\ records'[i] = old[i]
       /\ \A i \in DOMAIN records' :
            i \in DOMAIN records \/ \E j \in DOMAIN added : records'[i] = added[j]
  <2>1. records' = old \o added
    BY <1>5 DEF added
  <2>2. added \in Seq(Record \cup {None}) /\ Len(added) = Cardinality(new)
    BY <1>12 DEF added
  <2> DEFINE cells == Record \cup {None}
  <2>3. old \in Seq(cells) /\ added \in Seq(cells)
    BY <1>11, <2>2
  <2> HIDE DEF cells
  <2>4. /\ old \o added \in Seq(cells)
        /\ Len(old \o added) = Len(old) + Len(added)
        /\ \A i \in DOMAIN old : i \in DOMAIN (old \o added) /\ (old \o added)[i] = old[i]
        /\ \A i \in DOMAIN (old \o added) :
             i \in DOMAIN old \/ \E j \in DOMAIN added : (old \o added)[i] = added[j]
    BY <2>3, ConcatFacts
  <2> QED
    BY <1>11, <2>1, <2>2, <2>4 DEF cells
<1>14. \A i \in DOMAIN records' : records'[i] # None => SoundRecord(records'[i], w)
  BY <1>10, <1>12, <1>13 DEF added
<1>15. Later(records, records', written)
  BY <1>6, <1>10, <1>13 DEF Later
<1> QED
  BY <1>1, <1>5, <1>6, <1>9, <1>13, <1>14, <1>15 DEF Handled, SoundStore

LEMMA ConsultationsLast ==
    ASSUME SoundStore(records, consultations, written), NEW w, Grown(written, w)
    PROVE  /\ IsFiniteSet(consultations) /\ Cardinality(consultations) <= MaxConsultations
           /\ \A row \in consultations : SoundConsultation(row, w)
  BY SoundLasts DEF SoundStore

LEMMA AddHandled ==
    ASSUME SoundStore(records, consultations, written), NEW u \in Users, NEW r \in Acting,
           AddCourse(u, r)
    PROVE  Handled
<1> DEFINE n == Len(written) + 1
<1>1. TeacherRole(r) /\ n <= MaxWrites /\ UNCHANGED consultations
  BY DEF AddCourse
<1>2. PICK x \in OwnEntries(u), t \in Terms :
        LET new == NewRecord(Entry(x), u, r, Input(t, ClassroomSource(t), n))
            found == {i \in Live : SameKey(records[i], new)}
        IN /\ \A i \in found : records[i].manager = u /\ records[i].owner = Nobody
           /\ IF found = {}
              THEN Len(records) < MaxRecords /\ records' = Append(records, new)
              ELSE records' = [i \in DOMAIN records |->
                       IF i \in found THEN WithCourse(records[i], n, new.training) ELSE records[i]]
           /\ written' = Append(written, Entry(x))
  BY DEF AddCourse
<1> DEFINE new == NewRecord(Entry(x), u, r, Input(t, ClassroomSource(t), n))
           found == {i \in Live : SameKey(records[i], new)}
           w == Append(written, Entry(x))
<1>3. x \in Rows /\ TeacherOf[x] = u /\ Entry(x) \in References
  BY ReferenceTypes DEF OwnEntries
<1>4. written \in Seq(References) /\ n \in CourseTables
  BY <1>1 DEF SoundStore, CourseTables
<1>5. /\ w \in Seq(References) /\ Len(w) <= MaxWrites /\ written' = w
      /\ Grown(written, w) /\ Entered({n}, Entry(x), w) /\ n \notin DOMAIN written
  BY <1>1, <1>2, <1>3, <1>4, TableEntered
<1>6. /\ SoundRecord(new, w)
      /\ new.ref = Entry(x) /\ new.source = ClassroomSource(t) /\ new.term = t
      /\ new.training = (ClassroomSource(t) = "VOCATIONAL_TRAINING_RECORD")
  <2>1. /\ ClassroomSource(t) \in Sources
        /\ ClassroomSource(t) = "VOCATIONAL_TRAINING_RECORD" => t = "grade3first"
    BY SourceTypes DEF ClassroomSource, Profiles
  <2>2. SoundRecord(new, w)
    <3> HIDE DEF n, w
    <3> QED
      BY <1>1, <1>3, <1>4, <1>5, <2>1, NewRecordSound
  <2> QED
    BY <2>2 DEF NewRecord, Input
<1> HIDE DEF new
<1>7. /\ IsFiniteSet(consultations') /\ Cardinality(consultations') <= MaxConsultations
      /\ \A row \in consultations' : SoundConsultation(row, w)
  <2> HIDE DEF w
  <2> QED
    BY <1>1, <1>5, ConsultationsLast
<1>8. records \in Seq(Record \cup {None}) /\ DOMAIN records = 1..Len(records) /\ Len(records) \in Nat
      /\ Len(records) <= MaxRecords
  BY DEF SoundStore
<1>9. CASE found = {}
  <2>1. Len(records) < MaxRecords /\ records' = Append(records, new)
    BY <1>2, <1>9 DEF new
  <2>2. /\ records' \in Seq(Record \cup {None}) /\ Len(records') <= MaxRecords
        /\ \A i \in DOMAIN records : i \in DOMAIN records' /\ records'[i] = records[i]
        /\ \A i \in DOMAIN records' : i \in DOMAIN records \/ records'[i] = new
    BY <1>6, <1>8, <2>1, SoundRecordType
  <2> HIDE DEF w
  <2>3. \A i \in DOMAIN records' : records'[i] # None => SoundRecord(records'[i], w)
    BY <1>5, <1>6, <2>2, SoundLasts DEF SoundStore
  <2>4. Later(records, records', written)
    BY <2>2 DEF Later
  <2> QED
    BY <1>5, <1>7, <2>2, <2>3, <2>4 DEF Handled, SoundStore
<1>10. CASE found # {}
  <2>1. records' = [i \in DOMAIN records |->
                      IF i \in found THEN WithCourse(records[i], n, new.training) ELSE records[i]]
    BY <1>2, <1>10 DEF new
  <2>2. ASSUME NEW i \in found
        PROVE  /\ records[i] # None /\ i \in DOMAIN records
               /\ SoundRecord(WithCourse(records[i], n, new.training), w)
               /\ n \in WithCourse(records[i], n, new.training).courses
    <3> DEFINE row == records[i]
               done == WithCourse(row, n, new.training)
    <3>1. i \in DOMAIN records /\ row # None /\ SameKey(row, new) /\ SoundRecord(row, written)
      BY DEF Live, SoundStore
    <3>2. /\ done.ref = row.ref /\ done.owner = row.owner /\ done.manager = row.manager
          /\ done.term = row.term /\ done.source = row.source
          /\ done.courses = row.courses \cup {n} /\ done.training = new.training
          /\ done \in Record
      <4> HIDE DEF n
      <4> QED
        BY <1>4, <1>6, <3>1 DEF SoundRecord, Record, WithCourse
    <3> HIDE DEF row, done, w
    <3>3. Owned(done)
      BY <3>1, <3>2 DEF SoundRecord, Owned
    <3>4. Trained(done)
      BY <1>6, <3>1, <3>2 DEF SoundRecord, Trained, SameKey
    <3>5. Entered(done.courses, done.ref, w)
      <4> HIDE DEF n
      <4>1. Entered(row.courses, row.ref, w)
        BY <1>5, <3>1, EnteredLasts DEF SoundRecord
      <4>2. Entered({n}, row.ref, w)
        BY <1>5, <1>6, <3>1 DEF SameKey
      <4> QED
        BY <3>2, <4>1, <4>2 DEF Entered
    <3>6. done.ref \in {Entry(y) : y \in Rows}
      BY <1>3, <1>6, <3>1, <3>2 DEF SameKey
    <3>7. SoundRecord(done, w) /\ n \in done.courses
      BY <3>2, <3>3, <3>4, <3>5, <3>6 DEF SoundRecord
    <3> QED
      BY <3>1, <3>7 DEF row, done
  <2> HIDE DEF found, w
  <2>3. \A i \in DOMAIN records : i \in DOMAIN records' /\
          \/ i \notin found /\ records'[i] = records[i]
          \/ i \in found /\ records'[i] = WithCourse(records[i], n, new.training)
    BY <2>1
  <2> HIDE DEF n
  <2>4. \A i \in DOMAIN records : records'[i] # None => SoundRecord(records'[i], w)
    BY <1>5, <2>2, <2>3, SoundLasts DEF SoundStore
  <2>5. records' \in Seq(Record \cup {None}) /\ Len(records') = Len(records) /\ DOMAIN records' = DOMAIN records
    <3>1. \A i \in 1..Len(records) : records'[i] \in Record \cup {None}
      BY <1>8, <2>4, SoundRecordType
    <3>2. records' = [i \in 1..Len(records) |-> records'[i]]
      BY <1>8, <2>1
    <3> QED
      BY <1>8, <3>1, <3>2
  <2>6. Later(records, records', written)
    BY <1>5, <2>2, <2>3 DEF Later
  <2> QED
    BY <1>5, <1>7, <1>8, <2>4, <2>5, <2>6 DEF Handled, SoundStore
<1> QED
  BY <1>9, <1>10

LEMMA DeleteHandled ==
    ASSUME SoundStore(records, consultations, written), NEW u \in Users, NEW r \in Acting,
           DeleteRecord(u, r) \/ DeleteConsultation(u, r)
    PROVE  Handled
<1>1. Grown(written, written)
  BY DEF Grown
<1>2. CASE DeleteRecord(u, r)
  <2>1. PICK i \in Live : records' = [records EXCEPT ![i] = None]
    BY <1>2 DEF DeleteRecord
  <2>2. UNCHANGED <<consultations, written>>
    BY <1>2 DEF DeleteRecord
  <2>3. records \in Seq(Record \cup {None})
    BY DEF SoundStore
  <2>4. records' \in Seq(Record \cup {None}) /\ Len(records') = Len(records) /\ DOMAIN records' = DOMAIN records
    <3> DEFINE cells == Record \cup {None}
    <3>1. records \in Seq(cells) /\ None \in cells /\ i \in DOMAIN records
      BY <2>3 DEF Live
    <3> HIDE DEF cells
    <3>2. records' \in Seq(cells) /\ Len(records') = Len(records) /\ DOMAIN records' = DOMAIN records
      BY <2>1, <3>1
    <3> QED
      BY <3>2 DEF cells
  <2>5. \A k \in DOMAIN records : records'[k] = None \/ records'[k] = records[k]
    BY <2>1, <2>3
  <2>6. \A k \in DOMAIN records' : records'[k] # None => SoundRecord(records'[k], written)
    BY <2>4, <2>5 DEF SoundStore
  <2>7. Later(records, records', written)
    BY <2>4, <2>5 DEF Later
  <2> QED
    BY <1>1, <2>2, <2>4, <2>6, <2>7 DEF Handled, SoundStore
<1>3. CASE DeleteConsultation(u, r)
  <2>1. PICK row \in consultations : consultations' = consultations \ {row}
    BY <1>3 DEF DeleteConsultation
  <2>2. UNCHANGED <<records, written>>
    BY <1>3 DEF DeleteConsultation
  <2>3. IsFiniteSet(consultations) /\ Cardinality(consultations) \in Nat /\ Cardinality(consultations) <= MaxConsultations
    BY FS_CardinalityType DEF SoundStore
  <2>4. IsFiniteSet(consultations') /\ Cardinality(consultations') = Cardinality(consultations) - 1
    BY <2>1, <2>3, FS_RemoveElement
  <2>5. Later(records, records', written)
    BY <2>2 DEF Later
  <2> QED
    BY <1>1, <2>1, <2>2, <2>3, <2>4, <2>5 DEF Handled, SoundStore
<1> QED
  BY <1>2, <1>3

LEMMA NoteHandled ==
    ASSUME SoundStore(records, consultations, written), NEW u \in Users, NEW r \in Acting, EditNote(u, r)
    PROVE  Handled
<1>1. PICK row \in consultations, note \in BOOLEAN :
        row.manager = u /\ consultations' = (consultations \ {row}) \cup {[row EXCEPT !.note = note]}
  BY DEF EditNote
<1>2. UNCHANGED <<records, written>>
  BY DEF EditNote
<1>3. IsFiniteSet(consultations) /\ Cardinality(consultations) \in Nat /\ Cardinality(consultations) <= MaxConsultations
  BY FS_CardinalityType DEF SoundStore
<1> DEFINE kept == [row EXCEPT !.note = note]
           rest == consultations \ {row}
<1>4. SoundConsultation(kept, written)
  <2>1. SoundConsultation(row, written) /\ row.manager # Nobody
    BY <1>1 DEF SoundStore, Nobody
  <2>2. /\ kept \in Consultation /\ kept.ref = row.ref /\ kept.owner = row.owner
        /\ kept.manager = row.manager /\ kept.rows = row.rows
    BY <2>1 DEF SoundConsultation, Consultation
  <2> QED
    BY <2>1, <2>2 DEF SoundConsultation
<1> HIDE DEF kept
<1>5. IsFiniteSet(rest) /\ Cardinality(rest) = Cardinality(consultations) - 1
  BY <1>3, FS_RemoveElement
<1> HIDE DEF rest
<1>6. consultations' = rest \cup {kept}
  BY <1>1 DEF rest, kept
<1>7. IsFiniteSet(consultations') /\ Cardinality(consultations') <= MaxConsultations
  <2>1. /\ IsFiniteSet(consultations')
        /\ Cardinality(consultations') = IF kept \in rest THEN Cardinality(rest) ELSE Cardinality(rest) + 1
    BY <1>5, <1>6, FS_AddElement
  <2> QED
    BY <1>3, <1>5, <2>1
<1>8. \A c \in consultations' : SoundConsultation(c, written)
  BY <1>4, <1>6 DEF SoundStore, rest
<1>9. Grown(written, written) /\ Later(records, records, written)
  BY DEF Grown, Later
<1> QED
  BY <1>2, <1>7, <1>8, <1>9 DEF Handled, SoundStore

LEMMA HandleHandled ==
    ASSUME SoundStore(records, consultations, written), NEW u \in Users, NEW r \in Acting, Handle(u, r)
    PROVE  Handled
  BY SaveHandled, AddHandled, DeleteHandled, NoteHandled DEF Handle

-----------------------------------------------------------------------------
(* The steps of one request.                                                *)
LEMMA RequestSet ==
    ASSUME NEW rs, NEW w, SoundRequests(req, rs, w), NEW p \in Requests, NEW q,
           SoundRequest(q, w), FormCurrent(q, rs, w), req' = [req EXCEPT ![p] = q]
    PROVE  SoundRequests(req', rs, w)
  BY DEF SoundRequests

LEMMA RequestEnds ==
    ASSUME NEW rs, NEW w, SoundRequests(req, rs, w), NEW p \in Requests, End(p)
    PROVE  SoundRequests(req', rs, w)
<1>1. SoundRequest(None, w) /\ FormCurrent(None, rs, w)
  BY DEF SoundRequest, FormCurrent
<1> QED
  BY <1>1, RequestSet DEF End

LEMMA SignedInActs ==
    ASSUME NEW u, SignedIn(u)
    PROVE  role[u] \in Acting
  BY DEF SignedIn, Acting

(* What a record holds are tables that were entered.                        *)
LEMMA CoursesOf ==
    ASSUME SoundStore(records, consultations, written), NEW i \in Live
    PROVE  /\ i \in DOMAIN records /\ i \in 0..MaxRecords /\ records[i] # None
           /\ records[i].courses \in SUBSET CourseTables
           /\ records[i].courses \subseteq DOMAIN written
           /\ records[i].ref \in References
           /\ Entered(records[i].courses, records[i].ref, written)
<1>1. i \in DOMAIN records /\ records[i] # None /\ SoundRecord(records[i], written)
  BY DEF Live, SoundStore
<1>2. i \in 0..MaxRecords
  BY <1>1 DEF SoundStore
<1> QED
  BY <1>1, <1>2 DEF SoundRecord, Record, Entered

LEMMA BeginSound ==
    ASSUME IInv, NEW p \in Requests, NEW u \in Users, Begin(p, u)
    PROVE  SoundRequests(req', records, written)
<1> DEFINE q == NewRequest(u, role[u], "work")
<1>1. role[u] \in Acting
  BY SignedInActs DEF Begin
<1>2. q \in Request /\ q.step = "work" /\ q.role = role[u]
  BY <1>1 DEF NewRequest, Request, AnyRole, Acting
<1> HIDE DEF q
<1>3. SoundRequest(q, written) /\ FormCurrent(q, records, written)
  BY <1>1, <1>2 DEF SoundRequest, FormCurrent
<1> QED
  BY <1>3, RequestSet DEF Begin, IInv, q

LEMMA ShowFormSound ==
    ASSUME IInv, NEW p \in Requests, NEW u \in Users, ShowForm(p, u)
    PROVE  SoundRequests(req', records, written)
<1>1. PICK i \in VisibleRecords(u) :
        req' = [req EXCEPT ![p] = [NewRequest(u, None, "form") EXCEPT !.record = i, !.rows = records[i].courses]]
  BY DEF ShowForm
<1> DEFINE q == [NewRequest(u, None, "form") EXCEPT !.record = i, !.rows = records[i].courses]
<1>2. i \in Live
  BY DEF VisibleRecords
<1>3. /\ i \in DOMAIN records /\ i \in 0..MaxRecords
      /\ records[i].courses \in SUBSET CourseTables /\ records[i].courses \subseteq DOMAIN written
  BY <1>2, CoursesOf DEF IInv
<1>4. q \in Request /\ q.step = "form" /\ q.record = i /\ q.rows = records[i].courses
  BY <1>3 DEF NewRequest, Request
<1> HIDE DEF q
<1>5. SoundRequest(q, written)
  BY <1>4 DEF SoundRequest
<1>6. FormCurrent(q, records, written)
  BY <1>3, <1>4 DEF FormCurrent
<1> QED
  BY <1>1, <1>5, <1>6, RequestSet DEF IInv, q

LEMMA SubmitSound ==
    ASSUME IInv, NEW p \in Requests, Submit(p)
    PROVE  SoundRequests(req', records, written)
<1> DEFINE q == [req[p] EXCEPT !.step = "edit", !.role = role[req[p].user]]
<1>1. req[p] # None /\ req[p].step = "form" /\ req[p] \in Request /\ FormCurrent(req[p], records, written)
  BY DEF Submit, Working, IInv, SoundRequests, SoundRequest
<1>2. role[req[p].user] \in Acting
  BY SignedInActs DEF Submit
<1>3. q \in Request /\ q.step = "edit" /\ q.role = role[req[p].user] /\ q.record = req[p].record /\ q.rows = req[p].rows
  BY <1>1, <1>2 DEF Request, AnyRole, Acting
<1>4. req' = [req EXCEPT ![p] = q]
  BY DEF Submit, IInv, SoundRequests
<1> HIDE DEF q
<1>5. SoundRequest(q, written)
  BY <1>2, <1>3 DEF SoundRequest
<1>6. FormCurrent(q, records, written)
  BY <1>1, <1>3 DEF FormCurrent
<1> QED
  BY <1>4, <1>5, <1>6, RequestSet DEF IInv

LEMMA EvaluateSound ==
    ASSUME IInv, NEW p \in Requests, Evaluate(p)
    PROVE  SoundRequests(req', records, written)
<1>1. PICK ref \in {records[i].ref : i \in Live} :
        req' = [req EXCEPT ![p].step = "store", ![p].ref = ref,
                           ![p].rows = UNION {records[i].courses : i \in RecordsOf(ref)}]
  BY DEF Evaluate
<1> DEFINE rows == UNION {records[i].courses : i \in RecordsOf(ref)}
           q == [req[p] EXCEPT !.step = "store", !.ref = ref, !.rows = rows]
<1>2. req[p] # None /\ req[p].step = "work" /\ req[p] \in Request /\ req[p].role \in Acting
  BY DEF Evaluate, Working, IInv, SoundRequests, SoundRequest
<1>3. ref \in References
  BY CoursesOf DEF IInv
<1>4. rows \in SUBSET CourseTables /\ Entered(rows, ref, written)
  <2>1. ASSUME NEW n \in rows
        PROVE  n \in CourseTables /\ n \in DOMAIN written /\ written[n] = ref
    <3>1. PICK i \in RecordsOf(ref) : n \in records[i].courses
      OBVIOUS
    <3>2. i \in Live /\ records[i].ref = ref
      BY DEF RecordsOf
    <3> QED
      BY <3>1, <3>2, CoursesOf DEF IInv, Entered
  <2> QED
    BY <2>1 DEF Entered
<1> HIDE DEF rows
<1>5. q \in Request /\ q.step = "store" /\ q.ref = ref /\ q.rows = rows /\ q.role = req[p].role
  BY <1>2, <1>3, <1>4 DEF Request
<1>6. req' = [req EXCEPT ![p] = q]
  BY <1>1 DEF IInv, SoundRequests, rows
<1> HIDE DEF q
<1>7. SoundRequest(q, written)
  BY <1>2, <1>3, <1>4, <1>5 DEF SoundRequest
<1>8. FormCurrent(q, records, written)
  BY <1>5 DEF FormCurrent
<1> QED
  BY <1>6, <1>7, <1>8, RequestSet DEF IInv

LEMMA ServeSound ==
    ASSUME IInv, NEW p \in Requests, Serve(p)
    PROVE  IInv'
<1>1. req[p] \in Request /\ req[p].role \in Acting
  BY DEF Serve, Working, IInv, SoundRequests, SoundRequest
<1>2. req[p].user \in Users
  BY <1>1 DEF Request
<1>3. Handled
  BY <1>1, <1>2, HandleHandled DEF Serve, IInv
<1>4. SoundRequests(req, records', written')
  BY <1>3, RequestsLast DEF Handled, IInv
<1>5. SoundRequests(req', records', written')
  BY <1>4, RequestEnds DEF Serve
<1> QED
  BY <1>3, <1>5 DEF Handled, IInv

LEMMA ServeAtOnceSound ==
    ASSUME IInv, NEW u \in Users, ServeAtOnce(u)
    PROVE  IInv'
<1>1. role[u] \in Acting
  BY SignedInActs DEF ServeAtOnce
<1>2. Handled
  BY <1>1, HandleHandled DEF ServeAtOnce, IInv
<1>3. SoundRequests(req, records', written')
  BY <1>2, RequestsLast DEF Handled, IInv
<1> QED
  BY <1>2, <1>3 DEF Handled, IInv, ServeAtOnce

(* Storing a result: whose it is was checked again, by the same role.       *)
LEMMA StoreSound ==
    ASSUME IInv, NEW p \in Requests, Store(p)
    PROVE  IInv'
<1> DEFINE u == req[p].user
           r == req[p].role
           ref == req[p].ref
           rows == req[p].rows
<1>1. req[p] \in Request /\ r \in Acting /\ ref \in References /\ Entered(rows, ref, written)
  BY DEF Store, Working, IInv, SoundRequests, SoundRequest
<1>2. u \in Users /\ rows \in SUBSET CourseTables
  BY <1>1 DEF Request
<1>3. /\ r = "STUDENT" => ref = Account(u)
      /\ Keep(u, r, ref, rows) /\ End(p) /\ UNCHANGED <<records, written>>
  BY DEF Store
<1> HIDE DEF u, r, ref, rows
<1>4. /\ IsFiniteSet(consultations') /\ Cardinality(consultations') <= MaxConsultations
      /\ \A row \in consultations' : SoundConsultation(row, written)
  BY <1>1, <1>2, <1>3, KeepSound DEF IInv, SoundStore
<1>5. SoundRequests(req', records, written)
  BY <1>3, RequestEnds DEF IInv
<1> QED
  BY <1>3, <1>4, <1>5 DEF IInv, SoundStore

(* Moving a record to another term changes nothing but what the term and    *)
(* the source say of training.                                              *)
LEMMA MovedSound ==
    ASSUME NEW row, NEW w, SoundRecord(row, w), NEW t \in Terms
    PROVE  SoundRecord(Moved(row, t), w) /\ Moved(row, t).courses = row.courses
<1> DEFINE done == Moved(row, t)
<1>1. /\ done.ref = row.ref /\ done.owner = row.owner /\ done.manager = row.manager
      /\ done.term = t /\ done.courses = row.courses
      /\ done.training = (row.source = "VOCATIONAL_TRAINING_RECORD" /\ t = "grade3first")
      /\ done.source = (IF done.training THEN "VOCATIONAL_TRAINING_RECORD" ELSE "HOME_SCHOOL_RECORD")
      /\ done \in Record
  BY DEF SoundRecord, Record, Moved, Sources
<1> HIDE DEF done
<1>2. Owned(done)
  BY <1>1 DEF SoundRecord, Owned
<1>3. Trained(done)
  BY <1>1 DEF Trained
<1>4. Entered(done.courses, done.ref, w)
  BY <1>1 DEF SoundRecord
<1> QED
  BY <1>1, <1>2, <1>3, <1>4 DEF SoundRecord, done

LEMMA EditRecordSound ==
    ASSUME IInv, NEW p \in Requests, EditRecord(p)
    PROVE  IInv' /\ records[req[p].record].courses = req[p].rows
<1> DEFINE i == req[p].record
<1>1. i \in DOMAIN records /\ records[i] # None /\ records[i].courses = req[p].rows
  BY DEF EditRecord, Working, NamesEveryCourse, IInv, SoundRequests, FormCurrent
<1>2. /\ records \in Seq(Record \cup {None})
      /\ SoundRecord(records[i], written)
  BY <1>1 DEF IInv, SoundStore
<1>3. PICK t \in Terms : records' = [records EXCEPT ![i] = Moved(records[i], t)]
  BY DEF EditRecord
<1>4. End(p) /\ UNCHANGED <<consultations, written>>
  BY DEF EditRecord
<1>5. SoundRecord(Moved(records[i], t), written) /\ Moved(records[i], t).courses = records[i].courses
  BY <1>2, MovedSound
<1> DEFINE cells == Record \cup {None}
           row == Moved(records[i], t)
<1>6. row \in cells /\ records \in Seq(cells)
  BY <1>2, <1>5, SoundRecordType
<1> HIDE DEF cells, i, row
<1>7. /\ records' \in Seq(cells) /\ Len(records') = Len(records) /\ DOMAIN records' = DOMAIN records
      /\ \A k \in DOMAIN records : records'[k] = IF k = i THEN row ELSE records[k]
  <2>1. records' = [records EXCEPT ![i] = row]
    BY <1>3 DEF row
  <2> QED
    BY <1>1, <1>6, <2>1
<1>8. \A k \in DOMAIN records' : records'[k] # None => SoundRecord(records'[k], written)
  BY <1>5, <1>7 DEF row, IInv, SoundStore
<1>9. SoundStore(records', consultations', written')
  BY <1>4, <1>7, <1>8 DEF cells, IInv, SoundStore
<1>10. Later(records, records', written) /\ Grown(written, written)
  BY <1>1, <1>5, <1>7 DEF row, Later, Grown
<1>11. SoundRequests(req, records', written)
  BY <1>10, RequestsLast DEF IInv
<1>12. SoundRequests(req', records', written')
  BY <1>4, <1>11, RequestEnds
<1> QED
  BY <1>1, <1>9, <1>12 DEF IInv, i

-----------------------------------------------------------------------------
LEMMA SharedInitially ==
    ASSUME SharedInit
    PROVE  IInv
<1>1. SoundStore(records, consultations, written)
  BY FS_EmptySet DEF SharedInit, SoundStore
<1>2. SoundRequests(req, records, written)
  BY DEF SharedInit, SoundRequests, SoundRequest, FormCurrent
<1> QED
  BY <1>1, <1>2 DEF IInv

(* The steps of a request, at once or one by one, keep the invariant; those *)
(* of the directory leave all of it alone.                                  *)
LEMMA RequestStepSound ==
    ASSUME IInv, NEW p \in Requests, RequestStep(p)
    PROVE  IInv'
<1>1. CASE \E u \in Overtaken : Begin(p, u) \/ ShowForm(p, u)
  <2>1. PICK u \in Overtaken : Begin(p, u) \/ ShowForm(p, u)
    BY <1>1
  <2>2. u \in Users
    BY SharedAssumption
  <2>3. UNCHANGED <<records, consultations, written>>
    BY <2>1 DEF Begin, ShowForm
  <2> QED
    BY <2>1, <2>2, <2>3, BeginSound, ShowFormSound DEF IInv
<1>2. CASE Submit(p)
  BY <1>2, SubmitSound DEF IInv, Submit
<1>3. CASE Leave(p)
  BY <1>3, RequestEnds DEF IInv, Leave
<1>4. CASE Evaluate(p)
  BY <1>4, EvaluateSound DEF IInv, Evaluate
<1> QED
  BY <1>1, <1>2, <1>3, <1>4, ServeSound, EditRecordSound, StoreSound DEF RequestStep

LEMMA SharedNextSound ==
    ASSUME IInv, [(Next /\ UNCHANGED shared) \/ SharedNext]_allVars
    PROVE  IInv'
<1>1. CASE UNCHANGED shared
  BY <1>1 DEF IInv, shared
<1>2. CASE \E p \in Requests : RequestStep(p)
  BY <1>2, RequestStepSound
<1>3. CASE \E u \in Users : ServeAtOnce(u)
  BY <1>3, ServeAtOnceSound
<1> QED
  BY <1>1, <1>2, <1>3 DEF SharedNext, allVars

(* Records, consultations, pages and requests fit together in every state: *)
(* the invariant of the theorems below.                                    *)
THEOREM Soundness == SharedSpec => []IInv
<1>1. Init /\ SharedInit => IInv
  BY SharedInitially
<1>2. IInv /\ [(Next /\ UNCHANGED shared) \/ SharedNext]_allVars => IInv'
  BY SharedNextSound
<1> QED
  BY <1>1, <1>2, PTL DEF SharedSpec

-----------------------------------------------------------------------------
(* The properties, in every state with the invariant.                       *)
LEMMA ReferencesApart ==
    \A u, x, n :
        /\ Account(u) # Entry(x) /\ Private(u, n) # Entry(x)
        /\ \A y : Entry(x) = Entry(y) => x = y
  BY DEF Account, Entry, Private

LEMMA TypesHold == ASSUME IInv PROVE SharedTypeOK
<1>1. consultations \subseteq Consultation
  BY DEF IInv, SoundStore, SoundConsultation
<1>2. req \in [Requests -> Request \cup {None}]
  BY DEF IInv, SoundRequests, SoundRequest
<1> QED
  BY <1>1, <1>2 DEF SharedTypeOK, IInv, SoundStore

LEMMA OwnersNamed == ASSUME IInv PROVE ReferenceNamesOwner
<1>1. \A i \in Live : Owned(records[i])
  BY DEF Live, IInv, SoundStore, SoundRecord
<1>2. \A row \in consultations :
        IF row.manager = Nobody THEN row.owner # Nobody /\ row.ref = Account(row.owner)
                                ELSE row.owner = Nobody
  BY DEF IInv, SoundStore, SoundConsultation
<1> QED
  BY <1>1, <1>2 DEF ReferenceNamesOwner, Owned

LEMMA RecordListMatches ==
    ASSUME NEW u \in Users, SignedIn(u)
    PROVE  VisibleRecords(u) = {i \in Live : CanReadRecord(u, role[u], records[i])}
<1>1. CASE role[u] = "STUDENT"
  BY <1>1 DEF VisibleRecords, CanReadRecord, CanChange, MainAdmin, TeacherRole
<1>2. CASE TeacherRole(role[u]) /\ ~MainAdmin(u, role[u])
  BY <1>2 DEF VisibleRecords, CanReadRecord, CanChange, TeacherRole
<1>3. CASE MainAdmin(u, role[u])
  BY <1>3 DEF VisibleRecords, CanReadRecord, CanChange, MainAdmin
<1> QED
  BY <1>1, <1>2, <1>3 DEF SignedIn, TeacherRole, MainAdmin

LEMMA ConsultationListMatches ==
    ASSUME NEW u \in Users, SignedIn(u)
    PROVE  VisibleConsultations(u) = {row \in consultations : CanReadConsultation(u, role[u], row)}
<1>1. CASE role[u] = "STUDENT"
  BY <1>1 DEF VisibleConsultations, CanReadConsultation, CanChange, MainAdmin, TeacherRole
<1>2. CASE TeacherRole(role[u]) /\ ~MainAdmin(u, role[u])
  BY <1>2 DEF VisibleConsultations, CanReadConsultation, CanChange, TeacherRole
<1>3. CASE MainAdmin(u, role[u])
  BY <1>3 DEF VisibleConsultations, CanReadConsultation, CanChange, MainAdmin
<1> QED
  BY <1>1, <1>2, <1>3 DEF SignedIn, TeacherRole, MainAdmin

LEMMA ClassroomPageMatches ==
    ASSUME IInv, NEW t \in Users, TeacherCapable(t),
           \A x \in OwnEntries(t) : link[x] # NoUser => link[x] \in LinkedStudents(t)
    PROVE  ClassroomPage(t) \subseteq VisibleRecords(t)
<1> SUFFICES ASSUME NEW x \in OwnEntries(t), NEW i \in EntryPage(x)
             PROVE  i \in VisibleRecords(t)
  BY DEF ClassroomPage
<1>1. x \in Rows /\ TeacherOf[x] = t /\ i \in Live
  BY DEF OwnEntries, EntryPage
<1>2. SignedIn(t) /\ TeacherRole(role[t])
  BY DEF TeacherCapable, TeacherRole, SignedIn
<1>3. CASE records[i].ref = Entry(x)
  <2>1. Owned(records[i])
    BY <1>1 DEF Live, IInv, SoundStore, SoundRecord
  <2>2. records[i].manager = t
    BY <1>1, <1>3, <2>1, ReferencesApart DEF Owned
  <2>3. CanReadRecord(t, role[t], records[i])
    BY <1>2, <2>2 DEF CanReadRecord, CanChange
  <2> QED
    BY <1>1, <1>2, <2>3, RecordListMatches
<1>4. CASE link[x] # NoUser /\ records[i].owner = link[x]
  <2>1. CanReadRecord(t, role[t], records[i])
    BY <1>2, <1>4 DEF CanReadRecord
  <2> QED
    BY <1>1, <1>2, <2>1, RecordListMatches
<1> QED
  BY <1>3, <1>4 DEF EntryPage

LEMMA ListsMatch == ASSUME IInv PROVE ListsMatchChecks
<1>1. ASSUME NEW u \in Users, SignedIn(u)
      PROVE  /\ VisibleRecords(u) = {i \in Live : CanReadRecord(u, role[u], records[i])}
             /\ VisibleConsultations(u) = {row \in consultations : Printouts(u, role[u], row) # {}}
  <2>1. \A row : Printouts(u, role[u], row) # {} <=> CanReadConsultation(u, role[u], row)
    BY DEF Printouts
  <2> QED
    BY <1>1, <2>1, RecordListMatches, ConsultationListMatches
<1> QED
  BY <1>1, ClassroomPageMatches DEF ListsMatchChecks

LEMMA CoursesHeld == ASSUME IInv PROVE CoursesBelong
<1>1. ASSUME NEW i \in Live
      PROVE  /\ \A n \in records[i].courses : written[n] = records[i].ref
             /\ records[i].ref \notin {Entry(x) : x \in Rows} => Cardinality(records[i].courses) = 1
  <2>1. SoundRecord(records[i], written)
    BY DEF Live, IInv, SoundStore
  <2> QED
    BY <2>1, FS_Singleton DEF SoundRecord, Entered
<1>2. \A row \in consultations : \A n \in row.rows : written[n] = row.ref
  BY DEF IInv, SoundStore, SoundConsultation, Entered
<1> QED
  BY <1>1, <1>2 DEF CoursesBelong

LEMMA NotesKept == ASSUME IInv PROVE NotesPrivate
<1> SUFFICES ASSUME NEW u \in Users, SignedIn(u), NEW row \in consultations, row.note, NoteShown(u, row)
             PROVE  row.manager = u \/ MainAdmin(u, role[u])
  BY DEF NotesPrivate
<1>1. row.owner = Nobody
  BY DEF IInv, SoundStore, SoundConsultation
<1>2. row.owner \notin LinkedStudents(u)
  BY <1>1 DEF LinkedStudents, Nobody
<1>3. CASE row \in VisibleConsultations(u) /\ role[u] = "ADMIN"
  <2>1. CanReadConsultation(u, role[u], row)
    BY <1>3, ConsultationListMatches
  <2> QED
    BY <1>2, <1>3, <2>1 DEF CanReadConsultation, CanChange
<1>4. CASE "teacher" \in Printouts(u, role[u], row)
  <2>1. CanReadConsultation(u, role[u], row) /\ TeacherRole(role[u])
    BY <1>4 DEF Printouts
  <2> QED
    BY <1>2, <2>1 DEF CanReadConsultation, CanChange, TeacherRole
<1> QED
  BY <1>3, <1>4 DEF NoteShown

-----------------------------------------------------------------------------
(* The store keeps its types and its limits.                                *)
THEOREM RecordTypes == SharedSpec => []SharedTypeOK
  BY Soundness, TypesHold, PTL

(* By reference, by owner or by manager, a record is found under the same   *)
(* person, after any saves, additions, edits and deletions.                 *)
THEOREM OneOwner == SharedSpec => []ReferenceNamesOwner
  BY Soundness, OwnersNamed, PTL

(* The lists, the pages and the checks agree, whatever the roles, statuses  *)
(* and links are by then.                                                   *)
THEOREM ListsAgree == SharedSpec => []ListsMatchChecks
  BY Soundness, ListsMatch, PTL

(* The flag of a training record and its source say the same.               *)
THEOREM TrainingAgrees == SharedSpec => []TrainingConsistent
<1>1. IInv => TrainingConsistent
  BY DEF TrainingConsistent, Live, IInv, SoundStore, SoundRecord, Trained
<1> QED
  BY Soundness, <1>1, PTL

(* No course of another student, or of another save, gets into a record or  *)
(* into a consultation.                                                     *)
THEOREM OwnCourses == SharedSpec => []CoursesBelong
  BY Soundness, CoursesHeld, PTL

(* Only who wrote a note, and main administrators, are shown it.            *)
THEOREM NotesStayPrivate == SharedSpec => []NotesPrivate
  BY Soundness, NotesKept, PTL

(* However long a form stays open, and whatever is done to its record by    *)
(* others, an edit that goes through changes the courses the form showed.   *)
THEOREM EditsAsShown == SharedSpec => EditedAsShown
<1>1. IInv => [\A p \in Requests : EditRecord(p) => records[req[p].record].courses = req[p].rows]_allVars
  BY EditRecordSound
<1> QED
  BY Soundness, <1>1, PTL DEF EditedAsShown
=============================================================================
