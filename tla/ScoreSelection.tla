--------------------------- MODULE ScoreSelection ---------------------------
(***************************************************************************)
(* From the stored records of a student to the semesters a score rule      *)
(* counts: score_inputs.py (which records and courses may be read at all), *)
(* score_selection.py (which semesters and subjects the rule takes) and    *)
(* the comparison value of each semester.                                  *)
(*                                                                         *)
(* A record is [id, year, grade, semester, source, training, verified,     *)
(* courses]; a course is [id, group, credits, rank, z, verified], with     *)
(* None for a missing value and z = [raw, mean, deviation] or None.        *)
(* Courses and records are sets: where the code sorts them, ids stand for  *)
(* the keys it sorts by.  Grades are fixed-point numbers at scale Unit.    *)
(***************************************************************************)
EXTENDS ScoreRuleSchema

RecordSources == {"HOME_SCHOOL_RECORD", "VOCATIONAL_TRAINING_RECORD", "GED_RECORD", "MANUAL_INPUT"}
SchoolSources == {"HOME_SCHOOL_RECORD", "VOCATIONAL_TRAINING_RECORD"}
Statuses == {"READY", "NEEDS_REVIEW", "INSUFFICIENT_DATA"}
Policies == {"HOME_ONLY", "VOCATIONAL_INCLUDED", "VOCATIONAL_ONLY",
             "EXCLUDE_VOCATIONAL_SEMESTER", "TRACK_DEPENDENT", "MANUAL_REVIEW"}

(* The strings of record_source in the order the code sorts them.          *)
SourceOrder == [GED_RECORD |-> 1, HOME_SCHOOL_RECORD |-> 2, MANUAL_INPUT |-> 3,
                VOCATIONAL_TRAINING_RECORD |-> 4]

InScope_TrainingIgnored(record, policy) ==
    /\ record.verified
    /\ record.source \in SchoolSources
    /\ policy = "HOME_ONLY" => record.source = "HOME_SCHOOL_RECORD"
    /\ policy = "VOCATIONAL_ONLY" => record.source = "VOCATIONAL_TRAINING_RECORD"

(* _record_exclusion_reason is None                                        *)
InScope(record, policy) ==
    /\ record.verified
    /\ record.source \in SchoolSources
    /\ policy = "HOME_ONLY" => record.source = "HOME_SCHOOL_RECORD"
    /\ policy = "VOCATIONAL_ONLY" => record.source = "VOCATIONAL_TRAINING_RECORD"
    /\ policy = "EXCLUDE_VOCATIONAL_SEMESTER" => ~record.training

VerifiedCourses(record) == {c \in record.courses : c.verified}

(* select_score_inputs of an allowed decision and a usable rule            *)
SelectInputs(records, policy) ==
    LET kept == {r \in records : InScope(r, policy) /\ VerifiedCourses(r) # {}}
        read == {[r EXCEPT !.courses = VerifiedCourses(r)] : r \in kept}
    IN  IF policy \in {"TRACK_DEPENDENT", "MANUAL_REVIEW"}
        THEN [status |-> "NEEDS_REVIEW", records |-> {}]
        ELSE [status |-> IF read = {} THEN "INSUFFICIENT_DATA" ELSE "READY", records |-> read]

(* _record_inclusion: TRUE, FALSE or None.                                 *)
Inclusion(r, d) ==
    LET flag == d.included
    IN  CASE r.source = "HOME_SCHOOL_RECORD" ->
               (CASE r.grade = 1 -> flag["home_1"]
                  [] r.grade = 2 -> flag["home_2"]
                  [] r.grade = 3 /\ r.semester = 1 -> flag["home_3_1"]
                  [] r.grade = 3 /\ r.semester = 2 -> flag["home_3_2"])
          [] r.source = "VOCATIONAL_TRAINING_RECORD" ->
               (CASE flag["voc"] # TRUE -> flag["voc"]
                  [] r.semester = 1 -> flag["voc_1"]
                  [] r.semester = 2 -> flag["voc_2"])
          [] OTHER -> FALSE

-----------------------------------------------------------------------------
(* The comparable value of every course: course id |-> [value, scale,      *)
(* scopes].  Values: the mapping; Best: the count first of S in the strict *)
(* order before; Better: _rank_value of a comes before that of b.          *)

Best(S, count, before) == {x \in S : Cardinality({y \in S : <<y, x>> \in before}) < count}

Better_Reversed(a, b, direction) ==
    IF direction = "HIGHER_IS_BETTER" THEN a < b ELSE a > b

Better(a, b, direction) == IF direction = "HIGHER_IS_BETTER" THEN a > b ELSE a < b

InSubjectScope(course, d, values) ==
    d.subject_scope = "ALL" \/ d.subject_scope \in values[course.id].scopes

(* The courses of one record the rule counts.                              *)
SelectedCourses(record, d, values) ==
    LET scoped == {c \in record.courses : InSubjectScope(c, d, values)}
        value(c) == values[c.id].value
        before == {p \in scoped \X scoped :
                     \/ Better(value(p[1]), value(p[2]), d.value_direction)
                     \/ value(p[1]) = value(p[2]) /\ p[1].id < p[2].id}
    IN  IF d.subject_method = "BEST_N" THEN Best(scoped, d.best_subject_count, before) ELSE scoped

HasCredit(course) == course.credits # None /\ course.credits > 0
Credits(courses) == SumFunction([c \in courses |-> c.credits])

(* An average, rounded as the rule says: _round_semester_value, and        *)
(* _round_intermediate for the average of a grade.                         *)
Average(sum, count, rounding) ==
    IF rounding = None THEN Divide(sum, count)
    ELSE QuantizeRatio(sum, count, rounding.mode, Step(Unit, rounding.digits))

SemesterValue_CountDivisor(courses, d, values) ==
    IF d.credit_weighted
    THEN Average(SumFunction([c \in courses |-> values[c.id].value * c.credits]),
                 Cardinality(courses), d.semester_rounding)
    ELSE Average(SumFunction([c \in courses |-> values[c.id].value]),
                 Cardinality(courses), d.semester_rounding)

(* _semester_value and its rounding, for courses that have what it needs   *)
SemesterValue(courses, d, values) ==
    IF d.credit_weighted
    THEN Average(SumFunction([c \in courses |-> values[c.id].value * c.credits]),
                 Credits(courses), d.semester_rounding)
    ELSE Average(SumFunction([c \in courses |-> values[c.id].value]),
                 Cardinality(courses), d.semester_rounding)

(* A record that cannot be compared for want of a credit.                  *)
CreditMissing(courses, d) ==
    /\ d.minimum_credits # None \/ d.credit_weighted = TRUE
    /\ \E c \in courses : ~HasCredit(c)

BelowMinimum(courses, d) == d.minimum_credits # None /\ Credits(courses) < d.minimum_credits

-----------------------------------------------------------------------------
(* A scored semester: the record with the selected courses and its value.  *)
(* _record_key orders semesters, and breaks the ties of their values.      *)

Earlier(a, b) ==
    LET key(r) == <<r.grade, r.semester, r.year, SourceOrder[r.source], r.id>>
    IN  \E n \in 1..5 : key(a)[n] < key(b)[n] /\ \A m \in 1..(n - 1) : key(a)[m] = key(b)[m]

(* _rank_semesters: s comes before t.                                      *)
RankedBefore(s, t, d) ==
    \/ Better(s.value, t.value, d.value_direction)
    \/ s.value = t.value /\ Earlier(s.record, t.record)

(* _select_semesters                                                       *)
SelectSemesters(scored, d) ==
    LET n == d.best_semester_count
        earlier == {p \in scored \X scored : Earlier(p[1].record, p[2].record)}
        later == {p \in scored \X scored : Earlier(p[2].record, p[1].record)}
        better == {p \in scored \X scored : RankedBefore(p[1], p[2], d)}
        of(g) == {s \in scored : s.record.grade = g}
    IN  CASE d.semester_method = "ALL" -> scored
          [] d.semester_method = "FIRST_N" -> Best(scored, n, earlier)
          [] d.semester_method = "RECENT_N" -> Best(scored, n, later)
          [] d.semester_method = "BEST_N" /\ d.semester_scope = "GLOBAL" -> Best(scored, n, better)
          [] d.semester_method = "BEST_N" /\ d.semester_scope = "PER_GRADE" ->
               UNION {Best(of(g), n, better) : g \in Grades}

(* The records whose semester is included and has a course that counts, and *)
(* of those the ones with enough credits, with their values.               *)
Included(records, d) == {r \in records : Inclusion(r, d) = TRUE}
Offered(records, d, values) == {r \in Included(records, d) : SelectedCourses(r, d, values) # {}}
ScoredSemesters(records, d, values) ==
    LET courses(r) == SelectedCourses(r, d, values)
    IN  {[record |-> [r EXCEPT !.courses = courses(r)], value |-> SemesterValue(courses(r), d, values)] :
           r \in {x \in Offered(records, d, values) : ~BelowMinimum(courses(x), d)}}

(* What an included course is valued by.                                   *)
Scales(records, d, values) ==
    LET courses == UNION {r.courses : r \in Included(records, d)}
    IN  {values[c.id].scale : c \in {x \in courses : InSubjectScope(x, d, values)}}

(* The early returns of the loop over the records, each of which leaves    *)
(* the whole selection for review, so that their order does not matter.    *)
ForReview(records, d, values) ==
    \/ "MANUAL_REVIEW" \in {d.semester_method, d.subject_method, d.subject_scope}
    \/ \E r \in records : Inclusion(r, d) = None
    \/ \E r \in Included(records, d) : \E c \in r.courses : c.id \notin DOMAIN values
    \/ \E r \in Offered(records, d, values) : CreditMissing(SelectedCourses(r, d, values), d)
    \/ d.credit_weighted = None /\ \E r \in Offered(records, d, values) :
                                     ~BelowMinimum(SelectedCourses(r, d, values), d)
    \/ Cardinality(Scales(records, d, values)) > 1

(* select_terms_and_subjects: status, the scored semesters selected, and   *)
(* their value scale.                                                      *)
SelectTerms(inputs, d, values) ==
    LET unready(status) == [status |-> status, semesters |-> {}, scale |-> None]
        scored == ScoredSemesters(inputs.records, d, values)
    IN  IF inputs.status # "READY" THEN unready(inputs.status)
        ELSE IF ForReview(inputs.records, d, values) THEN unready("NEEDS_REVIEW")
        ELSE IF scored = {} THEN unready("INSUFFICIENT_DATA")
        ELSE [status |-> "READY", semesters |-> SelectSemesters(scored, d),
              scale |-> CHOOSE s \in Scales(inputs.records, d, values) : TRUE]

=============================================================================
