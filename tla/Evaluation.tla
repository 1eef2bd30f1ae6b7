----------------------------- MODULE Evaluation -----------------------------
(***************************************************************************)
(* One use of the rules at a time: a student's records under a score rule, *)
(* facts under an eligibility or a disqualification rule, an application   *)
(* history under a multiple application policy, a Z score table file, an   *)
(* achievement level.  A task is picked at the start and its entry point   *)
(* runs; the result is what the caller is given.                           *)
(*                                                                         *)
(* A task of kind "SCORE" has the settings d of the rule, the policy of    *)
(* its scope, its Z table, the records and an attendance to convert (or    *)
(* None); its result is the pipeline of consultations.py followed by       *)
(* calculate_selected_score.                                               *)
(***************************************************************************)
EXTENDS ScoreCalculation, Eligibility

CONSTANTS
    Tasks,            \* what may be asked for
    MaxApplications   \* bound on the choices of one history

(* What a task is made of: stored records with an id of their own each, of *)
(* finitely many courses, with a flag for "verified", and whole numbers    *)
(* where a number is stored at all; the settings of a rule, whose rounding *)
(* keeps digits that Unit has; an eligibility rule that has been parsed,   *)
(* counts as the limits of a policy, a student without applications, and   *)
(* numbers or blanks as the bounds of a row of a table.                    *)
IsRecord(r, fields) == fields \subseteq DOMAIN r /\ r = [f \in DOMAIN r |-> r[f]]
IsCourse(c) ==
    c.verified \in BOOLEAN /\ c.credits \in Int \cup {None} /\ c.rank \in Int \cup {None}
IsStored(r) ==
    /\ IsRecord(r, {"id", "year", "grade", "semester", "source", "training", "verified", "courses"})
    /\ r.id \in Int /\ r.year \in Int /\ r.grade \in Grades /\ r.semester \in 1..2
    /\ r.verified \in BOOLEAN /\ r.training \in BOOLEAN
    /\ IsFiniteSet(r.courses) /\ \A c \in r.courses : IsCourse(c)
IsHistory(records) ==
    /\ IsFiniteSet(records) /\ \A r \in records : IsStored(r)
    /\ \A r, q \in records : r.id = q.id => r = q
    /\ \A c, e \in UNION {r.courses : r \in records} : c.id = e.id => c = e
RoundingStep(rounding) == IF rounding = None THEN 0 ELSE Step(Unit, rounding.digits)
IsRounding(rounding) ==
    rounding # None => RoundingStep(rounding) \in Nat \ {0} /\ Unit % RoundingStep(rounding) = 0
IsSettings(d) ==
    /\ IsRecord(d, {"included", "value_direction", "semester_method", "semester_scope",
                    "best_semester_count", "subject_method", "best_subject_count", "subject_scope",
                    "credit_weighted", "minimum_credits", "semester_rounding"})
    /\ d.value_direction \in {"LOWER_IS_BETTER", "HIGHER_IS_BETTER"}
    /\ d.semester_scope \in {"GLOBAL", "PER_GRADE"}
    /\ d.semester_method \in {"ALL", "BEST_N", "FIRST_N", "RECENT_N", "MANUAL_REVIEW"}
    /\ d.weighting_mode \in {"EQUAL", "GRADE_ONLY", "GLOBAL_SEMESTER", "GRADE_WITHIN_SEMESTER"}
    /\ DOMAIN d.grade_weights = Grades /\ DOMAIN d.semester_weights = Terms
    /\ d.best_semester_count \in Int \cup {None}
    /\ d.credit_weighted \in {TRUE, FALSE, None}
    /\ IsRounding(d.semester_rounding) /\ IsRounding(d.grade_rounding)
    /\ d.display_digits # None => Step(One, d.display_digits) \in Nat \ {0}
ASSUME BlankAssumption == None \notin Int /\ None \notin [unrounded : Int, display : Int]
ASSUME TasksAssumption ==
    \A t \in Tasks :
      /\ t.kind = "SCORE" =>
           /\ IsRecord(t, {"d", "policy", "records", "table"})
           /\ IsHistory(t.records) /\ IsSettings(t.d) /\ \A row \in t.table : row.value \in Int
      /\ t.kind \in {"ELIGIBILITY", "DISQUALIFICATION"} =>
           /\ Len(t.rule.cases) \in Nat /\ DOMAIN t.rule.cases = 1..Len(t.rule.cases)
           /\ \A i \in DOMAIN t.rule.cases :
                ValidCondition(t.rule.cases[i].when, DOMAIN t.facts)
      /\ t.kind = "TABLE" =>
           /\ Len(t.rows) \in Nat /\ DOMAIN t.rows = 1..Len(t.rows) /\ t.points \subseteq Int
           /\ \A i \in DOMAIN t.rows : t.rows[i].lo \in Int \cup {None} /\ t.rows[i].hi \in Int \cup {None}
      /\ t.kind = "APPLICATION" =>
           /\ IsRecord(t, {"kind", "policy", "choices", "history"}) /\ t.history = <<>>
           /\ t.policy.total \in Nat /\ t.policy.campus \in Nat

VARIABLES task, result

vars == <<task, result>>

Pending == [done |-> FALSE]

-----------------------------------------------------------------------------
(* The pipeline from records to a grade.  The stages after one that is not *)
(* ready are not run; a stored rule that is not valid is refused when it   *)
(* is loaded, after the records were read.                                 *)
Unready(status) == [status |-> status, semesters |-> {}, scale |-> None]

Selection(t) ==
    LET inputs == SelectInputs(t.records, t.policy)
        values == CourseValues(inputs.records, t.d, t.table)
    IN  IF inputs.status # "READY" THEN Unready(inputs.status)
        ELSE IF ~ValidPayload(t.d) THEN Unready("REFUSED")
        ELSE IF Unvalued(inputs.records, values) # {} THEN Unready("NEEDS_REVIEW")
        ELSE SelectTerms(inputs, t.d, values)

Grade(t) == ReflectedGrade(Selection(t), t.d)

Attendance(t) ==
    IF t.attendance = None THEN None
    ELSE ConvertAttendance(t.attendance.counts, t.attendance.verified, t.d.attendance,
                           t.attendance.table)

CalculateScore ==
    /\ task.kind = "SCORE" /\ ~result.done
    /\ result' = [done |-> TRUE, selection |-> Selection(task), grade |-> Grade(task),
                  score |-> SelectedScore(Selection(task), task.d, Attendance(task))]
    /\ UNCHANGED task

EvaluateEligibility ==
    /\ task.kind = "ELIGIBILITY" /\ ~result.done
    /\ result' = [done |-> TRUE, decision |-> Decide(task.rule, task.facts)]
    /\ UNCHANGED task

EvaluateDisqualification ==
    /\ task.kind = "DISQUALIFICATION" /\ ~result.done
    /\ ValidDisqualification(task.rule)
    /\ result' = [done |-> TRUE, status |-> Disqualification(task.rule, task.facts)]
    /\ UNCHANGED task

(* evaluate_multiple_application for the next choice of the student, who   *)
(* applies when it is allowed.                                             *)
EvaluateApplication ==
    /\ task.kind = "APPLICATION"
    /\ Len(task.history) < MaxApplications
    /\ \E candidate \in task.choices, complete \in BOOLEAN :
         LET status == Apply(task.policy, candidate, task.history, complete)
         IN  /\ result' = [done |-> TRUE, status |-> status]
             /\ task' = IF status = "ALLOWED"
                        THEN [task EXCEPT !.history = Append(task.history, candidate)]
                        ELSE task

ParseTable ==
    /\ task.kind = "TABLE" /\ ~result.done
    /\ result' = [done |-> TRUE, rows |-> ParsedTable(task.rows)]
    /\ UNCHANGED task

(* The rows of a rule file that are offered as drafts.                     *)
ParseDrafts ==
    /\ task.kind = "DRAFTS" /\ ~result.done
    /\ result' = [done |-> TRUE, kept |-> ParsedRows(task.rows)]
    /\ UNCHANGED task

ConvertLevels ==
    /\ task.kind = "ACHIEVEMENT" /\ ~result.done
    /\ result' = [done |-> TRUE,
                  grades |-> [level \in DOMAIN LevelsTo |->
                                ConvertAchievement(level, task.shares, task.settings, task.table)]]
    /\ UNCHANGED task

Init == task \in Tasks /\ result = Pending

Next ==
    \/ CalculateScore
    \/ EvaluateEligibility
    \/ EvaluateDisqualification
    \/ EvaluateApplication
    \/ ParseTable
    \/ ParseDrafts
    \/ ConvertLevels

Spec == Init /\ [][Next]_vars

-----------------------------------------------------------------------------
Scored == task.kind = "SCORE" /\ result.done
Graded == Scored /\ result.grade # None

(* Only records of the kinds the entry points answer with.                 *)
TypeOK ==
    /\ task.kind \in {"SCORE", "ELIGIBILITY", "DISQUALIFICATION", "APPLICATION", "TABLE",
                      "ACHIEVEMENT", "DRAFTS", "BATCH"}
    /\ result.done \in BOOLEAN
    /\ Scored => /\ result.selection.status \in Statuses \cup {"REFUSED"}
                 /\ (result.selection.status = "READY") = (result.selection.semesters # {})
                 /\ Graded => result.grade.unrounded \in One..(9 * One)
    /\ task.kind \in {"DISQUALIFICATION"} /\ result.done =>
         result.status \in {"CLEAR", "DISQUALIFIED", "NEEDS_REVIEW", "INSUFFICIENT_DATA"}
    /\ task.kind = "APPLICATION" /\ result.done =>
         result.status \in {"ALLOWED", "BLOCKED", "NEEDS_REVIEW"}

(* The semesters a rule that takes the best of them counts are, for the    *)
(* student, the best choice there is: no other choice of as many semesters *)
(* has a better total.  Per grade when the rule says so.                   *)
Eligible(t) == SelectTerms(SelectInputs(t.records, t.policy),
                           [t.d EXCEPT !.semester_method = "ALL", !.semester_scope = "GLOBAL"],
                           CourseValues(SelectInputs(t.records, t.policy).records, t.d, t.table))
BestAmong(chosen, offered, n, direction) ==
    LET total(S) == SumFunction([s \in S |-> s.value])
        size == IF n < Cardinality(offered) THEN n ELSE Cardinality(offered)
    IN  /\ Cardinality(chosen) = size
        /\ \A S \in kSubset(size, offered) :
             IF direction = "LOWER_IS_BETTER" THEN total(chosen) <= total(S)
             ELSE total(chosen) >= total(S)
SelectionOptimal ==
    Scored /\ result.selection.status = "READY" /\ task.d.semester_method = "BEST_N" =>
      LET chosen == result.selection.semesters
          offered == Eligible(task).semesters
          of(S, g) == {s \in S : s.record.grade = g}
          n == task.d.best_semester_count
          direction == task.d.value_direction
      IN  IF task.d.semester_scope = "GLOBAL" THEN BestAmong(chosen, offered, n, direction)
          ELSE \A g \in Grades : BestAmong(of(chosen, g), of(offered, g), n, direction)

(* A reflected grade is an average: whatever the weights, the selection    *)
(* and the credits, it lies between the best and the worst grade of the    *)
(* courses it counts, up to one last digit for each rounding on the way.   *)
(* EQUAL weights may lose what the division drops.                         *)
GradeWithinGrades ==
    Graded =>
      LET courses == UNION {s.record.courses : s \in result.selection.semesters}
          slack == (RoundingStep(task.d.semester_rounding) + RoundingStep(task.d.grade_rounding))
                     * Unit * Unit
                   + (IF task.d.weighting_mode = "EQUAL"
                      THEN Cardinality(result.selection.semesters) * 9 * Unit ELSE 0)
      IN  /\ \E c \in courses : c.rank * Unit * Unit - slack <= result.grade.unrounded
          /\ \E c \in courses : result.grade.unrounded <= c.rank * Unit * Unit + slack

(* What nobody has verified, and what the scope leaves out, has no         *)
(* influence on any result: the calculation without it gives the same.     *)
Clean(t) == {[r EXCEPT !.courses = {c \in r.courses : c.verified}] :
               r \in {x \in t.records : /\ x.verified
                                        /\ t.policy = "EXCLUDE_VOCATIONAL_SEMESTER" => ~x.training}}
OnlyVerifiedCounts ==
    Scored /\ result.selection.status \notin {"NEEDS_REVIEW", "REFUSED"} =>
      /\ result.selection = Selection([task EXCEPT !.records = Clean(task)])
      /\ result.grade = Grade([task EXCEPT !.records = Clean(task)])

(* A valid rule that leaves nothing to a reviewer, for records it leaves   *)
(* none of to one, is never refused if the records cover its weights: when *)
(* all are verified and graded, of terms with a weight, one for each       *)
(* positive weight, there is a reflected grade.  (Not for EQUAL: see       *)
(* EqualComputable.)                                                       *)
Settled(d, records) ==
    /\ ValidPayload(d)
    /\ d.semester_method = "ALL" /\ d.subject_method = "ALL" /\ d.subject_scope = "ALL"
    /\ d.credit_weighted # None /\ d.minimum_credits = None
    /\ d.display_digits # None => d.mode # "MANUAL_REVIEW"
    /\ \A r \in records : Inclusion(r, d) # None
Countable(r) ==
    /\ r.verified /\ r.source \in SchoolSources /\ r.courses # {}
    /\ \A c \in r.courses : c.verified /\ HasCredit(c) /\ c.rank # None /\ IsRankGrade(c.rank)
Covered(d, records) ==
    LET terms == {<<r.grade, r.semester>> : r \in records}
        grades == {r.grade : r \in records}
        covers(w, keys) == /\ keys \subseteq Given(w)
                           /\ \A k \in DOMAIN w \ keys : w[k] \in {None, 0}
    IN  /\ d.weighting_mode \in {"GRADE_ONLY", "GRADE_WITHIN_SEMESTER"} =>
             covers(d.grade_weights, grades)
        /\ d.weighting_mode \in {"GLOBAL_SEMESTER", "GRADE_WITHIN_SEMESTER"} =>
             covers(d.semester_weights, terms) /\ Cardinality(terms) = Cardinality(records)
Computable ==
    LET d == task.d
        records == Included(task.records, d)
    IN  /\ Scored /\ task.policy = "VOCATIONAL_INCLUDED" /\ d.weighting_mode # "EQUAL"
        /\ Settled(d, task.records) /\ \A r \in task.records : Countable(r)
        /\ records # {} /\ Covered(d, records)
        => result.grade # None

(* A decision holds whatever the student has not said: when every case     *)
(* before the deciding one was decided too, no completion of the missing   *)
(* facts changes it.                                                       *)
Completions(facts, values) ==
    {f \in [DOMAIN facts -> values] : \A n \in DOMAIN facts : facts[n] # Missing => f[n] = facts[n]}
DecisionStable ==
    task.kind = "ELIGIBILITY" /\ result.done
      /\ result.decision.status # "INSUFFICIENT_DATA"
      /\ (\A i \in 1..(result.decision.case - 1) :
            Outcome(task.rule.cases[i].when, task.facts) = "NO_MATCH")
      => \A full \in Completions(task.facts, task.values) :
           Decide(task.rule, full).status = result.decision.status

(* Whatever the order in which a student applies, the applications the     *)
(* policy has allowed never add up to more than its limits nor hold a      *)
(* forbidden pair of tracks of one institution.                            *)
WithinLimits ==
    task.kind = "APPLICATION" =>
      \A i \in DOMAIN task.history :
        LET h == task.history
            same == {j \in DOMAIN h : h[j].institution = h[i].institution}
            campus == {j \in same : h[j].campus = h[i].campus}
        IN  /\ task.policy.total # Unlimited => Cardinality(same) <= task.policy.total
            /\ task.policy.campus # Unlimited => Cardinality(campus) <= task.policy.campus
            /\ \A j \in same \ {i} : {h[i].track, h[j].track} \notin task.policy.forbidden

(* An accepted Z score table has one answer: no value is in two rows of    *)
(* the same table.                                                         *)
TableUnambiguous ==
    task.kind = "TABLE" /\ result.done =>
      \A i, j \in result.rows : \A x \in task.points :
        (/\ task.rows[i].table = task.rows[j].table
         /\ InInterval(task.rows[i], x) /\ InInterval(task.rows[j], x)) => i = j

(* docs/DOMAIN_GLOSSARY.md:38 says EQUAL weights the selected semesters    *)
(* alike, and the average of grades from 1 to 9 lies from 1 to 9: semesters *)
(* whose courses all have a rank grade get a reflected grade.              *)
EqualComputable ==
    Scored /\ result.selection.status = "READY" /\ task.d.weighting_mode = "EQUAL"
      /\ (\A s \in result.selection.semesters : \A c \in s.record.courses : c.rank # None)
      => result.grade # None

(* app/services/z_score_previews.py:50 tells the student that the official *)
(* table of a university is applied at the calculation stage, and the test *)
(* tests/test_z_score_previews.py:87 that it stands in for a missing rank  *)
(* grade: a selection that counts such a course gets a grade.              *)
OfficialTableApplies ==
    Scored /\ result.selection.status = "READY"
      /\ (\E s \in result.selection.semesters : \E c \in s.record.courses : c.rank = None)
      => result.grade # None

=============================================================================
