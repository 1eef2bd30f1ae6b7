-------------------------- MODULE ScoreCalculation --------------------------
(***************************************************************************)
(* The reflected average grade and the score of the selected semesters:    *)
(* score_calculation.py.  Both answer None where the code raises           *)
(* ScoreCalculationError.                                                  *)
(*                                                                         *)
(* Weighted components are a function from what is weighted (a grade or a  *)
(* selected semester) to [value, weight]: the value at scale Unit, the     *)
(* weight at scale Unit^2, so that contributions are exact at Unit^3.      *)
(***************************************************************************)
EXTENDS ScoreSelection, ScoreConversion

(* consultations.py: the rank grade of a course, or what the table of the  *)
(* university makes of its Z score; only values that exist are mapped.     *)
CourseValue(course, d, table) ==
    IF course.rank # None THEN course.rank
    ELSE IF table = {} THEN None ELSE ConvertZ(course.z, d.z, table)

CourseValues(records, d, table) ==
    LET valued == {c \in UNION {r.courses : r \in records} : CourseValue(c, d, table) # None}
        of(id) == CHOOSE c \in valued : c.id = id
    IN  [id \in {c.id : c \in valued} |->
           [value |-> CourseValue(of(id), d, table), scale |-> "RANK_GRADE",
            scopes |-> {of(id).group} \ {None}]]

(* The courses no value was found for leave the consultation for review.   *)
Unvalued(records, values) ==
    {c \in UNION {r.courses : r \in records} : c.id \notin DOMAIN values}

-----------------------------------------------------------------------------
One == Unit * Unit * Unit          \* the decimal 1 of a contribution
PointOne == One * Unit             \* the decimal 1 of a score

GradesOf(semesters) == {s.record.grade : s \in semesters}
TermOf(s) == <<s.record.grade, s.record.semester>>

(* The weights of the selected keys: all given, nothing of weight left     *)
(* out, and a sum of 1.                                                    *)
UsableWeights(w, keys) ==
    /\ \A k \in keys : w[k] # None
    /\ \A k \in DOMAIN w \ keys : w[k] \in {None, 0}
    /\ SumFunctionOnSet(w, keys) = Unit

(* _grade_components                                                       *)
GradeComponents(semesters, d) ==
    [g \in GradesOf(semesters) |->
       LET terms == {s \in semesters : s.record.grade = g}
       IN  [value |-> Average(SumFunction([s \in terms |-> s.value]), Cardinality(terms),
                              d.grade_rounding),
            weight |-> d.grade_weights[g] * Unit]]

(* _semester_components: one semester per term.                            *)
OnePerTerm(semesters) == \A s, t \in semesters : TermOf(s) = TermOf(t) => s = t
SemesterComponents(semesters, d) ==
    [s \in semesters |-> [value |-> s.value, weight |-> d.semester_weights[TermOf(s)] * Unit]]

(* _grade_within_semester_components                                       *)
UsableLocalWeights(semesters, d) ==
    /\ \A s \in semesters : d.semester_weights[TermOf(s)] # None
    /\ \A g \in GradesOf(semesters) :
         SumFunction([s \in {x \in semesters : x.record.grade = g} |->
                        d.semester_weights[TermOf(s)]]) = Unit
    /\ \A t \in Terms \ {TermOf(s) : s \in semesters} : d.semester_weights[t] \in {None, 0}
LocalComponents(semesters, d) ==
    [s \in semesters |->
       [value |-> s.value,
        weight |-> d.grade_weights[s.record.grade] * d.semester_weights[TermOf(s)]]]

(* The EQUAL weights: 1 divided by their number, in the decimal context.   *)
EqualComponents(semesters) ==
    [s \in semesters |-> [value |-> s.value,
                          weight |-> Divide(Unit * Unit, Cardinality(semesters))]]

(* _weighted_components, and when it does not raise.                       *)
WeightsFit(semesters, d) ==
    CASE d.weighting_mode = "EQUAL" -> Given(d.grade_weights) \cup Given(d.semester_weights) = {}
      [] d.weighting_mode = "GRADE_ONLY" ->
           /\ Given(d.semester_weights) = {}
           /\ UsableWeights(d.grade_weights, GradesOf(semesters))
      [] d.weighting_mode = "GLOBAL_SEMESTER" ->
           /\ Given(d.grade_weights) = {} /\ OnePerTerm(semesters)
           /\ UsableWeights(d.semester_weights, {TermOf(s) : s \in semesters})
      [] d.weighting_mode = "GRADE_WITHIN_SEMESTER" ->
           /\ UsableWeights(d.grade_weights, GradesOf(semesters))
           /\ UsableLocalWeights(semesters, d)
Components(semesters, d) ==
    CASE d.weighting_mode = "EQUAL" -> EqualComponents(semesters)
      [] d.weighting_mode = "GRADE_ONLY" -> GradeComponents(semesters, d)
      [] d.weighting_mode = "GLOBAL_SEMESTER" -> SemesterComponents(semesters, d)
      [] d.weighting_mode = "GRADE_WITHIN_SEMESTER" -> LocalComponents(semesters, d)

Aggregate(components) ==
    SumFunction([k \in DOMAIN components |-> components[k].value * components[k].weight])

-----------------------------------------------------------------------------
IsRankGrade(value) == value \in Unit..(9 * Unit)

(* The result of calculate_reflected_grade lies from 1 to 9.               *)
IsReflectedGrade(sum) == sum \in One..(9 * One)

(* _validate_reflected_grade_inputs: every counted course needs the rank   *)
(* grade of its own record.                                                *)
RankedThroughout(semesters) ==
    /\ \A s \in semesters : IsRankGrade(s.value)
    /\ \A s \in semesters : \A c \in s.record.courses : c.rank # None /\ IsRankGrade(c.rank)

(* calculate_reflected_grade: [unrounded, display] at scale Unit^3.        *)
ReflectedGrade(selection, d) ==
    LET sum == Aggregate(Components(selection.semesters, d))
    IN  IF /\ selection.status = "READY"
           /\ selection.scale \in {"RANK_GRADE", "DEMO_SYNTHETIC_RANK_GRADE"}
           /\ RankedThroughout(selection.semesters)
           /\ WeightsFit(selection.semesters, d)
           /\ \A k \in DOMAIN Components(selection.semesters, d) :
                IsRankGrade(Components(selection.semesters, d)[k].value)
           /\ IsReflectedGrade(sum)
           /\ d.display_digits # None => d.mode # "MANUAL_REVIEW"
        THEN [unrounded |-> sum,
              display |-> IF d.display_digits = None THEN sum
                          ELSE Quantize(sum, d.mode, Step(One, d.display_digits))]
        ELSE None

(* _transform_score, at scale Unit^4, for a transform that is not None     *)
Transformed(value, t) ==
    IF t.mode = "IDENTITY" THEN value * Unit ELSE t.base * One + t.multiplier * value

(* _apply_rounding                                                         *)
Rounded(score, d) ==
    LET kept == IF d.stage = "FINAL" THEN Quantize(score, d.mode, Step(PointOne, d.digits))
                ELSE score
    IN  [pre |-> score, final |-> kept,
         display |-> IF d.display_digits = None THEN kept
                     ELSE Quantize(kept, d.mode, Step(PointOne, d.display_digits))]

(* calculate_selected_score, with the attendance score or None             *)
SelectedScore(selection, d, attendance) ==
    LET score == Transformed(Aggregate(Components(selection.semesters, d)), d.transform)
                 + (IF attendance = None THEN 0 ELSE attendance.score * One)
    IN  IF /\ selection.status = "READY"
           /\ d.maximum_score # None /\ d.maximum_score > 0
           /\ WeightsFit(selection.semesters, d)
           /\ d.transform.mode # "MANUAL_REVIEW"
           /\ (d.attendance.included = TRUE) = (attendance # None)
           /\ score \in 0..(d.maximum_score * One)
           /\ d.stage # "MANUAL_REVIEW" /\ d.mode # "MANUAL_REVIEW"
           /\ d.stage = "FINAL" => d.digits # None
           /\ d.stage = "DISPLAY_ONLY" => d.display_digits # None
        THEN Rounded(score, d) ELSE None

=============================================================================
