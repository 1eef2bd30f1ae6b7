-------------------------- MODULE ScoreRuleSchema --------------------------
(***************************************************************************)
(* What a score rule may say: app/services/score_rule_schema.py.  A rule   *)
(* definition is a record of its settings, with None for a blank one.      *)
(* The text of codes, names and cells is left out; source_status is one of *)
(* "OFFICIAL" (a guide or plan of the university), "COMMON" (the common    *)
(* standard) and "OTHER".  validate_score_rule_payload guards every load   *)
(* of a rule; parse_score_rule_csv guards what the form and the CSV file   *)
(* may save as a draft.                                                    *)
(***************************************************************************)
EXTENDS Decimals, Sequences, FiniteSets, FiniteSetsExt, SequencesExt

CONSTANT None    \* a blank setting

Grades == 1..3
Terms == Grades \X (1..2)
InclusionFlags == {"home_1", "home_2", "home_3_1", "home_3_2", "voc", "voc_1", "voc_2"}
Sources == {"UNIVERSITY_OFFICIAL", "VERIFIED_REFERENCE", "INTERNAL_CALCULATION",
            "MANUAL_REVIEW"}

(* Weights: a function from grades or terms to a decimal or None.          *)
Given(w) == {k \in DOMAIN w : w[k] # None}
Total(w) == SumFunctionOnSet(w, Given(w))
InRange(w) == \A k \in Given(w) : w[k] \in 0..Unit
CompleteSum(w) == Given(w) = DOMAIN w /\ Total(w) = Unit
OfGrade(w, g) == [t \in {g} \X (1..2) |-> w[t]]

ValidWeightingMode_PairOnly(mode, grade, term) ==
    /\ InRange(grade) /\ InRange(term)
    /\ \/ mode = "EQUAL" /\ Given(grade) = {} /\ Given(term) = {}
       \/ mode = "GRADE_ONLY" /\ CompleteSum(grade) /\ Given(term) = {}
       \/ mode = "GLOBAL_SEMESTER" /\ Given(grade) = {} /\ Given(term) # {}
       \/ mode = "GRADE_WITHIN_SEMESTER" /\ CompleteSum(grade) /\ Given(term) # {}

(* _validate_weighting_mode                                                *)
ValidWeightingMode(mode, grade, term) ==
    /\ InRange(grade) /\ InRange(term)
    /\ \/ mode = "EQUAL" /\ Given(grade) = {} /\ Given(term) = {}
       \/ mode = "GRADE_ONLY" /\ CompleteSum(grade) /\ Given(term) = {}
       \/ mode = "GLOBAL_SEMESTER" /\ Given(grade) = {} /\ Given(term) # {}
          /\ Total(term) = Unit
       \/ mode = "GRADE_WITHIN_SEMESTER" /\ CompleteSum(grade) /\ Given(term) # {}
          /\ \A g \in Grades : Given(OfGrade(term, g)) # {} => CompleteSum(OfGrade(term, g))

(* _payload_count: the count of a selection method that needs one.         *)
ValidCount(count, method, counted) ==
    /\ count # None => count > 0
    /\ method \in counted => count # None

(* _validate_optional_rounding; a rounding is None or [mode, digits].      *)
ValidOptionalRounding(r) == r # None => r.mode \in RoundingModes /\ r.digits \in 0..12

(* _validate_score_transform                                               *)
ValidTransform(t) ==
    \/ t.mode = "IDENTITY" /\ t.base = None /\ t.multiplier = None
    \/ t.mode = "LINEAR" /\ t.base # None /\ t.multiplier # None
    \/ t.mode = "MANUAL_REVIEW"

(* _validate_z_score_settings                                              *)
ValidZScore(z) ==
    \/ z.policy = "NOT_USED"
       /\ {z.formula, z.rounding, z.clip_min, z.clip_max} = {None}
    \/ z.policy = "MANUAL_REVIEW"
    \/ /\ z.policy \in {"INTERNAL_CALCULATION", "TABLE_LOOKUP"}
       /\ z.formula = "STANDARD_Z_V1"
       /\ z.rounding # None /\ ValidOptionalRounding(z.rounding)
       /\ (z.clip_min = None) = (z.clip_max = None)
       /\ z.clip_min # None => z.clip_min < z.clip_max

(* _validate_achievement_settings                                          *)
ValidAchievement(a) ==
    /\ a.handling = "EXCLUDE" => {a.table, a.source, a.formula, a.scale} = {None}
    /\ a.handling = "GRADE_TABLE" =>
         a.table # None /\ a.source # None /\ a.formula = "TABLE_LOOKUP_V1" /\ a.scale = None
    /\ a.handling = "DISTRIBUTION" => None \notin {a.table, a.source, a.formula, a.scale}
    /\ a.formula = "CUMULATIVE_DISTRIBUTION_GRADE_V1" => a.scale = "PERCENT"

(* _validate_attendance_settings                                           *)
ValidAttendance(a) ==
    /\ a.unit # None => a.unit > 0
    /\ a.included = FALSE => {a.table, a.source, a.unit} = {None}
    /\ a.included = TRUE => None \notin {a.table, a.source, a.unit}

(* The rounding of the result, checked alike by both parsers.              *)
ValidRounding(d) ==
    /\ d.stage = "FINAL" => d.digits # None
    /\ d.stage = "DISPLAY_ONLY" => d.display_digits # None

(* The settings both parsers check with the same functions.                *)
ValidShared(d) ==
    /\ d.semester_scope = "PER_GRADE" => d.semester_method = "BEST_N"
    /\ d.minimum_credits # None => d.minimum_credits > 0
    /\ ValidOptionalRounding(d.semester_rounding) /\ ValidOptionalRounding(d.grade_rounding)
    /\ ValidWeightingMode(d.weighting_mode, d.grade_weights, d.semester_weights)
    /\ d.grade_rounding # None => d.weighting_mode = "GRADE_ONLY"
    /\ ValidAchievement(d.achievement) /\ ValidZScore(d.z) /\ ValidAttendance(d.attendance)
    /\ ValidRounding(d) /\ ValidTransform(d.transform)
    /\ d.z.policy = "TABLE_LOOKUP" => d.z.table # None
    /\ d.maximum_score # None => d.maximum_score > 0

(* validate_score_rule_payload                                             *)
ValidPayload(d) ==
    /\ ValidShared(d)
    /\ ValidCount(d.best_semester_count, d.semester_method, {"BEST_N", "FIRST_N", "RECENT_N"})
    /\ ValidCount(d.best_subject_count, d.subject_method, {"BEST_N"})

(* The counts of a row: only a method that needs one has it checked.       *)
RowCounts(d) ==
    /\ d.semester_method \in {"BEST_N", "FIRST_N", "RECENT_N"} =>
         d.best_semester_count # None /\ d.best_semester_count > 0
    /\ d.subject_method = "BEST_N" => d.best_subject_count # None /\ d.best_subject_count > 0

(* Settings a row must fill in unless the whole rule is left for review.   *)
RowComplete(row) ==
    row.level # "MANUAL_REVIEW" =>
      /\ row.has_evidence
      /\ \A f \in InclusionFlags : row.definition.included[f] # None
      /\ row.definition.credit_weighted # None /\ row.definition.attendance.included # None

(* "UNIVERSITY_OFFICIAL" needs a guide or plan of the university behind it. *)
RowSources(row) ==
    LET d == row.definition
    IN  /\ d.z.policy # "NOT_USED" => d.z.source # None
        /\ "UNIVERSITY_OFFICIAL" \in {d.z.source, d.achievement.source, d.attendance.source}
             => row.status = "OFFICIAL" /\ row.level = "UNIVERSITY_OFFICIAL"
        /\ row.level = "UNIVERSITY_OFFICIAL" => row.status = "OFFICIAL"
        /\ row.level = "COMMON_OFFICIAL" => row.status = "COMMON"

(* _parse_score_rule_row finds no issue in the row.                        *)
AcceptedRow(row) ==
    ValidShared(row.definition) /\ RowCounts(row.definition)
    /\ RowComplete(row) /\ RowSources(row)

(* parse_score_rule_csv: the rows kept of a file are the accepted ones     *)
(* whose business key no other accepted row has.                           *)
ParsedRows(rows) ==
    {i \in DOMAIN rows : /\ AcceptedRow(rows[i])
                         /\ \A j \in DOMAIN rows \ {i} :
                              AcceptedRow(rows[j]) => rows[j].key # rows[i].key}

(* A row of a Z score table: the interval [lo, hi] with None for an open   *)
(* end, and whether each bound belongs to it.                              *)
ValidTableRow(row) == row.lo # None /\ row.hi # None => row.lo < row.hi

(* Sorted by (z_min is not None, z_min or 0), ties in the order of the file *)
TableOrder(rows, i, j) ==
    LET k(n) == IF rows[n].lo = None THEN <<0, 0>> ELSE <<1, rows[n].lo>>
    IN  \/ k(i)[1] < k(j)[1]
        \/ k(i)[1] = k(j)[1] /\ k(i)[2] < k(j)[2]
        \/ k(i) = k(j) /\ i < j

Overlap_BoundsIgnored(last, row) ==
    \/ last.hi = None
    \/ row.lo = None
    \/ row.lo < last.hi

(* One row overlaps the row before it.                                     *)
Overlap(last, row) ==
    \/ last.hi = None
    \/ row.lo = None
    \/ row.lo < last.hi
    \/ row.lo = last.hi /\ last.hi_in /\ row.lo_in

(* Of the rows kept of a file, j comes right after i in their table.       *)
RightAfter(rows, kept, i, j) ==
    LET of == {n \in kept : rows[n].table = rows[i].table}
    IN  /\ j \in of /\ TableOrder(rows, i, j)
        /\ \A n \in of : ~(TableOrder(rows, i, n) /\ TableOrder(rows, n, j))

(* parse_z_score_table_csv: the rows kept of a file are the valid ones,    *)
(* but an overlap in any table rejects the whole file.                     *)
ParsedTable(rows) ==
    LET kept == {i \in DOMAIN rows : ValidTableRow(rows[i])}
    IN  IF \E i, j \in kept : RightAfter(rows, kept, i, j) /\ Overlap(rows[i], rows[j])
        THEN {} ELSE kept

=============================================================================
