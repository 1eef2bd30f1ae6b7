---------------------------- MODULE MCEvaluation ----------------------------
(* Small rules, records, tables and facts to evaluate.                     *)
EXTENDS Consultation

-----------------------------------------------------------------------------
(* Rules: a plain one, and the ways in which the others differ from it.    *)
NoWeights == [k \in Grades |-> None]
NoTerms == [t \in Terms |-> None]
Half == Unit \div 2
Weights(a, b, c) == <<a, b, c>>
TermWeights(w) == [t \in Terms |-> IF t \in DOMAIN w THEN w[t] ELSE None]

Plain ==
    [included |-> [f \in InclusionFlags |-> TRUE], value_direction |-> "LOWER_IS_BETTER",
     semester_method |-> "ALL", semester_scope |-> "GLOBAL", best_semester_count |-> None,
     subject_method |-> "ALL", best_subject_count |-> None, subject_scope |-> "ALL",
     credit_weighted |-> FALSE, minimum_credits |-> None,
     semester_rounding |-> None, grade_rounding |-> None,
     grade_weights |-> NoWeights, semester_weights |-> NoTerms, weighting_mode |-> "EQUAL",
     z |-> [policy |-> "NOT_USED", source |-> None, table |-> None, formula |-> None,
            rounding |-> None, clip_min |-> None, clip_max |-> None],
     achievement |-> [handling |-> "EXCLUDE", table |-> None, source |-> None,
                      formula |-> None, scale |-> None],
     attendance |-> [included |-> FALSE, table |-> None, source |-> None, unit |-> None],
     stage |-> "DISPLAY_ONLY", mode |-> "ROUND_HALF_UP", digits |-> None, display_digits |-> 1,
     transform |-> [mode |-> "LINEAR", base |-> 10 * Unit, multiplier |-> -Unit],
     maximum_score |-> 20 * Unit]

BestN(d, n, scope) ==
    [d EXCEPT !.semester_method = "BEST_N", !.best_semester_count = n, !.semester_scope = scope]
ByGrade(d, w) == [d EXCEPT !.weighting_mode = "GRADE_ONLY", !.grade_weights = w,
                           !.grade_rounding = [mode |-> "ROUND_HALF_UP", digits |-> 1]]
ByTerm(d, w) == [d EXCEPT !.weighting_mode = "GLOBAL_SEMESTER", !.semester_weights = TermWeights(w)]
Within(d, w, l) == [d EXCEPT !.weighting_mode = "GRADE_WITHIN_SEMESTER", !.grade_weights = w,
                             !.semester_weights = TermWeights(l)]
Credited(d) == [d EXCEPT !.credit_weighted = TRUE, !.minimum_credits = 2,
                         !.semester_rounding = [mode |-> "ROUND_HALF_EVEN", digits |-> 0]]
Subjects(d, n) == [d EXCEPT !.subject_method = "BEST_N", !.best_subject_count = n]
Official(d) == [d EXCEPT !.z = [policy |-> "TABLE_LOOKUP", source |-> "UNIVERSITY_OFFICIAL",
                                table |-> "z", formula |-> "STANDARD_Z_V1",
                                rounding |-> [mode |-> "ROUND_HALF_UP", digits |-> 0],
                                clip_min |-> -Unit, clip_max |-> Unit]]
Attended(d) == [d EXCEPT !.attendance = [included |-> TRUE, table |-> "a", unit |-> 3,
                                         source |-> "VERIFIED_REFERENCE"],
                         !.stage = "FINAL", !.digits = 0]

LocalHalves == [t \in {<<1, 1>>, <<1, 2>>, <<2, 1>>, <<2, 2>>} |-> Half]
Rules ==
    {Plain, Credited(Plain), BestN(Plain, 2, "GLOBAL"), BestN(Credited(Plain), 1, "PER_GRADE"),
     Subjects(Plain, 1), Attended(Plain),
     [Plain EXCEPT !.semester_method = "RECENT_N", !.best_semester_count = 2],
     [Plain EXCEPT !.semester_method = "FIRST_N", !.best_semester_count = 1,
                   !.subject_method = "SCOPE", !.subject_scope = "main"],
     [Plain EXCEPT !.included["home_2"] = None], [Plain EXCEPT !.credit_weighted = None],
     ByGrade(Plain, Weights(Half, Half, 0)), ByGrade(Plain, Weights(Unit, 0, 0)),
     ByGrade(BestN(Plain, 1, "PER_GRADE"), Weights(Half, Half, 0)),
     ByTerm(Plain, (<<1, 1>> :> Half) @@ (<<2, 1>> :> Half) @@ (<<1, 2>> :> 0)),
     ByTerm(Plain, <<1, 1>> :> Half),
     Within(Plain, Weights(Half, Half, 0), LocalHalves)}

(* Rows of a rule file: two keys, and what a row may get wrong.            *)
Row(key, d) == [key |-> key, definition |-> d, level |-> "UNIVERSITY_OFFICIAL",
                status |-> "OFFICIAL", has_evidence |-> TRUE]
DraftRows ==
    {Row(k, d) : k \in {"k1", "k2"},
       d \in Rules \cup {[Plain EXCEPT !.best_semester_count = 0], BestN(Plain, 0, "GLOBAL")}}
    \cup {[Row("k1", Attended(Plain)) EXCEPT !.status = "COMMON"],
          [Row("k1", Plain) EXCEPT !.level = "MANUAL_REVIEW", !.has_evidence = FALSE]}
DraftTasks == {[kind |-> "DRAFTS", rows |-> <<r, s>>] : r \in DraftRows, s \in DraftRows}

-----------------------------------------------------------------------------
(* Records: in each of four terms none, or one or two courses; and the     *)
(* same with a vocational, unverified or unranked record beside them.      *)
Course(id, rank, credits) ==
    [id |-> id, group |-> IF id % 2 = 0 THEN "main" ELSE None, credits |-> credits,
     rank |-> rank, z |-> None, verified |-> TRUE]
Record(id, term, courses) ==
    [id |-> id, year |-> 1, grade |-> term[1], semester |-> term[2],
     source |-> "HOME_SCHOOL_RECORD", training |-> FALSE, verified |-> TRUE, courses |-> courses]

Contents(id) == {{}, {Course(10 * id, Unit, 1)}, {Course(10 * id, 2 * Unit + Half, 3)},
                 {Course(10 * id, 4 * Unit, 2), Course(10 * id + 1, 2 * Unit + Half, 1)}}
HomeTerms == <<<<1, 1>>, <<1, 2>>, <<2, 1>>, <<2, 2>>>>
Histories ==
    {{Record(i, HomeTerms[i], c[i]) : i \in {j \in 1..4 : c[j] # {}}} :
       c \in Contents(1) \X Contents(2) \X Contents(3) \X Contents(4)}

Vocational == [Record(5, <<2, 1>>, {Course(50, 3 * Unit, 2)}) EXCEPT
                 !.source = "VOCATIONAL_TRAINING_RECORD", !.training = TRUE]
Manual == [Record(6, <<1, 2>>, {Course(60, Unit, 2)}) EXCEPT !.source = "MANUAL_INPUT"]
Draft == Record(7, <<3, 1>>, {[Course(70, 9 * Unit, 2) EXCEPT !.verified = FALSE],
                              Course(71, 3 * Unit, 2)})
Unverified == [Record(8, <<3, 2>>, {Course(80, Unit, 2)}) EXCEPT !.verified = FALSE]
ZCourse(raw) == [Course(90, None, 2) EXCEPT !.z = [raw |-> raw, mean |-> 50, deviation |-> 10]]
Unranked(raw) == Record(9, <<1, 1>>, {ZCourse(raw)})
Beside == {{}, {Vocational}, {Draft, Unverified}, {Manual, Vocational}}

ZRow(lo, hi, value) == [table |-> "z", lo |-> lo, hi |-> hi, lo_in |-> TRUE, hi_in |-> FALSE,
                        value |-> value, official |-> TRUE]
ZTable == {ZRow(None, 0, 3 * Unit), ZRow(0, None, Unit)}
AbsenceTable == {[table |-> "a", lo |-> 0, hi |-> 1, lo_in |-> TRUE, hi_in |-> TRUE,
                  value |-> 2 * Unit, maximum |-> 2 * Unit, official |-> FALSE],
                 [table |-> "a", lo |-> 2, hi |-> None, lo_in |-> TRUE, hi_in |-> TRUE,
                  value |-> Unit, maximum |-> 2 * Unit, official |-> FALSE]}
Absences == [counts |-> [absence |-> 1, late |-> 1, early |-> 1, class |-> 1],
             verified |-> TRUE, table |-> AbsenceTable]

ScoreTask(d, policy, history, table) ==
    [kind |-> "SCORE", d |-> d, policy |-> policy, records |-> history, table |-> table,
     attendance |-> IF d.attendance.included THEN Absences ELSE None]
ScoreTasks ==
    {ScoreTask(d, "VOCATIONAL_INCLUDED", h, {}) : d \in Rules, h \in Histories}
    \cup {ScoreTask(d, p, h \cup b, {}) : d \in {Plain, Within(Plain, Weights(Half, Half, 0), LocalHalves)},
            p \in Policies, b \in Beside,
            h \in {{Record(1, <<1, 1>>, c), Record(3, <<2, 1>>, e)} :
                     c \in Contents(1) \ {{}}, e \in Contents(3) \ {{}}}}
    \cup {ScoreTask(Official(Plain), "HOME_ONLY", {Unranked(raw), Record(3, <<2, 1>>, c)}, t) :
            raw \in {30, 50, 90}, c \in Contents(3) \ {{}}, t \in {{}, ZTable}}

-----------------------------------------------------------------------------
(* Eligibility: two facts of two values, conditions to depth two.          *)
Values == {TRUE, FALSE}
Leaf(f, v) == <<[op |-> "leaf", fact |-> f, holds |-> {v}]>>
Leaves == {Leaf(f, v) : f \in {"ged", "transferred"}, v \in Values}
Group(op, of) == [op |-> op, of |-> of]
Conditions == Leaves \cup {Append(l, Group("not", {1})) : l \in Leaves}
              \cup {Leaf("ged", u) \o Leaf("transferred", v)
                      \o <<Group("not", {2}), Group(op, {1, 3})>> :
                      op \in {"all", "any"}, u \in Values, v \in Values}
Case(c, s) == [when |-> c, status |-> s]
EligibilityTasks ==
    {[kind |-> k, facts |-> f, values |-> Values,
      rule |-> [cases |-> <<Case(a, "INELIGIBLE"), Case(b, "NEEDS_REVIEW")>>,
                default |-> "ELIGIBLE"]] :
       k \in {"ELIGIBILITY", "DISQUALIFICATION"}, a \in Conditions, b \in Conditions,
       f \in [{"ged", "transferred"} -> {TRUE, FALSE, Missing}]}

(* Applications: three tracks, of two campuses of one institution.         *)
Choice(t, c) == [track |-> t, institution |-> "i", campus |-> c]
ApplicationTasks ==
    {[kind |-> "APPLICATION", history |-> <<>>, policy |-> p,
      choices |-> {Choice("t1", "c1"), Choice("t2", "c1"), Choice("t3", "c2"),
                   [Choice("t1", "c1") EXCEPT !.institution = "j"]}] :
       p \in [total : {Unlimited, 2}, campus : {Unlimited, 1, 2}, forbidden : {{}, {{"t1", "t3"}}}]}

(* Z score table files of two rows of one table or of two, and of three    *)
(* rows with the same ends open.                                           *)
FileRows == {[table |-> t, lo |-> lo, hi |-> hi, lo_in |-> a, hi_in |-> b] :
               t \in {"z", "y"}, lo \in {None, 0, 1}, hi \in {None, 1, 2},
               a \in BOOLEAN, b \in BOOLEAN}
TableTasks ==
    {[kind |-> "TABLE", rows |-> <<r, s>>, points |-> -1..3] : r \in FileRows, s \in FileRows}
LongTableTasks ==
    LET rows == {ZRow(lo, hi, Unit) : lo \in {None, 0, 1, 2}, hi \in {None, 1, 2, 3}}
    IN  {[kind |-> "TABLE", rows |-> <<r, s, q>>, points |-> -1..3] :
           r \in rows, s \in rows, q \in rows}

(* Achievement: shares of three levels in tens of percent.                 *)
CumulativeTable(cut) ==
    {[table |-> "c", level |-> "B", key |-> "CUMULATIVE", lo |-> None, hi |-> cut * Unit,
      lo_in |-> TRUE, hi_in |-> TRUE, value |-> Unit, official |-> TRUE],
     [table |-> "c", level |-> "B", key |-> "CUMULATIVE", lo |-> cut * Unit, hi |-> None,
      lo_in |-> FALSE, hi_in |-> TRUE, value |-> 2 * Unit, official |-> TRUE]}
AchievementTasks ==
    {[kind |-> "ACHIEVEMENT", table |-> CumulativeTable(cut),
      shares |-> [A |-> a * Unit, B |-> b * Unit, C |-> (100 - a - b) * Unit],
      settings |-> [handling |-> "DISTRIBUTION", table |-> "c", source |-> "UNIVERSITY_OFFICIAL",
                    formula |-> "CUMULATIVE_DISTRIBUTION_GRADE_V1", scale |-> "PERCENT"]] :
       cut \in {30, 60}, a \in {0, 20, 40}, b \in {0, 10, 50}}

-----------------------------------------------------------------------------
(* Batches: a track with a built-in rule of two texts, and one without;    *)
(* an eligibility rule that admits the student and one that does not.      *)
MCFacts == [ged |-> FALSE, transferred |-> FALSE]
Admits == [cases |-> <<Case(Leaf("ged", TRUE), "INELIGIBLE")>>, default |-> "ELIGIBLE"]
Refuses == [cases |-> <<Case(Leaf("ged", FALSE), "INELIGIBLE")>>, default |-> "ELIGIBLE"]
ScoreRow(t, d) == [track |-> t, d |-> d, text |-> "published", table |-> {}]
Offer(e, p, s) == [eligibility |-> e, scope |-> p, score |-> s]
BuiltIn(text, status) == [text |-> text, status |-> status, eligibility |-> Admits,
                          scope |-> "VOCATIONAL_INCLUDED", d |-> Official(Plain), table |-> ZTable]

MCTracks == {"t1", "t2"}
MCOffers ==
    [t1 |-> {Offer(e, "HOME_ONLY", s) : e \in {None, Admits, Refuses}, s \in {None, ScoreRow("t1", Plain)}}
            \cup {Offer(Admits, None, ScoreRow("t1", Plain)), Offer(Admits, "HOME_ONLY", ScoreRow("t2", Plain))},
     t2 |-> {Offer(Admits, "HOME_ONLY", s) : s \in {None, ScoreRow("t2", BestN(Plain, 1, "GLOBAL"))}}]
MCBuiltIns ==
    [t1 |-> {BuiltIn("x", "VERIFIED_SOURCE"), BuiltIn("y", "VERIFIED_SOURCE"), BuiltIn("z", "NEEDS_REVIEW")},
     t2 |-> {None}]
MCImported ==
    [t1 |-> [basis |-> "RANK_GRADE", direction |-> "LOWER_IS_BETTER", same_year |-> TRUE, rule |-> "x"],
     t2 |-> None]
MCRecordSets ==
    {{Record(1, <<1, 1>>, {Course(10, 2 * Unit, 1)})},
     {Record(1, <<1, 1>>, {Course(10, Unit, 1)}), Record(2, <<1, 2>>, {ZCourse(90)})}}

AllTasks == ScoreTasks \cup EligibilityTasks \cup ApplicationTasks \cup TableTasks \cup LongTableTasks
            \cup AchievementTasks \cup DraftTasks \cup {[kind |-> "BATCH"]}

=============================================================================
