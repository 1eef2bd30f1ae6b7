-------------------------- MODULE ScoreConversion --------------------------
(***************************************************************************)
(* Values a course or an attendance record is converted to by a table of   *)
(* the university: score_conversion.py (Z scores) and score_components.py  *)
(* (achievement levels and attendance).  Every conversion answers None     *)
(* where the code raises.  Tables are sets of rows; a row is               *)
(* [table, lo, hi, lo_in, hi_in, value, official] with None for an open    *)
(* end, and for achievement also [level, key].                             *)
(*                                                                         *)
(* app/ calls the Z score conversion for the built-in rules; achievement   *)
(* and attendance conversion are called by the tests only.                 *)
(***************************************************************************)
EXTENDS ScoreRuleSchema

(* _contains, _decimal_range_contains                                      *)
InInterval(row, x) ==
    /\ row.lo = None \/ x > row.lo \/ (row.lo_in /\ x = row.lo)
    /\ row.hi = None \/ x < row.hi \/ (row.hi_in /\ x = row.hi)

(* The source of a rule may call itself official only with official rows.  *)
Evidenced(source, row) == source = "UNIVERSITY_OFFICIAL" => row.official

(* The one row of a table that applies, or None.                           *)
OnlyRow(rows) == IF Cardinality(rows) = 1 THEN CHOOSE r \in rows : TRUE ELSE None

(* The Z score the table is asked for: rounded first, then clipped.        *)
AppliedZ(z, settings) ==
    LET rounded == QuantizeRatio((z.raw - z.mean) * Unit, z.deviation, settings.rounding.mode,
                                 Step(Unit, settings.rounding.digits))
    IN  CASE settings.clip_min # None /\ rounded < settings.clip_min -> settings.clip_min
          [] settings.clip_max # None /\ rounded > settings.clip_max -> settings.clip_max
          [] OTHER -> rounded

(* convert_z_score_for_rule, with convert_z_score                          *)
ConvertZ(z, settings, table) ==
    LET usable == /\ settings.policy = "TABLE_LOOKUP"
                  /\ None \notin {settings.table, settings.source, settings.rounding}
                  /\ settings.source # "MANUAL_REVIEW"
                  /\ z # None /\ z.deviation > 0
        row == OnlyRow({r \in table : /\ r.table = settings.table
                                      /\ InInterval(r, AppliedZ(z, settings))})
    IN  IF usable /\ row # None /\ Evidenced(settings.source, row) THEN row.value ELSE None

-----------------------------------------------------------------------------
(* _validate_distribution: shares of the levels that add up to the whole.  *)
ValidDistribution(shares, scale) ==
    /\ shares # None
    /\ \A level \in DOMAIN shares : shares[level] >= 0
    /\ SumFunction(shares) = (IF scale = "RATIO" THEN Unit ELSE 100 * Unit)

(* The levels at or above a level of the cumulative formula.               *)
LevelsTo == [A |-> {"A"}, B |-> {"A", "B"}, C |-> {"A", "B", "C"}]

Cumulative(shares, level) == SumFunctionOnSet(shares, LevelsTo[level])

(* _convert_cumulative_distribution                                        *)
ConvertCumulative(level, shares, settings, table) ==
    LET prior == IF level = "B" THEN "A" ELSE "B"
        rows == {r \in table : r.table = settings.table}
        row == IF level = "A"
               THEN (IF rows = {} THEN None ELSE CHOOSE r \in rows : TRUE)
               ELSE OnlyRow({r \in rows : /\ r.key = "CUMULATIVE"
                                          /\ InInterval(r, Cumulative(shares, prior))})
    IN  IF /\ level \in DOMAIN LevelsTo /\ LevelsTo[level] \subseteq DOMAIN shares
           /\ row # None /\ Evidenced(settings.source, row)
        THEN (IF level = "A" THEN Unit ELSE row.value) + Divide(Cumulative(shares, level), 100)
        ELSE None

(* convert_achievement of a course without a "P" mark                      *)
ConvertAchievement(level, shares, settings, table) ==
    LET rows == {r \in table : r.table = settings.table /\ r.level = level}
        row == IF settings.handling = "GRADE_TABLE"
               THEN OnlyRow({r \in rows : r.key = None /\ r.lo = None /\ r.hi = None})
               ELSE OnlyRow({r \in rows : /\ r.key \in DOMAIN shares
                                          /\ InInterval(r, shares[r.key])})
    IN  IF \/ level = None \/ settings.handling \notin {"GRADE_TABLE", "DISTRIBUTION"}
           \/ settings.source = "MANUAL_REVIEW"
           \/ settings.handling = "DISTRIBUTION" /\ ~ValidDistribution(shares, settings.scale)
        THEN None
        ELSE IF settings.formula = "CUMULATIVE_DISTRIBUTION_GRADE_V1"
        THEN ConvertCumulative(level, shares, settings, table)
        ELSE IF row # None /\ Evidenced(settings.source, row) THEN row.value ELSE None

-----------------------------------------------------------------------------
(* Minor events of every kind together make up days of absence.            *)
EquivalentAbsences(counts, unit) ==
    counts.absence + (counts.late + counts.early + counts.class) \div unit

(* convert_attendance: [score, maximum] or None.  A row is [table, lo, hi, *)
(* lo_in, hi_in, value, maximum, official].                                *)
ConvertAttendance(counts, verified, settings, table) ==
    LET row == OnlyRow({r \in table : /\ r.table = settings.table
                                      /\ InInterval(r, EquivalentAbsences(counts, settings.unit))})
    IN  IF /\ verified /\ settings.source # "MANUAL_REVIEW"
           /\ \A k \in DOMAIN counts : counts[k] # None
           /\ row # None /\ row.maximum > 0 /\ row.value \in 0..row.maximum
           /\ Evidenced(settings.source, row)
        THEN [score |-> row.value, maximum |-> row.maximum] ELSE None

=============================================================================
