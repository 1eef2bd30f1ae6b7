------------------------------ MODULE Decimals ------------------------------
(***************************************************************************)
(* Fixed-point decimals for the score rules.  The code computes with       *)
(* Python Decimal in a context of 28 digits that rounds half to even; here *)
(* a decimal x is the integer x * Unit, so that Unit bounds the digits a   *)
(* division keeps.  Sums and products are exact in both: a product of two  *)
(* decimals is kept at the scale Unit * Unit and never rounded.            *)
(***************************************************************************)
EXTENDS Integers

CONSTANT Unit    \* the integer that stands for the decimal 1 (bound on digits)

ASSUME UnitAssumption == Unit \in {10, 100, 1000}

RoundingModes == {"ROUND_HALF_UP", "ROUND_HALF_EVEN", "ROUND_DOWN", "ROUND_UP", "TRUNCATE"}

(* a / b in the decimal context: the nearest representable value, ties to  *)
(* the even one.                                                           *)
Divide(a, b) ==
    LET q == a \div b
        r == 2 * (a % b)
    IN  IF r > b \/ (r = b /\ q % 2 = 1) THEN q + 1 ELSE q

(* (a / b).quantize(Decimal(1).scaleb(-scale), rounding=mode), where step  *)
(* is the weight of the last digit kept; the quotient is taken exactly, as *)
(* 28 digits do for the operands of a rule.                                *)
QuantizeRatio(a, b, mode, step) ==
    LET m == IF a < 0 THEN -a ELSE a
        unit == b * step
        q == m \div unit
        r == 2 * (m % unit)
        away == \/ mode = "ROUND_HALF_UP" /\ r >= unit
                \/ mode = "ROUND_HALF_EVEN" /\ (r > unit \/ (r = unit /\ q % 2 = 1))
                \/ mode = "ROUND_UP" /\ r > 0
        n == (IF away THEN q + 1 ELSE q) * step
    IN  IF a < 0 THEN -n ELSE n

Quantize(x, mode, step) == QuantizeRatio(x, 1, mode, step)

(* The weight of the last digit when a decimal at scale `one` keeps `digits` *)
Step(one, digits) == one \div 10^digits

=============================================================================
