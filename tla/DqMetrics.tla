----------------------------- MODULE DqMetrics -----------------------------
(***************************************************************************)
(* The arithmetic of src/src/oracle_mcp/dq.py: the metrics of one rule     *)
(* execution and the trend against a baseline.  Percentages are carried in *)
(* hundredths of a percent, the precision round(x, 2) and NUMBER(7,2) keep.*)
(***************************************************************************)
EXTENDS Integers

Percentages == 0..10000

\* Mutation: the percentage is cut off, not rounded.
CutOff(part, whole) == {(part * 10000) \div whole}

\* The values round(part / whole * 100, 2) may take.  The division is done in
\* binary floating point, so an exact half may go either way; every other
\* quotient has one nearest hundredth.
Rounded(part, whole) ==
    LET q == (part * 10000) \div whole
        r == (part * 10000) % whole
    IN  {p \in {q, q + 1} : IF p = q THEN 2 * r <= whole ELSE 2 * r >= whole}

\* calculate_metrics refuses negative counts and more failures than records.
CountsAreValid(total, failed) ==
    total >= 0 /\ failed >= 0 /\ failed <= total

\* An empty population reports no failures.
FailurePercentages(total, failed) ==
    IF total = 0 THEN {0} ELSE Rounded(failed, total)

\* Mutation: the pass rate is taken of the failed records.
PassOfFailed(total, failed) ==
    IF total = 0 THEN {10000} ELSE Rounded(failed, total)

\* 100.0 - failure_percentage, rounded on its own.
PassPercentages(total, failed) ==
    IF total = 0 THEN {10000} ELSE Rounded(total - failed, total)

\* severity_for, on the rate before it is rounded.  AtLeast compares the rate
\* with a whole percentage, exactly: 1, 5 and 10 percent survive the floating
\* point of failed / total * 100.  The rate of an empty population is 0.
AtLeast(total, failed, percent) ==
    total > 0 /\ failed * 100 >= percent * total

MoreThan(total, failed, percent) ==
    total > 0 /\ failed * 100 > percent * total

\* Mutation: the boundary value 10 is Critical.
CriticalFromTen(total, failed) ==
    CASE AtLeast(total, failed, 10) -> "Critical"
      [] AtLeast(total, failed, 5) /\ ~AtLeast(total, failed, 10) -> "High"
      [] AtLeast(total, failed, 1) /\ ~AtLeast(total, failed, 5)  -> "Medium"
      [] OTHER -> "Low"

\* Mutation: an empty population has no severity.
Unrated(total, failed) ==
    IF total = 0 THEN "None" ELSE CriticalFromTen(total, failed)

Severity(total, failed) ==
    CASE MoreThan(total, failed, 10) -> "Critical"
      [] AtLeast(total, failed, 5) /\ ~MoreThan(total, failed, 10) -> "High"
      [] AtLeast(total, failed, 1) /\ ~AtLeast(total, failed, 5)   -> "Medium"
      [] OTHER -> "Low"

TrendStatuses == {"BASELINE", "DETERIORATED", "IMPROVED", "STABLE"}

\* trend_from with a previous percentage; without one the status is BASELINE.
TrendFrom(current, old) ==
    CASE current > old -> "DETERIORATED"
      [] current < old -> "IMPROVED"
      [] OTHER         -> "STABLE"
=============================================================================
