--------------------------- MODULE DqReportProofs ---------------------------
(***************************************************************************)
(* Proofs about DqReport: the scores that executions store are right for   *)
(* any counts, a report leaves out what its row limit leaves out and       *)
(* nothing else, its overall score lies between those of its rules, and    *)
(* every mail is the image of its call's report.                           *)
(***************************************************************************)
EXTENDS DqReport, FiniteSetTheorems, TLAPS

-----------------------------------------------------------------------------
(* The arithmetic of one score *)

\* A percentage is a natural number of hundredths.
LEMMA PercentagesAreNumbers ==
  ASSUME NEW p \in Percentages PROVE p \in Nat
BY DEF Percentages

\* Products of natural numbers, for leaves the arithmetic of which is not linear.
LEMMA Product ==
  ASSUME NEW a \in Nat, NEW b \in Nat PROVE a * b \in Nat
OBVIOUS

\* A product with a whole number of one factor.
LEMMA Scaled ==
  ASSUME NEW t \in Nat \ {0}, NEW a \in Int, NEW b \in Int
  PROVE  /\ a <= b => a * t <= b * t
         /\ a * t < b * t => a < b
         /\ a * t = b * t => a = b
OBVIOUS

\* p is the percentage of part in whole, to the nearest hundredth.
Nearest(p, part, whole) ==
    /\ p \in Percentages
    /\ 2 * (p * whole - part * 10000) <= whole
    /\ 2 * (part * 10000 - p * whole) <= whole

\* The values round(part / whole * 100, 2) may take are the nearest hundredths.
LEMMA RoundedIsNearest ==
  ASSUME NEW part \in Nat, NEW whole \in Nat \ {0}, part <= whole,
         NEW p \in Rounded(part, whole)
  PROVE  Nearest(p, part, whole)
<1> DEFINE n == part * 10000
           q == n \div whole
           r == n % whole
<1>1. /\ n \in Nat /\ q \in Int /\ r \in 0..whole - 1
      /\ n = whole * q + r
  OBVIOUS
<1>2. n <= whole * 10000
  BY <1>1
<1>3. q \in Nat /\ q <= 10000 /\ (q = 10000 => r = 0)
  BY <1>1, <1>2
<1>4. CASE p = q /\ 2 * r <= whole
  <2> HIDE DEF n, q, r
  <2>1. p * whole = whole * q
    BY <1>1, <1>4
  <2> QED
    BY <1>1, <1>3, <1>4, <2>1, SMTT(30) DEF Percentages, Nearest, n
<1>5. CASE p = q + 1 /\ 2 * r >= whole
  <2> HIDE DEF n, q, r
  <2>1. p * whole = whole * q + whole
    BY <1>1, <1>5
  <2>2. p \in Nat /\ p <= 10000
    BY <1>1, <1>3, <1>5
  <2> QED
    BY <1>1, <1>3, <1>5, <2>1, <2>2, SMTT(30) DEF Percentages, Nearest, n
<1> QED
  BY <1>4, <1>5 DEF Rounded

-----------------------------------------------------------------------------
(* The table: every stored score has the metrics of its counts *)

IsScore(s) ==
    /\ s.total \in Nat /\ s.failed \in Nat /\ s.failed <= s.total
    /\ s \in MetricsOf(s.total, s.failed)

ScoreInv == \A x \in summary : IsScore(x.score)

\* Both percentages of a score with records are nearest hundredths.
LEMMA NearestScore ==
  ASSUME NEW s, IsScore(s), s.total # 0
  PROVE  /\ Nearest(s.percent, s.failed, s.total)
         /\ Nearest(s.pass, s.total - s.failed, s.total)
<1>1. /\ s.percent \in Rounded(s.failed, s.total)
      /\ s.pass \in Rounded(s.total - s.failed, s.total)
  BY DEF IsScore, MetricsOf, FailurePercentages, PassPercentages
<1>2. /\ s.total \in Nat \ {0} /\ s.failed \in Nat /\ s.failed <= s.total
      /\ s.total - s.failed \in Nat /\ s.total - s.failed <= s.total
  BY DEF IsScore
<1> QED
  BY <1>1, <1>2, RoundedIsNearest

\* The score of an empty population.
LEMMA EmptyScore ==
  ASSUME NEW s, IsScore(s), s.total = 0
  PROVE  /\ s.percent = 0 /\ s.pass = 10000 /\ s.failed = 0
         /\ s.severity = "Low"
BY DEF IsScore, MetricsOf, FailurePercentages, PassPercentages, Severity,
       MoreThan, AtLeast

\* A score of valid counts is a record of Metrics.
LEMMA ScoreIsTyped ==
  ASSUME NEW s, IsScore(s) PROVE s \in Metrics
<1>1. s.total \in Nat /\ s.failed \in Nat /\ s.failed <= s.total
  BY DEF IsScore
<1>2. PICK p \in FailurePercentages(s.total, s.failed),
           q \in PassPercentages(s.total, s.failed) :
        s = [total |-> s.total, failed |-> s.failed, percent |-> p, pass |-> q,
             severity |-> Severity(s.total, s.failed)]
  BY DEF IsScore, MetricsOf
<1>3. p = s.percent /\ q = s.pass
  BY <1>2
<1>4. p \in Percentages /\ q \in Percentages
  <2>1. CASE s.total = 0
    <3>1. p = 0 /\ q = 10000
      BY <1>3, <2>1, EmptyScore
    <3> QED
      BY <3>1 DEF Percentages
  <2>2. CASE s.total # 0
    BY <1>3, <2>2, NearestScore DEF Nearest
  <2> QED
    BY <2>1, <2>2
<1>5. Severity(s.total, s.failed) \in Severities
  BY DEF Severity, Severities
<1> QED
  BY <1>1, <1>2, <1>4, <1>5 DEF Metrics

\* EIM_DQ_RECON_SUMMARY has one row of a rule in a run.
OneRowPerRule ==
    \A r, s \in summary : r.run = s.run /\ r.rule = s.rule => r = s

TableInv == IsFiniteSet(summary) /\ summary \subseteq Rows /\ ScoreInv /\ OneRowPerRule

\* An execution adds one row, of a run and rule the table does not hold.
LEMMA ExecutedRow ==
  ASSUME NEW run \in Runs, NEW rule \in Rules, Execute(run, rule)
  PROVE  \E s \in Rows : /\ summary' = summary \cup {s} /\ IsScore(s.score)
                         /\ s.run = run /\ s.rule = rule
                         /\ \A r \in summary : r.run # run \/ r.rule # rule
<1>1. PICK n \in Measured(rule) : \E score \in MetricsOf(n.total, n.failed) :
        summary' = summary \cup {[run |-> run, rule |-> rule, score |-> score]}
  BY DEF Execute
<1>2. PICK score \in MetricsOf(n.total, n.failed) :
        summary' = summary \cup {[run |-> run, rule |-> rule, score |-> score]}
  BY <1>1
<1>3. n.total \in Nat /\ n.failed \in Nat /\ n.failed <= n.total
  BY MeasuredAssumption
<1>4. score.total = n.total /\ score.failed = n.failed
  BY DEF MetricsOf
<1>5. IsScore(score) /\ score \in Metrics
  BY <1>3, <1>4, ScoreIsTyped DEF IsScore
<1> DEFINE s == [run |-> run, rule |-> rule, score |-> score]
<1>6. s \in Rows /\ s.run = run /\ s.rule = rule /\ s.score = score
  BY <1>5 DEF Rows
<1>7. \A r \in summary : r.run # run \/ r.rule # rule
  BY DEF Execute
<1> HIDE DEF s
<1> QED
  BY <1>2, <1>5, <1>6, <1>7 DEF s

\* No call of this module writes the table.
LEMMA StepKeepsTable ==
  ASSUME NEW c \in Calls, Step(c) \/ Crash(c) PROVE UNCHANGED summary
BY DEF Step, Crash, Begin, Refuse, Issue, Query, Report, Compose, Send,
       AuditMail, Reply

\* The table is finite, typed, and holds one row of each run and rule.
LEMMA TableAlways == Spec => []TableInv
<1>1. Init => TableInv
  BY FS_EmptySet DEF Init, TableInv, ScoreInv, OneRowPerRule
<1>2. TableInv /\ [Next]_vars => TableInv'
  <2> SUFFICES ASSUME TableInv, [Next]_vars PROVE TableInv'
    OBVIOUS
  <2>1. ASSUME NEW run \in Runs, NEW rule \in Rules, Execute(run, rule)
        PROVE  TableInv'
    <3>1. PICK s \in Rows : /\ summary' = summary \cup {s} /\ IsScore(s.score)
                            /\ s.run = run /\ s.rule = rule
                            /\ \A r \in summary : r.run # run \/ r.rule # rule
      BY <2>1, ExecutedRow
    <3>2. IsFiniteSet(summary')
      BY <3>1, FS_AddElement DEF TableInv
    <3>3. ScoreInv' /\ OneRowPerRule' /\ summary' \subseteq Rows
      BY <3>1 DEF TableInv, ScoreInv, OneRowPerRule
    <3> QED
      BY <3>2, <3>3 DEF TableInv
  <2>2. CASE UNCHANGED summary
    BY <2>2 DEF TableInv, ScoreInv, OneRowPerRule
  <2> QED
    BY <2>1, <2>2, StepKeepsTable DEF Next, vars
<1> QED
  BY <1>1, <1>2, PTL DEF Spec

\* Every stored score has the metrics of its counts.
LEMMA ScoresAreMetrics == Spec => []ScoreInv
<1>1. TableInv => ScoreInv
  BY DEF TableInv
<1> QED
  BY <1>1, TableAlways, PTL

\* Every stored percentage is the nearest hundredth to failed / total * 100
\* (calculate_metrics, dq.py), for any counts.
THEOREM PercentagesAreNearest == Spec => []PercentageIsNearest
<1>1. ScoreInv => PercentageIsNearest
  <2> SUFFICES ASSUME NEW s, IsScore(s)
               PROVE  /\ s.percent \in Percentages
                      /\ 2 * Distance(s.percent * s.total, s.failed * 10000) <= s.total
    BY DEF ScoreInv, PercentageIsNearest, Scores
  <2>1. CASE s.total = 0
    <3>1. s.percent = 0 /\ s.failed = 0
      BY <2>1, EmptyScore
    <3>2. s.percent * s.total = 0 /\ s.failed * 10000 = 0
      BY <2>1, <3>1
    <3> QED
      BY <2>1, <3>1, <3>2 DEF Percentages, Distance
  <2>2. CASE s.total # 0
    <3>1. /\ s.total \in Nat /\ s.failed \in Nat /\ Nearest(s.percent, s.failed, s.total)
      BY <2>2, NearestScore DEF IsScore
    <3>2. s.percent \in Nat
      <4>1. s.percent \in Percentages
        BY <3>1 DEF Nearest
      <4> QED
        BY <4>1, PercentagesAreNumbers
    <3>3. s.percent * s.total \in Nat
      BY <3>1, <3>2, Product
    <3> QED
      BY <3>1, <3>2, <3>3 DEF Nearest, Distance
  <2> QED
    BY <2>1, <2>2
<1> QED
  BY <1>1, ScoresAreMetrics, PTL

\* Two nearest hundredths of complementary parts.
LEMMA Complements ==
  ASSUME NEW t \in Nat \ {0}, NEW f \in Nat, f <= t, NEW p, NEW q,
         Nearest(p, f, t), Nearest(q, t - f, t)
  PROVE  \/ p + q = 10000
         \/ Distance(p + q, 10000) = 1 /\ (2 * f * 10000) % t = 0
<1> DEFINE k == p + q - 10000
           d == p * t - f * 10000
           e == q * t - (t - f) * 10000
<1>1. /\ p \in Nat /\ q \in Nat /\ p * t \in Nat /\ q * t \in Nat
      /\ 2 * d <= t /\ -(2 * d) <= t /\ 2 * e <= t /\ -(2 * e) <= t
  BY DEF Nearest, Percentages
<1>2. k \in Int /\ k * t = d + e /\ d \in Int /\ e \in Int
  <2>1. (p + q - 10000) * t = p * t + q * t - 10000 * t
    BY <1>1
  <2> QED
    BY <1>1, <2>1
<1>3. k * t <= 1 * t /\ (-1) * t <= k * t
  BY <1>1, <1>2
<1> HIDE DEF k, d, e
<1>4. k \in {-1, 0, 1}
  <2>1. k <= 1
    BY <1>2, <1>3, Scaled
  <2>2. -1 <= k
    BY <1>2, <1>3, Scaled
  <2> QED
    BY <1>2, <2>1, <2>2
<1>5. CASE k = 0
  BY <1>1, <1>5 DEF k
<1>6. CASE k = 1 \/ k = -1
  <2>1. 2 * d = k * t
    BY <1>1, <1>2, <1>6
  <2>2. 2 * f * 10000 = t * (2 * p - k)
    <3>1. 2 * (p * t) = 2 * (f * 10000) + k * t
      BY <1>1, <1>2, <2>1 DEF d
    <3>2. t * (2 * p - k) = 2 * (p * t) - k * t
      BY <1>1, <1>2
    <3> QED
      BY <1>1, <1>2, <3>1, <3>2
  <2>3. (t * (2 * p - k)) % t = 0
    BY <1>1, <1>2
  <2>4. Distance(p + q, 10000) = 1
    BY <1>1, <1>6 DEF k, Distance
  <2> QED
    BY <2>2, <2>3, <2>4
<1> QED
  BY <1>4, <1>5, <1>6

\* The two percentages of a stored score add up to 100 but for two exact halves.
THEOREM PercentagesAddUpAlways == Spec => []PercentagesAddUp
<1>1. ScoreInv => PercentagesAddUp
  <2> SUFFICES ASSUME NEW s, IsScore(s)
               PROVE  \/ s.percent + s.pass = 10000
                      \/ Distance(s.percent + s.pass, 10000) = 1 /\ Slack(s) = 1
    BY DEF ScoreInv, PercentagesAddUp, Scores
  <2>1. CASE s.total = 0
    BY <2>1, EmptyScore
  <2>2. CASE s.total # 0
    <3>1. s.total \in Nat \ {0} /\ s.failed \in Nat /\ s.failed <= s.total
      BY <2>2 DEF IsScore
    <3> QED
      BY <2>2, <3>1, NearestScore, Complements DEF Slack
  <2> QED
    BY <2>1, <2>2
<1> QED
  BY <1>1, ScoresAreMetrics, PTL

\* How a nearest hundredth and the unrounded rate stand to a whole percentage.
LEMMA Thresholds ==
  ASSUME NEW t \in Nat \ {0}, NEW f \in Nat, NEW p, Nearest(p, f, t),
         NEW w \in {1, 5, 10}
  PROVE  /\ f * 100 >= w * t => p >= 100 * w
         /\ f * 100 <= w * t => p <= 100 * w
<1>1. p \in Nat /\ p * t \in Nat
  BY DEF Nearest, Percentages
<1>2. ASSUME f * 100 >= w * t PROVE p >= 100 * w
  <2>1. 2 * (p * t) >= 2 * (100 * (w * t)) - t
    BY <1>1, <1>2 DEF Nearest
  <2>2. (100 * w - 1) * t = 100 * (w * t) - t
    OBVIOUS
  <2>3. (100 * w - 1) * t < p * t
    BY <1>1, <2>1, <2>2
  <2>4. 100 * w - 1 < p
    BY <1>1, <2>3, Scaled
  <2> QED
    BY <1>1, <2>4
<1>3. ASSUME f * 100 <= w * t PROVE p <= 100 * w
  <2>1. 2 * (p * t) <= 2 * (100 * (w * t)) + t
    BY <1>1, <1>3 DEF Nearest
  <2>2. (100 * w + 1) * t = 100 * (w * t) + t
    OBVIOUS
  <2>3. p * t < (100 * w + 1) * t
    BY <1>1, <2>1, <2>2
  <2>4. p < 100 * w + 1
    BY <1>1, <2>3, Scaled
  <2> QED
    BY <1>1, <2>4
<1> QED
  BY <1>2, <1>3

\* The severity of the unrounded rate is the band of its nearest hundredth.
LEMMA NearestIsInBand ==
  ASSUME NEW t \in Nat \ {0}, NEW f \in Nat, NEW p, Nearest(p, f, t)
  PROVE  \/ Severity(t, f) = Band(p)
         \/ p \in {100, 500, 1000} /\ p * t # f * 10000
<1>1. p \in Nat /\ p * t \in Nat
  BY Product DEF Nearest, Percentages
<1> DEFINE At(w) == /\ f * 100 >= w * t => p >= 100 * w
                    /\ f * 100 <= w * t => p <= 100 * w
<1>2. \A w \in {1, 5, 10} : At(w)
  BY Thresholds
<1>3. At(1) /\ At(5) /\ At(10)
  <2> HIDE DEF At
  <2> QED
    BY <1>2
<1>4. /\ f * 100 >= 1 * t => p >= 100 * 1
      /\ f * 100 <= 1 * t => p <= 100 * 1
      /\ f * 100 >= 5 * t => p >= 100 * 5
      /\ f * 100 <= 5 * t => p <= 100 * 5
      /\ f * 100 >= 10 * t => p >= 100 * 10
      /\ f * 100 <= 10 * t => p <= 100 * 10
  BY <1>3
<1>5. CASE f * 100 > 10 * t
  BY <1>1, <1>4, <1>5 DEF Severity, MoreThan, AtLeast, Band
<1>6. CASE 5 * t <= f * 100 /\ f * 100 <= 10 * t
  BY <1>1, <1>4, <1>6 DEF Severity, MoreThan, AtLeast, Band
<1>7. CASE t <= f * 100 /\ f * 100 < 5 * t
  BY <1>1, <1>4, <1>7 DEF Severity, MoreThan, AtLeast, Band
<1>8. CASE f * 100 < t
  BY <1>1, <1>4, <1>8 DEF Severity, MoreThan, AtLeast, Band
<1> QED
  BY <1>1, <1>5, <1>6, <1>7, <1>8

\* The severity of a stored score is the band of its rounded percentage, but for
\* one that was rounded onto a boundary (severity_for, dq.py).
THEOREM SeverityIsTheBandAlways == Spec => []SeverityIsTheBand
<1>1. ScoreInv => SeverityIsTheBand
  <2> SUFFICES ASSUME NEW s, IsScore(s)
               PROVE  \/ s.severity = Band(s.percent)
                      \/ /\ s.percent \in {100, 500, 1000}
                         /\ s.percent * s.total # s.failed * 10000
    BY DEF ScoreInv, SeverityIsTheBand, Scores
  <2>1. CASE s.total = 0
    <3>1. s.severity = "Low" /\ s.percent = 0
      BY <2>1, EmptyScore
    <3>2. Band(0) = "Low"
      BY DEF Band
    <3> QED
      BY <3>1, <3>2
  <2>2. CASE s.total # 0
    <3>1. /\ s.total \in Nat \ {0} /\ s.failed \in Nat
          /\ Nearest(s.percent, s.failed, s.total)
      BY <2>2, NearestScore DEF IsScore
    <3>2. s.severity = Severity(s.total, s.failed)
      BY DEF IsScore, MetricsOf
    <3> QED
      BY <3>1, <3>2, NearestIsInBand
  <2> QED
    BY <2>1, <2>2
<1> QED
  BY <1>1, ScoresAreMetrics, PTL

-----------------------------------------------------------------------------
(* Sums over finite sets of rows *)

\* Induction over finite sets: where some finite sets are bad, one of them has no
\* bad proper subset.
LEMMA SmallestBadSet ==
  ASSUME NEW U, NEW Bad, Bad # {}, Bad \subseteq FiniteSubsetsOf(U)
  PROVE  \E T \in Bad : \A S \in SUBSET T : S # T => S \notin Bad
<1>1. IsWellFoundedOn(StrictSubsetOrdering(U), FiniteSubsetsOf(U))
  BY FS_StrictSubsetOrderingWellFounded
<1>2. PICK T \in Bad : \A y \in Bad : <<y, T>> \notin StrictSubsetOrdering(U)
  BY <1>1, WFMin
<1>3. T \in SUBSET U
  BY DEF FiniteSubsetsOf
<1> QED
  BY <1>2, <1>3 DEF StrictSubsetOrdering

\* The element a fold takes from a set, and those it leaves.
First(S) == CHOOSE x \in S : TRUE

Rest(S) == S \ {First(S)}

\* A non-empty set is its chosen element and the rest.
LEMMA FirstAndRest ==
  ASSUME NEW S, S # {}
  PROVE  /\ First(S) \in S /\ First(S) \notin Rest(S)
         /\ Rest(S) \subseteq S /\ Rest(S) # S
         /\ S = Rest(S) \cup {First(S)}
BY DEF First, Rest

\* g maps every part of S to the sum of a field.
Sums(g, field, S) ==
  g = [s \in SUBSET S |->
         IF s = {} THEN 0 ELSE First(s).score[field] + g[Rest(s)]]

Value(field, S) == (CHOOSE g : Sums(g, field, S))[S]

\* The fold that Sum expands to.
LEMMA SumIsValue ==
  ASSUME NEW rs, NEW field
  PROVE  Sum(rs, field) = Value(field, rs)
BY DEF Sum, MapThenSumSet, MapThenFoldSet, First, Rest, Sums, Value

\* What such a function is for each part of the set it is given.
LEMMA SumsAre ==
  ASSUME NEW g, NEW field, NEW S, Sums(g, field, S), NEW s \in SUBSET S
  PROVE  g[s] = IF s = {} THEN 0 ELSE First(s).score[field] + g[Rest(s)]
<1> DEFINE h == [t \in SUBSET S |->
         IF t = {} THEN 0 ELSE First(t).score[field] + g[Rest(t)]]
<1>1. g = h
  BY DEF Sums
<1>2. h[s] = IF s = {} THEN 0 ELSE First(s).score[field] + g[Rest(s)]
  OBVIOUS
<1> QED
  BY ONLY <1>1, <1>2

\* It sums up the parts of a part too.
LEMMA SumsOfPart ==
  ASSUME NEW g, NEW field, NEW S, Sums(g, field, S), NEW T \in SUBSET S
  PROVE  Sums([s \in SUBSET T |-> g[s]], field, T)
<1> DEFINE h == [s \in SUBSET T |-> g[s]]
<1>1. ASSUME NEW s \in SUBSET T
      PROVE  h[s] = IF s = {} THEN 0 ELSE First(s).score[field] + h[Rest(s)]
  <2>1. g[s] = IF s = {} THEN 0 ELSE First(s).score[field] + g[Rest(s)]
    BY SumsAre
  <2>2. Rest(s) \in SUBSET T
    BY DEF Rest
  <2> QED
    BY <2>1, <2>2
<1> DEFINE k == [s \in SUBSET T |->
          IF s = {} THEN 0 ELSE First(s).score[field] + h[Rest(s)]]
<1>2. h = k
  <2>1. \A s \in SUBSET T : h[s] = k[s]
    BY <1>1
  <2>2. h = [s \in SUBSET T |-> h[s]] /\ k = [s \in SUBSET T |-> k[s]]
    OBVIOUS
  <2> HIDE DEF h, k
  <2> QED
    BY <2>1, <2>2
<1> QED
  BY <1>2 DEF Sums

\* There is one sum.
LEMMA SumsAreUnique ==
  ASSUME NEW field, NEW S, IsFiniteSet(S),
         NEW g, Sums(g, field, S), NEW h, Sums(h, field, S)
  PROVE  g[S] = h[S]
<1> DEFINE Bad == {s \in SUBSET S : g[s] # h[s]}
<1> SUFFICES ASSUME Bad # {} PROVE FALSE
  OBVIOUS
<1>1. Bad \subseteq FiniteSubsetsOf(S)
  BY FS_Subset DEF FiniteSubsetsOf
<1>2. PICK T \in Bad : \A s \in SUBSET T : s # T => s \notin Bad
  <2> HIDE DEF Bad
  <2> QED
    BY ONLY <1>1, Bad # {}, SmallestBadSet, Zenon
<1>3. /\ g[T] = IF T = {} THEN 0 ELSE First(T).score[field] + g[Rest(T)]
      /\ h[T] = IF T = {} THEN 0 ELSE First(T).score[field] + h[Rest(T)]
  BY SumsAre
<1>4. T # {} => g[Rest(T)] = h[Rest(T)]
  BY <1>2, FirstAndRest
<1> QED
  BY <1>3, <1>4

\* Where such a function exists, its value is the element chosen and the rest.
LEMMA ValueStep ==
  ASSUME NEW field, NEW S, IsFiniteSet(S), \E g : Sums(g, field, S)
  PROVE  Value(field, S) =
           IF S = {} THEN 0 ELSE First(S).score[field] + Value(field, Rest(S))
<1> DEFINE g == CHOOSE f : Sums(f, field, S)
           h == CHOOSE f : Sums(f, field, Rest(S))
           k == [s \in SUBSET Rest(S) |-> g[s]]
<1>1. Sums(g, field, S)
  OBVIOUS
<1>2. Rest(S) \in SUBSET S /\ IsFiniteSet(Rest(S))
  BY FS_Subset DEF Rest
<1>3. Sums(k, field, Rest(S))
  BY <1>1, <1>2, SumsOfPart
<1>4. Sums(h, field, Rest(S))
  BY <1>3
<1>5. k[Rest(S)] = h[Rest(S)] 
  <2> HIDE DEF k, h
  <2> QED
    BY <1>2, <1>3, <1>4, SumsAreUnique
<1>6. g[S] = IF S = {} THEN 0 ELSE First(S).score[field] + g[Rest(S)]
  <2> HIDE DEF g
  <2> QED
    BY <1>1, SumsAre
<1>7. g[Rest(S)] = h[Rest(S)]
  BY <1>5
<1>8. Value(field, S) = g[S] /\ Value(field, Rest(S)) = h[Rest(S)]
  BY DEF Value
<1> HIDE DEF g, h, k
<1> QED
  BY <1>6, <1>7, <1>8

\* It exists for every finite set.
LEMMA SumsExist ==
  ASSUME NEW field, NEW S, IsFiniteSet(S)
  PROVE  \E g : Sums(g, field, S)
<1> DEFINE Bad == {s \in SUBSET S : ~ \E g : Sums(g, field, s)}
<1> SUFFICES ASSUME Bad # {} PROVE FALSE
  OBVIOUS
<1>1. Bad \subseteq FiniteSubsetsOf(S)
  BY FS_Subset DEF FiniteSubsetsOf
<1>2. PICK T \in Bad : \A s \in SUBSET T : s # T => s \notin Bad
  <2> HIDE DEF Bad
  <2> QED
    BY ONLY <1>1, Bad # {}, SmallestBadSet, Zenon
<1> DEFINE h == [s \in SUBSET T |->
                   IF s = {} THEN 0 ELSE First(s).score[field] + Value(field, Rest(s))]
           k == [s \in SUBSET T |->
                   IF s = {} THEN 0 ELSE First(s).score[field] + h[Rest(s)]]
<1>3. ASSUME NEW s \in SUBSET T, s # {} PROVE h[Rest(s)] = Value(field, Rest(s))
  <2>1. Rest(s) \in SUBSET T /\ Rest(s) # T
    BY <1>3, FirstAndRest
  <2>2. IsFiniteSet(Rest(s)) /\ \E g : Sums(g, field, Rest(s))
    BY <1>2, <2>1, FS_Subset
  <2> QED
    BY <2>1, <2>2, ValueStep
<1>4. h = k
  <2>1. \A s \in SUBSET T : h[s] = k[s]
    BY <1>3
  <2>2. h = [s \in SUBSET T |-> h[s]] /\ k = [s \in SUBSET T |-> k[s]]
    OBVIOUS
  <2> HIDE DEF h, k
  <2> QED
    BY <2>1, <2>2
<1>5. Sums(h, field, T)
  BY <1>4 DEF Sums
<1> QED
  BY <1>5

\* What Sum computes.
LEMMA SumOfRows ==
  ASSUME NEW field, NEW rs, IsFiniteSet(rs)
  PROVE  Sum(rs, field) =
           IF rs = {} THEN 0 ELSE First(rs).score[field] + Sum(Rest(rs), field)
BY SumIsValue, SumsExist, ValueStep

\* A finite set of rows with scores of valid counts.
AreScored(rs) == IsFiniteSet(rs) /\ \A r \in rs : IsScore(r.score)

\* An induction over scored rows goes from the rest to the whole.
LEMMA RestIsScored ==
  ASSUME NEW rs, AreScored(rs), rs # {}
  PROVE  AreScored(Rest(rs)) /\ IsScore(First(rs).score)
BY FirstAndRest, FS_Subset DEF AreScored

\* The sums of a report are valid counts: no negative ones, no more failures than
\* records.
LEMMA SumsAreCounts ==
  ASSUME NEW rs, AreScored(rs)
  PROVE  /\ Sum(rs, "total") \in Nat /\ Sum(rs, "failed") \in Nat
         /\ Sum(rs, "failed") <= Sum(rs, "total")
<1> DEFINE Good(s) == /\ Sum(s, "total") \in Nat /\ Sum(s, "failed") \in Nat
                      /\ Sum(s, "failed") <= Sum(s, "total")
           Bad == {s \in SUBSET rs : ~ Good(s)}
<1> SUFFICES ASSUME Bad # {} PROVE FALSE
  OBVIOUS
<1>1. Bad \subseteq FiniteSubsetsOf(rs)
  BY FS_Subset DEF FiniteSubsetsOf, AreScored
<1>2. PICK T \in Bad : \A s \in SUBSET T : s # T => s \notin Bad
  <2> HIDE DEF Bad
  <2> QED
    BY ONLY <1>1, Bad # {}, SmallestBadSet, Zenon
<1>3. AreScored(T)
  BY FS_Subset DEF AreScored
<1>4. CASE T = {}
  <2>1. Sum({}, "total") = 0 /\ Sum({}, "failed") = 0
    BY FS_EmptySet, SumOfRows
  <2>2. Good({})
    BY <2>1
  <2> HIDE DEF Good
  <2> QED
    BY <1>4, <2>2
<1>5. CASE T # {}
  <2>1. Good(Rest(T))
    BY <1>2, <1>5, FirstAndRest
  <2>2. IsScore(First(T).score)
    BY <1>3, <1>5, RestIsScored
  <2>3. /\ Sum(T, "total") = First(T).score.total + Sum(Rest(T), "total")
        /\ Sum(T, "failed") = First(T).score.failed + Sum(Rest(T), "failed")
    BY <1>3, <1>5, SumOfRows DEF AreScored
  <2> HIDE DEF Bad
  <2>4. Good(T)
    BY <2>1, <2>2, <2>3 DEF IsScore
  <2> QED
    BY <2>4 DEF Bad
<1> QED
  BY <1>4, <1>5

Fields == {"total", "failed"}

\* The summed counts, and those of each row, are natural numbers.
LEMMA SumsAreNumbers ==
  ASSUME NEW rs, AreScored(rs), NEW field \in Fields
  PROVE  Sum(rs, field) \in Nat /\ \A r \in rs : r.score[field] \in Nat
BY SumsAreCounts DEF Fields, AreScored, IsScore

\* The order of summation does not matter: a report adds the counts up in the order
\* of its query (render_markdown, dq.py), the model in any order.
THEOREM SumInAnyOrder ==
  ASSUME NEW rs, AreScored(rs), NEW field \in Fields, NEW r \in rs
  PROVE  Sum(rs, field) = r.score[field] + Sum(rs \ {r}, field)
<1> DEFINE Good(s) == \A t \in s : Sum(s, field) = t.score[field] + Sum(s \ {t}, field)
           Bad == {s \in SUBSET rs : ~ Good(s)}
<1> SUFFICES ASSUME Bad # {} PROVE FALSE
  OBVIOUS
<1>1. Bad \subseteq FiniteSubsetsOf(rs)
  BY FS_Subset DEF FiniteSubsetsOf, AreScored
<1>2. PICK T \in Bad : \A s \in SUBSET T : s # T => s \notin Bad
  <2> HIDE DEF Bad
  <2> QED
    BY ONLY <1>1, Bad # {}, SmallestBadSet, Zenon
<1>3. ASSUME NEW s \in SUBSET rs
      PROVE  /\ Sum(s, field) \in Nat /\ \A t \in s : t.score[field] \in Nat
             /\ s # {} => Sum(s, field) = First(s).score[field] + Sum(Rest(s), field)
  <2>1. AreScored(s)
    BY FS_Subset DEF AreScored
  <2> QED
    BY <2>1, SumsAreNumbers, SumOfRows DEF AreScored
<1>4. PICK t \in T : Sum(T, field) # t.score[field] + Sum(T \ {t}, field)
  BY <1>2
<1> DEFINE f == First(T)
<1>5. f \in T /\ Sum(T, field) = f.score[field] + Sum(T \ {f}, field)
  BY <1>3, <1>4, FirstAndRest DEF Rest
<1>6. f # t
  BY <1>4, <1>5
<1>7. T \ {f} # T /\ T \ {t} # T
  BY <1>5
<1>8. Sum(T \ {f}, field) = t.score[field] + Sum((T \ {f}) \ {t}, field)
  <2>1. T \ {f} \in SUBSET T /\ t \in T \ {f}
    BY <1>6
  <2> HIDE DEF f
  <2> QED
    BY <1>2, <1>7, <2>1
<1>9. Sum(T \ {t}, field) = f.score[field] + Sum((T \ {t}) \ {f}, field)
  <2>1. T \ {t} \in SUBSET T /\ f \in T \ {t}
    BY <1>5, <1>6
  <2> HIDE DEF f
  <2> QED
    BY <1>2, <1>7, <2>1
<1>10. (T \ {t}) \ {f} = (T \ {f}) \ {t}
  OBVIOUS
<1>11. /\ t.score[field] \in Nat /\ f.score[field] \in Nat
       /\ Sum((T \ {f}) \ {t}, field) \in Nat
  BY <1>2, <1>3, <1>5
<1> HIDE DEF f, Bad
<1> QED
  BY <1>4, <1>5, <1>8, <1>9, <1>10, <1>11

\* A weighing of the two counts that is negative for every row with records is
\* negative for the sums.
LEMMA SumsAreWeighed ==
  ASSUME NEW rs, AreScored(rs), NEW a \in Int, NEW b \in Int,
         \A r \in rs : r.score.total > 0 => a * r.score.failed + b * r.score.total < 0
  PROVE  Sum(rs, "total") > 0 => a * Sum(rs, "failed") + b * Sum(rs, "total") < 0
<1> DEFINE Good(s) ==
      Sum(s, "total") > 0 => a * Sum(s, "failed") + b * Sum(s, "total") < 0
           Bad == {s \in SUBSET rs : ~ Good(s)}
<1> SUFFICES ASSUME Bad # {} PROVE FALSE
  OBVIOUS
<1>1. Bad \subseteq FiniteSubsetsOf(rs)
  BY FS_Subset DEF FiniteSubsetsOf, AreScored
<1>2. PICK T \in Bad : \A s \in SUBSET T : s # T => s \notin Bad
  <2> HIDE DEF Bad
  <2> QED
    BY ONLY <1>1, Bad # {}, SmallestBadSet, Zenon
<1>3. AreScored(T)
  BY FS_Subset DEF AreScored
<1>4. CASE T = {}
  <2>1. Sum({}, "total") = 0 /\ Sum({}, "failed") = 0
    BY FS_EmptySet, SumOfRows
  <2>2. Good({})
    BY <2>1
  <2> HIDE DEF Good
  <2> QED
    BY <1>4, <2>2
<1>5. CASE T # {}
  <2> DEFINE F == First(T).score.failed
             W == First(T).score.total
             f == Sum(Rest(T), "failed")
             w == Sum(Rest(T), "total")
  <2>1. w > 0 => a * f + b * w < 0
    BY <1>2, <1>5, FirstAndRest
  <2>2. AreScored(Rest(T)) /\ IsScore(First(T).score)
    BY <1>3, <1>5, RestIsScored
  <2>3. F \in Nat /\ W \in Nat /\ F <= W /\ f \in Nat /\ w \in Nat /\ f <= w
    BY <2>2, SumsAreCounts DEF IsScore
  <2>4. Sum(T, "total") = W + w /\ Sum(T, "failed") = F + f
    BY <1>3, <1>5, SumOfRows DEF AreScored
  <2>5. W > 0 => a * F + b * W < 0
    BY <1>5, FirstAndRest
  <2> HIDE DEF Bad, F, W, f, w
  <2>6. a * (F + f) + b * (W + w) = (a * F + b * W) + (a * f + b * w)
    BY <2>3
  <2>7. ASSUME W + w > 0 PROVE (a * F + b * W) + (a * f + b * w) < 0
    <3>1. a * F + b * W \in Int /\ a * f + b * w \in Int
      BY <2>3
    <3>2. W = 0 => a * F + b * W = 0
      BY <2>3
    <3>3. w = 0 => a * f + b * w = 0
      BY <2>3
    <3>4. W > 0 \/ W = 0
      BY <2>3
    <3>5. w > 0 \/ w = 0
      BY <2>3
    <3> QED
      BY <2>1, <2>3, <2>5, <2>7, <3>1, <3>2, <3>3, <3>4, <3>5
  <2>8. Good(T)
    BY <2>4, <2>6, <2>7
  <2> QED
    BY <2>8 DEF Bad
<1> QED
  BY <1>4, <1>5

\* Of rows with records, one has at most the failure rate of the sums, one at least.
LEMMA RatesSpan ==
  ASSUME NEW rs, AreScored(rs), Sum(rs, "total") > 0
  PROVE  /\ \E r \in rs : /\ r.score.total > 0
                          /\ r.score.failed * Sum(rs, "total")
                               <= Sum(rs, "failed") * r.score.total
         /\ \E r \in rs : /\ r.score.total > 0
                          /\ r.score.failed * Sum(rs, "total")
                               >= Sum(rs, "failed") * r.score.total
<1> DEFINE A == Sum(rs, "failed")
           B == Sum(rs, "total")
<1>1. A \in Nat /\ B \in Nat
  BY SumsAreCounts
<1>2. ASSUME NEW r \in rs PROVE r.score.failed \in Nat /\ r.score.total \in Nat
  BY DEF AreScored, IsScore
<1> HIDE DEF A, B
<1>3. ASSUME \A r \in rs : r.score.total > 0 =>
               ~ (r.score.failed * B <= A * r.score.total)
      PROVE  FALSE
  <2>1. ASSUME NEW r \in rs, r.score.total > 0
        PROVE  (-B) * r.score.failed + A * r.score.total < 0
    BY <1>1, <1>2, <1>3, <2>1
  <2> DEFINE m == -B
  <2>2. m \in Int /\ A \in Int
    BY <1>1
  <2>3. \A r \in rs : r.score.total > 0 => m * r.score.failed + A * r.score.total < 0
    BY <2>1
  <2> HIDE DEF m
  <2>4. m * A + A * B < 0
    BY <2>2, <2>3, SumsAreWeighed DEF A, B
  <2> QED
    BY <1>1, <2>4 DEF m
<1>4. ASSUME \A r \in rs : r.score.total > 0 =>
               ~ (r.score.failed * B >= A * r.score.total)
      PROVE  FALSE
  <2>1. ASSUME NEW r \in rs, r.score.total > 0
        PROVE  B * r.score.failed + (-A) * r.score.total < 0
    BY <1>1, <1>2, <1>4, <2>1
  <2> DEFINE m == -A
  <2>2. m \in Int /\ B \in Int
    BY <1>1
  <2>3. \A r \in rs : r.score.total > 0 => B * r.score.failed + m * r.score.total < 0
    BY <2>1
  <2> HIDE DEF m
  <2>4. B * A + m * B < 0
    BY <2>2, <2>3, SumsAreWeighed DEF A, B
  <2> QED
    BY <1>1, <2>4 DEF m
<1> QED
  BY <1>3, <1>4 DEF A, B

-----------------------------------------------------------------------------
(* The overall score against those of the rules *)

\* p and w are the nearest hundredths of f / t and of a / b, and f / t is not above
\* a / b: neither is p above w, unless a / b is an exact half that was rounded down.
LEMMA NearestOfLower ==
  ASSUME NEW t \in Nat \ {0}, NEW f \in Nat, NEW p, Nearest(p, f, t),
         NEW b \in Nat \ {0}, NEW a \in Nat, NEW w, Nearest(w, a, b),
         f * b <= a * t
  PROVE  p <= w \/ (p = w + 1 /\ (2 * a * 10000) % b = 0)
<1>1. p \in Nat /\ w \in Nat /\ p * t \in Nat /\ w * b \in Nat
  BY Product DEF Nearest, Percentages
<1> DEFINE u == 2 * p - 1
           v == 2 * w + 1
           h == 2 * a * 10000
<1>2. u \in Int /\ v \in Int /\ h \in Int /\ 20000 * f \in Int
  BY <1>1
<1>3. u * t <= 20000 * f
  BY <1>1 DEF Nearest
<1>4. h <= v * b
  BY <1>1 DEF Nearest
<1>5. (u * t) * b <= (20000 * f) * b
  <2>1. u * t \in Int
    BY <1>2
  <2> QED
    BY <1>2, <1>3, <2>1, Scaled
<1>6. (u * b) * t <= h * t
  BY <1>1, <1>5
<1>7. u * b <= h
  <2>1. u * b \in Int
    BY <1>2
  <2> HIDE DEF u, h
  <2> QED
    BY <1>2, <1>6, <2>1
<1>8. u * b <= v * b
  BY <1>2, <1>4, <1>7
<1>9. u <= v
  BY <1>2, <1>8
<1>10. ASSUME p = w + 1 PROVE (2 * a * 10000) % b = 0
  <2>1. h = v * b
    BY <1>2, <1>4, <1>7, <1>10, <1>1
  <2>2. (b * v) % b = 0
    BY <1>2
  <2>3. b * v = v * b
    BY <1>2
  <2> QED
    BY <2>1, <2>2, <2>3
<1> QED
  BY <1>1, <1>9, <1>10

\* The same for a rate f / t that is not below a / b.
LEMMA NearestOfHigher ==
  ASSUME NEW t \in Nat \ {0}, NEW f \in Nat, NEW p, Nearest(p, f, t),
         NEW b \in Nat \ {0}, NEW a \in Nat, NEW w, Nearest(w, a, b),
         f * b >= a * t
  PROVE  p >= w \/ (p = w - 1 /\ (2 * a * 10000) % b = 0)
<1>1. p \in Nat /\ w \in Nat /\ p * t \in Nat /\ w * b \in Nat
  BY Product DEF Nearest, Percentages
<1> DEFINE u == 2 * p + 1
           v == 2 * w - 1
           h == 2 * a * 10000
<1>2. u \in Int /\ v \in Int /\ h \in Int /\ 20000 * f \in Int
  BY <1>1
<1>3. 20000 * f <= u * t
  BY <1>1 DEF Nearest
<1>4. v * b <= h
  BY <1>1 DEF Nearest
<1>5. (20000 * f) * b <= (u * t) * b
  <2>1. u * t \in Int
    BY <1>2
  <2> QED
    BY <1>2, <1>3, <2>1, Scaled
<1>6. h * t <= (u * b) * t
  BY <1>1, <1>5
<1>7. h <= u * b
  <2>1. u * b \in Int
    BY <1>2
  <2> HIDE DEF u, h
  <2> QED
    BY <1>2, <1>6, <2>1
<1>8. v * b <= u * b
  BY <1>2, <1>4, <1>7
<1>9. v <= u
  BY <1>2, <1>8
<1>10. ASSUME p = w - 1 PROVE (2 * a * 10000) % b = 0
  <2>1. h = v * b
    BY <1>2, <1>4, <1>7, <1>10, <1>1
  <2>2. (b * v) % b = 0
    BY <1>2
  <2>3. b * v = v * b
    BY <1>2
  <2> QED
    BY <2>1, <2>2, <2>3
<1> QED
  BY <1>1, <1>9, <1>10

\* The severity never falls as the rate grows.
LEMMA SeverityGrows ==
  ASSUME NEW s, IsScore(s), s.total > 0, NEW m, IsScore(m), m.total > 0,
         s.failed * m.total <= m.failed * s.total
  PROVE  Rank(s) <= Rank(m)
<1> DEFINE F == s.failed
           T == s.total
           A == m.failed
           B == m.total
<1>1. /\ T \in Nat \ {0} /\ F \in Nat /\ B \in Nat \ {0} /\ A \in Nat
      /\ s.severity = Severity(T, F) /\ m.severity = Severity(B, A)
      /\ F * B <= A * T
  BY DEF IsScore, MetricsOf
<1> HIDE DEF F, T, A, B
<1>2. ASSUME NEW w \in Nat
      PROVE  /\ w * T <= F * 100 => w * B <= A * 100
             /\ w * T < F * 100 => w * B < A * 100
  <2>1. (F * 100) * B <= (A * 100) * T
    BY <1>1
  <2>2. (w * T) * B = (w * B) * T
    BY <1>1
  <2>3. w * T \in Int /\ F * 100 \in Int /\ w * B \in Int /\ A * 100 \in Int
    BY <1>1
  <2>4. ASSUME w * T <= F * 100 PROVE w * B <= A * 100
    <3>1. (w * T) * B <= (F * 100) * B
      BY <1>1, <2>3, <2>4, Scaled
    <3>2. (w * B) * T <= (A * 100) * T
      BY <1>1, <2>1, <2>2, <3>1
    <3> QED
      BY <1>1, <2>3, <3>2
  <2>5. ASSUME w * T < F * 100 PROVE w * B < A * 100
    <3>1. (w * T) * B < (F * 100) * B
      BY <1>1, <2>3, <2>5
    <3>2. (w * B) * T < (A * 100) * T
      BY <1>1, <2>1, <2>2, <3>1
    <3> QED
      BY <1>1, <2>3, <3>2, Scaled
  <2> QED
    BY <2>4, <2>5
<1>3. /\ 1 * T <= F * 100 => 1 * B <= A * 100
      /\ 5 * T <= F * 100 => 5 * B <= A * 100
      /\ 10 * T < F * 100 => 10 * B < A * 100
  BY <1>2
<1>4. /\ Rank(s) = IF 10 * T < F * 100 THEN 3
                   ELSE IF 5 * T <= F * 100 THEN 2
                   ELSE IF 1 * T <= F * 100 THEN 1 ELSE 0
      /\ Rank(m) = IF 10 * B < A * 100 THEN 3
                   ELSE IF 5 * B <= A * 100 THEN 2
                   ELSE IF 1 * B <= A * 100 THEN 1 ELSE 0
  BY <1>1 DEF Rank, Severity, MoreThan, AtLeast
<1> QED
  BY <1>1, <1>3, <1>4

\* A score s on either side of the overall score m (OverallIsBetween).
Lower(s, m) == s.percent <= m.percent + Slack(m) /\ Rank(s) <= Rank(m)

Higher(s, m) == s.percent >= m.percent - Slack(m) /\ Rank(s) >= Rank(m)

\* Of two scores with records, the lower rate has the lower percentage and severity.
LEMMA RatesAreOrdered ==
  ASSUME NEW s, IsScore(s), s.total > 0, NEW m, IsScore(m), m.total > 0
  PROVE  /\ s.failed * m.total <= m.failed * s.total => Lower(s, m)
         /\ s.failed * m.total >= m.failed * s.total => Higher(s, m)
<1> DEFINE f == s.failed
           t == s.total
           p == s.percent
           a == m.failed
           b == m.total
           w == m.percent
<1>1. /\ t \in Nat \ {0} /\ f \in Nat /\ Nearest(p, f, t)
      /\ b \in Nat \ {0} /\ a \in Nat /\ Nearest(w, a, b)
  BY NearestScore DEF IsScore
<1>2. p \in Nat /\ w \in Nat
  <2>1. p \in Percentages /\ w \in Percentages
    BY <1>1 DEF Nearest
  <2> QED
    BY <2>1, PercentagesAreNumbers
<1>3. Slack(m) = IF (2 * a * 10000) % b = 0 THEN 1 ELSE 0
  BY <1>1 DEF Slack
<1>4. /\ f * b <= a * t => Rank(s) <= Rank(m)
      /\ a * t <= f * b => Rank(m) <= Rank(s)
  BY SeverityGrows
<1>5. Rank(s) \in Int /\ Rank(m) \in Int
  BY DEF Rank
<1> HIDE DEF f, t, p, a, b, w
<1>6. ASSUME f * b <= a * t PROVE p <= w + Slack(m)
  <2>1. p <= w \/ (p = w + 1 /\ (2 * a * 10000) % b = 0)
    BY <1>1, <1>6, NearestOfLower
  <2> QED
    BY <1>2, <1>3, <2>1
<1>7. ASSUME f * b >= a * t PROVE p >= w - Slack(m)
  <2>1. p >= w \/ (p = w - 1 /\ (2 * a * 10000) % b = 0)
    BY <1>1, <1>7, NearestOfHigher
  <2> QED
    BY <1>2, <1>3, <2>1
<1>8. f * b >= a * t <=> a * t <= f * b
  BY <1>1
<1> QED
  BY <1>4, <1>5, <1>6, <1>7, <1>8 DEF Lower, Higher, f, t, p, a, b, w

\* The overall score is a score of valid counts.
LEMMA OverallIsScore ==
  ASSUME NEW rs, AreScored(rs), NEW m \in OverallOf(rs)
  PROVE  /\ IsScore(m) /\ m \in Metrics
         /\ m.total = Sum(rs, "total") /\ m.failed = Sum(rs, "failed")
<1>1. m.total = Sum(rs, "total") /\ m.failed = Sum(rs, "failed")
  BY DEF OverallOf, MetricsOf, FailedOfRun
<1>2. IsScore(m)
  BY <1>1, SumsAreCounts DEF IsScore, OverallOf, FailedOfRun
<1> QED
  BY <1>1, <1>2, ScoreIsTyped

\* The overall score lies between those of its rules.
LEMMA OverallIsInside ==
  ASSUME NEW rs, AreScored(rs), rs # {}, NEW m \in OverallOf(rs)
  PROVE  /\ \E r \in rs : Lower(r.score, m)
         /\ \E r \in rs : Higher(r.score, m)
<1>1. /\ IsScore(m) /\ m.total = Sum(rs, "total") /\ m.failed = Sum(rs, "failed")
  BY OverallIsScore
<1>2. \A r \in rs : IsScore(r.score)
  BY DEF AreScored
<1>3. CASE m.total = 0
  <2> DEFINE r == First(rs)
  <2>1. r \in rs /\ IsScore(r.score) /\ AreScored(Rest(rs))
    BY RestIsScored, FirstAndRest
  <2>2. m.total = r.score.total + Sum(Rest(rs), "total")
    BY <1>1, SumOfRows DEF AreScored
  <2>3. Sum(Rest(rs), "total") \in Nat /\ r.score.total \in Nat
    BY <2>1, SumsAreCounts DEF IsScore
  <2> HIDE DEF r
  <2>4. r.score.total = 0
    BY <1>3, <2>2, <2>3
  <2>5. /\ r.score.percent = 0 /\ r.score.severity = "Low"
        /\ m.percent = 0 /\ m.severity = "Low"
    BY <1>1, <1>3, <2>1, <2>4, EmptyScore
  <2>6. Slack(m) = 0
    BY <1>3 DEF Slack
  <2>7. Lower(r.score, m) /\ Higher(r.score, m)
    BY <2>5, <2>6 DEF Lower, Higher, Rank
  <2> QED
    BY <2>1, <2>7
<1>4. CASE m.total > 0
  BY <1>1, <1>2, <1>4, RatesSpan, RatesAreOrdered
<1> QED
  BY <1>1, <1>3, <1>4 DEF IsScore

-----------------------------------------------------------------------------
(* What the row limit takes *)

\* The rows before s in the order of the query.
Below(rs, s) == {t \in rs : t.rule < s.rule}

\* A finite set of rows has one with the greatest rule.
LEMMA LastRow ==
  ASSUME NEW rs, IsFiniteSet(rs), rs # {}, \A r \in rs : r.rule \in Nat
  PROVE  \E s \in rs : \A t \in rs : t.rule <= s.rule
<1> DEFINE Last(S) == \E s \in S : \A t \in S : t.rule <= s.rule
           Bad == {S \in SUBSET rs : S # {} /\ ~ Last(S)}
<1> SUFFICES ASSUME Bad # {} PROVE FALSE
  OBVIOUS
<1>1. Bad \subseteq FiniteSubsetsOf(rs)
  BY FS_Subset DEF FiniteSubsetsOf
<1>2. PICK T \in Bad : \A S \in SUBSET T : S # T => S \notin Bad
  <2> HIDE DEF Bad
  <2> QED
    BY ONLY <1>1, Bad # {}, SmallestBadSet, Zenon
<1>3. T # {} /\ T \subseteq rs /\ ~ Last(T)
  BY <1>2
<1>4. /\ First(T) \in T /\ First(T).rule \in Nat /\ T = Rest(T) \cup {First(T)}
      /\ Rest(T) \in SUBSET T /\ Rest(T) # T
  BY <1>3, FirstAndRest
<1>5. CASE Rest(T) = {}
  <2>1. \A t \in T : t.rule <= First(T).rule
    BY <1>4, <1>5
  <2> QED
    BY <1>3, <1>4, <2>1
<1>6. CASE Rest(T) # {}
  <2>1. Last(Rest(T))
    BY <1>2, <1>4, <1>6
  <2>2. PICK s \in Rest(T) : \A t \in Rest(T) : t.rule <= s.rule
    BY <2>1
  <2>3. s \in T /\ s.rule \in Nat /\ \A t \in T : t.rule \in Nat
    BY <1>3, <1>4, <2>2
  <2>4. CASE First(T).rule <= s.rule
    BY <1>3, <1>4, <2>2, <2>3, <2>4
  <2>5. CASE s.rule <= First(T).rule
    <3>1. \A t \in T : t.rule <= First(T).rule
      BY <1>4, <2>2, <2>3, <2>5
    <3> QED
      BY <1>3, <1>4, <3>1
  <2> QED
    BY <1>4, <2>3, <2>4, <2>5
<1> QED
  BY <1>5, <1>6

\* Any set of rows has one with the least rule.
LEMMA FirstRow ==
  ASSUME NEW rs, rs # {}, \A r \in rs : r.rule \in Nat
  PROVE  \E s \in rs : \A t \in rs : s.rule <= t.rule
<1> DEFINE R == {n \in Nat : \E r \in rs : r.rule = n}
<1>1. PICK n \in R : \A k \in R : <<k, n>> \notin OpToRel(<, Nat)
  <2>1. R \subseteq Nat /\ R # {}
    OBVIOUS
  <2> HIDE DEF R
  <2> QED
    BY <2>1, NatLessThanWellFounded, WFMin
<1>2. \A k \in R : n <= k
  <2>1. \A k, l \in Nat : k < l => <<k, l>> \in OpToRel(<, Nat)
    BY DEF OpToRel
  <2>2. n \in Nat /\ \A k \in R : k \in Nat
    OBVIOUS
  <2> HIDE DEF R
  <2>3. ASSUME NEW k \in R, k < n PROVE FALSE
    BY <1>1, <2>1, <2>2, <2>3
  <2> QED
    BY <2>2, <2>3
<1>3. PICK s \in rs : s.rule = n
  OBVIOUS
<1>4. \A t \in rs : t.rule \in R
  OBVIOUS
<1> HIDE DEF R
<1> QED
  BY <1>2, <1>3, <1>4

\* Where the row limit leaves a row out, it took as many rows as it may, all of lower
\* rules.
LEMMA RowLimit ==
  ASSUME NEW rs, IsFiniteSet(rs), \A r \in rs : r.rule \in Nat,
         \A r, s \in rs : r.rule = s.rule => r = s,
         NEW n \in Nat \ {0}, NEW s \in rs, s \notin FirstRows(rs, n)
  PROVE  /\ Cardinality(FirstRows(rs, n)) = n
         /\ \A r \in FirstRows(rs, n) : r.rule < s.rule
<1> DEFINE F == FirstRows(rs, n)
           Out == rs \ F
<1>1. \A t \in rs : /\ IsFiniteSet(Below(rs, t))
                    /\ Cardinality(Below(rs, t)) \in Nat
                    /\ t \in F <=> Cardinality(Below(rs, t)) < n
  BY FS_Subset, FS_CardinalityType DEF FirstRows, Below
<1>2. F \subseteq rs
  BY DEF FirstRows
<1>3. ASSUME NEW r \in rs, NEW t \in rs, r.rule <= t.rule
      PROVE  Cardinality(Below(rs, r)) <= Cardinality(Below(rs, t))
  <2>1. Below(rs, r) \in SUBSET Below(rs, t)
    BY <1>3 DEF Below
  <2> QED
    BY <1>1, <2>1, FS_Subset
<1> HIDE DEF F
<1>4. \A r \in F, t \in rs \ F : r.rule < t.rule
  BY <1>1, <1>2, <1>3
<1>5. PICK a \in Out : \A t \in Out : a.rule <= t.rule
  <2>1. Out # {} /\ \A r \in Out : r.rule \in Nat
    BY DEF F
  <2> HIDE DEF Out
  <2> QED
    BY <2>1, FirstRow
<1>6. F = Below(rs, a)
  BY <1>2, <1>4, <1>5 DEF Below
<1>7. Cardinality(F) \in Nat /\ Cardinality(F) >= n
  BY <1>1, <1>5, <1>6
<1>8. IsFiniteSet(F) /\ F # {}
  BY <1>1, <1>5, <1>6, <1>7, FS_EmptySet
<1>9. PICK m \in F : \A t \in F : t.rule <= m.rule
  BY <1>2, <1>8, LastRow
<1>10. Below(rs, m) = F \ {m}
  BY <1>2, <1>4, <1>9 DEF Below
<1>11. Cardinality(F) - 1 = Cardinality(Below(rs, m))
  BY <1>8, <1>10, FS_RemoveElement
<1>12. Cardinality(F) <= n
  BY <1>1, <1>2, <1>7, <1>11
<1> QED
  BY <1>4, <1>7, <1>12 DEF F

-----------------------------------------------------------------------------
(* Types, and where the rows of a report come from *)

\* Any rows of the table are a finite set of scored rows.
LEMMA RowsAreScored ==
  ASSUME TableInv, NEW rs \in SUBSET summary
  PROVE  /\ AreScored(rs) /\ rs \in SUBSET Rows /\ Cardinality(rs) \in Nat
BY FS_Subset, FS_CardinalityType DEF TableInv, ScoreInv, AreScored

\* A query takes rows of its run, and they are rows of the table.
LEMMA QueriedRows ==
  ASSUME TableInv, NEW run, NEW cap
  PROVE  /\ FirstRows(RowsOf(run), cap) \subseteq RowsOf(run)
         /\ RowsOf(run) \subseteq summary
BY DEF FirstRows, RowsOf

\* What a call has read is in the table, under an identifier that names a run.
ReadInv ==
    /\ TableInv /\ TypeOK
    /\ \A c \in Calls :
         /\ rows[c] \subseteq summary
         /\ pc[c] \in {"audit", "compose", "send", "sent"} => args[c].run \in Runs

\* A step of a call keeps the types, and reads rows of the table only.
LEMMA StepKeepsReading ==
  ASSUME ReadInv, NEW c \in Calls, Step(c) \/ Crash(c)
  PROVE  /\ TypeOK'
         /\ rows'[c] \subseteq summary
         /\ pc'[c] \in {"audit", "compose", "send", "sent"} => args'[c].run \in Runs
         /\ \A d \in Calls \ {c} : UNCHANGED <<rows[d], pc[d], args[d]>>
<1>1. /\ TypeOK /\ rows[c] \subseteq summary
      /\ pc[c] \in {"audit", "compose", "send", "sent"} => args[c].run \in Runs
      /\ TableInv
  BY DEF ReadInv
<1>2. /\ Cardinality(rows[c]) \in Nat /\ RowsOf(args[c].run) \in SUBSET Rows
  BY <1>1, RowsAreScored DEF RowsOf
<1>k. args[c].kind \in Kinds
  BY <1>1 DEF TypeOK, Args
<1> USE <1>1, <1>2, <1>k DEF TypeOK, Goto, Answer, Record, Fail, Raise, Labels, Kinds
<1>3. CASE Begin(c)
  BY <1>3 DEF Begin
<1>4. CASE Refuse(c)
  BY <1>4 DEF Refuse
<1>5. CASE Issue(c)
  <2>1. PICK run \in Runs : /\ issued' = issued \cup {run}
                            /\ args' = [args EXCEPT ![c].run = run]
    BY <1>5 DEF Issue
  <2>2. args' \in [Calls -> Args]
    BY <2>1 DEF Args
  <2> QED
    BY <1>5, <2>1, <2>2 DEF Issue
<1>6. CASE Query(c)
  <2> DEFINE found == FirstRows(RowsOf(args[c].run), args[c].cap)
  <2>1. found \subseteq summary
    BY QueriedRows
  <2>2. AreScored(found) /\ found \in SUBSET Rows
    BY <2>1, RowsAreScored
  <2>3. PICK score \in OverallOf(found) : overall' = [overall EXCEPT ![c] = score]
    BY <1>6 DEF Query
  <2>4. score \in Metrics
    BY <2>2, OverallIsScore
  <2>5. args[c].run \in Runs
    BY <1>6 DEF Query, Args
  <2>6. rows' = [rows EXCEPT ![c] = found]
    BY <1>6 DEF Query
  <2> HIDE DEF found
  <2> QED
    BY <1>6, <2>1, <2>2, <2>3, <2>4, <2>5, <2>6 DEF Query
<1>7. CASE Report(c)
  BY <1>7 DEF Report, AuditReport
<1>8. CASE Compose(c)
  BY <1>8 DEF Compose
<1>9. CASE Send(c)
  BY <1>9 DEF Send, Deliver
<1>10. CASE AuditMail(c)
  BY <1>10 DEF AuditMail
<1>11. CASE Reply(c) \/ Crash(c)
  BY <1>11 DEF Reply, Crash
<1> QED
  BY <1>3, <1>4, <1>5, <1>6, <1>7, <1>8, <1>9, <1>10, <1>11 DEF Step

\* Types hold, and what a call has read is in the table.
LEMMA ReadingAlways == Spec => []ReadInv
<1>1. Init => ReadInv
  <2> SUFFICES ASSUME Init PROVE ReadInv
    OBVIOUS
  <2>1. TableInv
    BY FS_EmptySet DEF Init, TableInv, ScoreInv, OneRowPerRule
  <2> QED
    BY <2>1 DEF Init, ReadInv, TypeOK, Labels
<1>2. ReadInv /\ TableInv' /\ [Next]_vars => ReadInv'
  <2> SUFFICES ASSUME ReadInv, TableInv', [Next]_vars PROVE ReadInv'
    OBVIOUS
  <2>1. ASSUME NEW run \in Runs, NEW rule \in Rules, Execute(run, rule)
        PROVE  ReadInv'
    <3>1. summary \subseteq summary' /\ summary' \subseteq Rows
      BY <2>1 DEF Execute, TableInv
    <3>2. /\ issued' = issued \cup {run}
          /\ UNCHANGED <<pc, args, before, rows, overall, outcome, mails, audit>>
      BY <2>1 DEF Execute, callVars
    <3>3. TypeOK'
      BY <3>1, <3>2 DEF ReadInv, TypeOK
    <3> QED
      BY <3>1, <3>2, <3>3 DEF ReadInv
  <2>2. ASSUME NEW c \in Calls, Step(c) \/ Crash(c) PROVE ReadInv'
    <3>1. summary' = summary
      BY <2>2, StepKeepsTable
    <3>2. /\ TypeOK'
          /\ rows'[c] \subseteq summary
          /\ pc'[c] \in {"audit", "compose", "send", "sent"} => args'[c].run \in Runs
          /\ \A d \in Calls \ {c} : UNCHANGED <<rows[d], pc[d], args[d]>>
      BY <2>2, StepKeepsReading
    <3> QED
      BY <3>1, <3>2 DEF ReadInv
  <2>3. CASE UNCHANGED vars
    BY <2>3 DEF vars, callVars, ReadInv, TypeOK
  <2> QED
    BY <2>1, <2>2, <2>3 DEF Next
<1> QED
  BY <1>1, <1>2, TableAlways, PTL DEF Spec

\* Every variable of the run life cycle keeps its type: the overall score of a report
\* is a score of valid counts, whatever rows were summed (render_markdown, dq.py).
THEOREM TypesAlways == Spec => []TypeOK
<1>1. ReadInv => TypeOK
  BY DEF ReadInv
<1> QED
  BY <1>1, ReadingAlways, PTL

-----------------------------------------------------------------------------
(* What a report leaves out *)

\* What a call has read misses rows only because of its limit, the last ones.
LeavesOutLast(c) ==
    \A s \in before[c] \ rows[c] :
        /\ Cardinality(rows[c]) = args[c].cap
        /\ \A r \in rows[c] : r.rule < s.rule

\* From its query on, a report keeps what it read and the score of that.
ReportIsComplete(c) ==
    /\ pc[c] \in {"new", "issue", "query"} => rows[c] = {}
    /\ pc[c] = "query" => before[c] \subseteq RowsOf(args[c].run)
    /\ rows[c] \subseteq RowsOf(args[c].run)
    /\ rows[c] # {} => LeavesOutLast(c) /\ overall[c] \in OverallOf(rows[c])

CompleteInv == \A c \in Calls : ReportIsComplete(c)

\* The same for the rows of one run.
LEMMA QueryLeavesOutLast ==
  ASSUME TableInv, NEW run, NEW cap \in Nat \ {0},
         NEW s \in RowsOf(run), s \notin FirstRows(RowsOf(run), cap)
  PROVE  /\ Cardinality(FirstRows(RowsOf(run), cap)) = cap
         /\ \A r \in FirstRows(RowsOf(run), cap) : r.rule < s.rule
<1> DEFINE rs == RowsOf(run)
<1>1. rs \in SUBSET summary /\ \A r \in rs : r.run = run
  BY DEF RowsOf
<1>2. IsFiniteSet(rs) /\ rs \in SUBSET Rows
  BY <1>1, RowsAreScored DEF AreScored
<1>3. \A r \in rs : r.rule \in Nat
  BY <1>2, RulesAssumption DEF Rows
<1>4. \A r, t \in rs : r.rule = t.rule => r = t
  BY <1>1 DEF TableInv, OneRowPerRule
<1> HIDE DEF rs
<1> QED
  BY <1>2, <1>3, <1>4, RowLimit DEF rs

\* A step of a call leaves its report complete, and those of the others alone.
LEMMA StepKeepsReport ==
  ASSUME ReadInv, CompleteInv, NEW c \in Calls, Step(c) \/ Crash(c)
  PROVE  /\ ReportIsComplete(c)'
         /\ \A d \in Calls \ {c} :
              UNCHANGED <<rows[d], pc[d], args[d], before[d], overall[d]>>
<1>1. TypeOK /\ TableInv /\ ReportIsComplete(c)
  BY DEF ReadInv, CompleteInv
<1>2. summary' = summary
  BY StepKeepsTable
<1> USE <1>1, <1>2 DEF ReportIsComplete, LeavesOutLast, TypeOK, RowsOf,
             Goto, Answer, Record, Fail, Raise
<1>3. CASE Begin(c)
  BY <1>3 DEF Begin
<1>4. CASE Refuse(c)
  BY <1>4 DEF Refuse
<1>5. CASE Issue(c)
  BY <1>5 DEF Issue
<1>6. CASE Query(c)
  <2> DEFINE run == args[c].run
             cap == args[c].cap
             found == FirstRows(RowsOf(run), cap)
  <2>1. cap \in Nat \ {0}
    BY CapsAssumption DEF Args
  <2>2. /\ pc[c] = "query" /\ rows'[c] = found /\ pc'[c] = "audit"
        /\ UNCHANGED <<args, before>>
        /\ \A d \in Calls \ {c} : UNCHANGED <<rows[d], pc[d], overall[d]>>
    BY <1>6 DEF Query
  <2>3. overall'[c] \in OverallOf(found)
    BY <1>6 DEF Query
  <2>4. ASSUME NEW s \in before[c] \ found
        PROVE  Cardinality(found) = cap /\ \A r \in found : r.rule < s.rule
    <3>1. s \in RowsOf(run)
      BY <2>2
    <3> HIDE DEF cap, run, RowsOf
    <3> QED
      BY <2>1, <2>4, <3>1, QueryLeavesOutLast
  <2>5. found \subseteq RowsOf(run)
    BY QueriedRows
  <2> HIDE DEF found
  <2> QED
    BY <2>2, <2>3, <2>4, <2>5
<1>7. CASE Report(c)
  BY <1>7 DEF Report, AuditReport
<1>8. CASE Compose(c)
  BY <1>8 DEF Compose
<1>9. CASE Send(c)
  BY <1>9 DEF Send
<1>10. CASE AuditMail(c)
  BY <1>10 DEF AuditMail
<1>11. CASE Reply(c) \/ Crash(c)
  BY <1>11 DEF Reply, Crash
<1> QED
  BY <1>3, <1>4, <1>5, <1>6, <1>7, <1>8, <1>9, <1>10, <1>11 DEF Step

\* Every report leaves out the rows its limit leaves out, and no others.
LEMMA CompleteAlways == Spec => []CompleteInv
<1>1. Init => CompleteInv
  BY DEF Init, CompleteInv, ReportIsComplete
<1>2. ReadInv /\ CompleteInv /\ [Next]_vars => CompleteInv'
  <2> SUFFICES ASSUME ReadInv, CompleteInv, [Next]_vars PROVE CompleteInv'
    OBVIOUS
  <2>1. ASSUME NEW run \in Runs, NEW rule \in Rules, Execute(run, rule)
        PROVE  CompleteInv'
    <3>1. summary \subseteq summary'
      BY <2>1 DEF Execute
    <3>2. UNCHANGED <<pc, args, before, rows, overall>>
      BY <2>1 DEF Execute, callVars
    <3>3. \A id : RowsOf(id) \subseteq RowsOf(id)'
      BY <3>1 DEF RowsOf
    <3> QED
      BY <3>2, <3>3 DEF CompleteInv, ReportIsComplete, LeavesOutLast
  <2>2. ASSUME NEW c \in Calls, Step(c) \/ Crash(c) PROVE CompleteInv'
    <3>1. summary' = summary
      BY <2>2, StepKeepsTable
    <3>2. /\ ReportIsComplete(c)'
          /\ \A d \in Calls \ {c} :
               UNCHANGED <<rows[d], pc[d], args[d], before[d], overall[d]>>
      BY <2>2, StepKeepsReport
    <3> QED
      BY <3>1, <3>2 DEF CompleteInv, ReportIsComplete, LeavesOutLast, RowsOf
  <2>3. CASE UNCHANGED vars
    BY <2>3 DEF vars, callVars, CompleteInv, ReportIsComplete, LeavesOutLast, RowsOf
  <2> QED
    BY <2>1, <2>2, <2>3 DEF Next
<1> QED
  BY <1>1, <1>2, ReadingAlways, PTL DEF Spec

\* A report holds committed rows of its run only, and misses none that was committed
\* when the call began but those of the last rules, when it is as long as the row
\* limit (get_dq_run_report, tools.py).
THEOREM ReportMissesNothingAlways == Spec => []ReportMissesNothing
<1>1. CompleteInv => ReportMissesNothing
  BY DEF CompleteInv, ReportIsComplete, LeavesOutLast, ReportMissesNothing
<1> QED
  BY <1>1, CompleteAlways, PTL

\* The overall score of a report lies between the scores of its rules, for any number
\* of rules and any counts (render_markdown, dq.py).
THEOREM OverallIsBetweenAlways == Spec => []OverallIsBetween
<1>1. ReadInv /\ CompleteInv => OverallIsBetween
  <2> SUFFICES ASSUME ReadInv, CompleteInv, NEW c \in Calls, rows[c] # {}
               PROVE  /\ \E r \in rows[c] : Lower(r.score, overall[c])
                      /\ \E r \in rows[c] : Higher(r.score, overall[c])
    BY DEF OverallIsBetween, Lower, Higher
  <2>1. AreScored(rows[c])
    BY RowsAreScored DEF ReadInv
  <2>2. overall[c] \in OverallOf(rows[c])
    BY DEF CompleteInv, ReportIsComplete
  <2> QED
    BY <2>1, <2>2, OverallIsInside
<1> QED
  BY <1>1, ReadingAlways, CompleteAlways, PTL

-----------------------------------------------------------------------------
(* Mails *)

ControlType ==
    /\ pc \in [Calls -> Labels] /\ args \in [Calls -> Args]
    /\ DOMAIN rows = Calls
    /\ outcome \in [Calls -> {"none", "OK", "ERROR", "RAISED"}]

\* A record is in the audit, or may have been lost.
Kept(c, tool, status, n) == args[c].lossy \/ Recorded(c, tool, status, n)

\* A mail of a call is what its report read.
MailShowsReport(c) == \A m \in mails : m.call = c =>
    /\ m.rows = rows[c] /\ m.rows # {} /\ m.run = args[c].run
    /\ Kept(c, "report", "SUCCESS", Cardinality(m.rows))
    /\ pc[c] \in {"sent", "reply", "done", "lost"}

\* Where an e-mail call is, its report has been read and audited.
ReportComesFirst(c) ==
    /\ pc[c] \in {"audit", "compose", "send", "sent"} => rows[c] # {}
    /\ pc[c] \in {"compose", "send", "sent"} =>
         /\ args[c].kind = "email"
         /\ Kept(c, "report", "SUCCESS", Cardinality(rows[c]))
    /\ args[c].kind = "email" => pc[c] # "issue"
    /\ args[c].kind = "start" => pc[c] \notin {"query", "audit"}

SuccessIsMailed(c) ==
    /\ pc[c] = "sent" => \E m \in mails : m.call = c
    /\ args[c].kind = "email" /\ outcome[c] = "OK" => \E m \in mails :
         m.call = c /\ Kept(c, "email", "SUCCESS", Cardinality(m.rows))
    /\ \A n : Recorded(c, "email", "SUCCESS", n) =>
         \E m \in mails : m.call = c /\ Cardinality(m.rows) = n

RefusalEndsCall(c) ==
    \A n : Recorded(c, "report", "ERROR", n) =>
        /\ pc[c] \in {"reply", "done", "lost"}
        /\ \A m \in mails : m.call # c

CallInv(c) ==
    MailShowsReport(c) /\ ReportComesFirst(c) /\ SuccessIsMailed(c) /\ RefusalEndsCall(c)

MailInv ==
    /\ ControlType
    /\ \A m \in mails : m.call \in Calls
    /\ \A c \in Calls : CallInv(c)

\* A step of one call leaves another as it is.
LEMMA OtherCalls ==
  ASSUME ControlType, NEW c \in Calls, Step(c) \/ Crash(c), NEW d \in Calls, d # c
  PROVE  /\ pc'[d] = pc[d] /\ args'[d] = args[d] /\ rows'[d] = rows[d]
         /\ outcome'[d] = outcome[d]
         /\ \A m : m.call = d => (m \in mails' <=> m \in mails)
         /\ \A tool, status, n : Recorded(d, tool, status, n)' <=> Recorded(d, tool, status, n)
<1> USE DEF Goto, Answer, Record, Fail, Raise, ControlType, Recorded
<1>1. CASE Begin(c) \/ Refuse(c) \/ Issue(c) \/ Query(c)
  BY <1>1 DEF Begin, Refuse, Issue, Query
<1>2. CASE Report(c) \/ Compose(c)
  BY <1>2 DEF Report, Compose, AuditReport
<1>3. CASE Send(c)
  BY <1>3 DEF Send, Deliver
<1>4. CASE AuditMail(c) \/ Reply(c) \/ Crash(c)
  BY <1>4 DEF AuditMail, Reply, Crash
<1> QED
  BY <1>1, <1>2, <1>3, <1>4 DEF Step

\* A step of a call keeps the types this part uses.
LEMMA StepKeepsTypes ==
  ASSUME MailInv, NEW c \in Calls, Step(c) \/ Crash(c)
  PROVE  ControlType' /\ \A m \in mails' : m.call \in Calls
<1> USE DEF Goto, Answer, Record, Fail, Raise, ControlType, MailInv, Labels, Args, Kinds
<1>1. CASE Begin(c) \/ Refuse(c) \/ Query(c)
  BY <1>1 DEF Begin, Refuse, Query
<1>5. CASE Issue(c)
  <2>1. PICK run \in Runs : args' = [args EXCEPT ![c].run = run]
    BY <1>5 DEF Issue
  <2>2. args' \in [Calls -> Args]
    BY <2>1
  <2> QED
    BY <1>5, <2>2 DEF Issue
<1>2. CASE Report(c) \/ Compose(c)
  BY <1>2 DEF Report, Compose, AuditReport
<1>3. CASE Send(c)
  BY <1>3 DEF Send, Deliver
<1>4. CASE AuditMail(c) \/ Reply(c) \/ Crash(c)
  BY <1>4 DEF AuditMail, Reply, Crash
<1> QED
  BY <1>1, <1>2, <1>3, <1>4, <1>5 DEF Step

\* What handing a record to the audit does: that record is kept, or may be lost, and
\* no other comes or goes.
LEMMA RecordEffect ==
  ASSUME NEW c \in Calls, NEW tool, NEW status, NEW n, Record(c, tool, status, n)
  PROVE  /\ args[c].lossy \/ Recorded(c, tool, status, n)'
         /\ \A t, s, k : Recorded(c, t, s, k) => Recorded(c, t, s, k)'
         /\ \A t, s, k : Recorded(c, t, s, k)' =>
              \/ Recorded(c, t, s, k)
              \/ t = tool /\ s = status /\ k = n
BY DEF Record, Recorded

\* A step of a call keeps what holds of its report and its mail.
LEMMA StepKeepsCall ==
  ASSUME MailInv, NEW c \in Calls, Step(c) \/ Crash(c)
  PROVE  CallInv(c)'
<1>1. ControlType /\ CallInv(c)
  BY DEF MailInv
<1> USE <1>1 DEF CallInv, MailShowsReport, ReportComesFirst, SuccessIsMailed, Kept,
                 RefusalEndsCall, Goto, Answer, Fail, Raise, ControlType
<1>2. CASE Begin(c)
  <2>1. \A t, s, k : Recorded(c, t, s, k)' <=> Recorded(c, t, s, k)
    BY <1>2 DEF Begin, Recorded
  <2> QED
    BY <1>2, <2>1 DEF Begin
<1>3. CASE Refuse(c)
  <2> DEFINE tool == IF pc[c] = "issue" THEN "start" ELSE "report"
  <2>1. /\ pc[c] \in {"issue", "query"} /\ pc'[c] = "reply" /\ outcome'[c] = "ERROR"
        /\ UNCHANGED <<args, rows, mails>> /\ Record(c, tool, "ERROR", 0)
    BY <1>3 DEF Refuse
  <2>2. /\ \A t, s, k : Recorded(c, t, s, k) => Recorded(c, t, s, k)'
        /\ \A t, s, k : Recorded(c, t, s, k)' =>
             Recorded(c, t, s, k) \/ (t = tool /\ s = "ERROR")
    BY <2>1, RecordEffect
  <2>3. \A m \in mails : m.call # c
    BY <2>1
  <2> HIDE DEF tool
  <2> QED
    BY <2>1, <2>2, <2>3
<1>4. CASE Issue(c)
  <2>1. /\ pc[c] = "issue" /\ pc'[c] = "reply" /\ outcome'[c] = "OK"
        /\ UNCHANGED <<rows, mails>> /\ Record(c, "start", "SUCCESS", 0)
        /\ args'[c].kind = args[c].kind
    BY <1>4 DEF Issue, Args
  <2>2. /\ \A t, s, k : Recorded(c, t, s, k) => Recorded(c, t, s, k)'
        /\ \A t, s, k : Recorded(c, t, s, k)' => Recorded(c, t, s, k) \/ t = "start"
    BY <2>1, RecordEffect
  <2>3. \A m \in mails : m.call # c
    BY <2>1
  <2> QED
    BY <2>1, <2>2, <2>3
<1>5. CASE Query(c)
  <2>1. /\ pc[c] = "query" /\ pc'[c] = "audit" /\ outcome'[c] = outcome[c]
        /\ rows'[c] # {} /\ UNCHANGED <<args, mails, audit>>
    BY <1>5 DEF Query
  <2>2. \A t, s, k : Recorded(c, t, s, k)' <=> Recorded(c, t, s, k)
    BY <2>1 DEF Recorded
  <2>3. \A m \in mails : m.call # c
    BY <2>1
  <2> QED
    BY <2>1, <2>2, <2>3
<1>6. CASE Report(c)
  <2> DEFINE n == Cardinality(rows[c])
  <2>1. /\ pc[c] = "audit" /\ UNCHANGED <<args, rows, mails>>
        /\ Record(c, "report", "SUCCESS", n)
        /\ IF args[c].kind = "report"
           THEN pc'[c] = "reply" /\ outcome'[c] = "OK"
           ELSE pc'[c] = "compose" /\ outcome'[c] = outcome[c]
    BY <1>6 DEF Report, AuditReport
  <2>2. /\ args[c].lossy \/ Recorded(c, "report", "SUCCESS", n)'
        /\ \A t, s, k : Recorded(c, t, s, k) => Recorded(c, t, s, k)'
        /\ \A t, s, k : Recorded(c, t, s, k)' =>
             Recorded(c, t, s, k) \/ (t = "report" /\ s = "SUCCESS")
    BY <2>1, RecordEffect
  <2>3. \A m \in mails : m.call # c
    BY <2>1
  <2>4. args[c].kind \in {"report", "email"}
    BY <2>1 DEF Args, Kinds
  <2> HIDE DEF n
  <2> QED
    BY <2>1, <2>2, <2>3, <2>4 DEF n
<1>7. CASE Compose(c)
  <2>1. /\ pc[c] = "compose" /\ UNCHANGED <<args, rows, mails>>
        /\ \/ /\ pc'[c] = "send" /\ UNCHANGED <<audit, outcome>>
           \/ /\ pc'[c] = "reply" /\ outcome'[c] \in {"ERROR", "RAISED"}
              /\ Record(c, "email", "ERROR", 0) \/ UNCHANGED audit
    BY <1>7 DEF Compose
  <2>2. /\ \A t, s, k : Recorded(c, t, s, k) => Recorded(c, t, s, k)'
        /\ \A t, s, k : Recorded(c, t, s, k)' =>
             Recorded(c, t, s, k) \/ (t = "email" /\ s = "ERROR")
    <3>1. CASE UNCHANGED audit
      BY <3>1 DEF Recorded
    <3> QED
      BY <2>1, <3>1, RecordEffect
  <2>3. \A m \in mails : m.call # c
    BY <2>1
  <2> QED
    BY <2>1, <2>2, <2>3
<1>8. CASE Send(c)
  <2> DEFINE mail == [call |-> c, run |-> args[c].run, rows |-> rows[c],
                      overall |-> overall[c]]
  <2>1. /\ pc[c] = "send" /\ UNCHANGED <<args, rows>>
        /\ \/ /\ mails' = mails \cup {mail} /\ pc'[c] = "sent"
              /\ UNCHANGED <<audit, outcome>>
           \/ /\ mails' = mails \cup {mail} \/ mails' = mails
              /\ pc'[c] = "reply" /\ outcome'[c] \in {"ERROR", "RAISED"}
              /\ Record(c, "email", "ERROR", 0) \/ UNCHANGED audit
    BY <1>8 DEF Send, Deliver
  <2>2. /\ \A t, s, k : Recorded(c, t, s, k) => Recorded(c, t, s, k)'
        /\ \A t, s, k : Recorded(c, t, s, k)' =>
             Recorded(c, t, s, k) \/ (t = "email" /\ s = "ERROR")
    <3>1. CASE UNCHANGED audit
      BY <3>1 DEF Recorded
    <3> QED
      BY <2>1, <3>1, RecordEffect
  <2>3. mail.call = c /\ mail.run = args[c].run /\ mail.rows = rows[c]
    OBVIOUS
  <2>4. /\ \A m \in mails : m.call # c
        /\ \A n : ~Recorded(c, "report", "ERROR", n)
        /\ \A n : ~Recorded(c, "email", "SUCCESS", n)
        /\ outcome[c] # "OK" /\ rows[c] # {}
        /\ Kept(c, "report", "SUCCESS", Cardinality(rows[c]))
    BY <2>1
  <2> HIDE DEF mail
  <2>5. MailShowsReport(c)' /\ ReportComesFirst(c)'
    BY <2>1, <2>2, <2>3, <2>4
  <2>6. SuccessIsMailed(c)' /\ RefusalEndsCall(c)'
    BY <2>1, <2>2, <2>3, <2>4
  <2> QED
    BY <2>5, <2>6
<1>9. CASE AuditMail(c)
  <2> DEFINE n == Cardinality(rows[c])
  <2>1. /\ pc[c] = "sent" /\ pc'[c] = "reply" /\ outcome'[c] = "OK"
        /\ UNCHANGED <<args, rows, mails>> /\ Record(c, "email", "SUCCESS", n)
    BY <1>9 DEF AuditMail
  <2>2. /\ args[c].lossy \/ Recorded(c, "email", "SUCCESS", n)'
        /\ \A t, s, k : Recorded(c, t, s, k) => Recorded(c, t, s, k)'
        /\ \A t, s, k : Recorded(c, t, s, k)' =>
             Recorded(c, t, s, k) \/ (t = "email" /\ s = "SUCCESS" /\ k = n)
    BY <2>1, RecordEffect
  <2>3. PICK m \in mails : m.call = c /\ m.rows = rows[c]
    BY <2>1
  <2>4. Cardinality(m.rows) = n
    BY <2>3
  <2> HIDE DEF n
  <2>5. MailShowsReport(c)' /\ ReportComesFirst(c)' /\ RefusalEndsCall(c)'
    BY <2>1, <2>2
  <2>6. SuccessIsMailed(c)'
    BY <2>1, <2>2, <2>3, <2>4
  <2> QED
    BY <2>5, <2>6
<1>10. CASE Reply(c) \/ Crash(c)
  <2>1. /\ pc'[c] \in {"done", "lost"}
        /\ UNCHANGED <<args, rows, mails, audit, outcome>>
    BY <1>10 DEF Reply, Crash
  <2>2. \A t, s, k : Recorded(c, t, s, k)' <=> Recorded(c, t, s, k)
    BY <2>1 DEF Recorded
  <2> QED
    BY <2>1, <2>2
<1> QED
  BY <1>2, <1>3, <1>4, <1>5, <1>6, <1>7, <1>8, <1>9, <1>10 DEF Step

\* Every call keeps account of its mail.
LEMMA MailsAlways == Spec => []MailInv
<1>1. Init => MailInv
  BY DEF Init, MailInv, ControlType, Labels, CallInv, MailShowsReport,
         ReportComesFirst, SuccessIsMailed, RefusalEndsCall, Recorded
<1>2. MailInv /\ [Next]_vars => MailInv'
  <2> SUFFICES ASSUME MailInv, [Next]_vars PROVE MailInv'
    OBVIOUS
  <2>1. ASSUME NEW c \in Calls, Step(c) \/ Crash(c) PROVE MailInv'
    <3>1. ControlType' /\ \A m \in mails' : m.call \in Calls
      BY <2>1, StepKeepsTypes
    <3>2. ASSUME NEW d \in Calls PROVE CallInv(d)'
      <4>1. CASE d = c
        BY <2>1, <4>1, StepKeepsCall
      <4>2. CASE d # c
        <5>1. ControlType /\ CallInv(d)
          BY DEF MailInv
        <5> QED
          BY <2>1, <4>2, <5>1, OtherCalls
             DEF CallInv, MailShowsReport, ReportComesFirst, SuccessIsMailed,
                 RefusalEndsCall, Kept
      <4> QED
        BY <4>1, <4>2
    <3> QED
      BY <3>1, <3>2 DEF MailInv
  <2>2. CASE UNCHANGED <<callVars, mails, audit>>
    BY <2>2 DEF callVars, MailInv, ControlType, CallInv, MailShowsReport,
                ReportComesFirst, SuccessIsMailed, RefusalEndsCall, Kept, Recorded
  <2>3. CASE \E run \in Runs, rule \in Rules : Execute(run, rule)
    BY <2>2, <2>3 DEF Execute
  <2> QED
    BY <2>1, <2>2, <2>3 DEF Next, vars
<1> QED
  BY <1>1, <1>2, PTL DEF Spec

\* Every mail shows what the report of its call read, an e-mail call that succeeds has
\* sent one, and the audit tells of neither more nor, where its sink keeps the records,
\* less than happened (email_dq_run_summary and _audit, tools.py).
THEOREM MailsAreAccountedForAlways == Spec => []MailsAreAccountedFor
<1>1. TypeOK /\ MailInv => MailsAreAccountedFor
  <2> SUFFICES ASSUME TypeOK, MailInv PROVE MailsAreAccountedFor
    OBVIOUS
  <2>1. ASSUME NEW m \in mails
        PROVE  /\ m.rows = rows[m.call] /\ m.rows # {} /\ m.run = args[m.call].run
               /\ Kept(m.call, "report", "SUCCESS", Cardinality(m.rows))
    BY DEF MailInv, CallInv, MailShowsReport
  <2>2. ASSUME NEW c \in Calls, args[c].kind = "email", outcome[c] = "OK"
        PROVE  \E m \in mails :
                 m.call = c /\ Kept(c, "email", "SUCCESS", Cardinality(m.rows))
    BY <2>2 DEF MailInv, CallInv, SuccessIsMailed
  <2>3. ASSUME NEW r \in audit
        PROVE  /\ r.tool = "email" /\ r.status = "SUCCESS" =>
                    \E m \in mails : m.call = r.call /\ Cardinality(m.rows) = r.n
               /\ r.tool = "report" /\ r.status = "ERROR" =>
                    \A m \in mails : m.call # r.call
    <3>1. r.call \in Calls /\ Recorded(r.call, r.tool, r.status, r.n)
      BY DEF TypeOK, Recorded
    <3>2. SuccessIsMailed(r.call) /\ RefusalEndsCall(r.call)
      BY <3>1 DEF MailInv, CallInv
    <3> QED
      BY <3>1, <3>2 DEF SuccessIsMailed, RefusalEndsCall
  <2> QED
    BY <2>1, <2>2, <2>3 DEF MailsAreAccountedFor, Kept
<1>2. ReadInv => TypeOK
  BY DEF ReadInv
<1> QED
  BY <1>1, <1>2, ReadingAlways, MailsAlways, PTL
=============================================================================
