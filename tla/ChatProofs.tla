----------------------------- MODULE ChatProofs -----------------------------
(***************************************************************************)
(* Proofs about Chat: what the guard accepts is cleared, what it rewrites  *)
(* stays accepted, what the masking lets through is cleared, and every     *)
(* tool call of a conversation is answered.                                *)
(***************************************************************************)
EXTENDS Chat, TLAPS

-----------------------------------------------------------------------------
(* Classification *)

LEMMA KnownClearance ==
  ASSUME role \in Roles
  PROVE  Clearance[role] \in Nat /\ Clearance[role] >= Internal
BY RolesAssumption

LEMMA PolicyFields ==
  ASSUME policy \in Policies
  PROVE  /\ policy.declared \in [Objects -> SUBSET Columns]
         /\ policy.rank \in [Objects -> [Columns -> Nat]]
         /\ policy.allowed \in [Roles -> SUBSET Objects]
BY PoliciesAssumption DEF PolicyType

\* A classification is a number.
LEMMA RankIsNumber ==
  ASSUME policy \in Policies, NEW o \in Objects, NEW n \in Names, Rank(o, n) # None
  PROVE  Rank(o, n) \in Nat
<1>1. policy.declared[o] \subseteq Columns /\ policy.rank[o] \in [Columns -> Nat]
  BY PolicyFields
<1>2. Inferred(n) \in Nat
  BY ColumnsAssumption DEF Inferred, Internal
<1> QED
  BY <1>1, <1>2 DEF Rank, RankUnder

\* The names of known columns are classified.
LEMMA KnownIsClassified ==
  ASSUME policy \in Policies, NEW o \in Objects, NEW c \in KnownColumns(o)
  PROVE  c \in Columns /\ Rank(o, c) # None
<1>1. /\ policy.declared[o] \subseteq Columns /\ policy.rank[o] \in [Columns -> Nat]
      /\ ColumnsOf[o] \subseteq Columns
  BY PolicyFields, ColumnsAssumption
<1>2. c \in Columns
  BY <1>1 DEF KnownColumns
<1>3. Inferred(c) \in Nat
  BY <1>2, ColumnsAssumption DEF Inferred, Internal, Names
<1>4. CASE policy.declared[o] = {}
  BY <1>2, <1>3, <1>4, NoneAssumption DEF Rank, RankUnder
<1>5. CASE policy.declared[o] # {}
  <2>1. c \in policy.declared[o]
    BY <1>5 DEF KnownColumns
  <2>2. Rank(o, c) = policy.rank[o][c]
    BY <1>5, <2>1 DEF Rank, RankUnder
  <2>3. policy.rank[o][c] \in Nat
    BY <1>1, <1>2
  <2> QED
    BY <1>2, <2>2, <2>3, NoneAssumption
<1> QED
  BY <1>4, <1>5

-----------------------------------------------------------------------------
(* What the guard returns *)

\* What all texts have that validate_sql has returned, in any state of the
\* dictionary.
Guarded(f) ==
    /\ f \in StatementType
    /\ f.reading = "query" /\ f.marks \cap {"blocked", "remote", "hinted"} = {}
    /\ f.tables # {} /\ f.tables \subseteq policy.allowed[role]
    /\ ColumnsAreCleared(f) /\ JoinsHaveConditions(f)
    /\ f.limit \in Nat /\ f.limit <= EffectiveMaxRows

\* A star that was left stays as long as the dictionary is away.
StarIsLeft(f) ==
    f.marks \cap Stars # {} /\ Cardinality(f.tables) = 1 =>
        \A o \in f.tables : \A c \in policy.declared[o] : Exceeds(Rank(o, c))

\* What the model is after aggregates and is filtered if f does, or is; and f still
\* does, or is, if it has lost nothing that stood beside a star.
Derived(f) ==
    /\ f.beside \in {sql.beside, {}}
    /\ IsAggregate(f) => IsAggregate(sql)
    /\ IsAggregate(sql) => IsAggregate(f) \/ f.beside # sql.beside

StaysFiltered(f) == LargeTablesAreFiltered(f) \/ f.beside # sql.beside

LEMMA CapIsNumber ==
  ASSUME role \in Roles
  PROVE  /\ EffectiveMaxRows \in Nat
         /\ EffectiveMaxRows <= RowCap[role] /\ EffectiveMaxRows <= ServerCap
BY RolesAssumption DEF EffectiveMaxRows, Smaller

LEMMA AppliedIsCapped ==
  ASSUME role \in Roles, NEW s \in StatementType
  PROVE  AppliedLimit(s) \in Nat /\ AppliedLimit(s) <= EffectiveMaxRows
<1>1. s.limit \in Nat \cup {None}
  BY DEF StatementType
<1> QED
  BY <1>1, CapIsNumber DEF AppliedLimit, Smaller

LEMMA ExpansionIsKnown ==
  ASSUME policy \in Policies, NEW s \in StatementType, NEW c \in Expansion(s)
  PROVE  /\ c \in Columns
         /\ \E o \in s.tables : Rank(o, c) # None /\ ~Exceeds(Rank(o, c))
<1>1. s.tables \subseteq Objects
  BY DEF StatementType
<1>2. PICK o \in s.tables : c \in VisibleColumns(o)
  BY DEF Expansion
<1>3. c \in KnownColumns(o) /\ ~Exceeds(Rank(o, c))
  BY <1>2 DEF VisibleColumns
<1> QED
  BY <1>1, <1>2, <1>3, KnownIsClassified

\* The columns of StatementType.
ColumnType ==
    [of : Objects \cup {None}, column : Columns, as : Names \cup {None},
     beside : BOOLEAN]

LEMMA StatementFields ==
  ASSUME NEW s \in StatementType
  PROVE  /\ s.reading \in Readings /\ s.marks \subseteq Marks
         /\ s.beside \subseteq {"grouped", "filtered"}
         /\ s.tables \subseteq Objects /\ s.shadowed \subseteq Objects
         /\ s.columns \subseteq ColumnType
         /\ s.heads \subseteq Names /\ s.picks \subseteq Names
         /\ s.limit \in Nat \cup {None}
BY DEF StatementType, ColumnType

LEMMA PlainlyIsTyped ==
  ASSUME policy \in Policies, NEW s \in StatementType, NEW x \in Plainly(s)
  PROVE  x \in ColumnType /\ x.of = None /\ x.column \in Expansion(s)
<1>1. PICK c \in Expansion(s) :
        x \in [of : {None}, column : {c}, beside : {FALSE},
               as : IF s.heads = {} THEN {c} ELSE s.heads]
  BY DEF Plainly
<1>2. c \in Columns /\ s.heads \subseteq Names
  BY ExpansionIsKnown, StatementFields
<1>3. x.as \in Names
  BY <1>1, <1>2 DEF Names
<1> QED
  BY <1>1, <1>2, <1>3 DEF ColumnType

\* The fields of a rewritten statement.
LEMMA RewrittenFields ==
  ASSUME policy \in Policies, role \in Roles, NEW s \in StatementType
  PROVE  LET f == Rewritten(s) IN
         /\ f.reading = s.reading /\ f.tables = s.tables /\ f.limit = AppliedLimit(s)
         /\ f.marks = (IF ExpandsStar(s) THEN s.marks \ Stars ELSE s.marks) \ {"hinted"}
         /\ f.beside = IF ExpandsStar(s) THEN {} ELSE s.beside
         /\ f.columns \subseteq s.columns \cup Plainly(s)
         /\ f.picks \subseteq s.picks \cup Expansion(s)
         /\ f \in StatementType
<1> DEFINE e == IF ExpandsStar(s) THEN Expanded(s) ELSE s
           f == Rewritten(s)
<1>1. /\ e \in StatementType /\ e.reading = s.reading /\ e.tables = s.tables
      /\ e.marks = IF ExpandsStar(s) THEN s.marks \ Stars ELSE s.marks
      /\ e.beside = IF ExpandsStar(s) THEN {} ELSE s.beside
      /\ e.columns \subseteq s.columns \cup Plainly(s)
      /\ e.picks \subseteq s.picks \cup Expansion(s)
  <2>1. CASE ~ExpandsStar(s)
    BY <2>1
  <2>2. CASE ExpandsStar(s)
    <3> DEFINE cs == {x \in s.columns : ~x.beside}
                       \cup (IF "star" \in s.marks THEN Plainly(s) ELSE {})
               ns == IF "all" \in s.marks THEN Expansion(s) ELSE s.picks
    <3>1. cs \subseteq ColumnType /\ ns \subseteq Names
      BY StatementFields, PlainlyIsTyped, ExpansionIsKnown DEF Names
    <3>2. cs \subseteq s.columns \cup Plainly(s) /\ ns \subseteq s.picks \cup Expansion(s)
      OBVIOUS
    <3>3. e = [s EXCEPT !.marks = @ \ Stars, !.beside = {}, !.columns = cs, !.picks = ns]
      BY <2>2 DEF Expanded
    <3> HIDE DEF cs, ns, e
    <3>4. s.marks \ Stars \subseteq Marks
      BY StatementFields
    <3>5. /\ e.reading = s.reading /\ e.tables = s.tables /\ e.marks = s.marks \ Stars
          /\ e.beside = {} /\ e.columns = cs /\ e.picks = ns
      BY <3>3 DEF StatementType
    <3>6. e \in StatementType
      BY <3>1, <3>3, <3>4 DEF StatementType, ColumnType
    <3> QED
      BY <2>2, <3>2, <3>5, <3>6
  <2> QED
    BY <2>1, <2>2
<1>2. f = [e EXCEPT !.marks = @ \ {"hinted"}, !.limit = AppliedLimit(s)]
  BY DEF Rewritten
<1> HIDE DEF e, f
<1>3. AppliedLimit(s) \in Nat /\ e.marks \ {"hinted"} \subseteq Marks
  BY <1>1, AppliedIsCapped, StatementFields
<1>4. /\ f.reading = e.reading /\ f.tables = e.tables /\ f.limit = AppliedLimit(s)
      /\ f.marks = e.marks \ {"hinted"} /\ f.beside = e.beside
      /\ f.columns = e.columns /\ f.picks = e.picks
  BY <1>1, <1>2 DEF StatementType
<1>5. f \in StatementType
  BY <1>1, <1>2, <1>3 DEF StatementType
<1> QED
  BY <1>1, <1>4, <1>5 DEF f

\* What is named in a rewritten statement was named before, or is seen by the role.
LEMMA RewrittenMentions ==
  ASSUME policy \in Policies, role \in Roles, NEW s \in StatementType,
         NEW x \in Mentions(Rewritten(s))
  PROVE  x \in Mentions(s) \/ \E c \in Expansion(s) : x = <<None, c>>
<1> DEFINE f == Rewritten(s)
<1>1. f.columns \subseteq s.columns \cup Plainly(s)
      /\ f.picks \subseteq s.picks \cup Expansion(s)
  BY RewrittenFields
<1> HIDE DEF f
<1>2. CASE \E y \in f.columns : x = <<y.of, y.column>>
  <2>1. PICK y \in f.columns : x = <<y.of, y.column>>
    BY <1>2
  <2>2. CASE y \in s.columns
    BY <2>1, <2>2 DEF Mentions
  <2>3. CASE y \in Plainly(s)
    BY <2>1, <2>3, PlainlyIsTyped
  <2> QED
    BY <1>1, <2>1, <2>2, <2>3
<1>3. CASE \E n \in f.picks : x = <<None, n>>
  BY <1>1, <1>3 DEF Mentions
<1>4. x \in Mentions(f)
  BY DEF f
<1> QED
  BY <1>2, <1>3, <1>4 DEF Mentions

\* What validate_sql returns of a statement it accepts.
LEMMA AcceptedIsGuarded ==
  ASSUME policy \in Policies, role \in Roles, NEW s \in StatementType, Accepts(s)
  PROVE  Guarded(Rewritten(s)) /\ StarIsLeft(Rewritten(s))
<1> DEFINE f == Rewritten(s)
<1>1. /\ f.reading = s.reading /\ f.tables = s.tables /\ f.limit = AppliedLimit(s)
      /\ f.marks = (IF ExpandsStar(s) THEN s.marks \ Stars ELSE s.marks) \ {"hinted"}
      /\ f \in StatementType
  BY RewrittenFields
<1> HIDE DEF f
<1>2. s.tables \subseteq Objects
  BY StatementFields
<1>3. ColumnsAreCleared(f)
  <2>1. SUFFICES ASSUME NEW x \in Mentions(f) PROVE IsCleared(f, x)
    BY DEF ColumnsAreCleared
  <2>2. IsCleared(s, x) => IsCleared(f, x)
    BY <1>1 DEF IsCleared
  <2>3. CASE x \in Mentions(s)
    BY <2>2, <2>3 DEF Accepts, IsSafe, ColumnsAreCleared
  <2>4. CASE \E c \in Expansion(s) : x = <<None, c>>
    <3>1. PICK c \in Expansion(s) : x = <<None, c>>
      BY <2>4
    <3>2. PICK o \in s.tables : Rank(o, c) # None /\ ~Exceeds(Rank(o, c))
      BY ExpansionIsKnown
    <3>3. Candidates(s.tables, None) = s.tables
      BY <1>2, NoneAssumption DEF Candidates
    <3>4. IsCleared(s, <<None, c>>)
      BY <3>2, <3>3 DEF IsCleared
    <3> QED
      BY <2>2, <3>1, <3>4
  <2> QED
    BY <2>3, <2>4, RewrittenMentions DEF f
<1>4. Guarded(f)
  <2>1. f.limit \in Nat /\ f.limit <= EffectiveMaxRows
    BY <1>1, AppliedIsCapped
  <2>2. f.reading = "query" /\ f.marks \cap {"blocked", "remote", "hinted"} = {}
    BY <1>1 DEF Accepts, IsSafe, IsOneQuery, IsFreeOfBlockedConstructs,
                ResolvesToApprovedObjects
  <2>3. f.tables # {} /\ f.tables \subseteq policy.allowed[role]
    BY <1>1 DEF Accepts, IsSafe, ResolvesToApprovedObjects, Authorized
  <2>4. JoinsHaveConditions(f)
    BY <1>1 DEF Accepts, IsSafe, JoinsHaveConditions
  <2> QED
    BY <1>1, <1>3, <2>1, <2>2, <2>3, <2>4 DEF Guarded
<1>5. StarIsLeft(f)
  <2>1. SUFFICES ASSUME f.marks \cap Stars # {}, Cardinality(f.tables) = 1,
                        NEW o \in f.tables, NEW c \in policy.declared[o]
                 PROVE  Exceeds(Rank(o, c))
    BY DEF StarIsLeft
  <2>2. Expansion(s) = {}
    BY <1>1, <2>1 DEF ExpandsStar
  <2>3. VisibleColumns(o) = {}
    BY <1>1, <2>1, <2>2 DEF Expansion
  <2>4. c \in KnownColumns(o)
    BY DEF KnownColumns
  <2> QED
    BY <2>3, <2>4 DEF VisibleColumns
<1> QED
  BY <1>4, <1>5 DEF f

\* What is lost of an accepted statement stood beside a star.
LEMMA RewrittenIsDerived ==
  ASSUME policy \in Policies, role \in Roles, NEW s \in StatementType, Derived(s),
         LargeTablesAreFiltered(s)
  PROVE  Derived(Rewritten(s)) /\ StaysFiltered(Rewritten(s))
<1> DEFINE f == Rewritten(s)
<1>1. /\ f.tables = s.tables
      /\ f.marks = (IF ExpandsStar(s) THEN s.marks \ Stars ELSE s.marks) \ {"hinted"}
      /\ f.beside = IF ExpandsStar(s) THEN {} ELSE s.beside
  BY RewrittenFields
<1> HIDE DEF f
<1>2. f.marks \cap {"grouped", "filtered"} = s.marks \cap {"grouped", "filtered"}
  BY <1>1 DEF Stars
<1>3. CASE f.beside = s.beside
  <2>1. IsAggregate(f) <=> IsAggregate(s)
    BY <1>2, <1>3 DEF IsAggregate
  <2>2. LargeTablesAreFiltered(f)
    BY <1>1, <1>2, <1>3, <2>1 DEF LargeTablesAreFiltered
  <2> QED
    BY <1>3, <2>1, <2>2 DEF Derived, StaysFiltered, f
<1>4. CASE f.beside # s.beside
  <2>1. f.beside = {} /\ s.beside = sql.beside
    BY <1>1, <1>4 DEF Derived
  <2>2. IsAggregate(f) => IsAggregate(s)
    BY <1>2, <2>1 DEF IsAggregate
  <2> QED
    BY <1>4, <2>1, <2>2 DEF Derived, StaysFiltered, f
<1> QED
  BY <1>3, <1>4

\* It is safe again, and only the return of the dictionary changes it.
LEMMA GuardedStays ==
  ASSUME policy \in Policies, role \in Roles, NEW f, Guarded(f), StarIsLeft(f),
         \A o \in f.tables : Authorized(o)
  PROVE  /\ IsSafe(f)
         /\ Rewritten(f) = f \/ (f.marks \cap Stars # {} /\ reachable)
<1>1. IsSafe(f)
  BY DEF Guarded, IsSafe, IsOneQuery, IsFreeOfBlockedConstructs,
         ResolvesToApprovedObjects
<1>2. CASE ExpandsStar(f)
  <2>1. SUFFICES ASSUME ~reachable PROVE FALSE
    BY <1>1, <1>2 DEF ExpandsStar
  <2>2. Cardinality(f.tables) = 1
    BY <1>2 DEF ExpandsStar, Expansion
  <2>3. PICK o \in f.tables : VisibleColumns(o) # {}
    BY <1>2 DEF ExpandsStar, Expansion
  <2>4. PICK c \in VisibleColumns(o) : TRUE
    BY <2>3
  <2>5. c \in policy.declared[o]
    BY <2>1, <2>4 DEF VisibleColumns, KnownColumns
  <2> QED
    BY <1>2, <2>2, <2>4, <2>5 DEF ExpandsStar, StarIsLeft, VisibleColumns
<1>3. CASE ~ExpandsStar(f)
  <2>1. f.limit # None /\ f.limit \in Nat /\ f.limit <= EffectiveMaxRows
    BY NoneAssumption DEF Guarded
  <2>2. AppliedLimit(f) = f.limit
    BY <2>1, CapIsNumber DEF AppliedLimit, Smaller
  <2>3. f.marks \ {"hinted"} = f.marks
    BY DEF Guarded
  <2>4. Rewritten(f) = [f EXCEPT !.marks = f.marks, !.limit = f.limit]
    BY <1>3, <2>2, <2>3 DEF Rewritten
  <2>5. [f EXCEPT !.marks = f.marks, !.limit = f.limit] = f
    BY DEF Guarded, StatementType
  <2> QED
    BY <1>1, <2>4, <2>5
<1> QED
  BY <1>2, <1>3

-----------------------------------------------------------------------------
(* What the masking lets through *)

\* A value that is shown of a result of the database, for a role cleared for it.
IsClear(cell) ==
    cell.raw =>
        /\ Contents[cell.column] <= Clearance[role]
        /\ \A o \in cell.from \cap cell.tables :
             Exceeds(Rank(o, cell.column)) =>
                 \/ cell.starred /\ cell.as # cell.column
                 \/ cell.of # o /\ ClearedElsewhere(o, cell.column, cell.tables)

\* What a name is declared too high for is masked, if no other object of the
\* statement declares it lower.
LEMMA NameIsMasked ==
  ASSUME policy \in Policies, role \in Roles, NEW T, T \subseteq Objects,
         NEW o \in T, NEW c \in Columns, Exceeds(Rank(o, c)),
         ~PolicyRuleApplies(c, T), ~ColumnRuleApplies(c, T)
  PROVE  ClearedElsewhere(o, c, T)
<1>1. Clearance[role] \in Nat /\ Clearance[role] >= Internal
  BY KnownClearance
<1>2. NameRules[c] \in Nat /\ ~(Clearance[role] < NameRules[c])
  BY ColumnsAssumption DEF Names, ColumnRuleApplies, Applies
<1>3. \A q \in T : policy.rank[q][c] \in Nat
  BY PolicyFields
<1>4. policy.declared[o] # {}
  <2>1. SUFFICES ASSUME policy.declared[o] = {} PROVE FALSE
    OBVIOUS
  <2>2. Rank(o, c) = Inferred(c)
    BY <2>1 DEF Rank, RankUnder
  <2> QED
    BY <1>1, <1>2, <2>2 DEF Inferred, Exceeds, Internal
<1>5. c \in policy.declared[o]
  BY <1>4 DEF Rank, RankUnder, Exceeds
<1>6. Rank(o, c) = policy.rank[o][c]
  BY <1>5 DEF Rank, RankUnder
<1>7. Applies(policy.rank[o][c])
  BY <1>1, <1>3, <1>6 DEF Exceeds, Applies
<1>8. PICK q \in T : c \in policy.declared[q] /\ ~Applies(policy.rank[q][c])
  BY <1>5, <1>7 DEF PolicyRuleApplies
<1>9. Rank(q, c) = policy.rank[q][c]
  BY <1>8 DEF Rank, RankUnder
<1>10. Rank(q, c) # None /\ ~Exceeds(Rank(q, c))
  BY <1>1, <1>3, <1>8, <1>9, NoneAssumption DEF Exceeds, Applies
<1> QED
  BY <1>7, <1>8, <1>10 DEF ClearedElsewhere

\* What the guard lets be named of an object above clearance is not qualified by it,
\* and cleared in another.
LEMMA NamedIsCleared ==
  ASSUME NEW f, Guarded(f), NEW x \in f.columns, NEW o \in f.tables,
         Exceeds(Rank(o, x.column)), x.of \notin f.tables \ {o}
  PROVE  x.of # o /\ ClearedElsewhere(o, x.column, f.tables)
<1> DEFINE n == x.column
<1>1. IsCleared(f, <<x.of, n>>)
  BY DEF Guarded, ColumnsAreCleared, Mentions
<1>2. o \in Candidates(f.tables, x.of) /\ Rank(o, n) # None
  BY DEF Candidates, Exceeds
<1>3. PICK q \in Candidates(f.tables, x.of) : Rank(q, n) # None /\ ~Exceeds(Rank(q, n))
  BY <1>1, <1>2 DEF IsCleared
<1>4. q # o
  BY <1>3
<1>5. x.of # o
  BY <1>3, <1>4 DEF Candidates
<1> QED
  BY <1>3, <1>4, <1>5 DEF Candidates, ClearedElsewhere

LEMMA StarredFields ==
  ASSUME NEW f \in StatementType, NEW r \in Starred(f)
  PROVE  /\ r.column \in Columns /\ r.as \in Names /\ r.of = None /\ r.starred = TRUE
         /\ \E o \in Objects : r.from = {o}
<1> DEFINE Renamed(o, c) == [as : IF f.heads = {} THEN {c} ELSE f.heads, column : {c},
                             of : {None}, from : {{o}}, starred : {TRUE}]
           Expanse(o) == UNION {Renamed(o, c) : c \in ColumnsOf[o]}
<1>1. r \in UNION {Expanse(o) : o \in Reads(f)}
  <2>1. f.marks \cap {"star", "dotstar"} # {}
    BY DEF Starred
  <2> QED
    BY <2>1 DEF Starred
<1> HIDE DEF Expanse
<1>2. PICK o \in Reads(f) : r \in Expanse(o)
  BY <1>1
<1>3. r \in UNION {Renamed(o, c) : c \in ColumnsOf[o]}
  BY <1>2 DEF Expanse
<1> HIDE DEF Renamed
<1>4. PICK c \in ColumnsOf[o] : r \in Renamed(o, c)
  BY <1>3
<1>5. o \in Objects /\ f.heads \subseteq Names
  BY StatementFields DEF Reads
<1>6. c \in Columns
  BY <1>5, ColumnsAssumption
<1> QED
  BY <1>4, <1>5, <1>6 DEF Renamed, Names

LEMMA ListedFields ==
  ASSUME NEW f \in StatementType, NEW r \in Listed(f)
  PROVE  \E x \in f.columns :
           /\ x \in ColumnType /\ x.as \in Names
           /\ r = [as |-> x.as, column |-> x.column, of |-> x.of, from |-> Sources(f, x),
                   starred |-> FALSE]
<1>1. PICK x \in f.columns :
        /\ x.as # None
        /\ r = [as |-> x.as, column |-> x.column, of |-> x.of, from |-> Sources(f, x),
                starred |-> FALSE]
  BY DEF Listed, Selected
<1>2. x \in ColumnType
  BY StatementFields
<1> QED
  BY <1>1, <1>2 DEF ColumnType

LEMMA MaskedIsClear ==
  ASSUME policy \in Policies, role \in Roles, NEW f, Guarded(f),
         NEW cell \in Masked(f)
  PROVE  IsClear(cell)
<1>1. PICK r \in Output(f) :
        cell = [as |-> r.as, column |-> r.column, of |-> r.of, from |-> r.from,
                starred |-> r.starred, tables |-> f.tables,
                raw |-> ~IsMasked(r.as, r.column, f.tables)]
  BY DEF Masked
<1>2. f \in StatementType /\ f.tables \subseteq Objects
  BY StatementFields DEF Guarded
<1>3. r \in Starred(f) \/ r \in Listed(f)
  BY DEF Output
<1>4. r.column \in Columns
  <2>1. CASE r \in Starred(f)
    BY <1>2, <2>1, StarredFields
  <2>2. CASE r \in Listed(f)
    <3>1. PICK x \in f.columns :
            /\ x \in ColumnType
            /\ r = [as |-> x.as, column |-> x.column, of |-> x.of, from |-> Sources(f, x),
                    starred |-> FALSE]
      BY <1>2, <2>2, ListedFields
    <3> QED
      BY <3>1 DEF ColumnType
  <2> QED
    BY <1>3, <2>1, <2>2
<1>5. SUFFICES ASSUME ~IsMasked(r.as, r.column, f.tables)
               PROVE  /\ Contents[r.column] <= Clearance[role]
                      /\ \A o \in r.from \cap f.tables :
                           Exceeds(Rank(o, r.column)) =>
                               \/ r.starred /\ r.as # r.column
                               \/ r.of # o /\ ClearedElsewhere(o, r.column, f.tables)
  BY <1>1 DEF IsClear
<1>6. /\ ~PolicyRuleApplies(r.as, f.tables) /\ ~ColumnRuleApplies(r.as, f.tables)
      /\ ~ScannerApplies(r.column)
  BY <1>5 DEF IsMasked
<1>7. Contents[r.column] <= Clearance[role]
  BY <1>4, <1>6, KnownClearance, MaskingAssumption DEF ScannerApplies, Applies
<1>8. SUFFICES ASSUME NEW o \in r.from, o \in f.tables, Exceeds(Rank(o, r.column))
               PROVE  \/ r.starred /\ r.as # r.column
                      \/ r.of # o /\ ClearedElsewhere(o, r.column, f.tables)
  BY <1>7
<1>9. CASE r \in Starred(f)
  <2>1. r.starred /\ r.of # o
    BY <1>2, <1>8, <1>9, StarredFields, NoneAssumption
  <2>2. CASE r.as = r.column
    BY <1>2, <1>4, <1>6, <1>8, <2>1, <2>2, NameIsMasked
  <2> QED
    BY <2>1, <2>2
<1>10. CASE r \in Listed(f)
  <2>1. PICK x \in f.columns :
          r = [as |-> x.as, column |-> x.column, of |-> x.of, from |-> Sources(f, x),
               starred |-> FALSE]
    BY <1>2, <1>10, ListedFields
  <2>2. o \in Candidates(Reads(f), x.of)
    BY <1>8, <2>1 DEF Sources
  <2>3. x.of \notin f.tables \ {o}
    BY <2>2 DEF Candidates, Reads
  <2> QED
    BY <1>8, <2>1, <2>3, NamedIsCleared
<1> QED
  BY <1>3, <1>9, <1>10

-----------------------------------------------------------------------------
(* The invariant *)

\* What may run under which tool.
Licensed(tool, f) ==
    \/ tool \in {"execute", "compare"} /\ (role \in RawRoles \/ f \in accepted)
    \/ /\ tool \in Measures /\ IsAggregate(sql)
       /\ IsAggregate(f) \/ f.beside # sql.beside
    \/ tool \in {"catalog", "rule"}

RolesInv == policy \in Policies /\ role = ChatRole /\ sql \in Statements

AcceptedInv ==
    /\ approved \subseteq accepted
    /\ \A f \in accepted : Guarded(f) /\ StarIsLeft(f) /\ Derived(f) /\ StaysFiltered(f)

PreparedInv ==
    /\ pc = "run" =>
         /\ \A f \in prepared.queries : Guarded(f) /\ Licensed(prepared.tool, f)
         /\ prepared.tool = "compare" => role \in Reconcilers
    /\ pc \in {"run", "measure"} => \A cell \in prepared.cells : IsClear(cell)

RanInv ==
    \A r \in ran : /\ r[3] = role /\ Guarded(r[2]) /\ Licensed(r[1], r[2])
                   /\ r[1] = "compare" => role \in Reconcilers

ShownInv == \A cell \in shown : IsClear(cell)

ChatInv == RolesInv /\ AcceptedInv /\ PreparedInv /\ RanInv /\ ShownInv

LEMMA RoleIsKnown ==
  ASSUME RolesInv
  PROVE  role \in Roles /\ policy \in Policies /\ sql \in StatementType
BY ChatRolesAssumption, StatementsAssumption DEF RolesInv, ChatRole

LEMMA InitChat == Init => ChatInv
BY DEF Init, ChatInv, RolesInv, AcceptedInv, PreparedInv, RanInv, ShownInv

\* All is judged by the policy, the role and what the model is after alone.
LEMMA JudgedAlike ==
  ASSUME policy' = policy, role' = role, sql' = sql, NEW CONSTANT f
  PROVE  /\ Guarded(f)' <=> Guarded(f)
         /\ StarIsLeft(f)' <=> StarIsLeft(f)
         /\ Derived(f)' <=> Derived(f)
         /\ StaysFiltered(f)' <=> StaysFiltered(f)
         /\ IsClear(f)' <=> IsClear(f)
         /\ accepted \subseteq accepted' =>
              \A tool : Licensed(tool, f) => Licensed(tool, f)'
<1>1. \A o, n : Rank(o, n)' = Rank(o, n)
  BY DEF Rank
<1>2. \A rank : Exceeds(rank)' <=> Exceeds(rank)
  BY DEF Exceeds
<1>3. \A x : IsCleared(f, x)' <=> IsCleared(f, x)
  BY <1>1, <1>2 DEF IsCleared
<1>4. Guarded(f)' <=> Guarded(f)
  BY <1>3 DEF Guarded, ColumnsAreCleared, JoinsHaveConditions, EffectiveMaxRows
<1>5. StarIsLeft(f)' <=> StarIsLeft(f)
  BY <1>1, <1>2 DEF StarIsLeft
<1>6. (Derived(f)' <=> Derived(f)) /\ (StaysFiltered(f)' <=> StaysFiltered(f))
  BY DEF Derived, StaysFiltered, IsAggregate, LargeTablesAreFiltered
<1>7. IsClear(f)' <=> IsClear(f)
  BY <1>1, <1>2 DEF IsClear, ClearedElsewhere
<1>8. accepted \subseteq accepted' =>
        \A tool : Licensed(tool, f) => Licensed(tool, f)'
  BY DEF Licensed, IsAggregate
<1> QED
  BY <1>4, <1>5, <1>6, <1>7, <1>8

\* The part of the invariant a step leaves alone.
LEMMA KeptAlike ==
  ASSUME ChatInv, policy' = policy, role' = role, binding' = binding, sql' = sql,
         approved' \subseteq accepted', accepted \subseteq accepted',
         \A f \in accepted' \ accepted :
           Guarded(f) /\ StarIsLeft(f) /\ Derived(f) /\ StaysFiltered(f)
  PROVE  /\ RolesInv' /\ AcceptedInv'
         /\ ran' = ran => RanInv'
         /\ shown' = shown => ShownInv'
         /\ (pc' \notin {"run", "measure"} \/ (pc' = pc /\ prepared' = prepared))
              => PreparedInv'
<1>1. RolesInv'
  BY DEF ChatInv, RolesInv, ChatRole
<1>2. AcceptedInv'
  <2>1. SUFFICES ASSUME NEW f \in accepted'
                 PROVE  (Guarded(f) /\ StarIsLeft(f) /\ Derived(f) /\ StaysFiltered(f))'
    BY DEF AcceptedInv
  <2>2. Guarded(f) /\ StarIsLeft(f) /\ Derived(f) /\ StaysFiltered(f)
    BY DEF ChatInv, AcceptedInv
  <2> QED
    BY <2>2, JudgedAlike
<1>3. ASSUME ran' = ran PROVE RanInv'
  <2>1. SUFFICES ASSUME NEW r \in ran
                 PROVE  /\ r[3] = role /\ Guarded(r[2])' /\ Licensed(r[1], r[2])'
                        /\ r[1] = "compare" => role \in Reconcilers
    BY <1>3 DEF RanInv
  <2>2. /\ r[3] = role /\ Guarded(r[2]) /\ Licensed(r[1], r[2])
        /\ r[1] = "compare" => role \in Reconcilers
    BY DEF ChatInv, RanInv
  <2> QED
    BY <2>2, JudgedAlike
<1>4. ASSUME shown' = shown PROVE ShownInv'
  <2>1. SUFFICES ASSUME NEW cell \in shown PROVE IsClear(cell)'
    BY <1>4 DEF ShownInv
  <2> QED
    BY JudgedAlike DEF ChatInv, ShownInv
<1>5. ASSUME pc' = pc, prepared' = prepared, pc \in {"run", "measure"} PROVE PreparedInv'
  <2>1. ASSUME NEW cell \in prepared.cells PROVE IsClear(cell)'
    BY <1>5, <2>1, JudgedAlike DEF ChatInv, PreparedInv
  <2>2. ASSUME pc = "run", NEW f \in prepared.queries
        PROVE  Guarded(f)' /\ Licensed(prepared.tool, f)'
    <3>1. Guarded(f) /\ Licensed(prepared.tool, f)
      BY <2>2 DEF ChatInv, PreparedInv
    <3>2. ASSUME NEW CONSTANT t, Licensed(t, f) PROVE Licensed(t, f)'
      BY <3>2, JudgedAlike
    <3>3. Guarded(f)'
      BY <3>1, JudgedAlike
    <3> QED
      BY <1>5, <3>1, <3>2, <3>3
  <2> QED
    BY <1>5, <2>1, <2>2 DEF ChatInv, PreparedInv
<1> QED
  BY <1>1, <1>2, <1>3, <1>4, <1>5 DEF PreparedInv

\* Whatever the model claims, a tool runs under the role of the process.
LEMMA EnterKeepsRole ==
  ASSUME RolesInv, Enter
  PROVE  role' = role /\ role \in Roles /\ pc = "dispatch"
BY RoleIsKnown DEF Enter, Identity, Stripped, RolesInv, ChatRole

LEMMA ReplyEndsRun ==
  ASSUME NEW fits, Reply(fits)
  PROVE  pc' \in {"complete", "dispatch"}
BY DEF Reply

LEMMA SendableIsDerived ==
  ASSUME ChatInv, NEW s \in Sendable
  PROVE  s \in StatementType /\ Derived(s)
<1>1. CASE s = sql
  BY <1>1, RoleIsKnown DEF ChatInv, Derived
<1>2. CASE s \in accepted
  BY <1>2 DEF ChatInv, AcceptedInv, Guarded
<1> QED
  BY <1>1, <1>2 DEF Sendable

\* What becomes of a statement that is accepted.
LEMMA RewritingIsGuarded ==
  ASSUME ChatInv, NEW s \in Sendable, Accepts(s)
  PROVE  /\ Guarded(Rewritten(s)) /\ StarIsLeft(Rewritten(s))
         /\ Derived(Rewritten(s)) /\ StaysFiltered(Rewritten(s))
<1>1. s \in StatementType /\ Derived(s) /\ role \in Roles /\ policy \in Policies
  BY SendableIsDerived, RoleIsKnown DEF ChatInv
<1> QED
  BY <1>1, AcceptedIsGuarded, RewrittenIsDerived DEF Accepts

LEMMA PrepareKeeps ==
  ASSUME ChatInv, role' = role, NEW CONSTANT tool, NEW CONSTANT F, NEW CONSTANT C,
         Prepare(tool, F, C),
         \A f \in F : Guarded(f) /\ Licensed(tool, f),
         tool = "compare" => role \in Reconcilers,
         \A cell \in C : IsClear(cell)
  PROVE  ChatInv'
<1> USE DEF Prepare, environment, conversation, results
<1>1. RolesInv' /\ AcceptedInv' /\ RanInv' /\ ShownInv'
  BY KeptAlike DEF ChatInv, AcceptedInv
<1>2. policy' = policy /\ sql' = sql /\ accepted \subseteq accepted'
  OBVIOUS
<1>3. ASSUME NEW f \in F PROVE Guarded(f)' /\ Licensed(tool, f)'
  BY <1>2, <1>3, JudgedAlike
<1>4. ASSUME NEW cell \in C PROVE IsClear(cell)'
  BY <1>2, <1>4, JudgedAlike
<1>5. PreparedInv'
  <2>1. prepared'.tool = tool /\ prepared'.queries = F /\ prepared'.cells = C
        /\ pc' = "run"
    OBVIOUS
  <2> QED
    BY <1>3, <1>4, <2>1 DEF PreparedInv
<1> QED
  BY <1>1, <1>5 DEF ChatInv

\* What has been sent, and what is shown or kept of it.
LEMMA RunKeeps == ChatInv /\ Run => ChatInv'
<1> SUFFICES ASSUME ChatInv, Run PROVE ChatInv'
  OBVIOUS
<1>1. /\ policy' = policy /\ role' = role /\ accepted' = accepted /\ sql' = sql
      /\ binding' = binding /\ approved' = approved /\ pc = "run"
  BY DEF Run, environment
<1>2. RolesInv' /\ AcceptedInv'
      /\ (shown' = shown => ShownInv')
      /\ (pc' \notin {"run", "measure"} => PreparedInv')
  BY <1>1, KeptAlike DEF ChatInv, AcceptedInv
<1>3. PICK sent \in SUBSET prepared.queries \ {{}} :
        /\ ran' = ran \cup {<<prepared.tool, f, role>> : f \in sent}
        /\ \/ Reply(TRUE) /\ UNCHANGED shown
           \/ /\ sent = prepared.queries /\ \A f \in sent : IsValid(f)
              /\ IF prepared.tool \in Measures
                 THEN /\ \A f \in sent : IsCount(f)
                      /\ Proceed(prepared.cells \cup UNION {Counts(f) : f \in sent})
                 ELSE Proceed(prepared.cells \cup UNION {Masked(f) : f \in sent})
  BY DEF Run
<1>4. \A f \in sent : Guarded(f) /\ Licensed(prepared.tool, f)
  BY <1>1, <1>3 DEF ChatInv, PreparedInv
<1>5. RanInv'
  <2>1. SUFFICES ASSUME NEW r \in ran'
                 PROVE  /\ r[3] = role /\ Guarded(r[2])' /\ Licensed(r[1], r[2])'
                        /\ r[1] = "compare" => role \in Reconcilers
    BY <1>1 DEF RanInv
  <2>2. r \in ran \/ \E f \in sent : r = <<prepared.tool, f, role>>
    BY <1>3
  <2>3. /\ r[3] = role /\ Guarded(r[2]) /\ Licensed(r[1], r[2])
        /\ r[1] = "compare" => role \in Reconcilers
    BY <1>1, <1>4, <2>2 DEF ChatInv, RanInv, PreparedInv
  <2> QED
    BY <1>1, <2>3, JudgedAlike
<1>6. ASSUME NEW f \in sent, NEW cell \in Masked(f) PROVE IsClear(cell)
  BY <1>4, <1>6, MaskedIsClear, RoleIsKnown DEF ChatInv
<1>7. CASE Reply(TRUE) /\ UNCHANGED shown
  BY <1>2, <1>5, <1>7, ReplyEndsRun DEF ChatInv
<1>8. ASSUME NEW cells, Proceed(cells), \A cell \in cells : IsClear(cell)
      PROVE  ChatInv'
  <2>1. CASE prepared.tool \in {"rule", "total"}
    <3>1. prepared' = [prepared EXCEPT !.cells = cells] /\ pc' = "measure" /\ shown' = shown
      BY <1>8, <2>1 DEF Proceed
    <3>2. ASSUME NEW cell \in prepared'.cells PROVE IsClear(cell)'
      <4>1. cell \in cells
        BY <3>1, <3>2 
      <4>2. IsClear(cell)
        BY <1>8, <4>1
      <4> QED
        BY <1>1, <4>2, JudgedAlike
    <3> QED
      BY <1>2, <1>5, <3>1, <3>2 DEF ChatInv, PreparedInv
  <2>2. CASE prepared.tool \notin {"rule", "total"}
    <3>1. Reply(TRUE) /\ shown' = shown \cup cells
      BY <1>8, <2>2 DEF Proceed
    <3>2. ASSUME NEW cell \in shown' PROVE IsClear(cell)'
      <4>1. IsClear(cell)
        BY <1>8, <3>1, <3>2 DEF ChatInv, ShownInv
      <4> QED
        BY <1>1, <4>1, JudgedAlike
    <3> QED
      BY <1>2, <1>5, <3>1, <3>2, ReplyEndsRun DEF ChatInv, ShownInv
  <2> QED
    BY <2>1, <2>2
<1>9. \A cell \in prepared.cells : IsClear(cell)
  BY <1>1 DEF ChatInv, PreparedInv
<1>10. \A f \in sent : Counts(f) \subseteq Masked(f)
  BY DEF Counts
<1>11. CASE Proceed(prepared.cells \cup UNION {Counts(f) : f \in sent})
  BY <1>6, <1>8, <1>9, <1>10, <1>11
<1>12. CASE Proceed(prepared.cells \cup UNION {Masked(f) : f \in sent})
  BY <1>6, <1>8, <1>9, <1>12
<1> QED
  BY <1>3, <1>7, <1>11, <1>12

LEMMA ValidateKeeps == ChatInv /\ Validate => ChatInv'
<1> SUFFICES ASSUME ChatInv, Validate PROVE ChatInv'
  OBVIOUS
<1>1. PICK s \in Sendable : /\ Accepts(s)
                            /\ approved' = approved \cup {Rewritten(s)}
                            /\ accepted' = accepted \cup {Rewritten(s)}
  BY DEF Validate
<1>2. RolesInv /\ role' = role
  BY EnterKeepsRole DEF Validate, ChatInv
<1>3. \A f \in accepted' \ accepted :
        Guarded(f) /\ StarIsLeft(f) /\ Derived(f) /\ StaysFiltered(f)
  BY <1>1, RewritingIsGuarded
<1>4. approved' \subseteq accepted' /\ accepted \subseteq accepted'
  BY <1>1 DEF ChatInv, AcceptedInv
<1>5. policy' = policy /\ binding' = binding /\ sql' = sql /\ ran' = ran /\ shown' = shown
  BY DEF Validate, environment, results
<1>6. pc' \notin {"run", "measure"}
  BY ReplyEndsRun DEF Validate
<1> QED
  BY <1>2, <1>3, <1>4, <1>5, <1>6, KeptAlike DEF ChatInv

LEMMA ChatStep == ChatInv /\ [Next]_vars => ChatInv'
<1> SUFFICES ASSUME ChatInv, [Next]_vars PROVE ChatInv'
  OBVIOUS
<1> USE DEF environment, results, conversation
<1>1. RolesInv /\ approved \subseteq accepted /\ role \in Roles /\ policy \in Policies
  BY RoleIsKnown DEF ChatInv, AcceptedInv
<1>2. CASE AskForTools
  BY <1>1, <1>2, KeptAlike DEF AskForTools, ChatInv
<1>3. CASE Finish
  BY <1>1, <1>3, KeptAlike DEF Finish, End, ChatInv
<1>4. CASE AnswerAtOnce
  BY <1>1, <1>4, KeptAlike, EnterKeepsRole, ReplyEndsRun DEF AnswerAtOnce, ChatInv
<1>5. CASE Derail
  BY <1>1, <1>5, KeptAlike DEF Derail, End, ChatInv
<1>6. CASE Validate
  BY <1>6, ValidateKeeps
<1>7. CASE PrepareExecution
  <2>1. PICK s \in Sendable : IsPrepared(s) /\ Prepare("execute", {Rewritten(s)}, {})
    BY <1>7 DEF PrepareExecution
  <2>2. role' = role
    BY <1>1, <1>7, EnterKeepsRole DEF PrepareExecution
  <2>3. Guarded(Rewritten(s)) /\ Licensed("execute", Rewritten(s))
    BY <1>1, <2>1, RewritingIsGuarded DEF IsPrepared, IsApproved, Licensed
  <2>4. \A F : F = {Rewritten(s)} => ChatInv'
    BY <2>1, <2>2, <2>3, PrepareKeeps
  <2> QED
    BY <2>4
<1>8. CASE PrepareComparison
  <2>1. PICK s1 \in Sendable, s2 \in Sendable :
          /\ IsPrepared(s1) /\ IsPrepared(s2)
          /\ Prepare("compare", {Rewritten(s1), Rewritten(s2)}, {})
    BY <1>8 DEF PrepareComparison
  <2>2. role' = role /\ role \in Reconcilers
    BY <1>1, <1>8, EnterKeepsRole DEF PrepareComparison
  <2>3. ASSUME NEW s \in {s1, s2}
        PROVE  Guarded(Rewritten(s)) /\ Licensed("compare", Rewritten(s))
    BY <1>1, <2>1, RewritingIsGuarded DEF IsPrepared, IsApproved, Licensed
  <2>4. \A F : F = {Rewritten(s1), Rewritten(s2)} => ChatInv'
    BY <2>1, <2>2, <2>3, PrepareKeeps
  <2> QED
    BY <2>4
<1>9. CASE PrepareMetric
  <2>1. PICK s \in Sendable : /\ Accepts(s) /\ IsAggregate(s)
                              /\ Prepare(IF prepared.tool = "rule" THEN "total" ELSE "failed",
                                         {Rewritten(s)}, prepared.cells)
    BY <1>9 DEF PrepareMetric
  <2>2. role' = role /\ pc = "measure"
    BY <1>9 DEF PrepareMetric
  <2>3. Guarded(Rewritten(s)) /\ Derived(Rewritten(s)) /\ IsAggregate(sql)
    BY <2>1, SendableIsDerived, RewritingIsGuarded DEF Derived
  <2>4. \A tool \in Measures : Licensed(tool, Rewritten(s))
    BY <2>3 DEF Derived, Licensed
  <2>5. \A cell \in prepared.cells : IsClear(cell)
    BY <2>2 DEF ChatInv, PreparedInv
  <2>6. \A tool \in Measures : \A F, C :
          Prepare(tool, F, C) /\ F = {Rewritten(s)} /\ C = prepared.cells => ChatInv'
    BY <2>2, <2>3, <2>4, <2>5, PrepareKeeps DEF Measures
  <2> QED
    BY <2>1, <2>6 DEF Measures
<1>14. CASE PrepareCatalog
  <2>1. PICK tool \in {"catalog", "rule"} :
          Accepts(CatalogSql) /\ Prepare(tool, {Rewritten(CatalogSql)}, {})
    BY <1>14 DEF PrepareCatalog
  <2>2. role' = role
    BY <1>1, <1>14, EnterKeepsRole DEF PrepareCatalog
  <2>3. Guarded(Rewritten(CatalogSql))
    BY <1>1, <2>1, StatementsAssumption, AcceptedIsGuarded
  <2>4. Licensed(tool, Rewritten(CatalogSql))
    BY <2>1 DEF Licensed
  <2>5. \A F : F = {Rewritten(CatalogSql)} => ChatInv'
    BY <2>1, <2>2, <2>3, <2>4, PrepareKeeps
  <2> QED
    BY <2>5
<1>15. CASE GiveUp
  BY <1>1, <1>15, KeptAlike, ReplyEndsRun DEF GiveUp, ChatInv
<1>10. CASE Run
  BY <1>10, RunKeeps
<1>11. CASE Flip
  BY <1>1, <1>11, KeptAlike DEF Flip, ChatInv
<1>12. CASE Forget
  BY <1>1, <1>12, KeptAlike DEF Forget, ChatInv
<1>13. CASE UNCHANGED vars
  BY <1>1, <1>13, KeptAlike DEF vars, ChatInv
<1> QED
  BY <1>2, <1>3, <1>4, <1>5, <1>6, <1>7, <1>8, <1>9, <1>10, <1>11, <1>12, <1>13,
     <1>14, <1>15 DEF Next, Step

LEMMA ChatInvariant == Spec => []ChatInv
BY InitChat, ChatStep, PTL DEF Spec

-----------------------------------------------------------------------------
(* Theorems *)

\* Nothing that a role is not cleared for reaches the language model unmasked,
\* whatever the model sends and whenever the dictionary is away, but by a star that is
\* given other names and by names that are classified twice (sql_guard.py, masking.py).
THEOREM ClearanceHolds == Spec => []NothingAboveClearanceLeaves
<1>1. ChatInv => NothingAboveClearanceLeaves
  BY DEF ChatInv, RolesInv, ShownInv, IsClear, NothingAboveClearanceLeaves
<1> QED
  BY <1>1, ChatInvariant, PTL

\* What validate_sql returned is accepted again as it stands (sql_guard.py,
\* tools.py), but for a star left in an outage and for a filter lost beside a star.
THEOREM RewritingIsFinalAlways == Spec => []RewritingIsFinal
<1>1. ChatInv => RewritingIsFinal
  BY RoleIsKnown, GuardedStays DEF ChatInv, AcceptedInv, StaysFiltered, RewritingIsFinal
<1> QED
  BY <1>1, ChatInvariant, PTL

\* The database is only sent guarded queries, under the role of the process
\* (agent.py, tools.py).
THEOREM GuardHolds == Spec => []QueriesAreGuarded
<1>1. ASSUME ChatInv PROVE QueriesAreGuarded
  <2>1. SUFFICES ASSUME NEW r \in ran, NEW f, f = r[2]
                 PROVE
        /\ r[3] = ChatRole
        /\ f.reading = "query" /\ f.marks \cap {"blocked", "remote"} = {}
        /\ f.tables # {} /\ f.tables \subseteq policy.allowed[ChatRole]
        /\ \A x \in f.columns, o \in f.tables :
             Exceeds(Rank(o, x.column)) =>
                 \/ x.of \in f.tables \ {o}
                 \/ x.of # o /\ ClearedElsewhere(o, x.column, f.tables)
        /\ f.limit <= RowCap[ChatRole] /\ f.limit <= ServerCap
        /\ Licensed(r[1], f)
        /\ r[1] = "compare" => ChatRole \in Reconcilers
    BY <1>1 DEF QueriesAreGuarded, Licensed, ChatInv, RolesInv
  <2>2. /\ role = ChatRole /\ role \in Roles
        /\ r[3] = role /\ Guarded(f) /\ Licensed(r[1], f)
        /\ r[1] = "compare" => role \in Reconcilers
    BY <1>1, <2>1, RoleIsKnown DEF ChatInv, RolesInv, RanInv
  <2>3. /\ f.limit \in Nat /\ f.limit <= EffectiveMaxRows
        /\ EffectiveMaxRows \in Nat
        /\ EffectiveMaxRows <= RowCap[role] /\ EffectiveMaxRows <= ServerCap
        /\ RowCap[role] \in Nat /\ ServerCap \in Nat
    BY <2>2, CapIsNumber, RolesAssumption DEF Guarded
  <2>4. f.limit <= RowCap[role] /\ f.limit <= ServerCap
    BY <2>3
  <2> QED
    BY <2>2, <2>4, NamedIsCleared DEF Guarded
<1> QED
  BY <1>1, ChatInvariant, PTL

-----------------------------------------------------------------------------
(* The conversation *)

\* The first n messages are a conversation in which all calls are answered.
Settled(n) ==
    \A k \in 1..n :
        LET m == messages[k] IN
        /\ m.from = "assistant" => \A i \in 1..m.calls :
             k + i <= n /\ messages[k + i] = Told(i)
        /\ m.from = "tool" => \E j \in 1..k - 1 :
             messages[j].from = "assistant" /\ k - j <= messages[j].calls

\* The message that asked for the tools being called.
LastAsked == Len(messages) - next + 1

TalkInv ==
    /\ messages \in Seq(MessageType)
    /\ turn \in 0..MaxTurns /\ calls \in 0..MaxCalls /\ next \in 1..MaxCalls + 1
    /\ pc = "complete" => Settled(Len(messages))
    /\ pc \in {"dispatch", "run", "measure"} =>
         /\ next <= calls /\ LastAsked \in 1..Len(messages)
         /\ messages[LastAsked] = Asked(calls)
         /\ \A i \in 1..next - 1 : messages[LastAsked + i] = Told(i)
         /\ Settled(LastAsked - 1)

LEMMA InitTalk == Init => TalkInv
<1> SUFFICES ASSUME Init PROVE TalkInv
  OBVIOUS
<1>1. messages = <<[from |-> "user", calls |-> 0]>> /\ pc = "complete"
  BY DEF Init
<1>2. messages \in Seq(MessageType)
  BY <1>1, TurnsAssumption DEF MessageType
<1>3. Settled(Len(messages))
  BY <1>1 DEF Settled
<1> QED
  BY <1>1, <1>2, <1>3, TurnsAssumption DEF TalkInv, Init

LEMMA AppendFacts ==
  ASSUME NEW S, NEW s \in Seq(S), NEW e \in S
  PROVE  /\ Append(s, e) \in Seq(S) /\ Len(s) \in Nat
         /\ Len(Append(s, e)) = Len(s) + 1
         /\ \A k \in 1..Len(s) : Append(s, e)[k] = s[k] /\ s[k] \in S
         /\ Append(s, e)[Len(s) + 1] = e
OBVIOUS

\* What is settled stays settled when a message is added.
LEMMA SettledStays ==
  ASSUME messages \in Seq(MessageType), NEW e \in MessageType,
         messages' = Append(messages, e),
         NEW CONSTANT b \in 0..Len(messages), Settled(b)
  PROVE  Settled(b)'
<1>1. /\ Len(messages) \in Nat
      /\ \A k \in 1..Len(messages) :
           messages'[k] = messages[k] /\ messages[k] \in MessageType
  BY AppendFacts
<1>2. \A k \in 1..b : messages'[k] = messages[k] /\ messages[k] \in MessageType
  BY <1>1
<1>3. SUFFICES ASSUME NEW k \in 1..b
               PROVE
        /\ messages'[k].from = "assistant" => \A i \in 1..messages'[k].calls :
             k + i <= b /\ messages'[k + i] = Told(i)
        /\ messages'[k].from = "tool" => \E j \in 1..k - 1 :
             messages'[j].from = "assistant" /\ k - j <= messages'[j].calls
  BY DEF Settled
<1>4. messages'[k] = messages[k] /\ messages[k].calls \in Nat
  BY <1>2, TurnsAssumption DEF MessageType
<1>5. ASSUME messages[k].from = "assistant", NEW i \in 1..messages[k].calls
      PROVE  k + i <= b /\ messages'[k + i] = Told(i)
  <2>1. k + i <= b /\ messages[k + i] = Told(i)
    BY <1>5 DEF Settled
  <2>2. k + i \in 1..b
    BY <1>1, <1>4, <2>1
  <2> QED
    BY <1>2, <2>1, <2>2
<1>6. ASSUME messages[k].from = "tool"
      PROVE  \E j \in 1..k - 1 :
               messages'[j].from = "assistant" /\ k - j <= messages'[j].calls
  <2>1. PICK j \in 1..k - 1 :
          messages[j].from = "assistant" /\ k - j <= messages[j].calls
    BY <1>6 DEF Settled
  <2>2. j \in 1..b
    BY <1>1
  <2> QED
    BY <1>2, <2>1, <2>2
<1> QED
  BY <1>4, <1>5, <1>6

LEMMA ReplyTalks ==
  ASSUME TalkInv, pc \in {"dispatch", "run", "measure"}, NEW fits, Reply(fits)
  PROVE  TalkInv'
<1>1. PICK a \in Nat, n \in Nat, l \in Nat : a = LastAsked /\ n = Len(messages) /\ l = next
  <2>1. next \in Nat /\ Len(messages) \in Nat /\ LastAsked \in 1..Len(messages)
    BY TurnsAssumption DEF TalkInv
  <2>2. LastAsked \in Nat
    BY <2>1
  <2> QED
    BY <2>1, <2>2
<1>2. /\ messages \in Seq(MessageType) /\ turn \in 0..MaxTurns
      /\ calls \in 0..MaxCalls /\ l \in 1..MaxCalls
      /\ l <= calls /\ a \in 1..n /\ n = a + l - 1
      /\ messages[a] = Asked(calls)
      /\ \A i \in 1..l - 1 : messages[a + i] = Told(i)
      /\ Settled(a - 1)
  BY <1>1, TurnsAssumption DEF TalkInv, LastAsked
<1>3. /\ messages' = Append(messages, Told(l)) /\ next' = l + 1
      /\ turn' = turn /\ calls' = calls
      /\ pc' = IF l = calls THEN "complete" ELSE "dispatch"
  BY <1>1 DEF Reply, Answered
<1>4. Told(l) \in MessageType
  BY <1>2 DEF Told, MessageType
<1>5. /\ messages' \in Seq(MessageType) /\ Len(messages') = n + 1
      /\ \A k \in 1..n : messages'[k] = messages[k]
      /\ messages'[n + 1] = Told(l)
      /\ \A k \in 1..n : messages[k] \in MessageType
  <2>1. PICK e \in MessageType : e = Told(l)
    BY <1>4
  <2>2. messages' = Append(messages, e) /\ Len(messages) = n
    BY <1>1, <1>3, <2>1
  <2>3. messages \in Seq(MessageType)
    BY <1>2
  <2>4. /\ Append(messages, e) \in Seq(MessageType)
        /\ Len(Append(messages, e)) = Len(messages) + 1
        /\ \A k \in 1..Len(messages) :
             Append(messages, e)[k] = messages[k] /\ messages[k] \in MessageType
        /\ Append(messages, e)[Len(messages) + 1] = e
    BY <2>3, AppendFacts
  <2> QED
    BY <2>1, <2>2, <2>4, Zenon
<1>6. LastAsked' = a
  <2>1. Len(messages') = n + 1
    BY <1>5
  <2>2. next' = l + 1 /\ n = a + l - 1
    BY <1>2, <1>3
  <2> QED
    BY <2>1, <2>2 DEF LastAsked
<1>7. messages'[a] = Asked(calls)
  BY <1>2, <1>5
<1>8. ASSUME NEW i \in 1..l PROVE messages'[a + i] = Told(i)
  <2>1. CASE i = l
    <3>1. a + i = n + 1
      BY <1>2, <2>1
    <3> QED
      BY <1>5, <2>1, <3>1
  <2>2. CASE i \in 1..l - 1
    <3>1. messages[a + i] = Told(i) /\ a + i \in 1..n
      BY <1>2, <2>2
    <3> QED
      BY <1>5, <3>1
  <2> QED
    BY <2>1, <2>2
<1>9. Settled(a - 1)'
  <2>1. a - 1 \in 0..Len(messages)
    BY <1>1, <1>2
  <2>2. \A b \in 0..Len(messages) : Settled(b) => Settled(b)'
    BY <1>2, <1>3, <1>4, SettledStays
  <2>3. PICK b \in 0..Len(messages) : b = a - 1
    BY <2>1
  <2> QED
    BY <1>2, <2>2, <2>3
<1>10. CASE l # calls
  <2>1. /\ pc' = "dispatch" /\ next' <= calls' /\ next' \in 1..MaxCalls + 1
        /\ next' - 1 = l /\ a \in 1..n + 1
    BY <1>2, <1>3, <1>10, TurnsAssumption
  <2>2. \A i \in 1..next' - 1 : messages'[LastAsked' + i] = Told(i)
    BY <1>6, <1>8, <2>1
  <2>3. Settled(LastAsked - 1)'
    BY <1>6, <1>9 DEF Settled
  <2> QED
    BY <1>2, <1>3, <1>5, <1>6, <1>7, <2>1, <2>2, <2>3 DEF TalkInv
<1>11. CASE l = calls
  <2>1. SUFFICES ASSUME NEW k \in 1..n + 1
                 PROVE
          /\ messages'[k].from = "assistant" => \A i \in 1..messages'[k].calls :
               k + i <= n + 1 /\ messages'[k + i] = Told(i)
          /\ messages'[k].from = "tool" => \E j \in 1..k - 1 :
               messages'[j].from = "assistant" /\ k - j <= messages'[j].calls
    <3>1. Settled(Len(messages))' => TalkInv'
      BY <1>2, <1>3, <1>5, <1>11, TurnsAssumption DEF TalkInv
    <3> QED
      BY <1>5, <3>1 DEF Settled
  <2>2. CASE k \in 1..a - 1
    <3>1. /\ messages'[k].from = "assistant" => \A i \in 1..messages'[k].calls :
               k + i <= a - 1 /\ messages'[k + i] = Told(i)
          /\ messages'[k].from = "tool" => \E j \in 1..k - 1 :
               messages'[j].from = "assistant" /\ k - j <= messages'[j].calls
      BY <1>9, <2>2 DEF Settled
    <3>2. messages'[k].calls \in Nat
      <4>1. k \in 1..n
        BY <1>2, <2>2
      <4>2. messages'[k] \in MessageType
        BY <1>5, <4>1
      <4> QED
        BY <4>2, TurnsAssumption DEF MessageType
    <3>3. \A i \in 1..messages'[k].calls : k + i <= a - 1 => k + i <= n + 1
      BY <1>2, <3>2
    <3> QED
      BY <3>1, <3>3
  <2>3. CASE k = a
    <3>1. messages'[k].from = "assistant" /\ messages'[k].calls = l
      BY <1>7, <1>11, <2>3 DEF Asked
    <3>2. \A i \in 1..l : k + i <= n + 1 /\ messages'[k + i] = Told(i)
      BY <1>2, <1>8, <2>3
    <3> QED
      BY <3>1, <3>2
  <2>4. CASE k \in a + 1..n + 1
    <3>1. PICK i \in 1..l : k = a + i
      <4>1. k - a \in 1..l /\ k = a + (k - a)
        BY <1>2, <2>4
      <4> QED
        BY <4>1
    <3>2. messages'[k].from = "tool"
      <4>1. messages'[k] = Told(i)
        BY <1>8, <3>1
      <4> QED
        BY <4>1 DEF Told
    <3>3. messages'[a].from = "assistant" /\ messages'[a].calls = l
      BY <1>7, <1>11 DEF Asked
    <3>4. a \in 1..k - 1 /\ k - a <= l
      BY <1>2, <3>1
    <3> QED
      BY <3>2, <3>3, <3>4
  <2> QED
    BY <1>2, <2>2, <2>3, <2>4
<1> QED
  BY <1>10, <1>11

LEMMA AskTalks == TalkInv /\ AskForTools => TalkInv'
<1> SUFFICES ASSUME TalkInv, AskForTools PROVE TalkInv'
  OBVIOUS
<1>1. PICK c \in 1..MaxCalls : calls' = c /\ messages' = Append(messages, Asked(c))
  BY DEF AskForTools
<1>2. Asked(c) \in MessageType
  BY <1>1, TurnsAssumption DEF Asked, MessageType
<1>3. messages \in Seq(MessageType) /\ Settled(Len(messages)) /\ Len(messages) \in Nat
  BY DEF TalkInv, AskForTools
<1>4. PICK n \in Nat, e \in MessageType : n = Len(messages) /\ e = Asked(c)
  BY <1>2, <1>3
<1>5. messages' = Append(messages, e)
  BY <1>1, <1>4
<1>6. /\ messages' \in Seq(MessageType) /\ Len(messages') = n + 1
      /\ messages'[n + 1] = Asked(c)
  BY <1>3, <1>4, <1>5, AppendFacts
<1>7. Settled(n)'
  BY <1>3, <1>4, <1>5, SettledStays
<1>8. /\ turn' \in 0..MaxTurns /\ next' = 1 /\ pc' = "dispatch"
      /\ calls' \in 0..MaxCalls /\ next' \in 1..MaxCalls + 1 /\ next' <= calls'
  BY <1>1, TurnsAssumption DEF TalkInv, AskForTools, MayAsk
<1>9. LastAsked' = n + 1
  BY <1>6, <1>8 DEF LastAsked
<1>10. Settled(LastAsked - 1)'
  BY <1>7, <1>9 DEF Settled
<1>11. \A i \in 1..next' - 1 : messages'[LastAsked' + i] = Told(i)
  BY <1>8
<1> QED
  BY <1>1, <1>6, <1>8, <1>9, <1>10, <1>11 DEF TalkInv

LEMMA TalkStep == TalkInv /\ [Next]_vars => TalkInv'
<1> SUFFICES ASSUME TalkInv, [Next]_vars PROVE TalkInv'
  OBVIOUS
<1>1. CASE AskForTools
  BY <1>1, AskTalks
<1>2. ASSUME pc \in {"dispatch", "run", "measure"}, NEW fits, Reply(fits) PROVE TalkInv'
  BY <1>2, ReplyTalks
<1>3. CASE AnswerAtOnce \/ Validate \/ GiveUp
  BY <1>2, <1>3 DEF AnswerAtOnce, Validate, Enter, GiveUp
\* The rest leaves the conversation alone, and if the request goes on, on its way.
<1>4. ASSUME UNCHANGED <<messages, turn, calls, next>>,
             \/ pc' = "ended" \/ pc' = pc
             \/ {pc, pc'} \subseteq {"dispatch", "run", "measure"}
      PROVE  TalkInv'
  <2>1. LastAsked' = LastAsked
    BY <1>4 DEF LastAsked
  <2>2. Settled(LastAsked - 1)' <=> Settled(LastAsked - 1)
    BY <1>4, <2>1 DEF Settled
  <2>3. Settled(Len(messages))' <=> Settled(Len(messages))
    BY <1>4 DEF Settled
  <2> QED
    BY <1>4, <2>1, <2>2, <2>3 DEF TalkInv
<1>5. CASE Run
  <2>1. pc = "run" /\ (Reply(TRUE) \/ \E cells : Proceed(cells))
    BY <1>5 DEF Run
  <2>2. CASE \E cells : Proceed(cells)
    <3>1. Reply(TRUE) \/ (pc' = "measure" /\ UNCHANGED conversation)
      BY <2>2 DEF Proceed
    <3> QED
      BY <1>2, <1>4, <2>1, <3>1 DEF conversation
  <2> QED
    BY <1>2, <2>1, <2>2
<1>6. CASE Finish \/ Derail
  BY <1>4, <1>6 DEF Finish, Derail, End
<1>7. CASE PrepareExecution \/ PrepareComparison \/ PrepareMetric \/ PrepareCatalog
  <2>1. pc \in {"dispatch", "measure"} /\ pc' = "run" /\ UNCHANGED conversation
    BY <1>7 DEF PrepareExecution, PrepareComparison, PrepareMetric, PrepareCatalog,
                Prepare, Enter
  <2> QED
    BY <1>4, <2>1 DEF conversation
<1>8. CASE Flip \/ Forget \/ UNCHANGED vars
  BY <1>4, <1>8 DEF Flip, Forget, vars, conversation
<1> QED
  BY <1>1, <1>3, <1>5, <1>6, <1>7, <1>8 DEF Next, Step

\* Each completion is asked for with a conversation in which every tool call is
\* answered, once and in order (run in agent.py).
THEOREM CallsAreAnsweredAlways == Spec => []EveryCallIsAnswered
<1>1. TalkInv => EveryCallIsAnswered
  BY DEF TalkInv, Settled, EveryCallIsAnswered
<1> QED
  BY <1>1, InitTalk, TalkStep, PTL DEF Spec

-----------------------------------------------------------------------------
(* Types *)

TypeInv ==
    /\ reachable \in BOOLEAN /\ binding \in {"env", "argument"}
    /\ pc \in {"complete", "dispatch", "run", "measure", "ended"}
    /\ pc \in {"run", "measure"} => prepared \in Preparations
    /\ pc = "measure" => prepared.tool \in {"rule", "total"}
    /\ \A r \in ran : r[1] \in Tools
    /\ shown \subseteq Cells
    /\ status \in {0, 200, 500, 502}

LEMMA MaskedIsTyped ==
  ASSUME NEW f \in StatementType
  PROVE  Masked(f) \subseteq Cells
<1>1. f.tables \subseteq Objects /\ f.shadowed \subseteq Objects
  BY StatementFields
<1>2. SUFFICES ASSUME NEW r \in Output(f)
               PROVE  [as |-> r.as, column |-> r.column, of |-> r.of, from |-> r.from,
                       starred |-> r.starred, tables |-> f.tables,
                       raw |-> ~IsMasked(r.as, r.column, f.tables)] \in Cells
  BY DEF Masked
<1>3. /\ r.as \in Names /\ r.column \in Columns /\ r.of \in Objects \cup {None}
      /\ r.from \subseteq Objects /\ r.starred \in BOOLEAN
  <2>1. CASE r \in Starred(f)
    BY <2>1, StarredFields
  <2>2. CASE r \in Listed(f)
    <3>1. PICK x \in f.columns :
            /\ x \in ColumnType /\ x.as \in Names
            /\ r = [as |-> x.as, column |-> x.column, of |-> x.of,
                    from |-> Sources(f, x), starred |-> FALSE]
      BY <2>2, ListedFields
    <3>2. Sources(f, x) \subseteq Objects
      BY <1>1 DEF Sources, Candidates, Reads
    <3> QED
      BY <3>1, <3>2 DEF ColumnType
  <2> QED
    BY <2>1, <2>2 DEF Output
<1>4. (~IsMasked(r.as, r.column, f.tables)) \in BOOLEAN
  OBVIOUS
<1> QED
  BY <1>1, <1>3, <1>4 DEF Cells

LEMMA PrepareIsTyped ==
  ASSUME TypeInv, NEW tool \in Tools, NEW F \in SUBSET StatementType,
         NEW C \in SUBSET Cells, Prepare(tool, F, C)
  PROVE  TypeInv'
BY DEF Prepare, TypeInv, Preparations, environment, conversation, results

LEMMA ReplyIsTyped ==
  ASSUME TypeInv, NEW fits, Reply(fits), UNCHANGED binding,
         reachable' \in BOOLEAN, \A r \in ran' : r[1] \in Tools, shown' \subseteq Cells
  PROVE  TypeInv'
BY DEF Reply, TypeInv

LEMMA ProceedIsTyped ==
  ASSUME TypeInv, pc = "run", NEW C \in SUBSET Cells, Proceed(C),
         UNCHANGED <<binding, reachable>>, \A r \in ran' : r[1] \in Tools
  PROVE  TypeInv'
<1>1. CASE prepared.tool \in {"rule", "total"}
  <2>1. prepared' = [prepared EXCEPT !.cells = C] /\ prepared \in Preparations
        /\ pc' = "measure" /\ UNCHANGED <<shown, status>>
    BY <1>1 DEF Proceed, conversation, TypeInv
  <2>2. prepared' \in Preparations /\ prepared'.tool = prepared.tool
    BY <2>1 DEF Preparations
  <2>3. reachable' \in BOOLEAN /\ binding' \in {"env", "argument"}
        /\ shown' \subseteq Cells /\ status' \in {0, 200, 500, 502}
    BY <2>1 DEF TypeInv
  <2>4. prepared'.tool \in {"rule", "total"}
    BY <1>1, <2>2
  <2> QED
    BY <2>1, <2>2, <2>3, <2>4 DEF TypeInv
<1>2. CASE prepared.tool \notin {"rule", "total"}
  <2>1. Reply(TRUE) /\ shown' = shown \cup C
    BY <1>2 DEF Proceed
  <2>2. reachable' \in BOOLEAN /\ shown' \subseteq Cells
    BY <2>1 DEF TypeInv
  <2> QED
    BY <2>1, <2>2, ReplyIsTyped
<1> QED
  BY <1>1, <1>2

LEMMA TypeStep == TypeInv /\ ChatInv /\ [Next]_vars => TypeInv'
<1> SUFFICES ASSUME TypeInv, ChatInv, [Next]_vars PROVE TypeInv'
  OBVIOUS
<1>1. CASE AskForTools \/ Finish \/ Derail \/ Flip \/ Forget \/ UNCHANGED vars
  <2> USE DEF environment, conversation, results, TypeInv
  <2>1. CASE AskForTools
    BY <2>1 DEF AskForTools
  <2>2. CASE Finish
    BY <2>2 DEF Finish, End
  <2>3. CASE Derail
    BY <2>3 DEF Derail, End
  <2>4. CASE Flip
    BY <2>4 DEF Flip
  <2>5. CASE Forget
    BY <2>5 DEF Forget
  <2>6. CASE UNCHANGED vars
    BY <2>6 DEF vars
  <2> QED
    BY <1>1, <2>1, <2>2, <2>3, <2>4, <2>5, <2>6
<1>2. CASE AnswerAtOnce \/ Validate \/ GiveUp
  <2>1. /\ UNCHANGED binding /\ reachable' \in BOOLEAN
        /\ \A r \in ran' : r[1] \in Tools
        /\ shown' \subseteq Cells
    <3>1. UNCHANGED <<binding, reachable, ran, shown>>
      BY <1>2 DEF AnswerAtOnce, Validate, GiveUp, environment, results
    <3> QED
      BY <3>1 DEF TypeInv
  <2>2. ASSUME NEW fits, Reply(fits) PROVE TypeInv'
    BY <2>1, <2>2, ReplyIsTyped
  <2> QED
    BY <1>2, <2>2 DEF AnswerAtOnce, Validate, GiveUp
<1>3. ASSUME NEW s \in StatementType PROVE Rewritten(s) \in StatementType
  BY RoleIsKnown, RewrittenFields DEF ChatInv
<1>4. \A s \in Sendable : Rewritten(s) \in StatementType
  BY <1>3, SendableIsDerived
<1>5. CASE PrepareExecution
  <2>1. PICK s \in Sendable : Prepare("execute", {Rewritten(s)}, {})
    BY <1>5 DEF PrepareExecution
  <2>2. {Rewritten(s)} \in SUBSET StatementType
    BY <1>4
  <2> QED
    BY <2>1, <2>2, PrepareIsTyped DEF Tools
<1>6. CASE PrepareComparison
  <2>1. PICK s1 \in Sendable, s2 \in Sendable :
          Prepare("compare", {Rewritten(s1), Rewritten(s2)}, {})
    BY <1>6 DEF PrepareComparison
  <2>2. {Rewritten(s1), Rewritten(s2)} \in SUBSET StatementType
    BY <1>4
  <2> QED
    BY <2>1, <2>2, PrepareIsTyped DEF Tools
<1>7. CASE PrepareMetric
  <2>1. PICK s \in Sendable : Prepare(IF prepared.tool = "rule" THEN "total" ELSE "failed",
                                      {Rewritten(s)}, prepared.cells)
    BY <1>7 DEF PrepareMetric
  <2>2. {Rewritten(s)} \in SUBSET StatementType
    BY <1>4
  <2>3. prepared.cells \in SUBSET Cells
    BY <1>7 DEF PrepareMetric, TypeInv, Preparations
  <2> QED
    BY <2>1, <2>2, <2>3, PrepareIsTyped DEF Tools
<1>8. CASE PrepareCatalog
  <2>1. PICK tool \in {"catalog", "rule"} : Prepare(tool, {Rewritten(CatalogSql)}, {})
    BY <1>8 DEF PrepareCatalog
  <2>2. {Rewritten(CatalogSql)} \in SUBSET StatementType
    BY <1>3, StatementsAssumption
  <2> QED
    BY <2>1, <2>2, PrepareIsTyped DEF Tools
<1>9. CASE Run
  <2>1. PICK sent \in SUBSET prepared.queries \ {{}} :
          /\ ran' = ran \cup {<<prepared.tool, f, role>> : f \in sent}
          /\ \/ Reply(TRUE) /\ UNCHANGED shown
             \/ Proceed(prepared.cells \cup UNION {Counts(f) : f \in sent})
             \/ Proceed(prepared.cells \cup UNION {Masked(f) : f \in sent})
    BY <1>9 DEF Run
  <2>2. prepared \in Preparations /\ pc = "run"
    BY <1>9 DEF Run, TypeInv
  <2>3. \A f \in sent : Masked(f) \subseteq Cells /\ Counts(f) \subseteq Cells
    BY <2>2, MaskedIsTyped DEF Preparations, Counts
  <2>4. \A r \in ran' : r[1] \in Tools
    BY <2>1, <2>2 DEF TypeInv, Preparations
  <2>5. UNCHANGED <<binding, reachable>>
    BY <1>9 DEF Run, environment
  <2>6. CASE Reply(TRUE) /\ UNCHANGED shown
    <3>1. reachable' \in BOOLEAN /\ shown' \subseteq Cells
      BY <2>5, <2>6 DEF TypeInv
    <3> QED
      BY <2>4, <2>5, <2>6, <3>1, ReplyIsTyped
  <2>7. ASSUME NEW C \in SUBSET Cells, Proceed(C) PROVE TypeInv'
    BY <2>2, <2>4, <2>5, <2>7, ProceedIsTyped
  <2>8. prepared.cells \subseteq Cells
    BY <2>2 DEF Preparations
  <2>9. UNION {Counts(f) : f \in sent} \subseteq Cells
        /\ UNION {Masked(f) : f \in sent} \subseteq Cells
    BY <2>3
  <2> QED
    BY <2>1, <2>6, <2>7, <2>8, <2>9
<1> QED
  BY <1>1, <1>2, <1>5, <1>6, <1>7, <1>8, <1>9 DEF Next, Step

\* Every variable of a request keeps its type.
THEOREM ChatTypesHold == Spec => []TypeOK
<1>1. Init => TypeInv
  BY DEF Init, TypeInv
<1>2. ChatInv /\ TalkInv /\ TypeInv => TypeOK
  <2> SUFFICES ASSUME ChatInv, TalkInv, TypeInv PROVE TypeOK
    OBVIOUS
  <2>1. \A f \in accepted : f \in StatementType
    BY DEF ChatInv, AcceptedInv, Guarded
  <2>2. \A r \in ran : r[2] \in StatementType /\ r[3] \in Roles
    BY RoleIsKnown DEF ChatInv, RanInv, Guarded
  <2> QED
    BY <2>1, <2>2, RoleIsKnown DEF ChatInv, RolesInv, AcceptedInv, TalkInv, TypeInv, TypeOK
<1> QED
  BY <1>1, <1>2, ChatInvariant, InitTalk, TalkStep, TypeStep, PTL DEF Spec

-----------------------------------------------------------------------------
(* How long a request may take *)

\* The steps of one turn: the completion that calls tools, and for each call at most
\* the check of its arguments and three queries, of which two are checked as well.
TurnLength == 6 * MaxCalls + 1

\* What is left of a call once its arguments are checked.
QueriesLeft ==
    IF pc = "measure"
    THEN IF prepared.tool = "rule" THEN 4 ELSE 2
    ELSE IF prepared.tool = "total" THEN 3
    ELSE IF prepared.tool = "failed" THEN 1 ELSE 5

\* What is left of the turn.
CallsLeft ==
    CASE pc = "dispatch"            -> 6 * (calls - next) + 6
      [] pc \in {"run", "measure"} -> 6 * (calls - next) + QueriesLeft
      [] OTHER                      -> 0

\* The steps a request has left: those of its turn, those of the turns after it,
\* and its answer.
StepsLeft ==
    IF pc = "ended" THEN 0 ELSE (MaxTurns - turn) * TurnLength + CallsLeft + 1

LEMMA TurnsAreSteps ==
  /\ TurnLength \in Nat
  /\ \A t \in 0..MaxTurns : (MaxTurns - t) * TurnLength \in Nat
  /\ \A t \in 0..MaxTurns :
       t < MaxTurns => (MaxTurns - t) * TurnLength
                         = (MaxTurns - (t + 1)) * TurnLength + TurnLength
<1> DEFINE K == TurnLength
<1>1. MaxTurns \in Nat /\ K \in Nat
  BY TurnsAssumption DEF TurnLength
<1>2. \A a \in Nat : a * K \in Nat
  BY <1>1
<1>3. \A a \in Nat : (a + 1) * K = a * K + K
  BY <1>1
<1> HIDE DEF K
<1>4. ASSUME NEW t \in 0..MaxTurns
      PROVE  /\ MaxTurns - t \in Nat
             /\ t < MaxTurns => /\ MaxTurns - (t + 1) \in Nat
                                /\ MaxTurns - t = (MaxTurns - (t + 1)) + 1
  BY <1>1
<1>5. \A t \in 0..MaxTurns : (MaxTurns - t) * K \in Nat
  BY <1>2, <1>4
<1>6. ASSUME NEW t \in 0..MaxTurns, t < MaxTurns
      PROVE  (MaxTurns - t) * K = (MaxTurns - (t + 1)) * K + K
  BY <1>3, <1>4, <1>6
<1> QED
  BY <1>1, <1>5, <1>6 DEF K

LEMMA CallsAreSteps ==
  ASSUME TalkInv, TypeInv
  PROVE  /\ CallsLeft \in Nat /\ StepsLeft \in Nat
         /\ pc # "ended" => StepsLeft > 0
<1>1. turn \in 0..MaxTurns /\ calls \in Nat /\ next \in Nat
  BY TurnsAssumption DEF TalkInv
<1>2. pc \in {"dispatch", "run", "measure"} => next <= calls
  BY DEF TalkInv
<1>3. pc \in {"complete", "dispatch", "run", "measure", "ended"}
  BY DEF TypeInv
<1>4. CallsLeft \in Nat
  BY <1>1, <1>2, <1>3 DEF CallsLeft, QueriesLeft
<1>5. (MaxTurns - turn) * TurnLength \in Nat
  BY <1>1, TurnsAreSteps
<1> QED
  BY <1>4, <1>5 DEF StepsLeft

LEMMA ReplyRunsDown ==
  ASSUME TalkInv, TypeInv, pc \in {"dispatch", "run", "measure"}, NEW fits, Reply(fits)
  PROVE  StepsLeft' < StepsLeft
<1>1. /\ calls \in Nat /\ next \in Nat /\ next <= calls /\ turn \in 0..MaxTurns
      /\ calls' = calls /\ next' = next + 1 /\ turn' = turn
      /\ pc' = IF next = calls THEN "complete" ELSE "dispatch"
  BY TurnsAssumption DEF TalkInv, Reply
<1>2. CallsLeft \in Nat /\ CallsLeft' \in Nat /\ CallsLeft' < CallsLeft
  <2>1. CallsLeft \in Nat /\ 6 * (calls - next) < CallsLeft
    BY <1>1 DEF CallsLeft, QueriesLeft
  <2>2. CallsLeft' = 6 * (calls - next) \/ (CallsLeft' = 0 /\ next = calls)
    BY <1>1 DEF CallsLeft
  <2> QED
    BY <1>1, <2>1, <2>2
<1>3. (MaxTurns - turn) * TurnLength \in Nat
  BY <1>1, TurnsAreSteps
<1>4. /\ StepsLeft = (MaxTurns - turn) * TurnLength + CallsLeft + 1
      /\ StepsLeft' = (MaxTurns - turn) * TurnLength + CallsLeft' + 1
  BY <1>1 DEF StepsLeft, TurnLength
<1> HIDE DEF CallsLeft, StepsLeft
<1> QED
  BY <1>2, <1>3, <1>4

\* Within a call: a query after its check, a check after a query.
LEMMA CallRunsDown ==
  ASSUME TalkInv, TypeInv, UNCHANGED <<turn, calls, next>>,
         \/ /\ pc \in {"dispatch", "measure"}
            /\ \E tool, F, C :
                 /\ Prepare(tool, F, C)
                 /\ pc = "measure" =>
                      tool = IF prepared.tool = "rule" THEN "total" ELSE "failed"
         \/ /\ pc = "run" /\ pc' = "measure" /\ prepared.tool \in {"rule", "total"}
            /\ prepared'.tool = prepared.tool
  PROVE  StepsLeft' < StepsLeft
<1>1. /\ calls \in Nat /\ next \in Nat /\ next <= calls /\ turn \in 0..MaxTurns
      /\ calls' = calls /\ next' = next /\ turn' = turn /\ pc' \in {"run", "measure"}
  BY TurnsAssumption DEF TalkInv, Prepare
<1>2. CallsLeft \in Nat /\ CallsLeft' \in Nat /\ CallsLeft' < CallsLeft
  <2>1. CASE pc = "dispatch"
    <3>1. CallsLeft = 6 * (calls - next) + 6 /\ pc' = "run"
      BY <2>1 DEF CallsLeft, Prepare
    <3>2. QueriesLeft' \in 1..5
      BY <3>1 DEF QueriesLeft
    <3>3. CallsLeft' = 6 * (calls - next) + QueriesLeft'
      BY <1>1, <3>1 DEF CallsLeft
    <3> HIDE DEF QueriesLeft, CallsLeft
    <3>4. \A k \in Nat, b \in 1..5 :
            6 * k + 6 \in Nat /\ 6 * k + b \in Nat /\ 6 * k + b < 6 * k + 6
      OBVIOUS
    <3>5. calls - next \in Nat
      BY <1>1
    <3> QED
      BY <3>1, <3>2, <3>3, <3>4, <3>5
  <2>2. CASE pc = "measure"
    <3>1. PICK tool, F, C :
            /\ Prepare(tool, F, C)
            /\ tool = IF prepared.tool = "rule" THEN "total" ELSE "failed"
      BY <2>2
    <3>4. pc' = "run" /\ prepared'.tool = IF prepared.tool = "rule" THEN "total" ELSE "failed"
      BY <3>1 DEF Prepare
    <3>5. prepared.tool \in {"rule", "total"}
      BY <2>2 DEF TypeInv
    <3>2. IF prepared.tool = "rule" THEN QueriesLeft = 4 /\ QueriesLeft' = 3
                                    ELSE QueriesLeft = 2 /\ QueriesLeft' = 1
      <4>1. QueriesLeft = IF prepared.tool = "rule" THEN 4 ELSE 2
        BY <2>2 DEF QueriesLeft
      <4>2. CASE prepared.tool = "rule"
        BY <3>4, <4>1, <4>2 DEF QueriesLeft
      <4>3. CASE prepared.tool # "rule"
        BY <3>4, <4>1, <4>3 DEF QueriesLeft
      <4> QED
        BY <4>2, <4>3
    <3>3. CallsLeft = 6 * (calls - next) + QueriesLeft
          /\ CallsLeft' = 6 * (calls - next) + QueriesLeft'
      BY <1>1, <2>2, <3>4 DEF CallsLeft
    <3> HIDE DEF QueriesLeft, CallsLeft
    <3> QED
      BY <1>1, <3>2, <3>3
  <2>3. CASE pc = "run"
    <3>1. pc' = "measure" /\ prepared.tool \in {"rule", "total"}
          /\ prepared'.tool = prepared.tool
      BY <2>3
    <3>2. IF prepared.tool = "rule" THEN QueriesLeft = 5 /\ QueriesLeft' = 4
                                    ELSE QueriesLeft = 3 /\ QueriesLeft' = 2
      <4>1. CASE prepared.tool = "rule"
        BY <2>3, <3>1, <4>1 DEF QueriesLeft
      <4>2. CASE prepared.tool = "total"
        BY <2>3, <3>1, <4>2 DEF QueriesLeft
      <4> QED
        BY <3>1, <4>1, <4>2
    <3>3. CallsLeft = 6 * (calls - next) + QueriesLeft
          /\ CallsLeft' = 6 * (calls - next) + QueriesLeft'
      BY <1>1, <2>3, <3>1 DEF CallsLeft
    <3> QED
      BY <1>1, <3>2, <3>3
  <2> QED
    BY <2>1, <2>2, <2>3
<1>3. (MaxTurns - turn) * TurnLength \in Nat
  BY <1>1, TurnsAreSteps
<1>4. pc # "ended" /\ pc' # "ended"
  BY <1>1 DEF Prepare
<1>5. /\ StepsLeft = (MaxTurns - turn) * TurnLength + CallsLeft + 1
      /\ StepsLeft' = (MaxTurns - turn) * TurnLength + CallsLeft' + 1
  BY <1>1, <1>4 DEF StepsLeft, TurnLength
<1> HIDE DEF CallsLeft, StepsLeft
<1> QED
  BY <1>2, <1>3, <1>5

LEMMA AskRunsDown ==
  ASSUME TalkInv, TypeInv, AskForTools
  PROVE  StepsLeft' < StepsLeft
<1>1. /\ turn \in 0..MaxTurns /\ turn < MaxTurns /\ turn' = turn + 1
      /\ pc = "complete" /\ pc' = "dispatch" /\ next' = 1
      /\ calls' \in 1..MaxCalls /\ MaxCalls \in Nat /\ MaxTurns \in Nat
  BY TurnsAssumption DEF TalkInv, AskForTools, MayAsk
<1> DEFINE after == (MaxTurns - (turn + 1)) * TurnLength
<1>2. after \in Nat /\ (MaxTurns - turn) * TurnLength = after + TurnLength
  BY <1>1, TurnsAreSteps
<1>3. CallsLeft = 0 /\ CallsLeft' = 6 * calls'
  BY <1>1 DEF CallsLeft
<1>4. StepsLeft = after + TurnLength + 1 /\ StepsLeft' = after + CallsLeft' + 1
  <2>1. /\ StepsLeft = (MaxTurns - turn) * TurnLength + CallsLeft + 1
        /\ StepsLeft' = after + CallsLeft' + 1
    BY <1>1 DEF StepsLeft, TurnLength
  <2> HIDE DEF after
  <2> QED
    BY <1>2, <1>3, <2>1, TurnsAreSteps
<1> HIDE DEF after
<1>5. CallsLeft' \in Nat /\ TurnLength \in Nat /\ CallsLeft' < TurnLength
  <2>1. \A n \in 1..MaxCalls : 6 * n \in Nat /\ 6 * n < 6 * MaxCalls + 1
    BY <1>1
  <2>2. TurnLength = 6 * MaxCalls + 1 /\ TurnLength \in Nat
    BY <1>1 DEF TurnLength
  <2> QED
    BY <1>1, <1>3, <2>1, <2>2
<1>6. after \in Nat
  BY <1>2
<1>7. \A a, b, k \in Nat : b < k => a + b + 1 < a + k + 1
  OBVIOUS
<1> QED
  BY <1>4, <1>5, <1>6, <1>7

LEMMA StepRunsDown ==
  ASSUME ChatInv, TalkInv, TypeInv, [Next]_vars
  PROVE  IF Step THEN StepsLeft' < StepsLeft ELSE StepsLeft' = StepsLeft
<1>1. CASE AskForTools
  BY <1>1, AskRunsDown DEF Step
<1>2. CASE Finish \/ Derail
  <2>1. pc # "ended" /\ pc' = "ended"
    BY <1>2 DEF Finish, Derail, End
  <2> QED
    BY <1>2, <2>1, CallsAreSteps DEF StepsLeft, Step
<1>3. ASSUME pc \in {"dispatch", "run", "measure"}, NEW fits, Reply(fits)
      PROVE  StepsLeft' < StepsLeft
  BY <1>3, ReplyRunsDown
<1>4. CASE AnswerAtOnce \/ Validate \/ GiveUp
  BY <1>3, <1>4 DEF AnswerAtOnce, Validate, GiveUp, Enter, Step
<1>6. CASE PrepareExecution \/ PrepareComparison \/ PrepareCatalog
  <2>1. pc = "dispatch" /\ \E tool, F, C : Prepare(tool, F, C)
    BY <1>6 DEF PrepareExecution, PrepareComparison, PrepareCatalog, Enter
  <2>2. UNCHANGED <<turn, calls, next>>
    BY <2>1 DEF Prepare, conversation
  <2> QED
    BY <1>6, <2>1, <2>2, CallRunsDown DEF Step
<1>7. CASE PrepareMetric
  <2>1. pc = "measure" /\ \E F, C :
          Prepare(IF prepared.tool = "rule" THEN "total" ELSE "failed", F, C)
    BY <1>7 DEF PrepareMetric
  <2>2. UNCHANGED <<turn, calls, next>>
    BY <2>1 DEF Prepare, conversation
  <2> QED
    BY <1>7, <2>1, <2>2, CallRunsDown DEF Step
<1>8. CASE Run
  <2>1. pc = "run" /\ (Reply(TRUE) \/ \E C : Proceed(C))
    BY <1>8 DEF Run
  <2>2. CASE \E C : Proceed(C) /\ ~Reply(TRUE)
    <3>1. /\ pc' = "measure" /\ UNCHANGED conversation
          /\ prepared.tool \in {"rule", "total"}
          /\ \E C : prepared' = [prepared EXCEPT !.cells = C]
      BY <2>2 DEF Proceed
    <3>2. prepared'.tool = prepared.tool
      BY <2>1, <3>1 DEF TypeInv, Preparations
    <3> QED
      BY <1>8, <2>1, <3>1, <3>2, CallRunsDown DEF conversation, Step
  <2> QED
    BY <1>3, <1>8, <2>1, <2>2 DEF Step
<1>5. CASE ~Step
  <2>1. UNCHANGED <<pc, turn, calls, next, prepared>>
    BY <1>5 DEF Next, Flip, Forget, vars, conversation
  <2> QED
    BY <1>5, <2>1 DEF StepsLeft, CallsLeft, QueriesLeft, TurnLength
<1> QED
  BY <1>1, <1>2, <1>4, <1>5, <1>6, <1>7, <1>8 DEF Step

\* Every step of the tool loop, whatever the model asks for and the tools answer,
\* leaves the request fewer steps, and nothing around it gives steps back: from
\* MaxTurns * TurnLength + 1 at first, so that the loop of agent.py is bounded by
\* _MAX_TURNS even if each message calls tools, all of which reach the database.
THEOREM RequestsRunDown ==
  Spec => /\ [](StepsLeft \in 0..(MaxTurns * TurnLength + 1))
          /\ [][IF Step THEN StepsLeft' < StepsLeft ELSE StepsLeft' = StepsLeft]_vars
<1> DEFINE most == MaxTurns * TurnLength + 1
           Bounded == StepsLeft \in 0..most
<1>1. MaxTurns \in Nat /\ TurnLength \in Nat /\ most \in Nat
  BY TurnsAssumption, TurnsAreSteps
<1>2. Init => TypeInv
  BY DEF Init, TypeInv
<1>3. Init => Bounded
  BY <1>1 DEF Init, StepsLeft, CallsLeft
<1>4. ChatInv /\ TalkInv /\ TypeInv /\ (TalkInv /\ TypeInv)' /\ Bounded /\ [Next]_vars
        => Bounded'
  <2> SUFFICES ASSUME ChatInv, TalkInv, TypeInv, TalkInv', TypeInv', Bounded, [Next]_vars
               PROVE  Bounded'
    OBVIOUS
  <2>1. UNCHANGED most
    BY DEF TurnLength
  <2>2. StepsLeft' \in Nat
    <3>1. TalkInv /\ TypeInv => StepsLeft \in Nat
      BY CallsAreSteps
    <3>2. (TalkInv /\ TypeInv => StepsLeft \in Nat)'
      BY <3>1, CallsAreSteps, PTL
    <3> QED
      BY <3>2
  <2>3. StepsLeft' < StepsLeft \/ StepsLeft' = StepsLeft
    BY StepRunsDown
  <2> HIDE DEF most
  <2> QED
    BY <1>1, <2>1, <2>2, <2>3
<1>5. ChatInv /\ TalkInv /\ TypeInv /\ [Next]_vars =>
        [IF Step THEN StepsLeft' < StepsLeft ELSE StepsLeft' = StepsLeft]_vars
  BY StepRunsDown
<1> QED
  BY <1>2, <1>3, <1>4, <1>5, InitTalk, TalkStep, TypeStep, ChatInvariant, PTL DEF Spec
=============================================================================
