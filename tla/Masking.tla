------------------------------ MODULE Masking ------------------------------
(***************************************************************************)
(* Masker.mask_rows (masking.py), as _run_query in tools.py calls it:      *)
(* which values of a result a role is shown.  A value is masked, or        *)
(* suppressed with its column, as a whole; which mask it is does not       *)
(* matter here.                                                            *)
(***************************************************************************)
EXTENDS Clearances

CONSTANTS
    PathRules,  \* the strictest rule SCHEMA.OBJECT matches, 0 for none
    Contents,   \* the strictest scanner the values of a column match, 0 for none
    Position    \* where SCHEMA.OBJECT is in a sorted list

ASSUME MaskingAssumption ==
    PathRules \in [Objects -> Nat] /\ Contents \in [Columns -> Nat]
ASSUME PositionAssumption ==
    /\ Position \in [Objects -> Nat]
    /\ \A o1, o2 \in Objects : Position[o1] = Position[o2] => o1 = o2

\* A rule applies to the roles below its clearance.
Applies(rank) == Clearance[role] < rank

\* policy_rule_for, with the declared columns of the objects of the statement: a
\* column of the result is looked up by its name in the result.  Of the objects that
\* declare it the last in sorted order counts: one that classifies it too high and
\* that comes after all that do not.
PolicyRuleApplies(n, tables) ==
    LET declaring == {o \in tables : n \in policy.declared[o]}
        strict    == {o \in declaring : Applies(policy.rank[o][n])}
    IN  \E o \in strict : \A q \in declaring \ strict : Position[q] < Position[o]

\* column_rule_for: the path is known when one object of the policy is read.
ColumnRuleApplies(n, tables) ==
    \/ Applies(NameRules[n])
    \/ /\ Cardinality(tables) = 1
       /\ \E o \in tables \ policy.discovered : Applies(PathRules[o])

\* scan_value, of what no column rule has masked.
ScannerApplies(c) == Applies(Contents[c])

\* Mutation: no scan of the values of a column the policy declares.
ScannerSparesDeclared(n, c, tables) ==
    \/ PolicyRuleApplies(n, tables) \/ ColumnRuleApplies(n, tables)
    \/ ScannerApplies(c) /\ \A o \in tables : c \notin policy.declared[o]

IsMasked(n, c, tables) ==
    PolicyRuleApplies(n, tables) \/ ColumnRuleApplies(n, tables) \/ ScannerApplies(c)
=============================================================================
