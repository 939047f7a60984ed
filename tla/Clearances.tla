----------------------------- MODULE Clearances -----------------------------
(***************************************************************************)
(* What a role may see of a table: the classification of columns, declared *)
(* by a policy or inferred from their names, and the row cap (policy.py,   *)
(* Masker.infer_sensitivity in masking.py).  The guard and the masking     *)
(* both decide by these.                                                   *)
(***************************************************************************)
EXTENDS Naturals, FiniteSets

CONSTANTS
    Objects,
    Columns,
    ColumnsOf,  \* [Objects -> SUBSET Columns]: what the tables have
    Aliases,    \* names a statement may give its columns
    NameRules,  \* the strictest masking rule a name matches, 0 for none
    Roles,
    Clearance,  \* [Roles -> Nat]
    RowCap,     \* [Roles -> Nat \ {0}]
    ServerCap,  \* ORACLE_MCP_MAX_ROWS
    Policies,   \* the policies a server may have loaded
    None        \* no value

Internal == 1   \* SENSITIVITY_ORDER["INTERNAL"]

Names == Columns \cup Aliases

\* What a YAML file says of its tables.  An object that declares no columns leaves
\* them to the data dictionary, a discovered one is known to the dictionary only.
PolicyType ==
    [declared : [Objects -> SUBSET Columns], rank : [Objects -> [Columns -> Nat]],
     allowed : [Roles -> SUBSET Objects], discovered : SUBSET Objects,
     filtered : SUBSET Objects]

\* infer_sensitivity: the strictest rule, and INTERNAL at least.
Inferred(n) == IF NameRules[n] > Internal THEN NameRules[n] ELSE Internal

\* The classification of a column name in an object: None where others are declared.
RankUnder(p, o, n) ==
    CASE p.declared[o] = {}    -> Inferred(n)
      [] n \in p.declared[o]   -> p.rank[o][n]
      [] OTHER                 -> None

ASSUME ColumnsAssumption ==
    ColumnsOf \in [Objects -> SUBSET Columns] /\ NameRules \in [Names -> Nat]
ASSUME RolesAssumption ==
    /\ Clearance \in [Roles -> Nat] /\ \A r \in Roles : Clearance[r] >= Internal
    /\ RowCap \in [Roles -> Nat \ {0}] /\ ServerCap \in Nat \ {0}
ASSUME PoliciesAssumption == Policies \subseteq PolicyType
ASSUME NoneAssumption == None \notin Nat \cup Objects \cup Names

VARIABLES
    policy,     \* the loaded policy
    role,       \* the role a call runs under
    reachable   \* whether the dictionary answers at the moment

-----------------------------------------------------------------------------

Rank(o, n) == RankUnder(policy, o, n)

Exceeds(rank) == rank # None /\ rank > Clearance[role]

\* authorize_object, by what it depends on here (Dictionary has the whole of it).
Authorized(o) ==
    /\ o \in policy.allowed[role]
    /\ o \in policy.discovered => reachable

\* columns_for: an outage leaves an object without declared columns with none.
KnownColumns(o) ==
    IF policy.declared[o] # {} THEN policy.declared[o]
    ELSE IF reachable THEN ColumnsOf[o] ELSE {}

\* Mutation: the clearance of the role is not looked at.
AllColumns(o) == KnownColumns(o)

VisibleColumns(o) == {c \in KnownColumns(o) : ~Exceeds(Rank(o, c))}

Smaller(a, b) == IF a < b THEN a ELSE b

\* effective_max_rows: both caps are positive.
EffectiveMaxRows == Smaller(RowCap[role], ServerCap)
=============================================================================
