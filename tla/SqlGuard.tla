------------------------------ MODULE SqlGuard ------------------------------
(***************************************************************************)
(* SqlGuard.validate (sql_guard.py): whether a statement may run for a     *)
(* role, and what runs in its place.  A statement is what the checks look  *)
(* at of its syntax tree, and what the database makes of it.               *)
(***************************************************************************)
EXTENDS Clearances

CONSTANTS
    MayCross    \* the roles with allow_cartesian

\* What parsing finds: one query, nothing, text it cannot read, several
\* statements, or a statement that is no query or has a forbidden node.
Readings == {"query", "nothing", "garbled", "several", "writes"}

\* The stars that _expand_star takes for one: not T.*, which is a column to it.
Stars == {"star",       \* selects * from the tables
          "all"}        \* selects * from a subquery or CTE that reads them

Marks == Stars \cup
         {"blocked",    \* matches a blocked pattern
          "hinted",     \* has an optimizer hint
          "remote",     \* names a table in three parts
          "crossed",    \* has a join without a condition
          "grouped",    \* groups or aggregates
          "filtered",   \* has a WHERE clause
          "dotstar",    \* selects T.* from a table
          "dotall"}     \* selects S.* from a subquery or CTE

\* tables are those that are looked up in the policy; shadowed those the database
\* reads, but which share their name with a CTE or derived table of the statement.
\* columns are those of the query that reads the tables, each with the object that
\* qualifies it and with its name in the result, None for one in a condition only.
\* beside: that they, or marks of a subquery, stand in the select list of a star.
\* heads are names a column list or a set operation gives to what a star selects,
\* picks are what is selected from a subquery.  limit is a literal row limit.
\* Tables and names of CTEs are those that are found outside such a select list.
StatementType ==
    [reading : Readings, marks : SUBSET Marks, beside : SUBSET {"grouped", "filtered"},
     tables : SUBSET Objects, shadowed : SUBSET Objects,
     columns : SUBSET [of : Objects \cup {None}, column : Columns,
                       as : Names \cup {None}, beside : BOOLEAN],
     heads : SUBSET Names, picks : SUBSET Names, limit : Nat \cup {None}]

-----------------------------------------------------------------------------
(* The checks; the first four stop at an error *)

IsOneQuery(s) == s.reading = "query"

IsFreeOfBlockedConstructs(s) == "blocked" \notin s.marks

\* Subqueries and CTEs are no tables, nor is what has the name of one, anywhere in
\* the statement; something must be a table.
ResolvesToApprovedObjects(s) ==
    /\ "remote" \notin s.marks
    /\ s.tables # {}
    /\ \A o \in s.tables : Authorized(o)

\* Every column named anywhere, as <<qualifier, name>>.
Mentions(s) ==
    {<<x.of, x.column>> : x \in s.columns} \cup {<<None, n>> : n \in s.picks}

Candidates(tables, qualifier) == IF qualifier \in tables THEN {qualifier} ELSE tables

\* Of the candidates that know the name the first one the guard comes to decides;
\* one whose declared columns lack it does not.  A statement leaves that order open:
\* it may be any.
IsCleared(s, x) ==
    LET knowing == {o \in Candidates(s.tables, x[1]) : Rank(o, x[2]) # None}
    IN  knowing # {} => \E o \in knowing : ~Exceeds(Rank(o, x[2]))

ColumnsAreCleared(s) == \A x \in Mentions(s) : IsCleared(s, x)

JoinsHaveConditions(s) == "crossed" \in s.marks => role \in MayCross

IsAggregate(s) == "grouped" \in s.marks \cup s.beside

LargeTablesAreFiltered(s) ==
    \/ s.tables \cap policy.filtered = {}
    \/ IsAggregate(s)
    \/ "filtered" \in s.marks \cup s.beside

IsSafe(s) ==
    /\ IsOneQuery(s)
    /\ IsFreeOfBlockedConstructs(s)
    /\ ResolvesToApprovedObjects(s)
    /\ ColumnsAreCleared(s) /\ JoinsHaveConditions(s)

Accepts(s) == IsSafe(s) /\ LargeTablesAreFiltered(s)

-----------------------------------------------------------------------------
(* The rewriting *)

\* A limit that is absent, no literal, or too large is replaced.
AppliedLimit(s) ==
    IF s.limit = None THEN EffectiveMaxRows ELSE Smaller(s.limit, EffectiveMaxRows)

\* The columns a star stands for: those of the only object, as the role may see them.
\* There are none when several objects are looked up or no column is known.
Expansion(s) ==
    IF Cardinality(s.tables) = 1 THEN UNION {VisibleColumns(o) : o \in s.tables}
                                 ELSE {}

ExpandsStar(s) == s.marks \cap Stars # {} /\ Expansion(s) # {}

\* The columns of an expansion keep their names if nothing gives them others.
Plainly(s) ==
    UNION {[of : {None}, column : {c}, beside : {FALSE},
            as : IF s.heads = {} THEN {c} ELSE s.heads] : c \in Expansion(s)}

\* _expand_star puts the columns of the object in the place of all that is selected
\* along with a star, also where it is selected from a subquery.
Expanded(s) ==
    [s EXCEPT !.marks = @ \ Stars,
              !.beside = {},
              !.columns = {x \in @ : ~x.beside}
                            \cup (IF "star" \in s.marks THEN Plainly(s) ELSE {}),
              !.picks = IF "all" \in s.marks THEN Expansion(s) ELSE @]

Rewritten(s) ==
    LET e == IF ExpandsStar(s) THEN Expanded(s) ELSE s
    IN  [e EXCEPT !.marks = @ \ {"hinted"}, !.limit = AppliedLimit(s)]
=============================================================================
