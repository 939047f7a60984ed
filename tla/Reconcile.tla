------------------------------ MODULE Reconcile ------------------------------
(***************************************************************************)
(* compare_onprem_and_atp_data: two queries, one on each system, whose     *)
(* results are compared key by key (reconcile.py).  The systems are read   *)
(* one after the other while both change, each query is answered with a    *)
(* capped number of rows, and values are compared as they are shown to the *)
(* role, ignoring case and blanks.                                         *)
(***************************************************************************)
EXTENDS Naturals, FiniteSets

CONSTANTS
    Texts,       \* keys and values
    Normal,      \* [Texts -> Texts], without blanks around them, in upper case
    Shown,       \* [Systems -> [Texts -> Texts]], what masking makes of a text
    Rows,        \* rows the queries may select: a key and an attribute
    Cap,         \* the row limit of server and role
    Asked,       \* row limits a query may ask for
    MaxChanges,  \* bound on the changes of the systems
    None         \* no value

Systems == {"ONPREM", "ATP"}

ASSUME TextsAssumption ==
    Normal \in [Texts -> Texts] /\ Shown \in [Systems -> [Texts -> Texts]]
ASSUME RowsAssumption == Rows \subseteq [key : Texts, value : Texts]
ASSUME LimitsAssumption == Cap \in Nat \ {0} /\ Asked \subseteq Nat
ASSUME NoneAssumption == None \notin Nat \cup Texts

VARIABLES
    table,      \* the rows each query selects, at the moment
    changes,    \* how often they have changed
    keyed,      \* the systems whose query returns the matching key
    limit,      \* applied_row_limit, None before the query is approved
    rows,       \* what fetch returns, None before
    truncated,  \* and its flag
    outcome,    \* of the call
    reply,      \* the summary, when it is answered
    ever,       \* rows each system has had during the call
    always,     \* rows it has had all the time
    left        \* systems that had rows the query was not answered with

world == <<table, changes, ever, always>>
vars == <<world, keyed, limit, rows, truncated, outcome, reply, left>>

-----------------------------------------------------------------------------
(* The comparison *)

\* _normalize of a masked text.
Text(s, t) == Normal[Shown[s][t]]

\* _key_of: a row without the column has the key None.
Key(s, row) == IF s \in keyed THEN Text(s, row.key) ELSE None

KeysOf(s, R) == {Key(s, row) : row \in R}

\* Rows with one key overwrite each other, in the order the database sends them.
Indexes(s) ==
    {index \in [KeysOf(s, rows[s]) -> rows[s]] :
        \A k \in DOMAIN index : Key(s, index[k]) = k}

\* Mutation: attributes are compared as they are.
DiffersExactly(row, other) == Shown["ONPREM"][row.value] # Shown["ATP"][other.value]

Differs(row, other) == Text("ONPREM", row.value) # Text("ATP", other.value)

\* Mutation: the two sides are taken for each other.
OnlyInOther(index, other) == DOMAIN other \ DOMAIN index

OnlyIn(index, other) == DOMAIN index \ DOMAIN other

\* compare_result_sets
Comparison(source, target) ==
    [sourceOnly |-> OnlyIn(source, target),
     targetOnly |-> OnlyIn(target, source),
     mismatched |-> {k \in DOMAIN source \cap DOMAIN target :
                        Differs(source[k], target[k])},
     truncated |-> \E s \in Systems : truncated[s]]

\* _resolve_key_columns looks at one side only.
KeyIsMissing ==
    LET s == IF rows["ONPREM"] # {} THEN "ONPREM" ELSE "ATP"
    IN  rows[s] # {} /\ s \notin keyed

-----------------------------------------------------------------------------

Replies ==
    [sourceOnly : SUBSET (Texts \cup {None}), targetOnly : SUBSET (Texts \cup {None}),
     mismatched : SUBSET (Texts \cup {None}), truncated : BOOLEAN]

NoReply ==
    [sourceOnly |-> {}, targetOnly |-> {}, mismatched |-> {}, truncated |-> FALSE]

TypeOK ==
    /\ table \in [Systems -> SUBSET Rows]
    /\ changes \in Nat
    /\ keyed \in SUBSET Systems
    /\ limit \in [Systems -> (0..Cap) \cup {None}]
    /\ rows \in [Systems -> (SUBSET Rows) \cup {None}]
    /\ truncated \in [Systems -> BOOLEAN]
    /\ outcome \in {"running", "refused", "failed", "answered"}
    /\ reply \in Replies
    /\ ever \in [Systems -> SUBSET Rows]
    /\ always \in [Systems -> SUBSET Rows]
    /\ left \in SUBSET Systems

Init ==
    /\ table \in [Systems -> SUBSET Rows]
    /\ changes = 0
    /\ keyed \in SUBSET Systems
    /\ limit = [s \in Systems |-> None]
    /\ rows = [s \in Systems |-> None]
    /\ truncated = [s \in Systems |-> FALSE]
    /\ outcome = "running"
    /\ reply = NoReply
    /\ ever = table
    /\ always = table
    /\ left = {}

-----------------------------------------------------------------------------
(* The tool *)

\* The source comes first in every phase.
InTurn(s, phase) ==
    phase[s] = None /\ (s = "ATP" => phase["ONPREM"] # None)

\* Mutation: a query may ask for more than the cap.
AsAsked(asked) == IF asked \in Nat THEN asked ELSE Cap

\* _apply_row_limit: the limit the query asks for, if it asks for less.
Limited(asked) == IF asked \in Nat /\ asked <= Cap THEN asked ELSE Cap

\* The guard approves the query of one system.
Prepare(s) ==
    /\ outcome = "running"
    /\ InTurn(s, limit)
    /\ \E asked \in Asked \cup {None} : limit' = [limit EXCEPT ![s] = Limited(asked)]
    /\ UNCHANGED <<world, keyed, rows, truncated, outcome, reply, left>>

\* Or the call is refused: the role, the guard, an approval that is missing, the
\* cost of the plan.
Refuse ==
    /\ outcome = "running"
    /\ \E s \in Systems : limit[s] = None
    /\ outcome' = "refused"
    /\ UNCHANGED <<world, keyed, limit, rows, truncated, reply, left>>

\* What some n of the rows may be: the order is the database's.
Some(R, n) ==
    {S \in SUBSET R : Cardinality(S) = IF Cardinality(R) < n THEN Cardinality(R) ELSE n}

\* A limit of zero is taken for none, by "or".
MaxRows(s) == IF limit[s] = 0 THEN Cap ELSE limit[s]

\* fetch: the statement carries its limit, and one row more than it is asked for.
Fetch(s) ==
    /\ outcome = "running"
    /\ \A t \in Systems : limit[t] # None
    /\ InTurn(s, rows)
    /\ \E raw \in Some(table[s], limit[s]) : \E kept \in Some(raw, MaxRows(s)) :
         /\ rows' = [rows EXCEPT ![s] = kept]
         /\ truncated' = [truncated EXCEPT ![s] = Cardinality(raw) > MaxRows(s)]
         /\ left' = IF kept = table[s] THEN left ELSE left \cup {s}
    /\ UNCHANGED <<world, keyed, limit, outcome, reply>>

\* The query fails, or times out.
FetchFails ==
    /\ outcome = "running"
    /\ \A s \in Systems : limit[s] # None
    /\ \E s \in Systems : rows[s] = None
    /\ outcome' = "failed"
    /\ UNCHANGED <<world, keyed, limit, rows, truncated, reply, left>>

Compare ==
    /\ outcome = "running"
    /\ \A s \in Systems : rows[s] # None
    /\ \/ KeyIsMissing /\ outcome' = "failed" /\ UNCHANGED reply
       \/ /\ ~KeyIsMissing
          /\ outcome' = "answered"
          /\ \E source \in Indexes("ONPREM"), target \in Indexes("ATP") :
               reply' = Comparison(source, target)
    /\ UNCHANGED <<world, keyed, limit, rows, truncated, left>>

-----------------------------------------------------------------------------
(* The systems: a row comes, goes, or takes the place of another. *)

Change(s) ==
    /\ outcome = "running"
    /\ changes < MaxChanges
    /\ changes' = changes + 1
    /\ \E gone, come \in SUBSET Rows :
         /\ Cardinality(gone) <= 1 /\ Cardinality(come) <= 1
         /\ LET now == (table[s] \ gone) \cup come
            IN  /\ now # table[s]
                /\ table' = [table EXCEPT ![s] = now]
                /\ ever' = [ever EXCEPT ![s] = @ \cup now]
                /\ always' = [always EXCEPT ![s] = @ \cap now]
    /\ UNCHANGED <<keyed, limit, rows, truncated, outcome, reply, left>>

Next ==
    \/ \E s \in Systems : Prepare(s) \/ Fetch(s) \/ Change(s)
    \/ Refuse \/ FetchFails \/ Compare

Spec == Init /\ [][Next]_vars

-----------------------------------------------------------------------------
(* Properties *)

Differences == reply.sourceOnly \cup reply.targetOnly \cup reply.mismatched

\* The row that alone has had its key in a system during the call, all the time.
IsSettled(s, row) ==
    row \in always[s] /\ \A r \in ever[s] : Key(s, r) = Key(s, row) => r = row

\* A record that both systems had throughout the call, with the same attribute,
\* is not reported as a difference, however the two change around it: unless
\* rows were left out by a limit, or its key is not unique.
SettledRecordsMatch ==
    outcome = "answered" /\ left = {} =>
        \A row, other \in Rows :
            /\ IsSettled("ONPREM", row)
            /\ IsSettled("ATP", other)
            /\ Key("ONPREM", row) = Key("ATP", other)
            /\ Text("ONPREM", row.value) = Text("ATP", other.value)
            => Key("ONPREM", row) \notin Differences

\* Every difference that is reported was one: a key that only one system has was
\* there during the call, and not all the time in the other; attributes that
\* differ belonged to rows of that key.
DifferencesWereThere ==
    outcome = "answered" =>
        /\ \A k \in reply.sourceOnly :
             /\ k \in KeysOf("ONPREM", ever["ONPREM"])
             /\ "ATP" \in left \/ k \notin KeysOf("ATP", always["ATP"])
        /\ \A k \in reply.targetOnly :
             /\ k \in KeysOf("ATP", ever["ATP"])
             /\ "ONPREM" \in left \/ k \notin KeysOf("ONPREM", always["ONPREM"])
        /\ \A k \in reply.mismatched :
             \E row \in ever["ONPREM"], other \in ever["ATP"] :
                /\ Key("ONPREM", row) = k /\ Key("ATP", other) = k
                /\ Text("ONPREM", row.value) # Text("ATP", other.value)

\* "Fetches max_rows + 1 so truncation can be reported honestly" (db.py): rows
\* that the server's cap leaves out are reported.
CappingIsReported ==
    outcome = "answered" =>
        \A s \in left : limit[s] = Cap => reply.truncated
=============================================================================
