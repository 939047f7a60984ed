------------------------------- MODULE MCChat -------------------------------
(* A small instance of Chat for TLC. *)
EXTENDS Chat, TLC

CONSTANTS t, v, x, id, mail, secret, note, alias, business, analyst, admin

TableColumns == (t :> {id, mail, secret}) @@ (v :> {id, secret, note}) @@ (x :> {id})

\* CONFIDENTIAL by its name; its values look it as well.
SomeNameRules == [n \in Names |-> IF n = mail THEN 2 ELSE 0]
SomePathRules == [o \in Objects |-> 0]
SomeContents == [c \in Columns |-> CASE c = mail -> 2 [] c = note -> 99 [] OTHER -> 0]
SomePositions == (t :> 2) @@ (v :> 1) @@ (x :> 3)

SomeClearances == (business :> 1) @@ (analyst :> 2) @@ (admin :> 3)
SomeCaps == (business :> 1) @@ (analyst :> 3) @@ (admin :> 3)

Allowances == [r \in Roles |-> {t, v}]

\* Columns left to the dictionary, one object discovered; and columns declared,
\* not all of them, and one name not alike in two objects.
SomePolicies ==
    {[declared |-> [o \in Objects |-> {}],
      rank |-> [o \in Objects |-> [c \in Columns |-> 1]],
      allowed |-> Allowances, discovered |-> {v}, filtered |-> {}],
     [declared |-> (t :> {mail, secret}) @@ (v :> {secret, note}) @@ (x :> {id}),
      rank |-> [o \in Objects |-> [c \in Columns |->
                  CASE c = mail -> 2 [] (c = secret /\ o = v) \/ o = x -> 3
                    [] OTHER -> 1]],
      allowed |-> Allowances, discovered |-> {}, filtered |-> {t}]}

Column(c, as) == [of |-> None, column |-> c, as |-> as, beside |-> FALSE]

Query(tables, columns, marks, limit) ==
    [reading |-> "query", marks |-> marks, beside |-> {}, tables |-> tables,
     shadowed |-> {}, columns |-> columns, heads |-> {}, picks |-> {}, limit |-> limit]

\* What is read: a column under its own name, one by another name, one in a
\* condition, a star, of one table, of two, through a subquery.
Selections ==
    {Query({t}, {}, {"star"}, None),
     Query({v}, {}, {"star", "filtered"}, 3),
     Query({t, v}, {}, {"star"}, 1),
     Query({t}, {Column(mail, alias)}, {"grouped"}, None),
     Query({v}, {Column(id, id), Column(secret, None)}, {"filtered"}, 3),
     Query({v}, {[Column(note, alias) EXCEPT !.of = v]}, {}, 1),
     Query({v}, {Column(secret, alias)}, {"all"}, None),
     Query({t, v}, {Column(mail, mail), Column(secret, secret)}, {"filtered"}, None),
     Query({t}, {Column(id, alias)}, {"all", "filtered"}, 1),
     Query({v}, {Column(id, alias)}, {"dotstar", "filtered"}, 3),
     Query({x}, {Column(id, id)}, {}, None)}

\* Where names mislead: an aggregate beside a star, a star that is given a name, a
\* table with the name of a subquery.
Misnamed ==
    {[Query({t}, {[Column(id, None) EXCEPT !.beside = TRUE]}, {"star"}, 1)
        EXCEPT !.beside = {"grouped"}],
     [Query({v}, {}, {"dotstar"}, 1) EXCEPT !.heads = {alias}],
     [Query({t}, {}, {"dotstar", "filtered"}, 1) EXCEPT !.picks = {id}],
     [Query({t}, {Column(id, id)}, {"filtered"}, 1) EXCEPT !.shadowed = {x}]}

\* What else a check objects to.
Flawed ==
    {[Query({v}, {Column(id, id)}, {mark}, 3) EXCEPT !.reading = reading] :
        mark \in {"blocked", "remote", "crossed", "grouped", "hinted"},
        reading \in {"query"}} \cup
    {[Query({v}, {Column(id, id)}, {}, None) EXCEPT !.reading = reading] :
        reading \in Readings \ {"query"}}

SomeStatements == Selections \cup Misnamed \cup Flawed

Catalog == Query({v}, {Column(id, alias)}, {"filtered"}, 1)

OnlyAdmin == {admin}
=============================================================================
