---------------------------- MODULE MCDictionary ----------------------------
(* Small instances of Dictionary for TLC. *)
EXTENDS Dictionary, TLC

CONSTANTS s1, s2, a, b, d, analyst, steward

TwoAndOne == (a :> s1) @@ (d :> s1) @@ (b :> s2)
Names == (a :> 1) @@ (d :> 2) @@ (b :> 3) @@ (s1 :> 4) @@ (s2 :> 5)
\* An outage, one object of each schema, and two of one, which is one more than a
\* list may have: the grant that adds an object takes another off the list.
SomeViews == {{}, {b, d}, {a, b, d}}

RoleSchemas == (analyst :> {s1}) @@ (steward :> {s1, s2})
RoleClearance == (analyst :> 1) @@ (steward :> 3)

Policy(declared, rank, discovered, allowAll, excludedS, excludedO) ==
    [declared |-> declared, rank |-> [o \in Objects |-> rank],
     excludedSchemas |-> excludedS, excludedObjects |-> excludedO,
     discovered |-> discovered, allowAll |-> allowAll]

\* Discovery of s1 over a declared object not every role has the clearance for.
OnePolicy == {Policy({a}, 2, {s1}, FALSE, {}, {})}

\* That one, no discovery, and the wildcard: with an object that is excluded, and
\* with a schema that is excluded and has a declaration.
SomePolicies ==
    OnePolicy \cup
    {Policy({a}, 1, {}, FALSE, {}, {}),
     Policy({}, 1, {}, TRUE, {}, {b}),
     Policy({b}, 2, {}, TRUE, {s2}, {})}

Symmetry == Permutations(Calls)
=============================================================================
