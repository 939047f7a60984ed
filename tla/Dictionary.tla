----------------------------- MODULE Dictionary -----------------------------
(***************************************************************************)
(* Which schemas and objects a role may use: the policy (policy.py), and   *)
(* the data dictionary it asks about objects it does not declare           *)
(* (DataDictionary in metadata.py), with its cache, its outages and grants *)
(* that change.  The tools ask in worker threads; a lookup reads the clock,*)
(* the cache, the database, and writes the cache in separate steps.        *)
(***************************************************************************)
EXTENDS Naturals, FiniteSets

CONSTANTS
    Calls,
    Schemas, Objects,
    SchemaOf,   \* [Objects -> Schemas]
    Roles,
    SchemasFor, \* [Roles -> SUBSET Schemas], the wildcard written out
    Clearance,  \* [Roles -> Nat]
    Policies,   \* the policies a server may have loaded
    Views,      \* what the dictionary may show the account, none in an outage
    Order,      \* [Schemas \cup Objects -> Nat], the order of the names
    MaxRows,    \* _MAX_DICTIONARY_ROWS
    AllSchemas, \* the cache key of list_schemas
    Ttl,        \* _CACHE_TTL_SECONDS
    MaxClock,   \* bound on the clock
    MaxViews,   \* bound on the views of one tick
    None        \* no value

Internal == 1   \* SENSITIVITY_ORDER["INTERNAL"]

\* What a YAML file says: the objects it declares with their sensitivity, the
\* exclusions, and how far discovery goes.
PolicyType ==
    [declared : SUBSET Objects, rank : [Objects -> Nat],
     excludedSchemas : SUBSET Schemas, excludedObjects : SUBSET Objects,
     discovered : SUBSET Schemas, allowAll : BOOLEAN]

ASSUME ObjectsAssumption == SchemaOf \in [Objects -> Schemas]
ASSUME RolesAssumption ==
    SchemasFor \in [Roles -> SUBSET Schemas] /\ Clearance \in [Roles -> Nat]
ASSUME PoliciesAssumption == Policies \subseteq PolicyType
ASSUME ViewsAssumption == Views \subseteq SUBSET Objects
ASSUME OrderAssumption ==
    Order \in [Schemas \cup Objects -> Nat] /\ MaxRows \in Nat \ {0}
ASSUME TimeAssumption == Ttl \in Nat /\ MaxClock \in Nat /\ MaxViews \in Nat
ASSUME KeysAssumption ==
    AllSchemas \notin Schemas /\ None \notin Schemas \cup {AllSchemas}

VARIABLES
    clock,      \* time.monotonic()
    policy,     \* the loaded policy
    view,       \* objects the dictionary shows the account
    views,      \* what it has shown, by the tick of the clock
    cache,      \* DataDictionary._cache
    pc,         \* where each call is
    request,    \* what each call asks
    key,        \* what it looks up, None when the policy alone decides
    began,      \* local "now" of _cached
    rows,       \* what the lookup gives
    answer,     \* the objects, or schemas, each call answers
    ended       \* when

environment == <<clock, view, views>>
locals == <<request, key, began, rows>>
vars == <<policy, environment, cache, locals, pc, answer, ended>>

-----------------------------------------------------------------------------
(* The policy *)

IsExcludedSchema(s) == s \in policy.excludedSchemas

DiscoveryEnabled == policy.allowAll \/ policy.discovered # {}

\* A list of schemas overrides the wildcard.
IsDiscoverable(s) ==
    /\ ~IsExcludedSchema(s)
    /\ IF policy.discovered # {} THEN s \in policy.discovered ELSE policy.allowAll

CanSee(r, s) == s \in SchemasFor[r]

\* An object that is declared keeps its classification when it is discovered.
Rank(o) == IF o \in policy.declared THEN policy.rank[o] ELSE Internal

\* Mutation: what is excluded from listings is still answered by its name.
DiscoversByName(o, found) == IsDiscoverable(SchemaOf[o]) /\ o \in found

Discovers(o, found) ==
    /\ IsDiscoverable(SchemaOf[o])
    /\ o \notin policy.excludedObjects
    /\ o \in found

\* authorize_object, for the objects the dictionary shows.
Authorized(r, o, found) ==
    /\ o \in policy.declared \/ Discovers(o, found)
    /\ CanSee(r, SchemaOf[o])
    /\ Rank(o) <= Clearance[r]

\* allowed_objects for one schema.
AllowedObjects(r, s, found) ==
    LET declared == {o \in policy.declared : SchemaOf[o] = s}
        discovered == IF IsDiscoverable(s) THEN found \ policy.excludedObjects ELSE {}
    IN  {o \in declared \cup discovered :
            CanSee(r, SchemaOf[o]) /\ Rank(o) <= Clearance[r]}

\* list_allowed_tables refuses a schema that is excluded, declared or not.
Listing(r, s, found) ==
    IF IsExcludedSchema(s) \/ ~CanSee(r, s) THEN {} ELSE AllowedObjects(r, s, found)

DeclaredSchemas == {SchemaOf[o] : o \in policy.declared}

\* allowed_schemas: the declared ones and the candidates for discovery.
AllowedSchemas(r, found) ==
    LET candidates == IF policy.discovered # {} THEN policy.discovered ELSE found
    IN  {s \in DeclaredSchemas \cup {t \in candidates : IsDiscoverable(t)} : CanSee(r, s)}

\* search under discovery: the hits are filtered by schema and exclusion.
VisibleHits(r, hits) ==
    {o \in hits : /\ CanSee(r, SchemaOf[o])
                  /\ IsDiscoverable(SchemaOf[o])
                  /\ o \notin policy.excludedObjects}

-----------------------------------------------------------------------------
(* The dictionary *)

Keys == Schemas \cup {AllSchemas}

Requests ==
    [kind : {"authorize"}, role : Roles, object : Objects]
      \cup [kind : {"list"}, role : Roles, schema : Schemas]
      \cup [kind : {"schemas", "search"}, role : Roles]

\* The queries behind a listing order the names, and the connection takes the first
\* of them up to the cap without a word about the others.
FirstNames(names) ==
    {n \in names : Cardinality({m \in names : Order[m] < Order[n]}) < MaxRows}

Rows(k, shown) ==
    FirstNames(IF k = AllSchemas THEN {SchemaOf[o] : o \in shown}
                                 ELSE {o \in shown : SchemaOf[o] = k})

\* What a request looks up, when the policy alone does not decide it.
KeyFor(q) ==
    CASE /\ q.kind = "authorize"
         /\ q.object \notin policy.declared
         /\ IsDiscoverable(SchemaOf[q.object])
         /\ q.object \notin policy.excludedObjects -> SchemaOf[q.object]
      [] /\ q.kind = "list"
         /\ CanSee(q.role, q.schema)
         /\ IsDiscoverable(q.schema) -> q.schema
      [] /\ q.kind = "schemas"
         /\ policy.allowAll
         /\ policy.discovered = {} -> AllSchemas
      [] OTHER -> None

Decision(q, found) ==
    CASE q.kind = "authorize" -> {o \in {q.object} : Authorized(q.role, o, found)}
      [] q.kind = "list" -> Listing(q.role, q.schema, found)
      [] q.kind = "schemas" -> AllowedSchemas(q.role, found)
      [] q.kind = "search" ->
           UNION {AllowedObjects(q.role, s, {}) : s \in Schemas}

Values == (SUBSET Objects) \cup (SUBSET Schemas)

TypeOK ==
    /\ clock \in 0..MaxClock
    /\ policy \in Policies
    /\ view \in Views
    /\ views \in [0..MaxClock -> SUBSET Views]
    /\ cache \in [Keys -> [value : Values, expires : Nat] \cup {None}]
    /\ pc \in [Calls -> {"new", "now", "look", "fetch", "store", "decide", "done"}]
    /\ request \in [Calls -> Requests \cup {None}]
    /\ key \in [Calls -> Keys \cup {None}]
    /\ began \in [Calls -> Nat]
    /\ rows \in [Calls -> Values]
    /\ answer \in [Calls -> Values]
    /\ ended \in [Calls -> Nat]

Init ==
    /\ clock = 0
    /\ policy \in Policies
    /\ view \in Views
    /\ views = [t \in 0..MaxClock |-> IF t = 0 THEN {view} ELSE {}]
    /\ cache = [k \in Keys |-> None]
    /\ pc = [c \in Calls |-> "new"]
    /\ request = [c \in Calls |-> None]
    /\ key = [c \in Calls |-> None]
    /\ began = [c \in Calls |-> 0]
    /\ rows = [c \in Calls |-> {}]
    /\ answer = [c \in Calls |-> {}]
    /\ ended = [c \in Calls |-> 0]

-----------------------------------------------------------------------------
(* The calls *)

Goto(c, label) == pc' = [pc EXCEPT ![c] = label] /\ UNCHANGED <<answer, ended>>

Finish(c, value) ==
    /\ pc' = [pc EXCEPT ![c] = "done"]
    /\ answer' = [answer EXCEPT ![c] = value]
    /\ ended' = [ended EXCEPT ![c] = clock]

\* A call begins; where discovery is on, a search goes past the cache and past the
\* listings, with a query and a row limit of its own.
Begin(c) ==
    /\ pc[c] = "new"
    /\ \E q \in Requests :
         /\ request' = [request EXCEPT ![c] = q]
         /\ key' = [key EXCEPT ![c] = KeyFor(q)]
         /\ began' = [began EXCEPT ![c] = clock]
         /\ CASE q.kind = "search" /\ DiscoveryEnabled ->
                   \E hits \in SUBSET view : Finish(c, VisibleHits(q.role, hits))
              [] KeyFor(q) # None -> Goto(c, "now")
              [] OTHER -> Goto(c, "decide")
    /\ UNCHANGED <<policy, environment, cache, rows>>

\* _cached: the time,
ReadClock(c) ==
    /\ pc[c] = "now"
    /\ began' = [began EXCEPT ![c] = clock]
    /\ Goto(c, "look")
    /\ UNCHANGED <<policy, environment, cache, request, key, rows>>

\* Mutation: an entry holds at its expiry as well.
HoldsTooLong(entry, now) == entry # None /\ entry.expires >= now

Holds(entry, now) == entry # None /\ entry.expires > now

\* the entry,
LookUp(c) ==
    /\ pc[c] = "look"
    /\ \/ /\ Holds(cache[key[c]], began[c])
          /\ rows' = [rows EXCEPT ![c] = cache[key[c]].value]
          /\ Goto(c, "decide")
       \/ ~Holds(cache[key[c]], began[c]) /\ Goto(c, "fetch") /\ UNCHANGED rows
    /\ UNCHANGED <<policy, environment, cache, request, key, began>>

\* the query,
Fetch(c) ==
    /\ pc[c] = "fetch"
    /\ rows' = [rows EXCEPT ![c] = Rows(key[c], view)]
    /\ Goto(c, "store")
    /\ UNCHANGED <<policy, environment, cache, request, key, began>>

\* Mutation: the time to live is taken off the time.
Backdated(c) == began[c] - Ttl

Expires(c) == began[c] + Ttl

\* and the new entry, over whatever another call has stored meanwhile.
Store(c) ==
    /\ pc[c] = "store"
    /\ cache' = [cache EXCEPT
                   ![key[c]] = [value |-> rows[c], expires |-> Expires(c)]]
    /\ Goto(c, "decide")
    /\ UNCHANGED <<policy, environment, locals>>

Decide(c) ==
    /\ pc[c] = "decide"
    /\ Finish(c, Decision(request[c], rows[c]))
    /\ UNCHANGED <<policy, environment, cache, locals>>

Step(c) ==
    \/ Begin(c) \/ ReadClock(c) \/ LookUp(c) \/ Fetch(c) \/ Store(c) \/ Decide(c)

-----------------------------------------------------------------------------
(* The environment *)

\* Grants are given and revoked, the database goes away and comes back: a query
\* that fails returns no rows.
DatabaseChanges ==
    /\ view' \in Views \ views[clock]
    /\ Cardinality(views[clock]) < MaxViews
    /\ views' = [views EXCEPT ![clock] = @ \cup {view'}]
    /\ UNCHANGED <<clock, policy, cache, locals, pc, answer, ended>>

Tick ==
    /\ clock < MaxClock
    /\ clock' = clock + 1
    /\ views' = [views EXCEPT ![clock'] = {view}]
    /\ UNCHANGED <<policy, view, cache, locals, pc, answer, ended>>

Next == (\E c \in Calls : Step(c)) \/ DatabaseChanges \/ Tick

Spec == Init /\ [][Next]_vars

-----------------------------------------------------------------------------
(* Properties *)

\* Every answer that rests on the dictionary is the right one for what the
\* dictionary showed at some moment from less than the time to live before the
\* lookup began until it ended: a revoked grant and an outage are both
\* forgotten, whatever calls store over each other's entries.
AnswersAreRecent ==
    \A c \in Calls : pc[c] = "done" /\ key[c] # None =>
        \E t \in 0..ended[c] : \E shown \in views[t] :
            /\ t = began[c] \/ t + Ttl > began[c]
            /\ answer[c] = Decision(request[c], Rows(key[c], shown))

\* An object is listed just when a query that names it would be allowed, whatever
\* the policy and the dictionary say; only list_allowed_tables also hides the
\* declared objects of an excluded schema.
ListingAgrees ==
    \A r \in Roles, s \in Schemas :
        Listing(r, s, Rows(s, view)) =
            {o \in Objects : /\ SchemaOf[o] = s /\ ~IsExcludedSchema(s)
                             /\ Authorized(r, o, Rows(s, view))}
=============================================================================
