-------------------------- MODULE DictionaryProofs --------------------------
(***************************************************************************)
(* Proofs about Dictionary for any policies, roles, calls and times: the   *)
(* answers are those of a recent view of the dictionary, and listing and   *)
(* authorization agree.                                                    *)
(***************************************************************************)
EXTENDS Dictionary, TLAPS

-----------------------------------------------------------------------------
(* Listing and authorization *)

LEMMA ListingIsAuthorization ==
    ASSUME policy \in PolicyType, view \in Views,
           NEW r \in Roles, NEW s \in Schemas
    PROVE  Listing(r, s, Rows(s, view)) =
             {o \in Objects : /\ SchemaOf[o] = s /\ ~IsExcludedSchema(s)
                              /\ Authorized(r, o, Rows(s, view))}
<1>1. \A o \in Rows(s, view) : o \in Objects /\ SchemaOf[o] = s
  BY KeysAssumption, ViewsAssumption DEF Rows, FirstNames
<1>2. policy.declared \in SUBSET Objects
  BY DEF PolicyType
<1>3. \A o : o \in AllowedObjects(r, s, Rows(s, view)) <=>
             /\ o \in Objects /\ SchemaOf[o] = s
             /\ Authorized(r, o, Rows(s, view))
  BY <1>1, <1>2 DEF AllowedObjects, Authorized, Discovers
<1>4. ~CanSee(r, s) => \A o : SchemaOf[o] = s => ~Authorized(r, o, Rows(s, view))
  BY DEF Authorized
<1> QED
  BY <1>3, <1>4 DEF Listing

-----------------------------------------------------------------------------
(* Types *)

\* What a lookup of a key gives.
ValuesOf(k) == IF k = AllSchemas THEN SUBSET Schemas ELSE SUBSET Objects

\* Each value has the type of its key, and a call looks up what its request asks.
KeysInv ==
    /\ \A k \in Keys : cache[k] # None => cache[k].value \in ValuesOf(k)
    /\ \A c \in Calls :
         /\ rows[c] \in ValuesOf(key[c])
         /\ key[c] = None => rows[c] = {}
         /\ pc[c] \in {"now", "look", "fetch", "store"} => key[c] # None
         /\ pc[c] # "new" => request[c] \in Requests /\ key[c] = KeyFor(request[c])
         /\ pc[c] = "new" => key[c] = None

LEMMA ValuesAre ==
    ASSUME NEW k, NEW v \in ValuesOf(k)
    PROVE  v \in Values
<1>1. CASE k = AllSchemas
  BY <1>1 DEF ValuesOf, Values
<1>2. CASE k # AllSchemas
  BY <1>2 DEF ValuesOf, Values
<1> QED
  BY <1>1, <1>2

LEMMA KeyForType ==
    ASSUME NEW q \in Requests
    PROVE  /\ KeyFor(q) \in Keys \cup {None}
           /\ q.kind = "search" => KeyFor(q) = None
           /\ KeyFor(q) = AllSchemas => q.kind = "schemas"
  BY ObjectsAssumption, KeysAssumption, SMTT(30) DEF KeyFor, Keys, Requests

LEMMA RowsType ==
    ASSUME NEW k \in Keys, NEW shown \in SUBSET Objects
    PROVE  Rows(k, shown) \in ValuesOf(k)
  BY ObjectsAssumption, KeysAssumption DEF Rows, FirstNames, ValuesOf, Keys

LEMMA ListingType ==
    ASSUME policy \in PolicyType, NEW r, NEW s, NEW found \in SUBSET Objects
    PROVE  /\ AllowedObjects(r, s, found) \in SUBSET Objects
           /\ Listing(r, s, found) \in SUBSET Objects
  BY DEF PolicyType, AllowedObjects, Listing

LEMMA SchemasType ==
    ASSUME policy \in PolicyType, NEW r, NEW found \in SUBSET Schemas
    PROVE  AllowedSchemas(r, found) \in SUBSET Schemas
  BY ObjectsAssumption DEF PolicyType, AllowedSchemas, DeclaredSchemas

LEMMA DecisionType ==
    ASSUME policy \in PolicyType, NEW q \in Requests,
           NEW found \in ValuesOf(KeyFor(q)), KeyFor(q) = None => found = {}
    PROVE  Decision(q, found) \in Values
<1>1. q.kind \in {"authorize", "list", "schemas", "search"}
  BY DEF Requests
<1>2. CASE q.kind = "authorize"
  <2>1. q.object \in Objects
    BY <1>2 DEF Requests
  <2> QED
    BY <1>2, <2>1 DEF Decision, Values
<1>3. CASE q.kind = "list"
  <2>1. found \in SUBSET Objects
    BY <1>3, KeyForType DEF ValuesOf
  <2> QED
    BY <1>3, <2>1, ListingType DEF Decision, Values
<1>4. CASE q.kind = "schemas"
  <2>1. KeyFor(q) \in {AllSchemas, None}
    BY <1>4 DEF KeyFor
  <2>2. found \in SUBSET Schemas
    BY <2>1 DEF ValuesOf
  <2>3. AllowedSchemas(q.role, found) \in SUBSET Schemas
    BY <2>2, SchemasType
  <2>4. Decision(q, found) = AllowedSchemas(q.role, found)
    BY <1>4 DEF Decision
  <2> QED
    BY <2>3, <2>4 DEF Values
<1>5. CASE q.kind = "search"
  <2>1. \A s \in Schemas : AllowedObjects(q.role, s, {}) \in SUBSET Objects
    BY ListingType
  <2>2. UNION {AllowedObjects(q.role, s, {}) : s \in Schemas} \in SUBSET Objects
    BY <2>1
  <2>3. Decision(q, found) = UNION {AllowedObjects(q.role, s, {}) : s \in Schemas}
    BY <1>5 DEF Decision
  <2> QED
    BY <2>2, <2>3 DEF Values
<1> QED
  BY <1>1, <1>2, <1>3, <1>4, <1>5

TypeInv == TypeOK /\ KeysInv

LEMMA PolicyIsTyped == TypeOK => policy \in PolicyType
  BY PoliciesAssumption DEF TypeOK

LEMMA TypeInit == Init => TypeInv
  BY TimeAssumption, KeysAssumption, SMTT(30)
  DEF Init, TypeInv, TypeOK, KeysInv, Values, ValuesOf, Keys

\* What Begin gives a call: its request, key and time, and an answer when the
\* request is a search under discovery.
LEMMA TypeBegin ==
    ASSUME TypeInv, NEW c \in Calls, Begin(c)
    PROVE  TypeInv'
<1> USE DEF TypeInv, TypeOK
<1>1. PICK q \in Requests :
        /\ request' = [request EXCEPT ![c] = q]
        /\ key' = [key EXCEPT ![c] = KeyFor(q)]
        /\ began' = [began EXCEPT ![c] = clock]
        /\ CASE q.kind = "search" /\ DiscoveryEnabled ->
                  \E hits \in SUBSET view : Finish(c, VisibleHits(q.role, hits))
             [] KeyFor(q) # None -> Goto(c, "now")
             [] OTHER -> Goto(c, "decide")
  BY DEF Begin
<1>2. pc[c] = "new" /\ key[c] = None /\ rows[c] = {}
  BY DEF Begin, KeysInv
<1>3. UNCHANGED <<policy, clock, view, views, cache, rows>>
  BY DEF Begin, environment
<1>4. KeyFor(q) \in Keys \cup {None} /\ (q.kind = "search" => KeyFor(q) = None)
  BY KeyForType
<1>5. KeyFor(q)' = KeyFor(q) /\ \A p : KeyFor(p)' = KeyFor(p)
  BY <1>3 DEF KeyFor, IsDiscoverable, IsExcludedSchema, CanSee
<1>6. \/ \E hits \in SUBSET view :
            Finish(c, VisibleHits(q.role, hits)) /\ q.kind = "search"
      \/ KeyFor(q) # None /\ Goto(c, "now")
      \/ KeyFor(q) = None /\ Goto(c, "decide")
  BY <1>1
<1>7. \A hits \in SUBSET view : VisibleHits(q.role, hits) \in Values
  BY ViewsAssumption DEF VisibleHits, Values
<1>8. TypeOK'
  <2>1. pc' \in [Calls -> {"new", "now", "look", "fetch", "store", "decide", "done"}]
    BY <1>6 DEF Goto, Finish
  <2>2. /\ request' \in [Calls -> Requests \cup {None}]
        /\ key' \in [Calls -> Keys \cup {None}]
        /\ began' \in [Calls -> Nat]
    <3>1. clock \in Nat
      BY TimeAssumption
    <3> QED
      BY <1>1, <1>4, <3>1
  <2>3. answer' \in [Calls -> Values] /\ ended' \in [Calls -> Nat]
    <3>1. CASE UNCHANGED <<answer, ended>>
      BY <3>1
    <3>2. ASSUME NEW hits \in SUBSET view, Finish(c, VisibleHits(q.role, hits))
          PROVE  answer' \in [Calls -> Values] /\ ended' \in [Calls -> Nat]
      BY <1>7, <3>2 DEF Finish
    <3> QED
      BY <1>6, <3>1, <3>2 DEF Goto
  <2> QED
    BY <1>3, <2>1, <2>2, <2>3
<1>9. KeysInv'
  <2>1. \A k \in Keys : cache'[k] # None => cache'[k].value \in ValuesOf(k)
    BY <1>3 DEF KeysInv
  <2>2. \A d \in Calls :
          /\ rows'[d] \in ValuesOf(key'[d])
          /\ key'[d] = None => rows'[d] = {}
    BY <1>1, <1>2, <1>3 DEF KeysInv, ValuesOf
  <2>3. /\ request'[c] = q /\ key'[c] = KeyFor(q) /\ pc'[c] # "new"
        /\ pc'[c] \in {"now", "look", "fetch", "store"} => key'[c] # None
    BY <1>1, <1>6 DEF Goto, Finish
  <2>4. \A d \in Calls \ {c} :
          pc'[d] = pc[d] /\ request'[d] = request[d] /\ key'[d] = key[d]
    BY <1>1, <1>6 DEF Goto, Finish
  <2> QED
    BY <2>1, <2>2, <2>3, <2>4, <1>5 DEF KeysInv
<1> QED
  BY <1>8, <1>9

LEMMA TypeNext ==
    ASSUME TypeInv, [Next]_vars
    PROVE  TypeInv'
<1> USE TimeAssumption, KeysAssumption DEF TypeInv, TypeOK
<1>1. ASSUME UNCHANGED <<policy, cache, request, key, rows, pc>> PROVE KeysInv'
  BY <1>1, ZenonT(60) DEF KeysInv, KeyFor, IsDiscoverable, IsExcludedSchema, CanSee
<1>2. CASE UNCHANGED vars
  BY <1>1, <1>2 DEF vars, environment, locals
<1>3. CASE Tick
  <2>1. TypeOK'
    BY <1>3 DEF Tick, locals
  <2> QED
    BY <1>1, <1>3, <2>1 DEF Tick, locals
<1>4. CASE DatabaseChanges
  <2>1. TypeOK'
    BY <1>4 DEF DatabaseChanges, locals
  <2> QED
    BY <1>1, <1>4, <2>1 DEF DatabaseChanges, locals
<1>5. ASSUME NEW c \in Calls, Step(c) PROVE TypeInv'
  <2>1. CASE Begin(c)
    BY <2>1, TypeBegin
  <2> SUFFICES ASSUME ~Begin(c) PROVE TypeInv'
    BY <2>1
  <2>2. UNCHANGED <<policy, clock, view, views, request, key>>
    BY <1>5 DEF Step, ReadClock, LookUp, Fetch, Store, Decide, environment, locals
  <2>3. \A q : KeyFor(q)' = KeyFor(q)
    BY <2>2 DEF KeyFor, IsDiscoverable, IsExcludedSchema, CanSee
  <2>4. CASE ReadClock(c)
    BY <2>2, <2>3, <2>4 DEF ReadClock, Goto, KeysInv
  <2>5. CASE LookUp(c)
    <3>1. key[c] \in Keys /\ rows'[c] \in ValuesOf(key[c])
      BY <2>5 DEF LookUp, KeysInv, Holds
    <3>3. \A d \in Calls \ {c} : rows'[d] = rows[d]
      BY <2>5 DEF LookUp
    <3>4. rows' \in [Calls -> Values]
      BY <2>5, <3>1, ValuesAre DEF LookUp
    <3> QED
      BY <2>2, <2>3, <2>5, <3>1, <3>3, <3>4 DEF LookUp, Goto, KeysInv
  <2>6. CASE Fetch(c)
    <3>1. key[c] \in Keys /\ Rows(key[c], view) \in ValuesOf(key[c])
      BY <2>6, RowsType, ViewsAssumption DEF Fetch, KeysInv
    <3> QED
      BY <2>2, <2>3, <2>6, <3>1, ValuesAre DEF Fetch, Goto, KeysInv
  <2>7. CASE Store(c)
    <3>1. key[c] \in Keys /\ Expires(c) \in Nat
      BY <2>7 DEF Store, KeysInv, Expires
    <3>2. cache' \in [Keys -> [value : Values, expires : Nat] \cup {None}]
      BY <2>7, <3>1 DEF Store
    <3>3. \A k \in Keys : cache'[k] # None => cache'[k].value \in ValuesOf(k)
      BY <2>7, <3>1 DEF Store, KeysInv
    <3> QED
      BY <2>2, <2>3, <2>7, <3>2, <3>3 DEF Store, Goto, KeysInv, locals
  <2>8. CASE Decide(c)
    <3>1. Decision(request[c], rows[c]) \in Values
      BY <2>8, DecisionType, PolicyIsTyped DEF Decide, KeysInv
    <3> QED
      BY <2>2, <2>3, <2>8, <3>1 DEF Decide, Finish, KeysInv, locals
  <2> QED
    BY <1>5, <2>4, <2>5, <2>6, <2>7, <2>8 DEF Step
<1> QED
  BY <1>2, <1>3, <1>4, <1>5 DEF Next

LEMMA TypeAlways == Spec => []TypeInv
  BY TypeInit, TypeNext, PTL DEF Spec

\* The dictionary cache and its callers keep their types: an answer is a set of
\* objects or of schemas, whichever key was looked up for it.
THEOREM DictionaryTypeCorrect == Spec => []TypeOK
<1>1. TypeInv => TypeOK
  BY DEF TypeInv
<1> QED
  BY <1>1, TypeAlways, PTL

\* An object is listed just when a query that names it would be allowed, for any
\* policy, role and dictionary; only the declared objects of an excluded schema
\* are hidden from the listing and can be queried.
THEOREM ListingsAgree == Spec => []ListingAgrees
<1>1. TypeInv => ListingAgrees
  <2> SUFFICES ASSUME TypeInv, NEW r \in Roles, NEW s \in Schemas
               PROVE  Listing(r, s, Rows(s, view)) =
                        {o \in Objects : /\ SchemaOf[o] = s /\ ~IsExcludedSchema(s)
                                         /\ Authorized(r, o, Rows(s, view))}
    BY DEF ListingAgrees
  <2> QED
    BY ListingIsAuthorization, PolicyIsTyped DEF TypeInv, TypeOK
<1> QED
  BY <1>1, TypeAlways, PTL

-----------------------------------------------------------------------------
(* Answers are recent *)

TimesInv ==
    /\ view \in views[clock]
    /\ \A c \in Calls : began[c] <= clock /\ ended[c] <= clock

\* An entry holds no longer than the time to live after what it shows was there,
EntriesRecent ==
    \A k \in Keys : cache[k] # None =>
        \E t \in 0..clock : \E shown \in views[t] :
            cache[k].expires <= t + Ttl /\ cache[k].value = Rows(k, shown)

\* and what a call has from an entry, or from the database, is as recent.
RowsRecent ==
    \A c \in Calls : pc[c] \in {"store", "decide"} /\ key[c] # None =>
        \E t \in 0..clock : \E shown \in views[t] :
            /\ t = began[c] \/ t + Ttl > began[c]
            /\ pc[c] = "store" => began[c] <= t
            /\ rows[c] = Rows(key[c], shown)

RecentInv == TimesInv /\ EntriesRecent /\ RowsRecent /\ AnswersAreRecent

LEMMA RecentInit == Init => RecentInv
<1> SUFFICES ASSUME Init PROVE RecentInv
  OBVIOUS
<1>1. TimesInv
  BY TimeAssumption DEF Init, TimesInv
<1>2. EntriesRecent /\ RowsRecent /\ AnswersAreRecent
  BY DEF Init, EntriesRecent, RowsRecent, AnswersAreRecent
<1> QED
  BY <1>1, <1>2 DEF RecentInv

\* The past does not change.
LEMMA PastStays ==
    ASSUME TypeInv, TimesInv, [Next]_vars
    PROVE  /\ clock \in Nat /\ clock' \in Nat /\ clock <= clock'
           /\ \A t \in 0..clock : views[t] \subseteq views'[t]
           /\ view' \in views'[clock']
           /\ UNCHANGED policy
<1> USE TimeAssumption DEF TypeInv, TypeOK, TimesInv
<1>1. CASE UNCHANGED <<policy, environment>>
  BY <1>1 DEF environment
<1>2. CASE DatabaseChanges
  BY <1>2 DEF DatabaseChanges
<1>3. CASE Tick
  BY <1>3 DEF Tick
<1>4. ASSUME NEW c \in Calls, Step(c) PROVE UNCHANGED <<policy, environment>>
  BY <1>4 DEF Step, Begin, ReadClock, LookUp, Fetch, Store, Decide
<1> QED
  BY <1>1, <1>2, <1>3, <1>4 DEF Next, vars

\* A decision depends on the policy, which is loaded once, and on its arguments.
LEMMA DecisionStays ==
    ASSUME UNCHANGED policy
    PROVE  \A c \in Calls : \A shown :
             Decision(request[c], Rows(key[c], shown))'
               = Decision(request'[c], Rows(key'[c], shown))
  BY DEF Decision, Authorized, Discovers, Listing, AllowedObjects, AllowedSchemas,
         DeclaredSchemas, Rank, CanSee, IsDiscoverable, IsExcludedSchema, Rows

LEMMA TimesNext ==
    ASSUME TypeInv, TimesInv, [Next]_vars
    PROVE  TimesInv'
<1>1. view' \in views'[clock'] /\ clock \in Nat /\ clock' \in Nat /\ clock <= clock'
  BY PastStays
<1>2. \A d \in Calls : /\ began'[d] = began[d] \/ began'[d] = clock
                       /\ ended'[d] = ended[d] \/ ended'[d] = clock
  BY DEF TypeInv, TypeOK, Next, vars, locals, Tick, DatabaseChanges, Step, Begin,
         ReadClock, LookUp, Fetch, Store, Decide, Goto, Finish
<1>3. \A d \in Calls : /\ began[d] \in Nat /\ began[d] <= clock
                       /\ ended[d] \in Nat /\ ended[d] <= clock
  BY DEF TimesInv, TypeInv, TypeOK
<1>4. \A d \in Calls : began'[d] <= clock' /\ ended'[d] <= clock'
  BY <1>1, <1>2, <1>3
<1> QED
  BY <1>1, <1>4 DEF TimesInv

LEMMA EntriesNext ==
    ASSUME TypeInv, RecentInv, [Next]_vars
    PROVE  EntriesRecent'
<1> SUFFICES ASSUME NEW k \in Keys, cache'[k] # None
             PROVE  \E t \in 0..clock' : \E shown \in views'[t] :
                       /\ cache'[k].expires <= t + Ttl
                       /\ cache'[k].value = Rows(k, shown)
  BY DEF EntriesRecent
<1>1. /\ clock \in Nat /\ clock' \in Nat /\ clock <= clock'
      /\ \A t \in 0..clock : views[t] \subseteq views'[t]
  BY PastStays DEF RecentInv
<1>2. CASE cache'[k] = cache[k]
  BY <1>1, <1>2 DEF RecentInv, EntriesRecent
<1>3. CASE cache'[k] # cache[k]
  <2>1. PICK c \in Calls : Store(c) /\ key[c] = k
    BY <1>3 DEF TypeInv, TypeOK, Next, vars, Tick, DatabaseChanges, Step, Begin,
                ReadClock, LookUp, Fetch, Store, Decide
  <2>2. cache'[k] = [value |-> rows[c], expires |-> began[c] + Ttl]
    BY <2>1 DEF Store, Expires, TypeInv, TypeOK
  <2>3. PICK t \in 0..clock :
          \E shown \in views[t] : began[c] <= t /\ rows[c] = Rows(k, shown)
    BY <2>1, KeysAssumption DEF Store, RecentInv, RowsRecent, Keys
  <2>4. began[c] \in Nat /\ began[c] + Ttl <= t + Ttl /\ t \in 0..clock'
    BY <1>1, <2>3, TimeAssumption DEF TypeInv, TypeOK
  <2> QED
    BY <1>1, <2>2, <2>3, <2>4
<1> QED
  BY <1>2, <1>3

LEMMA RowsNext ==
    ASSUME TypeInv, RecentInv, [Next]_vars
    PROVE  RowsRecent'
<1> SUFFICES ASSUME NEW c \in Calls, pc'[c] \in {"store", "decide"}, key'[c] # None
             PROVE  \E t \in 0..clock' : \E shown \in views'[t] :
                       /\ t = began'[c] \/ t + Ttl > began'[c]
                       /\ pc'[c] = "store" => began'[c] <= t
                       /\ rows'[c] = Rows(key'[c], shown)
  BY DEF RowsRecent
<1>1. /\ clock \in Nat /\ clock' \in Nat /\ clock <= clock'
      /\ \A t \in 0..clock : views[t] \subseteq views'[t]
  BY PastStays DEF RecentInv
<1>2. CASE UNCHANGED <<pc[c], key[c], began[c], rows[c]>>
  BY <1>1, <1>2 DEF RecentInv, RowsRecent
<1>3. CASE LookUp(c)
  <2>1. /\ Holds(cache[key[c]], began[c]) /\ rows'[c] = cache[key[c]].value
        /\ pc'[c] = "decide" /\ UNCHANGED <<key[c], began[c], clock, views>>
    BY <1>3 DEF LookUp, Goto, environment, TypeInv, TypeOK
  <2>2. key[c] \in Keys /\ cache[key[c]] # None
    BY <1>3, <2>1 DEF Holds, LookUp, TypeInv, TypeOK, KeysInv
  <2>3. PICK t \in 0..clock : \E shown \in views[t] :
          /\ cache[key[c]].expires <= t + Ttl
          /\ cache[key[c]].value = Rows(key[c], shown)
    BY <2>2 DEF RecentInv, EntriesRecent
  <2>4. began[c] < t + Ttl
    BY <2>1, <2>2, <2>3, TimeAssumption DEF Holds, TypeInv, TypeOK
  <2> QED
    BY <2>1, <2>3, <2>4
<1>4. CASE Fetch(c)
  <2>1. /\ rows'[c] = Rows(key[c], view) /\ UNCHANGED <<key, began, clock, view, views>>
    BY <1>4 DEF Fetch, environment, TypeInv, TypeOK
  <2>2. view \in views[clock] /\ began[c] \in Nat /\ began[c] <= clock
    BY DEF RecentInv, TimesInv, TypeInv, TypeOK
  <2>3. clock = began[c] \/ clock + Ttl > began[c]
    BY <1>1, <2>2, TimeAssumption
  <2> QED
    BY <1>1, <2>1, <2>2, <2>3
<1>5. CASE Store(c)
  <2>1. /\ pc[c] = "store" /\ pc'[c] = "decide"
        /\ UNCHANGED <<key, began, rows, clock, views>>
    BY <1>5 DEF Store, Goto, environment, locals, TypeInv, TypeOK
  <2> QED
    BY <2>1 DEF RecentInv, RowsRecent
<1>6. \/ UNCHANGED <<pc[c], key[c], began[c], rows[c]>>
      \/ LookUp(c) \/ Fetch(c) \/ Store(c)
  <2>1. CASE UNCHANGED vars \/ Tick \/ DatabaseChanges
    BY <2>1 DEF vars, Tick, DatabaseChanges, locals
  <2>2. ASSUME NEW d \in Calls, Step(d), d # c
        PROVE  UNCHANGED <<pc[c], key[c], began[c], rows[c]>>
    BY <2>2 DEF Step, Begin, ReadClock, LookUp, Fetch, Store, Decide, Goto, Finish,
                locals, TypeInv, TypeOK
  <2>3. ~ReadClock(c) /\ ~Decide(c)
    BY DEF ReadClock, Decide, Goto, Finish, TypeInv, TypeOK
  <2>4. ~Begin(c)
    <3> SUFFICES ASSUME Begin(c) PROVE FALSE
      OBVIOUS
    <3>1. PICK q \in Requests :
            /\ key' = [key EXCEPT ![c] = KeyFor(q)]
            /\ CASE q.kind = "search" /\ DiscoveryEnabled ->
                      \E hits \in SUBSET view : Finish(c, VisibleHits(q.role, hits))
                 [] KeyFor(q) # None -> Goto(c, "now")
                 [] OTHER -> Goto(c, "decide")
      BY DEF Begin
    <3>2. key'[c] = KeyFor(q) /\ pc'[c] = "decide"
      BY <3>1 DEF Goto, Finish, TypeInv, TypeOK
    <3>3. KeyFor(q) # None
      BY <3>2
    <3>4. Goto(c, "now") \/ \E hits \in SUBSET view : Finish(c, VisibleHits(q.role, hits))
      BY <3>1, <3>3
    <3> QED
      BY <3>2, <3>4 DEF Goto, Finish, TypeInv, TypeOK
  <2> QED
    BY <2>1, <2>2, <2>3, <2>4 DEF Next, Step
<1> QED
  BY <1>2, <1>3, <1>4, <1>5, <1>6

LEMMA AnswersNext ==
    ASSUME TypeInv, RecentInv, [Next]_vars
    PROVE  AnswersAreRecent'
<1> SUFFICES ASSUME NEW c \in Calls, pc'[c] = "done", key'[c] # None
             PROVE  \E t \in 0..ended'[c] : \E shown \in views'[t] :
                       /\ t = began'[c] \/ t + Ttl > began'[c]
                       /\ answer'[c] = Decision(request'[c], Rows(key'[c], shown))
  BY PastStays, DecisionStays DEF AnswersAreRecent, RecentInv
<1>1. /\ clock \in Nat /\ \A t \in 0..clock : views[t] \subseteq views'[t]
  BY PastStays DEF RecentInv
<1>2. CASE UNCHANGED <<pc[c], request[c], key[c], began[c], answer[c], ended[c]>>
  <2>1. PICK t \in 0..ended[c] : \E shown \in views[t] :
          /\ t = began[c] \/ t + Ttl > began[c]
          /\ answer[c] = Decision(request[c], Rows(key[c], shown))
    BY <1>2 DEF RecentInv, AnswersAreRecent
  <2>2. t \in 0..clock
    BY <1>1, <2>1 DEF RecentInv, TimesInv, TypeInv, TypeOK
  <2> QED
    BY <1>1, <1>2, <2>1, <2>2
<1>3. CASE Decide(c)
  <2>1. /\ pc[c] = "decide" /\ answer'[c] = Decision(request[c], rows[c])
        /\ ended'[c] = clock /\ UNCHANGED <<request, key, began, views>>
    BY <1>3 DEF Decide, Finish, environment, locals, TypeInv, TypeOK
  <2>2. PICK t \in 0..clock : \E shown \in views[t] :
          /\ t = began[c] \/ t + Ttl > began[c]
          /\ rows[c] = Rows(key[c], shown)
    BY <2>1 DEF RecentInv, RowsRecent
  <2> QED
    BY <1>1, <2>1, <2>2
<1>4. \/ UNCHANGED <<pc[c], request[c], key[c], began[c], answer[c], ended[c]>>
      \/ Decide(c)
  <2>1. CASE UNCHANGED vars \/ Tick \/ DatabaseChanges
    BY <2>1 DEF vars, Tick, DatabaseChanges, locals
  <2>2. ASSUME NEW d \in Calls, Step(d), d # c
        PROVE  UNCHANGED <<pc[c], request[c], key[c], began[c], answer[c], ended[c]>>
    BY <2>2 DEF Step, Begin, ReadClock, LookUp, Fetch, Store, Decide, Goto, Finish,
                locals, TypeInv, TypeOK
  <2>3. ~ReadClock(c) /\ ~LookUp(c) /\ ~Fetch(c) /\ ~Store(c)
    BY DEF ReadClock, LookUp, Fetch, Store, Goto, TypeInv, TypeOK
  <2>4. ~Begin(c)
    <3> SUFFICES ASSUME Begin(c) PROVE FALSE
      OBVIOUS
    <3>1. PICK q \in Requests :
            /\ key' = [key EXCEPT ![c] = KeyFor(q)]
            /\ CASE q.kind = "search" /\ DiscoveryEnabled ->
                      \E hits \in SUBSET view : Finish(c, VisibleHits(q.role, hits))
                 [] KeyFor(q) # None -> Goto(c, "now")
                 [] OTHER -> Goto(c, "decide")
      BY DEF Begin
    <3>2. KeyFor(q) # None
      BY <3>1 DEF TypeInv, TypeOK
    <3>3. q.kind # "search"
      BY <3>2, KeyForType
    <3>4. Goto(c, "now")
      BY <3>1, <3>2, <3>3
    <3> QED
      BY <3>4 DEF Goto, TypeInv, TypeOK
  <2> QED
    BY <2>1, <2>2, <2>3, <2>4 DEF Next, Step
<1> QED
  BY <1>2, <1>3, <1>4

LEMMA RecentAlways == Spec => [](TypeInv /\ RecentInv)
<1>1. TypeInv /\ RecentInv /\ [Next]_vars => RecentInv'
  BY TimesNext, EntriesNext, RowsNext, AnswersNext DEF RecentInv
<1> QED
  BY <1>1, RecentInit, TypeAlways, PTL DEF Spec

\* What authorize_object, list_allowed_tables and list_allowed_schemas decide
\* with the dictionary is right for what it showed less than the time to live
\* before the lookup, or during it: revoked grants and outages are forgotten in
\* time, for any number of threads that store over each other's entries.
THEOREM DictionaryAnswersAreRecent == Spec => []AnswersAreRecent
<1>1. RecentInv => AnswersAreRecent
  BY DEF RecentInv
<1> QED
  BY <1>1, RecentAlways, PTL
=============================================================================
