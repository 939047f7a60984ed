-------------------------- MODULE ApprovalsProofs --------------------------
(***************************************************************************)
(* Proofs about Approvals for any number of calls, any cache size and any  *)
(* time to live: nothing runs without an approval for the same database,   *)
(* role and form, and the cache does not grow beyond the calls trimming it.*)
(***************************************************************************)
EXTENDS Approvals, FiniteSetTheorems, TLAPS

-----------------------------------------------------------------------------
(* Types *)

LEMMA TypeInit == Init => TypeOK
  BY TimeAssumption, SMT DEF Init, TypeOK, Labels, Keys

LEMMA KeyType ==
    ASSUME TypeOK, NEW c \in Calls, form[c] # None
    PROVE  KeyOf(c) \in Keys
  BY DEF TypeOK, KeyOf, Keys

\* A call that is past the guard has a form.
HasForm == \A c \in Calls : pc[c] \in Labels \ {"new", "done"} => form[c] # None

LEMMA FormInit == Init => HasForm
  BY DEF Init, HasForm

LEMMA TypeNext ==
    ASSUME TypeOK, HasForm, [Next]_vars
    PROVE  TypeOK' /\ HasForm'
<1> USE TimeAssumption, NoneAssumption
    DEF TypeOK, HasForm, Labels, arguments, locals, cache, Goto, Finish
<1>1. CASE UNCHANGED vars
  BY <1>1 DEF vars
<1>2. CASE Tick
  BY <1>2 DEF Tick
<1>3. ASSUME NEW c \in Calls, Step(c) PROVE TypeOK' /\ HasForm'
  <2>1. CASE Validate(c)
    BY <2>1 DEF Validate, Accept
  <2>2. CASE ReadClock(c)
    BY <2>2 DEF ReadClock, Expiry, Expiry
  <2>3. CASE Store(c)
    <3>1. KeyOf(c) \in Keys
      BY <2>3, KeyType DEF Store
    <3> QED
      BY <2>3, <3>1 DEF Store
  <2>4. CASE CheckSize(c)
    BY <2>4 DEF CheckSize
  <2>5. CASE Evict(c)
    BY <2>5 DEF Evict, Remove, Live
  <2>6. CASE Prepare(c)
    BY <2>6 DEF Prepare, Accept
  <2>7. CASE LookUp(c)
    <3>1. KeyOf(c) \in Keys
      BY <2>7, KeyType DEF LookUp
    <3> QED
      BY <2>7, <3>1 DEF LookUp
  <2>8. CASE Judge(c)
    BY <2>8 DEF Judge
  <2>9. CASE Drop(c)
    BY <2>9 DEF Drop, Remove
  <2>10. CASE Run(c)
    BY <2>10 DEF Run
  <2> QED
    BY <1>3, <2>1, <2>2, <2>3, <2>4, <2>5, <2>6, <2>7, <2>8, <2>9, <2>10 DEF Step
<1> QED
  BY <1>1, <1>2, <1>3 DEF Next

TypeInv == TypeOK /\ HasForm

LEMMA TypeAlways == Spec => []TypeInv
<1>1. Init => TypeInv
  BY TypeInit, FormInit DEF TypeInv
<1>2. TypeInv /\ [Next]_vars => TypeInv'
  BY TypeNext DEF TypeInv
<1> QED
  BY <1>1, <1>2, PTL DEF Spec

\* Every variable of the approval cache and of the calls that use it keeps its
\* type; in particular an entry's expiry is a time and no call uses a key
\* before the guard gave it one.
THEOREM ApprovalsTypeCorrect == Spec => []TypeOK
<1>1. TypeInv => TypeOK
  BY DEF TypeInv
<1> QED
  BY <1>1, TypeAlways, PTL

-----------------------------------------------------------------------------
(* Only what was approved runs *)

\* v is a validation that stored its approval.
Granted(v) ==
    /\ tool[v] = "validate"
    /\ pc[v] \in {"size", "evict", "done"}
    /\ form[v] # None

\* An execution whose entry was found, and was not too old.
Passed(c) ==
    /\ tool[c] = "execute" /\ role[c] \notin RawRoles
    /\ pc[c] = "run" \/ answer[c] = "OK"

Tools ==
    \A c \in Calls :
        /\ pc[c] \in {"add", "store", "size", "evict"} => tool[c] = "validate"
        /\ pc[c] \in {"look", "judge", "drop", "run"} => tool[c] = "execute"
        /\ answer[c] = "OK" => pc[c] = "done"
        /\ pc[c] = "new" => form[c] = None

\* No approval is dated later than now.
DueInTime == \A v \in Calls : due[v] <= clock + Ttl

\* Each entry of the cache is the work of a validation.
EntriesGranted ==
    \A k \in Keys :
        expiry[k] # None =>
            \E v \in Calls : Granted(v) /\ KeyOf(v) = k /\ due[v] = expiry[k]

\* So is each entry an execution has found, also when it is gone since,
FindsGranted ==
    \A c \in Calls :
        pc[c] = "judge" =>
            \E v \in Calls : Granted(v) /\ KeyOf(v) = KeyOf(c) /\ due[v] = seen[c]

\* and each that let it pass.
PassesGranted ==
    \A c \in Calls :
        Passed(c) =>
            \E v \in Calls : /\ Granted(v) /\ KeyOf(v) = KeyOf(c)
                             /\ checked[c] \in (due[v] - Ttl)..due[v]

ApprovalInv == Tools /\ DueInTime /\ EntriesGranted /\ FindsGranted /\ PassesGranted

LEMMA ApprovalInit == Init => ApprovalInv
<1> SUFFICES ASSUME Init PROVE ApprovalInv
  OBVIOUS
<1>1. Tools /\ FindsGranted /\ PassesGranted
  BY DEF Init, Tools, FindsGranted, PassesGranted, Passed
<1>2. DueInTime
  BY TimeAssumption DEF Init, DueInTime
<1>3. EntriesGranted
  BY DEF Init, EntriesGranted
<1> QED
  BY <1>1, <1>2, <1>3 DEF ApprovalInv

\* What a validation granted stays as it is.
LEMMA GrantedStays ==
    ASSUME TypeInv, Tools, [Next]_vars, NEW v \in Calls, Granted(v)
    PROVE  Granted(v)' /\ KeyOf(v)' = KeyOf(v) /\ due'[v] = due[v]
<1> USE DEF TypeInv, TypeOK, Tools, Granted, KeyOf, Goto, Finish, arguments,
            locals
<1>1. CASE UNCHANGED vars \/ Tick
  BY <1>1 DEF vars, Tick
<1>2. ASSUME NEW c \in Calls, Step(c)
      PROVE  Granted(v)' /\ KeyOf(v)' = KeyOf(v) /\ due'[v] = due[v]
  <2>1. CASE Validate(c) \/ ReadClock(c) \/ Store(c) \/ CheckSize(c) \/ Evict(c)
    BY <2>1 DEF Validate, Accept, ReadClock, Expiry, Store, CheckSize, Evict
  <2>2. CASE Prepare(c) \/ LookUp(c) \/ Judge(c) \/ Drop(c) \/ Run(c)
    BY <2>2 DEF Prepare, Accept, LookUp, Judge, Drop, Run
  <2> QED
    BY <1>2, <2>1, <2>2 DEF Step
<1> QED
  BY <1>1, <1>2 DEF Next

LEMMA ControlNext ==
    ASSUME TypeInv, Tools, DueInTime, [Next]_vars
    PROVE  Tools' /\ DueInTime'
<1> USE TimeAssumption
    DEF TypeInv, TypeOK, Tools, DueInTime, Goto, Finish, arguments, locals
<1>1. CASE UNCHANGED vars \/ Tick
  BY <1>1 DEF vars, Tick
<1>2. ASSUME NEW c \in Calls, Step(c) PROVE Tools' /\ DueInTime'
  <2>1. CASE Validate(c) \/ ReadClock(c) \/ Store(c) \/ CheckSize(c) \/ Evict(c)
    BY <2>1 DEF Validate, Accept, ReadClock, Expiry, Store, CheckSize, Evict
  <2>2. CASE Prepare(c) \/ LookUp(c) \/ Judge(c) \/ Drop(c) \/ Run(c)
    BY <2>2 DEF Prepare, Accept, LookUp, Judge, Drop, Run
  <2> QED
    BY <1>2, <2>1, <2>2 DEF Step
<1> QED
  BY <1>1, <1>2 DEF Next

\* An entry comes from Store alone; every other step leaves it or removes it.
LEMMA EntriesNext ==
    ASSUME TypeInv, Tools, EntriesGranted, [Next]_vars
    PROVE  EntriesGranted'
<1> SUFFICES ASSUME NEW k \in Keys, expiry'[k] # None
             PROVE  \E v \in Calls : /\ Granted(v)' /\ KeyOf(v)' = k
                                     /\ due'[v] = expiry'[k]
  BY DEF EntriesGranted
<1>1. \/ expiry'[k] = expiry[k]
      \/ \E c \in Calls : Store(c) /\ k = KeyOf(c)
  BY DEF Next, Step, vars, cache, TypeInv, TypeOK, Tick, Validate, ReadClock, Expiry,
         Store, CheckSize, Evict, Remove, Prepare, LookUp, Judge, Drop, Run
<1>2. CASE expiry'[k] = expiry[k]
  <2>1. PICK v \in Calls : Granted(v) /\ KeyOf(v) = k /\ due[v] = expiry[k]
    BY <1>2 DEF EntriesGranted
  <2> QED
    BY <2>1, <1>2, GrantedStays
<1>3. ASSUME NEW c \in Calls, Store(c), k = KeyOf(c)
      PROVE  Granted(c)' /\ KeyOf(c)' = k /\ due'[c] = expiry'[k]
  <2>1. form[c] # None /\ tool[c] = "validate"
    BY <1>3 DEF Store, TypeInv, HasForm, Labels, Tools
  <2> QED
    BY <2>1, <1>3 DEF Store, Granted, KeyOf, Goto, arguments, locals, TypeInv,
                      TypeOK
<1> QED
  BY <1>1, <1>2, <1>3

LEMMA FindsNext ==
    ASSUME TypeInv, Tools, EntriesGranted, FindsGranted, [Next]_vars
    PROVE  FindsGranted'
<1> SUFFICES ASSUME NEW c \in Calls, pc'[c] = "judge"
             PROVE  \E v \in Calls : /\ Granted(v)' /\ KeyOf(v)' = KeyOf(c)'
                                     /\ due'[v] = seen'[c]
  BY DEF FindsGranted
<1>1. /\ KeyOf(c)' = KeyOf(c)
      /\ \/ pc[c] = "judge" /\ seen'[c] = seen[c]
         \/ /\ seen'[c] = expiry[KeyOf(c)] /\ expiry[KeyOf(c)] # None
            /\ KeyOf(c) \in Keys
  <2> USE DEF TypeInv, TypeOK, KeyOf, Goto, Finish, arguments, locals
  <2>1. CASE UNCHANGED vars \/ Tick
    BY <2>1 DEF vars, Tick
  <2>2. ASSUME NEW d \in Calls, Step(d), d # c
        PROVE  UNCHANGED <<pc[c], seen[c], database[c], role[c], form[c]>>
    BY <2>2 DEF Step, Validate, Accept, ReadClock, Expiry, Store, CheckSize, Evict,
                Prepare, LookUp, Judge, Drop, Run
  <2>3. CASE Step(c)
    <3>1. LookUp(c)
      BY <2>3 DEF Step, Validate, ReadClock, Expiry, Store, CheckSize, Evict, Prepare,
                  Judge, Drop, Run
    <3>2. KeyOf(c) \in Keys
      BY <3>1, KeyType DEF LookUp, HasForm, Labels
    <3> QED
      BY <3>1, <3>2 DEF LookUp
  <2> QED
    BY <2>1, <2>2, <2>3 DEF Next
<1>2. CASE pc[c] = "judge" /\ seen'[c] = seen[c]
  <2>1. PICK v \in Calls : Granted(v) /\ KeyOf(v) = KeyOf(c) /\ due[v] = seen[c]
    BY <1>2 DEF FindsGranted
  <2> QED
    BY <2>1, <1>1, <1>2, GrantedStays
<1>3. CASE /\ seen'[c] = expiry[KeyOf(c)] /\ expiry[KeyOf(c)] # None
           /\ KeyOf(c) \in Keys
  <2>1. PICK v \in Calls : /\ Granted(v) /\ KeyOf(v) = KeyOf(c)
                           /\ due[v] = expiry[KeyOf(c)]
    BY <1>3 DEF EntriesGranted
  <2> QED
    BY <2>1, <1>1, <1>3, GrantedStays
<1> QED
  BY <1>1, <1>2, <1>3

LEMMA PassesNext ==
    ASSUME TypeInv, Tools, DueInTime, FindsGranted, PassesGranted, [Next]_vars
    PROVE  PassesGranted'
<1> SUFFICES ASSUME NEW c \in Calls, Passed(c)'
             PROVE  \E v \in Calls : /\ Granted(v)' /\ KeyOf(v)' = KeyOf(c)'
                                     /\ checked'[c] \in (due'[v] - Ttl)..due'[v]
  BY DEF PassesGranted
<1>1. /\ KeyOf(c)' = KeyOf(c)
      /\ \/ Passed(c) /\ checked'[c] = checked[c]
         \/ pc[c] = "judge" /\ seen[c] >= clock /\ checked'[c] = clock
  <2> USE DEF TypeInv, TypeOK, KeyOf, Goto, Finish, arguments, locals, Passed
  <2>1. CASE UNCHANGED vars \/ Tick
    BY <2>1 DEF vars, Tick
  <2>2. ASSUME NEW d \in Calls, Step(d), d # c
        PROVE  UNCHANGED <<pc[c], answer[c], checked[c], tool[c], database[c],
                           role[c], form[c]>>
    BY <2>2 DEF Step, Validate, Accept, ReadClock, Expiry, Store, CheckSize, Evict,
                Prepare, LookUp, Judge, Drop, Run
  <2>3. CASE Step(c)
    <3>1. CASE Judge(c) \/ Run(c)
      BY <3>1 DEF Judge, Run, Tools
    <3>2. CASE ~(Judge(c) \/ Run(c))
      BY <2>3, <3>2 DEF Step, Validate, ReadClock, Expiry, Store, CheckSize, Evict,
                        Prepare, LookUp, Drop, Tools
    <3> QED
      BY <3>1, <3>2
  <2> QED
    BY <2>1, <2>2, <2>3 DEF Next
<1>2. CASE Passed(c) /\ checked'[c] = checked[c]
  <2>1. PICK v \in Calls : /\ Granted(v) /\ KeyOf(v) = KeyOf(c)
                           /\ checked[c] \in (due[v] - Ttl)..due[v]
    BY <1>2 DEF PassesGranted
  <2> QED
    BY <2>1, <1>1, <1>2, GrantedStays
<1>3. CASE pc[c] = "judge" /\ seen[c] >= clock /\ checked'[c] = clock
  <2>1. PICK v \in Calls : Granted(v) /\ KeyOf(v) = KeyOf(c) /\ due[v] = seen[c]
    BY <1>3 DEF FindsGranted
  <2>2. clock \in (due[v] - Ttl)..due[v]
    BY <2>1, <1>3, TimeAssumption DEF DueInTime, TypeInv, TypeOK
  <2> QED
    BY <2>1, <2>2, <1>1, <1>3, GrantedStays
<1> QED
  BY <1>1, <1>2, <1>3

LEMMA ApprovalAlways == Spec => [](TypeInv /\ ApprovalInv)
<1>1. Init => ApprovalInv
  BY ApprovalInit
<1>2. TypeInv /\ ApprovalInv /\ [Next]_vars => ApprovalInv'
  BY ControlNext, EntriesNext, FindsNext, PassesNext DEF ApprovalInv
<1> QED
  BY <1>1, <1>2, TypeAlways, PTL DEF Spec

\* execute_readonly_sql runs a statement for a role without raw access only if
\* validate_sql accepted that form for that database and role, and the check
\* found this acceptance no older than the time to live, whatever the other
\* threads do to the cache between the lookup and the check.
THEOREM OnlyApprovedRuns == Spec => []ExecutedWasApproved
<1>1. TypeInv /\ ApprovalInv => ExecutedWasApproved
  <2> SUFFICES ASSUME TypeInv, ApprovalInv, NEW c \in Calls,
                      tool[c] = "execute", answer[c] = "OK", role[c] \notin RawRoles
               PROVE  \E v \in Calls : /\ Grants(v, c)
                                       /\ checked[c] \in (due[v] - Ttl)..due[v]
    BY DEF ExecutedWasApproved
  <2>1. PICK v \in Calls : /\ Granted(v) /\ KeyOf(v) = KeyOf(c)
                           /\ checked[c] \in (due[v] - Ttl)..due[v]
    BY DEF ApprovalInv, PassesGranted, Passed
  <2>2. Grants(v, c)
    BY <2>1 DEF Grants, Granted, KeyOf
  <2> QED
    BY <2>1, <2>2
<1> QED
  BY <1>1, ApprovalAlways, PTL

-----------------------------------------------------------------------------
(* The size of the cache *)

\* The calls that have stored an entry and have not left the loop of
\* ApprovalCache.add.
Trimming == {c \in Calls : pc[c] \in {"size", "evict"}}

SizeInv == IsFiniteSet(Live) /\ CacheIsBounded

LEMMA TrimmingFinite ==
    /\ IsFiniteSet(Trimming) /\ Cardinality(Trimming) \in Nat
    /\ IsFiniteSet(Trimming') /\ Cardinality(Trimming') \in Nat
<1>1. Trimming \in SUBSET Calls /\ Trimming' \in SUBSET Calls
  BY DEF Trimming
<1> QED
  BY <1>1, CallsAssumption, FS_Subset, FS_CardinalityType

LEMMA SizeInit == Init => SizeInv
<1> SUFFICES ASSUME Init PROVE SizeInv
  OBVIOUS
<1>1. Live = {}
  BY DEF Init, Live
<1>2. IsFiniteSet(Live) /\ Cardinality(Live) = 0
  BY <1>1, FS_EmptySet
<1>3. IsFiniteSet(Trimming) /\ Cardinality(Trimming) \in Nat
  BY TrimmingFinite
<1> QED
  BY <1>2, <1>3, CacheAssumption DEF SizeInv, CacheIsBounded, Trimming

\* An entry that goes does not make the cache larger.
LEMMA RemoveShrinks ==
    ASSUME NEW k, Remove(k), IsFiniteSet(Live), expiry \in [Keys -> Nat \cup {None}]
    PROVE  IsFiniteSet(Live') /\ Cardinality(Live') <= Cardinality(Live)
<1>1. Live' \in SUBSET Live
  BY DEF Live, Remove
<1> QED
  BY <1>1, FS_Subset

\* A call trims the cache from its Store until it finds the size in bounds, and
\* what one Store adds is the allowance that this call brings with it.
LEMMA SizeNext ==
    ASSUME TypeInv, SizeInv, [Next]_vars
    PROVE  SizeInv'
<1> USE DEF Trimming
<1>1. /\ IsFiniteSet(Live) /\ Cardinality(Live) \in Nat
      /\ Cardinality(Live) <= CacheSize + Cardinality(Trimming)
  BY FS_CardinalityType DEF SizeInv, CacheIsBounded
<1>2. CASE UNCHANGED <<expiry, pc>>
  <2>1. Live' = Live /\ Trimming' = Trimming
    BY <1>2 DEF Live
  <2> QED
    BY <1>1, <2>1 DEF SizeInv, CacheIsBounded
<1>3. ASSUME NEW c \in Calls, Step(c) PROVE SizeInv'
  <2>1. CASE Store(c)
    <3>1. KeyOf(c) \in Keys
      BY <2>1, KeyType DEF Store, TypeInv, HasForm, Labels
    <3>2. Live' \in SUBSET (Live \cup {KeyOf(c)})
      BY <2>1, <3>1 DEF Store, Live, TypeInv, TypeOK
    <3>3. IsFiniteSet(Live') /\ Cardinality(Live') <= Cardinality(Live) + 1
      <4>1. /\ IsFiniteSet(Live \cup {KeyOf(c)})
            /\ Cardinality(Live \cup {KeyOf(c)}) <= Cardinality(Live) + 1
        <5>1. /\ IsFiniteSet(Live \cup {KeyOf(c)})
              /\ Cardinality(Live \cup {KeyOf(c)}) =
                   IF KeyOf(c) \in Live THEN Cardinality(Live) ELSE Cardinality(Live) + 1
          BY <1>1, FS_AddElement, Zenon
        <5> QED
          BY <1>1, <5>1
      <4>2. /\ IsFiniteSet(Live')
            /\ Cardinality(Live') <= Cardinality(Live \cup {KeyOf(c)})
        BY <4>1, <3>2, FS_Subset
      <4>3. /\ Cardinality(Live') \in Nat
            /\ Cardinality(Live \cup {KeyOf(c)}) \in Nat
        BY <4>1, <4>2, FS_CardinalityType
      <4> QED
        BY <1>1, <4>1, <4>2, <4>3
    <3>4. Trimming' = Trimming \cup {c} /\ c \notin Trimming
      BY <2>1 DEF Store, Goto, TypeInv, TypeOK
    <3>5. Cardinality(Trimming') = Cardinality(Trimming) + 1
      BY <3>4, TrimmingFinite, FS_AddElement
    <3>6. Cardinality(Live') \in Nat /\ Cardinality(Trimming) \in Nat
      BY <3>3, TrimmingFinite, FS_CardinalityType
    <3> QED
      BY <1>1, <3>3, <3>5, <3>6, CacheAssumption DEF SizeInv, CacheIsBounded
  <2>2. CASE CheckSize(c) /\ ~TooLarge
    <3>1. Live' = Live
      BY <2>2 DEF CheckSize, cache, Live
    <3> QED
      BY <1>1, <2>2, <3>1, TrimmingFinite, CacheAssumption
      DEF SizeInv, CacheIsBounded, TooLarge
  <2>3. CASE Evict(c) /\ Live = {}
    <3>1. Live' = {}
      BY <2>3 DEF Evict, Live
    <3> QED
      BY <3>1, FS_EmptySet, TrimmingFinite, CacheAssumption
      DEF SizeInv, CacheIsBounded
  <2>4. CASE \/ Evict(c) /\ Live # {}
             \/ Drop(c)
    <3>1. PICK k : Remove(k)
      BY <2>4 DEF Evict, Drop
    <3>2. Trimming' = Trimming
      BY <2>4 DEF Evict, Drop, Goto, Finish, TypeInv, TypeOK
    <3>3. IsFiniteSet(Live') /\ Cardinality(Live') <= Cardinality(Live)
      BY <1>1, <3>1, RemoveShrinks DEF TypeInv, TypeOK
    <3>4. Cardinality(Live') \in Nat /\ Cardinality(Trimming) \in Nat
      BY <3>3, TrimmingFinite, FS_CardinalityType
    <3> QED
      BY <1>1, <3>2, <3>3, <3>4, CacheAssumption DEF SizeInv, CacheIsBounded
  <2>5. CASE \/ Validate(c) \/ ReadClock(c) \/ Prepare(c) \/ LookUp(c) \/ Judge(c)
             \/ Run(c)
             \/ CheckSize(c) /\ TooLarge
    <3>1. Live' = Live
      BY <2>5 DEF Validate, ReadClock, Prepare, LookUp, Judge, Run, CheckSize, cache, Live
    <3>2. Trimming' = Trimming
      BY <2>5 DEF Validate, ReadClock, Prepare, LookUp, Judge, Run, CheckSize,
                  Goto, Finish, TypeInv, TypeOK
    <3> QED
      BY <1>1, <3>1, <3>2 DEF SizeInv, CacheIsBounded
  <2> QED
    BY <1>3, <2>1, <2>2, <2>3, <2>4, <2>5 DEF Step
<1> QED
  BY <1>2, <1>3 DEF Next, Tick, vars, cache

\* The approval cache holds at most its size and one entry for each thread
\* that is in the trimming loop of ApprovalCache.add, although the loop reads
\* the size and removes the oldest entry in two steps and other threads add
\* and remove entries meanwhile.
THEOREM ApprovalsAreBounded == Spec => []CacheIsBounded
<1>1. Init => SizeInv
  BY SizeInit
<1>2. TypeInv /\ SizeInv /\ [Next]_vars => SizeInv'
  BY SizeNext
<1>3. SizeInv => CacheIsBounded
  BY DEF SizeInv
<1> QED
  BY <1>1, <1>2, <1>3, TypeAlways, PTL DEF Spec
=============================================================================
