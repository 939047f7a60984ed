------------------------------ MODULE Approvals ------------------------------
(***************************************************************************)
(* SQL approvals: validate_sql puts the fingerprint of an accepted         *)
(* statement into ApprovalCache, and execute_readonly_sql runs a statement *)
(* of a role without raw access only when its fingerprint is there and has *)
(* not expired (tools.py).                                                 *)
(*                                                                         *)
(* The tools run in worker threads and the cache has no lock.  Threads     *)
(* switch where a Python call returns, so one action is the code between   *)
(* two calls on the cache or the clock; storing an entry and moving it to  *)
(* the end have no such point between them.                                *)
(***************************************************************************)
EXTENDS Naturals, FiniteSets

CONSTANTS
    Calls,      \* tool invocations, each in a thread
    Databases,
    Roles,
    RawRoles,   \* the roles with allow_raw_sql
    Forms,      \* what the guard may rewrite statements to: their fingerprints
    CacheSize,  \* _APPROVAL_CACHE_SIZE
    Ttl,        \* _APPROVAL_TTL_SECONDS
    MaxClock,   \* bound on the clock
    None        \* no value

ASSUME CallsAssumption == IsFiniteSet(Calls)
ASSUME CacheAssumption == CacheSize \in Nat \ {0}
ASSUME TimeAssumption == Ttl \in Nat /\ MaxClock \in Nat
ASSUME NoneAssumption == None \notin Nat \cup Forms

VARIABLES
    clock,      \* time.monotonic()
    tool,       \* "validate" or "execute"
    database,   \* arguments of each call
    role,
    form,       \* the fingerprint the guard gave each call, None before
    pc,         \* where each call is
    due,        \* the expiry a validation computed
    seen,       \* the expiry an execution found
    checked,    \* when an execution compared it with the clock
    answer,     \* what each call answers
    expiry,     \* the cache: the expiry of every key in it, else None
    place,      \* the order of the keys in it, oldest least
    stores      \* entries stored so far: the place of the next one

arguments == <<tool, database, role>>
locals == <<form, due, seen, checked>>
cache == <<expiry, place, stores>>
vars == <<clock, arguments, locals, pc, answer, cache>>

Keys == Databases \X Roles \X Forms

\* Mutation: an approval is not bound to the role it was given to.
ForAnyRole(c) == <<database[c], CHOOSE r \in Roles : TRUE, form[c]>>

KeyOf(c) == <<database[c], role[c], form[c]>>

Live == {k \in Keys : expiry[k] # None}

Labels == {"new", "add", "store", "size", "evict",
           "look", "judge", "drop", "run", "done"}

TypeOK ==
    /\ clock \in 0..MaxClock
    /\ tool \in [Calls -> {"validate", "execute"}]
    /\ database \in [Calls -> Databases]
    /\ role \in [Calls -> Roles]
    /\ form \in [Calls -> Forms \cup {None}]
    /\ pc \in [Calls -> Labels]
    /\ due \in [Calls -> Nat]
    /\ seen \in [Calls -> Nat]
    /\ checked \in [Calls -> Nat]
    /\ answer \in [Calls -> {"none", "APPROVED", "REJECTED", "REFUSED", "OK",
                             "ERROR", "RAISED"}]
    /\ expiry \in [Keys -> Nat \cup {None}]
    /\ place \in [Keys -> Nat]
    /\ stores \in Nat

Init ==
    /\ clock = 0
    /\ tool \in [Calls -> {"validate", "execute"}]
    /\ database \in [Calls -> Databases]
    /\ role \in [Calls -> Roles]
    /\ form = [c \in Calls |-> None]
    /\ pc = [c \in Calls |-> "new"]
    /\ due = [c \in Calls |-> 0]
    /\ seen = [c \in Calls |-> 0]
    /\ checked = [c \in Calls |-> 0]
    /\ answer = [c \in Calls |-> "none"]
    /\ expiry = [k \in Keys |-> None]
    /\ place = [k \in Keys |-> 0]
    /\ stores = 0

-----------------------------------------------------------------------------

Goto(c, label) == pc' = [pc EXCEPT ![c] = label] /\ UNCHANGED answer

\* The end of a call: its audit record and its answer.
Finish(c, status) ==
    /\ pc' = [pc EXCEPT ![c] = "done"]
    /\ answer' = [answer EXCEPT ![c] = status]

\* The guard accepts the statement in some rewritten form: which one depends on
\* the statement, the role, the policy and the dictionary of the moment.
Accept(c) == \E f \in Forms : form' = [form EXCEPT ![c] = f]

-----------------------------------------------------------------------------
(* validate_sql *)

Validate(c) ==
    /\ pc[c] = "new"
    /\ tool[c] = "validate"
    /\ \/ Accept(c) /\ Goto(c, "add")
       \/ Finish(c, "REJECTED") /\ UNCHANGED form
       \/ Finish(c, "ERROR") /\ UNCHANGED form
    /\ UNCHANGED <<clock, arguments, due, seen, checked, cache>>

\* Mutation: the time to live is taken off the time.
Backdated == clock - Ttl

Expiry == clock + Ttl

\* ApprovalCache.add: the time,
ReadClock(c) ==
    /\ pc[c] = "add"
    /\ due' = [due EXCEPT ![c] = Expiry]
    /\ Goto(c, "store")
    /\ UNCHANGED <<clock, arguments, form, seen, checked, cache>>

\* the entry, moved to the end of the order,
Store(c) ==
    /\ pc[c] = "store"
    /\ expiry' = [expiry EXCEPT ![KeyOf(c)] = due[c]]
    /\ place' = [place EXCEPT ![KeyOf(c)] = stores]
    /\ stores' = stores + 1
    /\ Goto(c, "size")
    /\ UNCHANGED <<clock, arguments, locals>>

\* Mutation: the cache is trimmed only when it holds one entry too many.
MuchTooLarge == Cardinality(Live) > CacheSize + 1

TooLarge == Cardinality(Live) > CacheSize

\* and, as long as the cache is too large,
CheckSize(c) ==
    /\ pc[c] = "size"
    /\ \/ TooLarge /\ Goto(c, "evict")
       \/ ~TooLarge /\ Finish(c, "APPROVED")
    /\ UNCHANGED <<clock, arguments, locals, cache>>

Remove(k) == expiry' = [expiry EXCEPT ![k] = None]

\* the oldest entry out of it; other threads may have emptied it meanwhile, and
\* popitem then raises a KeyError.
Evict(c) ==
    /\ pc[c] = "evict"
    /\ \/ /\ \E k \in Live : /\ \A j \in Live : place[k] <= place[j]
                             /\ Remove(k)
          /\ Goto(c, "size")
       \/ Live = {} /\ Finish(c, "RAISED") /\ UNCHANGED expiry
    /\ UNCHANGED <<clock, arguments, locals, place, stores>>

-----------------------------------------------------------------------------
(* execute_readonly_sql *)

\* The statement is validated again; a role with raw access needs no approval.
Prepare(c) ==
    /\ pc[c] = "new"
    /\ tool[c] = "execute"
    /\ \/ Accept(c) /\ Goto(c, IF role[c] \in RawRoles THEN "run" ELSE "look")
       \/ Finish(c, "ERROR") /\ UNCHANGED form
    /\ UNCHANGED <<clock, arguments, due, seen, checked, cache>>

\* ApprovalCache.is_approved: the entry,
LookUp(c) ==
    /\ pc[c] = "look"
    /\ \/ /\ expiry[KeyOf(c)] # None
          /\ seen' = [seen EXCEPT ![c] = expiry[KeyOf(c)]]
          /\ Goto(c, "judge")
       \/ /\ expiry[KeyOf(c)] = None
          /\ Finish(c, "REFUSED")
          /\ UNCHANGED seen
    /\ UNCHANGED <<clock, arguments, form, due, checked, cache>>

\* the comparison with the time of then,
Judge(c) ==
    /\ pc[c] = "judge"
    /\ checked' = [checked EXCEPT ![c] = clock]
    /\ \/ seen[c] < clock /\ Goto(c, "drop")
       \/ seen[c] >= clock /\ Goto(c, "run")
    /\ UNCHANGED <<clock, arguments, form, due, seen, cache>>

\* and the removal of what has expired, or of what has taken its place.
Drop(c) ==
    /\ pc[c] = "drop"
    /\ Remove(KeyOf(c))
    /\ Finish(c, "REFUSED")
    /\ UNCHANGED <<clock, arguments, locals, place, stores>>

\* The estimate of its cost, the query, masking; any of them may fail.
Run(c) ==
    /\ pc[c] = "run"
    /\ Finish(c, "OK") \/ Finish(c, "ERROR")
    /\ UNCHANGED <<clock, arguments, locals, cache>>

-----------------------------------------------------------------------------

Tick ==
    /\ clock < MaxClock
    /\ clock' = clock + 1
    /\ UNCHANGED <<arguments, locals, pc, answer, cache>>

Step(c) ==
    \/ Validate(c) \/ ReadClock(c) \/ Store(c) \/ CheckSize(c) \/ Evict(c)
    \/ Prepare(c) \/ LookUp(c) \/ Judge(c) \/ Drop(c) \/ Run(c)

Next == (\E c \in Calls : Step(c)) \/ Tick

Spec == Init /\ [][Next]_vars

-----------------------------------------------------------------------------
(* Properties *)

\* A role without raw access runs only what validate_sql accepted for the same
\* database and the same role, in the form in which it runs now, and no longer
\* than the time to live before the check.
Grants(v, c) ==
    /\ tool[v] = "validate"
    /\ pc[v] \in {"size", "evict", "done"} /\ form[v] # None
    /\ database[v] = database[c] /\ role[v] = role[c] /\ form[v] = form[c]

ExecutedWasApproved ==
    \A c \in Calls :
        tool[c] = "execute" /\ answer[c] = "OK" /\ role[c] \notin RawRoles =>
            \E v \in Calls : /\ Grants(v, c)
                             /\ checked[c] \in (due[v] - Ttl)..due[v]

\* The cache outgrows its size only by the entries of calls that are about to
\* trim it, although size and oldest entry are not read in one step.
CacheIsBounded ==
    Cardinality(Live) <=
        CacheSize + Cardinality({c \in Calls : pc[c] \in {"size", "evict"}})
=============================================================================
