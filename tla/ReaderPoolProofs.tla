-------------------------- MODULE ReaderPoolProofs --------------------------
(***************************************************************************)
(* Proofs about ReaderPool for any number of calls and any pool sizes: the *)
(* pools are never overdrawn and never leak, and in a safe configuration   *)
(* the calls cannot block each other.                                      *)
(***************************************************************************)
EXTENDS ReaderPool, FiniteSetTheorems, TLAPS

Uses == {"query", "stream"}

Configured ==
    /\ readerMax \in ReaderSizes
    /\ sink \in {"file", "database"}
    /\ kind \in [Calls -> {"query", "persist"}]

Control ==
    /\ pc \in [Calls -> Labels]
    /\ fetches \in [Calls -> 0..MaxFetches]
    /\ \A c \in Calls : pc[c] = "fetching" => fetches[c] > 0
    /\ \A c \in Calls : pc[c] = "fetch" => fetches[c] > 0

\* Each connection is in the hands of a call that is where such a connection is
\* used; a stream's may also outlive a failed loop, until the call returns.
Lent ==
    /\ lent \subseteq Calls \X Uses
    /\ \A c \in Calls :
         /\ <<c, "query">> \in lent => pc[c] \in {"fetching", "auditing"}
         /\ <<c, "stream">> \in lent =>
              pc[c] \in {"stream", "rollback", "audit", "auditing", "return"}

InWriter == {"insert", "open", "stream", "commit", "rollback"}

Persists ==
    /\ writers \subseteq Calls
    /\ \A c \in Calls :
         /\ c \in writers <=> pc[c] \in InWriter
         /\ pc[c] \in InWriter \cup {"acquire"} => kind[c] = "persist"
         /\ <<c, "stream">> \in lent => kind[c] = "persist"

Bounds ==
    /\ Cardinality(lent) <= readerMax
    /\ Cardinality(writers) <= WriterMax

Hold == Configured /\ Control /\ Lent /\ Persists

HoldInv == Hold /\ Bounds

-----------------------------------------------------------------------------

LEMMA HoldInit == Init => Hold
  BY FetchAssumption, SMT
  DEF Init, Hold, Configured, Control, Lent, Persists, Labels, Uses, InWriter

LEMMA HoldNext == Hold /\ [Next]_vars => Hold'
<1> SUFFICES ASSUME Hold, [Next]_vars PROVE Hold'
  OBVIOUS
<1> USE FetchAssumption
    DEF Hold, Configured, Control, Lent, Persists, Labels, Uses, InWriter,
        configuration, Goto
<1>1. CASE UNCHANGED vars
  BY <1>1 DEF vars
<1>2. ASSUME NEW c \in Calls, Acquires(c) PROVE Hold'
  <2>1. CASE Fetch(c)
    BY <2>1 DEF Fetch, AcquireReader, FailReader
  <2>2. CASE AcquireWriter(c)
    BY <2>2 DEF AcquireWriter
  <2>3. CASE Open(c)
    BY <2>3 DEF Open, AcquireReader, FailReader
  <2>4. CASE AuditDatabase(c)
    BY <2>4 DEF AuditDatabase, AcquireReader, FailReader
  <2> QED
    BY <1>2, <2>1, <2>2, <2>3, <2>4 DEF Acquires
<1>3. ASSUME NEW c \in Calls, Runs(c) PROVE Hold'
  <2>1. CASE Fetched(c)
    BY <2>1 DEF Fetched, ReleaseReader
  <2>2. CASE Insert(c)
    BY <2>2 DEF Insert
  <2>3. CASE StreamEnds(c)
    BY <2>3 DEF StreamEnds, ReleaseReader
  <2>4. CASE LoopFails(c)
    BY <2>4 DEF LoopFails
  <2>5. CASE EndOfPersist(c)
    BY <2>5 DEF EndOfPersist, ReleaseWriter
  <2>6. CASE AuditFile(c)
    BY <2>6 DEF AuditFile
  <2>7. CASE Audited(c)
    BY <2>7 DEF Audited, ReleaseReader
  <2>8. CASE Return(c)
    BY <2>8 DEF Return, CloseGenerator
  <2> QED
    BY <1>3, <2>1, <2>2, <2>3, <2>4, <2>5, <2>6, <2>7, <2>8 DEF Runs
<1> QED
  BY <1>1, <1>2, <1>3 DEF Next

-----------------------------------------------------------------------------
(* The sizes of the pools *)

LEMMA FiniteHolds ==
    ASSUME Hold
    PROVE  IsFiniteSet(lent) /\ IsFiniteSet(writers)
<1>1. IsFiniteSet(Uses)
  <2>1. IsFiniteSet({"query"} \cup {"stream"})
    BY FS_Singleton, FS_AddElement
  <2>2. Uses = {"query"} \cup {"stream"}
    BY DEF Uses
  <2> QED
    BY <2>1, <2>2
<1>2. IsFiniteSet(Calls \X Uses)
  BY <1>1, CallsAssumption, FS_Product
<1> QED
  BY <1>2, CallsAssumption, FS_Subset DEF Hold, Lent, Persists

\* A pool grows by one connection at a time, and only while one is idle.
LEMMA PoolSteps ==
    ASSUME Hold, [Next]_vars
    PROVE  /\ \/ lent' \subseteq lent
              \/ ReaderIsIdle /\ \E l : lent' = lent \cup {l}
           /\ \/ writers' \subseteq writers
              \/ WriterIsIdle /\ \E c : writers' = writers \cup {c}
<1>1. \/ lent' \subseteq lent
      \/ ReaderIsIdle /\ \E l : lent' = lent \cup {l}
  BY DEF Next, Acquires, Runs, vars, Fetch, AcquireReader, FailReader, Fetched,
         ReleaseReader, AcquireWriter, Insert, Open, StreamEnds, LoopFails,
         EndOfPersist, AuditFile, AuditDatabase, Audited, Return,
         CloseGenerator
<1>2. \/ writers' \subseteq writers
      \/ WriterIsIdle /\ \E c : writers' = writers \cup {c}
  BY DEF Next, Acquires, Runs, vars, Fetch, Fetched, AcquireWriter, Insert,
         Open, StreamEnds, LoopFails, EndOfPersist, ReleaseWriter, AuditFile,
         AuditDatabase, Audited, Return
<1> QED
  BY <1>1, <1>2

LEMMA BoundsNext ==
    ASSUME Hold, Bounds, [Next]_vars
    PROVE  Bounds'
<1>1. readerMax \in Nat /\ WriterMax \in Nat
  BY SizesAssumption, WriterAssumption DEF Hold, Configured
<1>2. UNCHANGED readerMax
  BY DEF Next, Acquires, Runs, vars, configuration, Fetch, Fetched,
         AcquireWriter, Insert, Open, StreamEnds, LoopFails, EndOfPersist,
         AuditFile, AuditDatabase, Audited, Return
<1>3. /\ IsFiniteSet(lent) /\ Cardinality(lent) \in Nat
      /\ IsFiniteSet(writers) /\ Cardinality(writers) \in Nat
  BY FiniteHolds, FS_CardinalityType
<1>4. Cardinality(lent') <= readerMax
  <2>1. CASE lent' \subseteq lent
    <3>1. Cardinality(lent') <= Cardinality(lent) /\ IsFiniteSet(lent')
      BY <2>1, <1>3, FS_Subset
    <3>2. Cardinality(lent') \in Nat
      BY <3>1, FS_CardinalityType
    <3> QED
      BY <3>1, <3>2, <1>1, <1>3 DEF Bounds
  <2>2. ASSUME ReaderIsIdle, NEW l, lent' = lent \cup {l}
        PROVE  Cardinality(lent') <= readerMax
    <3>1. Cardinality(lent') \in {Cardinality(lent), Cardinality(lent) + 1}
      BY <2>2, <1>3, FS_AddElement
    <3> QED
      BY <3>1, <2>2, <1>1, <1>3 DEF ReaderIsIdle
  <2> QED
    BY <2>1, <2>2, PoolSteps
<1>5. Cardinality(writers') <= WriterMax
  <2>1. CASE writers' \subseteq writers
    <3>1. Cardinality(writers') <= Cardinality(writers) /\ IsFiniteSet(writers')
      BY <2>1, <1>3, FS_Subset
    <3>2. Cardinality(writers') \in Nat
      BY <3>1, FS_CardinalityType
    <3> QED
      BY <3>1, <3>2, <1>1, <1>3 DEF Bounds
  <2>2. ASSUME WriterIsIdle, NEW c, writers' = writers \cup {c}
        PROVE  Cardinality(writers') <= WriterMax
    <3>1. Cardinality(writers') \in {Cardinality(writers), Cardinality(writers) + 1}
      BY <2>2, <1>3, FS_AddElement
    <3> QED
      BY <3>1, <2>2, <1>1, <1>3 DEF WriterIsIdle
  <2> QED
    BY <2>1, <2>2, PoolSteps
<1> QED
  BY <1>2, <1>4, <1>5 DEF Bounds

LEMMA HoldAlways == Spec => []HoldInv
<1>1. Init => HoldInv
  <2> SUFFICES ASSUME Init PROVE HoldInv
    OBVIOUS
  <2>1. Hold
    BY HoldInit
  <2>2. Cardinality(lent) = 0 /\ Cardinality(writers) = 0
    BY FS_EmptySet DEF Init
  <2> QED
    BY <2>1, <2>2, SizesAssumption, WriterAssumption
    DEF HoldInv, Bounds, Hold, Configured
<1>2. HoldInv /\ [Next]_vars => HoldInv'
  BY HoldNext, BoundsNext DEF HoldInv
<1> QED
  BY <1>1, <1>2, PTL DEF Spec

-----------------------------------------------------------------------------

\* Neither pool lends more connections than it has, and every variable has its
\* type: the pools of db.py and persistence.py under any mix of calls.
THEOREM PoolsTypeCorrect == Spec => []TypeOK
<1>1. HoldInv => TypeOK
  BY DEF HoldInv, Hold, Bounds, Configured, Control, Lent, Persists, Uses, TypeOK
<1> QED
  BY <1>1, HoldAlways, PTL

\* Both pools are complete again when every call has ended, on every path of
\* persist and _audit, the suspended generator of iter_fetch included.
THEOREM PoolsDoNotLeak == Spec => []IdlePoolsAreComplete
<1>1. HoldInv => IdlePoolsAreComplete
  <2> SUFFICES ASSUME HoldInv, \A c \in Calls : pc[c] = "done"
               PROVE  lent = {} /\ writers = {}
    BY DEF IdlePoolsAreComplete
  <2>1. \A c \in Calls : <<c, "query">> \notin lent /\ <<c, "stream">> \notin lent
    BY DEF HoldInv, Hold, Lent
  <2>2. \A l \in lent : \E c \in Calls : l = <<c, "query">> \/ l = <<c, "stream">>
    BY DEF HoldInv, Hold, Lent, Uses
  <2>3. lent = {}
    BY <2>1, <2>2
  <2>4. writers = {}
    BY DEF HoldInv, Hold, Persists, InWriter
  <2> QED
    BY <2>3, <2>4
<1> QED
  BY <1>1, HoldAlways, PTL

\* Statements take the writer before the reader: fetch, persist and iter_fetch
\* never wait with a reader in their hands.
THEOREM WriterBeforeReader == Spec => []ConnectionsInOrder
<1>1. HoldInv => ConnectionsInOrder
  BY DEF HoldInv, Hold, Lent, Persists, InWriter, ConnectionsInOrder
<1> QED
  BY <1>1, HoldAlways, PTL

-----------------------------------------------------------------------------
(* No deadlock in a safe configuration *)

LEMMA SafeNext == SafeConfiguration /\ [Next]_vars => SafeConfiguration'
  BY DEF SafeConfiguration, Persisting, Next, Acquires, Runs, vars,
         configuration, Fetch, Fetched, AcquireWriter, Insert, Open,
         StreamEnds, LoopFails, EndOfPersist, AuditFile, AuditDatabase,
         Audited, Return

\* When every connection lent belongs to a stream, fewer are lent than there are
\* persisting calls, or as many.
LEMMA StreamsOfPersisting ==
    ASSUME Hold, \A l \in lent : l[2] = "stream"
    PROVE  Cardinality(lent) <= Cardinality(Persisting)
<1> DEFINE f == [l \in lent |-> l[1]]
<1>1. IsFiniteSet(Persisting)
  BY CallsAssumption, FS_Subset DEF Persisting
<1>2. f \in [lent -> Persisting]
  BY DEF Hold, Lent, Persists, Persisting, Uses
<1>3. \A l, m \in lent : f[l] = f[m] => l = m
  BY DEF Hold, Lent, Uses
<1>4. f \in Injection(lent, Persisting)
  BY <1>2, <1>3 DEF Injection, IsInjective
<1> QED
  BY <1>1, <1>4, FS_Injection

\* While every call waits, what they hold is streams: a reader is idle.
LEMMA ReaderForTheWaiting ==
    ASSUME HoldInv, SafeConfiguration,
           \A c \in Calls : pc[c] \in {"done", "acquire"} \/ WaitsForReader(c)
    PROVE  ReaderIsIdle
<1>1. readerMax \in Nat \ {0}
  BY SizesAssumption DEF HoldInv, Hold, Configured
<1>2. \A l \in lent : l[2] = "stream" /\ sink = "database"
  <2> SUFFICES ASSUME NEW l \in lent PROVE l[2] = "stream" /\ sink = "database"
    OBVIOUS
  <2>1. PICK c \in Calls, use \in Uses : l = <<c, use>>
    BY DEF HoldInv, Hold, Lent
  <2>2. pc[c] \in {"done", "acquire", "fetch", "open"}
          \/ (pc[c] = "audit" /\ sink = "database")
    BY DEF WaitsForReader, WritesDatabase
  <2>3. use # "query" /\ pc[c] = "audit" /\ sink = "database"
    BY <2>1, <2>2 DEF HoldInv, Hold, Lent, Uses
  <2> QED
    BY <2>1, <2>3 DEF Uses
<1>3. CASE lent = {}
  BY <1>1, <1>3, FS_EmptySet DEF ReaderIsIdle
<1>4. CASE lent # {}
  <2>1. sink # "file"
    BY <1>2, <1>4
  <2>2. readerMax > Cardinality(Persisting)
    BY <2>1 DEF SafeConfiguration
  <2>3. IsFiniteSet(lent) /\ IsFiniteSet(Persisting)
    BY FiniteHolds, CallsAssumption, FS_Subset DEF HoldInv, Persisting
  <2>4. Cardinality(lent) \in Nat /\ Cardinality(Persisting) \in Nat
    BY <2>3, FS_CardinalityType
  <2>5. Cardinality(lent) <= Cardinality(Persisting)
    BY <1>2, StreamsOfPersisting DEF HoldInv
  <2> QED
    BY <2>2, <2>4, <2>5, <1>1 DEF ReaderIsIdle
<1> QED
  BY <1>3, <1>4

\* With a file sink, or with more readers than persisting calls, the calls of
\* the tools (persist, iter_fetch, fetch, _write_db) never all wait for each
\* other's connections.
THEOREM CallsDoNotBlockEachOther == SafeSpec => []SomeoneCanRun
<1>1. HoldInv /\ SafeConfiguration => SomeoneCanRun
  <2> SUFFICES ASSUME HoldInv, SafeConfiguration, ~SomeoneCanRun PROVE FALSE
    OBVIOUS
  <2>1. \A c \in Calls : pc[c] \in {"done", "acquire"} \/ WaitsForReader(c)
    BY DEF SomeoneCanRun
  <2>2. ReaderIsIdle
    BY <2>1, ReaderForTheWaiting
  <2>3. PICK c \in Calls : pc[c] # "done"
    BY DEF SomeoneCanRun
  <2>4. \A d \in Calls : pc[d] \in {"done", "acquire"}
    BY <2>1, <2>2 DEF SomeoneCanRun, WaitsForReader
  <2>5. pc[c] = "acquire" /\ ~WriterIsIdle
    BY <2>2, <2>3, <2>4 DEF SomeoneCanRun, WaitsForReader
  <2>6. writers = {}
    BY <2>4 DEF HoldInv, Hold, Persists, InWriter
  <2> QED
    BY <2>5, <2>6, FS_EmptySet, WriterAssumption DEF WriterIsIdle
<1>2. SafeSpec => []SafeConfiguration
  BY SafeNext, PTL DEF SafeSpec, SafeInit
<1>3. SafeSpec => []HoldInv
  BY HoldAlways, PTL DEF SafeSpec, SafeInit, Spec
<1> QED
  BY <1>1, <1>2, <1>3, PTL

-----------------------------------------------------------------------------
(* A call has only so much to do *)

Weight == [fetch |-> 10, fetching |-> 9, acquire |-> 8, insert |-> 7, open |-> 6,
           stream |-> 5, commit |-> 4, rollback |-> 4, audit |-> 3,
           auditing |-> 2, return |-> 1, done |-> 0]

\* The steps a call at this label, with n queries still to run, has at most left.
WorkAt(label, n) == 2 * n + Weight[label]

Work(c) == WorkAt(pc[c], fetches[c])

LEMMA WorkFalls ==
    ASSUME NEW n \in Nat, NEW a \in Labels, NEW b \in Labels
    PROVE  /\ WorkAt(a, n) \in Nat
           /\ Weight[b] < Weight[a] => WorkAt(b, n) < WorkAt(a, n)
           /\ n > 0 /\ Weight[b] <= Weight[a] + 1 => WorkAt(b, n - 1) < WorkAt(a, n)
<1>1. \A l \in Labels : Weight[l] \in Nat
  BY DEF Weight, Labels
<1>2. Weight[a] \in Nat /\ Weight[b] \in Nat
  BY <1>1
<1> HIDE DEF Weight
<1> QED
  BY <1>2 DEF WorkAt

\* The steps of a call go down its labels; only Fetched may go up by one, and it
\* has run a query.
LEMMA WeightFalls ==
    ASSUME Hold, NEW c \in Calls, Acquires(c) \/ Runs(c)
    PROVE  \/ fetches' = fetches /\ Weight[pc'[c]] < Weight[pc[c]]
           \/ /\ fetches[c] > 0 /\ fetches'[c] = fetches[c] - 1
              /\ Weight[pc'[c]] <= Weight[pc[c]] + 1
<1> USE DEF Goto, AcquireReader, FailReader, ReleaseReader
<1>1. pc \in [Calls -> Labels] /\ fetches \in [Calls -> 0..MaxFetches]
  BY DEF Hold, Control
<1>2. CASE Fetched(c)
  <2>1. fetches[c] > 0 /\ fetches'[c] = fetches[c] - 1 /\ pc[c] = "fetching"
    BY <1>1, <1>2 DEF Fetched, Hold, Control
  <2>2. pc'[c] \in {"fetch", "acquire", "audit", "return"}
    BY <1>1, <1>2 DEF Fetched
  <2> QED
    BY <2>1, <2>2 DEF Weight
<1>3. CASE Acquires(c)
  <2>1. /\ fetches' = fetches
        /\ \/ pc[c] = "fetch" /\ pc'[c] \in {"fetching", "audit", "acquire"}
           \/ pc[c] = "acquire" /\ pc'[c] \in {"insert", "audit", "return"}
           \/ pc[c] = "open" /\ pc'[c] \in {"stream", "rollback"}
           \/ pc[c] = "audit" /\ pc'[c] \in {"auditing", "return"}
    BY <1>1, <1>3 DEF Acquires, Fetch, AcquireWriter, Open, AuditDatabase
  <2> QED
    BY <2>1 DEF Weight
<1>4. CASE \/ Insert(c) \/ StreamEnds(c) \/ LoopFails(c) \/ EndOfPersist(c)
           \/ AuditFile(c) \/ Audited(c) \/ Return(c)
  <2>1. /\ fetches' = fetches
        /\ \/ pc[c] = "insert" /\ pc'[c] \in {"open", "rollback"}
           \/ pc[c] = "stream" /\ pc'[c] \in {"commit", "rollback"}
           \/ pc[c] \in {"commit", "rollback"} /\ pc'[c] \in {"audit", "return"}
           \/ pc[c] \in {"audit", "auditing"} /\ pc'[c] = "return"
           \/ pc[c] = "return" /\ pc'[c] = "done"
    BY <1>1, <1>4 DEF Insert, StreamEnds, LoopFails, EndOfPersist, AuditFile,
                      Audited, Return
  <2> QED
    BY <2>1 DEF Weight
<1> QED
  BY <1>2, <1>3, <1>4 DEF Runs

LEMMA WorkNext ==
    ASSUME Hold, Hold', [Next]_vars, NEW c \in Calls
    PROVE  /\ Work(c) \in Nat
           /\ IF Acquires(c) \/ Runs(c) THEN Work(c)' < Work(c)
                                        ELSE Work(c)' = Work(c)
<1>1. /\ pc[c] \in Labels /\ fetches[c] \in Nat
      /\ pc'[c] \in Labels /\ fetches'[c] \in Nat
  BY FetchAssumption DEF Hold, Control
<1>2. CASE Acquires(c) \/ Runs(c)
  BY <1>1, <1>2, WeightFalls, WorkFalls DEF Work
<1>3. CASE ~(Acquires(c) \/ Runs(c))
  <2>1. pc'[c] = pc[c] /\ fetches'[c] = fetches[c]
    <3>1. CASE UNCHANGED vars
      BY <3>1 DEF vars
    <3>2. ASSUME NEW d \in Calls, d # c, Acquires(d) \/ Runs(d)
          PROVE  pc'[c] = pc[c] /\ fetches'[c] = fetches[c]
      BY <3>2 DEF Hold, Control, Acquires, Runs, Goto, AcquireReader, FailReader,
                  ReleaseReader, Fetch, Fetched, AcquireWriter, Insert, Open,
                  StreamEnds, LoopFails, EndOfPersist, AuditFile, AuditDatabase,
                  Audited, Return
    <3> QED
      BY <1>3, <3>1, <3>2 DEF Next
  <2> QED
    BY <1>1, <1>3, <2>1, WorkFalls DEF Work
<1> QED
  BY <1>2, <1>3, <1>1, WorkFalls DEF Work

\* Every step of a call leaves it less to do, and no other call gives it more:
\* after at most Work(c) steps of its own it has answered.  CallsDoNotBlockEachOther
\* says that one of them can be taken; what is left to CallsEnd is fairness.
THEOREM CallsRunDown ==
    Spec => [][\A c \in Calls :
                 IF Acquires(c) \/ Runs(c) THEN Work(c) \in Nat /\ Work(c)' < Work(c)
                                           ELSE Work(c)' = Work(c)]_vars
<1>1. HoldInv /\ HoldInv' /\ [Next]_vars =>
        [\A c \in Calls :
           IF Acquires(c) \/ Runs(c) THEN Work(c) \in Nat /\ Work(c)' < Work(c)
                                     ELSE Work(c)' = Work(c)]_vars
  BY WorkNext DEF HoldInv
<1> QED
  BY <1>1, HoldAlways, PTL DEF Spec
=============================================================================
