----------------------------- MODULE ReaderPool -----------------------------
(***************************************************************************)
(* Who holds and who waits for the pooled connections of one server        *)
(* process: the reader pool of a database (db.py), the writer pool of the  *)
(* data-quality repository (persistence.py), and the audit sink, which     *)
(* takes its connection from the same reader pool when it writes to that   *)
(* database (audit.py, server.py).                                         *)
(*                                                                         *)
(* A call is one tool invocation in a worker thread.  A "query" stands for *)
(* the tools that only fetch, "persist" for                                *)
(* execute_and_persist_data_quality_rule, whose detail stream is a         *)
(* generator that holds a reader connection until it is exhausted, fails,  *)
(* or is thrown away with the frame of the tool.                           *)
(***************************************************************************)
EXTENDS Naturals, FiniteSets

CONSTANTS
    Calls,          \* tool invocations
    ReaderSizes,    \* the values <PROFILE>_POOL_MAX may have
    WriterMax,      \* DQ_WRITE_POOL_MAX
    MaxFetches      \* bound on the queries a call runs before it writes or ends

ASSUME WriterAssumption == WriterMax \in Nat \ {0}
ASSUME FetchAssumption == MaxFetches \in Nat \ {0}
ASSUME SizesAssumption == ReaderSizes \subseteq Nat \ {0}
ASSUME CallsAssumption == IsFiniteSet(Calls)

VARIABLES
    readerMax,  \* the size of the reader pool
    sink,       \* "file", or "database" for the sinks db and both
    kind,       \* "query" or "persist"
    pc,         \* where each call is
    fetches,    \* queries each call has still to run
    lent,       \* reader connections in use: the call and what it uses it for
    writers     \* the calls that hold a writer connection

vars == <<readerMax, sink, kind, pc, fetches, lent, writers>>

configuration == <<readerMax, sink, kind>>

Labels == {"fetch", "fetching", "acquire", "insert", "open", "stream",
           "commit", "rollback", "audit", "auditing", "return", "done"}

TypeOK ==
    /\ readerMax \in ReaderSizes
    /\ sink \in {"file", "database"}
    /\ kind \in [Calls -> {"query", "persist"}]
    /\ pc \in [Calls -> Labels]
    /\ fetches \in [Calls -> 0..MaxFetches]
    /\ lent \subseteq Calls \X {"query", "stream"}
    /\ Cardinality(lent) <= readerMax
    /\ writers \subseteq Calls
    /\ Cardinality(writers) <= WriterMax

Init ==
    /\ readerMax \in ReaderSizes
    /\ sink \in {"file", "database"}
    /\ kind \in [Calls -> {"query", "persist"}]
    /\ pc = [c \in Calls |-> "fetch"]
    /\ fetches = [c \in Calls |-> MaxFetches]
    /\ lent = {}
    /\ writers = {}

-----------------------------------------------------------------------------
(* The pools: acquire() waits, without a timeout, while every connection is  *)
(* in use; it fails only when it could have had one.                         *)

Goto(c, label) == pc' = [pc EXCEPT ![c] = label]

\* Mutation: one connection more than the pool has.
OneMoreReader == Cardinality(lent) <= readerMax

ReaderIsIdle == Cardinality(lent) < readerMax

WriterIsIdle == Cardinality(writers) < WriterMax

AcquireReader(c, use, next) ==
    /\ ReaderIsIdle
    /\ lent' = lent \cup {<<c, use>>}
    /\ Goto(c, next)

\* A reader that cannot be opened: the slot stays free.
FailReader(c, next) == ReaderIsIdle /\ Goto(c, next) /\ UNCHANGED lent

\* Mutation: a connection goes back only when the call returns.
ReleaseAtReturn(c, use, next) == Goto(c, next) /\ UNCHANGED lent

ReleaseReader(c, use, next) ==
    /\ lent' = lent \ {<<c, use>>}
    /\ Goto(c, next)

-----------------------------------------------------------------------------
(* fetch: a query in a read-only transaction *)

\* The last read of a persist call, the baseline, is one the tool can do without.
Fetch(c) ==
    /\ pc[c] = "fetch"
    /\ \/ AcquireReader(c, "query", "fetching")
       \/ FailReader(c, "audit")
       \/ fetches[c] = 1 /\ kind[c] = "persist" /\ FailReader(c, "acquire")
    /\ UNCHANGED <<configuration, fetches, writers>>

\* The connection goes back whether the query worked or not; the next query,
\* the write or the audit follows, or an exception that passes the audit by.
Fetched(c) ==
    /\ pc[c] = "fetching"
    /\ fetches' = [fetches EXCEPT ![c] = @ - 1]
    /\ \/ fetches[c] > 1 /\ ReleaseReader(c, "query", "fetch")
       \/ fetches[c] = 1 /\ kind[c] = "persist" /\ ReleaseReader(c, "query", "acquire")
       \/ fetches[c] = 1 /\ kind[c] = "query" /\ ReleaseReader(c, "query", "audit")
       \/ ReleaseReader(c, "query", "audit")
       \/ ReleaseReader(c, "query", "return")
    /\ UNCHANGED <<configuration, writers>>

-----------------------------------------------------------------------------
(* persist *)

\* A pool that cannot be created is a ChatbotError; a failed acquire is not and
\* passes the audit by.
AcquireWriter(c) ==
    /\ pc[c] = "acquire"
    /\ WriterIsIdle
    /\ \/ writers' = writers \cup {c} /\ Goto(c, "insert")
       \/ UNCHANGED writers /\ Goto(c, "audit")
       \/ UNCHANGED writers /\ Goto(c, "return")
    /\ UNCHANGED <<configuration, fetches, lent>>

\* The first row asked of the generator comes after the summary row.
Insert(c) ==
    /\ pc[c] = "insert"
    /\ Goto(c, "open") \/ Goto(c, "rollback")
    /\ UNCHANGED <<configuration, fetches, lent, writers>>

Open(c) ==
    /\ pc[c] = "open"
    /\ AcquireReader(c, "stream", "stream") \/ FailReader(c, "rollback")
    /\ UNCHANGED <<configuration, fetches, writers>>

\* The stream ends, or its query fails: the generator releases its reader.
StreamEnds(c) ==
    /\ pc[c] = "stream"
    /\ \/ ReleaseReader(c, "stream", "commit")
       \/ ReleaseReader(c, "stream", "rollback")
    /\ UNCHANGED <<configuration, fetches, writers>>

\* The hard limit, or an insert Oracle rejects: persist leaves the loop with
\* the generator suspended between two rows, its reader in its hands.
LoopFails(c) ==
    /\ pc[c] = "stream"
    /\ Goto(c, "rollback")
    /\ UNCHANGED <<configuration, fetches, lent, writers>>

\* Mutation: the writer is released only after a commit.
ReleaseAfterCommit(c) ==
    writers' = IF pc[c] = "commit" THEN writers \ {c} ELSE writers

\* finally: pool.release(connection).
ReleaseWriter(c) == writers' = writers \ {c}

\* A rollback() that raises passes the audit by.
EndOfPersist(c) ==
    /\ pc[c] \in {"commit", "rollback"}
    /\ ReleaseWriter(c)
    /\ \/ Goto(c, "audit")
       \/ pc[c] = "rollback" /\ Goto(c, "return")
    /\ UNCHANGED <<configuration, fetches, lent>>

-----------------------------------------------------------------------------
(* _audit, and the end of the call *)

\* Mutation: every sink writes to the database.
AlwaysDatabase == TRUE

WritesDatabase == sink = "database"

AuditFile(c) ==
    /\ pc[c] = "audit"
    /\ ~WritesDatabase
    /\ Goto(c, "return")
    /\ UNCHANGED <<configuration, fetches, lent, writers>>

\* _write_db; an error is swallowed.
AuditDatabase(c) ==
    /\ pc[c] = "audit"
    /\ WritesDatabase
    /\ AcquireReader(c, "query", "auditing") \/ FailReader(c, "return")
    /\ UNCHANGED <<configuration, fetches, writers>>

Audited(c) ==
    /\ pc[c] = "auditing"
    /\ ReleaseReader(c, "query", "return")
    /\ UNCHANGED <<configuration, fetches, writers>>

\* Mutation: a suspended generator is kept, and its connection with it.
KeepGenerator(c) == UNCHANGED lent

\* The frame of the tool ends: a suspended generator is closed, and its
\* read_only_cursor releases the connection.
CloseGenerator(c) == lent' = lent \ {<<c, "stream">>}

Return(c) ==
    /\ pc[c] = "return"
    /\ CloseGenerator(c)
    /\ Goto(c, "done")
    /\ UNCHANGED <<configuration, fetches, writers>>

-----------------------------------------------------------------------------

\* The steps that may have to wait, and those that only run.
Acquires(c) == Fetch(c) \/ AcquireWriter(c) \/ Open(c) \/ AuditDatabase(c)

Runs(c) ==
    \/ Fetched(c) \/ Insert(c) \/ StreamEnds(c) \/ LoopFails(c)
    \/ EndOfPersist(c) \/ AuditFile(c) \/ Audited(c) \/ Return(c)

Next == \E c \in Calls : Acquires(c) \/ Runs(c)

\* Threads run and statements end (call_timeout), and a pool serves those who
\* wait for it in turn.
Fairness == \A c \in Calls : WF_vars(Runs(c)) /\ SF_vars(Acquires(c))

Spec == Init /\ [][Next]_vars

FairSpec == Spec /\ Fairness

\* A configuration in which the calls cannot block each other: the audit does
\* not use the pool, or the pool has a connection more than there are calls
\* that can hold one while they ask for another.
Persisting == {c \in Calls : kind[c] = "persist"}

SafeConfiguration ==
    sink = "file" \/ readerMax > Cardinality(Persisting)

SafeInit == Init /\ SafeConfiguration

SafeSpec == SafeInit /\ [][Next]_vars

FairSafeSpec == SafeSpec /\ Fairness

-----------------------------------------------------------------------------
(* Properties *)

\* No connection is leaked on any path, the suspended generator's included:
\* when every call has ended, both pools are complete again.
IdlePoolsAreComplete ==
    (\A c \in Calls : pc[c] = "done") => lent = {} /\ writers = {}

\* The statements of the tools take their connections in one order, the writer
\* before the reader: whoever starts a query or asks for a writer holds no
\* reader, and a writer is held inside persist only.  The audit is the one
\* place that may be reached with a reader in hand.
ConnectionsInOrder ==
    \A c \in Calls :
        /\ pc[c] \in {"fetch", "acquire", "open"} =>
             \A use \in {"query", "stream"} : <<c, use>> \notin lent
        /\ c \in writers => pc[c] \in {"insert", "open", "stream", "commit",
                                       "rollback"}

\* Until all have ended, some call can go on: there is no state in which the
\* calls hold what they wait for.
WaitsForReader(c) ==
    pc[c] \in {"fetch", "open"} \/ (pc[c] = "audit" /\ WritesDatabase)

SomeoneCanRun ==
    \/ \A c \in Calls : pc[c] = "done"
    \/ \E c \in Calls :
         /\ pc[c] # "done"
         /\ WaitsForReader(c) => ReaderIsIdle
         /\ pc[c] = "acquire" => WriterIsIdle

\* "Auditing must never break a request" (tools.py, _audit; audit.py): every
\* call is answered.
CallsEnd == \A c \in Calls : <>(pc[c] = "done")
=============================================================================
