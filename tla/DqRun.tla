------------------------------- MODULE DqRun -------------------------------
(***************************************************************************)
(* Concurrent executions of one governed data-quality rule:                *)
(* execute_and_persist_data_quality_rule and its preview sibling           *)
(* execute_data_quality_rule (src/src/oracle_mcp/tools.py), with the       *)
(* persistence transaction (persistence.py), the Oracle tables it writes   *)
(* (sql/04_dq_results_schema.sql), the local trend history (dq.py) and the *)
(* audit record (audit.py).                                                *)
(*                                                                         *)
(* A call is one tool invocation with its own request id; a retry is       *)
(* another call.  One action is one round trip to a database, one write,   *)
(* or the code between two of them: between any two, other calls run, the  *)
(* source data and the rule catalog change, and the process may die.       *)
(***************************************************************************)
EXTENDS DqMetrics, Sequences, FiniteSets

CONSTANTS
    Calls,          \* tool invocations
    Runs,           \* company run identifiers
    Rules,          \* rule identifiers of the governed catalog
    Populations,    \* fingerprints of the total-records SQL
    SourceStates,   \* the counts [total, failed] a source can show
    BatchSize,      \* dq_write_batch_size
    MaxDetails,     \* dq_max_failed_details
    SinkMayFail,    \* whether the audit sink may fail, or is none
    MaxClock,       \* bound on the clock, in whole seconds
    MaxChanges,     \* bound on the changes of source and catalog
    None            \* no value

ASSUME BatchAssumption == BatchSize \in Nat \ {0}
ASSUME DetailsAssumption == MaxDetails \in Nat
ASSUME SinkAssumption == SinkMayFail \in BOOLEAN
ASSUME ClockAssumption == MaxClock \in Nat /\ MaxChanges \in Nat
ASSUME SourceAssumption ==
    SourceStates \subseteq {s \in [total : Nat, failed : Nat] : s.failed <= s.total}
ASSUME NoneAssumption == None \notin Calls \cup Runs \cup Populations

VARIABLES
    source,     \* [rule -> counts]: the rows behind a rule's SQL, as they are now
    active,     \* the rules whose catalog status is ACTIVE
    clock,      \* seconds, the granularity of utc_now()
    changes,    \* changes of source and catalog so far
    pc,         \* where each call is
    args,       \* the arguments of each call
    counts,     \* TOTAL_RECORDS and FAILED_RECORDS as each call read them
    result,     \* the result record each call built
    cursor,     \* failing rows left in each call's detail stream
    count,      \* details each call has taken from its stream
    batch,      \* those of them not yet sent to the database
    txn,        \* rows each call has inserted and not committed
    summary,    \* EIM_DQ_RECON_SUMMARY, committed
    details,    \* EIM_DQ_FAILED_RECORDS, committed
    history,    \* the local history file: its lines, oldest first, whether the
                \* last one lacks its newline, and whether all of it is UTF-8
    audit,      \* the status of the audit record made for each call
    outcome     \* what each call answers

environment == <<source, active, clock, changes>>
store == <<summary, details>>
streaming == <<cursor, count, batch>>
vars == <<environment, pc, args, counts, result, streaming, txn, store,
          history, audit, outcome>>

-----------------------------------------------------------------------------
(* Types *)

Kinds == {"persist", "preview"}

Args == [kind : Kinds, run : Runs, rule : Rules, pop : Populations]

\* A result record.  The preview tool's carries neither a run nor a population
\* signature; base is the call whose result was the trend baseline.
Results == [call : Calls, run : Runs \cup {None}, rule : Rules,
            pop : Populations \cup {None}, total : Nat, failed : Nat,
            percent : Percentages, base : Calls \cup {None},
            trend : TrendStatuses, at : Nat]

Details == [run : Runs, rule : Rules, seq : Nat]

NoRows == [summary |-> {}, details |-> {}]

Before == {"new", "total", "failed", "previous", "local"}
Writing == {"insert", "open", "stream", "commit", "rollback"}
After == {"append", "audit", "reply", "done", "lost"}

EnvironmentType ==
    /\ source \in [Rules -> SourceStates]
    /\ active \subseteq Rules
    /\ clock \in 0..MaxClock
    /\ changes \in 0..MaxChanges

ControlType ==
    /\ pc \in [Calls -> Before \cup {"acquire"} \cup Writing \cup After]
    /\ args \in [Calls -> Args]
    /\ audit \in [Calls -> {"none", "SUCCESS", "ERROR"}]
    /\ outcome \in [Calls -> {"none", "OK", "ERROR", "RAISED"}]

ReadType ==
    /\ counts \in [Calls -> [total : Nat, failed : Nat]]
    /\ result \in [Calls -> Results \cup {None}]

StreamType ==
    /\ cursor \in [Calls -> Nat]
    /\ count \in [Calls -> Nat]
    /\ batch \in [Calls -> Nat]

RowsType ==
    /\ txn \in [Calls -> [summary : SUBSET Results, details : SUBSET Details]]
    /\ summary \subseteq Results
    /\ details \subseteq Details
    /\ history \in [lines : Seq(Results \cup {None}), open : BOOLEAN,
                    decodes : BOOLEAN]

TypeOK ==
    EnvironmentType /\ ControlType /\ ReadType /\ StreamType /\ RowsType

-----------------------------------------------------------------------------
(* Helpers *)

SameKey(r, s) == r.run = s.run /\ r.rule = s.rule

\* The committed detail rows of a summary row, by their sequence numbers.
Sequences(s) == {d.seq : d \in {x \in details : SameKey(x, s)}}

\* Detail rows n+1..m of call c, numbered as persist numbers them.
Numbered(c, n, m) ==
    {[run |-> args[c].run, rule |-> args[c].rule, seq |-> i] : i \in (n + 1)..m}

\* Another open transaction has inserted the key of call c: Oracle makes the
\* second INSERT of a primary key wait until the first transaction ends.
KeyIsLocked(c) ==
    \E d \in Calls \ {c} : \E s \in txn[d].summary : SameKey(s, args[c])

\* Mutation: the table has no primary key.
NoPrimaryKey(c) == FALSE

KeyIsTaken(c) == \E s \in summary : SameKey(s, args[c])

Goto(c, label) == pc' = [pc EXCEPT ![c] = label]

\* Mutation: _fail without _handle.
FailUnaudited(c) ==
    /\ Goto(c, "reply")
    /\ outcome' = [outcome EXCEPT ![c] = "ERROR"]

\* The call ends with a ChatbotError: _handle audits it and answers ERROR.
Fail(c) ==
    /\ Goto(c, "audit")
    /\ outcome' = [outcome EXCEPT ![c] = "ERROR"]

\* Any other exception leaves the tool without passing through _handle.
Raise(c) ==
    /\ Goto(c, "reply")
    /\ outcome' = [outcome EXCEPT ![c] = "RAISED"]

Succeed(c) ==
    /\ Goto(c, "audit")
    /\ outcome' = [outcome EXCEPT ![c] = "OK"]

-----------------------------------------------------------------------------
(* Reading: the rule, the two counts, the baseline *)

Init ==
    /\ source \in [Rules -> SourceStates]
    /\ active \in SUBSET Rules
    /\ clock = 0
    /\ changes = 0
    /\ pc = [c \in Calls |-> "new"]
    /\ args \in [Calls -> Args]
    /\ counts = [c \in Calls |-> [total |-> 0, failed |-> 0]]
    /\ result = [c \in Calls |-> None]
    /\ cursor = [c \in Calls |-> 0]
    /\ count = [c \in Calls |-> 0]
    /\ batch = [c \in Calls |-> 0]
    /\ txn = [c \in Calls |-> NoRows]
    /\ summary = {}
    /\ details = {}
    /\ history = [lines |-> <<>>, open |-> FALSE, decodes |-> TRUE]
    /\ audit = [c \in Calls |-> "none"]
    /\ outcome = [c \in Calls |-> "none"]

\* A ChatbotError on the way: an unknown role or run identifier, persistence not
\* configured, SQL the guard rejects, a metric that is not one whole number, a
\* duplicated rule, another summary table than the governed one, a database that
\* does not answer.
Refuse(c) ==
    /\ pc[c] \in {"new", "total", "failed", "previous"}
    /\ Fail(c)
    /\ UNCHANGED <<environment, args, counts, result, streaming, txn, store,
                   history, audit>>

\* Only a rule that is ACTIVE at this moment may run.
CheckActive(c) ==
    /\ pc[c] = "new"
    /\ \/ /\ args[c].rule \in active
          /\ Goto(c, "total")
          /\ UNCHANGED outcome
       \/ /\ args[c].rule \notin active
          /\ Fail(c)
    /\ UNCHANGED <<environment, args, counts, result, streaming, txn, store,
                   history, audit>>

\* The two counts are two queries, each in a read-only transaction of its own.
ReadTotal(c) ==
    /\ pc[c] = "total"
    /\ counts' = [counts EXCEPT ![c].total = source[args[c].rule].total]
    /\ Goto(c, "failed")
    /\ UNCHANGED <<environment, args, result, streaming, txn, store, history,
                   audit, outcome>>

\* calculate_metrics raises ValueError on impossible counts.  The preview turns
\* it into a validation error; the persisting tool does not catch it.
ReadFailed(c) ==
    LET failed == source[args[c].rule].failed
    IN  /\ pc[c] = "failed"
        /\ counts' = [counts EXCEPT ![c].failed = failed]
        /\ \/ /\ CountsAreValid(counts[c].total, failed)
              /\ Goto(c, IF args[c].kind = "persist" THEN "previous"
                                                     ELSE "local")
              /\ UNCHANGED outcome
           \/ /\ ~CountsAreValid(counts[c].total, failed)
              /\ IF args[c].kind = "persist" THEN Raise(c) ELSE Fail(c)
        /\ UNCHANGED <<environment, args, result, streaming, txn, store,
                       history, audit>>

\* The result of call c against a baseline result, or None, stamped with the
\* time at which it is built.
BuildResult(c, base) ==
    LET a == args[c]
        persisted == a.kind = "persist"
    IN  \E p \in FailurePercentages(counts[c].total, counts[c].failed)
                     \cap Percentages :
        result' = [result EXCEPT ![c] =
            [call    |-> c,
             run     |-> IF persisted THEN a.run ELSE None,
             rule    |-> a.rule,
             pop     |-> IF persisted THEN a.pop ELSE None,
             total   |-> counts[c].total,
             failed  |-> counts[c].failed,
             percent |-> p,
             base    |-> IF base = None THEN None ELSE base.call,
             trend   |-> IF base = None THEN "BASELINE"
                         ELSE TrendFrom(p, base.percent),
             at      |-> clock]]

\* The newest committed execution of the same rule and population, by
\* EXECUTED_AT; equal stamps come in any order.
Newest(rows) == {s \in rows : \A t \in rows : t.at <= s.at}

Earlier(c) ==
    {s \in summary : s.rule = args[c].rule /\ s.pop = args[c].pop}

\* The baseline is read before this call writes.  No row, or a failed read,
\* falls back to the local history.
ReadPersisted(c) ==
    /\ pc[c] = "previous"
    /\ \/ /\ \E s \in Newest(Earlier(c)) : BuildResult(c, s)
          /\ Goto(c, "acquire")
       \/ /\ Goto(c, "local")
          /\ UNCHANGED result
    /\ UNCHANGED <<environment, args, counts, streaming, txn, store, history,
                   audit, outcome>>

\* Mutation: the signature is ignored.
MatchesRule(c, line) == line # None /\ line.rule = args[c].rule

\* DqHistory.previous: a line that does not parse is skipped; the preview passes
\* no population signature.
Matches(c, line) ==
    /\ line # None
    /\ line.rule = args[c].rule
    /\ args[c].kind = "preview" \/ line.pop = args[c].pop

\* The call goes on with its result.
GoOn(c) ==
    /\ Goto(c, IF args[c].kind = "persist" THEN "acquire" ELSE "append")
    /\ UNCHANGED outcome

\* The last matching line of the history, in file order; none when no line
\* matches or the file cannot be opened.  The file is decoded as it is read, and a
\* UnicodeDecodeError is no OSError: it leaves the tool.
ReadLocal(c) ==
    LET lines == history.lines
        hits == {i \in DOMAIN lines : Matches(c, lines[i])}
    IN  /\ pc[c] = "local"
        /\ \/ BuildResult(c, None) /\ GoOn(c)
           \/ /\ history.decodes
              /\ \E i \in hits :
                   /\ \A j \in hits : j <= i
                   /\ BuildResult(c, lines[i])
              /\ GoOn(c)
           \/ ~history.decodes /\ Raise(c) /\ UNCHANGED result
        /\ UNCHANGED <<environment, args, counts, streaming, txn, store,
                       history, audit>>

-----------------------------------------------------------------------------
(* DqPersistenceRepository.persist: one transaction *)

\* The writer's connection; failing to create the pool is a ChatbotError, a
\* failed acquire is outside every handler.
AcquireWriter(c) ==
    /\ pc[c] = "acquire"
    /\ \/ Goto(c, "insert") /\ UNCHANGED outcome
       \/ Fail(c)
       \/ Raise(c)
    /\ UNCHANGED <<environment, args, counts, result, streaming, txn, store,
                   history, audit>>

\* The INSERT of the summary row waits for a transaction that holds its key,
\* and fails on a key that is already committed.
InsertSummary(c) ==
    /\ pc[c] = "insert"
    /\ ~KeyIsLocked(c)
    /\ \/ /\ ~KeyIsTaken(c)
          /\ txn' = [txn EXCEPT ![c].summary = {result[c]}]
          /\ Goto(c, "open")
       \/ Goto(c, "rollback") /\ UNCHANGED txn
    /\ UNCHANGED <<environment, args, counts, result, streaming, store,
                   history, audit, outcome>>

\* The first row asked of iter_fetch opens a read-only transaction: the stream
\* shows the source as it is now, whatever the counts said.
OpenDetails(c) ==
    /\ pc[c] = "open"
    /\ cursor' = [cursor EXCEPT ![c] = source[args[c].rule].failed]
    /\ Goto(c, "stream")
    /\ UNCHANGED <<environment, args, counts, result, count, batch, txn, store,
                   history, audit, outcome>>

\* executemany of the buffered details: the last n of the first m.
Flush(c, n, m) ==
    txn' = [txn EXCEPT ![c].details = @ \cup Numbered(c, m - n, m)]

\* Mutation: no hard limit.
AnyNumber(n) == TRUE

WithinLimit(n) == n <= MaxDetails

\* Mutation: one more row is asked for than the stream has.
HasOneMore(c) == cursor[c] >= 0

HasMore(c) == cursor[c] > 0

\* The loop over the details: count, check the limit, buffer, send full batches.
StreamDetail(c) ==
    LET n == count[c] + 1
        b == batch[c] + 1
    IN  /\ pc[c] = "stream"
        /\ HasMore(c)
        /\ cursor' = [cursor EXCEPT ![c] = @ - 1]
        /\ count' = [count EXCEPT ![c] = n]
        /\ \/ /\ ~WithinLimit(n)
              /\ Goto(c, "rollback")
              /\ UNCHANGED <<batch, txn>>
           \/ /\ WithinLimit(n) /\ b < BatchSize
              /\ batch' = [batch EXCEPT ![c] = b]
              /\ UNCHANGED <<pc, txn>>
           \/ /\ WithinLimit(n) /\ b >= BatchSize
              /\ Flush(c, b, n)
              /\ batch' = [batch EXCEPT ![c] = 0]
              /\ UNCHANGED pc
        /\ UNCHANGED <<environment, args, counts, result, store, history,
                       audit, outcome>>

\* Mutation: the last, partial batch is not sent.
DropLastBatch(c) == 0

LastBatch(c) == batch[c]

\* The stream is exhausted: the last batch is sent and the count compared with
\* the failed count the summary row carries.
EndOfDetails(c) ==
    /\ pc[c] = "stream"
    /\ ~HasMore(c)
    /\ Flush(c, LastBatch(c), count[c])
    /\ batch' = [batch EXCEPT ![c] = 0]
    /\ Goto(c, IF count[c] = counts[c].failed THEN "commit" ELSE "rollback")
    /\ UNCHANGED <<environment, args, counts, result, cursor, count, store,
                   history, audit, outcome>>

\* Oracle refuses a row or the detail query fails.
WriteFails(c) ==
    /\ pc[c] \in {"open", "stream"}
    /\ Goto(c, "rollback")
    /\ UNCHANGED <<environment, args, counts, result, streaming, txn, store,
                   history, audit, outcome>>

\* The locals of persist end with its frame.
ForgetStream(c) ==
    /\ cursor' = [cursor EXCEPT ![c] = 0]
    /\ count' = [count EXCEPT ![c] = 0]
    /\ batch' = [batch EXCEPT ![c] = 0]

\* Mutation: commit() is forgotten and releasing the connection rolls back.
PublishNothing(c) ==
    /\ UNCHANGED store
    /\ txn' = [txn EXCEPT ![c] = NoRows]

\* What the database does on COMMIT: both tables change together.
Publish(c) ==
    /\ summary' = summary \cup txn[c].summary
    /\ details' = details \cup txn[c].details
    /\ txn' = [txn EXCEPT ![c] = NoRows]

\* COMMIT and its acknowledgement; or COMMIT whose acknowledgement is lost, so
\* that commit() raises; or a COMMIT that is refused.
Commit(c) ==
    /\ pc[c] = "commit"
    /\ \/ Publish(c) /\ Goto(c, "append")
       \/ Publish(c) /\ Goto(c, "rollback")
       \/ Goto(c, "rollback") /\ UNCHANGED <<store, txn>>
    /\ UNCHANGED <<environment, args, counts, result, streaming, history,
                   audit, outcome>>

\* Mutation: the transaction is left open.
LeaveOpen(c) == UNCHANGED txn

Undo(c) == txn' = [txn EXCEPT ![c] = NoRows]

\* Mutation: the error is logged and not raised again.
Swallow(c) == Goto(c, "append") /\ UNCHANGED outcome

\* Mutation: a failed transaction is tried again.
TryAgain(c) == Goto(c, "acquire") /\ UNCHANGED outcome

Rethrow(c) == Fail(c) \/ Raise(c)

\* rollback() and PersistenceError; on a dead connection rollback() raises an
\* error of its own, and the database discards the transaction itself.
Rollback(c) ==
    /\ pc[c] = "rollback"
    /\ Undo(c)
    /\ ForgetStream(c)
    /\ Rethrow(c)
    /\ UNCHANGED <<environment, args, counts, result, store, history, audit>>

-----------------------------------------------------------------------------
(* After the transaction *)

\* Mutation: the file is opened with "w".
Overwritten(text) == <<text>>

\* The lines after text, a result or None for a part of one, has reached the end
\* of the file.  Behind a line without its newline it makes one that does not
\* parse.
Extended(text) ==
    IF history.open THEN [history.lines EXCEPT ![Len(history.lines)] = None]
                    ELSE Append(history.lines, text)

WriteLine(text, complete, decodes) ==
    history' = [lines |-> Extended(text), open |-> ~complete,
                decodes |-> history.decodes /\ decodes]

\* A write that is cut short, by a full disk or with the process: nothing, a
\* part of the line, or all of it but the newline has reached the file.  A part
\* may end inside of a character: the line is written with ensure_ascii=False,
\* and what is written behind it does not complete the character.
CutShort(c) ==
    \/ UNCHANGED history
    \/ \E text \in {None, result[c]} : WriteLine(text, FALSE, TRUE)
    \/ WriteLine(None, FALSE, FALSE)

MayCutShort(c) == IF pc[c] = "append" THEN CutShort(c) ELSE UNCHANGED history

\* DqHistory.append.  A failed write is tolerated once the database holds the
\* run; the preview does not catch it.
AppendHistory(c) ==
    /\ pc[c] = "append"
    /\ \/ WriteLine(result[c], TRUE, TRUE) /\ Succeed(c)
       \/ /\ IF args[c].kind = "persist" THEN Succeed(c) ELSE Raise(c)
          /\ CutShort(c)
    /\ UNCHANGED <<environment, args, counts, result, streaming, txn, store,
                   audit>>

\* The status of the record that belongs to an answer.
StatusOf(answer) == IF answer = "OK" THEN "SUCCESS" ELSE "ERROR"

\* Mutation: the status is read off the result, which a failed call may have.
StatusOfResult(c) ==
    audit' = [audit EXCEPT ![c] = IF result[c] # None THEN "SUCCESS" ELSE "ERROR"]

Record(c) == audit' = [audit EXCEPT ![c] = StatusOf(outcome[c])]

\* _audit: one record with the status of the answer.  The sink "none" writes
\* nothing, and what a file or a database refuses is logged and forgotten.
Audit(c) ==
    /\ pc[c] = "audit"
    /\ \/ Record(c)
       \/ SinkMayFail /\ UNCHANGED audit
    /\ Goto(c, "reply")
    /\ UNCHANGED <<environment, args, counts, result, streaming, txn, store,
                   history, outcome>>

Reply(c) ==
    /\ pc[c] = "reply"
    /\ Goto(c, "done")
    /\ UNCHANGED <<environment, args, counts, result, streaming, txn, store,
                   history, audit, outcome>>

\* The process that serves the call dies; the database rolls the open
\* transaction back, and a line it was writing to the history may be cut short.
\* Calls of one process are lost by one Crash each.
Crash(c) ==
    /\ pc[c] \notin {"new", "done", "lost"}
    /\ Goto(c, "lost")
    /\ txn' = [txn EXCEPT ![c] = NoRows]
    /\ ForgetStream(c)
    /\ MayCutShort(c)
    /\ UNCHANGED <<environment, args, counts, result, store, audit, outcome>>

-----------------------------------------------------------------------------
(* The world outside the server *)

SourceChanges(r) ==
    /\ changes < MaxChanges
    /\ changes' = changes + 1
    /\ \E s \in SourceStates \ {source[r]} :
         source' = [source EXCEPT ![r] = s]
    /\ UNCHANGED <<active, clock, pc, args, counts, result, streaming, txn,
                   store, history, audit, outcome>>

CatalogChanges(r) ==
    /\ changes < MaxChanges
    /\ changes' = changes + 1
    /\ active' = IF r \in active THEN active \ {r} ELSE active \cup {r}
    /\ UNCHANGED <<source, clock, pc, args, counts, result, streaming, txn,
                   store, history, audit, outcome>>

Tick ==
    /\ clock < MaxClock
    /\ clock' = clock + 1
    /\ UNCHANGED <<source, active, changes, pc, args, counts, result,
                   streaming, txn, store, history, audit, outcome>>

-----------------------------------------------------------------------------

\* What the thread that serves call c does next.
Step(c) ==
    \/ Refuse(c) \/ CheckActive(c) \/ ReadTotal(c) \/ ReadFailed(c)
    \/ ReadPersisted(c) \/ ReadLocal(c)
    \/ AcquireWriter(c) \/ InsertSummary(c) \/ OpenDetails(c)
    \/ StreamDetail(c) \/ EndOfDetails(c) \/ WriteFails(c)
    \/ Commit(c) \/ Rollback(c)
    \/ AppendHistory(c) \/ Audit(c) \/ Reply(c)

Next ==
    \/ \E c \in Calls : Step(c) \/ Crash(c)
    \/ \E r \in Rules : SourceChanges(r) \/ CatalogChanges(r)
    \/ Tick

Spec == Init /\ [][Next]_vars

\* Every call's thread keeps running, and every database call ends: reads have
\* a call timeout, and the only wait inside the writer's transaction is for a
\* key that another call's transaction holds.
Fairness == \A c \in Calls : WF_vars(Step(c))

FairSpec == Spec /\ Fairness

-----------------------------------------------------------------------------
(* Properties *)

\* persist commits a summary row together with all its failed records or not
\* at all: the committed details of a summary row are numbered 1 to its
\* FAILED_RECORDS without a gap, and there is no detail without its summary
\* row, although the count and the detail stream read the source at different
\* times and the details are sent in batches.
WholeRunOrNothing ==
    /\ \A s \in summary : Sequences(s) = 1..s.failed
    /\ \A d \in details : \E s \in summary : SameKey(s, d)

\* A success that was audited or answered is in the tables, written by that
\* very call, whatever crashes, retries and duplicates of the call happen
\* around it.
SuccessIsDurable ==
    \A c \in Calls : args[c].kind = "persist" =>
        /\ audit[c] = "SUCCESS" => result[c] \in summary
        /\ pc[c] = "done" /\ outcome[c] = "OK" =>
             result[c] \in summary /\ Sequences(result[c]) = 1..count[c]

\* The trend stored with an execution compares it with another committed
\* execution of the same rule and population that is not stamped later, also
\* when the baseline was found in the local history only.
BaselineIsLikeForLike ==
    \A s \in summary :
        \/ s.base = None /\ s.trend = "BASELINE"
        \/ \E t \in summary \ {s} :
             /\ t.call = s.base
             /\ t.rule = s.rule /\ t.pop = s.pop
             /\ t.at <= s.at
             /\ s.trend = TrendFrom(s.percent, t.percent)

\* The database history is authoritative: a persisted execution in the local
\* history file is committed in the database.
HistoryFollowsDatabase ==
    \A i \in DOMAIN history.lines :
        LET line == history.lines[i]
        IN  line # None /\ line.pop # None => line \in summary

\* As long as the history can be decoded, a write that was cut short costs at most
\* the one line written behind it: the previews that were answered and are not in
\* the file are no more than its lines that do not parse (a preview is answered
\* only after its line was written).  A write that was cut inside of a character
\* costs the whole file: previous() reads nothing from it any more.
TornLinesAreContained ==
    history.decodes => Cardinality({c \in Calls : /\ args[c].kind = "preview"
                               /\ outcome[c] = "OK"
                               /\ \A i \in DOMAIN history.lines :
                                    history.lines[i] # result[c]})
    <= Cardinality({i \in DOMAIN history.lines : history.lines[i] = None})

\* An audit record says what the call answered, and a call that raised left none,
\* although the record is made before the answer; an envelope without its record
\* is one the sink has lost.
AnswerMatchesAudit ==
    \A c \in Calls :
        pc[c] = "done" =>
            \/ outcome[c] # "RAISED" /\ audit[c] = StatusOf(outcome[c])
            \/ audit[c] = "none" /\ (outcome[c] = "RAISED" \/ SinkMayFail)

\* The persisted tool implements the ledger: a summary row and its details are
\* one ledger entry, recorded in one step.
Entry(s) == [call |-> s.call, run |-> s.run, rule |-> s.rule,
             failed |-> s.failed, rows |-> Sequences(s)]

Told == {c \in Calls : /\ args[c].kind = "persist"
                       /\ pc[c] = "done" /\ outcome[c] = "OK"}

Ledger == INSTANCE DqLedger WITH ledger <- {Entry(s) : s \in summary},
                                 told <- Told

ImplementsLedger == Ledger!LedgerSpec

\* A call that waits for a key waits for one that can go on: the call whose open
\* transaction holds the key is past its own INSERT and not past its rollback, so
\* no two calls wait for each other, and none for a call that has answered or
\* died and will never release it.
HoldersGoOn ==
    \A c, d \in Calls :
        /\ pc[c] = "insert" /\ d # c
        /\ \E s \in txn[d].summary : SameKey(s, args[c])
        => pc[d] \in {"open", "stream", "commit", "rollback"}

Stage == [new |-> 1, total |-> 2, failed |-> 3, previous |-> 4, local |-> 5,
          acquire |-> 6, insert |-> 7, open |-> 8, stream |-> 9, commit |-> 10,
          rollback |-> 11, append |-> 12, audit |-> 13, reply |-> 14,
          done |-> 15, lost |-> 16]

Locals(c) == <<pc[c], args[c], counts[c], result[c], cursor[c], count[c],
               batch[c], txn[c], audit[c], outcome[c]>>

\* Nothing is tried twice within a call, and no other call touches its state:
\* whatever changes it brings the call to a later stage of execute_and_persist,
\* or takes a row off its detail stream, which nothing fills up again.
OnlyForward ==
    [][\A c \in Calls : Locals(c)' # Locals(c) =>
          \/ Stage[pc'[c]] > Stage[pc[c]]
          \/ pc'[c] = pc[c] /\ cursor'[c] < cursor[c]]_vars

\* Every call that began ends, answered or with its process: in particular
\* the INSERT of a duplicate execution does not wait for ever.
CallsEnd ==
    \A c \in Calls : pc[c] = "total" ~> pc[c] \in {"done", "lost"}

-----------------------------------------------------------------------------
(* What the documents say and the code does not do *)

\* "Commit summary and details together, or roll the complete run back"
\* (persistence.py): a call that reports a failure wrote nothing.
FailedCallLeavesNoRows ==
    \A c \in Calls :
        outcome[c] \in {"ERROR", "RAISED"} => \A s \in summary : s.call # c

\* "Every tool invocation produces one record whether it succeeded, was
\* rejected by the guardrails, or failed in the database" (audit.py).
EveryInvocationIsAudited ==
    \A c \in Calls : pc[c] = "done" => audit[c] # "none"
=============================================================================
