# Oracle EIM data quality: TLA+ models and proofs

This directory holds TLA+ models of the `oracle_mcp` service (an MCP server that gives a chat
assistant governed, read-only access to Oracle, runs data-quality rules and persists their results),
TLC configurations that check them, and theorems proved with TLAPS. Paths are relative to the
repository; `tools.py` and the like are in `src/oracle_mcp/`.

## 1. The system

| Component | Code | State | Operations |
|---|---|---|---|
| Persisted rule execution | `tools.py` 602-760, `persistence.py`, `sql/04_dq_results_schema.sql` | the two result tables; the open transaction of each call | check the rule, count twice, find the baseline, insert summary and details, commit or roll back, append the history, audit, answer |
| Preview rule execution | `tools.py` 508-600 | none of its own | the same reads, then the history line |
| Metrics and trend | `dq.py` 17-48, 96-124 | none | `calculate_metrics`, `severity_for`, `trend_from` |
| Local history | `dq.py` 51-93 | a JSONL file, one lock per process | `previous`, `append` |
| Connections | `db.py`, `settings.py` | a lazily created pool per database, one for the DQ writer | `read_only_cursor`, `fetch`, `iter_fetch`, `close` |
| Audit | `audit.py`, `tools.py` 1303-1350 | a file, a table, or both | `record`, `_handle` |
| Run lifecycle, report, e-mail | `tools.py` 762-1035, `mail.py` | the identifiers handed out; mails on their way | `start_dq_run`, `get_dq_run_report`, `email_dq_run_summary` |
| Ad hoc SQL | `tools.py` 70-96, 254-434, `sql_guard.py`, `policy.py`, `masking.py` | the approval cache | validate, approve, execute, mask |
| Data dictionary | `metadata.py` | two caches with expiry | list, describe, search |
| Reconciliation | `reconcile.py`, `tools.py` 1214-1299, `db.py` 179-207 | two result sets | approve both, read both, compare |
| Agent and chat | `agent.py`, `chat.py` | one conversation per request | the tool-calling loop |
| Server | `server.py`, `settings.py` | configuration | register the tools |

FastMCP runs the synchronous tools in worker threads, and several server processes may share the
databases. So calls interleave at every database round trip, the tables a rule reads change between
its queries, and a process may die anywhere. The threads of one process share the pools, the history
file and the audit sink. The result tables are shared by everyone, and only Oracle's primary keys and
transactions order their writers. The hard behaviours are these:

* the summary row and an unbounded stream of details are one transaction, fed by a second connection
  that reads a table which may have changed since it was counted;
* commit, history, audit and reply are four steps without a common transaction;
* the same execution may be sent twice, and the acknowledgement of a commit may be lost;
* connections are held while others are requested, and an audit record may need one too;
* caches (approvals, dictionary) answer for a state that is gone, and a statement is validated in one state
  of the dictionary and executed in another;
* a report is read, and mailed, while the run is still being executed;
* a language model writes the statements and the arguments, and may write anything.

What makes each component correct is stated with its module below, and `PROJECT.json` lists the
hazards line by line.

## 2. Modules

**`DqMetrics`** is the arithmetic. Percentages are hundredths of a percent, which is what
`round(x, 2)` and `NUMBER(7,2)` keep. Division in binary floating point may round an exact half either
way, so an operator returns the set of values the code may produce. `DqRun` and `DqReport` use it.

**`DqRun`** is the core: calls of the persisting tool and of the preview. Each call has a program
counter, and one action is one database round trip, one write, or the code between two of them.

| State | Code |
|---|---|
| `source`, `active` | rows behind the rule's SQL; `RULE_STATUS` in the catalog |
| `counts`, `result` | locals `total`, `failed`, `result` of the tool |
| `cursor`, `count`, `batch` | the `iter_fetch` stream; locals of `persist` |
| `txn` | rows inserted and not committed |
| `summary`, `details` | the two tables |
| `history` | the lines of the JSONL file, whether the last one lacks its newline, and whether the file is still valid UTF-8 |
| `audit`, `outcome` | the status in the audit record, if the sink kept it; the envelope, or the exception |

`ReadTotal`, `ReadFailed` and `OpenDetails` read `source` at three different moments. `InsertSummary`
waits while another transaction holds the key and fails when it is committed. `Commit` has three
outcomes: applied and acknowledged, applied and not acknowledged, refused. `Rollback` answers with a
`PersistenceError`, or raises when the connection is dead. `Crash` may hit any call at any moment; a
process that serves several calls dies by one `Crash` for each. A line of the history may be cut short, by a
full disk or by a crash (`CutShort`, `MayCutShort`); the next `append` then writes on the same line, which
nobody can read any more (`Extended`), and so two executions disappear from the baselines. The cut may also fall inside
of a multibyte character, as lines are written with `ensure_ascii=False`. Then `previous` raises `UnicodeDecodeError` past its
handlers in every later call that comes to the file (`ReadLocal` with `~history.decodes`). `Audit` writes the record, or loses
it where `SinkMayFail`: the sink "none" writes nothing, and failures of the others are swallowed.

**`DqLedger`** is what the tool promises: executions enter a ledger in one step, complete, at most
once for each run and rule, and a caller is told of success only afterwards. `DqRun` defines the
refinement (`Ledger`): a summary row and its details are one entry.

**`ReaderPool`** is who holds and who waits for connections in one process: the reader pool, the
writer pool, the suspended generator of `iter_fetch`, and the audit sink, which uses the reader pool
when it writes to the same database. A call is "query" (it fetches and ends) or "persist".

**`Approvals`** is the approval cache and the two tools that share it: `validate_sql` puts the fingerprint
of what the guard accepted into `ApprovalCache`, `execute_readonly_sql` looks it up. The cache has no
lock, so one action is the code between two calls on the dictionary or the clock: `ReadClock`, `Store`,
`CheckSize` and `Evict` are `add`, `LookUp`, `Judge` and `Drop` are `is_approved`. Storing an entry and moving
it to the end are one action, since CPython does not switch threads between them. The guard is a choice:
it accepts a statement in some form (`Forms` are the fingerprints) or not, and may choose differently the
next time, as it does when the policy or the dictionary has changed. `expiry` is the dictionary, `place` the
order of its keys, and `due`, `seen`, `checked` the locals of a call.

**`Dictionary`** is who may use which schema and object. The operators of its first part are the decisions of
`policy.py` (`IsDiscoverable`, `Authorized`, `AllowedObjects`, `AllowedSchemas`) and the filters of `metadata.py`
(`Listing`, `VisibleHits`). `Rows` is what the queries behind a listing return, at most `MaxRows` names in
their `Order`. The actions are tool calls in worker threads that share the cache of `DataDictionary`:
`Begin` finds out whether the policy alone decides or which entry is needed, `ReadClock`, `LookUp`, `Fetch` and `Store` are
`_cached` and the query in it, `Decide` applies the policy to the rows. Except where nothing is named (a search without
discovery), one call looks up one entry. Where discovery is on, a search has a query and a row limit of its own and finds any part
of the view. `view` is what the read-only account can see at the moment; a query that fails returns
no rows, so an outage is the empty view. `views` records what was shown during each tick, for the property about age; no
action of the code reads it. A policy is a record of what a YAML file says: `policy` is one of `Policies`, loaded once.

**`Reconcile`** is one call of `compare_onprem_and_atp_data`. `table` holds the rows the two queries select; they change while
the call goes on. `Prepare` is the approval of a query and its row limit, `Fetch` the query, its limit and the
truncation flag, `Compare` is `compare_result_sets`. A row is a key and an attribute; `Text` is what masking and normalisation make of
one. Rows of one key overwrite each other in an order the database chooses: `Indexes` is the set of possible results. `keyed` says
which queries return the key column; the code looks at one side only, and a row without the column has the key `None`. `ever`, `always` and
`left` only record what the systems had during the call, and which had rows the query was not answered with.

**`DqReport`** is the life of one run as its callers see it. `Execute` records an execution of a rule in one step:
that this is what the persisting tool amounts to is what `DqRun` and `DqLedger` show. The calls are `start_dq_run`, the
report and the e-mail; `Query` reads the rows of the run under the row limit of the role, `Report` audits and
returns them, `Compose` may refuse the message, `Send` hands it to a transport, `AuditMail` writes the second record. `before` is what
was committed when a call began, `rows` what it read, `overall` the metrics of their sums, `mails` what a transport has taken. The
transport may fail before it takes the message or after; both look alike to the tool. A call whose `args` are `lossy` is served by a
process whose audit sink may lose records, any of them.

**`Clearances`**, **`SqlGuard`** and **`Masking`** are decisions, written as operators. A statement is what the checks look at of its syntax
tree, and what the database makes of it: how it was read, a set of marks (a blocked construct, a hint, a join without a condition, a
star, ...), its columns with their qualifier and their name in the result, what it selects from a subquery, a literal limit. `tables` are those
the guard looks up; `shadowed` are those the database reads and the guard takes for a subquery, because a CTE or a derived table somewhere in
the statement has their name. `heads` are the names a column list or a set operation gives to what a star selects. `beside` marks what stands in
one select list with a star. `Accepts` are the checks of `SqlGuard.validate`; `Rewritten` is the statement it returns, in which an expanded star has
replaced everything beside it, aggregates and the filters of scalar subqueries included. `T.*` is a column to the guard and is never expanded.
`VisibleColumns` and `Rank` are the classification. `IsCleared` is the check of a column: the first object that knows the name decides, in an
order the model leaves open. `IsMasked` is what `Masker` does to a value, which it looks up by the name in the result, under the last object (in the
sorted list of the referenced ones) that declares that name.

**`Chat`** composes the three with the tool loop of `agent.py`: one request of `POST /api/chat`. The language model is outside and free:
it asks for any number of tools up to the bound, sends its statement or any that `validate_sql` has returned, and claims
any role. One action is one completion, one tool call up to its query, or the queries and the masking of their rows (`Run`). The tools that
bring rows are `execute_readonly_sql`, `compare_onprem_and_atp_data` (two statements), `list_active_dq_rules` (the server's own) and
`execute_data_quality_rule`, which is three queries: the catalog, whose fields are in its answer, and two counts (`PrepareCatalog`, `PrepareMetric`
twice; `pc` is "measure" in between). A count is the value under the expected alias, and no mask may have changed it (`IsCount`). Between any
two steps, the dictionary may go away or come back (`Flip`) and approvals expire (`Forget`, which `Approvals` has in detail). `Output`, `Listed`
and `Starred` are the database: it resolves names as Oracle does, and is external. `messages` is the conversation, `ran` and `shown` only
record what was sent to the database and what the model has been shown.

`DqRunProofs`, `DqLedgerProofs`, `DqReportProofs`, `ReaderPoolProofs`, `ApprovalsProofs`, `DictionaryProofs`, `ReconcileProofs` and
`ChatProofs` hold the theorems; `MC*` modules hold the small instances.

## 3. Runs

| Run | What it asks | Bounds |
|---|---|---|
| `dq_run` | safety of two concurrent calls and refinement of the ledger, with a sink that keeps its records | 2 calls, 2 runs, 1 rule, 2 populations, 2 source states, batches of 2, limit 2, 1 change, 1 tick (1.73 million states) |
| `dq_run_retries` | two calls for one key, streams up to and beyond the limit; nobody waits in vain or tries twice; calls end; refinement; audit with a sink that may fail | 1 run, 1 population, 3 source states (483,000 states) |
| `dq_run_in_doubt`, `dq_run_unaudited` | two statements of the documents the code does not keep (below) | 1 or 2 calls |
| `dq_report` | what a report may miss, what a mail says, the scores against reference definitions | 1 call, a sink that keeps or one that loses records, 2 runs, 3 rules, row limits 1 and 2, 3 executions, counts 1/32, 2/3, 0/0, 1/10 and 3000/29999 |
| `reader_pool` | no leak, no deadlock, every call ends in a safe configuration | 3 calls, pools of 1 and 2 readers, 1 writer, 2 queries |
| `reader_pool_hang` | the same without the restriction | 2 persist calls, 2 readers |
| `approvals` | what may run, and the size of the cache | 3 calls, 2 databases, 2 roles (one with raw access), 2 forms, a cache of 1, time to live 1, clock to 2 |
| `dictionary` | age of the answers; listing against authorisation | 2 calls, 2 schemas with two objects and with one, a cap of 1 name per list, 3 views (an outage, two grants), 2 roles, 4 policies, time to live 1, clock to 1, 2 views per tick (1.40 million states) |
| `reconcile` | reported differences against what the systems held | 4 rows (a key in two spellings, twice in one, a masked text), a cap of 2, requested limits 0, 1 and 3, 1 change |
| `reconcile_capped` | rows the cap leaves out are reported | the same |
| `chat` | what runs, what the model is shown, the shape of the conversation, the end of a request | 2 completions of up to 2 tool calls, 24 statements, 2 policies, 3 roles (two that reconcile, one with raw access), both role bindings, 3 tables (one not allowed), server cap 2 (240,000 states) |

Why the bounds are enough. Two calls make every pairwise race: on one key, on a baseline, on the
history. With the limit at 2 and batches of 2, the source states (1 of 1, 2 of 3, 3 of 3 failing) give
a partial batch, a full batch, a last detail at the limit and one beyond it. One change of the source is
enough to separate any two of the three reads, including the pair that has more failures than records.
Two populations and two runs separate like from unlike. Calls, runs and populations are
interchangeable in the code (compared for equality only), so the safety run uses symmetry; the runs
with liveness do not. In `dq_report` one call is enough, since reports share only the table they read, and their
interleavings with executions are all there; a limit of 2 is below a run of three rules, and the counts
round up, fall on a half, lie on a threshold, are rounded onto one from above, or are none at all. `chat` needs two
completions for a statement that is validated in one state of the dictionary and executed in another; the statements are
one for each thing a check looks at and each way a column can get into a result - a star over two objects, in an outage, under another name, an
aggregate beside a star, a table with the name of a subquery, a name that two objects classify differently -, and the theorems of `ChatProofs` cover all the others. Three calls are a validation, an execution that judges its entry, and a third that
evicts or renews it in between; a cache of one entry overflows with two keys, and a clock that passes the
time to live separates approvals that hold from those that have expired. Two calls are enough for the dictionary: one
stores over, or reads, the entry of the other; a second view in a tick makes their rows differ, and one tick is the time to live. The
policies are no discovery, a list of schemas over a declared object that is classified higher, and the wildcard with an excluded object
and with an excluded schema that has a declared object; the theorem `ListingsAgree` covers all the others. With the cap at 1, a grant that adds
an object to a schema takes another one off its list.
In `reconcile` each of the two queries selects any of the 16 sets of rows, so results stay below the cap, meet it and exceed it, and have
none, one or two rows of a key; one change between the reads is enough for a record to be in both systems, or in neither, at no
moment at all.

What the properties say:

* `WholeRunOrNothing`: the committed details of a run are numbered 1 to its failed count.
* `SuccessIsDurable`: what was audited or answered as a success is in the tables, by that call.
* `BaselineIsLikeForLike`: a stored trend compares with another committed execution of the same rule
  and population, not stamped later, also when the baseline came from the file. It does not say that the
  baseline is the latest one: two overlapping executions may use the same baseline, and the model
  shows it.
* `HistoryFollowsDatabase`: the file never runs ahead of the tables.
* `AnswerMatchesAudit`: the audit record is made before the answer, and says what the answer will say; a call that raised left none. Only a sink that
  may fail leaves an answer without its record (`dq_run_retries`); one that keeps its records has all of them (`dq_run`).
* `ImplementsLedger`: the refinement.
* `HoldersGoOn`: the call whose transaction holds the key another `INSERT` waits for is past its own wait and has not ended.
* `OnlyForward`: whatever changes a call's state brings it to a later stage or takes a row off its detail stream; nothing is
  retried within a call, and no other call touches its state.
* `TornLinesAreContained`: while the file can be decoded, previews that were answered and cannot be found in it are no more than the lines that
  do not parse, so a torn write costs at most the one line behind it. A write that is cut inside of a character costs the whole file: see below.
* `ReportMissesNothing`: a report has committed executions of its run only, and all that were committed when it began,
  but for the last rules when the row limit of the role is reached.
* `MailsAreAccountedFor`: a mail shows what the report of its call read, of the run it was asked for; an OK means that a
  transport took it. With a sink that keeps records the audited report is behind every mail and the mail's record behind every OK. With any
  sink, no record tells of a mail that was not sent, or of a refused report when one was.
* `OverallIsBetween`: the overall score lies between the scores of the rules, in percentage and in severity.
* `PercentageIsNearest`, `PercentagesAddUp`, `SeverityIsTheBand`: the arithmetic. The last one has an
  exception the code really makes: the severity is taken of the unrounded rate, so a rate just below a
  threshold is stored as the threshold and carries the lower severity, and one just above 10 is stored as 10.00 and is Critical.
* `ExecutedWasApproved`: what ran without raw access was accepted for the same database, role and form, and
  the check found that acceptance no older than the time to live, whatever was evicted or renewed meanwhile.
* `CacheIsBounded`: the cache outgrows its size by at most one entry for each thread that is in the trimming loop.
* `AnswersAreRecent`: an answer that rests on the dictionary is right for a view less than the time to live old when
  the lookup began, so a revoked grant and an outage are forgotten in time whatever threads store over each other.
* `ListingAgrees`: an object is listed just when a query that names it would be allowed, also where the cap cuts the list: both decide by the same
  capped rows. There is one exception, and the
  property states it: `list_allowed_tables` refuses an excluded schema altogether ("Excluded schemas are never
  reachable", `metadata.py` 340), while `authorize_object` still accepts an object the YAML declares in it (`policy.py` 484).
* `SettledRecordsMatch`, `DifferencesWereThere`: a comparison of two systems that change. Both speak of what the role is shown:
  two values that are masked alike count as equal. A key that is not unique, and rows left out by a limit, are the
  two cases in which a record that is alike on both sides may still be reported.
* `NothingAboveClearanceLeaves`: a value the model is shown unmasked is cleared for the role, by what it looks like and by the classification of its
  column in every object it may come from and the guard has looked up: not under another name in a select list, not by a star that was
  left, not by a change between validation and execution. The property names what the code does not cover, since both the guard and the masking go by
  name: a column under a star that is left and given another name (`cell.starred /\ cell.as # cell.column`), and a name that another object
  of the statement classifies as one the role may see, unless the column is qualified by its own object (`ClearedElsewhere`). The value scanners apply to
  all of these, and objects the guard takes for subqueries are outside of it.
* `RewritingIsFinal`: what `validate_sql` returned is safe again, while its objects can be
  found, and not changed again, but for a star that was left in an outage: it is expanded later, and its approval is of no use. It is
  accepted again unless the filter or the aggregate that a large table needs stood beside a star and was lost with it.
* `QueriesAreGuarded`: whatever the model sends, and in whose name, the database gets queries on allowed objects, under both caps,
  which were accepted before, or count records, or are the server's own, unless the role has raw access. Two exceptions are stated: tables named like a
  subquery are not looked up, and a "count" whose aggregate stood beside a star runs as a plain list (and is then refused as a count, unless it has the
  alias by chance).
* `EveryCallIsAnswered`: each completion is asked for with a conversation in which every tool call is answered, once and in order.
* `RequestsEnd`: a request ends, whatever the model asks for.
* `IdlePoolsAreComplete`, `ConnectionsInOrder`, `SomeoneCanRun`, `CallsEnd`: connections.

Deadlock checking is off where the system may really stop: all calls done.

### What the code does not keep

1. A lost acknowledgement of `commit()` is answered with "no rows were committed"
   (`persistence.py` 115-124), although the run is in the tables (`dq_run_in_doubt`).
2. Counts that contradict each other raise `ValueError` past the handler of the persisting tool
   (`tools.py` 668); no audit record is written (`dq_run_unaudited`).
3. With a database audit sink on the database the rules read, failed persists hold the reader
   connection of their suspended stream while they wait for another to write the audit record
   (`audit.py` 173): as many of them as the pool has connections wait for ever
   (`reader_pool_hang`). `reader_pool` and the theorem `CallsDoNotBlockEachOther` show the configurations in
   which it cannot happen: the file sink, or one reader more than concurrent persisting calls.
4. The row limit is part of the statement, so the database never sends the one row more by which `fetch` would notice
   truncation (`tools.py` 386-390, `db.py` 196-201). A comparison of capped results calls itself complete
   and reports records as missing that both systems hold (`reconcile_capped`). The same flag is meant to warn the reader of every
   capped query.

Observations without a run, none of which contradicts a property:

* After a write to the local history that was cut inside of a character, `previous` raises `UnicodeDecodeError`, which neither of its handlers catches
  (`dq.py` 67-86): every later call that needs the file raises, persisting ones included when the tables have no baseline, until somebody repairs it.
* Where discovery is on, a search shows names that listing hides: those of objects classified above the role, and those beyond the cap of a list
  (`metadata.py` 137, 193; `_visible` at 575-584 looks at schemas and exclusions only). Comments say that search "must not surface what listing
  hides" (`metadata.py` 578-579) and that telling that an object exists "is itself a schema disclosure" (`policy.py` 478-480). Rows stay closed:
  `authorize_object` refuses the object.
* An expanded star replaces the whole select list (`sql_guard.py` 501-506). `SELECT *, COUNT(*)` over a large table is accepted as an aggregate, rewritten to a plain
  list and refused when it is validated again; `_execute_dq_metric` runs such a list as it is, since it judges the aggregate before the rewriting.
* `_local_names` collects the names of CTEs and derived tables of the whole statement without regard to scope (`sql_guard.py` 355-361), and unqualified
  tables of that name are not looked up in the policy, wherever they stand.
* `policy_rule_for` takes a column by its name in the result, so a column under a star that is left and renamed is masked by what its values look like only.

* The preview's baseline ignores the population: the call at `tools.py` 545 passes no signature, although
  `docs/data-quality-framework.md` speaks of like-for-like.
* `is_approved` pops the key of an expired entry after it has compared it, without a
  lock, so a validation that renews the entry in between loses an approval it has just answered (`tools.py` 93-95); the
  statement is refused, and `OnlyApprovedRuns` holds all the same.
* `_resolve_key_columns` looks for the matching key in
  the rows of one side only (`reconcile.py` 77): when the other query does not return it, all its rows share the key
  `None`, and the answer lists the records of the first side as missing from the second.
* A report is cut, silently, at the row limit of the role (`tools.py` 810), although its docstring says that it loads every persisted rule,
  and the mail made of it has the same rows. `ReportMissesNothing` states the limit.
* A mail may have been sent although the call answers an error or raises (a transport that fails after it took the
  message, a `TimeoutExpired`), so a retry sends it twice. A failure of the report inside the e-mail tool is audited as a failure of `get_dq_run_report` only.
* `_expand_star` takes a star selected from a CTE or a derived table for one of the base table (`sql_guard.py` 501), so the
  database may refuse a query that the guard has accepted.
* With `role_binding_mode=argument` the chat runs under `default_role`, since `dispatch` discards the role of the
  arguments, while its preamble and its answer name `pinned_role`.
* A late or unreadable reply of the model, or tool arguments that are neither text nor an object, end the request with a
  500; the turn limit is answered with a fixed text and 200.

## 4. Fairness

`DqRun`: weak fairness of each call's thread (`Step(c)`). A thread runs, database reads have a call timeout,
and the only wait of unknown length in the writer's transaction is for a key another transaction holds;
the database ends that transaction when its owner commits, rolls back or dies. Nothing is assumed of the
source, the catalog, the clock or crashes.

`ReaderPool`: weak fairness of what only runs, strong fairness of what takes a connection from a pool:
the pool of the driver serves its waiters in turn. A pool waits without a timeout, since `create_pool`
is given no `getmode` or `wait_timeout` (`settings.py` 178-187).

`Chat`: weak fairness of the request's own steps. Completions and database calls have timeouts, so each step ends. Nothing is assumed
of the dictionary, of approvals or of what the model answers.

## 5. Proofs

All theorems hold for every value of the constants, under the named assumptions of the modules
(positive batch size, a limit in `Nat`, source states with no more failures than records, positive
pool sizes, a positive cache size, finitely many calls, an object in one schema, policies that are well-formed, positive row caps, every
clearance at least INTERNAL, no two objects at one place of the sorted list). Nothing is assumed of how policies classify a name in several objects, or of
what a sink, a transport or a disk does.

`DqRun`. `Frame` says which action can change which variable, so that each later proof treats only the
actions that matter. `TypeInv` proves `TypeOK`; on top of it stand layers, each inductive relative to those
below it:

1. `ControlInv`: only persist calls are inside the transaction, and answer and audit agree with the
   program counter.
2. `TxnInv`: what an open transaction contains. Its summary row is the call's own result, present from "open"
   on; its details are numbered 1 to `count - batch`; no two open transactions and no open and committed
   one have the same key. `WholeRunOrNothing` alone is not inductive: that a commit publishes details 1 to
   `failed` needs this, together with the check of `EndOfDetails`.
3. `DurableInv`: after the commit the call's own result is in `summary`.
4. `BaselineInv`: a result that has a baseline has a committed one like it. It needs 3 for the history file:
   a persisted line is there only after its row.
5. `LinesInv`: each answered preview that is lost has a spoiled line of its own. `TornLinesAreContained` compares two
   cardinalities and is not inductive: it needs that the last line, while it lacks its newline, is the record of no answered
   preview (else the next write would lose one more; a write that cuts a character only takes the premise away), that an answered preview's record names its call (so that two calls never share
   a line), and that a line, once spoiled and no longer the last open one, stays spoiled.

The theorems: `TypeCorrect`, `RunsAreWhole`, `AnswersMatchAudits`, `HoldersAlwaysGoOn`, `CallsGoForward` (`DqRunProofs`),
`SuccessesAreDurable`, `HistoryIsBehindDatabase`, `TornLinesAreContainedAlways`, `BaselinesAreLikeForLike`, and
`RunImplementsLedger`: initial states map to initial states; `Commit` maps to `Record` (or a stutter), `Reply` to `Tell`, everything
else to a stutter (`DqLedgerProofs`).

What of liveness can be proved without fairness is: `HoldersAlwaysGoOn` says that a wait is never for a call that waits or is gone, and
`CallsGoForward` that a call has only so many steps. `CallsEnd` adds that the steps are taken, and stays with TLC.

`ReaderPool`. `HoldInv` says in which control states a call may hold which connection, and that both pools lend at
most their size; it gives `PoolsTypeCorrect`, `PoolsDoNotLeak` and `WriterBeforeReader` directly.
`CallsDoNotBlockEachOther` argues by contradiction: when everyone waits, every reader lent belongs to the
suspended stream of a persisting call at its audit; the map from connections to calls is
injective, so there are fewer than the pool has, and a reader is idle. Then all the others wait for a writer,
but nobody holds one. `CallsRunDown` gives each call a measure in `Nat` that each of its steps lowers and no other call raises; the
two together are what `CallsEnd` needs besides fairness.

`Approvals`. `ExecutedWasApproved` speaks of a finished call, and the entry that let it pass may be gone. So
`ApprovalInv` follows the approval from the validation that computed it (`DueInTime`) into the cache
(`EntriesGranted`), from there to the execution that found it (`FindsGranted`) and past its check
(`PassesGranted`); what a validation granted stays granted (`GrantedStays`), however the cache changes. It gives
`OnlyApprovedRuns`. `ApprovalsAreBounded` counts: each `Store` adds at most one entry and brings one call into
the trimming loop, which that call leaves only when it has read a size within the limit (or an empty cache). With
`ApprovalsTypeCorrect` these hold for any calls, roles, forms, sizes and times.

`Dictionary`. `ListingsAgree` holds of every policy, role and view, by reasoning about the sets alone. For
`AnswersAreRecent`, `KeysInv` ties each call's key and answer to its request and its control state, and `TimesInv` orders the times
a call has read and the clock. `EntriesRecent` says that each cache entry is what some view of the last time to live
gives, counted back from its expiry; `RowsRecent` carries that over to the rows a call took from an entry or a query.
`PastStays` (the views of a tick are only added to) and `DecisionStays` (the policy is loaded once) keep what
was true of an answer true. It does not matter which call stored last: each entry carries its own expiry.

`Reconcile`. `WorldInv` puts a system's table between the rows it always had and those it ever had; `ReadInv` says the same of what
was fetched, unless rows were left out. At `Compare` both properties follow from this and from what an index is: each of its keys
is the key of a fetched row, so a key it lacks was not always there, and a row that alone has its key is the one
the index holds. Nothing is needed of the masks or spellings.

`DqReport`. `TableInv` says that the table is finite and has one row of a rule in a run, and that each stored score is what `MetricsOf`
makes of its counts; the theorems `PercentagesAreNearest`, `PercentagesAddUpAlways` and `SeverityIsTheBandAlways` follow by arithmetic alone,
for all counts, from a lemma that says what rounding to the nearest hundredth is. `MailInv` follows a mail from the rows a call read through
its two records; `MailsAreAccountedForAlways` is its conclusion. `TypesAlways`, `ReportMissesNothingAlways` and `OverallIsBetweenAlways` are
about finite sets of rows: how many there are, which is the last of them, and the sum over them. They rest on induction over
finite sets in a form that needs no operator as a parameter: strict inclusion is well-founded on the finite subsets
of a set, so if some finite subsets are bad, one of them has no bad proper subset (`SmallestBadSet`). With it, the fold behind `Sum` exists and
is unique, `SumInAnyOrder` shows that the order of the rows does not matter, `SumsAreWeighed` that the summed rate lies between the
smallest and the largest rate of a row (the mediant inequality), and rounding and `severity_for` preserve that, but for the exact halves the
property names. `CompleteInv` carries a report from its query on: the rows a call read stay in the table, what was there before and is not among them
lies behind all of them in the order of the rules, and there are then as many as the limit (`QueryLeavesOutLast`).

`Chat`. `Guarded` is what all texts have that `validate_sql` returned, in whatever state the dictionary was: it speaks of the policy
and the role only, which do not change (`JudgedAlike`). `StarIsLeft` adds what is true of a star that was not expanded: as long as the
dictionary is away no column can be put in its place. `AcceptedIsGuarded` shows that a rewritten statement has both, `GuardedStays` that they
are all a later check asks for, and `MaskedIsClear` that what is shown of a guarded query is clear: a listed column by
the guard (`NamedIsCleared`: if it is above the clearance in its own object, another object cleared its name), a column under a star that kept its name by the
masking (`NameIsMasked`, which needs the place in the sorted list to be unique), as there the guard has seen no name. `ChatInv` carries this
through the request, the three queries of a rule included, and gives `GuardHolds`,
`RewritingIsFinalAlways` and `ClearanceHolds`. `TalkInv` describes a conversation in the middle of its tool calls: settled up to
the last message that asked for tools, and answered from there in order; it gives `CallsAreAnsweredAlways`. `RequestsRunDown` bounds a
request: `StepsLeft` is at first `MaxTurns * (6 * MaxCalls + 1) + 1` (a rule is three checks and three queries), each step of the tool loop lowers it, whatever
the model asks for, and nothing raises it.

Only model-checked: liveness (`CallsEnd` of `DqRun` and `ReaderPool`, `RequestsEnd`), since fairness and `ENABLED` are out of the prover's
reach, and the four runs that show a violation. Every invariant and every action property that a passing run checks is also a theorem,
and so is the refinement.

## 6. Not modelled, and the plan

Abstracted everywhere: SQL text (a population is its fingerprint), masking and formatting, role names, the database a
rule runs on (one source per rule). `Refuse` stands for every rejection before the transaction, whatever its reason.

Left out for good, because they keep no state and decide nothing the properties talk about: loading of the YAML files and of the
environment, registration of the tools, HTML and text layout, result profiling and hints, the static routes of the chat. Pools are
created once under a lock and closed only when the server has stopped. The cache of column metadata expires like the
one of objects, which `Dictionary` has, and its outages are in `Chat`. In `SqlGuard` a statement has one select list over its tables and one over a
subquery: of set operations and nested queries, all of which the code searches for stars (`find_all`), only the kinds of select lists they contribute and
the names they give to columns are kept. Names of tables and CTEs that stand in a select list beside a star, and so disappear with it, and
Oracle's data-dictionary views are left out; parsing and printing are sqlglot's. All processes of `DqRun` read one clock: a skew between
hosts, by which an execution committed first may carry the later stamp, is left out beyond the early stamp that every call has anyway.

Possible next steps: the two cuts of the long lists in
`compare_result_sets` and in tool messages; a second server process that shares the history file with the first.
