-------------------------------- MODULE Chat --------------------------------
(***************************************************************************)
(* One question to the chat: POST /api/chat (chat.py), the tool loop of    *)
(* ChatAgent (agent.py) and, under it, the tools that validate SQL, run it *)
(* and mask what comes back (tools.py).  What a tool answers goes to a     *)
(* language model outside; the model chooses tools and arguments freely.   *)
(*                                                                         *)
(* Between two steps the data dictionary may go away or come back, and     *)
(* approvals may expire (Approvals has that cache in detail).              *)
(***************************************************************************)
EXTENDS SqlGuard, Masking, Sequences

CONSTANTS
    Statements, \* what the model may write
    CatalogSql, \* the server's own query of the rule catalog
    CountName,  \* the alias TOTAL_RECORDS or FAILED_RECORDS
    RawRoles,   \* the roles with allow_raw_sql
    Reconcilers,\* the roles with allow_reconciliation, if the server serves both systems
    Pinned,     \* ORACLE_MCP_PINNED_ROLE
    Default,    \* the default_role of roles.yaml
    MaxTurns,   \* _MAX_TURNS
    MaxCalls    \* bound on the tool calls of one message

ASSUME StatementsAssumption ==
    /\ Statements \subseteq StatementType /\ CatalogSql \in StatementType
    /\ CountName \in Names
ASSUME ChatRolesAssumption == Pinned \in Roles /\ Default \in Roles
ASSUME TurnsAssumption == MaxTurns \in Nat \ {0} /\ MaxCalls \in Nat \ {0}

VARIABLES
    binding,    \* role_binding_mode
    sql,        \* the statement the model is after
    pc,         \* where the request is
    turn,       \* completions asked for
    calls,      \* the tool calls of the last message of the model
    next,       \* the one of them that is dispatched
    messages,   \* the conversation
    approved,   \* fingerprints in the approval cache
    accepted,   \* those validate_sql has ever put there
    prepared,   \* the tool that runs and its queries, else None
    ran,        \* what has been sent to the database, and for which tool
    shown,      \* the values tools have answered with
    status      \* the HTTP status

environment == <<policy, binding, sql>>
results == <<ran, shown>>
conversation == <<turn, calls, next, messages, status>>
vars == <<environment, role, reachable, pc, conversation, approved, accepted,
          prepared, results>>

-----------------------------------------------------------------------------
(* Roles *)

\* _identity: the role is pinned, or it is the one of the arguments.
Identity(asserted) ==
    IF binding = "env" THEN Pinned
    ELSE IF asserted = None THEN Default ELSE asserted

\* Mutation: the arguments of the model are passed on as they are.
Kept(asserted) == asserted

\* dispatch discards user_role and user_id.
Stripped(asserted) == None

ChatRole == IF binding = "env" THEN Pinned ELSE Default

-----------------------------------------------------------------------------
(* Messages *)

Asked(n) == [from |-> "assistant", calls |-> n]
Told(i) == [from |-> "tool", calls |-> i]

MessageType == [from : {"user", "assistant", "tool"}, calls : 0..MaxCalls]

\* Mutation: a call that could not be dispatched gets no tool message.
AnsweredIfRun(fits) == IF fits THEN Append(messages, Told(next)) ELSE messages

Answered(fits) == Append(messages, Told(next))

-----------------------------------------------------------------------------
(* What the database returns *)

Reads(f) == f.tables \cup f.shadowed

\* The objects a column of the query may come from.
Sources(f, x) ==
    {o \in Candidates(Reads(f), x.of) : x.column \in ColumnsOf[o]}

Selected(f) == {x \in f.columns : x.as # None}

Listed(f) ==
    {[as |-> x.as, column |-> x.column, of |-> x.of, from |-> Sources(f, x),
      starred |-> FALSE] : x \in Selected(f)}

\* What a star selects, under its own names or under those it is given.
Starred(f) ==
    IF f.marks \cap {"star", "dotstar"} = {} THEN {}
    ELSE UNION {UNION {[as : IF f.heads = {} THEN {c} ELSE f.heads, column : {c},
                        of : {None}, from : {{o}}, starred : {TRUE}] :
                          c \in ColumnsOf[o]} : o \in Reads(f)}

\* The columns of the result: each with its name, its column and its objects.  A
\* subquery may be selected from by name.
Output(f) ==
    LET inner == Listed(f) \cup Starred(f)
    IN  IF f.picks = {} \/ f.marks \cap {"all", "dotall"} # {} THEN inner
        ELSE {r \in inner : r.as \in f.picks}

\* Oracle knows every column the statement names.
IsValid(f) ==
    /\ \A x \in f.columns : Sources(f, x) # {}
    /\ f.picks \subseteq {r.as : r \in Listed(f) \cup Starred(f)}

\* What a caller is told of a result.
Masked(f) ==
    {[as |-> r.as, column |-> r.column, of |-> r.of, from |-> r.from,
      starred |-> r.starred, tables |-> f.tables,
      raw |-> ~IsMasked(r.as, r.column, f.tables)] : r \in Output(f)}

-----------------------------------------------------------------------------
(* Types *)

\* execute_data_quality_rule has three queries: its rule's, and two that count.
Tools == {"execute", "compare", "catalog", "rule", "total", "failed"}

Measures == {"total", "failed"}

Cells == [as : Names, column : Columns, of : Objects \cup {None},
          from : SUBSET Objects, starred : BOOLEAN, tables : SUBSET Objects,
          raw : BOOLEAN]

\* cells: what the tool has been told before.
Preparations == [tool : Tools, queries : SUBSET StatementType, cells : SUBSET Cells]

TypeOK ==
    /\ policy \in Policies /\ role \in Roles /\ reachable \in BOOLEAN
    /\ binding \in {"env", "argument"}
    /\ sql \in Statements
    /\ pc \in {"complete", "dispatch", "run", "measure", "ended"}
    /\ turn \in 0..MaxTurns
    /\ calls \in 0..MaxCalls /\ next \in 1..MaxCalls + 1
    /\ messages \in Seq(MessageType)
    /\ approved \subseteq accepted /\ accepted \subseteq StatementType
    /\ pc \in {"run", "measure"} => prepared \in Preparations
    /\ \A r \in ran : r[1] \in Tools /\ r[2] \in StatementType /\ r[3] \in Roles
    /\ shown \subseteq Cells
    /\ status \in {0, 200, 500, 502}

Init ==
    /\ policy \in Policies
    /\ binding \in {"env", "argument"}
    /\ role = ChatRole
    /\ reachable \in BOOLEAN
    /\ sql \in Statements
    /\ pc = "complete"
    /\ turn = 0
    /\ calls = 0
    /\ next = 1
    /\ messages = <<[from |-> "user", calls |-> 0]>>
    /\ approved = {}
    /\ accepted = {}
    /\ prepared = None
    /\ ran = {}
    /\ shown = {}
    /\ status = 0

-----------------------------------------------------------------------------
(* The model *)

\* Mutation: one completion too many.
OneMore == turn <= MaxTurns

MayAsk == turn < MaxTurns

\* Mutation: the limit is not noticed when it is reached.
BeyondTurns == turn > MaxTurns

OutOfTurns == turn = MaxTurns

\* The request ends with an answer or an error.
End(code) == pc' = "ended" /\ status' = code

\* The model calls tools.
AskForTools ==
    /\ pc = "complete" /\ MayAsk
    /\ \E n \in 1..MaxCalls :
         /\ calls' = n
         /\ messages' = Append(messages, Asked(n))
    /\ turn' = turn + 1
    /\ next' = 1
    /\ pc' = "dispatch"
    /\ UNCHANGED <<environment, role, reachable, approved, accepted, prepared,
                   results, status>>

\* The model answers, or the limit of turns is reached; the model cannot be reached
\* (a RuntimeError, 502), or its reply is late or unreadable, which is another
\* exception (500).
Finish ==
    /\ pc = "complete"
    /\ \/ MayAsk /\ (End(200) \/ End(500) \/ End(502))
       \/ OutOfTurns /\ End(200)
    /\ UNCHANGED <<environment, role, reachable, turn, calls, next, messages,
                   approved, accepted, prepared, results>>

-----------------------------------------------------------------------------
(* The tools *)

\* A tool message, and the next call of the message or the next completion.
Reply(fits) ==
    /\ messages' = Answered(fits)
    /\ next' = next + 1
    /\ pc' = IF next = calls THEN "complete" ELSE "dispatch"
    /\ prepared' = None
    /\ UNCHANGED <<turn, calls, status>>

\* A call comes to the tools: under which role is decided anew, whatever user_role the
\* model puts into the arguments.
Enter ==
    /\ pc = "dispatch"
    /\ \E claim \in Roles \cup {None} : role' = Identity(Stripped(claim))

\* The tool is unknown, its arguments are no JSON or do not fit, or it fails in a
\* way no handler expects; metadata tools and explain_query_result answer without
\* values of tables, and so does every tool that refuses.
AnswerAtOnce ==
    /\ Enter
    /\ Reply(FALSE) \/ Reply(TRUE)
    /\ UNCHANGED <<environment, reachable, approved, accepted, results>>

\* Arguments that are neither text nor an object end the request: dict() of them
\* is outside of any handler.
Derail ==
    /\ pc = "dispatch"
    /\ End(500)
    /\ UNCHANGED <<environment, role, reachable, turn, calls, next, messages,
                   approved, accepted, prepared, results>>

\* What the model may send: its statement, or what validate_sql made of one.
Sendable == {sql} \cup accepted

Validate ==
    /\ Enter
    /\ \E s \in Sendable :
         /\ Accepts(s)
         /\ approved' = approved \cup {Rewritten(s)}
         /\ accepted' = accepted \cup {Rewritten(s)}
    /\ Reply(TRUE)
    /\ UNCHANGED <<environment, reachable, results>>

IsApproved(f) == role \in RawRoles \/ f \in approved

\* _prepare_execution validates again.
IsPrepared(s) == Accepts(s) /\ IsApproved(Rewritten(s))

Prepare(tool, queries, cells) ==
    /\ prepared' = [tool |-> tool, queries |-> queries, cells |-> cells]
    /\ pc' = "run"
    /\ UNCHANGED <<environment, reachable, conversation, approved, accepted, results>>

\* execute_readonly_sql.
PrepareExecution ==
    /\ Enter
    /\ \E s \in Sendable : IsPrepared(s) /\ Prepare("execute", {Rewritten(s)}, {})

\* compare_onprem_and_atp_data: both sides are validated before either is sent.
PrepareComparison ==
    /\ Enter /\ role \in Reconcilers
    /\ \E s1, s2 \in Sendable :
         /\ IsPrepared(s1) /\ IsPrepared(s2)
         /\ Prepare("compare", {Rewritten(s1), Rewritten(s2)}, {})

\* list_active_dq_rules and the begin of execute_data_quality_rule: the server's own
\* query goes through the guard as well.
PrepareCatalog ==
    /\ Enter
    /\ Accepts(CatalogSql)
    /\ \E tool \in {"catalog", "rule"} : Prepare(tool, {Rewritten(CatalogSql)}, {})

\* execute_data_quality_rule counts by two queries, aggregates as they are written,
\* without an approval.
PrepareMetric ==
    /\ pc = "measure" /\ UNCHANGED role
    /\ \E s \in Sendable :
         /\ Accepts(s) /\ IsAggregate(s)
         /\ Prepare(IF prepared.tool = "rule" THEN "total" ELSE "failed",
                    {Rewritten(s)}, prepared.cells)

\* There is no such rule, or no query to count by: an error.
GiveUp ==
    /\ pc = "measure"
    /\ Reply(TRUE)
    /\ UNCHANGED <<environment, role, reachable, approved, accepted, results>>

\* A count is the value named so, which no mask may have changed.
Counts(f) == {cell \in Masked(f) : cell.as = CountName}

IsCount(f) == \A cell \in Counts(f) : cell.raw

\* After its first and its second query execute_data_quality_rule has another one; all
\* that it was told is in its answer.
Proceed(cells) ==
    IF prepared.tool \in {"rule", "total"}
    THEN /\ prepared' = [prepared EXCEPT !.cells = cells]
         /\ pc' = "measure"
         /\ UNCHANGED <<conversation, shown>>
    ELSE Reply(TRUE) /\ shown' = shown \cup cells

\* _run_query: the queries one after the other until one fails, and the masking of
\* their rows.
Run ==
    /\ pc = "run"
    /\ \E sent \in SUBSET prepared.queries \ {{}} :
         /\ ran' = ran \cup {<<prepared.tool, f, role>> : f \in sent}
         /\ \/ Reply(TRUE) /\ UNCHANGED shown
            \/ /\ sent = prepared.queries /\ \A f \in sent : IsValid(f)
               /\ IF prepared.tool \in Measures
                  THEN /\ \A f \in sent : IsCount(f)
                       /\ Proceed(prepared.cells \cup UNION {Counts(f) : f \in sent})
                  ELSE Proceed(prepared.cells \cup UNION {Masked(f) : f \in sent})
    /\ UNCHANGED <<environment, role, reachable, approved, accepted>>

-----------------------------------------------------------------------------
(* The environment *)

\* The dictionary goes away or comes back.
Flip ==
    /\ pc # "ended"
    /\ reachable' = ~reachable
    /\ UNCHANGED <<environment, role, pc, conversation, approved, accepted,
                   prepared, results>>

\* Approvals expire or are evicted.
Forget ==
    /\ pc # "ended"
    /\ \E f \in approved : approved' = approved \ {f}
    /\ UNCHANGED <<environment, role, reachable, pc, conversation, accepted,
                   prepared, results>>

Step ==
    \/ AskForTools \/ Finish \/ AnswerAtOnce \/ Derail \/ Validate
    \/ PrepareExecution \/ PrepareComparison \/ PrepareCatalog \/ PrepareMetric
    \/ GiveUp \/ Run

Next == Step \/ Flip \/ Forget

\* Completions and queries time out, so each step of a request is taken.
Spec == Init /\ [][Next]_vars /\ WF_vars(Step)

-----------------------------------------------------------------------------
(* Properties *)

\* Another object of the statement classifies the name as one the role may see.
ClearedElsewhere(o, n, tables) ==
    \E q \in tables \ {o} : Rank(q, n) # None /\ ~Exceeds(Rank(q, n))

\* No value reaches the language model unmasked that the role is not cleared for,
\* by what it looks like or by the classification of its column in the objects the
\* guard looked up: not by another name in a select list, not by a star that was left
\* because several objects or no dictionary were there, not by a change between
\* validation and execution.  Classification and masking go by name, though: a star
\* that is left and given other names escapes, and so does a name that two objects
\* of the statement classify differently, unless it is qualified.
NothingAboveClearanceLeaves ==
    \A cell \in shown : cell.raw =>
        /\ Contents[cell.column] <= Clearance[ChatRole]
        /\ \A o \in cell.from \cap cell.tables :
             Exceeds(Rank(o, cell.column)) =>
                 \/ cell.starred /\ cell.as # cell.column
                 \/ cell.of # o /\ ClearedElsewhere(o, cell.column, cell.tables)

\* "rewritten_safe_sql, the only text execute_readonly_sql will accept" (agent.py):
\* what validate_sql once returned is still accepted, and not rewritten again, as
\* long as its objects can be found.  Only a star that was left in an outage is
\* expanded when the dictionary is back, and its approval is of no use then; and a
\* filter or an aggregate that stood beside a star is lost with it, so that a large
\* table is refused the second time.
RewritingIsFinal ==
    \A f \in accepted : (\A o \in f.tables : Authorized(o)) =>
        /\ IsSafe(f)
        /\ LargeTablesAreFiltered(f) \/ f.beside # sql.beside
        /\ \/ Rewritten(f) = f
           \/ f.marks \cap Stars # {} /\ reachable

\* Whatever the model sends, and in whose name, the database is only sent queries
\* whose objects are allowed to the role of the process, but for those that share
\* their name with a subquery, and that name no column above its clearance, under
\* the caps of role and server.  Without raw access they have been accepted before,
\* or are the server's own, or count records - by an aggregate, unless it stood
\* beside a star that was expanded.
QueriesAreGuarded ==
    \A r \in ran :
        LET f == r[2] IN
        /\ r[3] = ChatRole
        /\ f.reading = "query" /\ f.marks \cap {"blocked", "remote"} = {}
        /\ f.tables # {} /\ f.tables \subseteq policy.allowed[ChatRole]
        /\ \A x \in f.columns, o \in f.tables :
             Exceeds(Rank(o, x.column)) =>
                 \/ x.of \in f.tables \ {o}
                 \/ x.of # o /\ ClearedElsewhere(o, x.column, f.tables)
        /\ f.limit <= RowCap[ChatRole] /\ f.limit <= ServerCap
        /\ \/ ChatRole \in RawRoles /\ r[1] \in {"execute", "compare"}
           \/ r[1] \in {"execute", "compare"} /\ f \in accepted
           \/ /\ r[1] \in Measures /\ IsAggregate(sql)
              /\ IsAggregate(f) \/ f.beside # sql.beside
           \/ r[1] \in {"catalog", "rule"}
        /\ r[1] = "compare" => ChatRole \in Reconcilers

\* Each completion is asked for with a conversation in which the tool calls of
\* every message are answered, each once and in order, before the next message,
\* whatever became of them: a model rejects any other.
EveryCallIsAnswered ==
    pc = "complete" =>
        \A k \in 1..Len(messages) :
            LET m == messages[k] IN
            /\ m.from = "assistant" => \A i \in 1..m.calls :
                 k + i <= Len(messages) /\ messages[k + i] = Told(i)
            /\ m.from = "tool" => \E j \in 1..k - 1 :
                 messages[j].from = "assistant" /\ k - j <= messages[j].calls

\* A request ends, whatever the model asks for.
RequestsEnd == <>(pc = "ended")
=============================================================================
