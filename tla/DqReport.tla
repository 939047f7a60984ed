------------------------------ MODULE DqReport ------------------------------
(***************************************************************************)
(* The life of a company run as its callers see it: start_dq_run hands out *)
(* an identifier, rule executions are recorded under it, get_dq_run_report *)
(* reads them back and email_dq_run_summary mails what it read             *)
(* (src/src/oracle_mcp/tools.py, dq.py, mail.py).                          *)
(*                                                                         *)
(* Executions are recorded by other calls, in one step each: DqRun shows   *)
(* that the persisting tool implements such a ledger.  A call is one tool  *)
(* invocation; a retry is another call.                                    *)
(***************************************************************************)
EXTENDS DqMetrics, FiniteSets, FiniteSetsExt

CONSTANTS
    Calls,          \* tool invocations
    Runs,           \* company run identifiers
    Rules,          \* rule identifiers, numbered in the order of RULE_ID
    Measured(_),    \* the counts [total, failed] an execution of a rule may find
    Caps,           \* the row limits of the roles (effective_max_rows)
    MaxRecords,     \* bound on the executions recorded
    None            \* no value

ASSUME RulesAssumption == Rules \subseteq Nat
ASSUME CapsAssumption == Caps \subseteq Nat \ {0}
ASSUME MeasuredAssumption ==
    \A u \in Rules : Measured(u) \subseteq
        {s \in [total : Nat, failed : Nat] : s.failed <= s.total}
ASSUME NoneAssumption == None \notin Runs

VARIABLES
    issued,     \* the run identifiers handed out or generated
    summary,    \* EIM_DQ_RECON_SUMMARY, committed
    pc,         \* where each call is
    args,       \* the arguments of each call
    before,     \* the rows of its run that were committed when a call began
    rows,       \* the rows each call has read
    overall,    \* the metrics of their sums
    mails,      \* what has been handed to a mail transport
    audit,      \* the audit records
    outcome     \* what each call answers

callVars == <<pc, args, before, rows, overall, outcome>>
vars == <<issued, summary, callVars, mails, audit>>

-----------------------------------------------------------------------------
(* Metrics *)

Severities == {"Critical", "High", "Medium", "Low"}

Metrics == [total : Nat, failed : Nat, percent : Percentages,
            pass : Percentages, severity : Severities]

\* calculate_metrics of valid counts.
MetricsOf(total, failed) ==
    {[total |-> total, failed |-> failed, percent |-> p, pass |-> q,
      severity |-> Severity(total, failed)] :
        p \in FailurePercentages(total, failed), q \in PassPercentages(total, failed)}

Sum(rs, field) == MapThenSumSet(LAMBDA r : r.score[field], rs)

\* Mutation: the passed records of the run are counted as its failed ones.
PassedOfRun(rs) == Sum(rs, "total") - Sum(rs, "failed")

FailedOfRun(rs) == Sum(rs, "failed")

\* The overall score of a report: the metrics of the summed counts.
OverallOf(rs) == MetricsOf(Sum(rs, "total"), FailedOfRun(rs))

-----------------------------------------------------------------------------
(* Types *)

Kinds == {"start", "report", "email"}

\* run is None when the caller gives no identifier or a malformed one.  The process
\* that serves a call has an audit sink which keeps every record, or one that may
\* lose some: it is "none", or its file or database fails at times.
Args == [kind : Kinds, run : Runs \cup {None}, cap : Caps, lossy : BOOLEAN]

Rows == [run : Runs, rule : Rules, score : Metrics]

Labels == {"new", "issue", "query", "audit", "compose", "send", "sent",
           "reply", "done", "lost"}

TypeOK ==
    /\ issued \subseteq Runs
    /\ summary \subseteq Rows
    /\ pc \in [Calls -> Labels]
    /\ args \in [Calls -> Args]
    /\ before \in [Calls -> SUBSET Rows]
    /\ rows \in [Calls -> SUBSET Rows]
    /\ overall \in [Calls -> Metrics \cup {None}]
    /\ \A m \in mails : m.call \in Calls /\ m.run \in Runs /\ m.rows \subseteq Rows
    /\ audit \subseteq [call : Calls, tool : Kinds,
                        status : {"SUCCESS", "ERROR"}, n : Nat]
    /\ outcome \in [Calls -> {"none", "OK", "ERROR", "RAISED"}]

-----------------------------------------------------------------------------
(* Helpers *)

Goto(c, label) == pc' = [pc EXCEPT ![c] = label]

Answer(c, status) ==
    /\ Goto(c, "reply")
    /\ outcome' = [outcome EXCEPT ![c] = status]

Recorded(c, tool, status, n) ==
    [call |-> c, tool |-> tool, status |-> status, n |-> n] \in audit

\* _audit swallows what goes wrong in the sink.
Record(c, tool, status, n) ==
    \/ audit' = audit \cup {[call |-> c, tool |-> tool, status |-> status, n |-> n]}
    \/ args[c].lossy /\ UNCHANGED audit

\* _handle: a ChatbotError is audited and answered.
Fail(c, tool) == Record(c, tool, "ERROR", 0) /\ Answer(c, "ERROR")

\* Any other exception passes the handler, and leaves no record.
Raise(c) == UNCHANGED audit /\ Answer(c, "RAISED")

RowsOf(run) == {s \in summary : s.run = run}

\* Mutation: the query has no ORDER BY and the row limit takes any rows.
AnyRows(rs, n) ==
    {s \in rs : Cardinality({t \in rs : t.rule > s.rule}) < n}

\* WHERE RUN_ID = :run_id ORDER BY RULE_ID under the row limit of the role.
FirstRows(rs, n) ==
    {s \in rs : Cardinality({t \in rs : t.rule < s.rule}) < n}

-----------------------------------------------------------------------------
(* Actions *)

Init ==
    /\ issued = {}
    /\ summary = {}
    /\ pc = [c \in Calls |-> "new"]
    /\ args \in [Calls -> Args]
    /\ before = [c \in Calls |-> {}]
    /\ rows = [c \in Calls |-> {}]
    /\ overall = [c \in Calls |-> None]
    /\ mails = {}
    /\ audit = {}
    /\ outcome = [c \in Calls |-> "none"]

\* A rule execution of another caller is committed, under a run that was handed
\* out, that the execution generates, or that the caller made up.
Execute(run, rule) ==
    /\ Cardinality(summary) < MaxRecords
    /\ \A s \in summary : s.run # run \/ s.rule # rule
    /\ \E n \in Measured(rule) : \E score \in MetricsOf(n.total, n.failed) :
         summary' = summary \cup {[run |-> run, rule |-> rule, score |-> score]}
    /\ issued' = issued \cup {run}
    /\ UNCHANGED <<callVars, mails, audit>>

\* before is what a report that begins now must not miss.
Begin(c) ==
    /\ pc[c] = "new"
    /\ before' = [before EXCEPT ![c] = RowsOf(args[c].run)]
    /\ Goto(c, IF args[c].kind = "start" THEN "issue" ELSE "query")
    /\ UNCHANGED <<issued, summary, args, rows, overall, mails, audit, outcome>>

\* An unknown role, a missing or malformed identifier, another summary table than
\* the governed one, SQL the guard rejects, a database that does not answer: the
\* report refuses in the name of get_dq_run_report, also inside the e-mail tool.
Refuse(c) ==
    /\ pc[c] \in {"issue", "query"}
    /\ Fail(c, IF pc[c] = "issue" THEN "start" ELSE "report")
    /\ UNCHANGED <<issued, summary, args, before, rows, overall, mails>>

\* start_dq_run: a new identifier.
Issue(c) ==
    /\ pc[c] = "issue"
    /\ \E run \in Runs \ issued :
         /\ issued' = issued \cup {run}
         /\ args' = [args EXCEPT ![c].run = run]
    /\ Record(c, "start", "SUCCESS", 0)
    /\ Answer(c, "OK")
    /\ UNCHANGED <<summary, before, rows, overall, mails>>

\* One query reads the rows of the run; a run without rows is refused.
Query(c) ==
    LET found == FirstRows(RowsOf(args[c].run), args[c].cap)
    IN  /\ pc[c] = "query"
        /\ args[c].run # None
        /\ found # {}
        /\ rows' = [rows EXCEPT ![c] = found]
        /\ \E score \in OverallOf(found) :
             overall' = [overall EXCEPT ![c] = score]
        /\ Goto(c, "audit")
        /\ UNCHANGED <<issued, summary, args, before, mails, audit, outcome>>

\* Mutation: the report read for a mail is not audited.
RecordReport(c) ==
    IF args[c].kind = "report"
    THEN Record(c, "report", "SUCCESS", Cardinality(rows[c]))
    ELSE UNCHANGED audit

AuditReport(c) == Record(c, "report", "SUCCESS", Cardinality(rows[c]))

\* get_dq_run_report ends: its caller is the client or email_dq_run_summary.
Report(c) ==
    /\ pc[c] = "audit"
    /\ AuditReport(c)
    /\ IF args[c].kind = "report" THEN Answer(c, "OK")
                                  ELSE Goto(c, "compose") /\ UNCHANGED outcome
    /\ UNCHANGED <<issued, summary, args, before, rows, overall, mails>>

\* The message is built from the report.  No recipient, a report that names the
\* detail table and no usable transport are ChatbotErrors; any other mark of a
\* detail row in the body is a ValueError (assert_summary_only_mail).
Compose(c) ==
    /\ pc[c] = "compose"
    /\ \/ Goto(c, "send") /\ UNCHANGED <<audit, outcome>>
       \/ Fail(c, "email")
       \/ Raise(c)
    /\ UNCHANGED <<issued, summary, args, before, rows, overall, mails>>

Deliver(c) ==
    mails' = mails \cup {[call |-> c, run |-> args[c].run, rows |-> rows[c],
                          overall |-> overall[c]]}

\* The transport takes the message and says so; or it fails before or after it
\* took the message: with a MailDeliveryError, or, when sendmail or Mail.app does
\* not end in time, with an exception nobody catches.
Send(c) ==
    /\ pc[c] = "send"
    /\ \/ Deliver(c) /\ Goto(c, "sent") /\ UNCHANGED <<audit, outcome>>
       \/ /\ Deliver(c) \/ UNCHANGED mails
          /\ Fail(c, "email") \/ Raise(c)
    /\ UNCHANGED <<issued, summary, args, before, rows, overall>>

AuditMail(c) ==
    /\ pc[c] = "sent"
    /\ Record(c, "email", "SUCCESS", Cardinality(rows[c]))
    /\ Answer(c, "OK")
    /\ UNCHANGED <<issued, summary, args, before, rows, overall, mails>>

Reply(c) ==
    /\ pc[c] = "reply"
    /\ Goto(c, "done")
    /\ UNCHANGED <<issued, summary, args, before, rows, overall, mails, audit,
                   outcome>>

Crash(c) ==
    /\ pc[c] \notin {"new", "done", "lost"}
    /\ Goto(c, "lost")
    /\ UNCHANGED <<issued, summary, args, before, rows, overall, mails, audit,
                   outcome>>

Step(c) ==
    \/ Begin(c) \/ Refuse(c) \/ Issue(c) \/ Query(c) \/ Report(c)
    \/ Compose(c) \/ Send(c) \/ AuditMail(c) \/ Reply(c)

Next ==
    \/ \E run \in Runs, rule \in Rules : Execute(run, rule)
    \/ \E c \in Calls : Step(c) \/ Crash(c)

Spec == Init /\ [][Next]_vars

-----------------------------------------------------------------------------
(* Properties *)

\* "Load every persisted rule for one company DQ run": a report holds committed
\* executions only, and every one that was committed when the call began, although
\* executions are recorded meanwhile.  Only the row limit of the role leaves some
\* out, those of the last rules; nothing in the answer tells that it did.
ReportMissesNothing ==
    \A c \in Calls :
        /\ rows[c] \subseteq RowsOf(args[c].run)
        /\ rows[c] # {} => \A s \in before[c] \ rows[c] :
             /\ Cardinality(rows[c]) = args[c].cap
             /\ \A r \in rows[c] : r.rule < s.rule

\* A mail says what the report of the same call said, and an e-mail call is answered
\* OK only when its mail was handed over.  The audit may lack what the sink lost, but
\* tells no other story: a sink that keeps its records has the report behind every
\* mail and the mail behind every success, no record tells of a mail that was not
\* sent, or of a refused report when one was.
MailsAreAccountedFor ==
    /\ \A m \in mails :
         /\ m.rows = rows[m.call] /\ m.rows # {} /\ m.run = args[m.call].run
         /\ \/ args[m.call].lossy
            \/ Recorded(m.call, "report", "SUCCESS", Cardinality(m.rows))
    /\ \A c \in Calls :
         pc[c] = "done" /\ args[c].kind = "email" /\ outcome[c] = "OK" =>
            \E m \in mails :
              /\ m.call = c
              /\ args[c].lossy \/ Recorded(c, "email", "SUCCESS", Cardinality(m.rows))
    /\ \A r \in audit :
         /\ r.tool = "email" /\ r.status = "SUCCESS" =>
              \E m \in mails : m.call = r.call /\ Cardinality(m.rows) = r.n
         /\ r.tool = "report" /\ r.status = "ERROR" => \A m \in mails : m.call # r.call

\* The overall score of a report lies between those of its rules, in percentage
\* and in severity, although it is rounded on its own and populations differ in
\* size; an exact half, which may be rounded either way, can take it one hundredth
\* beyond.
Rank(score) == CASE score.severity = "Low"    -> 0
                 [] score.severity = "Medium" -> 1
                 [] score.severity = "High"   -> 2
                 [] OTHER                     -> 3

Slack(score) ==
    IF score.total > 0 /\ (2 * score.failed * 10000) % score.total = 0 THEN 1 ELSE 0

OverallIsBetween ==
    \A c \in Calls : rows[c] # {} =>
        LET all == overall[c]
        IN  /\ \E r \in rows[c] : /\ r.score.percent <= all.percent + Slack(all)
                                  /\ Rank(r.score) <= Rank(all)
            /\ \E r \in rows[c] : /\ r.score.percent >= all.percent - Slack(all)
                                  /\ Rank(r.score) >= Rank(all)

\* The scores the executions stored.
Scores == {s.score : s \in summary}

Distance(a, b) == IF a < b THEN b - a ELSE a - b

\* round(failed / total * 100, 2) is a multiple of a hundredth at most half a
\* hundredth away (calculate_metrics), within what CK_EIM_DQ_RECON_PCT and
\* NUMBER(7,2) accept.
PercentageIsNearest ==
    \A s \in Scores :
        /\ s.percent \in Percentages
        /\ 2 * Distance(s.percent * s.total, s.failed * 10000) <= s.total

\* The two percentages of a score add up to 100, although each is rounded on
\* its own: they miss it by one hundredth only when both fall on a half.
PercentagesAddUp ==
    \A s \in Scores :
        \/ s.percent + s.pass = 10000
        \/ Distance(s.percent + s.pass, 10000) = 1 /\ Slack(s) = 1

\* The severity written next to a rounded percentage is the band of that
\* percentage (docs/data-quality-framework.md, "Severity boundaries"), except
\* for a percentage that was rounded onto a boundary.
Band(p) ==
    CASE p > 1000 -> "Critical"
      [] p \in 500..1000 -> "High"
      [] p \in 100..499 -> "Medium"
      [] OTHER -> "Low"

SeverityIsTheBand ==
    \A s \in Scores :
        \/ s.severity = Band(s.percent)
        \/ s.percent \in {100, 500, 1000} /\ s.percent * s.total # s.failed * 10000
=============================================================================
