---------------------------- MODULE DqRunProofs ----------------------------
(***************************************************************************)
(* Proofs about DqRun for every value of its constants: type correctness,  *)
(* the transaction's all-or-nothing and the agreement of answer and audit. *)
(***************************************************************************)
EXTENDS DqRun, SequenceTheorems, TLAPS

-----------------------------------------------------------------------------
(* Which action changes which variables *)

StreamStep(c) == OpenDetails(c) \/ StreamDetail(c) \/ EndOfDetails(c)
TxnStep(c) == InsertSummary(c) \/ StreamDetail(c) \/ EndOfDetails(c)
TxnEnd(c) == Commit(c) \/ Rollback(c) \/ Crash(c)

\* No step touches more of the state than its part of the code does.
LEMMA Frame ==
    ASSUME [Next]_vars
    PROVE  /\ UNCHANGED args
           /\ \/ UNCHANGED environment
              \/ \E r \in Rules : SourceChanges(r) \/ CatalogChanges(r)
              \/ Tick
           /\ \/ UNCHANGED counts
              \/ \E c \in Calls : ReadTotal(c) \/ ReadFailed(c)
           /\ \/ UNCHANGED result
              \/ \E c \in Calls : ReadPersisted(c) \/ ReadLocal(c)
           /\ \/ UNCHANGED streaming
              \/ \E c \in Calls : StreamStep(c) \/ Rollback(c) \/ Crash(c)
           /\ \/ UNCHANGED txn
              \/ \E c \in Calls : TxnStep(c) \/ TxnEnd(c)
           /\ UNCHANGED store \/ \E c \in Calls : Commit(c)
           /\ UNCHANGED history \/ \E c \in Calls : AppendHistory(c) \/ Crash(c)
           /\ UNCHANGED audit \/ \E c \in Calls : Audit(c)
<1> USE DEF Next, Step, vars, environment, store, streaming, StreamStep,
            TxnStep, TxnEnd
<1>1. UNCHANGED args
  BY ZenonT(60) DEF Refuse, CheckActive, ReadTotal, ReadFailed, ReadPersisted, ReadLocal,
         AcquireWriter, InsertSummary, OpenDetails, StreamDetail, EndOfDetails,
         WriteFails, Commit, Rollback, AppendHistory, Audit, Reply, Crash,
         SourceChanges, CatalogChanges, Tick
<1>2. \/ UNCHANGED environment
      \/ \E r \in Rules : SourceChanges(r) \/ CatalogChanges(r)
      \/ Tick
  <2>1. ASSUME NEW c \in Calls, Step(c)
        PROVE  UNCHANGED environment
    BY <2>1 DEF Refuse, CheckActive, ReadTotal, ReadFailed, ReadPersisted,
         ReadLocal, AcquireWriter, InsertSummary, OpenDetails, StreamDetail,
         EndOfDetails, WriteFails, Commit, Rollback, AppendHistory, Audit, Reply
  <2>2. ASSUME NEW c \in Calls, Crash(c)
        PROVE  UNCHANGED environment
    BY <2>2 DEF Crash
  <2> QED
    BY <2>1, <2>2
<1>3. \/ UNCHANGED counts
      \/ \E c \in Calls : ReadTotal(c) \/ ReadFailed(c)
  BY ZenonT(60) DEF Refuse, CheckActive, ReadPersisted, ReadLocal,
         AcquireWriter, InsertSummary, OpenDetails, StreamDetail, EndOfDetails,
         WriteFails, Commit, Rollback, AppendHistory, Audit, Reply, Crash,
         SourceChanges, CatalogChanges, Tick
<1>4. \/ UNCHANGED result
      \/ \E c \in Calls : ReadPersisted(c) \/ ReadLocal(c)
  BY ZenonT(60) DEF Refuse, CheckActive, ReadTotal, ReadFailed,
         AcquireWriter, InsertSummary, OpenDetails, StreamDetail, EndOfDetails,
         WriteFails, Commit, Rollback, AppendHistory, Audit, Reply, Crash,
         SourceChanges, CatalogChanges, Tick
<1>5. \/ UNCHANGED streaming
      \/ \E c \in Calls : StreamStep(c) \/ Rollback(c) \/ Crash(c)
  BY ZenonT(60) DEF Refuse, CheckActive, ReadTotal, ReadFailed, ReadPersisted, ReadLocal,
         AcquireWriter, InsertSummary, WriteFails, Commit, AppendHistory,
         Audit, Reply, SourceChanges, CatalogChanges, Tick
<1>6. \/ UNCHANGED txn
      \/ \E c \in Calls : TxnStep(c) \/ TxnEnd(c)
  BY ZenonT(60) DEF Refuse, CheckActive, ReadTotal, ReadFailed, ReadPersisted, ReadLocal,
         AcquireWriter, OpenDetails, WriteFails, AppendHistory, Audit, Reply,
         SourceChanges, CatalogChanges, Tick
<1>7. UNCHANGED store \/ \E c \in Calls : Commit(c)
  BY ZenonT(60) DEF Refuse, CheckActive, ReadTotal, ReadFailed, ReadPersisted, ReadLocal,
         AcquireWriter, InsertSummary, OpenDetails, StreamDetail, EndOfDetails,
         WriteFails, Rollback, AppendHistory, Audit, Reply, Crash,
         SourceChanges, CatalogChanges, Tick
<1>8. UNCHANGED history \/ \E c \in Calls : AppendHistory(c) \/ Crash(c)
  BY ZenonT(60) DEF Refuse, CheckActive, ReadTotal, ReadFailed, ReadPersisted, ReadLocal,
         AcquireWriter, InsertSummary, OpenDetails, StreamDetail, EndOfDetails,
         WriteFails, Commit, Rollback, Audit, Reply,
         SourceChanges, CatalogChanges, Tick
<1>9. UNCHANGED audit \/ \E c \in Calls : Audit(c)
  BY DEF Refuse, CheckActive, ReadTotal, ReadFailed, ReadPersisted, ReadLocal,
         AcquireWriter, InsertSummary, OpenDetails, StreamDetail, EndOfDetails,
         WriteFails, Commit, Rollback, AppendHistory, Reply, Crash,
         SourceChanges, CatalogChanges, Tick
<1> QED
  BY <1>1, <1>2, <1>3, <1>4, <1>5, <1>6, <1>7, <1>8, <1>9
-----------------------------------------------------------------------------
(* Type correctness *)

\* TypeOK alone is not inductive.  The first sequence number of a batch is a
\* natural number only because a batch never holds more details than the loop
\* of persist has counted (persistence.py) ...
BatchIsCounted == \A c \in Calls : batch[c] <= count[c]

\* ... and the row a call inserts or appends is a result record only because
\* the call has built its own result by then (tools.py).
IsResultOf(r, c) ==
    /\ r \in Results
    /\ r.call = c /\ r.rule = args[c].rule /\ r.failed = counts[c].failed
    /\ IF args[c].kind = "persist"
       THEN r.run = args[c].run /\ r.pop = args[c].pop
       ELSE r.pop = None

ResultIsBuilt ==
    \A c \in Calls :
        pc[c] \in {"acquire", "insert", "open", "stream", "commit", "append"}
        => IsResultOf(result[c], c)

TypeInv == TypeOK /\ BatchIsCounted /\ ResultIsBuilt

\* BuildResult stores a result record of call c (calculate_metrics, trend_from
\* and the result dictionaries of tools.py).
LEMMA BuiltResult ==
    ASSUME TypeOK, NEW c \in Calls, NEW base \in Results \cup {None},
           BuildResult(c, base)
    PROVE  \E r : IsResultOf(r, c) /\ result' = [result EXCEPT ![c] = r]
<1> DEFINE a == args[c]
<1> DEFINE built(p) ==
        [call    |-> c,
         run     |-> IF a.kind = "persist" THEN a.run ELSE None,
         rule    |-> a.rule,
         pop     |-> IF a.kind = "persist" THEN a.pop ELSE None,
         total   |-> counts[c].total,
         failed  |-> counts[c].failed,
         percent |-> p,
         base    |-> IF base = None THEN None ELSE base.call,
         trend   |-> IF base = None THEN "BASELINE"
                     ELSE TrendFrom(p, base.percent),
         at      |-> clock]
<1>1. PICK p \in Percentages : result' = [result EXCEPT ![c] = built(p)]
  BY DEF BuildResult
<1>2. a \in Args /\ counts[c] \in [total : Nat, failed : Nat] /\ clock \in Nat
  BY ClockAssumption
     DEF TypeOK, EnvironmentType, ControlType, ReadType
<1>3. base # None => base.call \in Calls
  BY DEF Results
<1>4. (IF base = None THEN "BASELINE" ELSE TrendFrom(p, base.percent))
        \in TrendStatuses
  BY DEF TrendFrom, TrendStatuses
<1>5. built(p) \in Results
  BY <1>2, <1>3, <1>4 DEF Results, Args
<1>6. IsResultOf(built(p), c)
  BY <1>5 DEF IsResultOf
<1> QED
  BY <1>1, <1>6

LEMMA NumberedType ==
    ASSUME TypeOK, NEW c \in Calls, NEW n \in Nat, NEW m \in Nat
    PROVE  Numbered(c, n, m) \subseteq Details
BY DEF TypeOK, ControlType, Args, Numbered, Details

LEMMA InitType == Init => TypeInv
<1> SUFFICES ASSUME Init PROVE TypeInv
  OBVIOUS
<1> USE DEF Init
<1>1. EnvironmentType
  BY ClockAssumption DEF EnvironmentType
<1>2. ControlType
  BY DEF ControlType, Before
<1>3. ReadType /\ StreamType
  BY DEF ReadType, StreamType
<1>4. RowsType
  BY DEF RowsType, NoRows
<1> QED
  BY <1>1, <1>2, <1>3, <1>4
     DEF TypeInv, TypeOK, BatchIsCounted, ResultIsBuilt

LEMMA EnvironmentStep ==
    ASSUME EnvironmentType, [Next]_vars PROVE EnvironmentType'
<1> USE DEF EnvironmentType
<1>1. CASE UNCHANGED environment
  BY <1>1 DEF environment
<1>2. ASSUME NEW r \in Rules, SourceChanges(r) PROVE EnvironmentType'
  BY <1>2, ClockAssumption DEF SourceChanges
<1>3. ASSUME NEW r \in Rules, CatalogChanges(r) PROVE EnvironmentType'
  BY <1>3, ClockAssumption DEF CatalogChanges
<1>4. CASE Tick
  BY <1>4, ClockAssumption DEF Tick
<1> QED
  BY <1>1, <1>2, <1>3, <1>4, Frame

\* Control moves between the labels of the call, one call at a time.
LEMMA ControlStep == ASSUME ControlType, [Next]_vars PROVE ControlType'
<1> USE DEF ControlType, Before, Writing, After, Goto, Fail, Raise, Succeed, GoOn,
            StatusOf, Record
<1>1. UNCHANGED args
  BY Frame
<1>2. ASSUME NEW c \in Calls,
             \/ Refuse(c) \/ CheckActive(c) \/ ReadTotal(c) \/ ReadFailed(c)
             \/ ReadPersisted(c) \/ ReadLocal(c)
      PROVE  ControlType'
  BY <1>1, <1>2 DEF Refuse, CheckActive, ReadTotal, ReadFailed, ReadPersisted,
                    ReadLocal
<1>3. ASSUME NEW c \in Calls,
             \/ AcquireWriter(c) \/ InsertSummary(c) \/ OpenDetails(c)
             \/ StreamDetail(c) \/ EndOfDetails(c) \/ WriteFails(c)
      PROVE  ControlType'
  BY <1>1, <1>3 DEF AcquireWriter, InsertSummary, OpenDetails, StreamDetail,
                    EndOfDetails, WriteFails
<1>4. ASSUME NEW c \in Calls,
             \/ Commit(c) \/ Rollback(c) \/ AppendHistory(c) \/ Audit(c)
             \/ Reply(c) \/ Crash(c)
      PROVE  ControlType'
  BY <1>1, <1>4 DEF Commit, Rollback, Rethrow, AppendHistory, Audit, Reply,
                    Crash
<1>5. CASE \E r \in Rules : SourceChanges(r) \/ CatalogChanges(r)
  BY <1>1, <1>5 DEF SourceChanges, CatalogChanges
<1>6. CASE Tick
  BY <1>1, <1>6 DEF Tick
<1>7. CASE UNCHANGED vars
  BY <1>7 DEF vars
<1> QED
  BY <1>2, <1>3, <1>4, <1>5, <1>6, <1>7 DEF Next, Step

LEMMA ReadStep == ASSUME TypeOK, [Next]_vars PROVE ReadType'
<1> USE DEF ReadType
<1>1. counts' \in [Calls -> [total : Nat, failed : Nat]]
  <2>1. CASE UNCHANGED counts
    BY <2>1 DEF TypeOK
  <2>2. ASSUME NEW c \in Calls
        PROVE  source[args[c].rule] \in [total : Nat, failed : Nat]
    BY SourceAssumption DEF TypeOK, EnvironmentType, ControlType, Args
  <2>3. ASSUME NEW c \in Calls, ReadTotal(c) \/ ReadFailed(c)
        PROVE  counts' \in [Calls -> [total : Nat, failed : Nat]]
    BY <2>2, <2>3 DEF ReadTotal, ReadFailed, TypeOK
  <2> QED
    BY <2>1, <2>3, Frame
<1>2. result' \in [Calls -> Results \cup {None}]
  <2>1. CASE UNCHANGED result
    BY <2>1 DEF TypeOK
  <2>2. ASSUME NEW c \in Calls, NEW base \in Results \cup {None},
               BuildResult(c, base)
        PROVE  result' \in [Calls -> Results \cup {None}]
    BY <2>2, BuiltResult DEF IsResultOf, TypeOK
  <2>3. ASSUME NEW c \in Calls, ReadPersisted(c), ~UNCHANGED result
        PROVE  \E base \in Results \cup {None} : BuildResult(c, base)
    BY <2>3 DEF ReadPersisted, Newest, Earlier, TypeOK, RowsType
  <2>4. ASSUME NEW c \in Calls, ReadLocal(c), ~UNCHANGED result
        PROVE  \E base \in Results \cup {None} : BuildResult(c, base)
    BY <2>4 DEF ReadLocal, TypeOK, RowsType
  <2> QED
    BY <2>1, <2>2, <2>3, <2>4, Frame
<1> QED
  BY <1>1, <1>2

\* The stream's counters stay natural numbers, and a batch within the count.
LEMMA StreamTypeStep ==
    ASSUME TypeOK, BatchIsCounted, [Next]_vars
    PROVE  StreamType' /\ BatchIsCounted'
<1> USE DEF StreamType, BatchIsCounted
<1> StreamType
  BY DEF TypeOK
<1>1. CASE UNCHANGED streaming
  BY <1>1 DEF streaming
<1>2. ASSUME NEW c \in Calls, OpenDetails(c)
      PROVE  StreamType' /\ BatchIsCounted'
  <2>1. source[args[c].rule].failed \in Nat
    BY SourceAssumption DEF TypeOK, EnvironmentType, ControlType, Args
  <2> QED
    BY <1>2, <2>1 DEF OpenDetails
<1>3. ASSUME NEW c \in Calls, StreamDetail(c)
      PROVE  StreamType' /\ BatchIsCounted'
  BY <1>3 DEF StreamDetail, HasMore
<1>4. ASSUME NEW c \in Calls, EndOfDetails(c)
      PROVE  StreamType' /\ BatchIsCounted'
  BY <1>4 DEF EndOfDetails
<1>5. ASSUME NEW c \in Calls, Rollback(c) \/ Crash(c)
      PROVE  StreamType' /\ BatchIsCounted'
  BY <1>5 DEF Rollback, Crash, ForgetStream
<1> QED
  BY <1>1, <1>2, <1>3, <1>4, <1>5, Frame DEF StreamStep

\* Writing to the history file adds what is written, or spoils a line: every other
\* line was there before (dq.py, DqHistory.append).
LEMMA LinesExtended ==
    ASSUME RowsType, NEW text \in Results \cup {None}, NEW complete \in BOOLEAN,
           NEW decodes \in BOOLEAN, WriteLine(text, complete, decodes)
    PROVE  /\ history' \in [lines : Seq(Results \cup {None}), open : BOOLEAN,
                           decodes : BOOLEAN]
           /\ \A i \in DOMAIN history'.lines :
                \/ i \in DOMAIN history.lines
                   /\ history'.lines[i] = history.lines[i]
                \/ history'.lines[i] \in {text, None}
<1> DEFINE lines == history.lines
<1>1. /\ lines \in Seq(Results \cup {None}) /\ history.open \in BOOLEAN
      /\ history.decodes \in BOOLEAN
  BY DEF RowsType
<1>2. history' = [lines |-> Extended(text), open |-> ~complete,
                  decodes |-> history.decodes /\ decodes]
  BY DEF WriteLine
<1>3. CASE history.open
  <2>1. history'.lines = [lines EXCEPT ![Len(lines)] = None]
    BY <1>2, <1>3 DEF Extended
  <2>2. DOMAIN history'.lines = DOMAIN lines
    BY <2>1
  <2>3. history'.lines \in Seq(Results \cup {None})
    <3>1. CASE Len(lines) \in 1..Len(lines)
      BY <1>1, <2>1, <3>1, ExceptSeq
    <3>2. CASE Len(lines) \notin 1..Len(lines)
      <4>1. lines = [i \in 1..Len(lines) |-> lines[i]]
        BY <1>1
      <4>2. [lines EXCEPT ![Len(lines)] = None]
              = [i \in 1..Len(lines) |-> lines[i]]
        BY <3>2, <4>1
      <4> QED
        BY <1>1, <2>1, <4>1, <4>2
    <3> QED
      BY <3>1, <3>2
  <2> QED
    BY <1>1, <1>2, <2>1, <2>2, <2>3
<1>4. CASE ~history.open
  <2>1. history'.lines = Append(lines, text)
    BY <1>2, <1>4 DEF Extended
  <2> QED
    BY <1>1, <1>2, <2>1, SMTT(30)
<1> QED
  BY <1>3, <1>4

\* The rows a call inserts, commits and appends are result records.
LEMMA RowsStep == ASSUME TypeInv, [Next]_vars PROVE RowsType'
<1> USE DEF RowsType
<1> TypeOK
  BY DEF TypeInv
<1>1. ASSUME NEW c \in Calls,
             pc[c] \in {"insert", "open", "stream", "commit", "append"}
      PROVE  result[c] \in Results
  BY <1>1 DEF TypeInv, ResultIsBuilt, IsResultOf
<1>2. txn' \in [Calls -> [summary : SUBSET Results, details : SUBSET Details]]
  <2>1. CASE UNCHANGED txn
    BY <2>1 DEF TypeOK
  <2>2. ASSUME NEW c \in Calls, InsertSummary(c), ~UNCHANGED txn
        PROVE  txn' \in [Calls -> [summary : SUBSET Results,
                                   details : SUBSET Details]]
    BY <1>1, <2>2 DEF InsertSummary, TypeOK
  <2>3. ASSUME NEW c \in Calls, NEW n \in Nat, NEW m \in Nat, n <= m,
               Flush(c, n, m)
        PROVE  txn' \in [Calls -> [summary : SUBSET Results,
                                   details : SUBSET Details]]
    <3>1. Numbered(c, m - n, m) \subseteq Details
      BY <2>3, NumberedType
    <3> QED
      BY <2>3, <3>1 DEF Flush, TypeOK
  <2>4. ASSUME NEW c \in Calls, StreamDetail(c), ~UNCHANGED txn
        PROVE  Flush(c, batch[c] + 1, count[c] + 1)
    BY <2>4 DEF StreamDetail
  <2>5. ASSUME NEW c \in Calls, EndOfDetails(c)
        PROVE  Flush(c, batch[c], count[c])
    BY <2>5 DEF EndOfDetails, LastBatch
  <2>6. ASSUME NEW c \in Calls, TxnEnd(c), ~UNCHANGED txn
        PROVE  txn' = [txn EXCEPT ![c] = NoRows]
    BY <2>6 DEF TxnEnd, Commit, Publish, Rollback, Undo, Crash
  <2>7. ASSUME NEW c \in Calls, txn' = [txn EXCEPT ![c] = NoRows]
        PROVE  txn' \in [Calls -> [summary : SUBSET Results,
                                   details : SUBSET Details]]
    BY <2>7 DEF NoRows, TypeOK
  <2>8. ASSUME NEW c \in Calls
        PROVE  /\ batch[c] \in Nat /\ count[c] \in Nat
               /\ batch[c] <= count[c]
    BY DEF TypeInv, TypeOK, StreamType, BatchIsCounted
  <2>9. ASSUME NEW c \in Calls, StreamDetail(c) \/ EndOfDetails(c),
               ~UNCHANGED txn
        PROVE  txn' \in [Calls -> [summary : SUBSET Results,
                                   details : SUBSET Details]]
    BY <2>3, <2>4, <2>5, <2>8, <2>9
  <2> QED
    BY <2>1, <2>2, <2>6, <2>7, <2>9, Frame DEF TxnStep
<1>3. summary' \subseteq Results /\ details' \subseteq Details
  BY Frame DEF store, Commit, Publish, TypeOK
<1>4. history' \in [lines : Seq(Results \cup {None}), open : BOOLEAN,
                    decodes : BOOLEAN]
  <2>1. ASSUME NEW c \in Calls, AppendHistory(c) \/ Crash(c), ~UNCHANGED history
        PROVE  history' \in [lines : Seq(Results \cup {None}), open : BOOLEAN,
                             decodes : BOOLEAN]
    <3>1. pc[c] = "append"
      BY <2>1 DEF AppendHistory, Crash, MayCutShort
    <3>2. result[c] \in Results
      BY <1>1, <3>1
    <3>3. PICK text \in Results \cup {None}, complete \in BOOLEAN,
               decodes \in BOOLEAN : WriteLine(text, complete, decodes)
      BY <2>1, <3>1, <3>2 DEF AppendHistory, Crash, MayCutShort,
                                   CutShort
    <3> QED
      BY <3>3, LinesExtended DEF TypeOK
  <2> QED
    BY <2>1, Frame DEF TypeOK
<1> QED
  BY <1>2, <1>3, <1>4

\* A call that is about to write holds its own result, and nothing in it or in
\* the counts it was computed from changes any more.
LEMMA BuiltStep == ASSUME TypeInv, [Next]_vars PROVE ResultIsBuilt'
<1> SUFFICES ASSUME NEW c \in Calls,
                    pc'[c] \in {"acquire", "insert", "open", "stream",
                                "commit", "append"}
             PROVE  IsResultOf(result[c], c)'
  BY DEF ResultIsBuilt
<1> TypeOK
  BY DEF TypeInv
<1>1. UNCHANGED args
  BY Frame
<1>2. ASSUME NEW r, IsResultOf(r, c), result'[c] = r, counts'[c] = counts[c]
      PROVE  IsResultOf(result[c], c)'
  BY <1>1, <1>2 DEF IsResultOf
<1>3. ASSUME NEW d \in Calls, ReadPersisted(d) \/ ReadLocal(d),
             d = c
      PROVE  IsResultOf(result[c], c)'
  <2>1. \E base \in Results \cup {None} : BuildResult(c, base)
    <3>1. CASE ReadPersisted(c)
      BY <3>1 DEF ReadPersisted, Goto, Newest, Earlier, TypeOK, RowsType,
                  ControlType
    <3>2. CASE ReadLocal(c)
      BY <3>2 DEF ReadLocal, Raise, Goto, TypeOK, RowsType, ControlType
    <3> QED
      BY <1>3, <3>1, <3>2
  <2>2. UNCHANGED counts
    BY <1>3 DEF ReadPersisted, ReadLocal
  <2>3. PICK r : IsResultOf(r, c) /\ result' = [result EXCEPT ![c] = r]
    BY <2>1, BuiltResult
  <2> QED
    BY <1>2, <2>2, <2>3 DEF TypeOK, ReadType
<1>4. ASSUME pc[c] \in {"acquire", "insert", "open", "stream", "commit",
                        "append"}
      PROVE  counts'[c] = counts[c] /\ result'[c] = result[c]
  BY <1>4, Frame DEF ReadTotal, ReadFailed, ReadPersisted, ReadLocal,
                     BuildResult, TypeOK, ReadType
<1>5. \/ pc[c] \in {"acquire", "insert", "open", "stream", "commit", "append"}
      \/ ReadPersisted(c) \/ ReadLocal(c)
  <2> USE DEF TypeOK, ControlType, Goto, Fail, Raise, Succeed, GoOn
  <2>1. CASE pc'[c] = pc[c]
    BY <2>1
  <2>2. ASSUME NEW d \in Calls, Step(d) \/ Crash(d), d # c
        PROVE  pc'[c] = pc[c]
    BY <2>2 DEF Step, Refuse, CheckActive, ReadTotal, ReadFailed,
                ReadPersisted, ReadLocal, AcquireWriter, InsertSummary,
                OpenDetails, StreamDetail, EndOfDetails, WriteFails, Commit,
                Rollback, Rethrow, AppendHistory, Audit, Reply, Crash
  <2>3. ASSUME Step(c) \/ Crash(c), ~ReadPersisted(c), ~ReadLocal(c)
        PROVE  pc[c] \in {"acquire", "insert", "open", "stream", "commit",
                          "append"}
    BY <2>3 DEF Step, Refuse, CheckActive, ReadTotal, ReadFailed,
                AcquireWriter, InsertSummary,
                OpenDetails, StreamDetail, EndOfDetails, WriteFails, Commit,
                Rollback, Rethrow, AppendHistory, Audit, Reply, Crash
  <2>4. ASSUME NEW r \in Rules, SourceChanges(r) \/ CatalogChanges(r)
        PROVE  pc'[c] = pc[c]
    BY <2>4 DEF SourceChanges, CatalogChanges
  <2> QED
    BY <2>1, <2>2, <2>3, <2>4 DEF Next, Tick, vars
<1> QED
  BY <1>2, <1>3, <1>4, <1>5 DEF TypeInv, ResultIsBuilt

LEMMA NextType == TypeInv /\ [Next]_vars => TypeInv'
BY EnvironmentStep, ControlStep, ReadStep, StreamTypeStep, RowsStep, BuiltStep
   DEF TypeInv, TypeOK

LEMMA TypeAlways == Spec => []TypeInv
BY InitType, NextType, PTL DEF Spec

\* Every variable always has its type, whatever the calls, crashes and changes
\* of the source data (all the code the module models).
THEOREM TypeCorrect == Spec => []TypeOK
<1>1. TypeInv => TypeOK
  BY DEF TypeInv
<1> QED
  BY <1>1, TypeAlways, PTL

\* A call is one thread: what another call or the world does leaves its state
\* alone.
LEMMA OtherCalls ==
    ASSUME TypeOK, [Next]_vars, NEW c \in Calls, ~Step(c), ~Crash(c)
    PROVE  /\ pc'[c] = pc[c] /\ counts'[c] = counts[c]
           /\ result'[c] = result[c] /\ cursor'[c] = cursor[c]
           /\ count'[c] = count[c] /\ batch'[c] = batch[c] /\ txn'[c] = txn[c]
           /\ audit'[c] = audit[c] /\ outcome'[c] = outcome[c]
<1> DEFINE Same == /\ pc'[c] = pc[c] /\ counts'[c] = counts[c]
                   /\ result'[c] = result[c] /\ cursor'[c] = cursor[c]
                   /\ count'[c] = count[c] /\ batch'[c] = batch[c] /\ txn'[c] = txn[c]
                   /\ audit'[c] = audit[c] /\ outcome'[c] = outcome[c]
<1>1. ASSUME NEW d \in Calls \ {c}, Step(d) \/ Crash(d) PROVE Same
  <2> USE DEF TypeOK, ControlType, ReadType, StreamType, RowsType
  <2> USE DEF Goto, Fail, Raise, Succeed, GoOn, Record, streaming
  <2>1. CASE Refuse(d) \/ CheckActive(d) \/ ReadTotal(d) \/ ReadFailed(d)
    BY <2>1 DEF Refuse, CheckActive, ReadTotal, ReadFailed
  <2>2. CASE ReadPersisted(d) \/ ReadLocal(d)
    BY <2>2 DEF ReadPersisted, ReadLocal, BuildResult
  <2>3. CASE AcquireWriter(d) \/ InsertSummary(d) \/ OpenDetails(d)
    BY <2>3 DEF AcquireWriter, InsertSummary, OpenDetails
  <2>4. CASE StreamDetail(d) \/ EndOfDetails(d) \/ WriteFails(d)
    BY <2>4 DEF StreamDetail, EndOfDetails, Flush, WriteFails
  <2>5. CASE Commit(d) \/ Rollback(d) \/ Crash(d)
    BY <2>5 DEF Commit, Publish, Rollback, Undo, Rethrow, ForgetStream, Crash
  <2>6. CASE AppendHistory(d) \/ Audit(d) \/ Reply(d)
    BY <2>6 DEF AppendHistory, Audit, Reply
  <2> QED
    BY <1>1, <2>1, <2>2, <2>3, <2>4, <2>5, <2>6 DEF Step
<1>2. CASE \/ \E r \in Rules : SourceChanges(r) \/ CatalogChanges(r)
           \/ Tick \/ UNCHANGED vars
  BY <1>2 DEF SourceChanges, CatalogChanges, Tick, vars, streaming
<1> QED
  BY <1>1, <1>2 DEF Next

-----------------------------------------------------------------------------
(* Control: who writes, what was answered, what was audited *)

\* Only the persisting tool reaches the repository (tools.py).
WritersPersist ==
    \A c \in Calls :
        pc[c] \in {"previous", "acquire"} \cup Writing
        => args[c].kind = "persist"

\* The outcome is decided on the way to the audit, and the audit says the same.
AnswerState ==
    \A c \in Calls :
        /\ outcome[c] # "none" => pc[c] \in {"audit", "reply", "done", "lost"}
        /\ outcome[c] = "none" => pc[c] \notin {"audit", "reply", "done"}
        /\ pc[c] = "audit" => outcome[c] # "RAISED"
        /\ audit[c] # "none" => pc[c] \in {"reply", "done", "lost"}
        /\ audit[c] = "SUCCESS" => outcome[c] = "OK"
        /\ pc[c] \in {"reply", "done"} =>
             \/ outcome[c] # "RAISED" /\ audit[c] = StatusOf(outcome[c])
             \/ audit[c] = "none" /\ (outcome[c] = "RAISED" \/ SinkMayFail)

ControlInv == WritersPersist /\ AnswerState

LEMMA InitControl == Init => ControlInv
BY DEF Init, ControlInv, WritersPersist, AnswerState, Writing

LEMMA NextControl == TypeInv /\ ControlInv /\ [Next]_vars => ControlInv'
<1> SUFFICES ASSUME TypeInv, ControlInv, [Next]_vars, NEW c \in Calls
             PROVE  WritersPersist!(c)' /\ AnswerState!(c)'
  BY DEF ControlInv, WritersPersist, AnswerState
<1> TypeOK /\ ControlType
  BY DEF TypeInv, TypeOK
<1>1. args'[c] = args[c]
  BY Frame
<1>2. WritersPersist!(c) /\ AnswerState!(c)
  BY DEF ControlInv, WritersPersist, AnswerState
<1> DEFINE Kept == WritersPersist!(c)' /\ AnswerState!(c)'
<1> USE DEF Writing, Goto, Fail, Raise, Succeed, GoOn, Record, StatusOf
<1>3. CASE \/ Refuse(c) \/ CheckActive(c) \/ ReadTotal(c) \/ ReadFailed(c)
           \/ ReadPersisted(c) \/ ReadLocal(c)
  BY <1>1, <1>2, <1>3 DEF Refuse, CheckActive, ReadTotal, ReadFailed,
                          ReadPersisted, ReadLocal, ControlType
<1>4. CASE \/ AcquireWriter(c) \/ InsertSummary(c) \/ OpenDetails(c)
           \/ StreamDetail(c) \/ EndOfDetails(c) \/ WriteFails(c)
  BY <1>1, <1>2, <1>4 DEF AcquireWriter, InsertSummary, OpenDetails,
                          StreamDetail, EndOfDetails, WriteFails, ControlType
<1>5. CASE Commit(c) \/ Rollback(c) \/ Crash(c)
  BY <1>1, <1>2, <1>5 DEF Commit, Rollback, Rethrow, Crash, ControlType
<1>6. CASE AppendHistory(c) \/ Audit(c) \/ Reply(c)
  BY <1>1, <1>2, <1>6 DEF AppendHistory, Audit, Reply, ControlType
<1>7. CASE ~Step(c) /\ ~Crash(c)
  BY <1>1, <1>2, <1>7, OtherCalls
<1> QED
  BY <1>3, <1>4, <1>5, <1>6, <1>7 DEF Step

-----------------------------------------------------------------------------
(* The transaction *)

\* The key of an open transaction is its call's, is nowhere in the table, and
\* in no other open transaction: the primary key of EIM_DQ_RECON_SUMMARY.
OpenKeys ==
    \A c \in Calls : \A s \in txn[c].summary :
        /\ SameKey(s, args[c])
        /\ \A t \in summary : ~SameKey(s, t)
        /\ \A d \in Calls \ {c} : \A t \in txn[d].summary : ~SameKey(s, t)

\* What a transaction holds at each point of persist.
TxnState ==
    \A c \in Calls :
        /\ pc[c] \notin {"open", "stream", "commit", "rollback"} =>
             txn[c] = NoRows
        /\ pc[c] \in {"open", "stream", "commit"} =>
             txn[c].summary = {result[c]}
        /\ pc[c] \in Before \cup {"acquire", "insert", "open"} =>
             count[c] = 0 /\ batch[c] = 0
        /\ pc[c] = "open" => txn[c].details = {}
        /\ pc[c] \in {"stream", "commit"} =>
             /\ count[c] <= MaxDetails
             /\ txn[c].details = Numbered(c, 0, count[c] - batch[c])
        /\ pc[c] = "commit" => batch[c] = 0 /\ count[c] = counts[c].failed

\* What the tables hold.
StoreState ==
    /\ WholeRunOrNothing
    /\ \A s, t \in summary : SameKey(s, t) => s = t
    /\ \A s \in summary : s.failed <= MaxDetails

TxnInv == OpenKeys /\ TxnState /\ StoreState

\* The INSERT of a summary row waits for, and then refuses, a key in use.
LEMMA NextOpenKeys ==
    ASSUME TypeInv, ControlInv, OpenKeys, [Next]_vars
    PROVE  OpenKeys'
<1> RowsType /\ UNCHANGED args
  BY Frame DEF TypeInv, TypeOK
<1> USE DEF OpenKeys, SameKey
<1>1. CASE /\ UNCHANGED summary
           /\ \A d \in Calls : txn'[d].summary \subseteq txn[d].summary
  BY <1>1
<1>2. ASSUME NEW c \in Calls, InsertSummary(c) PROVE OpenKeys'
  <2>1. CASE UNCHANGED txn
    BY <1>2, <2>1 DEF InsertSummary, store
  <2>2. CASE /\ ~KeyIsTaken(c)
             /\ txn' = [txn EXCEPT ![c].summary = {result[c]}]
    <3>1. pc[c] = "insert" /\ ~KeyIsLocked(c) /\ UNCHANGED summary
      BY <1>2 DEF InsertSummary, store
    <3>2. SameKey(result[c], args[c])
      BY <3>1 DEF TypeInv, ResultIsBuilt, IsResultOf, ControlInv,
                  WritersPersist, Writing
    <3> QED
      BY <2>2, <3>1, <3>2 DEF RowsType, KeyIsTaken, KeyIsLocked
  <2> QED
    BY <1>2, <2>1, <2>2 DEF InsertSummary
<1>3. ASSUME NEW c \in Calls, Commit(c) PROVE OpenKeys'
  <2>1. CASE Publish(c)
    BY <2>1 DEF Publish, RowsType, NoRows
  <2>2. CASE UNCHANGED <<store, txn>>
    BY <2>2 DEF store
  <2> QED
    BY <1>3, <2>1, <2>2 DEF Commit
<1>4. ASSUME NEW c \in Calls,
             \/ StreamDetail(c) \/ EndOfDetails(c) \/ Rollback(c) \/ Crash(c)
      PROVE  \A d \in Calls : txn'[d].summary \subseteq txn[d].summary
  BY <1>4 DEF StreamDetail, EndOfDetails, Flush, Rollback, Undo, Crash, NoRows,
              RowsType
<1>5. UNCHANGED summary \/ \E c \in Calls : Commit(c)
  BY Frame DEF store
<1> QED
  BY <1>1, <1>2, <1>3, <1>4, <1>5, Frame DEF TxnStep, TxnEnd

LEMMA NumberedJoin ==
    ASSUME NEW c \in Calls, NEW n \in Nat, NEW m \in Nat, n <= m
    PROVE  /\ Numbered(c, 0, n) \cup Numbered(c, n, m) = Numbered(c, 0, m)
           /\ Numbered(c, 0, 0) = {}
BY DEF Numbered

LEMMA NumberedSequences ==
    ASSUME NEW c \in Calls, NEW n \in Nat
    PROVE  {d.seq : d \in Numbered(c, 0, n)} = 1..n
<1> DEFINE row(i) == [run |-> args[c].run, rule |-> args[c].rule, seq |-> i]
<1>1. Numbered(c, 0, n) = {row(i) : i \in 1..n}
  BY DEF Numbered
<1>2. \A i : row(i).seq = i
  OBVIOUS
<1> HIDE DEF row
<1> QED
  BY <1>1, <1>2

\* What the steps of persist leave in their transaction.
LEMMA NextTxnState ==
    ASSUME TypeInv, ControlInv, TxnState, [Next]_vars
    PROVE  TxnState'
<1> SUFFICES ASSUME NEW c \in Calls PROVE TxnState!(c)'
  BY DEF TxnState
<1>1. args'[c] = args[c]
  BY Frame
<1>2. TxnState!(c)
  BY DEF TxnState
<1>3. \A n, m : Numbered(c, n, m)' = Numbered(c, n, m)
  BY <1>1 DEF Numbered
<1>4. /\ ControlType /\ ReadType /\ StreamType /\ RowsType
      /\ count[c] \in Nat /\ batch[c] \in Nat /\ batch[c] <= count[c]
  BY DEF TypeInv, TypeOK, StreamType, BatchIsCounted
<1> USE DEF Before, Goto, Fail, Raise, Succeed, GoOn
<1>5. CASE \/ Refuse(c) \/ CheckActive(c) \/ ReadTotal(c) \/ ReadFailed(c)
           \/ ReadPersisted(c) \/ ReadLocal(c) \/ AcquireWriter(c)
  BY <1>2, <1>3, <1>4, <1>5
     DEF Refuse, CheckActive, ReadTotal, ReadFailed, ReadPersisted, ReadLocal,
         AcquireWriter, BuildResult, ControlType, ReadType, streaming
<1>6. CASE InsertSummary(c)
  BY <1>2, <1>3, <1>4, <1>6
     DEF InsertSummary, ControlType, RowsType, NoRows, streaming
<1>7. CASE OpenDetails(c)
  <2>1. /\ count[c] = 0 /\ batch[c] = 0 /\ txn[c].details = {}
        /\ txn[c].summary = {result[c]} /\ pc'[c] = "stream"
        /\ UNCHANGED <<count, batch, txn, result>>
    BY <1>2, <1>4, <1>7, SMTT(30) DEF OpenDetails, ControlType
  <2>2. Numbered(c, 0, count[c] - batch[c]) = {}
    BY <2>1, NumberedJoin
  <2> QED
    BY <2>1, <2>2, <1>3, DetailsAssumption, SMTT(30)
<1>8. CASE StreamDetail(c)
  <2> DEFINE n == count[c] + 1
  <2> DEFINE b == batch[c] + 1
  <2>1. /\ pc[c] = "stream" /\ UNCHANGED result /\ UNCHANGED counts
        /\ count' = [count EXCEPT ![c] = n]
    BY <1>8 DEF StreamDetail
  <2>2. CASE pc' = [pc EXCEPT ![c] = "rollback"]
    BY <2>1, <2>2, <1>4 DEF ControlType
  <2>3. CASE /\ WithinLimit(n) /\ batch' = [batch EXCEPT ![c] = b]
             /\ UNCHANGED <<pc, txn>>
    <3>1. n - b = count[c] - batch[c]
      BY <1>4
    <3> QED
      BY <2>1, <2>3, <3>1, <1>2, <1>3, <1>4 DEF StreamType, WithinLimit
  <2>4. CASE /\ WithinLimit(n) /\ batch' = [batch EXCEPT ![c] = 0]
             /\ Flush(c, b, n) /\ UNCHANGED pc
    <3>1. n - b \in Nat /\ n \in Nat /\ n - b <= n
          /\ n - b = count[c] - batch[c] /\ n - 0 = n
      BY <1>4
    <3>2. txn'[c].details = Numbered(c, 0, n)
      BY <2>1, <2>4, <3>1, <1>2, <1>4, NumberedJoin DEF Flush, RowsType
    <3>3. txn'[c].summary = txn[c].summary
      BY <2>4, <1>4 DEF Flush, RowsType
    <3> QED
      BY <2>1, <2>4, <3>1, <3>2, <3>3, <1>2, <1>3, <1>4
         DEF StreamType, WithinLimit
  <2> QED
    BY <1>8, <2>2, <2>3, <2>4 DEF StreamDetail
<1>9. CASE EndOfDetails(c)
  <2> DEFINE n == count[c]
  <2>1. /\ pc[c] = "stream" /\ UNCHANGED <<result, counts, count>>
        /\ batch' = [batch EXCEPT ![c] = 0] /\ Flush(c, batch[c], n)
        /\ pc' = [pc EXCEPT ![c] = IF n = counts[c].failed THEN "commit"
                                                           ELSE "rollback"]
    BY <1>9 DEF EndOfDetails, LastBatch
  <2>2. txn'[c].details = Numbered(c, 0, n)
    <3>1. n - batch[c] \in Nat /\ n - batch[c] <= n /\ n \in Nat
      BY <1>4
    <3> QED
      BY <2>1, <3>1, <1>2, <1>4, NumberedJoin DEF Flush, RowsType
  <2>3. txn'[c].summary = txn[c].summary
    BY <2>1, <1>4 DEF Flush, RowsType
  <2>4. n - 0 = n
    BY <1>4
  <2> QED
    BY <2>1, <2>2, <2>3, <2>4, <1>2, <1>3, <1>4 DEF ControlType, StreamType
<1>10. CASE WriteFails(c)
  BY <1>2, <1>4, <1>10 DEF WriteFails, ControlType
<1>11. CASE Commit(c)
  BY <1>2, <1>4, <1>11 DEF Commit, Publish, ControlType, RowsType
<1>12. CASE Rollback(c) \/ Crash(c)
  BY <1>4, <1>12 DEF Rollback, Undo, Rethrow, Crash, ControlType, RowsType
<1>13. CASE AppendHistory(c) \/ Audit(c) \/ Reply(c)
  BY <1>2, <1>4, <1>13 DEF AppendHistory, Audit, Reply, ControlType
<1>14. CASE ~Step(c) /\ ~Crash(c)
  BY <1>2, <1>3, <1>14, OtherCalls DEF TypeInv
<1> QED
  BY <1>5, <1>6, <1>7, <1>8, <1>9, <1>10, <1>11, <1>12, <1>13, <1>14 DEF Step

\* COMMIT adds one summary row with a key of its own, together with exactly as
\* many numbered details as its FAILED_RECORDS; nothing else alters the tables.
LEMMA CommitEffect ==
    ASSUME TypeInv, ControlInv, TxnInv, NEW c \in Calls, Commit(c),
           ~UNCHANGED store
    PROVE  /\ summary' = summary \cup {result[c]}
           /\ details' = details \cup Numbered(c, 0, result[c].failed)
           /\ SameKey(result[c], args[c])
           /\ IsResultOf(result[c], c)
           /\ count[c] = result[c].failed
           /\ result[c].failed \in 0..MaxDetails
           /\ \A t \in summary : ~SameKey(result[c], t)
<1>1. Publish(c) /\ pc[c] = "commit"
  BY DEF Commit, store
<1>2. /\ txn[c].summary = {result[c]}
      /\ txn[c].details = Numbered(c, 0, count[c] - batch[c])
      /\ batch[c] = 0 /\ count[c] = counts[c].failed /\ count[c] <= MaxDetails
  BY <1>1 DEF TxnInv, TxnState
<1>3. IsResultOf(result[c], c) /\ args[c].kind = "persist"
  BY <1>1 DEF TypeInv, ResultIsBuilt, ControlInv, WritersPersist, Writing
<1>4. count[c] \in Nat /\ count[c] - batch[c] = result[c].failed
  BY <1>2, <1>3 DEF TypeInv, TypeOK, StreamType, IsResultOf
<1>5. SameKey(result[c], args[c])
  BY <1>3 DEF SameKey, IsResultOf
<1>6. \A t \in summary : ~SameKey(result[c], t)
  BY <1>2 DEF TxnInv, OpenKeys
<1> QED
  BY <1>1, <1>2, <1>3, <1>4, <1>5, <1>6, DetailsAssumption
     DEF Publish, IsResultOf

\* The details of the rows already committed stay as they are.
LEMMA SequencesKept ==
    ASSUME TypeInv, ControlInv, TxnInv, [Next]_vars
    PROVE  \A s \in summary : s \in summary' /\ Sequences(s)' = Sequences(s)
<1>1. CASE UNCHANGED store
  BY <1>1 DEF store, Sequences
<1>2. ASSUME NEW c \in Calls, Commit(c), ~UNCHANGED store,
             NEW s \in summary
      PROVE  s \in summary' /\ Sequences(s)' = Sequences(s)
  BY <1>2, CommitEffect DEF Sequences, Numbered, SameKey
<1> QED
  BY <1>1, <1>2, Frame

LEMMA NextStoreState ==
    ASSUME TypeInv, ControlInv, TxnInv, [Next]_vars
    PROVE  StoreState'
<1> USE DEF StoreState, WholeRunOrNothing
<1> StoreState
  BY DEF TxnInv
<1>1. CASE UNCHANGED store
  BY <1>1 DEF store, Sequences
<1>2. ASSUME NEW c \in Calls, Commit(c), ~UNCHANGED store PROVE StoreState'
  <2>1. PICK r :
            /\ summary' = summary \cup {r}
            /\ details' = details \cup Numbered(c, 0, r.failed)
            /\ SameKey(r, args[c])
            /\ r.failed \in 0..MaxDetails
            /\ \A t \in summary : ~SameKey(r, t)
    BY <1>2, CommitEffect
  <2>2. \A d \in details : ~SameKey(d, r)
    BY <2>1 DEF SameKey
  <2>3. \A d \in Numbered(c, 0, r.failed) : SameKey(d, r)
    BY <2>1 DEF Numbered, SameKey
  <2>4. Sequences(r)' = {d.seq : d \in Numbered(c, 0, r.failed)}
    <3>1. {x \in details' : SameKey(x, r)} = Numbered(c, 0, r.failed)
      BY <2>1, <2>2, <2>3
    <3> QED
      BY <3>1 DEF Sequences
  <2>5. {d.seq : d \in Numbered(c, 0, r.failed)} = 1..r.failed
    BY <2>1, NumberedSequences
  <2>6. \A s \in summary : Sequences(s)' = 1..s.failed
    BY <1>2, SequencesKept
  <2>7. \A s \in summary' : Sequences(s)' = 1..s.failed
    BY <2>1, <2>4, <2>5, <2>6
  <2>8. \A d \in details' : \E s \in summary' : SameKey(s, d)
    BY <2>1, <2>3 DEF SameKey
  <2>9. \A s, t \in summary' : SameKey(s, t) => s = t
    BY <2>1 DEF SameKey
  <2> QED
    BY <2>1, <2>7, <2>8, <2>9 DEF SameKey
<1> QED
  BY <1>1, <1>2, Frame

LEMMA InitTxn == Init => TxnInv
BY DEF Init, TxnInv, OpenKeys, TxnState, StoreState, WholeRunOrNothing, NoRows

LEMMA NextTxn == TypeInv /\ ControlInv /\ TxnInv /\ [Next]_vars => TxnInv'
BY NextOpenKeys, NextTxnState, NextStoreState DEF TxnInv

CoreInv == TypeInv /\ ControlInv /\ TxnInv

LEMMA CoreAlways == Spec => []CoreInv
<1>1. Init => CoreInv
  BY InitType, InitControl, InitTxn DEF CoreInv
<1>2. CoreInv /\ [Next]_vars => CoreInv'
  BY NextType, NextControl, NextTxn DEF CoreInv
<1> QED
  BY <1>1, <1>2, PTL DEF Spec

\* persist stores a complete execution or nothing, for any batch size, hard
\* limit, source and interleaving of any number of calls (persistence.py).
THEOREM RunsAreWhole == Spec => []WholeRunOrNothing
<1>1. CoreInv => WholeRunOrNothing
  BY DEF CoreInv, TxnInv, StoreState
<1> QED
  BY <1>1, CoreAlways, PTL

\* The audit record of a call states the answer the call gives, a call that raises
\* leaves none, and no answered call lacks its record unless the sink may lose it
\* (tools.py, _handle and _audit).
THEOREM AnswersMatchAudits == Spec => []AnswerMatchesAudit
<1>1. CoreInv => AnswerMatchesAudit
  BY DEF CoreInv, ControlInv, AnswerState, AnswerMatchesAudit
<1> QED
  BY <1>1, CoreAlways, PTL
\* The call whose transaction holds a key somebody waits for is never itself
\* waiting, nor gone: the duplicate INSERT (persistence.py) cannot deadlock.
THEOREM HoldersAlwaysGoOn == Spec => []HoldersGoOn
<1>1. CoreInv => HoldersGoOn
  BY DEF CoreInv, TxnInv, TxnState, HoldersGoOn, NoRows
<1> QED
  BY <1>1, CoreAlways, PTL

-----------------------------------------------------------------------------
(* Progress *)

LEMMA StepsForward ==
    ASSUME TypeOK, [Next]_vars, NEW c \in Calls, Locals(c)' # Locals(c)
    PROVE  \/ Stage[pc'[c]] > Stage[pc[c]]
           \/ pc'[c] = pc[c] /\ cursor'[c] < cursor[c]
<1>1. ControlType /\ StreamType /\ UNCHANGED args
  BY Frame DEF TypeOK
<1> USE DEF Stage, Goto, Fail, Raise, Succeed, GoOn
<1>2. CASE Refuse(c) \/ CheckActive(c) \/ ReadTotal(c)
  BY <1>1, <1>2 DEF Refuse, CheckActive, ReadTotal, ControlType
<1>3. CASE ReadFailed(c) \/ ReadPersisted(c) \/ ReadLocal(c)
  BY <1>1, <1>3 DEF ReadFailed, ReadPersisted, ReadLocal, ControlType
<1>4. CASE AcquireWriter(c) \/ InsertSummary(c) \/ OpenDetails(c) \/ WriteFails(c)
  BY <1>1, <1>4 DEF AcquireWriter, InsertSummary, OpenDetails, WriteFails, ControlType
<1>5. CASE StreamDetail(c)
  <2>1. cursor[c] \in Nat /\ cursor'[c] = cursor[c] - 1 /\ pc[c] = "stream"
    BY <1>1, <1>5 DEF StreamDetail, StreamType
  <2>2. pc'[c] \in {"stream", "rollback"}
    BY <1>1, <1>5 DEF StreamDetail, ControlType
  <2> QED
    BY <2>1, <2>2
<1>6. CASE EndOfDetails(c) \/ Commit(c) \/ Rollback(c)
  BY <1>1, <1>6 DEF EndOfDetails, Commit, Rollback, Rethrow, ControlType
<1>7. CASE AppendHistory(c) \/ Audit(c) \/ Reply(c)
  <2>1. \/ pc[c] = "append" /\ pc'[c] = "audit"
        \/ pc[c] = "append" /\ pc'[c] = "reply"
        \/ pc[c] = "audit" /\ pc'[c] = "reply"
        \/ pc[c] = "reply" /\ pc'[c] = "done"
    BY <1>1, <1>7 DEF AppendHistory, Audit, Reply, ControlType
  <2> QED
    BY <2>1
<1>8. CASE Crash(c)
  BY <1>1, <1>8 DEF Crash, ControlType, Before, Writing, After
<1>9. CASE ~Step(c) /\ ~Crash(c)
  BY <1>1, <1>9, OtherCalls DEF Locals
<1> QED
  BY <1>2, <1>3, <1>4, <1>5, <1>6, <1>7, <1>8, <1>9 DEF Step

\* A call passes each stage at most once and its detail stream only runs dry,
\* whatever the others do: with HoldersAlwaysGoOn, the part of CallsEnd that is
\* not about fairness (tools.py, persistence.py).
THEOREM CallsGoForward == Spec => OnlyForward
<1>1. TypeOK /\ [Next]_vars =>
        [\A c \in Calls : Locals(c)' # Locals(c) =>
            \/ Stage[pc'[c]] > Stage[pc[c]]
            \/ pc'[c] = pc[c] /\ cursor'[c] < cursor[c]]_vars
  BY StepsForward
<1> QED
  BY <1>1, TypeCorrect, PTL DEF Spec, OnlyForward
=============================================================================
