--------------------------- MODULE DqLedgerProofs ---------------------------
(***************************************************************************)
(* More proofs about DqRun, on the invariant of DqRunProofs: a success is  *)
(* durable, the local history follows the database and loses no more than  *)
(* its torn lines, the stored baselines are like for like, and the         *)
(* persisted tool implements the ledger.                                   *)
(***************************************************************************)
EXTENDS DqRunProofs, FiniteSetTheorems

-----------------------------------------------------------------------------
(* What is durable *)

DurableInv ==
    \A c \in Calls :
        args[c].kind = "persist" /\ (pc[c] = "append" \/ outcome[c] = "OK") =>
            /\ result[c] \in summary
            /\ result[c].call = c
            /\ pc[c] # "lost" => count[c] = result[c].failed

LEMMA NextDurable == CoreInv /\ DurableInv /\ [Next]_vars => DurableInv'
<1> SUFFICES ASSUME CoreInv, DurableInv, [Next]_vars, NEW c \in Calls
             PROVE  DurableInv!(c)'
  BY DEF DurableInv
<1>1. TypeInv /\ ControlInv /\ TxnInv
  BY DEF CoreInv
<1>2. /\ ControlType /\ ReadType /\ StreamType
      /\ args'[c] = args[c] /\ summary \subseteq summary'
      /\ DurableInv!(c) /\ WritersPersist!(c) /\ AnswerState!(c)
  BY <1>1, Frame, SequencesKept
     DEF TypeInv, TypeOK, DurableInv, ControlInv, WritersPersist, AnswerState
<1> USE DEF Goto, Fail, Raise, Succeed, GoOn
<1>3. CASE \/ Refuse(c) \/ CheckActive(c) \/ ReadTotal(c) \/ ReadFailed(c)
           \/ ReadPersisted(c) \/ ReadLocal(c) \/ AcquireWriter(c)
  BY <1>2, <1>3
     DEF Refuse, CheckActive, ReadTotal, ReadFailed, ReadPersisted, ReadLocal,
         AcquireWriter, ControlType
<1>4. CASE \/ InsertSummary(c) \/ OpenDetails(c) \/ StreamDetail(c)
           \/ EndOfDetails(c) \/ WriteFails(c) \/ Rollback(c)
  BY <1>2, <1>4
     DEF InsertSummary, OpenDetails, StreamDetail, EndOfDetails, WriteFails,
         Rollback, Rethrow, ControlType
<1>5. CASE Commit(c)
  <2>1. CASE pc' = [pc EXCEPT ![c] = "rollback"]
    BY <1>2, <1>5, <2>1 DEF Commit, ControlType
  <2>2. CASE Publish(c)
    <3>1. CASE UNCHANGED store
      <4>1. txn[c].summary = {result[c]} /\ pc[c] = "commit"
        BY <1>1, <1>5 DEF Commit, TxnInv, TxnState
      <4>2. result[c] \in summary
        BY <2>2, <3>1, <4>1 DEF Publish, store
      <4> QED
        BY <1>1, <4>1, <4>2 DEF TxnInv, OpenKeys, SameKey
    <3>2. CASE ~UNCHANGED store
      <4>1. /\ summary' = summary \cup {result[c]}
            /\ IsResultOf(result[c], c) /\ count[c] = result[c].failed
        BY <1>1, <1>5, <3>2, CommitEffect
      <4>2. UNCHANGED <<result, count>>
        BY <1>5 DEF Commit, streaming
      <4> QED
        BY <4>1, <4>2 DEF IsResultOf
    <3> QED
      BY <3>1, <3>2
  <2> QED
    BY <1>5, <2>1, <2>2 DEF Commit
<1>6. CASE AppendHistory(c) \/ Audit(c) \/ Reply(c)
  BY <1>2, <1>6 DEF AppendHistory, Audit, Reply, streaming, store, ControlType
<1>7. CASE Crash(c)
  BY <1>2, <1>7 DEF Crash, store, ControlType
<1>8. CASE ~Step(c) /\ ~Crash(c)
  BY <1>1, <1>2, <1>8, OtherCalls DEF TypeInv
<1> QED
  BY <1>3, <1>4, <1>5, <1>6, <1>7, <1>8 DEF Step

LEMMA DurableAlways == Spec => [](CoreInv /\ DurableInv)
<1>1. Init => DurableInv
  BY DEF Init, DurableInv
<1> QED
  BY <1>1, NextDurable, CoreAlways, PTL DEF Spec

\* What was audited or answered as a success is in the tables, complete, for
\* any number of calls, crashes and retries (tools.py, persistence.py).
THEOREM SuccessesAreDurable == Spec => []SuccessIsDurable
<1>1. CoreInv /\ DurableInv => SuccessIsDurable
  BY DEF CoreInv, TypeInv, ControlInv, AnswerState, TxnInv, StoreState,
         WholeRunOrNothing, DurableInv, SuccessIsDurable
<1> QED
  BY <1>1, DurableAlways, PTL

\* The history file never names a persisted execution the database lacks,
\* although it is written after the commit and by any number of calls
\* (dq.py, DqHistory.append).
THEOREM HistoryIsBehindDatabase == Spec => []HistoryFollowsDatabase
<1>1. Init => HistoryFollowsDatabase
  BY DEF Init, HistoryFollowsDatabase
<1>2. CoreInv /\ DurableInv /\ HistoryFollowsDatabase /\ [Next]_vars
        => HistoryFollowsDatabase'
  <2> SUFFICES ASSUME CoreInv, DurableInv, HistoryFollowsDatabase, [Next]_vars
               PROVE  HistoryFollowsDatabase'
    OBVIOUS
  <2>1. summary \subseteq summary'
    BY SequencesKept DEF CoreInv, TypeInv, TypeOK, RowsType
  <2>2. CASE UNCHANGED history
    BY <2>1, <2>2 DEF HistoryFollowsDatabase
  <2>3. ASSUME NEW c \in Calls, AppendHistory(c) \/ Crash(c), ~UNCHANGED history
        PROVE  HistoryFollowsDatabase'
    <3>1. pc[c] = "append"
      BY <2>3 DEF AppendHistory, Crash, MayCutShort
    <3>2. result[c] \in Results
          /\ (result[c].pop # None => result[c] \in summary)
      BY <3>1 DEF CoreInv, TypeInv, TypeOK, ControlType, Args, Kinds,
                  ResultIsBuilt, IsResultOf, DurableInv
    <3>3. PICK text \in {None, result[c]}, complete \in BOOLEAN,
               decodes \in BOOLEAN : WriteLine(text, complete, decodes)
      BY <2>3, <3>1 DEF AppendHistory, Crash, MayCutShort,
                                   CutShort
    <3>4. \A i \in DOMAIN history'.lines :
            \/ i \in DOMAIN history.lines
               /\ history'.lines[i] = history.lines[i]
            \/ history'.lines[i] \in {text, None}
      BY <3>2, <3>3, LinesExtended DEF CoreInv, TypeInv, TypeOK
    <3> QED
      BY <2>1, <3>2, <3>4 DEF HistoryFollowsDatabase
  <2> QED
    BY <2>2, <2>3, Frame
<1> QED
  BY <1>1, <1>2, DurableAlways, PTL DEF Spec

-----------------------------------------------------------------------------
(* Torn lines *)

\* The previews that were answered.
Answered == {c \in Calls : args[c].kind = "preview" /\ outcome[c] = "OK"}

\* A line of the file parses and is the record r.
InFile(r) == \E i \in DOMAIN history.lines : history.lines[i] = r

\* The answered previews that are not in the file.
Lost == {c \in Answered : ~InFile(result[c])}

\* The line a torn write may still go on.
LastLine == Len(history.lines)

\* The lines that do not parse and that nothing will be written behind any more.
Spoiled == {i \in DOMAIN history.lines :
              history.lines[i] = None /\ ~(history.open /\ i = LastLine)}

\* Each answered preview that is lost has a spoiled line of its own.  The record
\* on a line that lacks its newline, the next victim, is of no answered preview:
\* an answer comes after a whole line only, so a torn line can take no answered
\* record with it but the one written behind it.
LinesInv ==
    /\ history.open => history.lines # <<>>
    /\ \A c \in Answered : result[c].call = c
    /\ history.open /\ history.lines[LastLine] # None =>
         \A c \in Answered : result[c] # history.lines[LastLine]
    /\ IsFiniteSet(Lost)
    /\ Cardinality(Lost) <= Cardinality(Spoiled)

\* The sets that are counted are finite: they are sets of lines.
LEMMA SpoiledIsFinite ==
    ASSUME RowsType
    PROVE  /\ IsFiniteSet(Spoiled) /\ Cardinality(Spoiled) \in Nat
           /\ LastLine \in Nat /\ DOMAIN history.lines = 1..LastLine
<1>1. history.lines \in Seq(Results \cup {None})
  BY DEF RowsType
<1>2. LastLine \in Nat /\ DOMAIN history.lines = 1..LastLine
  BY <1>1 DEF LastLine
<1>3. IsFiniteSet(1..LastLine)
  BY <1>2, FS_Interval
<1>4. Spoiled \in SUBSET (1..LastLine)
  BY <1>2 DEF Spoiled
<1> QED
  BY <1>2, <1>3, <1>4, FS_Subset, FS_CardinalityType

\* What one write does: it completes the last line or leaves it open, spoils it
\* when it was open, and can take no other record out of the file than the one there.
LEMMA LinesWritten ==
    ASSUME RowsType, history.open => history.lines # <<>>,
           NEW text \in Results \cup {None}, NEW complete \in BOOLEAN,
           NEW decodes \in BOOLEAN, WriteLine(text, complete, decodes)
    PROVE  /\ history'.open = ~complete /\ history'.lines # <<>>
           /\ Spoiled \subseteq Spoiled'
           /\ history.open /\ complete => LastLine \in Spoiled' \ Spoiled
           /\ \A r : InFile(r) =>
                \/ InFile(r)'
                \/ history.open /\ r = history.lines[LastLine] /\ r # None
           /\ ~history.open => InFile(text)'
           /\ ~complete => history'.lines[LastLine'] \in {text, None}
<1> DEFINE lines == history.lines
           n == Len(history.lines)
<1>1. lines \in Seq(Results \cup {None}) /\ n \in Nat /\ DOMAIN lines = 1..n
  BY DEF RowsType
<1>2. history' = [lines |-> Extended(text), open |-> ~complete,
                  decodes |-> history.decodes /\ decodes]
  BY DEF WriteLine
<1>3. history'.lines = Extended(text) /\ history'.open = ~complete
  BY <1>2
<1>4. CASE history.open
  <2>1. n \in 1..n
    BY <1>1, <1>4
  <2>2. history'.lines = [lines EXCEPT ![n] = None]
    BY <1>3, <1>4 DEF Extended
  <2>3. /\ DOMAIN history'.lines = 1..n /\ history'.lines[n] = None
        /\ \A i \in 1..n : i # n => history'.lines[i] = lines[i]
    BY <1>1, <2>1, <2>2
  <2>4. history'.lines \in Seq(Results \cup {None}) /\ Len(history'.lines) = n
    BY <1>1, <2>1, <2>2, ExceptSeq
  <2>5. LastLine = n /\ LastLine' = n /\ history'.lines # <<>>
    BY <2>1, <2>3, <2>4 DEF LastLine
  <2>6. ASSUME NEW i \in Spoiled PROVE i \in Spoiled'
    <3>1. i \in 1..n /\ i # n /\ lines[i] = None
      BY <1>1, <1>4, <2>5 DEF Spoiled
    <3>2. i \in DOMAIN history'.lines /\ history'.lines[i] = None
      BY <2>3, <3>1
    <3> QED
      BY <2>5, <3>1, <3>2 DEF Spoiled
  <2>7. complete => LastLine \in Spoiled' \ Spoiled
    BY <1>3, <1>4, <2>1, <2>3, <2>5 DEF Spoiled
  <2>8. ASSUME NEW r, InFile(r), r = history.lines[LastLine] => r = None
        PROVE  InFile(r)'
    BY <1>1, <2>1, <2>3, <2>5, <2>8 DEF InFile
  <2>9. history'.lines[LastLine'] = None
    BY <2>3, <2>5
  <2> HIDE DEF lines, n
  <2> QED
    BY <1>3, <1>4, <2>5, <2>6, <2>7, <2>8, <2>9
<1>5. CASE ~history.open
  <2>1. history'.lines = Append(lines, text)
    BY <1>3, <1>5 DEF Extended
  <2>2. /\ DOMAIN history'.lines = 1..(n + 1) /\ history'.lines[n + 1] = text
        /\ Len(history'.lines) = n + 1
        /\ \A i \in 1..n : history'.lines[i] = lines[i]
    BY <1>1, <2>1
  <2> QED
    BY <1>1, <1>3, <1>5, <2>2 DEF Spoiled, LastLine, InFile
<1> QED
  BY <1>4, <1>5

\* While no answered preview is lost, the count stays.
LEMMA NoMoreLost ==
    ASSUME LinesInv, IsFiniteSet(Spoiled), IsFiniteSet(Spoiled'),
           Spoiled \subseteq Spoiled', Lost' \subseteq Lost
    PROVE  IsFiniteSet(Lost') /\ Cardinality(Lost') <= Cardinality(Spoiled')
<1>1. IsFiniteSet(Lost) /\ Cardinality(Lost) <= Cardinality(Spoiled)
  BY DEF LinesInv
<1>2. IsFiniteSet(Lost') /\ Cardinality(Lost') <= Cardinality(Lost)
  BY <1>1, FS_Subset
<1>3. Cardinality(Spoiled) <= Cardinality(Spoiled')
  BY FS_Subset
<1>4. /\ Cardinality(Lost) \in Nat /\ Cardinality(Lost') \in Nat
      /\ Cardinality(Spoiled) \in Nat /\ Cardinality(Spoiled') \in Nat
  BY <1>1, <1>2, FS_CardinalityType
<1> QED
  BY <1>1, <1>2, <1>3, <1>4

\* A preview is answered in the step that has written its whole line, and the
\* record it wrote does not change afterwards.
LEMMA AnsweredBefore ==
    ASSUME CoreInv, [Next]_vars, NEW c \in Calls, c \in Answered'
    PROVE  /\ result'[c] = result[c]
           /\ \/ c \in Answered
              \/ AppendHistory(c) /\ WriteLine(result[c], TRUE, TRUE)
                 /\ IsResultOf(result[c], c)
<1>1. /\ TypeInv /\ ControlInv /\ TypeOK /\ ControlType /\ ReadType
      /\ args'[c] = args[c] /\ args[c].kind = "preview" /\ outcome'[c] = "OK"
      /\ AnswerState!(c)
  BY Frame DEF CoreInv, TypeInv, TypeOK, ControlInv, AnswerState, Answered
<1> USE DEF Goto, Fail, Raise, Succeed, GoOn
<1>2. CASE \/ Refuse(c) \/ CheckActive(c) \/ ReadTotal(c) \/ ReadFailed(c)
           \/ ReadPersisted(c) \/ ReadLocal(c)
  BY <1>1, <1>2 DEF Refuse, CheckActive, ReadTotal, ReadFailed, ReadPersisted, ReadLocal,
                    ControlType
<1>3. CASE \/ AcquireWriter(c) \/ InsertSummary(c) \/ OpenDetails(c) \/ StreamDetail(c)
           \/ EndOfDetails(c) \/ WriteFails(c) \/ Commit(c) \/ Rollback(c)
           \/ Audit(c) \/ Reply(c) \/ Crash(c)
  BY <1>1, <1>3 DEF AcquireWriter, InsertSummary, OpenDetails, StreamDetail, EndOfDetails,
                    WriteFails, Commit, Rollback, Rethrow, Audit, Reply, Crash,
                    ControlType, Answered
<1>4. CASE AppendHistory(c)
  <2>1. pc[c] = "append" /\ UNCHANGED result
    BY <1>4 DEF AppendHistory
  <2>2. IsResultOf(result[c], c)
    BY <1>1, <2>1 DEF TypeInv, ResultIsBuilt
  <2>3. WriteLine(result[c], TRUE, TRUE)
    BY <1>1, <1>4 DEF AppendHistory, ControlType
  <2> QED
    BY <1>4, <2>1, <2>2, <2>3
<1>5. CASE ~Step(c) /\ ~Crash(c)
  BY <1>1, <1>5, OtherCalls DEF Answered
<1> QED
  BY <1>2, <1>3, <1>4, <1>5 DEF Step

\* The step that matters writes a whole line behind an open one: a preview is
\* answered and lost in it, and a line that was not spoiled before is.
LEMMA NextLines == CoreInv /\ LinesInv /\ [Next]_vars => LinesInv'
<1> SUFFICES ASSUME CoreInv, LinesInv, [Next]_vars PROVE LinesInv'
  OBVIOUS
<1>1. /\ RowsType /\ RowsType' /\ ControlType
      /\ IsFiniteSet(Lost) /\ Cardinality(Lost) \in Nat
      /\ IsFiniteSet(Spoiled) /\ Cardinality(Spoiled) \in Nat
      /\ IsFiniteSet(Spoiled') /\ Cardinality(Spoiled') \in Nat
  <2>1. RowsType /\ RowsType' /\ ControlType
    BY RowsStep DEF CoreInv, TypeInv, TypeOK
  <2>2. (RowsType => IsFiniteSet(Spoiled) /\ Cardinality(Spoiled) \in Nat)'
    <3>1. RowsType => IsFiniteSet(Spoiled) /\ Cardinality(Spoiled) \in Nat
      BY SpoiledIsFinite
    <3> QED
      BY <2>1, SpoiledIsFinite, PTL
  <2> QED
    BY <2>1, <2>2, SpoiledIsFinite, FS_CardinalityType DEF LinesInv
<1>2. \A c \in Answered' : /\ c \in Calls /\ result'[c] = result[c] /\ result[c].call = c
                           /\ c \notin Answered => /\ AppendHistory(c)
                                                   /\ WriteLine(result[c], TRUE, TRUE)
                                                   /\ result[c] \in Results
  BY AnsweredBefore DEF Answered, LinesInv, IsResultOf
<1> DEFINE Kept == \A r : InFile(r) =>
              \/ InFile(r)'
              \/ history.open /\ r = history.lines[LastLine] /\ r # None
<1>3. ASSUME NEW c \in Answered', c \notin Answered PROVE LinesInv'
  <2>1. /\ AppendHistory(c) /\ WriteLine(result[c], TRUE, TRUE)
        /\ result[c] \in Results /\ result'[c] = result[c]
    BY <1>2, <1>3
  <2>2. /\ ~history'.open /\ Spoiled \subseteq Spoiled'
        /\ history.open => LastLine \in Spoiled' \ Spoiled
        /\ Kept
        /\ ~history.open => InFile(result[c])'
    BY <1>1, <2>1, LinesWritten DEF LinesInv
  <2>3. Answered' \subseteq Answered \cup {c}
    <3>1. \A d \in Calls \ {c} : outcome'[d] = outcome[d] /\ args'[d] = args[d]
      BY <1>1, <2>1, Frame
         DEF AppendHistory, Succeed, Goto, Raise, ControlType
    <3> QED
      BY <3>1 DEF Answered
  <2>4. Lost' \subseteq Lost \cup {c} /\ (~history.open => Lost' \subseteq Lost)
    <3>1. ASSUME NEW d \in Lost', d # c PROVE d \in Lost
      <4>1. d \in Answered /\ ~InFile(result[d])' /\ result'[d] = result[d]
        BY <1>2, <2>3, <3>1 DEF Lost
      <4>2. ~InFile(result[d])
        BY <2>2, <4>1 DEF LinesInv
      <4> QED
        BY <4>1, <4>2 DEF Lost
    <3>2. ~history.open => c \notin Lost'
      BY <2>1, <2>2 DEF Lost
    <3> QED
      BY <3>1, <3>2
  <2>5. IsFiniteSet(Lost') /\ Cardinality(Lost') <= Cardinality(Spoiled')
    <3>1. CASE history.open
      <4>1. /\ IsFiniteSet(Lost \cup {c})
            /\ Cardinality(Lost \cup {c}) <= Cardinality(Lost) + 1
        <5>1. /\ IsFiniteSet(Lost \cup {c})
              /\ \/ Cardinality(Lost \cup {c}) = Cardinality(Lost)
                 \/ Cardinality(Lost \cup {c}) = Cardinality(Lost) + 1
          BY <1>1, FS_AddElement
        <5> QED
          BY <1>1, <5>1
      <4>2. /\ IsFiniteSet(Spoiled \cup {LastLine})
            /\ Cardinality(Spoiled \cup {LastLine}) = Cardinality(Spoiled) + 1
        BY <1>1, <2>2, <3>1, FS_AddElement
      <4>3. Cardinality(Spoiled \cup {LastLine}) <= Cardinality(Spoiled')
        BY <1>1, <2>2, <3>1, FS_Subset
      <4>4. IsFiniteSet(Lost') /\ Cardinality(Lost') <= Cardinality(Lost \cup {c})
        BY <2>4, <4>1, FS_Subset
      <4>5. Cardinality(Lost \cup {c}) \in Nat /\ Cardinality(Lost') \in Nat
        BY <4>1, <4>4, FS_CardinalityType
      <4> QED
        BY <1>1, <4>1, <4>2, <4>3, <4>4, <4>5 DEF LinesInv
    <3>2. CASE ~history.open
      BY <1>1, <2>2, <2>4, <3>2, NoMoreLost
    <3> QED
      BY <3>1, <3>2
  <2> QED
    BY <1>1, <1>2, <2>2, <2>5 DEF LinesInv
<1>4. ASSUME Answered' \subseteq Answered, NEW c \in Calls, c \notin Answered',
             IsResultOf(result[c], c), NEW text \in {None, result[c]},
             NEW complete \in BOOLEAN, NEW decodes \in BOOLEAN,
             WriteLine(text, complete, decodes)
      PROVE  LinesInv'
  <2>1. /\ history'.open = ~complete /\ history'.lines # <<>>
        /\ Spoiled \subseteq Spoiled' /\ Kept
        /\ ~complete => history'.lines[LastLine'] \in {text, None}
    BY <1>1, <1>4, LinesWritten DEF LinesInv, IsResultOf
  <2>2. \A d \in Answered' : result'[d] # result[c]
    <3>1. result[c].call = c
      BY <1>4 DEF IsResultOf
    <3> QED
      BY <1>2, <1>4, <3>1
  <2>3. ASSUME NEW d \in Lost' PROVE d \in Lost
    <3>1. d \in Answered /\ ~InFile(result[d])' /\ result'[d] = result[d]
      BY <1>2, <1>4, <2>3 DEF Lost
    <3>2. ~InFile(result[d])
      BY <2>1, <3>1 DEF LinesInv
    <3> QED
      BY <3>1, <3>2 DEF Lost
  <2>4. IsFiniteSet(Lost') /\ Cardinality(Lost') <= Cardinality(Spoiled')
    BY <1>1, <2>1, <2>3, NoMoreLost
  <2>5. history'.open /\ history'.lines[LastLine'] # None =>
          \A d \in Answered' : result'[d] # history'.lines[LastLine']
    BY <1>4, <2>1, <2>2
  <2>6. \A d \in Answered' : result'[d].call = d
    BY <1>2
  <2> QED
    BY <2>1, <2>4, <2>5, <2>6 DEF LinesInv
<1>5. CASE UNCHANGED history /\ Answered' \subseteq Answered
  <2>1. Spoiled' = Spoiled /\ LastLine' = LastLine /\ \A r : InFile(r)' <=> InFile(r)
    BY <1>5 DEF Spoiled, LastLine, InFile
  <2>2. Lost' \subseteq Lost
    BY <1>2, <1>5, <2>1 DEF Lost
  <2>3. IsFiniteSet(Lost') /\ Cardinality(Lost') <= Cardinality(Spoiled')
    BY <1>1, <2>1, <2>2, NoMoreLost
  <2> QED
    BY <1>2, <1>5, <2>1, <2>3 DEF LinesInv
<1>6. ASSUME Answered' \subseteq Answered, NEW c \in Calls,
             AppendHistory(c) \/ Crash(c), ~UNCHANGED history
      PROVE  LinesInv'
  <2>1. pc[c] = "append" /\ outcome[c] = "none"
    BY <1>6 DEF AppendHistory, Crash, MayCutShort, CoreInv, ControlInv, AnswerState
  <2>2. c \notin Answered'
    BY <1>6, <2>1 DEF Answered
  <2>3. IsResultOf(result[c], c)
    BY <2>1 DEF CoreInv, TypeInv, ResultIsBuilt
  <2>4. \E text \in {None, result[c]}, complete \in BOOLEAN, decodes \in BOOLEAN :
          WriteLine(text, complete, decodes)
    BY <1>6, <2>1 DEF AppendHistory, Crash, MayCutShort, CutShort
  <2> QED
    BY <1>4, <1>6, <2>2, <2>3, <2>4
<1>7. CASE \A c \in Answered' : c \in Answered
  <2>1. \/ UNCHANGED history
        \/ \E c \in Calls : AppendHistory(c) \/ Crash(c)
    BY Frame
  <2> QED
    BY <1>5, <1>6, <1>7, <2>1
<1> QED
  BY <1>3, <1>7

\* As long as the history can be decoded, a write to it that is cut short, by the
\* process dying or the disk filling up, costs at most the one answered preview
\* written behind it, for any number of calls and crashes (dq.py, DqHistory).
THEOREM TornLinesAreContainedAlways == Spec => []TornLinesAreContained
<1>1. Init => LinesInv
  <2> SUFFICES ASSUME Init PROVE LinesInv
    OBVIOUS
  <2>1. Answered = {} /\ Lost = {} /\ Spoiled = {} /\ ~history.open
    BY DEF Init, Answered, Lost, Spoiled
  <2> QED
    BY <2>1, FS_EmptySet DEF LinesInv
<1>2. CoreInv /\ LinesInv => TornLinesAreContained
  <2> SUFFICES ASSUME CoreInv, LinesInv PROVE TornLinesAreContained
    OBVIOUS
  <2> DEFINE missing == {c \in Calls : /\ args[c].kind = "preview"
                                       /\ outcome[c] = "OK"
                                       /\ \A i \in DOMAIN history.lines :
                                            history.lines[i] # result[c]}
             spoiled == {i \in DOMAIN history.lines : history.lines[i] = None}
  <2>1. missing = Lost
    BY DEF Lost, Answered, InFile
  <2>2. RowsType
    BY DEF CoreInv, TypeInv, TypeOK
  <2>3. IsFiniteSet(spoiled) /\ Spoiled \subseteq spoiled
    <3>1. LastLine \in Nat /\ DOMAIN history.lines = 1..LastLine
      BY <2>2, SpoiledIsFinite
    <3>2. spoiled \subseteq 1..LastLine /\ IsFiniteSet(1..LastLine)
      BY <3>1, FS_Interval
    <3> QED
      BY <3>2, FS_Subset DEF Spoiled
  <2>4. Cardinality(Spoiled) <= Cardinality(spoiled)
    BY <2>3, FS_Subset
  <2>5. /\ Cardinality(Lost) \in Nat /\ Cardinality(Spoiled) \in Nat
        /\ Cardinality(spoiled) \in Nat /\ Cardinality(Lost) <= Cardinality(Spoiled)
    BY <2>2, <2>3, SpoiledIsFinite, FS_CardinalityType DEF LinesInv
  <2>6. Cardinality(missing) <= Cardinality(spoiled)
    <3> HIDE DEF missing, spoiled
    <3> QED
      BY <2>1, <2>4, <2>5
  <2> QED
    BY <2>6 DEF TornLinesAreContained
<1>3. CoreInv /\ LinesInv /\ [Next]_vars => LinesInv'
  BY NextLines
<1> QED
  BY <1>1, <1>2, <1>3, CoreAlways, PTL DEF Spec

-----------------------------------------------------------------------------
(* Baselines *)

\* r was compared with a committed execution of another call.
HasBaseline(r) ==
    \/ r.base = None /\ r.trend = "BASELINE"
    \/ \E t \in summary :
         /\ t.call = r.base /\ t.call # r.call
         /\ t.rule = r.rule /\ t.pop = r.pop
         /\ t.at <= r.at
         /\ r.trend = TrendFrom(r.percent, t.percent)

\* Rows are stamped no later than now, their calls are past the commit, and
\* what is about to be committed has its baseline in the table already.
BaselineInv ==
    /\ \A s \in summary :
         /\ s.at <= clock
         /\ s.pop # None
         /\ pc[s.call] \in {"rollback"} \cup After
         /\ HasBaseline(s)
    /\ \A c \in Calls :
         pc[c] \in {"acquire", "insert", "open", "stream", "commit"} =>
             HasBaseline(result[c]) /\ result[c].at <= clock

LEMMA BaselineKept ==
    ASSUME NEW r, HasBaseline(r), summary \subseteq summary'
    PROVE  HasBaseline(r)'
BY DEF HasBaseline

\* The committed row or the history line that the call finds is the baseline of
\* the result it builds (tools.py 1045-1090, dq.py DqHistory.previous).
LEMMA BuiltBaseline ==
    ASSUME CoreInv, HistoryFollowsDatabase, BaselineInv, NEW c \in Calls,
           args[c].kind = "persist", ReadPersisted(c) \/ ReadLocal(c),
           pc'[c] \notin {"local", "reply"}
    PROVE  HasBaseline(result'[c]) /\ result'[c].at = clock
<1> DEFINE a == args[c]
<1>1. /\ ReadType /\ result' \in [Calls -> Results \cup {None}]
      /\ a.pop # None /\ a.pop \in Populations
      /\ pc[c] \in {"previous", "local"} /\ clock \in Nat
  <2>1. \E base \in Results \cup {None} : BuildResult(c, base)
    BY DEF ReadPersisted, ReadLocal, Goto, Raise, Newest, Earlier, CoreInv, TypeInv,
           TypeOK, ControlType, RowsType
  <2>2. result' \in [Calls -> Results \cup {None}]
    BY <2>1, BuiltResult DEF CoreInv, TypeInv, TypeOK, ReadType, IsResultOf
  <2> QED
    BY <2>2, NoneAssumption, ClockAssumption
       DEF CoreInv, TypeInv, TypeOK, ControlType, EnvironmentType, Args,
           ReadPersisted, ReadLocal
<1>2. ASSUME BuildResult(c, None)
      PROVE  HasBaseline(result'[c]) /\ result'[c].at = clock
  BY <1>1, <1>2 DEF BuildResult, HasBaseline, ReadType
<1>3. ASSUME NEW t \in summary, t.rule = a.rule, t.pop = a.pop,
             BuildResult(c, t)
      PROVE  HasBaseline(result'[c]) /\ result'[c].at = clock
  <2>1. t.at <= clock /\ pc[t.call] \in {"rollback"} \cup After
    BY DEF BaselineInv
  <2>2. t.call # c
    BY <1>1, <2>1 DEF After
  <2>3. CASE t = None
    BY <1>2, <1>3, <2>3
  <2>4. CASE t # None
    <3>1. PICK p : result'[c] =
              [call |-> c, run |-> a.run, rule |-> a.rule, pop |-> a.pop,
               total |-> counts[c].total, failed |-> counts[c].failed,
               percent |-> p, base |-> t.call,
               trend |-> TrendFrom(p, t.percent), at |-> clock]
      BY <1>1, <1>3, <2>4 DEF BuildResult, ReadType
    <3> QED
      BY <1>3, <2>1, <2>2, <3>1 DEF HasBaseline
  <2> QED
    BY <2>3, <2>4
<1>4. CASE ReadPersisted(c)
  BY <1>3, <1>4 DEF ReadPersisted, Goto, Newest, Earlier, CoreInv, TypeInv,
                    TypeOK, ControlType
<1>5. CASE ReadLocal(c)
  <2>1. \/ BuildResult(c, None)
        \/ \E i \in DOMAIN history.lines : /\ Matches(c, history.lines[i])
                                           /\ BuildResult(c, history.lines[i])
    BY <1>5 DEF ReadLocal, Raise, Goto, CoreInv, TypeInv, TypeOK, ControlType
  <2>2. ASSUME NEW i \in DOMAIN history.lines, Matches(c, history.lines[i]),
               BuildResult(c, history.lines[i])
        PROVE  HasBaseline(result'[c]) /\ result'[c].at = clock
    <3>1. /\ history.lines[i] # None
          /\ history.lines[i].rule = a.rule /\ history.lines[i].pop = a.pop
      BY <2>2 DEF Matches
    <3>2. history.lines[i] \in summary
      BY <1>1, <3>1 DEF HistoryFollowsDatabase
    <3> QED
      BY <1>3, <2>2, <3>1, <3>2
  <2> QED
    BY <1>2, <2>1, <2>2
<1> QED
  BY <1>4, <1>5

LEMMA NextBaseline ==
    CoreInv /\ HistoryFollowsDatabase /\ BaselineInv /\ [Next]_vars
      => BaselineInv'
<1> SUFFICES ASSUME CoreInv, HistoryFollowsDatabase, BaselineInv, [Next]_vars
             PROVE  BaselineInv'
  OBVIOUS
<1>1. /\ TypeInv /\ ControlInv /\ TxnInv /\ TypeOK /\ ControlType /\ RowsType
      /\ summary \subseteq summary' /\ clock \in Nat /\ UNCHANGED args
  BY SequencesKept, ClockAssumption, Frame
     DEF CoreInv, TypeInv, TypeOK, EnvironmentType
<1>2. clock' \in Nat /\ clock <= clock'
  BY <1>1, Frame DEF environment, SourceChanges, CatalogChanges, Tick
<1>3. ASSUME NEW c \in Calls, pc[c] \in {"rollback"} \cup After
      PROVE  pc'[c] \in {"rollback"} \cup After
  <2> USE DEF Goto, Fail, Raise, Succeed, GoOn, After
  <2>1. CASE Step(c) \/ Crash(c)
    BY <1>1, <1>3, <2>1
       DEF Step, Refuse, CheckActive, ReadTotal, ReadFailed, ReadPersisted,
           ReadLocal, AcquireWriter, InsertSummary, OpenDetails, StreamDetail,
           EndOfDetails, WriteFails, Commit, Rollback, Rethrow, AppendHistory,
           Audit, Reply, Crash, ControlType
  <2>2. CASE ~Step(c) /\ ~Crash(c)
    BY <1>1, <1>3, <2>2, OtherCalls
  <2> QED
    BY <2>1, <2>2
<1>4. ASSUME NEW c \in Calls,
             pc'[c] \in {"acquire", "insert", "open", "stream", "commit"}
      PROVE  HasBaseline(result[c])' /\ result'[c].at <= clock'
  <2>1. CASE ReadPersisted(c) \/ ReadLocal(c)
    <3>1. args[c].kind = "persist"
      BY <1>1, <1>4, <2>1
         DEF ControlInv, WritersPersist, ReadPersisted, ReadLocal, Goto, GoOn,
             Raise, ControlType
    <3>2. HasBaseline(result'[c]) /\ result'[c].at = clock
      BY <1>4, <2>1, <3>1, BuiltBaseline
    <3>3. UNCHANGED summary
      BY <2>1 DEF ReadPersisted, ReadLocal, store
    <3> QED
      BY <1>1, <1>2, <3>2, <3>3 DEF HasBaseline
  <2>2. CASE ~ReadPersisted(c) /\ ~ReadLocal(c)
    <3>1. pc[c] \in {"acquire", "insert", "open", "stream", "commit"}
      <4> USE DEF Goto, Fail, Raise, Succeed
      <4>1. CASE Step(c) \/ Crash(c)
        BY <1>1, <1>4, <2>2, <4>1
           DEF Step, Refuse, CheckActive, ReadTotal, ReadFailed, AcquireWriter,
               InsertSummary, OpenDetails, StreamDetail, EndOfDetails,
               WriteFails, Commit, Rollback, Rethrow, AppendHistory, Audit,
               Reply, Crash, ControlType
      <4>2. CASE ~Step(c) /\ ~Crash(c)
        BY <1>1, <1>4, <4>2, OtherCalls
      <4> QED
        BY <4>1, <4>2
    <3>2. result'[c] = result[c]
      <4>1. \/ UNCHANGED result
            \/ \E d \in Calls \ {c} : ReadPersisted(d) \/ ReadLocal(d)
        BY <2>2, Frame
      <4> QED
        BY <1>1, <4>1 DEF ReadPersisted, ReadLocal, BuildResult, TypeOK, ReadType
    <3>3. result[c].at \in Nat
      BY <1>1, <3>1 DEF TypeInv, ResultIsBuilt, IsResultOf, Results
    <3> QED
      BY <1>1, <1>2, <3>1, <3>2, <3>3 DEF BaselineInv, HasBaseline
  <2> QED
    BY <2>1, <2>2
<1>5. ASSUME NEW s \in summary'
      PROVE  /\ s.at <= clock' /\ s.pop # None
             /\ pc'[s.call] \in {"rollback"} \cup After
             /\ HasBaseline(s)'
  <2>1. CASE s \in summary
    <3>1. /\ s.at <= clock /\ s.at \in Nat /\ s.pop # None /\ s.call \in Calls
          /\ pc[s.call] \in {"rollback"} \cup After
          /\ HasBaseline(s)
      BY <1>1, <2>1 DEF BaselineInv, RowsType, Results
    <3> QED
      BY <1>1, <1>2, <1>3, <3>1, BaselineKept
  <2>2. CASE s \notin summary
    <3>1. PICK c \in Calls : Commit(c) /\ ~UNCHANGED store
      BY <2>2, Frame DEF store
    <3>2. s = result[c] /\ IsResultOf(s, c)
      BY <1>1, <2>2, <3>1, CommitEffect
    <3>3. pc[c] = "commit" /\ pc'[c] \in {"rollback"} \cup After
      BY <1>1, <3>1 DEF Commit, Goto, ControlType, After
    <3>4. args[c].kind = "persist" /\ args[c].pop # None
      BY <1>1, <3>3, NoneAssumption
         DEF ControlInv, WritersPersist, Writing, ControlType, Args
    <3>5. HasBaseline(s)
      BY <3>2, <3>3 DEF BaselineInv
    <3>6. s.at <= clock
      BY <3>3, <3>2 DEF BaselineInv
    <3> QED
      BY <1>1, <1>2, <3>2, <3>3, <3>4, <3>5, <3>6, BaselineKept
         DEF IsResultOf, Results
  <2> QED
    BY <2>1, <2>2
<1> QED
  BY <1>4, <1>5 DEF BaselineInv

\* The trend of a stored execution compares it with an execution that was
\* committed before it, of the same rule and the same population, also when the
\* baseline came from the local history (docs/data-quality-framework.md).
THEOREM BaselinesAreLikeForLike == Spec => []BaselineIsLikeForLike
<1>1. Init => BaselineInv
  BY DEF Init, BaselineInv
<1>2. BaselineInv => BaselineIsLikeForLike
  BY DEF BaselineInv, HasBaseline, BaselineIsLikeForLike
<1> QED
  BY <1>1, <1>2, NextBaseline, CoreAlways, HistoryIsBehindDatabase, PTL
     DEF Spec

-----------------------------------------------------------------------------
(* The persisted tool implements the ledger *)

\* The ledger's entries are the committed summary rows with their details; a
\* commit is the ledger's Record, the reply of a success its Tell, and every
\* other step leaves the ledger as it is.
THEOREM RunImplementsLedger == Spec => ImplementsLedger
<1> DEFINE entries == {Entry(s) : s \in summary}
<1>1. Init => Ledger!LedgerInit
  BY DEF Init, Ledger!LedgerInit, Told
<1>2. ASSUME CoreInv, DurableInv, [Next]_vars
      PROVE  [Ledger!LedgerNext]_(Ledger!ledgerVars)
  <2>1. TypeInv /\ ControlInv /\ TxnInv
    BY <1>2 DEF CoreInv
  <2>2. \A s \in summary : s \in summary' /\ Entry(s)' = Entry(s)
    BY <1>2, <2>1, SequencesKept DEF Entry
  <2>3. ASSUME NEW c \in Calls, Commit(c), ~UNCHANGED store
        PROVE  Ledger!LedgerNext
    <3>1. PICK r :
              /\ summary' = summary \cup {r}
              /\ r \in Results /\ r.call = c /\ r.failed \in 0..MaxDetails
              /\ r.run \in Runs /\ r.rule \in Rules
              /\ \A t \in summary : ~SameKey(r, t)
      <4>1. /\ IsResultOf(result[c], c) /\ SameKey(result[c], args[c])
            /\ args[c].run \in Runs
        BY <2>1, <2>3, CommitEffect
           DEF TypeInv, TypeOK, ControlType, Args
      <4> QED
        BY <4>1, <2>1, <2>3, CommitEffect DEF IsResultOf, SameKey, Results
    <3>2. Sequences(r)' = 1..r.failed
      <4>1. StoreState'
        BY <1>2, <2>1, NextStoreState
      <4> QED
        BY <3>1, <4>1 DEF StoreState, WholeRunOrNothing
    <3> DEFINE e == [call |-> c, run |-> r.run, rule |-> r.rule,
                     failed |-> r.failed, rows |-> 1..r.failed]
    <3>3. Entry(r)' = e
      BY <3>1, <3>2 DEF Entry
    <3>4. entries' = entries \cup {e}
      BY <2>2, <3>1, <3>3
    <3>5. \A f \in entries : ~Ledger!SameKey(f, e)
      BY <3>1 DEF Entry, SameKey, Ledger!SameKey
    <3>6. Told' = Told
      BY <2>1, <2>3 DEF Told, Commit, Goto, TypeInv, TypeOK, ControlType
    <3> QED
      BY <3>1, <3>4, <3>5, <3>6 DEF Ledger!LedgerNext, Ledger!Record
  <2>4. CASE UNCHANGED summary
    <3>1. entries' = entries
      BY <2>2, <2>4
    <3>2. ASSUME NEW c \in Calls, Reply(c), Told' # Told
          PROVE  Ledger!Tell(c)
      <4>1. /\ Told' = Told \cup {c}
            /\ outcome[c] = "OK" /\ args[c].kind = "persist"
        BY <2>1, <3>2
           DEF Told, Reply, Goto, TypeInv, TypeOK, ControlType
      <4>2. result[c] \in summary /\ Entry(result[c]).call = c
        BY <1>2, <4>1 DEF DurableInv, Entry
      <4> QED
        BY <3>1, <4>1, <4>2 DEF Ledger!Tell
    <3>3. CASE ~\E c \in Calls : Reply(c)
      <4>1. \A c \in Calls :
               (pc'[c] = "done" /\ outcome'[c] = "OK")
                 <=> (pc[c] = "done" /\ outcome[c] = "OK")
        <5> SUFFICES ASSUME NEW c \in Calls
                     PROVE  (pc'[c] = "done" /\ outcome'[c] = "OK")
                              <=> (pc[c] = "done" /\ outcome[c] = "OK")
          OBVIOUS
        <5>1. CASE Step(c)
          BY <2>1, <3>3, <5>1
             DEF Step, Goto, Fail, Raise, Succeed, GoOn, Refuse, CheckActive,
                 ReadTotal, ReadFailed, ReadPersisted, ReadLocal,
                 AcquireWriter, InsertSummary, OpenDetails, StreamDetail,
                 EndOfDetails, WriteFails, Commit, Rollback, Rethrow,
                 AppendHistory, Audit, TypeInv, TypeOK, ControlType
        <5>2. CASE Crash(c)
          BY <2>1, <5>2 DEF Crash, Goto, TypeInv, TypeOK, ControlType
        <5>3. CASE ~Step(c) /\ ~Crash(c)
          BY <1>2, <2>1, <5>3, OtherCalls DEF TypeInv
        <5> QED
          BY <5>1, <5>2, <5>3
      <4>2. Told' = Told
        BY <1>2, <4>1, Frame DEF Told
      <4> QED
        BY <3>1, <4>2 DEF Ledger!ledgerVars
    <3> QED
      BY <1>2, <3>1, <3>2, <3>3 DEF Ledger!LedgerNext, Ledger!ledgerVars
  <2> QED
    BY <1>2, <2>3, <2>4, Frame DEF store
<1> QED
  BY <1>1, <1>2, DurableAlways, PTL DEF Spec, ImplementsLedger, Ledger!LedgerSpec
=============================================================================
