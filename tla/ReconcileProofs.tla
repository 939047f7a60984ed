--------------------------- MODULE ReconcileProofs ---------------------------
(***************************************************************************)
(* Proofs about Reconcile, for any rows, spellings, masks and limits.      *)
(***************************************************************************)
EXTENDS Reconcile, TLAPS

-----------------------------------------------------------------------------
(* Types *)

\* A key is a text, or None.
LEMMA KeyType ==
    ASSUME NEW s \in Systems, NEW row \in Rows
    PROVE  Key(s, row) \in Texts \cup {None}
<1>1. Shown[s] \in [Texts -> Texts] /\ row.key \in Texts
  BY TextsAssumption, RowsAssumption
<1> QED
  BY <1>1, TextsAssumption DEF Key, Text

\* So are those an index has.
LEMMA IndexType ==
    ASSUME NEW s \in Systems, rows[s] \in SUBSET Rows, NEW index \in Indexes(s)
    PROVE  /\ DOMAIN index = KeysOf(s, rows[s])
           /\ DOMAIN index \subseteq Texts \cup {None}
           /\ \A k \in DOMAIN index : index[k] \in rows[s] /\ Key(s, index[k]) = k
<1>1. index \in [KeysOf(s, rows[s]) -> rows[s]]
  BY DEF Indexes
<1>2. DOMAIN index = KeysOf(s, rows[s])
  BY <1>1
<1>3. KeysOf(s, rows[s]) \subseteq Texts \cup {None}
  BY KeyType DEF KeysOf
<1> QED
  BY <1>1, <1>2, <1>3 DEF Indexes

LEMMA ComparisonType ==
    ASSUME TypeOK, \A s \in Systems : rows[s] # None,
           NEW source \in Indexes("ONPREM"), NEW target \in Indexes("ATP")
    PROVE  Comparison(source, target) \in Replies
<1>1. \A s \in Systems : rows[s] \in SUBSET Rows
  BY DEF TypeOK
<1>2. DOMAIN source \subseteq Texts \cup {None} /\ DOMAIN target \subseteq Texts \cup {None}
  BY <1>1, IndexType DEF Systems
<1> QED
  BY <1>2 DEF Comparison, Replies, OnlyIn

LEMMA TypeInit == Init => TypeOK
  BY DEF Init, TypeOK, NoReply, Replies

LEMMA TypeNext == TypeOK /\ [Next]_vars => TypeOK'
<1> SUFFICES ASSUME TypeOK, [Next]_vars PROVE TypeOK'
  OBVIOUS
<1> USE DEF TypeOK
<1>1. CASE UNCHANGED vars
  BY <1>1 DEF vars, world
<1>2. ASSUME NEW s \in Systems, Prepare(s) PROVE TypeOK'
  <2>1. PICK asked \in Asked \cup {None} : limit' = [limit EXCEPT ![s] = Limited(asked)]
    BY <1>2 DEF Prepare
  <2>2. Limited(asked) \in 0..Cap
    BY LimitsAssumption DEF Limited
  <2> QED
    BY <1>2, <2>1, <2>2 DEF Prepare, world
<1>3. ASSUME NEW s \in Systems, Fetch(s) PROVE TypeOK'
  <2>1. PICK raw \in Some(table[s], limit[s]) : \E kept \in Some(raw, MaxRows(s)) :
          /\ rows' = [rows EXCEPT ![s] = kept]
          /\ truncated' = [truncated EXCEPT ![s] = Cardinality(raw) > MaxRows(s)]
          /\ left' = IF kept = table[s] THEN left ELSE left \cup {s}
    BY <1>3 DEF Fetch
  <2>2. PICK kept \in Some(raw, MaxRows(s)) :
          /\ rows' = [rows EXCEPT ![s] = kept]
          /\ truncated' = [truncated EXCEPT ![s] = Cardinality(raw) > MaxRows(s)]
          /\ left' = IF kept = table[s] THEN left ELSE left \cup {s}
    BY <2>1
  <2>3. kept \in SUBSET Rows
    BY DEF Some
  <2>4. (Cardinality(raw) > MaxRows(s)) \in BOOLEAN
    OBVIOUS
  <2>5. rows' \in [Systems -> (SUBSET Rows) \cup {None}]
    BY <2>2, <2>3
  <2>6. truncated' \in [Systems -> BOOLEAN]
    BY <2>2, <2>4
  <2>7. left' \in SUBSET Systems
    BY <2>2
  <2> QED
    BY <1>3, <2>5, <2>6, <2>7 DEF Fetch, world
<1>4. ASSUME NEW s \in Systems, Change(s) PROVE TypeOK'
  BY <1>4 DEF Change
<1>5. CASE Refuse \/ FetchFails
  BY <1>5 DEF Refuse, FetchFails, world
<1>6. CASE Compare
  <2>1. reply' \in Replies
    BY <1>6, ComparisonType DEF Compare
  <2> QED
    BY <1>6, <2>1 DEF Compare, world
<1> QED
  BY <1>1, <1>2, <1>3, <1>4, <1>5, <1>6 DEF Next

\* Every variable of a comparison keeps its type; in particular no limit exceeds
\* the server's, whatever the query asks for.
THEOREM ReconcileTypeCorrect == Spec => []TypeOK
  BY TypeInit, TypeNext, PTL DEF Spec

-----------------------------------------------------------------------------
(* What was read *)

\* A table is between the rows that were always there and those that ever were,
WorldInv ==
    \A s \in Systems : always[s] \subseteq table[s] /\ table[s] \subseteq ever[s]

\* and so is what was read of it, but for the rows that were left out.
ReadInv ==
    \A s \in Systems : rows[s] # None =>
        rows[s] \subseteq ever[s] /\ (s \notin left => always[s] \subseteq rows[s])

ReadsInv == WorldInv /\ ReadInv

LEMMA ReadsInit == Init => ReadsInv
  BY DEF Init, ReadsInv, WorldInv, ReadInv

LEMMA ReadsNext == TypeOK /\ ReadsInv /\ [Next]_vars => ReadsInv'
<1> SUFFICES ASSUME TypeOK, ReadsInv, [Next]_vars PROVE ReadsInv'
  OBVIOUS
<1> USE DEF ReadsInv, WorldInv, ReadInv
<1>1. CASE UNCHANGED <<world, rows, left>>
  BY <1>1 DEF world
<1>2. ASSUME NEW s \in Systems, Fetch(s) PROVE ReadsInv'
  <2>1. PICK kept \in SUBSET table[s] :
          /\ rows' = [rows EXCEPT ![s] = kept]
          /\ left' = IF kept = table[s] THEN left ELSE left \cup {s}
    BY <1>2 DEF Fetch, Some
  <2>2. UNCHANGED world
    BY <1>2 DEF Fetch
  <2> QED
    BY <2>1, <2>2 DEF TypeOK, world
<1>3. ASSUME NEW s \in Systems, Change(s) PROVE ReadsInv'
  <2>1. PICK now : /\ table' = [table EXCEPT ![s] = now]
                   /\ ever' = [ever EXCEPT ![s] = @ \cup now]
                   /\ always' = [always EXCEPT ![s] = @ \cap now]
    BY <1>3 DEF Change
  <2>2. UNCHANGED <<rows, left>>
    BY <1>3 DEF Change
  <2> QED
    BY <2>1, <2>2 DEF TypeOK
<1> QED
  BY <1>1, <1>2, <1>3 DEF Next, Prepare, Refuse, FetchFails, Compare, vars, world

-----------------------------------------------------------------------------
(* What is reported *)

\* An answer is given by Compare and stays, with what it is about.
LEMMA AnswerStays ==
    ASSUME [Next]_vars, outcome' = "answered"
    PROVE  \/ outcome = "answered" /\ UNCHANGED <<ever, always, left, keyed, reply>>
           \/ outcome = "running" /\ Compare
  BY DEF Next, Prepare, Fetch, Change, Refuse, FetchFails, Compare, vars, world

LEMMA DifferencesNext ==
    TypeOK /\ ReadsInv /\ DifferencesWereThere /\ [Next]_vars => DifferencesWereThere'
<1> SUFFICES ASSUME TypeOK, ReadsInv, DifferencesWereThere, [Next]_vars,
                    outcome' = "answered"
             PROVE  DifferencesWereThere'
  BY DEF DifferencesWereThere
<1>1. CASE outcome = "answered" /\ UNCHANGED <<ever, always, left, keyed, reply>>
  BY <1>1 DEF DifferencesWereThere, KeysOf, Key
<1>2. CASE outcome = "running" /\ Compare
  <2>1. PICK source \in Indexes("ONPREM"), target \in Indexes("ATP") :
          reply' = Comparison(source, target)
    BY <1>2 DEF Compare
  <2>2. UNCHANGED <<ever, always, left, keyed>>
    BY <1>2 DEF Compare, world
  <2>3. \A s \in Systems :
          /\ rows[s] \in SUBSET Rows /\ rows[s] \subseteq ever[s]
          /\ s \notin left => always[s] \subseteq rows[s]
    BY <1>2 DEF Compare, TypeOK, ReadsInv, ReadInv
  <2>4. /\ DOMAIN source = KeysOf("ONPREM", rows["ONPREM"])
        /\ \A k \in DOMAIN source :
             source[k] \in rows["ONPREM"] /\ Key("ONPREM", source[k]) = k
    BY <2>3, IndexType DEF Systems
  <2>5. /\ DOMAIN target = KeysOf("ATP", rows["ATP"])
        /\ \A k \in DOMAIN target : target[k] \in rows["ATP"] /\ Key("ATP", target[k]) = k
    BY <2>3, IndexType DEF Systems
  <2>6. \A k \in reply'.sourceOnly :
          /\ k \in KeysOf("ONPREM", ever["ONPREM"])
          /\ "ATP" \in left \/ k \notin KeysOf("ATP", always["ATP"])
    BY <2>1, <2>3, <2>4, <2>5 DEF Comparison, OnlyIn, KeysOf, Systems
  <2>7. \A k \in reply'.targetOnly :
          /\ k \in KeysOf("ATP", ever["ATP"])
          /\ "ONPREM" \in left \/ k \notin KeysOf("ONPREM", always["ONPREM"])
    BY <2>1, <2>3, <2>4, <2>5 DEF Comparison, OnlyIn, KeysOf, Systems
  <2>8. \A k \in reply'.mismatched :
          \E row \in ever["ONPREM"], other \in ever["ATP"] :
            /\ Key("ONPREM", row) = k /\ Key("ATP", other) = k
            /\ Text("ONPREM", row.value) # Text("ATP", other.value)
    BY <2>1, <2>3, <2>4, <2>5 DEF Comparison, Differs, Systems
  <2> QED
    BY <2>2, <2>6, <2>7, <2>8 DEF DifferencesWereThere, KeysOf, Key
<1> QED
  BY <1>1, <1>2, AnswerStays

\* Whatever the systems do during a call, and whatever is masked or spelled
\* differently, each difference it reports was one between the two reads.
THEOREM DifferencesAreReal == Spec => []DifferencesWereThere
<1>1. Init => DifferencesWereThere
  BY DEF Init, DifferencesWereThere
<1> QED
  BY <1>1, TypeInit, TypeNext, ReadsInit, ReadsNext, DifferencesNext, PTL DEF Spec

LEMMA SettledNext ==
    TypeOK /\ ReadsInv /\ SettledRecordsMatch /\ [Next]_vars => SettledRecordsMatch'
<1> SUFFICES ASSUME TypeOK, ReadsInv, SettledRecordsMatch, [Next]_vars,
                    outcome' = "answered"
             PROVE  SettledRecordsMatch'
  BY DEF SettledRecordsMatch
<1>1. CASE outcome = "answered" /\ UNCHANGED <<ever, always, left, keyed, reply>>
  BY <1>1 DEF SettledRecordsMatch, IsSettled, Differences, Key
<1>2. CASE outcome = "running" /\ Compare
  <2>1. PICK source \in Indexes("ONPREM"), target \in Indexes("ATP") :
          reply' = Comparison(source, target)
    BY <1>2 DEF Compare
  <2>2. UNCHANGED <<ever, always, left, keyed>>
    BY <1>2 DEF Compare, world
  <2> SUFFICES ASSUME left = {}, NEW row \in Rows, NEW other \in Rows,
                      IsSettled("ONPREM", row), IsSettled("ATP", other),
                      Key("ONPREM", row) = Key("ATP", other),
                      Text("ONPREM", row.value) = Text("ATP", other.value)
               PROVE  Key("ONPREM", row) \notin Differences'
    BY <2>2 DEF SettledRecordsMatch, IsSettled, Key
  <2> DEFINE k == Key("ONPREM", row)
  <2>3. \A s \in Systems :
          /\ rows[s] \in SUBSET Rows /\ rows[s] \subseteq ever[s]
          /\ always[s] \subseteq rows[s]
    BY <1>2 DEF Compare, TypeOK, ReadsInv, ReadInv
  <2>4. k \in DOMAIN source /\ source[k] = row
    <3>1. row \in rows["ONPREM"] /\ rows["ONPREM"] \in SUBSET Rows
      BY <2>3 DEF IsSettled, Systems
    <3>2. k \in KeysOf("ONPREM", rows["ONPREM"])
      BY <3>1 DEF KeysOf
    <3>3. k \in DOMAIN source /\ source[k] \in rows["ONPREM"] /\ Key("ONPREM", source[k]) = k
      BY <3>1, <3>2, IndexType DEF Systems
    <3>4. source[k] \in ever["ONPREM"]
      BY <2>3, <3>3 DEF Systems
    <3> QED
      BY <3>3, <3>4 DEF IsSettled
  <2>5. k \in DOMAIN target /\ target[k] = other
    <3>1. other \in rows["ATP"] /\ rows["ATP"] \in SUBSET Rows
      BY <2>3 DEF IsSettled, Systems
    <3>2. k \in KeysOf("ATP", rows["ATP"])
      BY <3>1 DEF KeysOf
    <3>3. k \in DOMAIN target /\ target[k] \in rows["ATP"] /\ Key("ATP", target[k]) = k
      BY <3>1, <3>2, IndexType DEF Systems
    <3>4. target[k] \in ever["ATP"]
      BY <2>3, <3>3 DEF Systems
    <3> QED
      BY <3>3, <3>4 DEF IsSettled
  <2> QED
    BY <2>1, <2>4, <2>5 DEF Comparison, OnlyIn, Differs, Differences
<1> QED
  BY <1>1, <1>2, AnswerStays

\* A record that both systems hold throughout, alike and under a unique key, is
\* never reported as a difference while no limit leaves rows out.
THEOREM SettledRecordsAgree == Spec => []SettledRecordsMatch
<1>1. Init => SettledRecordsMatch
  BY DEF Init, SettledRecordsMatch
<1> QED
  BY <1>1, TypeInit, TypeNext, ReadsInit, ReadsNext, SettledNext, PTL DEF Spec
=============================================================================
