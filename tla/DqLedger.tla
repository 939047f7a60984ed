------------------------------ MODULE DqLedger ------------------------------
(***************************************************************************)
(* What the persisted data-quality tool promises its callers: a governed   *)
(* ledger of rule executions.  An execution enters the ledger in one step, *)
(* complete with its failed records numbered from 1 and no more of them    *)
(* than the hard limit, at most once for each company run and rule, and is *)
(* never altered.  A caller is told that its execution succeeded only once *)
(* it is in the ledger.                                                    *)
(***************************************************************************)
EXTENDS Naturals

CONSTANTS
    Calls,      \* invocations of the tool
    Runs,       \* company run identifiers
    Rules,      \* rule identifiers
    MaxDetails  \* the most failed records one execution may bring

VARIABLES
    ledger,     \* the executions recorded
    told        \* the calls answered with status OK

ledgerVars == <<ledger, told>>

SameKey(e, f) == e.run = f.run /\ e.rule = f.rule

LedgerInit == ledger = {} /\ told = {}

Record(c) ==
    \E run \in Runs, rule \in Rules, n \in 0..MaxDetails :
        LET entry == [call |-> c, run |-> run, rule |-> rule,
                      failed |-> n, rows |-> 1..n]
        IN  /\ \A e \in ledger : ~SameKey(e, entry)
            /\ ledger' = ledger \cup {entry}
            /\ UNCHANGED told

Tell(c) ==
    /\ \E e \in ledger : e.call = c
    /\ told' = told \cup {c}
    /\ UNCHANGED ledger

LedgerNext == \E c \in Calls : Record(c) \/ Tell(c)

LedgerSpec == LedgerInit /\ [][LedgerNext]_ledgerVars
=============================================================================
