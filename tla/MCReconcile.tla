---------------------------- MODULE MCReconcile -----------------------------
(* Small instances of Reconcile for TLC. *)
EXTENDS Reconcile, TLC

CONSTANTS k, kk, j, hidden

\* kk is another spelling of k.
Spelling == (k :> k) @@ (kk :> k) @@ (j :> j) @@ (hidden :> hidden)

\* One system masks j.
Masking ==
    [s \in Systems |->
        (k :> k) @@ (kk :> kk) @@ (j :> IF s = "ATP" THEN hidden ELSE j)
            @@ (hidden :> hidden)]

Row(key, value) == [key |-> key, value |-> value]

SomeRows == {Row(k, k), Row(kk, kk), Row(k, j), Row(j, k)}
=============================================================================
