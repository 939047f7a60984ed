------------------------------ MODULE MCDqRun ------------------------------
(* Small instances of DqRun for TLC. *)
EXTENDS DqRun, TLC

Counts(t, f) == [total |-> t, failed |-> f]

\* Counts that differ in both numbers: read across a change they give more
\* failures than records, or a detail stream of another length.
TwoSourceStates == {Counts(1, 1), Counts(3, 2)}

\* With these the detail stream can also pass the hard limit of 2.
ThreeSourceStates == TwoSourceStates \cup {Counts(3, 3)}

\* Calls, runs and populations are interchangeable; the safety runs use it.
Symmetry ==
    Permutations(Calls) \cup Permutations(Runs) \cup Permutations(Populations)
=============================================================================
