----------------------------- MODULE MCDqReport -----------------------------
(* A small instance of DqReport for TLC. *)
EXTENDS DqReport, TLC

Counts(t, f) == [total |-> t, failed |-> f]

\* Counts that round up, fall on a half, lie on a threshold, or are rounded onto
\* one from above; and the empty population.
SomeCounts(rule) ==
    CASE rule = 1 -> {Counts(32, 1), Counts(3, 2)}
      [] rule = 2 -> {Counts(0, 0), Counts(10, 1)}
      [] OTHER    -> {Counts(29999, 3000)}

Symmetry == Permutations(Runs)
=============================================================================
