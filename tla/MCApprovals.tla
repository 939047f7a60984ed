---------------------------- MODULE MCApprovals ----------------------------
(* Small instances of Approvals for TLC. *)
EXTENDS Approvals, TLC

NoRoles == {}

\* Calls and fingerprints are only compared for equality.
Symmetry == Permutations(Calls) \cup Permutations(Forms)
=============================================================================
