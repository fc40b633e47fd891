----------------------------- MODULE MCCoLocks -----------------------------
(* CoLocks with the symmetry of its coroutines, for TLC. *)
EXTENDS CoLocks, TLC

Symmetry == Permutations(Cos)
=============================================================================
