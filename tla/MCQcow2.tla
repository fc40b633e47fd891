------------------------------ MODULE MCQcow2 ------------------------------
(***************************************************************************)
(* Qcow2 for TLC: coroutines are interchangeable.                          *)
(***************************************************************************)
EXTENDS Qcow2, TLC

Symmetry == Permutations(Cos)
=============================================================================
