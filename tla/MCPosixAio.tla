----------------------------- MODULE MCPosixAio -----------------------------
(* PosixAio with the symmetry of its sets of requests and threads, for TLC. *)
EXTENDS PosixAio, TLC

Symmetry == Permutations(Threads) \cup Permutations(Reqs)
=============================================================================
