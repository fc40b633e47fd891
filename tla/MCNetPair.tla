----------------------------- MODULE MCNetPair -----------------------------
(* NetPair with traffic in either direction, and in both, for TLC. *)
EXTENDS NetPair

Traffic == {[rx |-> 2, tx |-> 0, announce |-> 0, bufs |-> 2],
            [rx |-> 0, tx |-> 2, announce |-> 1, bufs |-> 0],
            [rx |-> 1, tx |-> 1, announce |-> 0, bufs |-> 2]}
=============================================================================
