--------------------------- MODULE PacketService ---------------------------
(***************************************************************************)
(* What a packet queue promises a sender that obeys the rule at the top of *)
(* net/queue.c: each packet is passed on at once, or kept; while one is    *)
(* kept the sender sends no other; and the one call of its sent callback   *)
(* is for the packet that is kept.  So packets leave in the order in which *)
(* they were sent, none twice.  Nothing is promised once somebody sends    *)
(* without a callback and is queued all the same.                          *)
(***************************************************************************)
EXTENDS Naturals, Sequences

VARIABLES
  sent,     \* packets the sender has sent so far, numbered from 1
  kept,     \* <<n>>: packet n is kept, and no callback has been made for it
  wire,     \* packets that have left, in their order
  broken    \* the rule has been broken

vars == <<sent, kept, wire, broken>>

Init == sent = 0 /\ kept = <<>> /\ wire = <<>> /\ broken = FALSE

\* A packet leaves or is dropped.
Leaves(n) == wire' \in {wire, Append(wire, n)}

PassOn ==
  /\ kept = <<>> /\ sent' = sent + 1
  /\ Leaves(sent') /\ UNCHANGED kept

Keep ==
  /\ kept = <<>> /\ sent' = sent + 1
  /\ kept' = <<sent'>> /\ UNCHANGED wire

Complete ==
  /\ kept # <<>> /\ kept' = <<>>
  /\ Leaves(kept[1]) /\ UNCHANGED sent

Next == broken' \/ (~broken /\ ~broken' /\ (PassOn \/ Keep \/ Complete))

Spec == Init /\ [][Next]_vars
=============================================================================
