---------------------------- MODULE LockService ----------------------------
(***************************************************************************)
(* What CoMutex and CoRwlock promise, whatever queues they use: a          *)
(* coroutine is granted a lock only if nobody holds it in a conflicting    *)
(* mode, and keeps it until it gives it back.                              *)
(***************************************************************************)
CONSTANTS Cos, Mutexes, Rwlocks

VARIABLE held   \* the lock and mode each coroutine holds, <<>> or <<claim>>

Claims == [lock : Mutexes, mode : {"mutex"}]
          \cup [lock : Rwlocks, mode : {"rd", "wr"}]

\* Two claims that cannot be granted together.
Conflict(a, b) == a.lock = b.lock /\ ~(a.mode = "rd" /\ b.mode = "rd")

Init == held = [c \in Cos |-> <<>>]

Grant(c, a) ==
  /\ held[c] = <<>>
  /\ \A d \in Cos : held[d] # <<>> => ~Conflict(a, held[d][1])
  /\ held' = [held EXCEPT ![c] = <<a>>]

Release(c) ==
  /\ held[c] # <<>>
  /\ held' = [held EXCEPT ![c] = <<>>]

Next == \E c \in Cos : (\E a \in Claims : Grant(c, a)) \/ Release(c)

Spec == Init /\ [][Next]_held
=============================================================================
