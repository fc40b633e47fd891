--------------------------- MODULE CoLocksProofs ---------------------------
(***************************************************************************)
(* Proofs about CoLocks, for any coroutines, locks and number of           *)
(* operations: the fields of a lock describe its holders, the queues share *)
(* the one link of a coroutine, no wakeup is lost, and the locks implement *)
(* the lock service.                                                       *)
(***************************************************************************)
EXTENDS CoLocksExclusion

\* How long a prover may take for a leaf.
USE SMTT(10), ZenonT(20)

-----------------------------------------------------------------------------
(* One queue for each coroutine *)

\* What waking does to the queues, for some set W of waiters of lock l.
Woken(l, W) ==
  /\ W \subseteq Range(entries[l])
  /\ Range(unlock_bh_queue') = Range(unlock_bh_queue) \cup W
  /\ Range(entries'[l]) = Range(entries[l]) \ W
  /\ \A k \in Locks \ {l} : entries'[k] = entries[k]
  /\ IsInjective(unlock_bh_queue') /\ IsInjective(entries'[l])
  /\ (bh' /\ W # {}) \/ (bh' = bh /\ W = {} /\ UNCHANGED <<unlock_bh_queue, entries>>)

\* The queue of a lock has no coroutine in common with the bottom half's.
LEMMA QueuesDisjoint ==
  ASSUME TypeOK, OneQueue, NEW l \in Locks
  PROVE  Range(unlock_bh_queue) \cap Range(entries[l]) = {}
<1>1. \A d \in Range(entries[l]) : d \in Cos
  BY DEF TypeOK, Range
<1> QED BY <1>1 DEF OneQueue

\* qemu_co_queue_next wakes the first waiter if there is any.
LEMMA NextWakes ==
  ASSUME TypeOK, OneQueue, NEW l \in Locks, qemu_co_queue_next(l)
  PROVE  IF entries[l] = <<>> THEN Woken(l, {}) ELSE Woken(l, {Head(entries[l])})
<1>0. /\ entries[l] \in Seq(Cos) /\ unlock_bh_queue \in Seq(Cos)
      /\ IsInjective(entries[l]) /\ IsInjective(unlock_bh_queue)
  BY DEF TypeOK, OneQueue
<1>1. CASE entries[l] = <<>>
  BY <1>0, <1>1 DEF qemu_co_queue_next, Woken
<1>2. CASE entries[l] # <<>>
  <2> DEFINE d == Head(entries[l])
  <2>1. /\ d \in Range(entries[l]) /\ d \in Cos /\ IsInjective(Tail(entries[l]))
        /\ Range(Tail(entries[l])) = Range(entries[l]) \ {d}
    BY <1>0, <1>2, TailElements
  <2>2. d \notin Range(unlock_bh_queue)
    BY <2>1, QueuesDisjoint
  <2>3. /\ Range(Append(unlock_bh_queue, d)) = Range(unlock_bh_queue) \cup {d}
        /\ IsInjective(Append(unlock_bh_queue, d))
    BY <1>0, <2>1, <2>2, AppendElements
  <2>4. /\ unlock_bh_queue' = Append(unlock_bh_queue, d) /\ bh'
        /\ entries'[l] = Tail(entries[l])
        /\ \A k \in Locks \ {l} : entries'[k] = entries[k]
    BY <1>2 DEF qemu_co_queue_next, TypeOK
  <2> HIDE DEF d
  <2>5. Woken(l, {d})
    BY <2>1, <2>3, <2>4 DEF Woken
  <2> QED BY <1>2, <2>5 DEF d
<1> QED BY <1>1, <1>2

\* qemu_co_queue_restart_all wakes all of them.
LEMMA RestartWakes ==
  ASSUME TypeOK, OneQueue, NEW l \in Locks, qemu_co_queue_restart_all(l)
  PROVE  Woken(l, Range(entries[l])) /\ entries'[l] = <<>>
<1>0. /\ entries[l] \in Seq(Cos) /\ unlock_bh_queue \in Seq(Cos)
      /\ IsInjective(entries[l]) /\ IsInjective(unlock_bh_queue)
  BY DEF TypeOK, OneQueue
<1>1. /\ unlock_bh_queue' = unlock_bh_queue \o entries[l]
      /\ bh' = (bh \/ entries[l] # <<>>) /\ entries'[l] = <<>>
      /\ \A k \in Locks \ {l} : entries'[k] = entries[k]
  BY DEF qemu_co_queue_restart_all, TypeOK
<1>2. /\ Range(unlock_bh_queue') = Range(unlock_bh_queue) \cup Range(entries[l])
      /\ IsInjective(unlock_bh_queue')
  BY <1>0, <1>1, QueuesDisjoint, ConcatElements
<1>3. Range(<<>>) = {} /\ IsInjective(<<>>)
  BY DEF Range, IsInjective
<1>4. CASE entries[l] = <<>>
  <2>1. entries' = entries
    BY <1>4 DEF qemu_co_queue_restart_all, TypeOK
  <2>2. unlock_bh_queue' = unlock_bh_queue
    BY <1>0, <1>1, <1>4
  <2>3. bh' = bh
    BY <1>1, <1>4 DEF TypeOK
  <2> QED BY <1>0, <1>1, <1>3, <1>4, <2>1, <2>2, <2>3 DEF Woken
<1>5. CASE entries[l] # <<>>
  <2>1. Range(entries[l]) # {}
    BY <1>0, <1>5, TailElements
  <2> QED BY <1>1, <1>2, <1>3, <1>5, <2>1 DEF Woken
<1> QED BY <1>4, <1>5

\* Waking keeps each coroutine in one queue.
LEMMA WokenOneQueue ==
  ASSUME TypeOK, OneQueue, NEW l \in Locks, NEW W, Woken(l, W), UNCHANGED <<coVars, want>>,
         \A c \in Cos : held'[c] = held[c] \/ held'[c] = <<>>
  PROVE  OneQueue'
<1>1. \A d \in Range(entries[l]) : d \in Cos /\ pc[d] = "wait" /\ want[d][1].lock = l
  BY DEF OneQueue, TypeOK, Range
<1>2. ASSUME NEW c \in Cos, pc'[c] = "wait"
      PROVE  /\ caller'[c] = <<>> /\ want'[c] # <<>> /\ held'[c] = <<>>
             /\ (c \in Range(unlock_bh_queue')) = (c \notin Range(entries'[want'[c][1].lock]))
  <2>1. /\ caller[c] = <<>> /\ want[c] # <<>> /\ held[c] = <<>>
        /\ (c \in Range(unlock_bh_queue)) = (c \notin Range(entries[want[c][1].lock]))
    BY <1>2 DEF OneQueue, coVars
  <2>2. PICK a \in Claims : want[c] = <<a>>
    BY <2>1 DEF TypeOK, Opt
  <2>3. a.lock \in Locks /\ want[c][1].lock = a.lock
    BY <2>2, ClaimType
  <2>4. (c \in Range(unlock_bh_queue')) = (c \notin Range(entries'[a.lock]))
    <3>1. CASE a.lock = l
      BY <2>1, <2>3, <3>1 DEF Woken
    <3>2. CASE a.lock # l
      <4>1. c \notin W
        BY <1>1, <2>3, <3>2 DEF Woken
      <4> QED BY <2>1, <2>3, <3>2, <4>1 DEF Woken
    <3> QED BY <3>1, <3>2
  <2> QED BY <2>1, <2>3, <2>4 DEF coVars
<1>3. IsInjective(unlock_bh_queue') /\ \A c \in Range(unlock_bh_queue') : pc'[c] = "wait"
  BY <1>1 DEF Woken, OneQueue, coVars
<1>4. ASSUME NEW k \in Locks
      PROVE  /\ IsInjective(entries'[k])
             /\ \A c \in Range(entries'[k]) : pc'[c] = "wait" /\ want'[c][1].lock = k
  BY <1>1 DEF Woken, OneQueue, coVars
<1> QED BY <1>2, <1>3, <1>4 DEF OneQueue

\* A coroutine that does not wait is in no queue.
LEMMA NotQueued ==
  ASSUME OneQueue, NEW c \in Cos, pc[c] # "wait"
  PROVE  c \notin Range(unlock_bh_queue) /\ \A l \in Locks : c \notin Range(entries[l])
BY DEF OneQueue

\* What a coroutine does that waits neither before nor after concerns no queue.
LEMMA OneQueueElsewhere ==
  ASSUME OneQueue, NEW c \in Cos, pc[c] # "wait", pc'[c] # "wait",
         UNCHANGED <<entries, unlock_bh_queue>>,
         \A d \in Cos \ {c} : /\ pc'[d] = pc[d] /\ caller'[d] = caller[d]
                             /\ want'[d] = want[d] /\ held'[d] = held[d],
         TypeOK
  PROVE  OneQueue'
<1>1. ASSUME NEW d \in Cos, pc'[d] = "wait"
      PROVE  /\ caller'[d] = <<>> /\ want'[d] # <<>> /\ held'[d] = <<>>
             /\ (d \in Range(unlock_bh_queue')) = (d \notin Range(entries'[want'[d][1].lock]))
  <2>1. d \in Cos \ {c} /\ pc[d] = "wait"
    BY <1>1
  <2> QED BY <2>1 DEF OneQueue
<1>2. ASSUME NEW d \in Range(unlock_bh_queue) PROVE pc'[d] = "wait"
  <2>1. d \in Cos \ {c} /\ pc[d] = "wait"
    BY <1>2 DEF OneQueue, TypeOK, Range
  <2> QED BY <2>1
<1>3. ASSUME NEW l \in Locks, NEW d \in Range(entries[l])
      PROVE  pc'[d] = "wait" /\ want'[d][1].lock = l
  <2>1. d \in Cos \ {c} /\ pc[d] = "wait" /\ want[d][1].lock = l
    BY <1>3 DEF OneQueue, TypeOK, Range
  <2> QED BY <2>1
<1> QED BY <1>1, <1>2, <1>3 DEF OneQueue

\* The running coroutine is in no queue, and may enter one.
LEMMA WaitOneQueue ==
  ASSUME TypeOK, OneQueue, CallChain, NEW c \in Cos, self = c, held[c] = <<>>,
         NEW a \in Claims, qemu_co_queue_wait(c, a), UNCHANGED unlock_bh_queue
  PROVE  OneQueue'
<1>1. pc[c] = "run"
  BY CoLocksAssumption DEF CallChain
<1>2. c \notin Range(unlock_bh_queue) /\ \A l \in Locks : c \notin Range(entries[l])
  BY <1>1, NotQueued
<1>3. a.lock \in Locks /\ entries[a.lock] \in Seq(Cos) /\ IsInjective(entries[a.lock])
  BY ClaimType DEF TypeOK, OneQueue
<1>4. /\ Range(entries'[a.lock]) = Range(entries[a.lock]) \cup {c}
      /\ IsInjective(entries'[a.lock])
      /\ \A k \in Locks \ {a.lock} : entries'[k] = entries[k]
  BY <1>2, <1>3, AppendElements DEF qemu_co_queue_wait, TypeOK
<1>5. /\ want'[c] = <<a>> /\ caller'[c] = <<>> /\ pc'[c] = "wait" /\ held' = held
      /\ \A d \in Cos \ {c} : /\ pc'[d] = pc[d] /\ caller'[d] = caller[d]
                              /\ want'[d] = want[d]
  BY DEF qemu_co_queue_wait, qemu_coroutine_yield, TypeOK
<1>6. ASSUME NEW d \in Cos, pc'[d] = "wait"
      PROVE  /\ caller'[d] = <<>> /\ want'[d] # <<>> /\ held'[d] = <<>>
             /\ (d \in Range(unlock_bh_queue')) = (d \notin Range(entries'[want'[d][1].lock]))
  <2>1. CASE d = c
    <3>1. want'[d][1].lock = a.lock /\ <<a>> # <<>>
      BY <1>5, <2>1
    <3> QED BY <1>2, <1>4, <1>5, <2>1, <3>1
  <2>2. CASE d # c
    <3>1. /\ pc[d] = "wait" /\ caller[d] = <<>> /\ want[d] # <<>> /\ held[d] = <<>>
          /\ (d \in Range(unlock_bh_queue)) = (d \notin Range(entries[want[d][1].lock]))
      BY <1>5, <1>6, <2>2 DEF OneQueue
    <3>2. PICK b \in Claims : want[d] = <<b>>
      BY <3>1, OneClaim, ClaimFields
    <3>3. b.lock \in Locks /\ want[d][1].lock = b.lock
      BY <3>2, ClaimType
    <3>4. (d \in Range(entries'[b.lock])) = (d \in Range(entries[b.lock]))
      BY <1>4, <2>2, <3>3
    <3> QED BY <1>5, <2>2, <3>1, <3>3, <3>4
  <2> QED BY <2>1, <2>2
<1>7. ASSUME NEW d \in Range(unlock_bh_queue) PROVE pc'[d] = "wait"
  <2>1. d \in Cos \ {c} /\ pc[d] = "wait"
    BY <1>2, <1>7 DEF OneQueue, TypeOK, Range
  <2> QED BY <1>5, <2>1
<1>8. ASSUME NEW l \in Locks, NEW d \in Range(entries'[l])
      PROVE  pc'[d] = "wait" /\ want'[d][1].lock = l
  <2>1. CASE d = c
    <3>1. l = a.lock
      BY <1>2, <1>4, <1>8, <2>1
    <3>2. <<a>>[1] = a
      OBVIOUS
    <3> QED BY <1>5, <2>1, <3>1, <3>2
  <2>2. CASE d # c
    <3>1. d \in Range(entries[l])
      BY <1>4, <1>8, <2>2
    <3>2. d \in Cos \ {c} /\ pc[d] = "wait" /\ want[d][1].lock = l
      BY <2>2, <3>1 DEF OneQueue, TypeOK, Range
    <3> QED BY <1>5, <3>2
  <2> QED BY <2>1, <2>2
<1>9. \A l \in Locks : IsInjective(entries'[l])
  BY <1>3, <1>4 DEF OneQueue
<1> QED BY <1>6, <1>7, <1>8, <1>9 DEF OneQueue

\* The bottom half takes the coroutine that it enters out of its queue.
LEMMA BhOneQueue ==
  ASSUME TypeOK, OneQueue, qemu_co_queue_next_bh
  PROVE  OneQueue'
<1>1. CASE unlock_bh_queue = <<>>
  BY <1>1 DEF qemu_co_queue_next_bh, OneQueue, coVars
<1>2. CASE unlock_bh_queue # <<>>
  <2> DEFINE c == Head(unlock_bh_queue)
  <2>0. unlock_bh_queue \in Seq(Cos) /\ IsInjective(unlock_bh_queue)
    BY DEF TypeOK, OneQueue
  <2>1. /\ c \in Range(unlock_bh_queue) /\ c \in Cos
        /\ IsInjective(Tail(unlock_bh_queue))
        /\ Range(Tail(unlock_bh_queue)) = Range(unlock_bh_queue) \ {c}
    BY <1>2, <2>0, TailElements
  <2>2. /\ unlock_bh_queue' = Tail(unlock_bh_queue) /\ UNCHANGED <<entries, want, held>>
        /\ \A d \in Cos : /\ pc'[d] = IF d = c THEN "run" ELSE pc[d]
                          /\ d # c => caller'[d] = caller[d]
    BY <1>2 DEF qemu_co_queue_next_bh, qemu_coroutine_enter, TypeOK
  <2> HIDE DEF c
  <2>3. \A l \in Locks : c \notin Range(entries[l])
    BY <2>1, QueuesDisjoint
  <2>4. ASSUME NEW d \in Cos, pc'[d] = "wait"
        PROVE  /\ caller'[d] = <<>> /\ want'[d] # <<>> /\ held'[d] = <<>>
               /\ (d \in Range(unlock_bh_queue')) = (d \notin Range(entries'[want'[d][1].lock]))
    <3>1. d # c /\ pc[d] = "wait"
      BY <2>2, <2>4
    <3> QED BY <2>1, <2>2, <3>1 DEF OneQueue
  <2>5. ASSUME NEW d \in Range(unlock_bh_queue') PROVE pc'[d] = "wait"
    <3>1. d \in Range(unlock_bh_queue) /\ d # c
      BY <2>1, <2>2, <2>5
    <3>2. d \in Cos /\ pc[d] = "wait"
      BY <3>1 DEF OneQueue, TypeOK, Range
    <3> QED BY <2>2, <3>1, <3>2
  <2>6. ASSUME NEW l \in Locks, NEW d \in Range(entries'[l])
        PROVE  pc'[d] = "wait" /\ want'[d][1].lock = l
    <3>1. d \in Range(entries[l])
      BY <2>2, <2>6
    <3>2. d \in Cos /\ d # c /\ pc[d] = "wait" /\ want[d][1].lock = l
      BY <2>3, <3>1 DEF OneQueue, TypeOK, Range
    <3> QED BY <2>2, <3>2
  <2>7. IsInjective(unlock_bh_queue') /\ \A l \in Locks : IsInjective(entries'[l])
    BY <2>1, <2>2 DEF OneQueue
  <2> QED BY <2>4, <2>5, <2>6, <2>7 DEF OneQueue
<1> QED BY <1>1, <1>2

\* Each way to wake waiters is Woken for some set.
LEMMA UnlocksWakes ==
  ASSUME TypeOK, OneQueue, NEW c \in Cos, NEW a \in Claims, Unlocks(c, a)
  PROVE  \E W : Woken(a.lock, W)
<1>1. a.lock \in Locks
  BY ClaimType
<1>2. UNCHANGED <<entries, unlock_bh_queue, bh>> => Woken(a.lock, {})
  BY <1>1 DEF Woken, OneQueue
<1> QED BY <1>1, <1>2, NextWakes, RestartWakes DEF Unlocks

\* Every step keeps each coroutine in one queue.
LEMMA QueueStep ==
  ASSUME TypeOK, LocksExclude, WaitsForOne, CallChain, OneQueue, [Next]_vars
  PROVE  OneQueue'
<1>1. ASSUME NEW c \in Cos, self = c PROVE pc[c] = "run"
  BY <1>1, CoLocksAssumption DEF CallChain
<1>2. ASSUME NEW c \in Cos, NEW a \in Claims, self = c, held[c] = <<>>, TestLock(c, a),
             UNCHANGED bhVars
      PROVE  OneQueue'
  <2>1. CASE qemu_co_queue_wait(c, a)
    BY <1>2, <2>1, WaitOneQueue DEF bhVars
  <2>2. CASE Take(c, a)
    <3>1. /\ UNCHANGED <<entries, unlock_bh_queue, pc, caller>>
          /\ \A d \in Cos \ {c} : want'[d] = want[d] /\ held'[d] = held[d]
      BY <1>2, <2>2 DEF Take, coVars, bhVars, TypeOK
    <3>2. pc[c] = "run"
      BY <1>1, <1>2
    <3> QED BY <3>1, <3>2, OneQueueElsewhere
  <2> QED BY <1>2, <2>1, <2>2 DEF TestLock
<1>3. ASSUME NEW c \in Cos, qemu_coroutine_enter(c), pc[c] # "wait",
             UNCHANGED <<entries, bhVars, want, held>>
      PROVE  OneQueue'
  BY <1>3, OneQueueElsewhere DEF qemu_coroutine_enter, bhVars, TypeOK
<1>4. ASSUME NEW c \in Cos, qemu_coroutine_create(c) \/ IoDone(c) PROVE OneQueue'
  BY <1>3, <1>4 DEF qemu_coroutine_create, IoDone
<1>5. ASSUME NEW c \in Cos, YieldForIo(c) \/ Terminate(c) PROVE OneQueue'
  <2>1. PICK why \in {"io", "none"} : qemu_coroutine_yield(c, why)
    BY <1>5 DEF YieldForIo, Terminate
  <2>2. self = c /\ UNCHANGED <<entries, unlock_bh_queue, want, held>>
    BY <1>5 DEF YieldForIo, Terminate, CoRuns, bhVars
  <2>3. pc[c] # "wait" /\ pc'[c] # "wait"
    BY <1>1, <2>1, <2>2 DEF qemu_coroutine_yield, TypeOK
  <2>4. \A d \in Cos \ {c} : pc'[d] = pc[d] /\ caller'[d] = caller[d]
    BY <2>1 DEF qemu_coroutine_yield, TypeOK
  <2> QED BY <2>2, <2>3, <2>4, OneQueueElsewhere
<1>6. ASSUME NEW c \in Cos, NEW a \in Claims, Lock(c, a) PROVE OneQueue'
  BY <1>2, <1>6 DEF Lock, CoRuns
<1>7. ASSUME NEW c \in Cos, LockAgain(c) PROVE OneQueue'
  <2>1. PICK a \in Claims : want[c] = <<a>> /\ held[c] = <<>>
    BY <1>7 DEF LockAgain, TypeOK, Opt, WaitsForOne
  <2> QED BY <1>2, <1>7, <2>1 DEF LockAgain
<1>8. ASSUME NEW c \in Cos, Unlock(c) PROVE OneQueue'
  <2>1. PICK a \in Claims : Unlocks(c, a)
    BY <1>8, UnlockEffect
  <2>2. PICK W : Woken(a.lock, W)
    BY <2>1, UnlocksWakes
  <2>3. \A d \in Cos : held'[d] = held[d] \/ held'[d] = <<>>
    BY <2>1 DEF Unlocks, TypeOK
  <2>4. a.lock \in Locks /\ UNCHANGED <<coVars, want>>
    BY <2>1, ClaimType DEF Unlocks
  <2> QED BY <2>2, <2>3, <2>4, WokenOneQueue
<1>9. BhStarts \/ UNCHANGED vars => OneQueue'
  BY DEF BhStarts, vars, OneQueue, coVars, bhVars
<1> QED BY <1>4, <1>5, <1>6, <1>7, <1>8, <1>9, BhOneQueue DEF Next, CoNext

-----------------------------------------------------------------------------
(* Wakeups *)

\* Somebody holds lock l, or is about to test it outside its queue.
Attended(l) ==
  \/ \E c \in Cos : held[c] # <<>> /\ held[c][1].lock = l
  \/ \E c \in Cos : want[c] # <<>> /\ want[c][1].lock = l /\ c \notin Range(entries[l])

\* NoLostWakeup, by lock.
LEMMA WakeupByLock ==
  /\ NoLostWakeup <=> /\ \A l \in Locks : entries[l] # <<>> => Attended(l)
                      /\ unlock_bh_queue # <<>> => bh \/ in_bh
  /\ NoLostWakeup' <=> /\ \A l \in Locks : entries'[l] # <<>> => Attended(l)'
                       /\ unlock_bh_queue' # <<>> => bh' \/ in_bh'
BY DEF NoLostWakeup, Attended

\* A lock that is found busy has a holder.
LEMMA BusyIsHeld ==
  ASSUME TypeOK, LocksExclude, NEW a \in Claims, Busy(a)
  PROVE  \E d \in Cos : held[d] # <<>> /\ held[d][1].lock = a.lock
<1>1. CountsAgree
  BY ExcludeCount
<1>2. \E m \in {"mutex", "rd", "wr"} : Count(a.lock, m) # 0
  <2>1. CASE a.mode = "mutex"
    BY <1>1, <2>1, ClaimType DEF Busy, CountsAgree
  <2>2. CASE a.mode = "rd"
    BY <1>1, <2>2, ClaimType DEF Busy, CountsAgree
  <2>3. CASE a.mode = "wr"
    BY <1>1, <2>3, ClaimType DEF Busy, CountsAgree
  <2> QED BY <2>1, <2>2, <2>3, ClaimType
<1>3. PICK m \in {"mutex", "rd", "wr"}, d \in Cos : held[d] = <<[lock |-> a.lock, mode |-> m]>>
  BY <1>2, CountType
<1>4. held[d] # <<>> /\ held[d][1].lock = a.lock
  BY <1>3
<1> QED BY <1>4

\* Testing a lock leaves it, and every other one, attended.
LEMMA TestAttended ==
  ASSUME TypeOK, LocksExclude, NoLostWakeup, NEW c \in Cos, NEW a \in Claims,
         held[c] = <<>>, want[c] \in {<<>>, <<a>>}, TestLock(c, a), UNCHANGED bhVars
  PROVE  NoLostWakeup'
<1>0. a.lock \in Locks /\ <<a>> # <<>> /\ <<a>>[1] = a
  BY ClaimType
<1>1. \A l \in Locks : entries[l] # <<>> => Attended(l)
  BY WakeupByLock
<1>2. ASSUME NEW l \in Locks, l # a.lock, entries'[l] # <<>> PROVE Attended(l)'
  <2>1. /\ entries'[l] = entries[l]
        /\ \A d \in Cos \ {c} : want'[d] = want[d] /\ held'[d] = held[d]
    BY <1>0, <1>2 DEF TestLock, Take, qemu_co_queue_wait, TypeOK
  <2>2. CASE \E d \in Cos : held[d] # <<>> /\ held[d][1].lock = l
    BY <2>1, <2>2 DEF Attended
  <2>3. CASE \E d \in Cos : want[d] # <<>> /\ want[d][1].lock = l
                           /\ d \notin Range(entries[l])
    <3>1. PICK d \in Cos : want[d] # <<>> /\ want[d][1].lock = l
                            /\ d \notin Range(entries[l])
      BY <2>3
    <3>2. d # c
      BY <1>0, <1>2, <3>1
    <3> QED BY <2>1, <3>1, <3>2 DEF Attended
  <2> QED BY <1>1, <1>2, <2>1, <2>2, <2>3 DEF Attended
<1>3. Attended(a.lock)'
  <2>1. CASE Take(c, a)
    <3>1. held'[c] = <<a>>
      BY <2>1 DEF Take, TypeOK
    <3> QED BY <1>0, <3>1 DEF Attended
  <2>2. CASE Busy(a) /\ qemu_co_queue_wait(c, a)
    BY <2>2, BusyIsHeld DEF qemu_co_queue_wait, Attended
  <2> QED BY <2>1, <2>2 DEF TestLock
<1>4. unlock_bh_queue' # <<>> => bh' \/ in_bh'
  BY DEF bhVars, NoLostWakeup
<1> QED BY <1>2, <1>3, <1>4, WakeupByLock

\* An unlock leaves its lock attended: a waiter is woken, unless there is none
\* or the lock has other readers.
LEMMA UnlockAttended ==
  ASSUME TypeOK, LocksExclude, OneQueue, NEW c \in Cos, NEW a \in Claims, Unlocks(c, a),
         entries'[a.lock] # <<>>
  PROVE  Attended(a.lock)'
<1>0. a.lock \in Locks /\ a = [lock |-> a.lock, mode |-> a.mode]
  BY ClaimType
<1>1. ASSUME qemu_co_queue_next(a.lock) PROVE Attended(a.lock)'
  <2>1. CASE entries[a.lock] = <<>>
    <3>1. Woken(a.lock, {})
      BY <1>0, <1>1, <2>1, NextWakes
    <3> QED BY <2>1, <3>1 DEF Woken
  <2>2. CASE entries[a.lock] # <<>>
    <3>1. Woken(a.lock, {Head(entries[a.lock])})
      BY <1>0, <1>1, <2>2, NextWakes
    <3>2. PICK d \in Range(entries[a.lock]) : d \notin Range(entries'[a.lock])
      BY <3>1 DEF Woken
    <3>3. d \in Cos /\ want[d] # <<>> /\ want[d][1].lock = a.lock
      BY <1>0, <3>2 DEF OneQueue, TypeOK, Range
    <3> QED BY <3>2, <3>3 DEF Attended, Unlocks
  <2> QED BY <2>1, <2>2
<1>2. ASSUME a.mode = "rd", reader[a.lock] # 1 PROVE Attended(a.lock)'
  <2> DEFINE H == Holders(a.lock, {"rd"})
  <2>1. a.lock \in Rwlocks /\ Cardinality(H) # 1
    BY <1>2, ExcludeCount DEF Unlocks, CountsAgree, Count
  <2>2. c \in H
    BY <1>0, <1>2 DEF Unlocks, Holders
  <2>3. H # {c}
    BY <2>1, FS_Singleton
  <2>4. PICK d \in H : d # c
    BY <2>2, <2>3
  <2>5. d \in Cos /\ held[d] = <<[lock |-> a.lock, mode |-> "rd"]>>
    BY <2>4 DEF Holders
  <2>6. held'[d] = <<[lock |-> a.lock, mode |-> "rd"]>>
    BY <2>4, <2>5 DEF Unlocks, TypeOK
  <2>7. held'[d] # <<>> /\ held'[d][1] = [lock |-> a.lock, mode |-> "rd"]
    BY Zenon, <2>6, OneClaim
  <2> QED BY <2>5, <2>7 DEF Attended
<1>3. ASSUME qemu_co_queue_restart_all(a.lock) PROVE FALSE
  BY <1>0, <1>3, RestartWakes
<1> QED BY <1>1, <1>2, <1>3 DEF Unlocks

\* Every step keeps the wakeups.
LEMMA WakeupStep ==
  ASSUME TypeOK, LocksExclude, WaitsForOne, OneQueue, NoLostWakeup, [Next]_vars
  PROVE  NoLostWakeup'
<1>1. ASSUME UNCHANGED <<entries, bhVars, want, held>> PROVE NoLostWakeup'
  BY <1>1 DEF NoLostWakeup, bhVars
<1>2. ASSUME NEW c \in Cos, \/ qemu_coroutine_create(c) \/ IoDone(c)
                            \/ YieldForIo(c) \/ Terminate(c)
      PROVE  NoLostWakeup'
  BY <1>1, <1>2 DEF qemu_coroutine_create, IoDone, YieldForIo, Terminate
<1>3. ASSUME NEW c \in Cos, NEW a \in Claims, Lock(c, a) PROVE NoLostWakeup'
  BY <1>3, TestAttended DEF Lock, CoRuns
<1>4. ASSUME NEW c \in Cos, LockAgain(c) PROVE NoLostWakeup'
  <2>1. PICK a \in Claims : want[c] = <<a>> /\ held[c] = <<>>
    BY <1>4 DEF LockAgain, TypeOK, Opt, WaitsForOne
  <2>2. TestLock(c, a) /\ UNCHANGED bhVars
    BY <1>4, <2>1 DEF LockAgain
  <2> QED BY <2>1, <2>2, TestAttended
<1>5. ASSUME NEW c \in Cos, Unlock(c) PROVE NoLostWakeup'
  <2>1. PICK a \in Claims : Unlocks(c, a)
    BY <1>5, UnlockEffect
  <2>2. PICK W : Woken(a.lock, W)
    BY <2>1, UnlocksWakes
  <2>3. ASSUME NEW l \in Locks, l # a.lock, entries'[l] # <<>> PROVE Attended(l)'
    <3>1. entries'[l] = entries[l] /\ Attended(l)
      BY <2>2, <2>3, WakeupByLock DEF Woken
    <3>2. held[c][1].lock = a.lock
      BY <2>1 DEF Unlocks
    <3>3. want' = want /\ \A d \in Cos \ {c} : held'[d] = held[d]
      BY <2>1 DEF Unlocks, TypeOK
    <3> QED BY <2>3, <3>1, <3>2, <3>3 DEF Attended
  <2>4. unlock_bh_queue' # <<>> => bh' \/ in_bh'
    BY <2>1, <2>2 DEF Woken, Unlocks, NoLostWakeup
  <2> QED BY <2>1, <2>3, <2>4, UnlockAttended, WakeupByLock
<1>6. BhStarts \/ qemu_co_queue_next_bh \/ UNCHANGED vars => NoLostWakeup'
  BY <1>1 DEF BhStarts, qemu_co_queue_next_bh, vars, NoLostWakeup
<1> QED BY <1>2, <1>3, <1>4, <1>5, <1>6 DEF Next, CoNext

-----------------------------------------------------------------------------
(* Readers wait for a writer *)

\* A test adds a reader to a queue only behind a writer.
LEMMA TestReaders ==
  ASSUME TypeOK, OneQueue, CallChain, ReadersWaitForWriter, NEW c \in Cos, self = c,
         NEW a \in Claims, TestLock(c, a)
  PROVE  ReadersWaitForWriter'
<1>1. pc[c] # "wait"
  BY CoLocksAssumption DEF CallChain
<1>2. ASSUME NEW l \in Rwlocks, NEW d \in Range(entries[l])
      PROVE  want'[d] = want[d] /\ (writer[l] => writer'[l])
  <2>1. l \in Locks /\ d \in Cos
    BY <1>2 DEF TypeOK, Range, Locks
  <2>2. d # c
    BY <1>1, <1>2, <2>1, NotQueued
  <2>3. want'[d] = want[d]
    BY <2>1, <2>2 DEF TestLock, Take, qemu_co_queue_wait, TypeOK
  <2>4. writer[l] => writer'[l]
    BY <1>2 DEF TestLock, Take, qemu_co_queue_wait, lockVars, TypeOK
  <2> QED BY <2>3, <2>4
<1>3. CASE Take(c, a)
  BY <1>2, <1>3 DEF Take, ReadersWaitForWriter
<1>4. CASE Busy(a) /\ qemu_co_queue_wait(c, a)
  <2>1. a.lock \in Locks /\ entries[a.lock] \in Seq(Cos)
    BY ClaimType DEF TypeOK
  <2>2. /\ Range(entries'[a.lock]) = Range(entries[a.lock]) \cup {c}
        /\ \A k \in Locks \ {a.lock} : entries'[k] = entries[k]
    BY <1>4, <2>1, AppendElements DEF qemu_co_queue_wait, TypeOK
  <2>3. want'[c][1] = a /\ writer' = writer
    BY <1>4 DEF qemu_co_queue_wait, TypeOK, lockVars
  <2>4. ASSUME NEW l \in Rwlocks, NEW d \in Range(entries'[l]), want'[d][1].mode = "rd"
        PROVE  writer'[l]
    <3>1. CASE d \in Range(entries[l])
      BY <1>2, <2>4, <3>1 DEF ReadersWaitForWriter
    <3>2. CASE d \notin Range(entries[l])
      <4>1. l = a.lock /\ d = c
        BY <2>2, <2>4, <3>2 DEF Locks
      <4> QED BY <1>4, <2>3, <2>4, <4>1 DEF Busy
    <3> QED BY <3>1, <3>2
  <2> QED BY <2>4 DEF ReadersWaitForWriter
<1> QED BY <1>3, <1>4 DEF TestLock

\* Every step keeps readers behind a writer.
LEMMA ReadersStep ==
  ASSUME TypeOK, LocksExclude, CallChain, OneQueue, ReadersWaitForWriter, [Next]_vars
  PROVE  ReadersWaitForWriter'
<1>1. ASSUME UNCHANGED <<lockVars, entries, want>> PROVE ReadersWaitForWriter'
  BY <1>1 DEF ReadersWaitForWriter, lockVars
<1>2. ASSUME NEW c \in Cos, \/ qemu_coroutine_create(c) \/ IoDone(c)
                            \/ YieldForIo(c) \/ Terminate(c)
      PROVE  ReadersWaitForWriter'
  BY <1>1, <1>2 DEF qemu_coroutine_create, IoDone, YieldForIo, Terminate
<1>3. ASSUME NEW c \in Cos, NEW a \in Claims, Lock(c, a) PROVE ReadersWaitForWriter'
  BY <1>3, TestReaders DEF Lock, CoRuns
<1>4. ASSUME NEW c \in Cos, LockAgain(c) PROVE ReadersWaitForWriter'
  <2>1. PICK a \in Claims : want[c] = <<a>>
    BY <1>4 DEF LockAgain, TypeOK, Opt
  <2>2. TestLock(c, a) /\ self = c
    BY <1>4, <2>1 DEF LockAgain
  <2> QED BY <2>2, TestReaders
<1>5. ASSUME NEW c \in Cos, Unlock(c) PROVE ReadersWaitForWriter'
  <2>1. PICK a \in Claims : Unlocks(c, a)
    BY <1>5, UnlockEffect
  <2>2. PICK W : Woken(a.lock, W)
    BY <2>1, UnlocksWakes
  <2>3. want' = want /\ a.lock \in Locks
    BY <2>1, ClaimType DEF Unlocks
  <2>4. ASSUME NEW l \in Rwlocks, NEW d \in Range(entries'[l]), want'[d][1].mode = "rd"
        PROVE  writer'[l]
    <3>1. d \in Range(entries[l])
      BY <2>2, <2>4 DEF Woken, Locks
    <3>2. writer[l]
      BY <2>3, <2>4, <3>1 DEF ReadersWaitForWriter
    <3>3. CASE writer' = writer
      BY <3>2, <3>3
    <3>4. CASE qemu_co_queue_restart_all(a.lock) /\ writer' = [writer EXCEPT ![a.lock] = FALSE]
      <4>1. entries'[a.lock] = <<>>
        BY <2>3, <3>4, RestartWakes
      <4>2. l # a.lock
        BY <2>4, <4>1 DEF Range
      <4> QED BY <3>2, <3>4, <4>2 DEF TypeOK
    <3> QED BY <2>1, <3>3, <3>4 DEF Unlocks
  <2> QED BY <2>4 DEF ReadersWaitForWriter
<1>6. BhStarts \/ qemu_co_queue_next_bh \/ UNCHANGED vars => ReadersWaitForWriter'
  BY <1>1 DEF BhStarts, qemu_co_queue_next_bh, vars
<1> QED BY <1>2, <1>3, <1>4, <1>5, <1>6 DEF Next, CoNext

-----------------------------------------------------------------------------
(* The theorems *)

\* The inductive invariant.  Exclusion and the call chain hold up each other
\* and the rest: that an unlock knows readers from writers needs exclusion, and
\* that only a coroutine in no queue starts to wait needs the chain.
IInv ==
  /\ TypeOK /\ WaitsForOne /\ LocksExclude /\ CallChain
  /\ OneQueue /\ NoLostWakeup /\ ReadersWaitForWriter

\* It holds at the beginning.
LEMMA InitIInv == Init => IInv
<1> SUFFICES ASSUME Init PROVE IInv
  OBVIOUS
<1> USE DEF Init
<1>1. TypeOK
  <2>1. <<>> \in Opt(Claims) /\ <<>> \in Opt(Cos \cup {Leader})
    BY DEF Opt
  <2>2. <<>> \in Seq(Cos) /\ 0 \in 0..MaxOps
    BY CoLocksAssumption
  <2> QED BY <2>1, <2>2 DEF TypeOK
<1>2. WaitsForOne /\ CallChain
  BY DEF WaitsForOne, CallChain
<1>3. LocksExclude
  <2>1. \A l, m : <<>> # <<[lock |-> l, mode |-> m]>>
    OBVIOUS
  <2>2. \A l, m : Count(l, m) = 0
    BY <2>1, CountType
  <2> QED BY <2>2, ExcludeCount DEF CountsAgree
<1>4. Range(<<>>) = {} /\ IsInjective(<<>>)
  BY DEF Range, IsInjective
<1>5. OneQueue /\ NoLostWakeup /\ ReadersWaitForWriter
  BY <1>4 DEF OneQueue, NoLostWakeup, ReadersWaitForWriter, Locks
<1> QED BY <1>1, <1>2, <1>3, <1>5 DEF IInv

\* The locks keep their invariants, for any coroutines, locks and operations.
THEOREM LocksSafe == Spec => []IInv
<1>1. ASSUME IInv, [Next]_vars PROVE IInv'
  BY <1>1, TypeStep, ExcludeStep, ChainStep, QueueStep, WakeupStep, ReadersStep DEF IInv
<1> QED BY <1>1, InitIInv, PTL DEF Spec

\* A CoMutex or a CoRwlock excludes, and its fields tell who holds it.
THEOREM ExclusionCorrect == Spec => []LocksExclude
<1>1. IInv => LocksExclude
  BY DEF IInv
<1> QED BY <1>1, LocksSafe, PTL

\* A coroutine is in one queue at most, so its one link is enough, and the bottom
\* half never enters a coroutine that is already entered.
THEOREM QueuesCorrect == Spec => [](OneQueue /\ CallChain)
<1>1. IInv => OneQueue /\ CallChain
  BY DEF IInv
<1> QED BY <1>1, LocksSafe, PTL

\* No unlock forgets a waiter.
THEOREM WakeupCorrect == Spec => []NoLostWakeup
<1>1. IInv => NoLostWakeup
  BY DEF IInv
<1> QED BY <1>1, LocksSafe, PTL

\* "Wakeup only one waiting writer": when the last reader unlocks, no reader waits.
THEOREM ReadersCorrect == Spec => []ReadersWaitForWriter
<1>1. IInv => ReadersWaitForWriter
  BY DEF IInv
<1> QED BY <1>1, LocksSafe, PTL

\* A lock that is found free conflicts with nobody's.
LEMMA FreeIsGranted ==
  ASSUME TypeOK, LocksExclude, NEW c \in Cos, NEW a \in Claims, held[c] = <<>>,
         TestLock(c, a)
  PROVE  Abs!Grant(c, a) \/ UNCHANGED held
<1>1. CASE qemu_co_queue_wait(c, a)
  BY <1>1 DEF qemu_co_queue_wait
<1>2. CASE ~Busy(a) /\ Take(c, a)
  <2>1. held' = [held EXCEPT ![c] = <<a>>]
    BY <1>2 DEF Take
  <2>2. ASSUME NEW d \in Cos, held[d] # <<>>, Abs!Conflict(a, held[d][1]) PROVE FALSE
    <3>1. PICK b \in Claims : held[d] = <<b>>
      BY <2>2, OneClaim, ClaimFields
    <3>2. b.lock = a.lock /\ ~(a.mode = "rd" /\ b.mode = "rd")
      BY <2>2, <3>1 DEF Abs!Conflict
    <3>a. held[d] = <<[lock |-> b.lock, mode |-> b.mode]>>
      BY <3>1, ClaimType
    <3>3. Count(b.lock, b.mode) # 0
      BY <3>a, CountType
    <3>4. CountsAgree
      BY ExcludeCount
    <3>5. CASE a.mode = "mutex"
      BY <1>2, <3>2, <3>3, <3>4, <3>5, ClaimType DEF CountsAgree, Busy
    <3>6. CASE a.mode = "rd"
      BY <1>2, <3>2, <3>3, <3>4, <3>6, ClaimType DEF CountsAgree, Busy
    <3>7. CASE a.mode = "wr"
      BY <1>2, <3>2, <3>3, <3>4, <3>7, ClaimType DEF CountsAgree, Busy
    <3> QED BY <3>5, <3>6, <3>7, ClaimType
  <2> QED BY <2>1, <2>2 DEF Abs!Grant
<1> QED BY <1>1, <1>2 DEF TestLock

\* CoMutex and CoRwlock implement the lock service: a coroutine gets a lock only
\* if nobody has it in a conflicting mode, whoever has barged in meanwhile.
THEOREM ServiceCorrect == Spec => ImplementsLockService
<1>1. Init => Abs!Init
  BY DEF Init, Abs!Init
<1>2. ASSUME IInv, [Next]_vars PROVE [Abs!Next]_held
  <2>1. ASSUME NEW c \in Cos, NEW a \in Claims, Lock(c, a) PROVE [Abs!Next]_held
    BY <1>2, <2>1, FreeIsGranted DEF IInv, Lock, Abs!Next, Claims
  <2>2. ASSUME NEW c \in Cos, LockAgain(c) PROVE [Abs!Next]_held
    <3>1. PICK a \in Claims : want[c] = <<a>> /\ held[c] = <<>>
      BY <1>2, <2>2 DEF LockAgain, IInv, TypeOK, Opt, WaitsForOne
    <3>2. TestLock(c, a)
      BY <2>2, <3>1 DEF LockAgain
    <3> QED BY <1>2, <3>1, <3>2, FreeIsGranted DEF IInv, Abs!Next, Claims
  <2>3. ASSUME NEW c \in Cos, Unlock(c) PROVE [Abs!Next]_held
    BY <2>3 DEF Unlock, Abs!Next, Abs!Release
  <2>4. ASSUME NEW c \in Cos, \/ qemu_coroutine_create(c) \/ IoDone(c)
                              \/ YieldForIo(c) \/ Terminate(c)
        PROVE  UNCHANGED held
    BY <2>4 DEF qemu_coroutine_create, IoDone, YieldForIo, Terminate
  <2>5. BhStarts \/ qemu_co_queue_next_bh \/ UNCHANGED vars => UNCHANGED held
    BY DEF BhStarts, qemu_co_queue_next_bh, vars
  <2> QED BY <1>2, <2>1, <2>2, <2>3, <2>4, <2>5 DEF Next, CoNext
<1> QED BY <1>1, <1>2, LocksSafe, PTL DEF Spec, Abs!Spec, ImplementsLockService
=============================================================================
