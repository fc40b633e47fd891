------------------------- MODULE CoLocksExclusion -------------------------
(***************************************************************************)
(* Proofs about CoLocks, for any coroutines, locks and number of           *)
(* operations: every step keeps the types, the fields of a lock describe   *)
(* its holders, and who enters a coroutine is its caller.                  *)
(***************************************************************************)
EXTENDS CoLocks, ListLemmas, FiniteSetTheorems

-----------------------------------------------------------------------------
(* Types *)

\* What a claim is made of.
LEMMA ClaimType ==
  ASSUME NEW a \in Claims
  PROVE  /\ a = [lock |-> a.lock, mode |-> a.mode]
         /\ a.lock \in Locks
         /\ \/ a.lock \in Mutexes /\ a.lock \notin Rwlocks /\ a.mode = "mutex"
            \/ a.lock \in Rwlocks /\ a.lock \notin Mutexes /\ a.mode \in {"rd", "wr"}
BY CoLocksAssumption DEF Claims, Abs!Claims, Locks

\* What a coroutine holds or wants is nothing or one claim (an option is a sequence).
LEMMA OneClaim ==
  /\ \A S : \A x \in Opt(S) : x # <<>> => \E b \in S : x = <<b>>
  /\ \A b : <<b>> # <<>> /\ <<b>>[1] = b
BY DEF Opt

\* The fields of a coroutine that hold claims.
LEMMA ClaimFields ==
  ASSUME TypeOK, NEW d \in Cos
  PROVE  held[d] \in Opt(Claims) /\ want[d] \in Opt(Claims)
BY DEF TypeOK

\* A coroutine that is entered becomes the running one.
LEMMA EnterType ==
  ASSUME TypeOK, NEW c \in Cos, qemu_coroutine_enter(c)
  PROVE  (self \in Cos \cup {Leader} /\ caller \in [Cos -> Opt(Cos \cup {Leader})]
          /\ pc \in [Cos -> {"none", "run", "io", "wait"}])'
BY DEF TypeOK, qemu_coroutine_enter, Opt

\* One that yields or ends returns to its caller.
LEMMA YieldType ==
  ASSUME TypeOK, NEW c \in Cos, NEW why \in {"none", "io", "wait"},
         qemu_coroutine_yield(c, why)
  PROVE  (self \in Cos \cup {Leader} /\ caller \in [Cos -> Opt(Cos \cup {Leader})]
          /\ pc \in [Cos -> {"none", "run", "io", "wait"}])'
BY DEF TypeOK, qemu_coroutine_yield, Opt

\* Taking a lock or waiting for it keeps the types.
LEMMA TestLockType ==
  ASSUME TypeOK, NEW c \in Cos, NEW a \in Claims, TestLock(c, a),
         UNCHANGED bhVars, (ops \in 0..MaxOps)'
  PROVE  TypeOK'
<1> USE DEF bhVars
<1>1. CASE Take(c, a)
  <2>1. (locked \in [Mutexes -> BOOLEAN] /\ writer \in [Rwlocks -> BOOLEAN]
         /\ reader \in [Rwlocks -> Nat])'
    <3>1. CASE a.mode = "mutex"
      BY <1>1, <3>1, ClaimType DEF Take, TypeOK
    <3>2. CASE a.mode = "rd"
      <4>1. reader[a.lock] + 1 \in Nat
        BY <3>2, ClaimType DEF TypeOK
      <4> QED BY <1>1, <3>2, <4>1 DEF Take, TypeOK
    <3>3. CASE a.mode = "wr"
      BY <1>1, <3>3, ClaimType DEF Take, TypeOK
    <3> QED BY <3>1, <3>2, <3>3, ClaimType
  <2>2. (want \in [Cos -> Opt(Claims)] /\ held \in [Cos -> Opt(Claims)])'
    BY <1>1 DEF Take, TypeOK, Opt
  <2> QED BY <1>1, <2>1, <2>2 DEF Take, TypeOK, coVars
<1>2. CASE qemu_co_queue_wait(c, a)
  <2>1. (entries \in [Locks -> Seq(Cos)])'
    BY <1>2, ClaimType DEF qemu_co_queue_wait, TypeOK
  <2>2. (want \in [Cos -> Opt(Claims)])'
    BY <1>2 DEF qemu_co_queue_wait, TypeOK, Opt
  <2>3. qemu_coroutine_yield(c, "wait")
    BY <1>2 DEF qemu_co_queue_wait
  <2> QED BY <1>2, <2>1, <2>2, <2>3, YieldType DEF qemu_co_queue_wait, TypeOK, lockVars
<1> QED BY <1>1, <1>2 DEF TestLock

\* What the two ways of waking waiters do to the queues.
LEMMA WakeType ==
  ASSUME TypeOK, NEW l \in Locks,
         qemu_co_queue_next(l) \/ qemu_co_queue_restart_all(l)
                               \/ UNCHANGED <<entries, unlock_bh_queue, bh>>
  PROVE  (entries \in [Locks -> Seq(Cos)] /\ unlock_bh_queue \in Seq(Cos) /\ bh \in BOOLEAN)'
<1>1. entries[l] \in Seq(Cos) /\ unlock_bh_queue \in Seq(Cos)
  BY DEF TypeOK
<1>2. CASE qemu_co_queue_next(l)
  <2>1. CASE entries[l] = <<>>
    BY <1>2, <2>1 DEF qemu_co_queue_next, TypeOK
  <2>2. CASE entries[l] # <<>>
    <3>1. Head(entries[l]) \in Cos /\ Tail(entries[l]) \in Seq(Cos)
      BY <1>1, <2>2
    <3>2. Append(unlock_bh_queue, Head(entries[l])) \in Seq(Cos)
      BY <1>1, <3>1
    <3> QED BY <1>2, <2>2, <3>1, <3>2 DEF qemu_co_queue_next, TypeOK
  <2> QED BY <2>1, <2>2
<1>3. CASE qemu_co_queue_restart_all(l)
  BY <1>1, <1>3 DEF qemu_co_queue_restart_all, TypeOK
<1>4. CASE UNCHANGED <<entries, unlock_bh_queue, bh>>
  BY <1>4 DEF TypeOK
<1> QED BY <1>2, <1>3, <1>4

\* The holder of a lock: its claim, and what Unlock does.
LEMMA UnlockCase ==
  ASSUME TypeOK, NEW c \in Cos, Unlock(c)
  PROVE  \E a \in Claims :
           /\ held[c] = <<a>>
           /\ \/ a.mode = "mutex" /\ qemu_co_mutex_unlock(a.lock)
              \/ a.mode \in {"rd", "wr"} /\ qemu_co_rwlock_unlock(a.lock)
<1>1. PICK a \in Claims : held[c] = <<a>>
  BY DEF Unlock, TypeOK, Opt
<1>2. held[c][1].lock = a.lock
  BY <1>1
<1>3. IF a.lock \in Mutexes THEN qemu_co_mutex_unlock(a.lock)
                            ELSE qemu_co_rwlock_unlock(a.lock)
  BY <1>2 DEF Unlock
<1> QED BY <1>1, <1>3, ClaimType

-----------------------------------------------------------------------------
(* Counting the holders of a lock *)

Count(l, m) == Cardinality(Holders(l, {m}))

\* The number of holders is a natural number, and 0 means that there is none.
LEMMA CountType ==
  ASSUME NEW l, NEW m
  PROVE  /\ IsFiniteSet(Holders(l, {m})) /\ Count(l, m) \in Nat
         /\ Count(l, m) = 0 <=> \A c \in Cos : held[c] # <<[lock |-> l, mode |-> m]>>
<1>1. IsFiniteSet(Holders(l, {m}))
  BY CoLocksAssumption, FS_Subset DEF Holders
<1>2. Holders(l, {m}) = {} <=> \A c \in Cos : held[c] # <<[lock |-> l, mode |-> m]>>
  BY DEF Holders
<1> QED BY <1>1, <1>2, FS_CardinalityType, FS_EmptySet DEF Count

\* A coroutine that takes a lock is one more holder.
LEMMA CountTake ==
  ASSUME TypeOK, NEW c \in Cos, NEW a \in Claims, held[c] = <<>>,
         held' = [held EXCEPT ![c] = <<a>>], NEW l, NEW m
  PROVE  Count(l, m)' = IF a.lock = l /\ a.mode = m THEN Count(l, m) + 1 ELSE Count(l, m)
<1>1. \A d \in Cos : held'[d] = IF d = c THEN <<a>> ELSE held[d]
  BY DEF TypeOK
<1>b. a = [lock |-> l, mode |-> m] <=> a.lock = l /\ a.mode = m
  BY ClaimType
<1>a. <<>> # <<[lock |-> l, mode |-> m]>>
  OBVIOUS
<1>2. IsFiniteSet(Holders(l, {m})) /\ c \notin Holders(l, {m})
  BY <1>a, CountType DEF Holders
<1>3. CASE a = [lock |-> l, mode |-> m]
  <2>1. Holders(l, {m})' = Holders(l, {m}) \cup {c}
    BY <1>1, <1>3 DEF Holders
  <2> QED BY <1>2, <1>3, <2>1, FS_AddElement DEF Count
<1>4. CASE a # [lock |-> l, mode |-> m]
  <2>1. <<a>> # <<[lock |-> l, mode |-> m]>>
    BY <1>4
  <2>2. Holders(l, {m})' = Holders(l, {m})
    BY <1>1, <1>2, <2>1 DEF Holders
  <2> QED BY <1>4, <1>b, <2>2 DEF Count
<1> QED BY <1>3, <1>4

\* One that gives a lock back is one less.
LEMMA CountRelease ==
  ASSUME TypeOK, NEW c \in Cos, NEW a \in Claims, held[c] = <<a>>,
         held' = [held EXCEPT ![c] = <<>>], NEW l, NEW m
  PROVE  Count(l, m)' = IF a.lock = l /\ a.mode = m THEN Count(l, m) - 1 ELSE Count(l, m)
<1>b. a = [lock |-> l, mode |-> m] <=> a.lock = l /\ a.mode = m
  BY ClaimType
<1>1. \A d \in Cos : held'[d] = IF d = c THEN <<>> ELSE held[d]
  BY DEF TypeOK
<1>2. IsFiniteSet(Holders(l, {m}))
  BY CountType
<1>3. CASE a = [lock |-> l, mode |-> m]
  <2>1. c \in Holders(l, {m}) /\ Holders(l, {m})' = Holders(l, {m}) \ {c}
    BY <1>1, <1>3 DEF Holders
  <2> QED BY <1>2, <1>3, <2>1, FS_RemoveElement DEF Count
<1>4. CASE a # [lock |-> l, mode |-> m]
  <2>1. <<a>> # <<[lock |-> l, mode |-> m]>>
    BY <1>4
  <2>2. Holders(l, {m})' = Holders(l, {m})
    BY <1>1, <2>1 DEF Holders
  <2> QED BY <1>4, <1>b, <2>2 DEF Count
<1> QED BY <1>3, <1>4

\* LocksExclude in terms of Count.
CountsAgree ==
  /\ \A l \in Mutexes : Count(l, "mutex") = IF locked[l] THEN 1 ELSE 0
  /\ \A l \in Rwlocks :
       /\ Count(l, "wr") = IF writer[l] THEN 1 ELSE 0
       /\ Count(l, "rd") = reader[l]
       /\ writer[l] => reader[l] = 0

\* The two agree, now and after a step.
LEMMA ExcludeCount == (LocksExclude <=> CountsAgree) /\ (LocksExclude' <=> CountsAgree')
BY DEF LocksExclude, CountsAgree, Count

\* What an unlock does to the fields and the queue of a lock, by its mode.
Unlocks(c, a) ==
  /\ held[c] = <<a>> /\ held' = [held EXCEPT ![c] = <<>>]
  /\ UNCHANGED <<in_bh, coVars, want, ops>>
  /\ \/ /\ a.mode = "mutex" /\ a.lock \in Mutexes /\ a.lock \notin Rwlocks
        /\ locked[a.lock]
        /\ locked' = [locked EXCEPT ![a.lock] = FALSE]
        /\ qemu_co_queue_next(a.lock) /\ UNCHANGED <<writer, reader>>
     \/ /\ a.mode = "wr" /\ a.lock \in Rwlocks /\ a.lock \notin Mutexes
        /\ writer[a.lock] /\ reader[a.lock] = 0
        /\ writer' = [writer EXCEPT ![a.lock] = FALSE]
        /\ qemu_co_queue_restart_all(a.lock) /\ UNCHANGED <<locked, reader>>
     \/ /\ a.mode = "rd" /\ a.lock \in Rwlocks /\ a.lock \notin Mutexes
        /\ ~writer[a.lock] /\ reader[a.lock] \in Nat \ {0}
        /\ reader' = [reader EXCEPT ![a.lock] = @ - 1]
        /\ IF reader[a.lock] = 1
             THEN qemu_co_queue_next(a.lock)
             ELSE UNCHANGED <<entries, unlock_bh_queue, bh>>
        /\ UNCHANGED <<locked, writer>>

\* Unlock is one of these, since LocksExclude tells writers from readers.
LEMMA UnlockEffect ==
  ASSUME TypeOK, LocksExclude, NEW c \in Cos, Unlock(c)
  PROVE  \E a \in Claims : Unlocks(c, a)
<1>1. PICK a \in Claims :
        /\ held[c] = <<a>>
        /\ \/ a.mode = "mutex" /\ qemu_co_mutex_unlock(a.lock)
           \/ a.mode \in {"rd", "wr"} /\ qemu_co_rwlock_unlock(a.lock)
  BY UnlockCase
<1>2. a = [lock |-> a.lock, mode |-> a.mode]
  BY ClaimType
<1>3. Count(a.lock, a.mode) # 0
  BY <1>1, <1>2, CountType
<1>4. /\ held' = [held EXCEPT ![c] = <<>>]
      /\ UNCHANGED <<in_bh, coVars, want, ops>>
  BY DEF Unlock
<1>5. CASE a.mode = "mutex"
  BY <1>1, <1>3, <1>4, <1>5, ClaimType, ExcludeCount DEF CountsAgree, Unlocks, qemu_co_mutex_unlock
<1>6. CASE a.mode = "wr"
  BY <1>1, <1>3, <1>4, <1>6, ClaimType, ExcludeCount DEF CountsAgree, Unlocks, qemu_co_rwlock_unlock
<1>7. CASE a.mode = "rd"
  <2>1. a.lock \in Rwlocks /\ a.lock \notin Mutexes
    BY <1>7, ClaimType
  <2>2. reader[a.lock] \in Nat \ {0}
    BY <1>3, <1>7, <2>1, ExcludeCount DEF CountsAgree, TypeOK
  <2>3. ~writer[a.lock]
    BY <2>1, <2>2, ExcludeCount DEF CountsAgree
  <2> QED BY <1>1, <1>4, <1>7, <2>1, <2>2, <2>3 DEF Unlocks, qemu_co_rwlock_unlock
<1> QED BY <1>1, <1>5, <1>6, <1>7

\* The types are preserved by every step; that reader stays a natural number is
\* due to the lock being held.
LEMMA TypeStep ==
  ASSUME TypeOK, LocksExclude, [Next]_vars
  PROVE  TypeOK'
<1> USE DEF lockVars, coVars, bhVars
<1>1. ASSUME NEW c \in Cos, qemu_coroutine_create(c) PROVE TypeOK'
  <2>1. (ops \in 0..MaxOps)'
    BY <1>1, CoLocksAssumption DEF qemu_coroutine_create, CountOp, TypeOK
  <2> QED BY <1>1, <2>1, EnterType DEF qemu_coroutine_create, TypeOK
<1>2. ASSUME NEW c \in Cos, IoDone(c) PROVE TypeOK'
  BY <1>2, EnterType DEF IoDone, TypeOK
<1>3. ASSUME NEW c \in Cos, YieldForIo(c) PROVE TypeOK'
  BY <1>3, YieldType DEF YieldForIo, TypeOK
<1>4. ASSUME NEW c \in Cos, Terminate(c) PROVE TypeOK'
  BY <1>4, YieldType DEF Terminate, TypeOK
<1>5. ASSUME NEW c \in Cos, NEW a \in Claims, Lock(c, a) PROVE TypeOK'
  <2>1. (ops \in 0..MaxOps)'
    BY <1>5, CoLocksAssumption DEF Lock, CountOp, TypeOK
  <2> QED BY <1>5, <2>1, TestLockType DEF Lock
<1>6. ASSUME NEW c \in Cos, LockAgain(c) PROVE TypeOK'
  <2>1. PICK a \in Claims : want[c] = <<a>>
    BY <1>6 DEF LockAgain, TypeOK, Opt
  <2>2. TestLock(c, a) /\ (ops \in 0..MaxOps)'
    BY <1>6, <2>1 DEF LockAgain, TypeOK
  <2> QED BY <1>6, <2>2, TestLockType DEF LockAgain
<1>7. ASSUME NEW c \in Cos, Unlock(c) PROVE TypeOK'
  <2>1. PICK a \in Claims : Unlocks(c, a)
    BY <1>7, UnlockEffect
  <2>2. a.lock \in Locks
    BY ClaimType
  <2>3. (entries \in [Locks -> Seq(Cos)] /\ unlock_bh_queue \in Seq(Cos) /\ bh \in BOOLEAN)'
    BY <2>1, <2>2, WakeType DEF Unlocks
  <2>4. (held \in [Cos -> Opt(Claims)])'
    BY <2>1 DEF Unlocks, TypeOK, Opt
  <2>5. (locked \in [Mutexes -> BOOLEAN] /\ writer \in [Rwlocks -> BOOLEAN]
         /\ reader \in [Rwlocks -> Nat])'
    <3>1. CASE a.mode = "rd"
      <4>1. reader[a.lock] - 1 \in Nat
        BY <2>1, <3>1 DEF Unlocks
      <4> QED BY <2>1, <3>1, <4>1 DEF Unlocks, TypeOK
    <3>2. CASE a.mode # "rd"
      BY <2>1, <3>2 DEF Unlocks, TypeOK
    <3> QED BY <3>1, <3>2
  <2> QED BY <2>1, <2>3, <2>4, <2>5 DEF Unlocks, TypeOK
<1>8. BhStarts => TypeOK'
  BY DEF BhStarts, TypeOK
<1>9. qemu_co_queue_next_bh => TypeOK'
  <2>1. CASE unlock_bh_queue = <<>>
    BY <2>1 DEF qemu_co_queue_next_bh, TypeOK
  <2>2. CASE unlock_bh_queue # <<>>
    <3>1. Head(unlock_bh_queue) \in Cos /\ Tail(unlock_bh_queue) \in Seq(Cos)
      BY <2>2 DEF TypeOK
    <3> QED BY <2>2, <3>1, EnterType DEF qemu_co_queue_next_bh, TypeOK
  <2> QED BY <2>1, <2>2
<1>10. UNCHANGED vars => TypeOK'
  BY DEF vars, TypeOK
<1> QED BY <1>1, <1>2, <1>3, <1>4, <1>5, <1>6, <1>7, <1>8, <1>9, <1>10 DEF Next, CoNext

-----------------------------------------------------------------------------
(* Exclusion *)

\* A coroutine in a lock function holds nothing (in the model it has one lock at
\* a time).
WaitsForOne == \A c \in Cos : want[c] # <<>> => held[c] = <<>>

\* A coroutine that has found the lock free takes it, and the fields go on
\* describing the holders.
LEMMA TakeExcludes ==
  ASSUME TypeOK, LocksExclude, NEW c \in Cos, NEW a \in Claims, held[c] = <<>>,
         ~Busy(a), Take(c, a)
  PROVE  LocksExclude'
<1>1. a = [lock |-> a.lock, mode |-> a.mode]
  BY ClaimType
<1>2. held' = [held EXCEPT ![c] = <<a>>]
  BY DEF Take
<1>3. \A l, m : Count(l, m)' = IF a.lock = l /\ a.mode = m THEN Count(l, m) + 1
                                                       ELSE Count(l, m)
  BY <1>1, <1>2, CountTake
<1>4. CASE a.mode = "mutex"
  <2>1. a.lock \in Mutexes /\ ~locked[a.lock]
    BY <1>4, ClaimType DEF Busy
  <2>2. locked' = [locked EXCEPT ![a.lock] = TRUE] /\ UNCHANGED <<writer, reader>>
    BY <1>4 DEF Take
  <2>3. CountsAgree
    BY ExcludeCount
  <2>4. CountsAgree'
    BY <1>3, <1>4, <2>1, <2>2, <2>3 DEF CountsAgree, TypeOK
  <2> QED BY <2>4, ExcludeCount
<1>5. CASE a.mode = "rd"
  <2>1. a.lock \in Rwlocks /\ ~writer[a.lock]
    BY <1>5, ClaimType DEF Busy
  <2>2. reader' = [reader EXCEPT ![a.lock] = @ + 1] /\ UNCHANGED <<locked, writer>>
    BY <1>5 DEF Take
  <2>3. CountsAgree
    BY ExcludeCount
  <2>4. CountsAgree'
    BY <1>3, <1>5, <2>1, <2>2, <2>3 DEF CountsAgree, TypeOK
  <2> QED BY <2>4, ExcludeCount
<1>6. CASE a.mode = "wr"
  <2>1. a.lock \in Rwlocks /\ ~writer[a.lock] /\ reader[a.lock] = 0
    BY <1>6, ClaimType DEF Busy
  <2>2. writer' = [writer EXCEPT ![a.lock] = TRUE] /\ UNCHANGED <<locked, reader>>
    BY <1>6 DEF Take
  <2>3. CountsAgree
    BY ExcludeCount
  <2>4. CountsAgree'
    BY <1>3, <1>6, <2>1, <2>2, <2>3 DEF CountsAgree, TypeOK
  <2> QED BY <2>4, ExcludeCount
<1> QED BY <1>4, <1>5, <1>6, ClaimType

\* So they do when a holder gives the lock back.
LEMMA UnlockExcludes ==
  ASSUME TypeOK, LocksExclude, NEW c \in Cos, NEW a \in Claims, Unlocks(c, a)
  PROVE  LocksExclude'
<1>1. a = [lock |-> a.lock, mode |-> a.mode]
  BY ClaimType
<1>2. held[c] = <<a>> /\ held' = [held EXCEPT ![c] = <<>>]
  BY DEF Unlocks
<1>3. \A l, m : Count(l, m)' = IF a.lock = l /\ a.mode = m THEN Count(l, m) - 1
                                                       ELSE Count(l, m)
  BY <1>1, <1>2, CountRelease
<1>4. CASE a.mode = "mutex"
  BY <1>3, <1>4, ExcludeCount DEF CountsAgree, Unlocks, TypeOK
<1>5. CASE a.mode = "rd"
  BY <1>3, <1>5, ExcludeCount DEF CountsAgree, Unlocks, TypeOK
<1>6. CASE a.mode = "wr"
  BY <1>3, <1>6, ExcludeCount DEF CountsAgree, Unlocks, TypeOK
<1> QED BY <1>4, <1>5, <1>6, ClaimType

\* Nothing else changes the fields or the holders.
LEMMA ExcludeKept ==
  ASSUME LocksExclude, UNCHANGED <<lockVars, held>>
  PROVE  LocksExclude'
BY DEF LocksExclude, Holders, lockVars

\* Every step preserves exclusion.
LEMMA ExcludeStep ==
  ASSUME TypeOK, LocksExclude, WaitsForOne, [Next]_vars
  PROVE  LocksExclude' /\ WaitsForOne'
<1>1. ASSUME NEW c \in Cos, NEW a \in Claims, held[c] = <<>>, TestLock(c, a)
      PROVE  LocksExclude' /\ WaitsForOne'
  <2>1. CASE Busy(a) /\ qemu_co_queue_wait(c, a)
    BY <1>1, <2>1, ExcludeKept DEF qemu_co_queue_wait, WaitsForOne, TypeOK
  <2>2. CASE ~Busy(a) /\ Take(c, a)
    <3>1. WaitsForOne'
      BY <1>1, <2>2 DEF Take, WaitsForOne, TypeOK
    <3> QED BY <1>1, <2>2, <3>1, TakeExcludes
  <2> QED BY <1>1, <2>1, <2>2 DEF TestLock
<1>2. ASSUME NEW c \in Cos, NEW a \in Claims, Lock(c, a)
      PROVE  LocksExclude' /\ WaitsForOne'
  BY <1>1, <1>2 DEF Lock
<1>3. ASSUME NEW c \in Cos, LockAgain(c)
      PROVE  LocksExclude' /\ WaitsForOne'
  <2>1. PICK a \in Claims : want[c] = <<a>> /\ held[c] = <<>>
    BY <1>3 DEF LockAgain, TypeOK, Opt, WaitsForOne
  <2> QED BY <1>1, <1>3, <2>1 DEF LockAgain
<1>4. ASSUME NEW c \in Cos, Unlock(c)
      PROVE  LocksExclude' /\ WaitsForOne'
  <2>1. PICK a \in Claims : Unlocks(c, a)
    BY <1>4, UnlockEffect
  <2>2. WaitsForOne'
    BY <2>1 DEF Unlocks, WaitsForOne, TypeOK
  <2> QED BY <2>1, <2>2, UnlockExcludes
<1>5. ASSUME UNCHANGED <<lockVars, held, want>>
      PROVE  LocksExclude' /\ WaitsForOne'
  BY <1>5, ExcludeKept DEF WaitsForOne
<1>6. ASSUME NEW c \in Cos, \/ qemu_coroutine_create(c) \/ IoDone(c)
                            \/ YieldForIo(c) \/ Terminate(c)
      PROVE  LocksExclude' /\ WaitsForOne'
  BY <1>5, <1>6 DEF qemu_coroutine_create, IoDone, YieldForIo, Terminate
<1>7. BhStarts \/ qemu_co_queue_next_bh \/ UNCHANGED vars => LocksExclude' /\ WaitsForOne'
  BY <1>5 DEF BhStarts, qemu_co_queue_next_bh, vars
<1> QED BY <1>2, <1>3, <1>4, <1>6, <1>7 DEF Next, CoNext

-----------------------------------------------------------------------------
(* The call chain *)

\* Entering a coroutine that is not entered extends the chain.
LEMMA EnterChain ==
  ASSUME TypeOK, CallChain, NEW c \in Cos, qemu_coroutine_enter(c)
  PROVE  CallChain'
<1>1. caller[c] = <<>> /\ pc[c] # "run" /\ c # self
  BY CoLocksAssumption DEF qemu_coroutine_enter, CallChain
<1>2. \A d \in Cos : caller[d] # <<c>>
  <2>1. <<c>> # <<>> /\ <<c>> # <<Leader>> /\ <<c>>[1] = c
    BY CoLocksAssumption
  <2> QED BY <1>1, <2>1 DEF CallChain
<1>3. \A d \in Cos : caller'[d] = IF d = c THEN <<self>> ELSE caller[d]
  BY DEF qemu_coroutine_enter, TypeOK
<1>4. \A d \in Cos : pc'[d] = IF d = c THEN "run" ELSE pc[d]
  BY DEF qemu_coroutine_enter, TypeOK
<1>5. self' = c
  BY DEF qemu_coroutine_enter
<1>6. ASSUME NEW d \in Cos, caller'[d] # <<>>
      PROVE  /\ caller'[d] # <<self'>>
             /\ caller'[d] # <<Leader>> => pc'[caller'[d][1]] = "run"
             /\ \A e \in Cos : caller'[e] = caller'[d] => e = d
  <2>1. CASE d = c
    <3>1. caller'[d] = <<self>> /\ caller'[d][1] = self
      BY <1>3, <2>1
    <3>2. caller'[d] # <<Leader>> => self \in Cos /\ pc[self] = "run"
      BY <3>1 DEF CallChain, TypeOK
    <3>3. \A e \in Cos : caller[e] # <<self>>
      BY DEF CallChain
    <3> QED BY <1>1, <1>3, <1>4, <1>5, <2>1, <3>1, <3>2, <3>3
  <2>2. CASE d # c
    <3>1. caller'[d] = caller[d] /\ caller[d] # <<>> /\ caller[d] # <<self>>
      BY <1>3, <1>6, <2>2 DEF CallChain
    <3>2. PICK s \in Cos \cup {Leader} : caller[d] = <<s>>
      BY <3>1 DEF TypeOK, Opt
    <3>3. caller'[d] # <<Leader>> => pc'[s] = "run"
      <4>1. CASE s = Leader
        BY <3>1, <3>2, <4>1
      <4>2. CASE s # Leader
        <5>1. <<s>> # <<Leader>> /\ <<s>>[1] = s
          BY <4>2
        <5> QED BY <1>4, <3>1, <3>2, <4>2, <5>1 DEF CallChain
      <4> QED BY <4>1, <4>2
    <3>4. \A e \in Cos : caller'[e] = caller'[d] => e = d
      BY <1>3, <3>1 DEF CallChain
    <3> QED BY <1>2, <1>5, <3>1, <3>2, <3>3, <3>4
  <2> QED BY <2>1, <2>2
<1> QED BY <1>3, <1>4, <1>5, <1>6 DEF CallChain

\* A yield takes the running coroutine off its end.
LEMMA YieldChain ==
  ASSUME TypeOK, CallChain, NEW c \in Cos, self = c, NEW why \in {"none", "io", "wait"},
         qemu_coroutine_yield(c, why)
  PROVE  CallChain'
<1>1. PICK s \in Cos \cup {Leader} : caller[c] = <<s>>
  BY DEF qemu_coroutine_yield, TypeOK, Opt
<1>2. /\ self' = s
      /\ \A d \in Cos : caller'[d] = IF d = c THEN <<>> ELSE caller[d]
      /\ \A d \in Cos : pc'[d] = IF d = c THEN why ELSE pc[d]
  BY <1>1 DEF qemu_coroutine_yield, TypeOK
<1>3. s # c /\ (s # Leader => pc[s] = "run")
  <2>1. <<s>>[1] = s /\ (s # Leader => <<s>> # <<Leader>>) /\ <<s>> # <<>>
    OBVIOUS
  <2> QED BY <1>1, <2>1 DEF CallChain
<1>4. ASSUME NEW d \in Cos, caller'[d] # <<>>
      PROVE  /\ caller'[d] # <<self'>>
             /\ caller'[d] # <<Leader>> => pc'[caller'[d][1]] = "run"
             /\ \A e \in Cos : caller'[e] = caller'[d] => e = d
  <2>1. d # c /\ caller'[d] = caller[d] /\ caller[d] # <<c>>
    BY <1>2, <1>4 DEF CallChain
  <2>2. PICK t \in Cos \cup {Leader} : caller[d] = <<t>>
    BY <1>4, <2>1 DEF TypeOK, Opt
  <2>3. caller[d] # <<s>>
    BY <1>1, <1>4, <2>1 DEF CallChain
  <2>4. t # c /\ <<t>>[1] = t /\ (t = Leader \/ <<t>> # <<Leader>>)
    BY <2>1, <2>2
  <2>5. t = Leader \/ pc'[t] = "run"
    BY <1>2, <1>4, <2>1, <2>2, <2>4 DEF CallChain
  <2>6. \A e \in Cos : caller'[e] = caller'[d] => e = d
    BY <1>2, <1>4, <2>1 DEF CallChain
  <2> QED BY <1>2, <2>1, <2>2, <2>3, <2>4, <2>5, <2>6
<1>5. self' # Leader => pc'[self'] = "run"
  BY <1>2, <1>3
<1>6. \A d \in Cos : (pc'[d] = "run") = (caller'[d] # <<>>)
  BY <1>2 DEF CallChain
<1> QED BY <1>4, <1>5, <1>6 DEF CallChain

\* Every step preserves the chain.
LEMMA ChainStep ==
  ASSUME TypeOK, CallChain, [Next]_vars
  PROVE  CallChain'
<1>1. ASSUME UNCHANGED coVars PROVE CallChain'
  BY <1>1 DEF CallChain, coVars
<1>2. ASSUME NEW c \in Cos, NEW a, self = c, TestLock(c, a) PROVE CallChain'
  BY <1>1, <1>2, YieldChain DEF TestLock, Take, qemu_co_queue_wait
<1>3. ASSUME NEW c \in Cos, qemu_coroutine_create(c) \/ IoDone(c) PROVE CallChain'
  BY <1>3, EnterChain DEF qemu_coroutine_create, IoDone
<1>4. ASSUME NEW c \in Cos, YieldForIo(c) \/ Terminate(c) PROVE CallChain'
  BY <1>4, YieldChain DEF YieldForIo, Terminate, CoRuns
<1>5. ASSUME NEW c \in Cos, NEW a \in Claims, Lock(c, a) PROVE CallChain'
  BY <1>2, <1>5 DEF Lock, CoRuns
<1>6. ASSUME NEW c \in Cos, LockAgain(c) PROVE CallChain'
  BY <1>2, <1>6 DEF LockAgain
<1>7. ASSUME NEW c \in Cos, Unlock(c) PROVE CallChain'
  BY <1>1, <1>7 DEF Unlock
<1>8. BhStarts \/ UNCHANGED vars => CallChain'
  BY <1>1 DEF BhStarts, vars
<1>9. qemu_co_queue_next_bh => CallChain'
  <2>1. unlock_bh_queue # <<>> => Head(unlock_bh_queue) \in Cos
    BY DEF TypeOK
  <2> QED BY <1>1, <2>1, EnterChain DEF qemu_co_queue_next_bh
<1> QED BY <1>3, <1>4, <1>5, <1>6, <1>7, <1>8, <1>9 DEF Next, CoNext
=============================================================================
