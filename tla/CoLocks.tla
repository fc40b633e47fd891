------------------------------ MODULE CoLocks ------------------------------
(***************************************************************************)
(* Coroutines and their locks (qemu-coroutine.c, qemu-coroutine-lock.c).   *)
(* Coroutines run one at a time: one enters another, and yields back to    *)
(* its caller.  The leader stands for the main loop, which runs the bottom *)
(* half unlock_bh and enters a coroutine whose I/O is complete.  A         *)
(* coroutine that finds a lock taken waits in the lock's queue; an unlock  *)
(* moves waiters to unlock_bh_queue, and by the time the bottom half       *)
(* enters them, others may have taken the lock again.                      *)
(***************************************************************************)
EXTENDS Integers, Sequences, FiniteSets, Lists

CONSTANTS
  Cos,       \* coroutines; a terminated one is created again
  Leader,    \* the code that is in no coroutine
  Mutexes,   \* CoMutexes
  Rwlocks,   \* CoRwlocks
  MaxOps     \* bound: lock operations and entries of new coroutines

ASSUME CoLocksAssumption ==
  /\ Leader \notin Cos
  /\ IsFiniteSet(Cos)
  /\ Mutexes \cap Rwlocks = {}
  /\ MaxOps \in Nat

VARIABLES
  locked,           \* of each CoMutex
  writer, reader,   \* of each CoRwlock
  entries,          \* the CoQueue of each lock
  unlock_bh_queue,
  bh,               \* unlock_bh is scheduled
  in_bh,            \* qemu_co_queue_next_bh is in its loop
  self,             \* qemu_coroutine_self
  caller,           \* of each coroutine, <<>> for NULL
  pc,               \* "none": does not exist, "run", or why it yielded
  want,             \* the claim a coroutine is in a lock function for
  held,             \* history: the claim a coroutine holds
  ops               \* operations so far

lockVars == <<locked, writer, reader>>
coVars   == <<self, caller, pc>>
bhVars   == <<unlock_bh_queue, bh, in_bh>>
vars == <<lockVars, entries, bhVars, coVars, want, held, ops>>

Locks == Mutexes \cup Rwlocks
Abs   == INSTANCE LockService
Claims == Abs!Claims
Opt(S) == {<<>>} \cup {<<x>> : x \in S}   \* a pointer to an S, or NULL

Init ==
  /\ locked = [m \in Mutexes |-> FALSE]
  /\ writer = [l \in Rwlocks |-> FALSE] /\ reader = [l \in Rwlocks |-> 0]
  /\ entries = [l \in Locks |-> <<>>]
  /\ unlock_bh_queue = <<>> /\ bh = FALSE /\ in_bh = FALSE
  /\ self = Leader
  /\ caller = [c \in Cos |-> <<>>] /\ pc = [c \in Cos |-> "none"]
  /\ want = [c \in Cos |-> <<>>] /\ held = [c \in Cos |-> <<>>]
  /\ ops = 0

-----------------------------------------------------------------------------
(* Coroutines *)

\* qemu_coroutine_enter; it aborts if c was entered and has not yielded.
qemu_coroutine_enter(c) ==
  /\ caller[c] = <<>>
  /\ caller' = [caller EXCEPT ![c] = <<self>>]
  /\ self' = c
  /\ pc' = [pc EXCEPT ![c] = "run"]

\* qemu_coroutine_yield, or the end of the coroutine; why is its new pc.
qemu_coroutine_yield(c, why) ==
  /\ caller[c] # <<>>
  /\ self' = caller[c][1]
  /\ caller' = [caller EXCEPT ![c] = <<>>]
  /\ pc' = [pc EXCEPT ![c] = why]

\* The leader runs its own code, or coroutine c does, outside of lock functions.
LeaderRuns   == self = Leader /\ ~in_bh
CoRuns(c)    == self = c /\ want[c] = <<>>
CountOp      == ops < MaxOps /\ ops' = ops + 1

\* Somebody creates coroutine c and enters it.
qemu_coroutine_create(c) ==
  /\ pc[c] = "none"
  /\ LeaderRuns \/ \E d \in Cos : CoRuns(d)
  /\ CountOp
  /\ qemu_coroutine_enter(c)
  /\ UNCHANGED <<lockVars, entries, bhVars, want, held>>

\* A coroutine starts I/O and yields; the leader enters it when it is done.
YieldForIo(c) ==
  /\ CoRuns(c)
  /\ qemu_coroutine_yield(c, "io")
  /\ UNCHANGED <<lockVars, entries, bhVars, want, held, ops>>

IoDone(c) ==
  /\ LeaderRuns /\ pc[c] = "io"
  /\ qemu_coroutine_enter(c)
  /\ UNCHANGED <<lockVars, entries, bhVars, want, held, ops>>

Terminate(c) ==
  /\ CoRuns(c) /\ held[c] = <<>>
  /\ qemu_coroutine_yield(c, "none")
  /\ UNCHANGED <<lockVars, entries, bhVars, want, held, ops>>

-----------------------------------------------------------------------------
(* Locks *)

\* Mutant: a writer does not wait for readers.
M_Busy_readers(a) ==
  CASE a.mode = "mutex" -> locked[a.lock]
    [] OTHER            -> writer[a.lock]

\* The condition of the while loop in each lock function.
Busy(a) ==
  CASE a.mode = "mutex" -> locked[a.lock]
    [] a.mode = "rd"    -> writer[a.lock]
    [] a.mode = "wr"    -> writer[a.lock] \/ reader[a.lock] # 0

\* The part behind the loop: take the lock and return.
Take(c, a) ==
  /\ \/ /\ a.mode = "mutex"
        /\ locked' = [locked EXCEPT ![a.lock] = TRUE]
        /\ UNCHANGED <<writer, reader>>
     \/ /\ a.mode = "rd"
        /\ reader' = [reader EXCEPT ![a.lock] = @ + 1]
        /\ UNCHANGED <<locked, writer>>
     \/ /\ a.mode = "wr"
        /\ writer' = [writer EXCEPT ![a.lock] = TRUE]
        /\ UNCHANGED <<locked, reader>>
  /\ want' = [want EXCEPT ![c] = <<>>]
  /\ held' = [held EXCEPT ![c] = <<a>>]
  /\ UNCHANGED <<entries, coVars>>

\* qemu_co_queue_wait in the loop.
qemu_co_queue_wait(c, a) ==
  /\ entries' = [entries EXCEPT ![a.lock] = Append(@, c)]
  /\ want' = [want EXCEPT ![c] = <<a>>]
  /\ qemu_coroutine_yield(c, "wait")
  /\ UNCHANGED <<lockVars, held>>

\* One test of the condition.
TestLock(c, a) ==
  \/ Busy(a) /\ qemu_co_queue_wait(c, a)
  \/ ~Busy(a) /\ Take(c, a)

\* qemu_co_mutex_lock, qemu_co_rwlock_rdlock or qemu_co_rwlock_wrlock is called.
Lock(c, a) ==
  /\ CoRuns(c) /\ held[c] = <<>> /\ CountOp
  /\ TestLock(c, a)
  /\ UNCHANGED bhVars

\* Mutant: the lock is taken without testing the condition again.
M_LockAgain_if(c) ==
  /\ self = c /\ want[c] # <<>>
  /\ Take(c, want[c][1])
  /\ UNCHANGED <<bhVars, ops>>

\* The lock function goes on behind qemu_co_queue_wait.
LockAgain(c) ==
  /\ self = c /\ want[c] # <<>>
  /\ TestLock(c, want[c][1])
  /\ UNCHANGED <<bhVars, ops>>

\* Mutants: the waiter stays in its queue, or the bottom half is not scheduled.
M_queue_next_keeps(l) ==
  IF entries[l] = <<>> THEN UNCHANGED <<entries, unlock_bh_queue, bh>>
  ELSE /\ unlock_bh_queue' = Append(unlock_bh_queue, Head(entries[l]))
       /\ bh' = TRUE
       /\ UNCHANGED entries

M_queue_next_silent(l) ==
  IF entries[l] = <<>> THEN UNCHANGED <<entries, unlock_bh_queue, bh>>
  ELSE /\ entries' = [entries EXCEPT ![l] = Tail(@)]
       /\ unlock_bh_queue' = Append(unlock_bh_queue, Head(entries[l]))
       /\ UNCHANGED bh

\* qemu_co_queue_next: the first waiter, if any, goes to the bottom half.
qemu_co_queue_next(l) ==
  IF entries[l] = <<>> THEN UNCHANGED <<entries, unlock_bh_queue, bh>>
  ELSE /\ entries' = [entries EXCEPT ![l] = Tail(@)]
       /\ unlock_bh_queue' = Append(unlock_bh_queue, Head(entries[l]))
       /\ bh' = TRUE

\* Mutant: only the first waiter is restarted.
M_restart_all_first(l) == qemu_co_queue_next(l)

qemu_co_queue_restart_all(l) ==
  /\ entries' = [entries EXCEPT ![l] = <<>>]
  /\ unlock_bh_queue' = unlock_bh_queue \o entries[l]
  /\ bh' = (bh \/ entries[l] # <<>>)

qemu_co_mutex_unlock(m) ==
  /\ locked' = [locked EXCEPT ![m] = FALSE]
  /\ qemu_co_queue_next(m)
  /\ UNCHANGED <<writer, reader>>

\* Mutant: the number of readers is looked at before it is decremented.
M_rwlock_unlock_early(l) ==
  /\ \/ /\ writer[l]
        /\ writer' = [writer EXCEPT ![l] = FALSE]
        /\ qemu_co_queue_restart_all(l)
        /\ UNCHANGED reader
     \/ /\ ~writer[l]
        /\ reader' = [reader EXCEPT ![l] = @ - 1]
        /\ IF reader[l] = 0 THEN qemu_co_queue_next(l)
                            ELSE UNCHANGED <<entries, unlock_bh_queue, bh>>
        /\ UNCHANGED writer
  /\ UNCHANGED locked

qemu_co_rwlock_unlock(l) ==
  /\ \/ /\ writer[l]
        /\ writer' = [writer EXCEPT ![l] = FALSE]
        /\ qemu_co_queue_restart_all(l)
        /\ UNCHANGED reader
     \/ /\ ~writer[l]
        /\ reader' = [reader EXCEPT ![l] = @ - 1]
        /\ IF reader[l] = 1 THEN qemu_co_queue_next(l)
                            ELSE UNCHANGED <<entries, unlock_bh_queue, bh>>
        /\ UNCHANGED writer
  /\ UNCHANGED locked

\* The holder of a lock calls the unlock function.
Unlock(c) ==
  /\ CoRuns(c) /\ held[c] # <<>>
  /\ LET l == held[c][1].lock IN
       IF l \in Mutexes THEN qemu_co_mutex_unlock(l) ELSE qemu_co_rwlock_unlock(l)
  /\ held' = [held EXCEPT ![c] = <<>>]
  /\ UNCHANGED <<in_bh, coVars, want, ops>>

-----------------------------------------------------------------------------
(* The bottom half *)

BhStarts ==
  /\ LeaderRuns /\ bh
  /\ bh' = FALSE /\ in_bh' = TRUE
  /\ UNCHANGED <<lockVars, entries, unlock_bh_queue, coVars, want, held, ops>>

\* One test of the while loop of qemu_co_queue_next_bh.
qemu_co_queue_next_bh ==
  /\ self = Leader /\ in_bh
  /\ \/ /\ unlock_bh_queue # <<>>
        /\ unlock_bh_queue' = Tail(unlock_bh_queue)
        /\ qemu_coroutine_enter(Head(unlock_bh_queue))
        /\ UNCHANGED in_bh
     \/ /\ unlock_bh_queue = <<>>
        /\ in_bh' = FALSE
        /\ UNCHANGED <<unlock_bh_queue, coVars>>
  /\ UNCHANGED <<lockVars, entries, bh, want, held, ops>>

-----------------------------------------------------------------------------
CoNext(c) ==
  \/ YieldForIo(c) \/ Terminate(c)
  \/ (\E a \in Claims : Lock(c, a)) \/ LockAgain(c) \/ Unlock(c)

Next ==
  \/ \E c \in Cos : qemu_coroutine_create(c) \/ IoDone(c) \/ CoNext(c)
  \/ BhStarts \/ qemu_co_queue_next_bh

Spec == Init /\ [][Next]_vars

\* A coroutine does not compute for ever and gives back what it holds; each
\* iteration of the main loop enters every coroutine whose I/O is complete and
\* runs the scheduled bottom halves.
FairSpec ==
  /\ Spec
  /\ WF_vars(\E c \in Cos : CoNext(c))
  /\ \A c \in Cos : SF_vars(IoDone(c)) /\ SF_vars(Unlock(c))
  /\ SF_vars(BhStarts) /\ WF_vars(qemu_co_queue_next_bh)

-----------------------------------------------------------------------------
(* Properties *)

\* Every variable has its type.
TypeOK ==
  /\ locked \in [Mutexes -> BOOLEAN]
  /\ writer \in [Rwlocks -> BOOLEAN] /\ reader \in [Rwlocks -> Nat]
  /\ entries \in [Locks -> Seq(Cos)]
  /\ unlock_bh_queue \in Seq(Cos) /\ bh \in BOOLEAN /\ in_bh \in BOOLEAN
  /\ self \in Cos \cup {Leader}
  /\ caller \in [Cos -> Opt(Cos \cup {Leader})]
  /\ pc \in [Cos -> {"none", "run", "io", "wait"}]
  /\ want \in [Cos -> Opt(Claims)] /\ held \in [Cos -> Opt(Claims)]
  /\ ops \in 0..MaxOps

\* The coroutines that hold lock l in one of the modes.
Holders(l, modes) == {c \in Cos : \E m \in modes : held[c] = <<[lock |-> l, mode |-> m]>>}

\* The fields of a lock tell who holds it: locked and writer are set while
\* exactly one coroutine holds the lock, reader counts the readers, and there
\* are none beside a writer.  The assertions of the unlock functions follow.
LocksExclude ==
  /\ \A m \in Mutexes :
       Cardinality(Holders(m, {"mutex"})) = IF locked[m] THEN 1 ELSE 0
  /\ \A l \in Rwlocks :
       /\ Cardinality(Holders(l, {"wr"})) = IF writer[l] THEN 1 ELSE 0
       /\ Cardinality(Holders(l, {"rd"})) = reader[l]
       /\ writer[l] => reader[l] = 0

\* All queues share the link co_queue_next of a coroutine: a waiting coroutine
\* is in one queue, its lock's or the bottom half's, and there once; any other
\* coroutine is in none.  Nobody else can enter it, so the bottom half never
\* enters a coroutine that is already entered (the abort of
\* qemu_coroutine_enter), and it knows the lock it waits for.
OneQueue ==
  /\ \A c \in Cos :
       pc[c] = "wait" =>
         /\ caller[c] = <<>> /\ want[c] # <<>> /\ held[c] = <<>>
         /\ (c \in Range(unlock_bh_queue)) = (c \notin Range(entries[want[c][1].lock]))
  /\ IsInjective(unlock_bh_queue)
  /\ \A c \in Range(unlock_bh_queue) : pc[c] = "wait"
  /\ \A l \in Locks :
       /\ IsInjective(entries[l])
       /\ \A c \in Range(entries[l]) : pc[c] = "wait" /\ want[c][1].lock = l

\* No wakeup is lost: coroutines wait in the queue of a lock only while
\* somebody holds it, or somebody woken for it has yet to test it again; and
\* the bottom half is going to run as long as it has coroutines to enter.
NoLostWakeup ==
  /\ \A l \in Locks :
       entries[l] # <<>> =>
         \/ \E c \in Cos : held[c] # <<>> /\ held[c][1].lock = l
         \/ \E c \in Cos : /\ want[c] # <<>> /\ want[c][1].lock = l
                           /\ c \notin Range(entries[l])
  /\ unlock_bh_queue # <<>> => bh \/ in_bh

\* The comment "Wakeup only one waiting writer" in qemu_co_rwlock_unlock: a
\* reader waits in the queue only behind a writer that holds the lock, so when
\* the last reader leaves there are only writers to wake.
ReadersWaitForWriter ==
  \A l \in Rwlocks : \A c \in Range(entries[l]) :
    want[c][1].mode = "rd" => writer[l]

\* The call chain: exactly the coroutines that were entered and have not
\* yielded have a caller, which was entered too and has called nobody else;
\* nobody is called by the one that runs.  So a yield always finds somebody to
\* return to (the abort of qemu_coroutine_yield).
CallChain ==
  /\ self # Leader => pc[self] = "run"
  /\ \A c \in Cos :
       /\ (pc[c] = "run") = (caller[c] # <<>>)
       /\ caller[c] # <<>> =>
            /\ caller[c] # <<self>>
            /\ caller[c] # <<Leader>> => pc[caller[c][1]] = "run"
            /\ \A d \in Cos : caller[d] = caller[c] => d = c

\* CoMutex and CoRwlock implement the abstract lock service.
ImplementsLockService == Abs!Spec

\* With finitely many lock operations, every waiting coroutine gets its lock.
WaitersServed == \A c \in Cos : pc[c] = "wait" ~> held[c] # <<>>
=============================================================================
