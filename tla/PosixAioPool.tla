---------------------------- MODULE PosixAioPool ----------------------------
(***************************************************************************)
(* The threads of the AIO pool: the counters agree with the threads, the   *)
(* backlog of threads to create is worked off, and a queued request has a  *)
(* worker.  Each lemma says that every action preserves one invariant.     *)
(***************************************************************************)
EXTENDS PosixAio, FiniteSetTheorems, TLAPS

\* Counts of threads are natural numbers.
LEMMA CountNat == \A f, pcs : Count(f, pcs) \in Nat
<1> SUFFICES ASSUME NEW f, NEW pcs PROVE Count(f, pcs) \in Nat
  OBVIOUS
<1>1. IsFiniteSet({t \in Threads : f[t] \in pcs})
  BY PosixAioAssumption, FS_Subset
<1> QED BY <1>1, FS_CardinalityType DEF Count

One(b) == IF b THEN 1 ELSE 0

\* A thread that moves from one control point to another changes every count
\* of threads by what it leaves and what it enters.
LEMMA CountMove ==
  ASSUME NEW f \in [Threads -> WorkerPCs], NEW t \in Threads,
         NEW pc \in WorkerPCs, NEW pcs
  PROVE  Count([f EXCEPT ![t] = pc], pcs) =
           Count(f, pcs) + One(pc \in pcs) - One(f[t] \in pcs)
<1> DEFINE T == {u \in Threads : f[u] \in pcs}
           g == [f EXCEPT ![t] = pc]
           U == {u \in Threads : g[u] \in pcs}
<1>1. IsFiniteSet(T)
  BY PosixAioAssumption, FS_Subset
<1>2. Cardinality(T) \in Nat
  BY <1>1, FS_CardinalityType
<1>4. f[t] \in pcs /\ pc \in pcs => U = T
  OBVIOUS
<1>5. f[t] \notin pcs /\ pc \notin pcs => U = T
  OBVIOUS
<1>6. f[t] \in pcs /\ pc \notin pcs => U = T \ {t} /\ t \in T
  OBVIOUS
<1>7. f[t] \notin pcs /\ pc \in pcs => U = T \cup {t} /\ t \notin T
  OBVIOUS
<1>8. /\ Cardinality(T \ {t}) = IF t \in T THEN Cardinality(T) - 1 ELSE Cardinality(T)
      /\ Cardinality(T \cup {t}) = IF t \in T THEN Cardinality(T) ELSE Cardinality(T) + 1
  BY Zenon, <1>1, FS_AddElement, FS_RemoveElement
<1>9. Count(f, pcs) = Cardinality(T) /\ Count(g, pcs) = Cardinality(U)
  BY DEF Count
<1> HIDE DEF T, U, g
<1>10. /\ f[t] \in pcs /\ pc \in pcs => Count(g, pcs) = Count(f, pcs)
       /\ f[t] \notin pcs /\ pc \notin pcs => Count(g, pcs) = Count(f, pcs)
  BY <1>4, <1>5, <1>9
<1>11. f[t] \in pcs /\ pc \notin pcs => Count(g, pcs) = Count(f, pcs) - 1
  BY <1>6, <1>8, <1>9
<1>12. f[t] \notin pcs /\ pc \in pcs => Count(g, pcs) = Count(f, pcs) + 1
  BY <1>7, <1>8, <1>9
<1>13. Count(f, pcs) \in Nat
  BY <1>2, <1>9
<1>14. Count(g, pcs) = Count(f, pcs) + One(pc \in pcs) - One(f[t] \in pcs)
  BY <1>10, <1>11, <1>12, <1>13 DEF One
<1> QED BY <1>14 DEF g

Live == WorkerPCs \ {"none", "created"}
Coming == {"created", "create"}
Asleep == {"waiting", "woken", "timedout"}

\* What the three counts of PoolAccounting do when one thread goes from pc a to
\* pc b, f and g saying where the threads are before and after.
Shift(f, g, a, b) ==
  /\ Count(g, Live) = Count(f, Live) + One(b \in Live) - One(a \in Live)
  /\ Count(g, Coming) = Count(f, Coming) + One(b \in Coming) - One(a \in Coming)
  /\ Count(g, Asleep) = Count(f, Asleep) + One(b \in Asleep) - One(a \in Asleep)

\* A step that changes the state of one thread is such a shift.
LEMMA Moved ==
  ASSUME NEW f \in [Threads -> WorkerPCs], NEW t \in Threads, NEW pc \in WorkerPCs
  PROVE  Shift(f, [f EXCEPT ![t] = pc], f[t], pc)
  BY Zenon, CountMove DEF Shift

\* PoolAccounting is preserved by every action, given the types.
LEMMA PoolStep ==
  ASSUME TypeOK, PoolAccounting, Next
  PROVE  PoolAccounting'
<1>1. /\ cur_threads \in Nat /\ idle_threads \in Nat /\ new_threads \in Nat
      /\ pending_threads \in Nat /\ MaxThreads \in Nat
      /\ tpc \in [Threads -> WorkerPCs]
  BY PosixAioAssumption, FS_CardinalityType DEF TypeOK
<1>2. /\ cur_threads = new_threads + pending_threads + Count(tpc, Live)
      /\ pending_threads = Count(tpc, Coming) + (IF mpc = "create" THEN 1 ELSE 0)
      /\ idle_threads = Count(tpc, Asleep)
      /\ cur_threads <= MaxThreads
  BY DEF PoolAccounting, Live, Coming, Asleep
<1> SUFFICES /\ cur_threads' = new_threads' + pending_threads' + Count(tpc', Live)
             /\ pending_threads' = Count(tpc', Coming)
                                    + (IF mpc' = "create" THEN 1 ELSE 0)
             /\ idle_threads' = Count(tpc', Asleep)
             /\ cur_threads' <= MaxThreads
  BY DEF PoolAccounting, Live, Coming, Asleep
<1>3. Count(tpc, Live) \in Nat /\ Count(tpc, Coming) \in Nat
      /\ Count(tpc, Asleep) \in Nat
  BY CountNat
<1>4. CASE \E r \in Reqs, k \in Kinds : paio_submit(r, k)
  BY SMTT(30), <1>1, <1>2, <1>3, <1>4
     DEF paio_submit, spawn_thread, MainRuns, poolVars
<1>5. CASE cond_signal
  <2>1. CASE UNCHANGED tpc
    BY <1>1, <1>2, <1>5, <2>1 DEF cond_signal, poolVars
  <2>2. CASE \E t \in Threads : /\ tpc[t] = "waiting"
                                 /\ tpc' = [tpc EXCEPT ![t] = "woken"]
    <3>1. PICK t \in Threads : /\ tpc[t] = "waiting"
                               /\ tpc' = [tpc EXCEPT ![t] = "woken"]
      BY Zenon, <2>2
    <3>2. Shift(tpc, tpc', "waiting", "woken")
      BY Zenon, <1>1, <3>1, Moved DEF WorkerPCs
    <3> QED
      BY SMTT(30), <1>1, <1>2, <1>3, <1>5, <3>2
      DEF cond_signal, poolVars, Shift, One, Live, Coming, Asleep, WorkerPCs
  <2> QED BY <1>5, <2>1, <2>2 DEF cond_signal
<1>6. CASE \E r \in Reqs : paio_cancel(r)
  BY <1>2, <1>6 DEF paio_cancel, MainRuns, poolVars
<1>7. CASE CancelSpinEnds
  BY <1>2, <1>7 DEF CancelSpinEnds, poolVars
<1>8. CASE spawn_thread_bh_fn
  BY <1>1, <1>2, <1>3, <1>8
     DEF spawn_thread_bh_fn, do_spawn_thread, MainRuns
<1>9. CASE \E u \in Threads : MainCreates(u)
  <2>1. PICK u \in Threads : MainCreates(u)
    BY <1>9
  <2>2. Shift(tpc, tpc', "none", "created")
    BY Zenon, <1>1, <2>1, Moved DEF MainCreates, WorkerPCs
  <2> QED
    BY SMTT(30), <1>1, <1>2, <1>3, <2>1, <2>2
    DEF MainCreates, poolVars, Shift, One, Live, Coming, Asleep, WorkerPCs
<1>10. CASE posix_aio_read \/ ReadPipe \/ ScanStep \/ ScanEnds \/ CallbackReturns
  BY <1>2, <1>10 DEF posix_aio_read, ReadPipe, ScanStep, ScanEnds,
                     CallbackReturns, poolVars
<1>11. ASSUME NEW t \in Threads, WorkerNext(t)
      PROVE  /\ cur_threads' = new_threads' + pending_threads' + Count(tpc', Live)
             /\ pending_threads' = Count(tpc', Coming)
                                    + (IF mpc' = "create" THEN 1 ELSE 0)
             /\ idle_threads' = Count(tpc', Asleep)
             /\ cur_threads' <= MaxThreads
  <2>1. CASE ThreadStart(t)
    <3>1. Shift(tpc, tpc', "created", "spawn")
      BY Zenon, <1>1, <2>1, Moved DEF ThreadStart, WorkerPCs
    <3> QED
      BY SMTT(30), <1>1, <1>2, <1>3, <2>1, <3>1
      DEF ThreadStart, mainVars, Shift, One, Live, Coming, Asleep, WorkerPCs
  <2>2. CASE ThreadSpawns(t)
    <3>1. CASE new_threads = 0
      <4>1. Shift(tpc, tpc', "spawn", "loop")
        BY Zenon, <1>1, <2>2, <3>1, Moved DEF ThreadSpawns, WorkerPCs
      <4> QED
        BY SMTT(30), <1>1, <1>2, <1>3, <2>2, <3>1, <4>1
        DEF ThreadSpawns, do_spawn_thread, mainVars, Shift, One, Live, Coming, Asleep, WorkerPCs
    <3>2. CASE new_threads # 0
      <4>1. Shift(tpc, tpc', "spawn", "create")
        BY Zenon, <1>1, <2>2, <3>2, Moved DEF ThreadSpawns, WorkerPCs
      <4> QED
        BY SMTT(30), <1>1, <1>2, <1>3, <2>2, <3>2, <4>1
        DEF ThreadSpawns, do_spawn_thread, mainVars, Shift, One, Live, Coming, Asleep, WorkerPCs
    <3> QED BY <2>2, <3>1, <3>2 DEF ThreadSpawns
  <2>3. CASE \E u \in Threads : ThreadCreates(t, u)
    <3>1. PICK u \in Threads : ThreadCreates(t, u)
      BY <2>3
    <3> DEFINE f == [tpc EXCEPT ![t] = "loop"]
    <3>2. /\ f \in [Threads -> WorkerPCs] /\ f[u] = "none"
          /\ tpc' = [f EXCEPT ![u] = "created"]
      BY <1>1, <3>1 DEF ThreadCreates, WorkerPCs
    <3>3. Shift(tpc, f, "create", "loop")
      BY Zenon, <1>1, <3>1, Moved DEF ThreadCreates, WorkerPCs
    <3>4. Shift(f, tpc', "none", "created")
      BY Zenon, <3>2, Moved DEF WorkerPCs
    <3> HIDE DEF f
    <3> QED BY SMTT(30), <1>1, <1>2, <1>3, <3>1, <3>3, <3>4
            DEF ThreadCreates, poolVars, mainVars, Shift, One, Live, Coming,
              Asleep, WorkerPCs
  <2>4. CASE TakeRequest(t)
    <3>1. CASE tpc[t] = "loop"
      <4>1. Shift(tpc, tpc', "loop", "working")
        BY Zenon, <1>1, <2>4, <3>1, Moved DEF TakeRequest, Checks, WorkerPCs
      <4> QED
        BY SMTT(30), <1>1, <1>2, <1>3, <2>4, <3>1, <4>1
        DEF TakeRequest, Checks, IdleAfter, mainVars, Shift, One, Live, Coming, Asleep, WorkerPCs
    <3>2. CASE tpc[t] = "woken"
      <4>1. Shift(tpc, tpc', "woken", "working")
        BY Zenon, <1>1, <2>4, <3>2, Moved DEF TakeRequest, Checks, WorkerPCs
      <4> QED
        BY SMTT(30), <1>1, <1>2, <1>3, <2>4, <3>2, <4>1
        DEF TakeRequest, Checks, IdleAfter, mainVars, Shift, One, Live, Coming, Asleep, WorkerPCs
    <3>3. CASE tpc[t] = "timedout"
      <4>1. Shift(tpc, tpc', "timedout", "working")
        BY Zenon, <1>1, <2>4, <3>3, Moved DEF TakeRequest, Checks, WorkerPCs
      <4> QED
        BY SMTT(30), <1>1, <1>2, <1>3, <2>4, <3>3, <4>1
        DEF TakeRequest, Checks, IdleAfter, mainVars, Shift, One, Live, Coming, Asleep, WorkerPCs
    <3> QED BY <2>4, <3>1, <3>2, <3>3 DEF TakeRequest, Checks
  <2>5. CASE WaitForWork(t)
    <3>1. CASE tpc[t] = "loop"
      <4>1. Shift(tpc, tpc', "loop", "waiting")
        BY Zenon, <1>1, <2>5, <3>1, Moved DEF WaitForWork, WorkerPCs
      <4> QED
        BY SMTT(30), <1>1, <1>2, <1>3, <2>5, <3>1, <4>1
        DEF WaitForWork, IdleAfter, mainVars, Shift, One, Live, Coming, Asleep, WorkerPCs
    <3>2. CASE tpc[t] = "woken"
      <4>1. Shift(tpc, tpc', "woken", "waiting")
        BY Zenon, <1>1, <2>5, <3>2, Moved DEF WaitForWork, WorkerPCs
      <4> QED
        BY SMTT(30), <1>1, <1>2, <1>3, <2>5, <3>2, <4>1
        DEF WaitForWork, IdleAfter, mainVars, Shift, One, Live, Coming, Asleep, WorkerPCs
    <3> QED BY <2>5, <3>1, <3>2 DEF WaitForWork
  <2>6. CASE ThreadExits(t)
    <3>1. Shift(tpc, tpc', "timedout", "none")
      BY Zenon, <1>1, <2>6, Moved DEF ThreadExits, WorkerPCs
    <3>2. /\ Count(tpc', Live) = Count(tpc, Live) - 1
          /\ Count(tpc', Coming) = Count(tpc, Coming)
          /\ Count(tpc', Asleep) = Count(tpc, Asleep) - 1
      BY <1>3, <3>1 DEF Shift, One, Live, Coming, Asleep, WorkerPCs
    <3>3. /\ idle_threads' = idle_threads - 1 /\ cur_threads' = cur_threads - 1
          /\ UNCHANGED <<new_threads, pending_threads, mpc>>
      BY <2>6 DEF ThreadExits, IdleAfter, mainVars
    <3> QED BY SMTT(30), <1>1, <1>2, <1>3, <3>2, <3>3
  <2>7. CASE WaitReturns(t)
    <3>1. \/ Shift(tpc, tpc', "waiting", "timedout")
          \/ Shift(tpc, tpc', "waiting", "woken")
      BY Zenon, <1>1, <2>7, Moved DEF WaitReturns, WorkerPCs
    <3> QED
      BY SMTT(30), <1>1, <1>2, <1>3, <2>7, <3>1
      DEF WaitReturns, poolVars, mainVars, Shift, One, Live, Coming, Asleep, WorkerPCs
  <2>8. CASE StoreResult(t)
    <3>1. Shift(tpc, tpc', "working", "notify")
      BY Zenon, <1>1, <2>8, Moved DEF StoreResult, WorkerPCs
    <3> QED
      BY SMTT(30), <1>1, <1>2, <1>3, <2>8, <3>1
      DEF StoreResult, poolVars, mainVars, Shift, One, Live, Coming, Asleep, WorkerPCs
  <2>9. CASE posix_aio_notify_event(t)
    <3>1. Shift(tpc, tpc', "notify", "loop")
      BY Zenon, <1>1, <2>9, Moved DEF posix_aio_notify_event, WorkerPCs
    <3> QED
      BY SMTT(30), <1>1, <1>2, <1>3, <2>9, <3>1
      DEF posix_aio_notify_event, poolVars, mainVars, Shift, One, Live, Coming, Asleep, WorkerPCs
  <2> QED BY <1>11, <2>1, <2>2, <2>3, <2>4, <2>5, <2>6, <2>7, <2>8, <2>9 DEF WorkerNext
<1> QED BY <1>4, <1>5, <1>6, <1>7, <1>8, <1>9, <1>10, <1>11 DEF Next, MainNext

\* The counters stay natural numbers because they count threads.
LEMMA CounterTypes ==
  ASSUME TypeOK, PoolAccounting', Next
  PROVE  /\ cur_threads' \in Nat /\ idle_threads' \in Nat
         /\ new_threads' \in Nat /\ pending_threads' \in Nat
<1>1. new_threads' \in Nat
  <2>1. CASE UNCHANGED new_threads
    BY <2>1 DEF TypeOK
  <2>2. CASE new_threads' = new_threads + 1
    BY <2>2 DEF TypeOK
  <2>3. CASE new_threads # 0 /\ new_threads' = new_threads - 1
    BY <2>3 DEF TypeOK
  <2>4. MainNext => \/ UNCHANGED new_threads
                    \/ new_threads' = new_threads + 1
                    \/ new_threads # 0 /\ new_threads' = new_threads - 1
    BY Zenon DEF MainNext, paio_submit, cond_signal, paio_cancel, CancelSpinEnds,
           spawn_thread_bh_fn, MainCreates, posix_aio_read, ReadPipe, ScanStep,
           ScanEnds, CallbackReturns, spawn_thread, do_spawn_thread, poolVars
  <2>5. \A t \in Threads : WorkerNext(t) =>
          \/ UNCHANGED new_threads
          \/ new_threads # 0 /\ new_threads' = new_threads - 1
    BY DEF WorkerNext, ThreadStart, ThreadSpawns, ThreadCreates, TakeRequest,
           WaitForWork, ThreadExits, WaitReturns, StoreResult,
           posix_aio_notify_event, do_spawn_thread, poolVars
  <2> QED BY <2>1, <2>2, <2>3, <2>4, <2>5 DEF Next
<1>2. /\ Count(tpc', WorkerPCs \ {"none", "created"}) \in Nat
      /\ Count(tpc', {"created", "create"}) \in Nat
      /\ Count(tpc', {"waiting", "woken", "timedout"}) \in Nat
  BY CountNat
<1> QED BY <1>1, <1>2 DEF PoolAccounting

\* No thread exists at the start.
LEMMA InitPool ==
  ASSUME Init
  PROVE  PoolAccounting
<1>1. ASSUME NEW pcs, "none" \notin pcs PROVE Count(tpc, pcs) = 0
  <2>1. {t \in Threads : tpc[t] \in pcs} = {}
    BY <1>1 DEF Init
  <2> QED BY <2>1, FS_EmptySet DEF Count
<1>2. /\ Count(tpc, WorkerPCs \ {"none", "created"}) = 0
      /\ Count(tpc, {"created", "create"}) = 0
      /\ Count(tpc, {"waiting", "woken", "timedout"}) = 0
  BY <1>1
<1>3. MaxThreads \in Nat
  BY PosixAioAssumption, FS_CardinalityType
<1> QED BY <1>2, <1>3 DEF Init, PoolAccounting

-----------------------------------------------------------------------------
\* The backlog of threads to create is worked off: preserved by every action.
LEMMA SpawnStep ==
  ASSUME TypeOK, NoLostSpawn, Next
  PROVE  NoLostSpawn'
<1>1. /\ new_threads \in Nat /\ pending_threads \in Nat
      /\ tpc \in [Threads -> WorkerPCs]
  BY DEF TypeOK
<1>2. ASSUME UNCHANGED <<new_threads, pending_threads, bh>>,
             \A t \in Threads : tpc[t] = "spawn" => tpc'[t] = "spawn"
      PROVE  NoLostSpawn'
  BY <1>2 DEF NoLostSpawn
<1>3. ASSUME NEW r \in Reqs, NEW k \in Kinds, paio_submit(r, k)
      PROVE  NoLostSpawn'
  <2>1. CASE spawn_thread
    <3>1. CASE pending_threads = 0
      BY Zenon, <2>1, <3>1 DEF spawn_thread, NoLostSpawn
    <3>2. CASE pending_threads # 0
      BY <1>1, <2>1, <3>2 DEF spawn_thread, NoLostSpawn
    <3> QED BY <3>1, <3>2
  <2>2. CASE UNCHANGED poolVars
    BY <1>2, <1>3, <2>2 DEF paio_submit, poolVars
  <2> QED BY <1>3, <2>1, <2>2 DEF paio_submit
<1>4. ASSUME cond_signal PROVE NoLostSpawn'
  BY <1>1, <1>2, <1>4 DEF cond_signal, poolVars
<1>5. ASSUME NEW r \in Reqs, paio_cancel(r) PROVE NoLostSpawn'
  BY <1>2, <1>5 DEF paio_cancel, poolVars
<1>6. ASSUME CancelSpinEnds PROVE NoLostSpawn'
  BY <1>2, <1>6 DEF CancelSpinEnds, poolVars
<1>7. ASSUME spawn_thread_bh_fn PROVE NoLostSpawn'
  BY <1>1, <1>7 DEF NoLostSpawn, spawn_thread_bh_fn, do_spawn_thread
<1>8. ASSUME NEW u \in Threads, MainCreates(u) PROVE NoLostSpawn'
  BY <1>1, <1>2, <1>8 DEF MainCreates, poolVars
<1>9. ASSUME posix_aio_read \/ ReadPipe \/ ScanStep \/ ScanEnds \/ CallbackReturns
      PROVE  NoLostSpawn'
  BY Zenon, <1>2, <1>9 DEF posix_aio_read, ReadPipe, ScanStep, ScanEnds,
                    CallbackReturns, poolVars
<1>10. ASSUME NEW t \in Threads, ThreadStart(t) PROVE NoLostSpawn'
  BY <1>1, <1>10 DEF NoLostSpawn, ThreadStart
<1>11. ASSUME NEW t \in Threads, ThreadSpawns(t) PROVE NoLostSpawn'
  BY <1>1, <1>11 DEF NoLostSpawn, ThreadSpawns, do_spawn_thread
<1>12. ASSUME NEW t \in Threads, NEW u \in Threads, ThreadCreates(t, u)
       PROVE  NoLostSpawn'
  BY <1>1, <1>2, <1>12 DEF ThreadCreates, poolVars
<1>13. ASSUME NEW t \in Threads,
              \/ TakeRequest(t) \/ WaitForWork(t) \/ ThreadExits(t)
              \/ WaitReturns(t) \/ StoreResult(t) \/ posix_aio_notify_event(t)
       PROVE  NoLostSpawn'
  <2>1. \A u \in Threads : tpc[u] = "spawn" => tpc'[u] = "spawn"
    BY <1>1, <1>13 DEF TakeRequest, Checks, WaitForWork, ThreadExits, WaitReturns,
                       StoreResult, posix_aio_notify_event
  <2>2. UNCHANGED <<new_threads, pending_threads, bh>>
    BY <1>13 DEF TakeRequest, WaitForWork, ThreadExits, WaitReturns, StoreResult,
                 posix_aio_notify_event, poolVars
  <2> QED BY <1>2, <2>1, <2>2
<1> QED BY <1>3, <1>4, <1>5, <1>6, <1>7, <1>8, <1>9, <1>10, <1>11, <1>12, <1>13
        DEF Next, MainNext, WorkerNext

\* While a request is queued the pool is not empty.
Served == request_list # <<>> => cur_threads > 0

\* Preserved by every action: the last thread does not leave a request behind.
LEMMA ServedStep ==
  ASSUME TypeOK, PoolAccounting, Ownership, Served, Next
  PROVE  Served'
<1>1. /\ cur_threads \in Nat /\ idle_threads \in Nat /\ MaxThreads \in Nat \ {0}
      /\ request_list \in Seq(Reqs)
  BY PosixAioAssumption, FS_CardinalityType DEF TypeOK
<1>2. idle_threads > 0 => cur_threads > 0
  <2> DEFINE L == {t \in Threads : tpc[t] \in WorkerPCs \ {"none", "created"}}
             A == {t \in Threads : tpc[t] \in {"waiting", "woken", "timedout"}}
  <2>1. IsFiniteSet(L) /\ A \subseteq L
    BY PosixAioAssumption, FS_Subset DEF WorkerPCs
  <2>2. Cardinality(A) <= Cardinality(L) /\ Cardinality(L) \in Nat
        /\ Cardinality(A) \in Nat
    BY <2>1, FS_Subset, FS_CardinalityType
  <2>3. /\ cur_threads = new_threads + pending_threads + Cardinality(L)
        /\ idle_threads = Cardinality(A)
    BY DEF PoolAccounting, Count
  <2>4. new_threads \in Nat /\ pending_threads \in Nat
    BY DEF TypeOK
  <2> HIDE DEF A, L
  <2> QED BY <2>2, <2>3, <2>4
<1>3. ASSUME UNCHANGED <<request_list, cur_threads>> PROVE Served'
  BY <1>3 DEF Served
<1>4. ASSUME NEW r \in Reqs, NEW k \in Kinds, paio_submit(r, k) PROVE Served'
  <2>1. CASE idle_threads = 0 /\ cur_threads < MaxThreads
    BY <1>1, <1>4, <2>1 DEF Served, paio_submit, spawn_thread
  <2>2. CASE ~(idle_threads = 0 /\ cur_threads < MaxThreads)
    BY <1>1, <1>2, <1>4, <2>2 DEF Served, paio_submit, poolVars
  <2> QED BY <2>1, <2>2
<1>5. ASSUME NEW r \in Reqs, paio_cancel(r) PROVE Served'
  <2>1. CASE ~active[r]
    <3>1. r \in Range(request_list)
      BY <1>5, <2>1 DEF paio_cancel, Ownership
    <3>2. request_list # <<>>
      BY <3>1 DEF Range
    <3> QED BY SMTT(30), <1>5, <3>2 DEF Served, paio_cancel, poolVars
  <2>2. CASE active[r]
    BY SMTT(30), <1>3, <1>5, <2>2 DEF paio_cancel, poolVars
  <2> QED BY <1>5, <2>1, <2>2 DEF paio_cancel
<1>6. ASSUME \/ cond_signal \/ CancelSpinEnds \/ spawn_thread_bh_fn
             \/ (\E u \in Threads : MainCreates(u)) \/ posix_aio_read \/ ReadPipe
             \/ ScanStep \/ ScanEnds \/ CallbackReturns
      PROVE  Served'
  BY <1>3, <1>6 DEF cond_signal, CancelSpinEnds, spawn_thread_bh_fn, MainCreates,
                    posix_aio_read, ReadPipe, ScanStep, ScanEnds,
                    CallbackReturns, poolVars
<1>7. ASSUME NEW t \in Threads, TakeRequest(t) \/ ThreadExits(t) PROVE Served'
  BY SMTT(30), <1>7 DEF Served, TakeRequest, ThreadExits
<1>8. ASSUME NEW t \in Threads,
             \/ ThreadStart(t) \/ ThreadSpawns(t)
             \/ (\E u \in Threads : ThreadCreates(t, u)) \/ WaitForWork(t)
             \/ WaitReturns(t) \/ StoreResult(t) \/ posix_aio_notify_event(t)
      PROVE  Served'
  BY <1>3, <1>8 DEF ThreadStart, ThreadSpawns, ThreadCreates, WaitForWork,
                    WaitReturns, StoreResult, posix_aio_notify_event, poolVars
<1> QED BY <1>4, <1>5, <1>6, <1>7, <1>8 DEF Next, MainNext, WorkerNext

\* A worker that is awake, or on its way.
Awake == \/ new_threads + pending_threads > 0
         \/ \E t \in Threads : tpc[t] \notin {"none", "waiting"}

\* A queued request will be looked at: preserved by every action.
LEMMA StrandedStep ==
  ASSUME TypeOK, PoolAccounting, Ownership, Served, NoStrandedRequest, Next
  PROVE  NoStrandedRequest'
<1>1. /\ new_threads \in Nat /\ pending_threads \in Nat
      /\ tpc \in [Threads -> WorkerPCs] /\ request_list \in Seq(Reqs)
  BY DEF TypeOK
<1>2. ASSUME Awake' PROVE NoStrandedRequest'
  BY <1>2 DEF Awake, NoStrandedRequest
<1>3. ASSUME request_list # <<>>, mpc # "signal" PROVE Awake
  BY <1>3 DEF Awake, NoStrandedRequest
<1>4. ASSUME request_list' # <<>> => request_list # <<>>,
             mpc = "signal" => mpc' = "signal", Awake => Awake'
      PROVE  NoStrandedRequest'
  BY <1>4 DEF Awake, NoStrandedRequest
<1>5. ASSUME NEW r \in Reqs, NEW k \in Kinds, paio_submit(r, k)
      PROVE  NoStrandedRequest'
  BY <1>5 DEF NoStrandedRequest, paio_submit
<1>6. ASSUME cond_signal PROVE NoStrandedRequest'
  <2>1. CASE \E t \in Threads : /\ tpc[t] = "waiting"
                                 /\ tpc' = [tpc EXCEPT ![t] = "woken"]
    BY <1>1, <1>2, <2>1 DEF Awake
  <2>2. CASE UNCHANGED tpc /\ \A t \in Threads : tpc[t] # "waiting"
    <3>1. ASSUME request_list # <<>>, ~Awake PROVE FALSE
      <4>1. \A t \in Threads : tpc[t] = "none"
        BY <2>2, <3>1 DEF Awake
      <4>2. {t \in Threads : tpc[t] \in WorkerPCs \ {"none", "created"}} = {}
        BY <4>1
      <4>3. Count(tpc, WorkerPCs \ {"none", "created"}) = 0
        BY <4>2, FS_EmptySet DEF Count
      <4> QED BY <1>1, <3>1, <4>3 DEF Served, Awake, PoolAccounting
    <3> QED BY <1>6, <2>2, <3>1 DEF cond_signal, NoStrandedRequest, Awake, poolVars
  <2> QED BY <1>6, <2>1, <2>2 DEF cond_signal
<1>7. ASSUME NEW r \in Reqs, paio_cancel(r) PROVE NoStrandedRequest'
  <2>1. request_list' # <<>> => request_list # <<>>
    <3>1. CASE ~active[r]
      <4>1. r \in Range(request_list)
        BY <1>7, <3>1 DEF paio_cancel, Ownership
      <4> QED BY SMTT(30), <4>1 DEF Range
    <3> QED BY <1>7, <3>1 DEF paio_cancel
  <2>2. mpc # "signal" /\ UNCHANGED <<poolVars, tpc>>
    BY <1>7 DEF paio_cancel, MainRuns
  <2> QED BY <1>4, <2>1, <2>2 DEF Awake, poolVars
<1>8. ASSUME CancelSpinEnds PROVE NoStrandedRequest'
  BY <1>4, <1>8 DEF CancelSpinEnds, Awake, poolVars
<1>9. ASSUME spawn_thread_bh_fn PROVE NoStrandedRequest'
  BY <1>1, <1>4, <1>9 DEF spawn_thread_bh_fn, do_spawn_thread, MainRuns, Awake
<1>10. ASSUME NEW u \in Threads, MainCreates(u) PROVE NoStrandedRequest'
  BY SMTT(30), <1>1, <1>2, <1>10 DEF MainCreates, Awake
<1>11. ASSUME posix_aio_read \/ ReadPipe \/ ScanStep \/ ScanEnds \/ CallbackReturns
       PROVE  NoStrandedRequest'
  BY <1>4, <1>11 DEF posix_aio_read, ReadPipe, ScanStep, ScanEnds,
                     CallbackReturns, Awake, poolVars
<1>12. ASSUME NEW t \in Threads, WaitForWork(t) \/ ThreadExits(t)
       PROVE  NoStrandedRequest'
  BY <1>12 DEF WaitForWork, ThreadExits, NoStrandedRequest
<1>13. ASSUME NEW t \in Threads,
              \/ ThreadStart(t) \/ ThreadSpawns(t)
              \/ (\E u \in Threads : ThreadCreates(t, u)) \/ TakeRequest(t)
              \/ WaitReturns(t) \/ StoreResult(t) \/ posix_aio_notify_event(t)
       PROVE  NoStrandedRequest'
  <2>1. tpc'[t] \notin {"none", "waiting"}
    BY <1>1, <1>13 DEF ThreadStart, ThreadSpawns, ThreadCreates, TakeRequest,
                       WaitReturns, StoreResult, posix_aio_notify_event
  <2> QED BY <1>2, <2>1 DEF Awake
<1> QED BY <1>5, <1>6, <1>7, <1>8, <1>9, <1>10, <1>11, <1>12, <1>13
        DEF Next, MainNext, WorkerNext
=============================================================================
