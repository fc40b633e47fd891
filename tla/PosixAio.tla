------------------------------ MODULE PosixAio ------------------------------
(***************************************************************************)
(* The thread pool that emulates asynchronous file I/O                     *)
(* (posix-aio-compat.c).  The code that holds QEMU's global mutex, called  *)
(* "main" here, submits and cancels requests and runs completion           *)
(* callbacks; worker threads take requests from request_list, execute them *)
(* and report through a pipe.  A section of the C code between mutex_lock  *)
(* and mutex_unlock is one action; what happens outside the lock           *)
(* (cond_signal, pthread_create, the system call, the write to the pipe)   *)
(* is an action of its own, so that the other threads run in between.      *)
(***************************************************************************)
EXTENDS Naturals, Sequences, FiniteSets, Lists

CONSTANTS
  Reqs,        \* the aiocbs of raw_aio_pool; a released one is allocated again
  Threads,     \* identities of worker threads
  MaxThreads,  \* max_threads
  Kinds,       \* request types submitted, a subset of AioKinds
  PipeCap,     \* bytes the completion pipe holds
  Chunk,       \* bytes posix_aio_read takes from the pipe in one read
  MaxNest,     \* bound: nested calls of posix_aio_read
  MaxSubmits   \* bound: requests submitted in a behaviour

AioKinds == {"read", "read_growable", "write", "flush", "ioctl"}

ASSUME PosixAioAssumption ==
  /\ IsFiniteSet(Threads)
  /\ MaxThreads \in 1..Cardinality(Threads)
  /\ Kinds \subseteq AioKinds /\ Kinds # {}
  /\ PipeCap \in Nat \ {0} /\ Chunk \in Nat \ {0}
  /\ MaxNest \in Nat \ {0} /\ MaxSubmits \in Nat

VARIABLES
  request_list,    \* requests no worker has taken yet, in submission order
  first_aio,       \* requests main still waits for, newest first
  free,            \* aiocbs in the pool's free list
  kind,            \* aio_type of each request
  ret,             \* the result field of each aiocb
  active,          \* the active field: some worker has taken the request
  cur_threads, idle_threads, new_threads, pending_threads,
  bh,              \* new_thread_bh is scheduled
  tpc,             \* where each worker is
  task,            \* the aiocb a working thread holds, <<>> or <<aiocb>>
  pipe,            \* bytes in the completion pipe
  frames,          \* posix_aio_read calls on main's stack, innermost last
  mpc,             \* the unlocked step main is in, "run" if none
  victim,          \* the request paio_cancel spins on, <<>> or <<aiocb>>
  submits          \* requests submitted so far

poolVars == <<cur_threads, idle_threads, new_threads, pending_threads, bh>>
reqVars  == <<first_aio, free, kind>>
mainVars == <<frames, mpc, victim>>
vars == <<request_list, reqVars, ret, active, poolVars, tpc, task, pipe,
          mainVars, submits>>

Done       == {"full", "short", "error"}  \* results a finished request can have
Results    == Done \cup {"EINPROGRESS", "ECANCELED"}
WorkerPCs  == {"none", "created", "spawn", "create", "loop", "waiting",
               "woken", "timedout", "working", "notify"}
FramePCs   == {"drain", "scan", "cb"}
MainPCs    == {"run", "signal", "create", "spin"}
Opt(S)     == {<<>>} \cup {<<x>> : x \in S}  \* a pointer to an S, or NULL
Frame      == {f \in [pc : FramePCs, pos : Nat, acb : Opt(Reqs)] :
                 /\ (f.pc = "cb") = (f.acb # <<>>)
                 /\ (f.pc = "scan") = (f.pos > 0)}

Init ==
  /\ request_list = <<>> /\ first_aio = <<>> /\ free = Reqs
  /\ kind = [r \in Reqs |-> CHOOSE k \in Kinds : TRUE]
  /\ ret = [r \in Reqs |-> "EINPROGRESS"]
  /\ active = [r \in Reqs |-> FALSE]
  /\ cur_threads = 0 /\ idle_threads = 0
  /\ new_threads = 0 /\ pending_threads = 0 /\ bh = FALSE
  /\ tpc = [t \in Threads |-> "none"]
  /\ task = [t \in Threads |-> <<>>]
  /\ pipe = 0
  /\ frames = <<>> /\ mpc = "run" /\ victim = <<>>
  /\ submits = 0

-----------------------------------------------------------------------------
(* Main: submission, cancellation and the bottom half that creates threads *)

\* Code of the block layer runs on main: between events, or inside a callback.
MainRuns == mpc = "run" /\ (frames # <<>> => Peek(frames).pc = "cb")

\* Mutant: the bottom half is scheduled for the first thread only.
M_spawn_thread_first ==
  /\ cur_threads' = cur_threads + 1
  /\ new_threads' = new_threads + 1
  /\ bh' = (bh \/ cur_threads = 0)
  /\ UNCHANGED <<idle_threads, pending_threads>>

\* spawn_thread, called under the lock when no worker is idle.
spawn_thread ==
  /\ cur_threads' = cur_threads + 1
  /\ new_threads' = new_threads + 1
  /\ bh' = (bh \/ pending_threads = 0)
  /\ UNCHANGED <<idle_threads, pending_threads>>

paio_submit(r, k) ==
  /\ MainRuns /\ r \in free /\ submits < MaxSubmits
  /\ submits' = submits + 1
  /\ free' = free \ {r}
  /\ kind' = [kind EXCEPT ![r] = k]
  /\ ret' = [ret EXCEPT ![r] = "EINPROGRESS"]
  /\ active' = [active EXCEPT ![r] = FALSE]
  /\ first_aio' = Link(r, first_aio)
  /\ request_list' = Append(request_list, r)
  /\ IF idle_threads = 0 /\ cur_threads < MaxThreads
       THEN spawn_thread
       ELSE UNCHANGED poolVars
  /\ mpc' = "signal"
  /\ UNCHANGED <<tpc, task, pipe, frames, victim>>

\* Mutant: the signal wakes nobody.
M_cond_signal_dropped ==
  /\ mpc = "signal" /\ mpc' = "run"
  /\ UNCHANGED <<request_list, reqVars, ret, active, poolVars, tpc, task, pipe,
                 frames, victim, submits>>

\* cond_signal wakes one waiting worker; it is lost when none waits.
cond_signal ==
  /\ mpc = "signal" /\ mpc' = "run"
  /\ \/ \E t \in Threads : /\ tpc[t] = "waiting"
                           /\ tpc' = [tpc EXCEPT ![t] = "woken"]
     \/ /\ \A t \in Threads : tpc[t] # "waiting"
        /\ UNCHANGED tpc
  /\ UNCHANGED <<request_list, reqVars, ret, active, poolVars, task, pipe,
                 frames, victim, submits>>

\* paio_remove and qemu_aio_release.
paio_remove(r) ==
  /\ first_aio' = Unlink(first_aio, r)
  /\ free' = free \cup {r}
  /\ UNCHANGED kind

\* Mutant: an active request is removed without waiting for its worker.
M_paio_cancel_no_wait(r) ==
  /\ MainRuns /\ r \in Range(first_aio)
  /\ \/ /\ ~active[r]
        /\ request_list' = Unlink(request_list, r)
        /\ ret' = [ret EXCEPT ![r] = "ECANCELED"]
     \/ active[r] /\ UNCHANGED <<request_list, ret>>
  /\ paio_remove(r)
  /\ UNCHANGED <<active, poolVars, tpc, task, pipe, mainVars, submits>>


paio_cancel(r) ==
  /\ MainRuns /\ r \in Range(first_aio)
  /\ \/ /\ ~active[r]
        /\ request_list' = Unlink(request_list, r)
        /\ ret' = [ret EXCEPT ![r] = "ECANCELED"]
        /\ paio_remove(r)
        /\ UNCHANGED <<mpc, victim>>
     \/ /\ active[r] /\ ret[r] # "EINPROGRESS"
        /\ paio_remove(r)
        /\ UNCHANGED <<request_list, ret, mpc, victim>>
     \/ /\ active[r] /\ ret[r] = "EINPROGRESS"
        /\ mpc' = "spin" /\ victim' = <<r>>
        /\ UNCHANGED <<request_list, ret, reqVars>>
  /\ UNCHANGED <<active, poolVars, tpc, task, pipe, frames, submits>>

\* Mutant: the busy wait expects the worker to acknowledge the cancellation.
M_CancelSpinEnds_ack ==
  /\ mpc = "spin" /\ ret[victim[1]] = "ECANCELED"
  /\ paio_remove(victim[1])
  /\ mpc' = "run" /\ victim' = <<>>
  /\ UNCHANGED <<request_list, ret, active, poolVars, tpc, task, pipe, frames,
                 submits>>

\* The busy wait of paio_cancel ends once the worker has stored a result.
CancelSpinEnds ==
  /\ mpc = "spin" /\ ret[victim[1]] # "EINPROGRESS"
  /\ paio_remove(victim[1])
  /\ mpc' = "run" /\ victim' = <<>>
  /\ UNCHANGED <<request_list, ret, active, poolVars, tpc, task, pipe, frames,
                 submits>>

\* The locked part of do_spawn_thread when new_threads is not 0.
do_spawn_thread ==
  /\ new_threads' = new_threads - 1
  /\ pending_threads' = pending_threads + 1

spawn_thread_bh_fn ==
  /\ MainRuns /\ bh /\ bh' = FALSE
  /\ IF new_threads = 0
       THEN UNCHANGED <<new_threads, pending_threads, mpc>>
       ELSE do_spawn_thread /\ mpc' = "create"
  /\ UNCHANGED <<request_list, reqVars, ret, active, cur_threads, idle_threads,
                 tpc, task, pipe, frames, victim, submits>>

MainCreates(u) ==
  /\ mpc = "create" /\ mpc' = "run"
  /\ tpc[u] = "none"
  /\ tpc' = [tpc EXCEPT ![u] = "created"]
  /\ UNCHANGED <<request_list, reqVars, ret, active, poolVars, task, pipe,
                 frames, victim, submits>>

-----------------------------------------------------------------------------
(* Main: posix_aio_read, the handler of the completion pipe *)

Top == Peek(frames)
SetTop(f) == frames' = Append(Pop(frames), f)
InRead(pc) == mpc = "run" /\ frames # <<>> /\ Top.pc = pc
Scan(i) == [pc |-> "scan", pos |-> i, acb |-> <<>>]

\* The main loop calls the handler when the pipe is readable; inside a
\* callback qemu_aio_wait does, and then only if posix_aio_flush reports
\* outstanding requests.
posix_aio_read ==
  /\ MainRuns /\ pipe > 0 /\ Len(frames) < MaxNest
  /\ frames # <<>> => first_aio # <<>>
  /\ frames' = Append(frames, [pc |-> "drain", pos |-> 0, acb |-> <<>>])
  /\ UNCHANGED <<request_list, reqVars, ret, active, poolVars, tpc, task, pipe,
                 mpc, victim, submits>>

\* One read of the pipe; a full chunk means there may be more to read.
ReadPipe ==
  /\ InRead("drain")
  /\ \/ /\ pipe >= Chunk
        /\ pipe' = pipe - Chunk
        /\ UNCHANGED frames
     \/ /\ pipe < Chunk
        /\ pipe' = 0
        /\ SetTop(Scan(1))
  /\ UNCHANGED <<request_list, reqVars, ret, active, poolVars, tpc, task,
                 mpc, victim, submits>>

\* One iteration of the inner loop, at the list element *pacb.  The worker's
\* result is translated for the callback: only a full transfer is success.
ScanStep ==
  /\ InRead("scan") /\ Top.pos <= Len(first_aio)
  /\ LET r == first_aio[Top.pos] IN
       \/ /\ ret[r] = "ECANCELED"
          /\ paio_remove(r)
          /\ UNCHANGED frames
       \/ /\ ret[r] = "EINPROGRESS"
          /\ SetTop(Scan(Top.pos + 1))
          /\ UNCHANGED reqVars
       \/ /\ ret[r] \in Done
          /\ first_aio' = Unlink(first_aio, r)
          /\ SetTop([pc |-> "cb", pos |-> 0, acb |-> <<r>>])
          /\ UNCHANGED <<free, kind>>
  /\ UNCHANGED <<request_list, ret, active, poolVars, tpc, task, pipe,
                 mpc, victim, submits>>

ScanEnds ==
  /\ InRead("scan") /\ Top.pos > Len(first_aio)
  /\ frames' = Pop(frames)
  /\ UNCHANGED <<request_list, reqVars, ret, active, poolVars, tpc, task, pipe,
                 mpc, victim, submits>>

\* Mutant: posix_aio_read returns after its first callback.
M_CallbackReturns_stop ==
  /\ InRead("cb")
  /\ free' = free \cup {Top.acb[1]}
  /\ frames' = Pop(frames)
  /\ UNCHANGED <<request_list, first_aio, kind, ret, active, poolVars, tpc, task,
                 pipe, mpc, victim, submits>>

\* The callback returns; the aiocb goes back to the pool and the scan restarts
\* at the head of the list.
CallbackReturns ==
  /\ InRead("cb")
  /\ free' = free \cup {Top.acb[1]}
  /\ SetTop(Scan(1))
  /\ UNCHANGED <<request_list, first_aio, kind, ret, active, poolVars, tpc, task,
                 pipe, mpc, victim, submits>>

-----------------------------------------------------------------------------
(* Workers: aio_thread *)

ThreadStart(t) ==
  /\ tpc[t] = "created"
  /\ pending_threads' = pending_threads - 1
  /\ tpc' = [tpc EXCEPT ![t] = "spawn"]
  /\ UNCHANGED <<request_list, reqVars, ret, active, cur_threads, idle_threads,
                 new_threads, bh, task, pipe, mainVars, submits>>

\* A fresh worker first works off the backlog of threads to create.
ThreadSpawns(t) ==
  /\ tpc[t] = "spawn"
  /\ IF new_threads = 0
       THEN /\ tpc' = [tpc EXCEPT ![t] = "loop"]
            /\ UNCHANGED <<new_threads, pending_threads>>
       ELSE /\ do_spawn_thread
            /\ tpc' = [tpc EXCEPT ![t] = "create"]
  /\ UNCHANGED <<request_list, reqVars, ret, active, cur_threads, idle_threads,
                 bh, task, pipe, mainVars, submits>>

ThreadCreates(t, u) ==
  /\ tpc[t] = "create" /\ tpc[u] = "none"
  /\ tpc' = [tpc EXCEPT ![t] = "loop", ![u] = "created"]
  /\ UNCHANGED <<request_list, reqVars, ret, active, poolVars, task, pipe,
                 mainVars, submits>>

\* The worker holds the lock at the head of its loop or behind cond_timedwait.
Checks(t) == tpc[t] \in {"loop", "woken", "timedout"}

IdleAfter(t) == IF tpc[t] = "loop" THEN idle_threads ELSE idle_threads - 1

TakeRequest(t) ==
  /\ Checks(t) /\ request_list # <<>>
  /\ idle_threads' = IdleAfter(t)
  /\ request_list' = Tail(request_list)
  /\ active' = [active EXCEPT ![Head(request_list)] = TRUE]
  /\ task' = [task EXCEPT ![t] = <<Head(request_list)>>]
  /\ tpc' = [tpc EXCEPT ![t] = "working"]
  /\ UNCHANGED <<reqVars, ret, cur_threads, new_threads, pending_threads, bh,
                 pipe, mainVars, submits>>

WaitForWork(t) ==
  /\ tpc[t] \in {"loop", "woken"} /\ request_list = <<>>
  /\ idle_threads' = IdleAfter(t) + 1
  /\ tpc' = [tpc EXCEPT ![t] = "waiting"]
  /\ UNCHANGED <<request_list, reqVars, ret, active, cur_threads, new_threads,
                 pending_threads, bh, task, pipe, mainVars, submits>>

\* Mutants: the dying worker does not look at request_list again, or it is not
\* taken off cur_threads.
M_ThreadExits_blind(t) ==
  /\ tpc[t] = "timedout"
  /\ idle_threads' = IdleAfter(t)
  /\ cur_threads' = cur_threads - 1
  /\ tpc' = [tpc EXCEPT ![t] = "none"]
  /\ UNCHANGED <<request_list, reqVars, ret, active, new_threads,
                 pending_threads, bh, task, pipe, mainVars, submits>>

M_ThreadExits_uncounted(t) ==
  /\ tpc[t] = "timedout" /\ request_list = <<>>
  /\ idle_threads' = IdleAfter(t)
  /\ tpc' = [tpc EXCEPT ![t] = "none"]
  /\ UNCHANGED <<request_list, reqVars, ret, active, cur_threads, new_threads,
                 pending_threads, bh, task, pipe, mainVars, submits>>


ThreadExits(t) ==
  /\ tpc[t] = "timedout" /\ request_list = <<>>
  /\ idle_threads' = IdleAfter(t)
  /\ cur_threads' = cur_threads - 1
  /\ tpc' = [tpc EXCEPT ![t] = "none"]
  /\ UNCHANGED <<request_list, reqVars, ret, active, new_threads,
                 pending_threads, bh, task, pipe, mainVars, submits>>

\* cond_timedwait returns without a signal: after ten seconds, or spuriously.
WaitReturns(t) ==
  /\ tpc[t] = "waiting"
  /\ \E pc \in {"timedout", "woken"} : tpc' = [tpc EXCEPT ![t] = pc]
  /\ UNCHANGED <<request_list, reqVars, ret, active, poolVars, task, pipe,
                 mainVars, submits>>

\* What the system calls can make of a request: a flush or ioctl has no short
\* result, and a short read of a growable file is padded to a full one.  The
\* host's errno is stored as it is, so ECANCELED can come from there as well.
HandleAiocb(k) ==
  {"full", "error", "ECANCELED"} \cup
    IF k \in {"read", "write"} THEN {"short"} ELSE {}

StoreResult(t) ==
  /\ tpc[t] = "working"
  /\ \E res \in HandleAiocb(kind[task[t][1]]) :
       ret' = [ret EXCEPT ![task[t][1]] = res]
  /\ task' = [task EXCEPT ![t] = <<>>]
  /\ tpc' = [tpc EXCEPT ![t] = "notify"]
  /\ UNCHANGED <<request_list, reqVars, active, poolVars, pipe, mainVars, submits>>

\* A write to a full pipe fails with EAGAIN, which is ignored.
posix_aio_notify_event(t) ==
  /\ tpc[t] = "notify"
  /\ pipe' = IF pipe < PipeCap THEN pipe + 1 ELSE pipe
  /\ tpc' = [tpc EXCEPT ![t] = "loop"]
  /\ UNCHANGED <<request_list, reqVars, ret, active, poolVars, task, mainVars,
                 submits>>

-----------------------------------------------------------------------------
MainNext ==
  \/ \E r \in Reqs, k \in Kinds : paio_submit(r, k)
  \/ cond_signal
  \/ \E r \in Reqs : paio_cancel(r)
  \/ CancelSpinEnds
  \/ spawn_thread_bh_fn
  \/ \E u \in Threads : MainCreates(u)
  \/ posix_aio_read
  \/ ReadPipe
  \/ ScanStep
  \/ ScanEnds
  \/ CallbackReturns

WorkerNext(t) ==
  \/ ThreadStart(t)
  \/ ThreadSpawns(t)
  \/ \E u \in Threads : ThreadCreates(t, u)
  \/ TakeRequest(t)
  \/ WaitForWork(t)
  \/ ThreadExits(t)
  \/ WaitReturns(t)
  \/ StoreResult(t)
  \/ posix_aio_notify_event(t)

Next == MainNext \/ \E t \in Threads : WorkerNext(t)

Spec == Init /\ [][Next]_vars

\* Main is never stuck inside one of its own steps, its loop polls bottom
\* halves and the pipe, callbacks return and system calls end.  Nothing makes
\* the block layer submit or cancel, or a wait time out.
MainProgress ==
  \/ cond_signal \/ CancelSpinEnds \/ spawn_thread_bh_fn
  \/ (\E u \in Threads : MainCreates(u))
  \/ posix_aio_read \/ ReadPipe \/ ScanStep \/ ScanEnds \/ CallbackReturns

WorkerProgress(t) ==
  \/ ThreadStart(t) \/ ThreadSpawns(t)
  \/ (\E u \in Threads : ThreadCreates(t, u))
  \/ TakeRequest(t) \/ WaitForWork(t) \/ ThreadExits(t)
  \/ StoreResult(t) \/ posix_aio_notify_event(t)

FairSpec ==
  /\ Spec
  /\ WF_vars(MainProgress)
  /\ \A t \in Threads : WF_vars(WorkerProgress(t))

-----------------------------------------------------------------------------
(* Properties *)

\* Every variable has its type.
TypeOK ==
  /\ request_list \in Seq(Reqs)
  /\ first_aio \in Seq(Reqs)
  /\ free \in SUBSET Reqs
  /\ kind \in [Reqs -> Kinds]
  /\ ret \in [Reqs -> Results]
  /\ active \in [Reqs -> BOOLEAN]
  /\ cur_threads \in Nat /\ idle_threads \in Nat
  /\ new_threads \in Nat /\ pending_threads \in Nat
  /\ bh \in BOOLEAN
  /\ tpc \in [Threads -> WorkerPCs]
  /\ task \in [Threads -> Opt(Reqs)]
  /\ \A t \in Threads : (tpc[t] = "working") = (task[t] # <<>>)
  /\ pipe \in 0..PipeCap
  /\ frames \in Seq(Frame)
  /\ mpc \in MainPCs
  /\ victim \in Opt(Reqs) /\ ((mpc = "spin") = (victim # <<>>))
  /\ submits \in 0..MaxSubmits

\* How many workers are at one of pcs, f saying where each is.
Count(f, pcs) == Cardinality({t \in Threads : f[t] \in pcs})

\* The four counters describe the threads that exist: cur_threads counts the
\* running ones, the pending ones and the backlog; pending_threads the ones
\* created, or being created by a worker or by main; idle_threads the ones
\* inside cond_timedwait.  The pool never exceeds max_threads.
PoolAccounting ==
  /\ cur_threads = new_threads + pending_threads
                   + Count(tpc, WorkerPCs \ {"none", "created"})
  /\ pending_threads = Count(tpc, {"created", "create"})
                       + (IF mpc = "create" THEN 1 ELSE 0)
  /\ idle_threads = Count(tpc, {"waiting", "woken", "timedout"})
  /\ cur_threads <= MaxThreads

\* A thread in the backlog will be created: the bottom half is scheduled, or a
\* thread on its way up will call do_spawn_thread (posix-aio-compat.c:422).
NoLostSpawn ==
  new_threads > 0 => \/ bh
                     \/ pending_threads > 0
                     \/ \E t \in Threads : tpc[t] = "spawn"

\* A queued request is never left with every worker asleep: some worker will
\* look at request_list again, is being made, or main is about to signal.
NoStrandedRequest ==
  request_list # <<>> =>
    \/ mpc = "signal"
    \/ new_threads + pending_threads > 0
    \/ \E t \in Threads : tpc[t] \notin {"none", "waiting"}

\* Frame f of posix_aio_read has yet to look at element i of first_aio.
WillVisit(f, i) == f.pc \in {"drain", "cb"} \/ (f.pc = "scan" /\ f.pos <= i)

\* A finished request that main still waits for is never overlooked: the pipe
\* is readable, its worker is about to write to it, or a scan will reach it.
NoLostCompletion ==
  \A i \in 1..Len(first_aio) :
    ret[first_aio[i]] # "EINPROGRESS" =>
      \/ pipe > 0
      \/ \E t \in Threads : tpc[t] = "notify"
      \/ \E j \in 1..Len(frames) : WillVisit(frames[j], i)

\* The requests whose callbacks run in a stack of frames, and that no two
\* frames run the same one.
InCallback(fs) == {fs[j].acb[1] : j \in {i \in 1..Len(fs) : fs[i].pc = "cb"}}
CalledOnce(fs) == \A i, j \in 1..Len(fs) :
                    fs[i].pc = "cb" /\ fs[i].acb = fs[j].acb => i = j

\* Who may touch an aiocb.  Each list holds a request at most once.  A released
\* aiocb is in no list and in no worker's hands, so a reused one is never
\* written by the worker of its former request; one whose callback runs is out
\* of the list, and only one frame runs it.  The inactive requests main waits
\* for are exactly the queued ones, so paio_cancel unlinks none that is not
\* linked; it spins on one that is still listed.  A worker's task is in
\* progress, main still waits for it, and no other worker has it.
Ownership ==
  /\ IsInjective(first_aio) /\ IsInjective(request_list)
  /\ CalledOnce(frames)
  /\ (free \cup InCallback(frames)) \cap Range(first_aio) = {}
  /\ free \cap InCallback(frames) = {}
  /\ Range(request_list) = {r \in Range(first_aio) : ~active[r]}
  /\ \A r \in Range(request_list) : ret[r] = "EINPROGRESS"
  /\ mpc = "spin" => victim[1] \in {r \in Range(first_aio) : active[r]}
  /\ \A t \in Threads : tpc[t] = "working" =>
       /\ task[t][1] \in {r \in Range(first_aio) : active[r]}
       /\ ret[task[t][1]] = "EINPROGRESS"
       /\ \A u \in Threads : task[u] = task[t] => u = t

\* Every submitted request is eventually finished: called back, or removed by
\* a cancellation.
EveryRequestEnds == \A r \in Reqs : r \notin free ~> r \in free

\* paio_cancel does not spin for ever.
CancelTerminates == mpc = "spin" ~> mpc # "spin"
=============================================================================
