------------------------------ MODULE BlockIO ------------------------------
(***************************************************************************)
(* Requests of a block device (block.c): throttling, copy on read, the     *)
(* serialisation of requests that touch the same cluster while a copy is   *)
(* in flight, bdrv_drain_all, and the block driver below, which is         *)
(* external.  A request is a coroutine; a step takes it from one yield to  *)
(* the next.  All of it runs under the global mutex.                       *)
(***************************************************************************)
EXTENDS Throttle

CONSTANTS
  MaxReqs,      \* bound: requests
  Size,         \* sectors of the device
  ClusterSize,  \* sectors of a cluster
  Past,         \* sectors transferred before
  Scopes        \* bounds: the requests, limits, errors and events of a behaviour

Reqs    == 1..MaxReqs
Sectors == 0..(Size - 1)
Unlimited == [bps |-> 0, iops |-> 0]

ASSUME BlockIOAssumption ==
  /\ {MaxReqs, Size, ClusterSize, Past, MaxLate} \subseteq Nat /\ ClusterSize > 0
  /\ \A s \in Scopes : /\ s.limits \subseteq [bps : Nat, iops : Nat]
                       /\ s.caches \subseteq BOOLEAN /\ {s.fails, s.jobs} \subseteq BOOLEAN
                       /\ s.reqs \in 0..MaxReqs /\ s.events \in Nat
                       /\ \A o \in s.ops : o.nb > 0 /\ o.at >= 0 /\ o.at + o.nb <= Size

VARIABLES
  scope,
  enable_write_cache,
  pc, req,                 \* where each request is, and its fields
  tracked_requests,        \* newest first
  wait_queue,              \* of each tracked request
  copy_on_read,            \* the flag of the device
  copy_on_read_in_flight,
  content,                 \* external: what the driver reads from each sector
  allocated,               \* external: the clusters the image itself holds
  in_bh,                   \* qemu_co_queue_next_bh is in its loop
  drain,                   \* bdrv_drain_all: "no", or it "wait"s, or was "busy"
  frozen,                  \* cpu_disable_ticks: vm_clock stands still
  dead,                    \* qemu_mod_timer was called with NULL
  events                   \* history: events so far

reqVars   == <<pc, req, tracked_requests, wait_queue, copy_on_read_in_flight>>
diskVars  == <<content, allocated>>
otherVars == <<scope, enable_write_cache, copy_on_read, frozen, events>>
vars == <<throttleVars, nr, unlock_bh_queue, reqVars, diskVars, otherVars, in_bh, drain,
          dead>>

\* job: bdrv_co_copy_on_readv; sync: called by bdrv_rw_co; cor: copy on read.
NoReq == [kind |-> "read", job |-> FALSE, sync |-> FALSE, at |-> 0, nb |-> 0,
          cor |-> FALSE, buf |-> <<>>, ret |-> "none"]

Init ==
  /\ scope \in Scopes /\ enable_write_cache \in scope.caches
  /\ limits \in scope.limits
  /\ io_limits_enabled = Limited(limits) /\ block_timer = Limited(limits)
  /\ due = <<>> /\ slice = Expired /\ nr = [bytes |-> Past, ops |-> Past]
  /\ throttled_reqs = <<>> /\ unlock_bh_queue = <<>> /\ in_bh = FALSE
  /\ pc = [r \in Reqs |-> "none"] /\ req = [r \in Reqs |-> NoReq]
  /\ tracked_requests = <<>> /\ wait_queue = [r \in Reqs |-> <<>>]
  /\ copy_on_read = FALSE /\ copy_on_read_in_flight = 0
  /\ content = [s \in Sectors |-> 0] /\ allocated = {}
  /\ drain = "no" /\ frozen = FALSE /\ dead = FALSE /\ events = 0

Cluster(s)  == s \div ClusterSize
SectorsOf(q) == q.at..(q.at + q.nb - 1)

\* round_to_clusters
round_to_clusters(q) ==
  LET first == (q.at \div ClusterSize) * ClusterSize
      n     == q.at - first + q.nb
  IN  [at |-> first, nb |-> ((n + ClusterSize - 1) \div ClusterSize) * ClusterSize]

tracked_request_overlaps(q, a) == ~(a.at >= q.at + q.nb) /\ ~(q.at >= a.at + a.nb)

-----------------------------------------------------------------------------
(* A request from one yield to the next *)

InDriver == {"is_allocated", "readv", "cor_readv", "cor_writev", "write_zeroes",
             "writev", "flush"}

\* tracked_request_begin, and the call of the driver.
tracked_request_begin(r, q) ==
  /\ tracked_requests' = Link(r, tracked_requests)
  /\ req' = [req EXCEPT ![r] = q]
  /\ pc' = [pc EXCEPT ![r] = CASE q.cor -> "is_allocated"
                               [] q.kind = "read" /\ ~q.cor -> "readv"
                               [] q.kind = "write" -> "writev"
                               [] q.kind = "zeroes" -> "write_zeroes"]
  /\ UNCHANGED wait_queue

\* Mutant: only requests for the same sectors are waited for.
M_wait_for_sectors(r, q) ==
  LET hits == {i \in 1..Len(tracked_requests) :
                 tracked_request_overlaps(req[tracked_requests[i]], q)}
  IN  \/ hits = {} /\ tracked_request_begin(r, q)
      \/ \E i \in hits :
           /\ \A j \in hits : i <= j
           /\ wait_queue' = [wait_queue EXCEPT ![tracked_requests[i]] = Append(@, r)]
           /\ req' = [req EXCEPT ![r] = q] /\ pc' = [pc EXCEPT ![r] = "overlap"]
           /\ UNCHANGED tracked_requests

\* wait_for_overlapping_requests: wait for the first that touches the same cluster.
wait_for_overlapping_requests(r, q) ==
  LET hits == {i \in 1..Len(tracked_requests) :
                 tracked_request_overlaps(req[tracked_requests[i]], round_to_clusters(q))}
  IN  \/ /\ hits = {}
         /\ tracked_request_begin(r, q)
      \/ \E i \in hits :
           /\ \A j \in hits : i <= j
           /\ wait_queue' = [wait_queue EXCEPT ![tracked_requests[i]] = Append(@, r)]
           /\ req' = [req EXCEPT ![r] = q]
           /\ pc' = [pc EXCEPT ![r] = "overlap"]
           /\ UNCHANGED tracked_requests

\* bdrv_co_do_readv and bdrv_co_do_writev behind the throttling.
Admit(r, q0) ==
  LET q == [q0 EXCEPT !.cor = q0.job \/ (q0.kind = "read" /\ copy_on_read)]
      n == copy_on_read_in_flight + (IF q.cor THEN 1 ELSE 0)
  IN  /\ copy_on_read_in_flight' = n
      /\ IF n > 0 THEN wait_for_overlapping_requests(r, q)
                  ELSE tracked_request_begin(r, q)

Yield(r, q, p) ==
  /\ pc' = [pc EXCEPT ![r] = p] /\ req' = [req EXCEPT ![r] = q]
  /\ UNCHANGED <<tracked_requests, wait_queue, copy_on_read_in_flight>>

\* The loop of bdrv_io_limits_intercept, and what is behind it.  woken is what
\* the bottom half has still to enter.
TryLimits(r, q, woken) ==
  LET v == bdrv_exceed_io_limits(q.nb) IN
    /\ slice' = v.slice
    /\ \/ /\ v.wait = 0
          /\ qemu_co_queue_next(woken)
          /\ Admit(r, q)
          /\ UNCHANGED <<due, dead>>
       \/ /\ v.wait > 0 /\ block_timer
          /\ due' = <<v.wait>>
          /\ throttled_reqs' = Link(r, throttled_reqs) /\ unlock_bh_queue' = woken
          /\ Yield(r, q, "throttled")
          /\ UNCHANGED dead
       \/ /\ v.wait > 0 /\ ~block_timer
          /\ dead' = TRUE
          /\ unlock_bh_queue' = woken
          /\ Yield(r, q, "throttled")
          /\ UNCHANGED <<due, throttled_reqs>>
    /\ UNCHANGED <<limits, io_limits_enabled, block_timer, nr>>

bdrv_io_limits_intercept(r, q) ==
  IF throttled_reqs # <<>>
    THEN /\ throttled_reqs' = Append(throttled_reqs, r)
         /\ Yield(r, q, "throttled")
         /\ UNCHANGED <<limits, io_limits_enabled, block_timer, due, slice, nr,
                        unlock_bh_queue, dead>>
    ELSE TryLimits(r, q, unlock_bh_queue)

-----------------------------------------------------------------------------
(* Actions *)

Runs == ~in_bh /\ ~dead

\* The next request of the behaviour.
Unused(r) == r <= scope.reqs /\ pc[r] = "none" /\ \A p \in 1..(r - 1) : pc[p] # "none"

\* bdrv_co_readv, bdrv_co_writev, bdrv_co_write_zeroes or, by a job,
\* bdrv_co_copy_on_readv is called.  In a drain only completions do so.
Submit(r, o) ==
  /\ Runs /\ drain # "wait"
  /\ Unused(r)
  /\ IF io_limits_enabled
       THEN bdrv_io_limits_intercept(r, o)
       ELSE Admit(r, o) /\ UNCHANGED <<throttleVars, nr, unlock_bh_queue, dead>>
  /\ UNCHANGED <<diskVars, otherVars, in_bh, drain>>

Event == Runs /\ drain = "no" /\ events < scope.events /\ events' = events + 1

\* bdrv_rw_co: synchronous I/O, which is a plain read or write, turns throttling
\* off.  Its caller is a coroutine, or waits itself; others go on meanwhile.
bdrv_rw_co(r, o) ==
  /\ Event
  /\ Unused(r) /\ ~o.job /\ o.kind # "zeroes"
  /\ IF io_limits_enabled THEN bdrv_io_limits_disable /\ UNCHANGED <<limits, nr>>
                          ELSE UNCHANGED <<throttleVars, nr, unlock_bh_queue>>
  /\ Admit(r, [o EXCEPT !.sync = TRUE])
  /\ UNCHANGED <<diskVars, scope, enable_write_cache, copy_on_read, frozen, in_bh,
                 drain, dead>>

\* One turn of qemu_co_queue_next_bh.  qemu_aio_wait returns when it has run.
qemu_co_queue_next_bh ==
  /\ unlock_bh_queue # <<>> /\ drain # "busy" /\ ~dead
  /\ LET r == Head(unlock_bh_queue)
         woken == Tail(unlock_bh_queue)
     IN  \/ pc[r] = "throttled" /\ TryLimits(r, req[r], woken)
         \/ /\ pc[r] = "overlap"
            /\ wait_for_overlapping_requests(r, req[r])
            /\ unlock_bh_queue' = woken
            /\ UNCHANGED <<throttleVars, nr, copy_on_read_in_flight, dead>>
  /\ in_bh' = (unlock_bh_queue' # <<>>)
  /\ drain' = IF drain = "wait" /\ ~in_bh' THEN "busy" ELSE drain
  /\ UNCHANGED <<diskVars, otherVars>>

\* The driver is done with its call.  qemu_aio_wait looks at bottom halves first.
DriverReturns(r) ==
  /\ Runs /\ pc[r] \in InDriver
  /\ drain = "wait" => unlock_bh_queue = <<>>
  /\ drain' = IF drain = "wait" THEN "busy" ELSE drain
  /\ UNCHANGED <<otherVars, in_bh, dead, limits, io_limits_enabled, block_timer, due,
                 throttled_reqs>>

\* bdrv_co_do_readv or bdrv_co_do_writev ends with tracked_request_end, and the
\* device accounts for the request; jobs and users of bdrv_rw_co do not.
Finish(r, q) ==
  /\ req' = [req EXCEPT ![r] = q] /\ pc' = [pc EXCEPT ![r] = "done"]
  /\ tracked_requests' = Unlink(tracked_requests, r)
  /\ unlock_bh_queue' = unlock_bh_queue \o wait_queue[r]
  /\ wait_queue' = [wait_queue EXCEPT ![r] = <<>>]
  /\ copy_on_read_in_flight' = copy_on_read_in_flight - (IF q.cor THEN 1 ELSE 0)
  /\ IF q.job \/ q.sync THEN UNCHANGED <<nr, slice>> ELSE bdrv_acct_done(q.nb)

Succeed(r, buf) == Finish(r, [req[r] EXCEPT !.buf = buf, !.ret = "ok"])
Fail(r)         == Finish(r, [req[r] EXCEPT !.buf = <<>>, !.ret = "error"])

\* The request calls the driver again.
CallDriver(r, p, buf) ==
  /\ Yield(r, [req[r] EXCEPT !.buf = buf], p)
  /\ UNCHANGED <<nr, slice, unlock_bh_queue>>

Contents(q) == [s \in SectorsOf(q) \cap Sectors |-> content[s]]
Data(r)     == IF req[r].kind = "zeroes" THEN -1 ELSE r

\* The driver writes f to the sectors W, of clusters it allocates if it must.
Store(W, f) ==
  /\ content' = [s \in Sectors |-> IF s \in W THEN f[s] ELSE content[s]]
  /\ allocated' = allocated \cup {Cluster(s) : s \in W}

IsAllocated(r) ==
  /\ pc[r] = "is_allocated" /\ DriverReturns(r)
  /\ CallDriver(r, IF \A s \in SectorsOf(req[r]) : Cluster(s) \in allocated
                     THEN "readv" ELSE "cor_readv", <<>>)
  /\ UNCHANGED diskVars

ReadDone(r) ==
  /\ pc[r] = "readv" /\ DriverReturns(r)
  /\ Succeed(r, Contents(req[r]))
  /\ UNCHANGED diskVars

\* bdrv_co_do_copy_on_readv.  A buffer of zeroes is written as such, to the same
\* effect.
CopyRead(r) ==
  /\ pc[r] = "cor_readv" /\ DriverReturns(r)
  /\ CallDriver(r, "cor_writev", Contents(round_to_clusters(req[r])))
  /\ UNCHANGED diskVars

CopyWritten(r) ==
  /\ pc[r] = "cor_writev" /\ DriverReturns(r)
  /\ Store(DOMAIN req[r].buf, req[r].buf)
  /\ Succeed(r, [s \in SectorsOf(req[r]) |-> req[r].buf[s]])

\* bdrv_co_do_write_zeroes
ZeroesUnsupported(r) ==
  /\ pc[r] = "write_zeroes" /\ DriverReturns(r)
  /\ CallDriver(r, "writev", <<>>)
  /\ UNCHANGED diskVars

Written(r) ==
  /\ pc[r] \in {"writev", "write_zeroes"} /\ DriverReturns(r)
  /\ Store(SectorsOf(req[r]), [s \in Sectors |-> Data(r)])
  /\ IF enable_write_cache THEN Succeed(r, <<>>) ELSE CallDriver(r, "flush", <<>>)

Flushed(r) ==
  /\ pc[r] = "flush" /\ DriverReturns(r)
  /\ Succeed(r, <<>>)
  /\ UNCHANGED diskVars

\* The driver fails; of a write some of the sectors may have been written.
DriverFails(r) ==
  /\ scope.fails /\ DriverReturns(r)
  /\ \/ /\ pc[r] \in {"is_allocated", "readv", "cor_readv", "flush"}
        /\ UNCHANGED diskVars
     \/ /\ pc[r] \in {"writev", "write_zeroes"}
        /\ \E W \in SUBSET SectorsOf(req[r]) : Store(W, [s \in Sectors |-> Data(r)])
     \/ /\ pc[r] = "cor_writev"
        /\ \E W \in SUBSET DOMAIN req[r].buf : Store(W, req[r].buf)
  /\ Fail(r)

Completion(r) ==
  \/ IsAllocated(r) \/ ReadDone(r) \/ CopyRead(r) \/ CopyWritten(r)
  \/ ZeroesUnsupported(r) \/ Written(r) \/ Flushed(r) \/ DriverFails(r)

TimerFires ==
  /\ Runs /\ drain = "no"
  /\ bdrv_block_timer
  /\ UNCHANGED <<reqVars, diskVars, otherVars, in_bh, drain, dead>>

\* Time passes, but compared to a slice the loops are quick: the main loop enters
\* at once whom it has woken, and bdrv_drain_all, when it only waits busily, turns
\* within a unit.
Tick ==
  /\ ~dead /\ ~frozen
  /\ \/ unlock_bh_queue = <<>> /\ drain # "busy"
     \/ slice.elapsed = 0 /\ drain # "no"
  /\ ClockTicks(drain = "no")
  /\ UNCHANGED <<reqVars, diskVars, otherVars, in_bh, drain, dead>>

SetLimits ==
  /\ Event
  /\ \E l \in scope.limits \cup {Unlimited} : qmp_block_set_io_throttle(l)
  /\ UNCHANGED <<reqVars, diskVars, scope, enable_write_cache, copy_on_read, frozen,
                 in_bh, drain, dead>>

\* bdrv_enable_copy_on_read and bdrv_disable_copy_on_read, called by one user.
SwitchCopyOnRead ==
  /\ Event /\ scope.jobs
  /\ copy_on_read' = ~copy_on_read
  /\ UNCHANGED <<throttleVars, nr, unlock_bh_queue, reqVars, diskVars, scope,
                 enable_write_cache, frozen, in_bh, drain, dead>>

\* bdrv_drain_all is called: by do_vm_stop, with the clock stopped, or otherwise.
DrainBegins ==
  /\ Event
  /\ drain' = "wait" /\ frozen' \in {frozen, TRUE}
  /\ UNCHANGED <<throttleVars, nr, unlock_bh_queue, reqVars, diskVars, scope,
                 enable_write_cache, copy_on_read, in_bh, dead>>

\* Mutants: requests that were restarted do not count as busy, or nobody is
\* restarted.
M_DrainTurns_idle ==
  /\ Runs
  /\ \/ drain = "busy"
     \/ /\ drain = "wait" /\ unlock_bh_queue = <<>>
        /\ \A r \in Reqs : pc[r] \notin InDriver
  /\ qemu_co_queue_restart_all
  /\ drain' = IF drain = "busy" THEN "wait" ELSE "no"
  /\ UNCHANGED <<limits, io_limits_enabled, block_timer, due, slice, nr, reqVars,
                 diskVars, otherVars, in_bh, dead>>

M_DrainTurns_waits ==
  /\ Runs
  /\ \/ drain = "busy"
     \/ /\ drain = "wait" /\ unlock_bh_queue = <<>>
        /\ \A r \in Reqs : pc[r] \notin InDriver
  /\ drain' = IF drain = "busy" \/ throttled_reqs # <<>> THEN "wait" ELSE "no"
  /\ UNCHANGED <<throttleVars, unlock_bh_queue, nr, reqVars, diskVars, otherVars,
                 in_bh, dead>>

\* qemu_aio_wait has returned; all throttled requests are restarted.
DrainTurns ==
  /\ Runs
  /\ \/ drain = "busy"
     \/ /\ drain = "wait" /\ unlock_bh_queue = <<>>
        /\ \A r \in Reqs : pc[r] \notin InDriver
  /\ qemu_co_queue_restart_all
  /\ drain' = IF drain = "busy" \/ throttled_reqs # <<>> THEN "wait" ELSE "no"
  /\ UNCHANGED <<limits, io_limits_enabled, block_timer, due, slice, nr, reqVars,
                 diskVars, otherVars, in_bh, dead>>

\* vm_start
MachineStarts ==
  /\ Runs /\ drain = "no" /\ frozen
  /\ frozen' = FALSE
  /\ UNCHANGED <<throttleVars, nr, unlock_bh_queue, reqVars, diskVars, scope, events,
                 enable_write_cache, copy_on_read, in_bh, drain, dead>>

Next ==
  \/ \E r \in Reqs, o \in scope.ops : Submit(r, o) \/ bdrv_rw_co(r, o)
  \/ qemu_co_queue_next_bh
  \/ \E r \in Reqs : Completion(r)
  \/ TimerFires \/ Tick \/ SetLimits \/ SwitchCopyOnRead
  \/ DrainBegins \/ DrainTurns \/ MachineStarts

Spec == Init /\ [][Next]_vars

\* The driver answers, bottom halves and timers run, and the clock advances
\* unless it is stopped.
FairSpec ==
  /\ Spec
  /\ WF_vars(qemu_co_queue_next_bh) /\ WF_vars(TimerFires) /\ WF_vars(Tick)
  /\ WF_vars(DrainTurns)
  /\ \A r \in Reqs : WF_vars(Completion(r))

-----------------------------------------------------------------------------
(* Properties *)

Phase(r) == CASE pc[r] = "none" -> "none"
              [] pc[r] = "done" -> req[r].ret
              [] pc[r] = "flush" -> "applied"
              [] OTHER -> "called"

Service == INSTANCE DiskService WITH
  disk  <- content,
  op    <- [r \in Reqs |-> [write |-> req[r].kind # "read",
                            sectors |-> SectorsOf(req[r]), value |-> Data(r)]],
  phase <- [r \in Reqs |-> Phase(r)],
  data  <- [r \in Reqs |-> IF pc[r] = "done" THEN req[r].buf ELSE <<>>]

\* Requests that are throttled, copied on read, serialised and restarted still
\* take effect at one moment each, and a copy on read changes nothing: no write
\* comes between its read and its write (the comment at block.c:1471).
ImplementsDisk == Service!Spec

\* When bdrv_drain_all returns, no request is tracked and none is throttled: its
\* assertions hold (block.c:952).
DrainIsComplete ==
  [][drain # "no" /\ drain' = "no" => tracked_requests = <<>> /\ throttled_reqs' = <<>>
                                      /\ \A r \in Reqs : pc[r] \in {"none", "done"}]_vars

\* A request that is longer than all a new slice grants.
Oversize(r) == req[r].nb * limits.bps > NewSlice.left \/ limits.iops > NewSlice.left

\* bdrv_drain_all returns.  The exception: do_vm_stop stops the clock first, and
\* then such a request is throttled again every time.
DrainEnds ==
  drain # "no" ~> (drain = "no" \/ dead
                   \/ (frozen /\ \E r \in Reqs : pc[r] = "throttled" /\ Oversize(r)))

\* Every request ends, throttled or not, unless the clock is stopped.
RequestsEnd ==
  \A r \in Reqs : pc[r] # "none" ~> (pc[r] = "done" \/ dead \/ frozen)
=============================================================================
