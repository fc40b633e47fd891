# A TLA+ model of QEMU's I/O core

These modules describe, check and prove properties of the part of QEMU 1.2.0
that decides when code runs and in what order data reaches an image: the thread
pool behind asynchronous file I/O, the event loop, coroutines with their locks,
the requests of the block layer with their I/O limits, the metadata of qcow2 images, the
virtio ring that virtio-net transmits from, and the packet queues between a NIC and its
backend. They were written from the C code; line numbers refer to the files of this
repository.

## 1. The system

QEMU is an event-driven program. One thread at a time holds the global mutex; it
runs device models, block drivers and callbacks. Other threads (AIO workers,
vCPUs) and signal handlers talk to it through lists, pipes and bottom halves.

| Part | State | Operations | What makes it hard |
|---|---|---|---|
| AIO thread pool, `posix-aio-compat.c` | `request_list`, `first_aio`, four thread counters, a pipe | submit, cancel, worker loop, `posix_aio_read` | lock dropped around signal, `pthread_create`, the system call and the pipe; idle timeout races a signal; pipe overflow drops notifications; callbacks nest and reuse requests |
| Bottom halves, `async.c` | list, three flags, `nesting` | new, schedule, idle, cancel, delete, poll | scheduled from signal handlers; callbacks delete and poll again |
| AIO handlers, `aio.c` | node list, `walking_handlers` | `qemu_aio_set_fd_handler`, `qemu_aio_wait` | handlers unregister themselves and wait again during the walk |
| Main loop, `iohandler.c`, `main-loop.c` | record list | `qemu_set_fd_handler2`, fill, poll, `main_loop_wait` | the same, in a second registry that must agree with the first |
| Coroutines and locks, `qemu-coroutine*.c` | call chain, queues, lock fields | enter, yield, CoMutex, CoRwlock, the wake-up bottom half | wake-up is delayed, so others barge in; queues share one link |
| qcow2, `block/qcow2*.c` | two write-back caches, refcounts, L2 tables, allocations in flight | read, allocating write, copy on write, discard, flush | power failure between any two writes, I/O errors halfway, `s->lock` dropped around data |
| virtio queue, `hw/virtio.c` | rings, 16-bit indices | pop, fill, flush, notify | wrap-around, suppressed notifications racing the other side |
| virtio-net transmit, `hw/virtio-net.c` | `tx_waiting`, bottom half or timer, `async_tx` | kick, flush, completion, stop, link | the driver fills the ring during a flush; the backend answers late |
| Network queue and clients, `net.c`, `net/queue.c`, `net/tap.c` | packets, `receive_disabled`, polled descriptors | send, deliver, flush, sent callbacks | delivery and callbacks call back into the queue; machine and link stop in between |
| virtio-net receive, `hw/virtio-net.c` | receive buffers, notification | `can_receive`, receive, kick | the driver adds buffers while the device decides to wait |
| Block layer, `block.c` | tracked requests, `copy_on_read_in_flight` | request begin and end, copy on read, drain | a copy is a read and a write; overlapping requests wait for each other |
| I/O limits, `block.c`, `blockdev.c` | slice, queue, timer | judge, queue, wake, switch on and off | one timer for a queue, a clock that stops, callers that do not run timers |
| Block jobs, QED, migration, vCPU control, SCSI, NBD, DMA helpers, timers | see `PROJECT.json` | | cancellation, restart, pause and resume at any point |
| Dynamic translation, target CPUs, device models, user-mode emulation, UI, slirp | | | pure functions or I/O; not modelled |

`PROJECT.json` lists every part with its status, and under `hazards` the lines
where something can go wrong that a test would hardly reach.

What correctness means, part by part: *thread pool* — every request ends exactly
once, no request or completion is overlooked, the counters describe the threads;
*event loop* — no walk uses freed memory, nothing scheduled is missed, both
registries agree; *locks* — exclusion, no lost wake-up, a coroutine in one queue
only; *qcow2* — after any power failure no cluster is referenced more often than
it is counted, a flush is durable, data goes where the table says; *virtio-net* — no
buffer is lost or handed out twice, no kick and no interrupt is lost, nothing lies
in the ring unattended; *network queue* — packets stay in order, and neither side stops
for good; *block layer* — a request takes effect at one moment, copies are invisible, a
drain leaves nothing behind, and every request ends.

## 2. Modules

| Module | Models | Notes |
|---|---|---|
| `Lists` | the operations of `qemu-queue.h` on sequences | used by all |
| `PosixAio` | `posix-aio-compat.c` | a locked section is one action, anything outside the lock is an action of its own |
| `EventLoop` | `async.c`, `aio.c`, `iohandler.c`, `main_loop_wait` | nested walks are a stack of frames, with the locals of the C functions |
| `CoLocks` | `qemu-coroutine.c`, `qemu-coroutine-lock.c` | implements `LockService` |
| `LockService` | the promise of a lock | abstract specification |
| `Qcow2` | `qcow2-cache.c`, `qcow2-refcount.c`, `qcow2-cluster.c`, `qcow2.c` | calls under `s->lock` are a stack of frames |
| `VirtQueue` | `hw/virtio.c`: one queue, and the guest's driver | device operations are operators, driver operations actions |
| `VirtioNetTx` | `hw/virtio-net.c`: transmit path, over `VirtQueue` | an access to memory the driver writes is a step of its own |
| `NetPair` | `net/queue.c`, `net.c`, `net/tap.c`, receive in `hw/virtio-net.c`, `savevm.c` (announcements) | calls in progress are a stack; implements `PacketService` |
| `PacketService` | the promise of sending with a callback | abstract specification |
| `Throttle` | I/O limits in `block.c` and `blockdev.c` | used by `BlockIO` |
| `BlockIO` | requests in `block.c` | a request goes from one yield to the next in a step; implements `DiskService` |
| `DiskService` | the promise of a disk | abstract specification |
| `ListLemmas` | | lemmas about `Lists` |
| `PosixAioPool`, `PosixAioOwnership`, `PosixAioProofs` | | proofs about `PosixAio` |
| `CoLocksExclusion`, `CoLocksProofs` | | proofs about `CoLocks` |
| `VirtioNetTxProofs`, `NetPairProofs` | | proofs about `VirtioNetTx` and `NetPair` |
| `MC*` | | values of constants, and symmetry sets, for TLC |

Names follow the source. Operators whose names begin with `M_` are deliberate
mistakes used to show that each property can fail; no specification uses them.

**PosixAio.** `main` is whoever holds the global mutex. `mpc` says which unlocked
step it is in (about to signal, creating a thread, spinning in `paio_cancel`);
`frames` holds the nested calls of `posix_aio_read` with their position in
`first_aio`. A worker's `tpc` follows `aio_thread`: created, spawning a further
thread, looking at the list, waiting, woken or timed out, working, notifying. The
system call returns a full, short or failed result and `posix_aio_process_queue`
maps it as the code does. The pipe holds `PipeCap` bytes and a write to a full
pipe is dropped, as the code ignores `EAGAIN`.

**EventLoop.** The user of the loop creates, schedules, cancels and deletes bottom
halves and registers descriptors whenever C code can: outside the loop, in
`select`, or in a callback. With `Signals`, `qemu_bh_schedule` also happens between
any two steps. `HandlersWait` says whether a handler that `qemu_aio_wait` calls may
call it again. A behaviour has the bottom halves, nodes and descriptors of one member of
`Scopes`, chosen at the start. `Submit` and `ReadHandler` stand for the block driver that owns a
descriptor and are external.

**CoLocks.** `self` and `caller` are the coroutine call chain. A lock function takes
the lock or waits; an unlock moves one waiter (or all) to `unlock_bh_queue`, and the
bottom half enters them one by one, each testing the lock again. `held` is a history
variable; under the identity mapping of `held` the module refines `LockService`.

**Qcow2.** `file[o]` is what a read of table `o` returns; `stable[o]` is the set of
contents a power failure can leave, reset by `bdrv_flush`. Cached tables, their use
counts, the mutual dependency and `depends_on_flush` are those of the code. The
choice of the entry to evict is left open, which covers every hit count. An L2 entry
is a cluster and `QCOW_OFLAG_COPIED`. `Shared` guest clusters belong to a snapshot too.
Requests run `qcow2_co_readv`, `qcow2_co_writev`, `qcow2_co_discard` and
`qcow2_co_flush_to_os` for one cluster, without a backing file, with `s->lock` taken
and dropped where the code does. Which kinds of I/O fail is the constant `Fails`.

**VirtQueue and VirtioNetTx.** The device holds the global mutex, so it is in one
function at a time: `pc` is the step, `ctx` the function that has called
`virtio_net_flush_tx`. The driver runs on a vCPU between any two steps. It is not part
of QEMU and is modelled as `hw/virtio.c` expects it: it publishes buffers, decides about
a kick from the flag or the event index, and looks at the used ring once more before it
sleeps. The memory barriers of the code are what makes one step at a time a faithful
view. Publishing the event index is two steps, since the available index is read before
it is stored. `kick` and `irq` are the eventfd or I/O port and the interrupt line.
`virtio_vmstate_change` is one action: it handles a kick left in the eventfd with
`vm_running` already cleared, and then sets the status. The queue starts as `virtio_load`
leaves it, with indices that have been in use. `cut` is a history variable.

**NetPair.** A tap and a virtio NIC are peers; `packets[c]` are the packets queued *for* client
`c`. The main loop fills its descriptor sets, waits in `select` without the mutex, and calls
handlers; `stack` holds the nested calls: a flush that delivers, a delivery that enables the
peer, a sent callback that sends the next packet. The rings are reduced to a number of receive
buffers and to packets in order. The guest adds buffers between any two steps of the device,
the host reads and sends, the machine stops and starts, links go down, and the monitor or
migration makes the NIC announce itself, which is the one sender without a callback.

**Throttle and BlockIO.** The unit of time is `BLOCK_IO_SLICE_TIME`, and times are relative to
now, so that slices and the timer need no clock; a limit is the time it grants a sector or
an operation. Limits for reads and for writes alone follow the same formulas and are not told
apart, and the rounding of the `double`s to nanoseconds is left out. `pc` of a request is where
its coroutine has yielded: among the throttled ones, behind an overlapping request, or in one
of the calls of the driver, which may fail and then may have written some of the sectors.
The bottom half of `CoQueue` enters the woken ones one at a time. `drain` is `bdrv_drain_all`:
waiting in `qemu_aio_wait`, or returned from it with something done. A request for sectors
outside the device, or without medium, returns at once and is not made. A device accounts for a
request in the step that ends it; in the code a bottom half may come between. The caller of
`bdrv_rw_co` is not blocked, as in a coroutine; the loop it runs otherwise does less. `dead` is
`qemu_mod_timer` called with a timer that does not exist; nothing happens then.

## 3. Runs

| Run | Shows | Distinct states |
|---|---|---|
| `posix_aio` | counters, no lost spawn, no stranded request, no lost completion, ownership; every request and every cancellation ends | 193,954 |
| `event_loop` | bottom halves: walks are safe, none that is due is missed, a scheduled one runs; handlers: both walks are safe, the registries agree | 250,920 |
| `co_locks` | exclusion, one queue, no lost wake-up, readers wait only for a writer; `LockService` is implemented; every waiter gets its lock | 18,336 |
| `qcow2` | crash consistency, order of copied data, durable flush, pins; every request ends | 182,808 |
| `qcow2_races` | data goes where it belongs, and the refcounts cover it, with every kind of I/O failing | 439,496 |
| `virtio_tx` | buffers conserved, no lost interrupt, no stall but after a burst, `tx_waiting` and the bottom half or timer agree, a busy backend mutes the driver | 2,019,688 |
| `net_pair` | order of packets to the guest; a refused packet is waited for, a paused tap has something queued, queued packets are polled for; `PacketService` is implemented; neither direction stops for good, with the exceptions below | 115,393 |
| `block_io` | `DiskService` is implemented, a drain leaves nothing behind; drains and requests end, with the exceptions of section 4 | 87,140 |
| `event_loop_nested`, `qcow2_link`, `virtio_tx_stopped`, `net_queued` | disagreements with comments and assertions, below | |

What the last two liveness properties do not promise: `TrafficFlows` gives up once a receive buffer
has been lost (`leaked`) or the assertion of `virtio_tx_stopped` has failed, and lets a queued packet
wait if the machine has been stopped; `GuestInOrder` too speaks of behaviours without a stop.
`RequestsEnd` of `BlockIO` gives up when the clock is stopped or the timer is gone (`dead`).

**Bounds.** *Thread pool*: two requests, submitted three times, let one be queued while the other is
worked on or called back, and a released one be used again; two threads show every race
between workers; a pipe of one byte makes overflow happen; two nested handlers are an inner and an
outer one. *Event loop*: two bottom halves or two nodes are the one a walk stands on
and the one before or after it; the nested run
has two waits, an inner and an outer one.
*Locks*: three coroutines are a holder, a waiter and one that barges in. *qcow2*:
two requests at a time, three in all, so that a third finds what two have left; one-entry
caches make every lookup an eviction, which is the only time tables are written
outside a flush; two refcount blocks and one or two L2 tables; three clusters, of which
one is shared with a snapshot. *virtio-net*: two heads, indices modulo 4 that start at
3 and so wrap at once, three buffers, so that one is added during a flush of two, a burst
of a full ring as in the default configuration, and two stops or link failures.
*Network queue*: two packets in one direction (with an announcement when the NIC sends), or one in each, since the second is what
finds the queue in use; two receive buffers where packets arrive (none in the
load that only sends, which makes no use of them) and packets that fill one or both; a tap that takes
one packet, so that the next is refused; one stop or link failure. `Loads` keeps apart the
directions, whose product is large; the load with one packet each way lets them meet.
*Block layer*: two clusters of two sectors, so that a copy touches a neighbour; up to three
requests: a copy, one that waits for it, and one that overtakes. Under limits, two reads of which one is
larger than a new slice grants, or three that the slice cannot all take; two switches of
limits, synchronous reads or drains in the first case and one in the second; a timer late by at
most one unit. `Scopes` lists the combinations.
`MaxSubmits`, `MaxOps`, `MaxReqs`, `MaxCrashes`, `MaxAdds`, `MaxEvents`, `Loads` and the
`reqs` and `events` of a scope bound the length of behaviours and nothing else. Where a run turns the deadlock check
off, these bounds are the reason: the system stops when they are used up, and in
`VirtioNetTx`, `NetPair` and `BlockIO` also when an assertion fails or QEMU would use a NULL timer.

**Fairness.** *Thread pool*: main is never stuck in one of its own steps, its loop
polls the bottom half and the pipe, callbacks return and system calls end (weak
fairness of main's and of each worker's own steps). Submission, cancellation and the
idle timeout are never forced. *Event loop*: weak fairness of the loop itself, which
`main_loop` runs for ever. *Locks*: a coroutine does not compute for ever and gives
back what it holds; each iteration of the main loop enters the coroutines whose I/O
is complete and polls bottom halves. These are strong, since another coroutine may be
running whenever one would be entered and the loop runs between. *qcow2*: the call in
progress and each request that can go on does so. In the last two a newcomer can take
the lock before a woken waiter, so a single waiter is served only if operations are
finitely many; that is what `MaxOps` and `MaxReqs` provide. *virtio-net* transmit: no
fairness, since only safety is checked. *Network queue*: handlers return, the loop turns, the
driver keeps adding buffers and the host reads. Strong for `virtio_net_handle_rx`, a handler
that stays due while there is a kick, although the machine may stop in between, and for starting
the machine. The latter is an assumption about the user, not about the code: of a machine that stays
stopped nothing is claimed.
*Block layer*: the driver answers, bottom halves and timers run, a drain turns, and
the clock advances unless it is stopped. Assumptions on speed, which the code does not guarantee,
are in the model: the main loop enters woken requests within a unit, 0.1 s, and is late
for a timer by at most one unit; a drain that waits busily turns within a unit. A request larger than
a slice that is judged too late every time would wait for ever.

## 4. Where comments or assertions and code disagree

- `event_loop_nested`: `qemu_aio_wait` clears `walking_handlers` (`aio.c:150`) under an
  outer walk; a handler that waits and then unregisters is freed while the outer walk
  stands on it. The comment at `aio.c:26` says the lock prevents this. Without such
  handlers (`event_loop`) the walk is safe.
- `qcow2_link`: `qcow2_alloc_cluster_link_l2` ignores a failure of
  `qcow2_cache_set_dependency`, so the L2 table can reach the medium before the refcount
  (`qcow2-cluster.c:666`), against the comment above it. It takes a failed metadata write; with
  working ones the order holds, as `CrashConsistent` in run `qcow2` shows.
  `update_refcount` ignores the failure too (`qcow2-refcount.c:435`), for counts that go down.
- `virtio_tx_stopped`: a backend that finishes a packet after the machine has stopped calls
  `virtio_net_tx_complete`, and the assertion at `virtio-net.c:715` fails.
- `net_queued`: `net/queue.c:35` says that a packet without a sent callback is dropped rather
  than queued. `qemu_net_queue_send` (`net/queue.c:179`) queues it; announcements have none. Packets
  of the NIC are then queued behind it although they were reported as sent, and
  `virtio_net_tx_complete` is called for packets nobody waits for. `PacketService` is implemented
  only until that happens (`strayed`).

Further behaviour that the properties make room for. No run is devoted to it, although two of the
items on I/O limits also differ from a comment, as noted there:

- *virtio-net transmit.* `virtio_net_tx_complete` ignores that its flush ended at `tx_burst`
  (`virtio-net.c:703`), and so do `virtio_net_tx_timer` and `virtio_net_handle_tx_timer`, while
  `virtio_net_tx_bh` reschedules there. With an event index `virtqueue_pop` moves the index past a packet that
  was added meanwhile, and its driver does not kick. `StallsOnlyAfterBurst` shows that
  there is no other way to stall.
- *Network queue.* Packets from the host can change places across a stop of the machine, and one
  that was queued then waits for the next to arrive. A packet too large for a buffer that cannot be merged is
  dropped after its buffer was popped, which is not given back (`leaked`, `virtio-net.c:664`). A packet
  popped when a stopped device handles a kick is dropped.
- *qcow2.* A guest that discards a cluster while it writes it can have the write land in a
  cluster that is no longer mapped. Nothing in the code or documents promises otherwise;
  `qcow2_races` excludes it with `Racy = FALSE`.
- *I/O limits.* Synchronous I/O switches throttling off and frees the timer (`block.c:1613`) but
  leaves the limits set. A throttled request that it wakes is judged once more, and if it is larger
  than a new slice grants, `qemu_mod_timer` gets NULL (`dead`), although the comment at `block.c:1605`
  says that throttling is disabled here. `RequestsEnd` and `DrainEnds` except what follows.
- *I/O limits.* `do_vm_stop` stops `vm_clock` before it drains: a request larger than a slice grants
  is throttled again each time, and `bdrv_drain_all` does not return. `DrainEnds` excepts
  this case, and `dead`, and no other.
- *I/O limits.* The comment at `block.c:182` hopes to keep requests in FIFO order, but a drain that restarts several,
  each of which goes back to the head, reverses them, and a newcomer that finds the queue empty
  overtakes one that has been woken. No property claims the order.
- *I/O limits.* `bdrv_io_limits_enable` clears `io_base`, so limits that are switched on count all
  that was transferred before against their first slice (`Past`), and the first request can wait long.

Further hazards, not in the list of `PROJECT.json`: a result of
`ECANCELED` makes `posix_aio_read` release a request without its callback
(`posix-aio-compat.c:496`); a coroutine entered twice aborts (`qemu-coroutine.c:51`; `QueuesCorrect`
below proves that the locks never do it); a packet kept in `async_tx` is not migrated
(`virtio-net.c:754`, not modelled); the lost receive buffer above (`virtio-net.c:664`); waiting in the
queue of an allocation that fails (`block/qcow2.c:739`; covered by `RequestsEnd` of `Qcow2`).

## 5. Proofs

For every number of requests, worker threads, nested handlers and pipe capacity,
from `PosixAioAssumption` alone (finitely many threads, `max_threads` between 1 and their
number, positive capacities), `PosixAioProofs` proves of `PosixAio`:

| Theorem | Statement |
|---|---|
| `Safety` | `Spec => []IInv`, with `IInv == TypeOK /\ PoolAccounting /\ Ownership` |
| `TypeCorrect`, `PoolCorrect`, `OwnershipCorrect` | its three conjuncts |
| `SpawnCorrect` | `Spec => []NoLostSpawn` |
| `StrandedCorrect` | `Spec => []NoStrandedRequest` |
| `CompletionCorrect` | `Spec => []NoLostCompletion` |

The three conjuncts are inductive only together. That a counter stays a natural number
when it is decremented needs to know that it counts threads, one of which is there
(`PoolAccounting`); that the lists keep their types when a request is unlinked needs it
to be in them (`Ownership`). `PosixAioPool` reduces the accounting to one lemma,
`Moved`: how the three counts change when one thread moves from one state to another.
`PosixAioOwnership` treats the stack of nested handlers with lemmas for pushing, popping
and changing a frame. `NoStrandedRequest` needs `Served` in addition: while a request is
queued the pool is not empty. `NoLostCompletion` needs `Nested`: main is in an unlocked
step only outside `posix_aio_read` or in one of its callbacks, so that a scan in progress is
never moved past an element it has not looked at.
`ListLemmas` has the facts about sequences that these rest on, stated element by element.

`VirtioNetTxProofs` proves of `VirtioNetTx`, for every ring size, index width, burst, mode and
set of features, and using no assumption on the constants:

| Theorem | Statement |
|---|---|
| `WaitingCorrect` | `Spec => []WaitingIsArmed` |
| `BusyCorrect` | `Spec => []BusyIsMuted` |

`WaitingIsArmed` is inductive together with `Running`: the device is in `virtio_net_tx_bh` only while
the machine runs, because it cannot stop before the function returns. `BusyIsMuted` speaks of the
main loop and needs `BusyInv`, which follows a kept packet through the functions: it is never
there in the send loop, and whoever returns with one has muted the driver last.

`CoLocksProofs`, over `CoLocksExclusion`, proves of `CoLocks`, for every finite set of coroutines and
any disjoint sets of mutexes and read-write locks (`CoLocksAssumption`):

| Theorem | Statement |
|---|---|
| `LocksSafe` | `Spec => []IInv`, the types and the properties below together |
| `ExclusionCorrect` | `Spec => []LocksExclude` |
| `QueuesCorrect` | `Spec => [](OneQueue /\ CallChain)` |
| `WakeupCorrect`, `ReadersCorrect` | `Spec => []NoLostWakeup`, `Spec => []ReadersWaitForWriter` |
| `ServiceCorrect` | `Spec => ImplementsLockService` |

`IInv` adds `WaitsForOne` and `CallChain`: an unlock tells readers from writers only because of
exclusion, and a coroutine that starts to wait is in no queue only because it is in the call chain,
whose members are in none. `CoLocksExclusion` counts the holders of a lock to show that the
fields of the C structures agree with them.

`NetPairProofs` proves of `NetPair`, for every load, number of buffers, packet sizes and room in the
tap (`NetPairAssumption`):

| Theorem | Statement |
|---|---|
| `QueuesSafe` | `Spec => []IInv`, with `IInv == Types /\ RxInv /\ Polled /\ (strayed \/ Awaited)` |
| `PausedCorrect`, `PolledCorrect` | `Spec => []PausedIsQueued`, `Spec => []QueuedIsPolled` |
| `PacketServiceCorrect` | `Spec => ImplementsPacketService` |

The properties speak of the main loop between handlers; the invariant extends them into the
handlers. `RxInv` and `Polled` say which calls in progress will still look at a queue; `Awaited` says that
at most one packet is queued for the tap, the one the NIC waits for, and that
`virtio_net_flush_tx` is not running then. It fails once a packet without a callback has been queued,
hence the disjunction; `PacketService` promises nothing more from there on.

Only model-checked: all liveness properties (the provers do not handle fairness); everything about
`EventLoop`, `Qcow2`, `Throttle` and `BlockIO`, the refinement of `DiskService` included; `GuestInOrder` and
`RefusedIsWatched`; and the buffers, interrupts and index arithmetic of `VirtQueue`.

## 6. Not modelled

`linux-aio.c` and the Windows variants; glib and slirp polling in the main loop; signal fd
set-up; in qcow2 the allocation of L1, L2 and refcount
tables (running out of clusters is an allocation failure), lazy refcounts and the dirty
bit, zero, compressed and encrypted clusters, requests over several clusters and
snapshot creation; in virtio the descriptors of an element, reset, migration of a kept packet,
the control queue, vhost; in the network queue the removal of a client (purge), hubs and backends other than
tap, and receive filters; in the block layer discards, flushes of their own, the dirty bitmap, the
emulation of one kind of driver interface by another, errors that are returned before a
request begins, and limits that differ for reads and writes.

Dynamic translation, target CPUs, register-level device models, user-mode emulation, display and
slirp are out of reach or hardly have state of their own. Block jobs, QED, live migration, vCPU
control, SCSI requests, NBD, the DMA helpers and the timer list could be modelled in the same
way and have not been. `PROJECT.json` gives the reason for each part.

## 7. What could come next

1. *qcow2*: lazy refcounts (`qcow2_mark_dirty`, `qcow2_mark_clean`, repair on open), after which only
   `depends_on_flush` orders copied data; requests over several clusters; `DiskService` as what
   the driver refines, which would put `Qcow2` under `BlockIO`.
2. *virtio*: reset, save and load with a kept packet; `VirtioNetTx` composed with `NetPair`, which
   now sees the ring as a list.
3. Block jobs on top of `BlockIO`; SCSI requests, the DMA helpers, vCPU pause and resume, migration.
4. Theorems: walk safety of `EventLoop`, the index arithmetic of `VirtQueue`, `BlockIO`.
