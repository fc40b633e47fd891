----------------------------- MODULE Throttle -----------------------------
(***************************************************************************)
(* I/O limits of a block device (block.c): the slice of time over which    *)
(* transfers are counted, the queue of requests that must wait, and the    *)
(* timer on vm_clock that wakes the first of them.                         *)
(*                                                                         *)
(* The unit of time is BLOCK_IO_SLICE_TIME.  A limit is given by its       *)
(* inverse, the time it grants a sector or an operation; 0 is no limit.    *)
(* Times are relative to now, so the clock itself is not needed.  A slice  *)
(* that has run out has the one form Expired: the next request begins a    *)
(* new one, whatever the old one held.                                     *)
(***************************************************************************)
EXTENDS Integers, Sequences, FiniteSetsExt, Lists

CONSTANTS
  MaxLate       \* bound: by how much the main loop is late for a timer

VARIABLES
  limits,             \* bs->io_limits
  io_limits_enabled,
  block_timer,        \* block_timer is not NULL
  due,                \* <<t>>: the timer expires in t units
  slice,
  nr,                 \* bs->nr_bytes (in sectors) and bs->nr_ops
  throttled_reqs,
  unlock_bh_queue     \* the coroutines that qemu_co_queue_next_bh enters

throttleVars == <<limits, io_limits_enabled, block_timer, due, slice, throttled_reqs>>

\* now - slice_start, slice_end - now, slice_time, and nr - io_base.
NewSlice == [elapsed |-> 0, left |-> 5, time |-> 5, bytes |-> 0, ops |-> 0]
Expired  == [NewSlice EXCEPT !.left = 0]

\* bdrv_io_limits_enabled
Limited(l) == l.bps # 0 \/ l.iops # 0

\* The slice a request is judged by.
CurrentSlice ==
  IF slice.elapsed > 0 /\ slice.left > 0 THEN [slice EXCEPT !.left = slice.time]
                                         ELSE NewSlice

\* bdrv_exceed_bps_limits and bdrv_exceed_iops_limits, for a request with which
\* the slice s needs the time need: how long to wait, and the slice then.
Wait(s, need)   == IF need <= s.elapsed + s.left THEN 0 ELSE need - s.elapsed
Extend(s, wait) == IF wait = 0 THEN s
                   ELSE [s EXCEPT !.time = wait, !.left = @ + wait - 3]

\* bdrv_exceed_io_limits: the limits are exceeded if wait is not 0.
bdrv_exceed_io_limits(nb_sectors) ==
  LET s0        == CurrentSlice
      bps_wait  == Wait(s0, (s0.bytes + nb_sectors) * limits.bps)
      s1        == Extend(s0, bps_wait)
      iops_wait == Wait(s1, (s1.ops + 1) * limits.iops)
      s2        == Extend(s1, iops_wait)
      max_wait  == Max({bps_wait, iops_wait})
  IN  [wait |-> max_wait, slice |-> [s2 EXCEPT !.left = Max({@, max_wait})]]

\* bdrv_acct_done, which a device calls when its request is complete.
bdrv_acct_done(nb_sectors) ==
  /\ nr' = [bytes |-> nr.bytes + nb_sectors, ops |-> nr.ops + 1]
  /\ slice' = IF slice.left = 0 THEN slice
              ELSE [slice EXCEPT !.bytes = @ + nb_sectors, !.ops = @ + 1]

\* Mutant: nobody is woken.
M_queue_next_none(woken) == unlock_bh_queue' = woken /\ UNCHANGED throttled_reqs

\* qemu_co_queue_next and qemu_co_queue_restart_all on throttled_reqs, where the
\* bottom half has woken still to enter.
qemu_co_queue_next(woken) ==
  IF throttled_reqs = <<>>
    THEN unlock_bh_queue' = woken /\ UNCHANGED throttled_reqs
    ELSE /\ unlock_bh_queue' = Append(woken, Head(throttled_reqs))
         /\ throttled_reqs' = Tail(throttled_reqs)

qemu_co_queue_restart_all ==
  /\ unlock_bh_queue' = unlock_bh_queue \o throttled_reqs
  /\ throttled_reqs' = <<>>

bdrv_io_limits_disable ==
  /\ io_limits_enabled' = FALSE
  /\ qemu_co_queue_restart_all
  /\ block_timer' = FALSE /\ due' = <<>>
  /\ slice' = Expired

\* io_base is cleared, so everything since the device was opened is counted.
bdrv_io_limits_enable ==
  /\ throttled_reqs' = <<>>
  /\ block_timer' = TRUE /\ due' = <<>>
  /\ slice' = [NewSlice EXCEPT !.bytes = nr.bytes, !.ops = nr.ops]
  /\ io_limits_enabled' = TRUE
  /\ UNCHANGED unlock_bh_queue

qmp_block_set_io_throttle(l) ==
  /\ limits' = l
  /\ \/ /\ ~io_limits_enabled /\ Limited(l)
        /\ bdrv_io_limits_enable
     \/ /\ io_limits_enabled /\ ~Limited(l)
        /\ bdrv_io_limits_disable
     \/ /\ io_limits_enabled = Limited(l)
        /\ slice' = IF slice.left = 0 THEN slice ELSE [slice EXCEPT !.time = 1]
        /\ due' = IF block_timer THEN <<0>> ELSE due
        /\ UNCHANGED <<io_limits_enabled, block_timer, throttled_reqs, unlock_bh_queue>>
  /\ UNCHANGED nr

\* bdrv_block_timer
bdrv_block_timer ==
  /\ due # <<>> /\ due[1] <= 0
  /\ due' = <<>>
  /\ qemu_co_queue_next(unlock_bh_queue)
  /\ UNCHANGED <<limits, io_limits_enabled, block_timer, slice, nr>>

\* vm_clock advances.  The main loop runs timers in time; a caller that waits
\* with qemu_aio_wait does not run them at all.
ClockTicks(loop_runs) ==
  /\ slice.left > 0 \/ due # <<>>
  /\ loop_runs /\ due # <<>> => due[1] > -MaxLate
  /\ slice' = IF slice.left <= 1 THEN Expired
              ELSE [slice EXCEPT !.elapsed = @ + 1, !.left = @ - 1]
  /\ due' = IF due = <<>> THEN <<>> ELSE <<Max({due[1] - 1, -MaxLate})>>
  /\ UNCHANGED <<limits, io_limits_enabled, block_timer, nr, throttled_reqs,
                 unlock_bh_queue>>
=============================================================================
