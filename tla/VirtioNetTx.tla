---------------------------- MODULE VirtioNetTx ----------------------------
(***************************************************************************)
(* The transmit queue of virtio-net (hw/virtio-net.c) over a virtqueue.    *)
(* A kick makes the device arm a bottom half or a timer and ask for no     *)
(* more kicks; when it runs, virtio_net_flush_tx sends what is available.  *)
(* A backend that is busy keeps one packet and later calls                 *)
(* virtio_net_tx_complete.  All of this runs under the global mutex, so    *)
(* the device is in one function at a time, but the driver goes on filling *)
(* the ring.  The driver has set DRIVER_OK and vhost is not used.          *)
(***************************************************************************)
EXTENDS VirtQueue

CONSTANTS
  TxBurst,   \* tx_burst
  Modes,     \* "bh", "timer": how the device may be configured
  MaxEvents  \* bound: times the machine stops or the link goes down

ASSUME VirtioNetTxAssumption ==
  TxBurst \in Nat \ {0} /\ MaxEvents \in Nat /\ Modes \subseteq {"bh", "timer"}

VARIABLES
  mode,
  tx_waiting,
  armed,        \* the bottom half is scheduled, or the timer is pending
  async_tx,     \* <<head>> of the packet the backend keeps, or <<>>
  vm_running, link_up,
  events,       \* stops and link failures so far
  pc,           \* the step the device is at; "idle" in the main loop
  ctx,          \* the function that has called virtio_net_flush_tx
  num_packets,  \* local, and then the result of virtio_net_flush_tx
  elem,         \* <<head>> of the element being sent
  snap,         \* avail_idx as read for the event index
  cut           \* history: the last flush ended at tx_burst and nobody looked at that

EBUSY == -1
ctlVars == <<mode, tx_waiting, armed, async_tx, vm_running, link_up, events>>
locals  == <<ctx, num_packets, elem, snap>>
vars == <<queueVars, ctlVars, pc, locals, cut>>

Init ==
  /\ QueueInit
  /\ mode \in Modes
  /\ tx_waiting = FALSE /\ armed = FALSE /\ async_tx = <<>>
  /\ vm_running = TRUE /\ link_up = TRUE /\ events = 0
  /\ pc = "idle" /\ ctx = "none" /\ num_packets = 0 /\ elem = <<>> /\ snap = 0
  /\ cut = FALSE

\* What the device leaves alone: the driver's memory and state.
DeviceKeeps == UNCHANGED <<features, availVars, driverVars, mode, vm_running, link_up,
                           events>>

FlushKeeps == DeviceKeeps /\ UNCHANGED cut

GoIdle ==
  pc' = "idle" /\ ctx' = "none" /\ num_packets' = 0 /\ elem' = <<>> /\ snap' = 0

\* virtio_net_flush_tx is called from c, after notification is turned on if on.
Call(c, on) ==
  /\ ctx' = c /\ num_packets' = 0 /\ elem' = <<>>
  /\ pc' = IF on /\ EventIdx THEN "read_idx" ELSE "flush"
  /\ UNCHANGED snap

Arm == tx_waiting' = TRUE /\ armed' = TRUE

-----------------------------------------------------------------------------
(* virtio_net_flush_tx *)

\* Entry: the assertion, and a packet that the backend still keeps.
virtio_net_flush_tx ==
  /\ pc = "flush"
  /\ \/ ~vm_running /\ pc' = "abort" /\ UNCHANGED noteVars
     \/ /\ vm_running /\ async_tx # <<>>
        /\ virtio_queue_set_notification(FALSE)
        /\ pc' = "return"
     \/ vm_running /\ async_tx = <<>> /\ pc' = "pop" /\ UNCHANGED noteVars
  /\ FlushKeeps
  /\ UNCHANGED <<usedVars, signalVars, avail_event, last_avail_idx, kick, irq,
                 tx_waiting, armed, async_tx, locals>>

\* One turn of the loop begins, or the queue is empty.
Pop ==
  /\ pc = "pop"
  /\ IF Empty
       THEN pc' = "return" /\ UNCHANGED <<last_avail_idx, inuse, elem>>
       ELSE \E h \in Heads :
              /\ virtqueue_pop(h) /\ elem' = <<h>>
              /\ pc' = IF EventIdx /\ notification THEN "read_idx" ELSE "send"
  /\ FlushKeeps
  /\ UNCHANGED <<used_ring, used_idx, signalVars, noteVars, avail_event, kick, irq,
                 tx_waiting, armed, async_tx, ctx, num_packets, snap>>

\* The available index is read and then published as the event index, by
\* virtqueue_pop and by virtio_queue_set_notification.
ReadIdx ==
  /\ pc = "read_idx" /\ pc' = "publish"
  /\ snap' = avail_idx
  /\ FlushKeeps
  /\ UNCHANGED <<usedVars, signalVars, noteVars, avail_event, last_avail_idx, kick, irq,
                 tx_waiting, armed, async_tx, ctx, num_packets, elem>>

PublishEvent ==
  /\ pc = "publish"
  /\ vring_avail_event(snap) /\ snap' = 0
  /\ pc' = IF elem # <<>> THEN "send" ELSE "flush"
  /\ FlushKeeps
  /\ UNCHANGED <<usedVars, signalVars, noteVars, last_avail_idx, kick, irq,
                 tx_waiting, armed, async_tx, ctx, num_packets, elem>>

\* Mutant: the driver is not muted while the backend is busy.
M_Send_unmuted ==
  /\ pc = "send"
  /\ \/ pc' = "push" /\ UNCHANGED <<async_tx, num_packets, elem>>
     \/ /\ async_tx' = elem /\ elem' = <<>>
        /\ num_packets' = EBUSY /\ pc' = "return"
  /\ FlushKeeps
  /\ UNCHANGED <<usedVars, signalVars, noteVars, avail_event, last_avail_idx, kick, irq,
                 tx_waiting, armed, ctx, snap>>

\* qemu_sendv_packet_async: the backend takes the packet or keeps it for later.
Send ==
  /\ pc = "send"
  /\ \/ pc' = "push" /\ UNCHANGED <<noteVars, async_tx, num_packets, elem>>
     \/ /\ virtio_queue_set_notification(FALSE)
        /\ async_tx' = elem /\ elem' = <<>>
        /\ num_packets' = EBUSY /\ pc' = "return"
  /\ FlushKeeps
  /\ UNCHANGED <<usedVars, signalVars, avail_event, last_avail_idx, kick, irq,
                 tx_waiting, armed, ctx, snap>>

Push ==
  /\ pc = "push" /\ pc' = "notify"
  /\ virtqueue_push(elem[1]) /\ elem' = <<>>
  /\ FlushKeeps
  /\ UNCHANGED <<noteVars, avail_event, last_avail_idx, kick, irq,
                 tx_waiting, armed, async_tx, ctx, num_packets, snap>>

\* virtio_notify; the loop ends after a full burst.
Notify ==
  /\ pc = "notify"
  /\ virtio_notify
  /\ num_packets' = num_packets + 1
  /\ pc' = IF num_packets' >= TxBurst \/ ctx = "async" THEN "return" ELSE "pop"
  /\ FlushKeeps
  /\ UNCHANGED <<usedVars, noteVars, avail_event, last_avail_idx, kick, tx_waiting, armed,
                 async_tx, ctx, elem, snap>>

\* virtio_net_flush_tx returns num_packets.
Return(c) ==
  /\ pc = "return" /\ ctx = c
  /\ DeviceKeeps
  /\ UNCHANGED <<usedVars, signalVars, avail_event, last_avail_idx, kick, irq>>

\* virtio_net_tx_bh after a full burst: there may be more.
BhBurst ==
  /\ Return("bh") /\ num_packets >= TxBurst
  /\ Arm /\ GoIdle /\ cut' = FALSE
  /\ UNCHANGED <<noteVars, async_tx>>

\* Mutant: the queue is not looked at again after notification is turned on.
M_BhAgain_looks_once ==
  /\ Return("bh") /\ num_packets \in 0..(TxBurst - 1)
  /\ virtio_queue_set_notification(TRUE)
  /\ GoIdle /\ cut' = FALSE
  /\ UNCHANGED <<tx_waiting, armed, async_tx>>

\* virtio_net_tx_bh after less: notification is turned on and the queue is
\* looked at again.
BhAgain ==
  /\ Return("bh") /\ num_packets \in 0..(TxBurst - 1)
  /\ virtio_queue_set_notification(TRUE)
  /\ Call("bh_again", TRUE) /\ cut' = FALSE
  /\ UNCHANGED <<tx_waiting, armed, async_tx>>

\* The second look has found something.
BhFound ==
  /\ Return("bh_again") /\ num_packets > 0
  /\ virtio_queue_set_notification(FALSE)
  /\ Arm /\ GoIdle /\ cut' = FALSE
  /\ UNCHANGED async_tx

\* virtio_net_tx_bh is done: the backend is busy or the queue is empty.
BhDone ==
  /\ Return(ctx) /\ ctx \in {"bh", "bh_again"}
  /\ num_packets = EBUSY \/ (ctx = "bh_again" /\ num_packets = 0)
  /\ GoIdle /\ cut' = FALSE
  /\ UNCHANGED <<noteVars, tx_waiting, armed, async_tx>>

\* The other callers do not look at the result.
Ignore ==
  /\ Return(ctx) /\ ctx \in {"complete", "timer", "kick"}
  /\ GoIdle /\ cut' = (num_packets >= TxBurst)
  /\ UNCHANGED <<noteVars, tx_waiting, armed, async_tx>>

\* The rest of virtio_net_tx_complete, after the push and the notification.
Completed ==
  /\ Return("async")
  /\ async_tx' = <<>>
  /\ virtio_queue_set_notification(TRUE)
  /\ Call("complete", TRUE) /\ cut' = FALSE
  /\ UNCHANGED <<tx_waiting, armed>>

FlushStep ==
  \/ virtio_net_flush_tx \/ Pop \/ ReadIdx \/ PublishEvent \/ Send \/ Push \/ Notify
  \/ BhBurst \/ BhAgain \/ BhFound \/ BhDone \/ Ignore \/ Completed

-----------------------------------------------------------------------------
(* What the main loop calls *)

MainKeeps ==
  UNCHANGED <<usedVars, signalVars, avail_event, last_avail_idx, irq, async_tx, cut>>

virtio_net_handle_tx_bh ==
  /\ mode = "bh"
  /\ IF tx_waiting
       THEN UNCHANGED <<tx_waiting, armed, noteVars>>
       ELSE Arm /\ virtio_queue_set_notification(FALSE)
  /\ UNCHANGED <<pc, locals>>

virtio_net_handle_tx_timer ==
  /\ mode = "timer"
  /\ IF tx_waiting
       THEN /\ virtio_queue_set_notification(TRUE)
            /\ tx_waiting' = FALSE /\ armed' = FALSE
            /\ Call("kick", TRUE)
       ELSE /\ Arm /\ virtio_queue_set_notification(FALSE)
            /\ UNCHANGED <<pc, locals>>

\* The driver's kick arrives while the machine runs.
HandleKick ==
  /\ pc = "idle" /\ kick /\ vm_running
  /\ kick' = FALSE
  /\ virtio_net_handle_tx_bh \/ virtio_net_handle_tx_timer
  /\ DeviceKeeps /\ MainKeeps

\* The beginning of virtio_net_tx_bh and of virtio_net_tx_timer, whose assertion
\* is also that of virtio_net_flush_tx.
RunArmed ==
  /\ pc = "idle" /\ armed
  /\ armed' = FALSE /\ tx_waiting' = FALSE
  /\ \/ mode = "bh" /\ Call("bh", FALSE) /\ UNCHANGED noteVars
     \/ /\ mode = "timer" /\ Call("timer", TRUE)
        /\ virtio_queue_set_notification(TRUE)
  /\ DeviceKeeps /\ MainKeeps
  /\ UNCHANGED kick

\* The backend has sent the packet it kept: virtio_net_tx_complete begins.
virtio_net_tx_complete ==
  /\ pc = "idle" /\ async_tx # <<>>
  /\ pc' = "push" /\ elem' = async_tx /\ ctx' = "async"
  /\ DeviceKeeps /\ MainKeeps
  /\ UNCHANGED <<noteVars, kick, tx_waiting, armed, num_packets, snap>>

\* Mutant: nothing is disarmed.
M_set_status_arms(running, link) ==
  armed' = (armed \/ (tx_waiting' /\ running /\ link))

\* virtio_net_set_status: whoever waits is armed again or disarmed.
virtio_net_set_status(running, link) ==
  armed' = IF tx_waiting' THEN running /\ link ELSE armed

MachineKeeps ==
  /\ MainKeeps
  /\ UNCHANGED <<features, availVars, driverVars, noteVars, mode, pc, locals>>

\* virtio_vmstate_change when the machine stops: a kick that is still in the
\* eventfd is handled by a device that is not running, then the status is set.
StopMachine ==
  /\ pc = "idle" /\ vm_running
  /\ events < MaxEvents /\ events' = events + 1
  /\ vm_running' = FALSE
  /\ tx_waiting' = (tx_waiting \/ kick) /\ kick' = FALSE
  /\ virtio_net_set_status(FALSE, link_up)
  /\ MachineKeeps /\ UNCHANGED link_up

\* The same when it goes on: the eventfd, if one is used, starts with a kick.
StartMachine ==
  /\ pc = "idle" /\ ~vm_running
  /\ vm_running' = TRUE
  /\ UNCHANGED tx_waiting
  /\ virtio_net_set_status(TRUE, link_up)
  /\ kick' \in {kick, TRUE}
  /\ MachineKeeps /\ UNCHANGED <<link_up, events>>

virtio_net_set_link_status ==
  /\ pc = "idle"
  /\ link_up' = ~link_up
  /\ link_up => events < MaxEvents
  /\ events' = IF link_up THEN events + 1 ELSE events
  /\ UNCHANGED tx_waiting
  /\ virtio_net_set_status(vm_running, link_up')
  /\ MachineKeeps /\ UNCHANGED <<kick, vm_running>>

\* The vCPU runs only while the machine does.
DriverStep ==
  vm_running /\ pc # "abort" /\ DriverNext /\ UNCHANGED <<ctlVars, pc, locals, cut>>

Next ==
  \/ DriverStep \/ FlushStep
  \/ HandleKick \/ RunArmed \/ virtio_net_tx_complete
  \/ StopMachine \/ StartMachine \/ virtio_net_set_link_status

Spec == Init /\ [][Next]_vars

-----------------------------------------------------------------------------
Pending  == Between(avail_ring, last_avail_idx, avail_idx)
Returned == Between(used_ring, last_used, used_idx)
Held     == {h \in Heads : <<h>> = elem \/ (<<h>> = async_tx /\ ctx # "async")}

\* Each head belongs to exactly one side at a time, wherever the indices are
\* in their range: it is free, available, being sent, or used and not yet taken
\* back; inuse counts what virtqueue_pop has handed out.
HeadsConserved ==
  /\ free \cup Pending \cup Held \cup Returned = Heads
  /\ Cardinality(free) + Idx(avail_idx - last_avail_idx) + Cardinality(Held)
       + Idx(used_idx - last_used) = Num
  /\ inuse = Cardinality(Held)

\* A driver that sleeps has seen every used buffer, or an interrupt is on its
\* way: vring_notify never suppresses the one that is needed.
NoLostInterrupt ==
  driver = "sleep" /\ last_used # used_idx => irq \/ pc = "notify"

\* Packets whose driver has decided about its kick do not lie in the ring with
\* nobody about to look: "flush anything that may have come in while we weren't
\* looking" (hw/virtio-net.c:851).
NoTxStall ==
  Empty \/ driver = "kick" \/ kick \/ tx_waiting \/ async_tx # <<>> \/ pc # "idle"

\* The only way to stall is a flush that tx_burst cuts off in a function that
\* does not look at the result.  In particular no kick is lost between the device
\* and the driver, with a flag or with an event index.
StallsOnlyAfterBurst == NoTxStall \/ cut

\* tx_waiting, which survives a stopped machine and a link that is down, and
\* the bottom half or timer agree.
WaitingIsArmed ==
  /\ armed => tx_waiting /\ vm_running
  /\ tx_waiting /\ vm_running /\ link_up => armed

\* While the backend keeps a packet the driver is asked not to kick: "Notification
\* re-enable handled by tx_complete" (hw/virtio-net.c:840).
BusyIsMuted ==
  async_tx # <<>> /\ pc = "idle" => ~notification /\ (EventIdx \/ no_notify)

\* assert(n->vdev.vm_running) in virtio_net_flush_tx, virtio_net_tx_bh and
\* virtio_net_tx_timer (hw/virtio-net.c:715, 813, 830) never fails.
NeverAborts == pc # "abort"
=============================================================================
