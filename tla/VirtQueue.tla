----------------------------- MODULE VirtQueue -----------------------------
(***************************************************************************)
(* One virtqueue (hw/virtio.c) and the driver in the guest.  Both sides    *)
(* share the available and the used ring, free running indices of a fixed  *)
(* width, and hints that say when a notification is wanted.  The driver    *)
(* runs on a vCPU while the device runs in QEMU, so every access to memory *)
(* that the other side writes is a step of its own.  The barriers in the   *)
(* code make these accesses happen in program order.  The device's actions *)
(* are composed from the operators below by the module of a device.        *)
(***************************************************************************)
EXTENDS Integers, FiniteSets

CONSTANTS
  Num,        \* vring.num, the size of both rings
  IdxMod,     \* indices count modulo IdxMod, 2^16 in the code
  FeatureSets,\* the sets of features that may be negotiated
  Start,      \* the indices of a queue that has been in use, as virtio_load finds it
  MaxAdds     \* bound: buffers the driver makes available

ASSUME VirtQueueAssumption ==
  /\ Num \in Nat \ {0}
  /\ IdxMod \in Nat /\ IdxMod >= 2 * Num /\ IdxMod % Num = 0 /\ IdxMod % 2 = 0
  /\ Start \in 0..(IdxMod - 1) /\ MaxAdds \in Nat
  /\ FeatureSets \subseteq SUBSET {"EVENT_IDX", "NOTIFY_ON_EMPTY"}

VARIABLES
  features,
  avail_ring, avail_idx, no_interrupt, used_event,   \* written by the driver
  used_ring, used_idx, no_notify, avail_event,       \* written by the device
  last_avail_idx, signalled_used, signalled_used_valid, notification, inuse,
  free,        \* heads that belong to the driver
  last_used,   \* the next used entry the driver looks at
  kicked_idx,  \* avail_idx when the driver last decided whether to kick
  driver,      \* "run", "kick": about to decide, "recheck", "sleep"
  adds,        \* buffers made available so far
  kick, irq    \* a notification that has not been handled

availVars  == <<avail_ring, avail_idx>>
usedVars   == <<used_ring, used_idx, inuse>>
signalVars == <<signalled_used, signalled_used_valid>>
noteVars   == <<notification, no_notify>>
driverVars == <<free, last_used, kicked_idx, driver, adds, no_interrupt, used_event>>
queueVars  == <<features, availVars, usedVars, signalVars, noteVars, avail_event,
                last_avail_idx, driverVars, kick, irq>>

Heads   == 0..(Num - 1)
Indices == 0..(IdxMod - 1)
Idx(i)  == i % IdxMod                       \* (uint16_t)i
Signed(i) ==                                \* (int16_t)i
  IF Idx(i) >= IdxMod \div 2 THEN Idx(i) - IdxMod ELSE Idx(i)
EventIdx == "EVENT_IDX" \in features

QueueInit ==
  /\ features \in FeatureSets
  /\ avail_ring = [i \in Heads |-> 0] /\ avail_idx = Start
  /\ used_ring = [i \in Heads |-> 0] /\ used_idx = Start
  /\ no_interrupt = FALSE /\ used_event = Start
  /\ no_notify = FALSE /\ avail_event = Start
  /\ last_avail_idx = Start /\ inuse = 0 /\ notification = TRUE
  /\ signalled_used = 0 /\ signalled_used_valid = FALSE
  /\ free = Heads /\ last_used = Start /\ kicked_idx = Start /\ driver = "run"
  /\ adds = 0 /\ kick = FALSE /\ irq = FALSE

\* The step from old to new passes the index the other side asked about.
vring_need_event(event, new, old) ==
  Idx(new - event - 1) < Idx(new - old)

-----------------------------------------------------------------------------
(* The device's side *)

\* virtqueue_num_heads, as virtqueue_pop uses it.
Empty == avail_idx = last_avail_idx

\* The part of virtqueue_pop before the event index is published; h is the head.
virtqueue_pop(h) ==
  /\ ~Empty
  /\ h = avail_ring[last_avail_idx % Num]
  /\ last_avail_idx' = Idx(last_avail_idx + 1)
  /\ inuse' = inuse + 1

\* Mutant: the index is raised before it is used to fill the entry.
M_push_late_fill(h) ==
  /\ used_idx' = Idx(used_idx + 1)
  /\ used_ring' = [used_ring EXCEPT ![used_idx' % Num] = h]
  /\ inuse' = inuse - 1
  /\ signalled_used_valid' =
       (signalled_used_valid /\ Signed(used_idx' - signalled_used) >= 1)
  /\ UNCHANGED signalled_used

\* virtqueue_fill and virtqueue_flush for one element.
virtqueue_push(h) ==
  /\ used_ring' = [used_ring EXCEPT ![used_idx % Num] = h]
  /\ used_idx' = Idx(used_idx + 1)
  /\ inuse' = inuse - 1
  /\ signalled_used_valid' =
       (signalled_used_valid /\ Signed(used_idx + 1 - signalled_used) >= 1)
  /\ UNCHANGED signalled_used

\* The flags that virtio_queue_set_notification changes.  With an event index
\* the hint is published afterwards, by PublishEvent.
virtio_queue_set_notification(enable) ==
  /\ notification' = enable
  /\ no_notify' = IF EventIdx THEN no_notify ELSE ~enable

\* vring_avail_event with an index that was read before.
vring_avail_event(val) ==
  avail_event' = IF notification THEN val ELSE avail_event

\* vring_notify returns early, without a note of what has been signalled.
NotifyEmpty ==
  "NOTIFY_ON_EMPTY" \in features /\ inuse = 0 /\ Empty

\* Mutant: signalled_used is believed although it is not valid.
M_vring_notify_trusting ==
  CASE NotifyEmpty -> TRUE
    [] ~NotifyEmpty /\ ~EventIdx -> ~no_interrupt
    [] OTHER -> vring_need_event(used_event, used_idx, signalled_used)

vring_notify ==
  CASE NotifyEmpty -> TRUE
    [] ~NotifyEmpty /\ ~EventIdx -> ~no_interrupt
    [] OTHER -> \/ ~signalled_used_valid
                \/ vring_need_event(used_event, used_idx, signalled_used)

virtio_notify ==
  /\ irq' = (irq \/ vring_notify)
  /\ IF EventIdx /\ ~NotifyEmpty
       THEN signalled_used' = used_idx /\ signalled_used_valid' = TRUE
       ELSE UNCHANGED signalVars

-----------------------------------------------------------------------------
(* The driver: not part of QEMU, as hw/virtio.c expects it *)

DriverKeeps == UNCHANGED <<features, usedVars, signalVars, noteVars, avail_event,
                           last_avail_idx>>

\* A buffer is made available; several may be before the driver kicks.  Heads
\* are interchangeable, so the driver takes the smallest.
Add(h) ==
  /\ driver \in {"run", "kick"} /\ h \in free /\ \A g \in free : h <= g
  /\ adds < MaxAdds /\ adds' = adds + 1
  /\ avail_ring' = [avail_ring EXCEPT ![avail_idx % Num] = h]
  /\ avail_idx' = Idx(avail_idx + 1)
  /\ free' = free \ {h} /\ driver' = "kick"
  /\ DriverKeeps
  /\ UNCHANGED <<last_used, kicked_idx, no_interrupt, used_event, kick, irq>>

\* The driver kicks if the device's hint asks for it.
Kick ==
  /\ driver = "kick" /\ driver' = "run"
  /\ kick' = (kick \/ IF EventIdx
                        THEN vring_need_event(avail_event, avail_idx, kicked_idx)
                        ELSE ~no_notify)
  /\ kicked_idx' = avail_idx
  /\ DriverKeeps
  /\ UNCHANGED <<availVars, adds, free, last_used, no_interrupt, used_event, irq>>

\* The driver takes back a used buffer.
Reclaim ==
  /\ driver = "run" /\ last_used # used_idx
  /\ free' = free \cup {used_ring[last_used % Num]}
  /\ last_used' = Idx(last_used + 1)
  /\ DriverKeeps
  /\ UNCHANGED <<availVars, adds, kicked_idx, driver, no_interrupt, used_event, kick, irq>>

\* The driver wants an interrupt for the next used buffer ...
EnableInterrupt ==
  /\ driver = "run" /\ free # Heads
  /\ driver' = "recheck" /\ no_interrupt' = FALSE /\ used_event' = last_used
  /\ DriverKeeps
  /\ UNCHANGED <<availVars, adds, free, last_used, kicked_idx, kick, irq>>

\* ... and sleeps unless one has come in already.
Recheck ==
  /\ driver = "recheck"
  /\ driver' = IF last_used = used_idx THEN "sleep" ELSE "run"
  /\ no_interrupt' = (last_used # used_idx)
  /\ DriverKeeps
  /\ UNCHANGED <<availVars, adds, free, last_used, kicked_idx, used_event, kick, irq>>

Interrupt ==
  /\ irq /\ irq' = FALSE
  /\ driver' = IF driver \in {"recheck", "sleep"} THEN "run" ELSE driver
  /\ no_interrupt' = TRUE
  /\ DriverKeeps
  /\ UNCHANGED <<availVars, adds, free, last_used, kicked_idx, used_event, kick>>

DriverNext ==
  \/ \E h \in Heads : Add(h)
  \/ Kick \/ Reclaim \/ EnableInterrupt \/ Recheck \/ Interrupt

-----------------------------------------------------------------------------
\* The entries a ring holds between two indices.
Between(ring, from, to) ==
  {ring[Idx(from + k) % Num] : k \in 0..(Idx(to - from) - 1)}
=============================================================================
