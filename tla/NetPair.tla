------------------------------ MODULE NetPair ------------------------------
(***************************************************************************)
(* A tap backend and a virtio NIC that are peers, the packet queue of each *)
(* (net/queue.c, net.c), and the main loop that calls them.  The send      *)
(* queue of a client holds the packets for that client.  Everything here   *)
(* runs under the global mutex: in the main loop, which gives it up while  *)
(* it is in select, or in a vCPU that kicks the receive queue.  Handlers   *)
(* call each other (a sent callback sends the next packet, a delivery      *)
(* flushes the queue), so the calls in progress are kept on a stack.  The  *)
(* guest's driver and the host run beside.  The virtqueues are reduced to  *)
(* the number of receive buffers and to packets to transmit; VirtQueue has *)
(* the rest.  The driver has set DRIVER_OK, promiscuous mode is on.        *)
(***************************************************************************)
EXTENDS Integers, Sequences

CONSTANTS
  Loads,           \* bounds: packets from the host, from the guest, announcements,
                   \* and receive buffers of the guest
  MaxEvents,       \* bound: times the machine stops or a link goes down
  Sizes,           \* receive buffers a packet may fill
  Room             \* packets the tap device takes until the host reads them

ASSUME NetPairAssumption ==
  /\ Loads \subseteq [rx : Nat, tx : Nat, announce : Nat, bufs : Nat]
  /\ {MaxEvents, Room} \subseteq Nat
  /\ Sizes \subseteq Nat \ {0}

Clients == {"nic", "tap"}
Peer(c) == IF c = "nic" THEN "tap" ELSE "nic"

VARIABLES
  packets,            \* send_queue of each client
  receive_disabled, link_down,
  read_poll, write_poll,              \* of the tap
  readfds, writefds,                  \* the tap's bits: asked for, then found
  loop,               \* the main loop: "fill", "select", "poll"
  notified,           \* qemu_notify_event
  stack,              \* calls in progress, the innermost first
  cur,                \* <<packet>> being delivered to the NIC
  ioeventfd, mergeable,               \* how the NIC is configured
  load,               \* one of Loads
  vm_running,
  bufs, notification, rx_kick,        \* the receive queue
  idle_bufs, driver,  \* buffers the guest has not added, its next step
  async_tx,           \* <<n>>: packet n the NIC has been told to wait for
  arrived, read,      \* packets the host has sent, the tap has read
  sent,               \* packets popped from the transmit queue
  room,               \* of the tap device
  announced, events,
  guest, wire,        \* history: packets the guest, the host has got
  leaked,             \* history: receive buffers popped and not given back
  strayed,            \* history: a packet without callback has been queued
  stopped             \* history: the machine has been stopped

queueVars  == <<packets, receive_disabled>>
tapVars    == <<read_poll, write_poll, notified>>
loopVars   == <<readfds, writefds, loop>>
rxVars     == <<bufs, notification, rx_kick, idle_bufs, driver, leaked>>
txVars     == <<async_tx, sent, room, wire, strayed, announced>>
configVars == <<ioeventfd, mergeable, load>>
machVars   == <<vm_running, link_down, events, stopped>>
vars == <<queueVars, tapVars, loopVars, rxVars, txVars, configVars, machVars,
          stack, cur, arrived, read, guest>>

Init ==
  /\ packets = [c \in Clients |-> <<>>]
  /\ receive_disabled = [c \in Clients |-> FALSE]
  /\ link_down = [c \in Clients |-> FALSE]
  /\ read_poll = TRUE /\ write_poll = FALSE /\ notified = FALSE
  /\ readfds = FALSE /\ writefds = FALSE /\ loop = "fill"
  /\ stack = <<>> /\ cur = <<>>
  /\ ioeventfd \in BOOLEAN /\ mergeable \in BOOLEAN /\ load \in Loads
  /\ vm_running = TRUE /\ events = 0 /\ stopped = FALSE
  /\ bufs = 0 /\ notification = TRUE /\ rx_kick = FALSE
  /\ idle_bufs = load.bufs /\ driver = "idle" /\ leaked = 0
  /\ async_tx = <<>> /\ sent = 0 /\ room = Room /\ wire = <<>>
  /\ strayed = FALSE /\ announced = 0
  /\ arrived = 0 /\ read = 0 /\ guest = <<>>

-----------------------------------------------------------------------------
(* net.c and net/queue.c *)

virtio_net_can_receive == vm_running

\* qemu_can_send_packet; only the NIC has a can_receive function.
qemu_can_send_packet(sender) ==
  /\ ~receive_disabled[Peer(sender)]
  /\ sender = "tap" => virtio_net_can_receive

Top(f)   == stack # <<>> /\ Head(stack) = f
Below    == Tail(stack)
Return   == stack' = Below
Call(f)  == stack' = <<f>> \o stack
Idle     == stack = <<>>

Packet(n, size, cb) == [id |-> n, size |-> size, cb |-> cb]

qemu_net_queue_append(c, p) == packets' = [packets EXCEPT ![c] = Append(@, p)]

Disable(c, on) == receive_disabled' = [receive_disabled EXCEPT ![c] = on]

\* Mutant: the receiver stays disabled.
M_flush_queued_disabled(c, f) == stack' = <<f>> /\ UNCHANGED <<receive_disabled, packets>>

\* qemu_flush_queued_packets; f is the frame of qemu_net_queue_flush.
qemu_flush_queued_packets(c, f) == Disable(c, FALSE) /\ stack' = <<f>> /\ UNCHANGED packets

-----------------------------------------------------------------------------
(* net/tap.c: polling *)

\* tap_update_fd_handler: qemu_set_fd_handler2 wakes the main loop up.
tap_update_fd_handler == notified' = (notified \/ read_poll' \/ write_poll')

tap_read_poll(on) == read_poll' = on /\ UNCHANGED write_poll /\ tap_update_fd_handler

-----------------------------------------------------------------------------
(* From the tap to the NIC *)

RxKeeps == UNCHANGED <<loopVars, txVars, configVars, machVars, arrived>>

\* One turn of the loop of tap_send.
tap_send ==
  /\ Top("tap_send")
  /\ \/ /\ read = arrived
        /\ Return /\ UNCHANGED <<packets, cur, read>>
     \/ /\ read < arrived /\ read' = read + 1
        /\ \/ /\ link_down["tap"]
              /\ UNCHANGED <<packets, cur>>
              /\ IF qemu_can_send_packet("tap") THEN UNCHANGED stack ELSE Return
           \/ /\ ~link_down["tap"] /\ ~qemu_can_send_packet("tap")
              /\ \E size \in Sizes :
                   qemu_net_queue_append("nic", Packet(read', size, TRUE))
              /\ Return /\ UNCHANGED cur
           \/ /\ ~link_down["tap"] /\ qemu_can_send_packet("tap")
              /\ \E size \in Sizes : cur' = <<Packet(read', size, TRUE)>>
              /\ Call("receive") /\ UNCHANGED packets
  /\ RxKeeps /\ UNCHANGED <<receive_disabled, tapVars, rxVars, guest>>

\* The condition of that loop, after a packet that was delivered.
TapSendAgain ==
  /\ Top("tap_send_again")
  /\ stack' = IF qemu_can_send_packet("tap") THEN <<"tap_send">> \o Below ELSE Below
  /\ RxKeeps /\ UNCHANGED <<queueVars, tapVars, rxVars, cur, read, guest>>

\* The queue has room for a packet: virtio_queue_empty, virtqueue_avail_bytes.
Enough(p) == bufs >= (IF mergeable THEN p.size ELSE 1)

\* The end of virtio_net_receive: the packet is copied, or found too large for
\* the one buffer that was popped.
Copy(p) ==
  /\ notification' = FALSE
  /\ IF mergeable \/ p.size = 1
       THEN /\ bufs' = bufs - p.size /\ idle_bufs' = idle_bufs + p.size
            /\ guest' = Append(guest, p.id)
            /\ UNCHANGED leaked
       ELSE /\ bufs' = bufs - 1 /\ leaked' = leaked + 1
            /\ UNCHANGED <<idle_bufs, guest>>
  /\ UNCHANGED <<rx_kick, driver>>

\* Delivery ends with 0: qemu_net_queue_send appends the packet and tap_send
\* stops polling; qemu_net_queue_flush puts the packet back.
ReturnsZero(p) ==
  /\ Disable("nic", TRUE)
  /\ cur' = <<>>
  /\ stack' = Tail(Below)
  /\ \/ /\ Head(Below) = "tap_send"
        /\ qemu_net_queue_append("nic", p)
        /\ tap_read_poll(FALSE)
     \/ /\ Head(Below) = "rx_flush"
        /\ packets' = [packets EXCEPT !["nic"] = <<p>> \o @]
        /\ UNCHANGED tapVars

\* Mutant: the sent callback is not called.
M_ReturnsSize_silent(p, error) ==
  /\ cur' = <<>>
  /\ \/ /\ Head(Below) = "tap_send"
        /\ stack' = <<"rx_flush">> \o (IF error THEN Tail(Below)
                                                ELSE <<"tap_send_again">> \o Tail(Below))
     \/ Head(Below) = "rx_flush" /\ stack' = Below
  /\ UNCHANGED <<queueVars, tapVars>>

\* Delivery ends with the size or an error: qemu_net_queue_send flushes, and
\* tap_send goes on unless it was an error; qemu_net_queue_flush calls sent_cb,
\* which is tap_send_completed.
ReturnsSize(p, error) ==
  /\ cur' = <<>>
  /\ \/ /\ Head(Below) = "tap_send"
        /\ stack' = <<"rx_flush">> \o (IF error THEN Tail(Below)
                                                ELSE <<"tap_send_again">> \o Tail(Below))
        /\ UNCHANGED tapVars
     \/ /\ Head(Below) = "rx_flush"
        /\ stack' = Below
        /\ IF p.cb THEN tap_read_poll(TRUE) ELSE UNCHANGED tapVars
  /\ UNCHANGED queueVars

\* How far qemu_deliver_packet and virtio_net_receive get with packet p.
Outcome(p) ==
  IF link_down["nic"] THEN "dropped"
  ELSE IF receive_disabled["nic"] THEN "zero"
  ELSE IF ~virtio_net_can_receive THEN "error"
  ELSE IF Enough(p) THEN "copied" ELSE "full"

RxKeepsRing == UNCHANGED <<rxVars, guest>>

virtio_net_receive ==
  /\ Top("receive")
  /\ LET p == cur[1] IN
       \/ /\ Outcome(p) = "full"
          /\ stack' = <<"enable">> \o Below
          /\ RxKeepsRing /\ UNCHANGED <<queueVars, tapVars, cur>>
       \/ Outcome(p) = "copied" /\ Copy(p) /\ ReturnsSize(p, FALSE)
       \/ Outcome(p) = "zero" /\ ReturnsZero(p) /\ RxKeepsRing
       \/ /\ Outcome(p) \in {"dropped", "error"}
          /\ ReturnsSize(p, Outcome(p) = "error") /\ RxKeepsRing
  /\ RxKeeps /\ UNCHANGED read

\* virtio_net_has_buffers has found too little: it turns notification on,
EnableRx ==
  /\ Top("enable")
  /\ notification' = TRUE
  /\ stack' = <<"recheck">> \o Below
  /\ RxKeeps
  /\ UNCHANGED <<queueVars, tapVars, bufs, rx_kick, idle_bufs, driver, leaked, cur, read,
                 guest>>

\* Mutant: the second look is missing.
M_recheck_trusting ==
  /\ Top("recheck")
  /\ ReturnsZero(cur[1]) /\ RxKeepsRing
  /\ RxKeeps /\ UNCHANGED read

\* and looks again.
Recheck ==
  /\ Top("recheck")
  /\ LET p == cur[1] IN
       \/ Enough(p) /\ Copy(p) /\ ReturnsSize(p, FALSE)
       \/ ~Enough(p) /\ ReturnsZero(p) /\ RxKeepsRing
  /\ RxKeeps /\ UNCHANGED read

\* Mutant: the packet is not removed before it is delivered.
M_RxFlush_peeks ==
  /\ Top("rx_flush")
  /\ \/ packets["nic"] = <<>> /\ Return /\ UNCHANGED cur
     \/ packets["nic"] # <<>> /\ cur' = <<Head(packets["nic"])>> /\ Call("receive")
  /\ RxKeeps /\ UNCHANGED <<queueVars, tapVars, rxVars, read, guest>>

\* One turn of qemu_net_queue_flush for the NIC.
RxFlush ==
  /\ Top("rx_flush")
  /\ \/ /\ packets["nic"] = <<>>
        /\ Return /\ UNCHANGED <<packets, cur>>
     \/ /\ packets["nic"] # <<>>
        /\ cur' = <<Head(packets["nic"])>>
        /\ packets' = [packets EXCEPT !["nic"] = Tail(@)]
        /\ Call("receive")
  /\ RxKeeps /\ UNCHANGED <<receive_disabled, tapVars, rxVars, read, guest>>

\* The kick arrives through the eventfd, or the vCPU itself calls the handler.
virtio_net_handle_rx ==
  /\ Idle /\ rx_kick
  /\ loop = IF ioeventfd THEN "poll" ELSE "select"
  /\ rx_kick' = FALSE
  /\ qemu_flush_queued_packets("nic", "rx_flush")
  /\ notified' = TRUE
  /\ RxKeeps
  /\ UNCHANGED <<read_poll, write_poll, bufs, notification, idle_bufs, driver, leaked,
                 cur, read, guest>>

-----------------------------------------------------------------------------
(* From the NIC to the tap *)

TxKeeps == UNCHANGED <<loopVars, rxVars, configVars, machVars, cur, arrived, read, guest>>

\* The ways in which a packet can fare with the tap, through
\* qemu_deliver_packet_iov or qemu_deliver_packet.
TapOutcomes(iov) ==
  IF link_down["tap"] THEN {"dropped"}
  ELSE IF ~iov /\ receive_disabled["tap"] THEN {"zero"}
  ELSE IF room = 0 THEN {"again"} ELSE {"written", "error"}

\* Mutant: the tap is not polled after EAGAIN.
M_tap_write_packet_unpolled(o, n) ==
  /\ room' = IF o = "written" THEN room - 1 ELSE room
  /\ wire' = IF o = "written" /\ n # 0 THEN Append(wire, n) ELSE wire
  /\ UNCHANGED tapVars

\* tap_write_packet with result o for packet n.
tap_write_packet(o, n) ==
  /\ write_poll' = (write_poll \/ o = "again") /\ UNCHANGED read_poll
  /\ IF o = "again" THEN tap_update_fd_handler ELSE UNCHANGED notified
  /\ room' = IF o = "written" THEN room - 1 ELSE room
  /\ wire' = IF o = "written" /\ n # 0 THEN Append(wire, n) ELSE wire

Refused(o) == o \in {"zero", "again"}

\* qemu_sendv_packet_async in the loop of virtio_net_flush_tx, and what follows;
\* s is the stack with that function on top.
SendNext(s) ==
  /\ sent < load.tx /\ sent' = sent + 1
  /\ \/ /\ link_down["nic"] /\ stack' = s
        /\ UNCHANGED <<packets, tapVars, async_tx, room, wire>>
     \/ /\ ~link_down["nic"] /\ ~qemu_can_send_packet("nic") /\ stack' = s
        /\ qemu_net_queue_append("tap", Packet(sent', 1, TRUE))
        /\ UNCHANGED <<tapVars, async_tx, room, wire>>
     \/ /\ ~link_down["nic"] /\ qemu_can_send_packet("nic")
        /\ \E o \in TapOutcomes(TRUE) :
             /\ tap_write_packet(o, sent')
             /\ IF Refused(o)
                  THEN /\ qemu_net_queue_append("tap", Packet(sent', 1, TRUE))
                       /\ async_tx' = <<sent'>> /\ stack' = Tail(s)
                  ELSE stack' = <<"tx_flush">> \o s /\ UNCHANGED <<packets, async_tx>>
  /\ TxKeeps /\ UNCHANGED <<receive_disabled, strayed, announced>>

\* One turn of that loop; it ends when the ring is empty or tx_burst is reached.
virtio_net_flush_tx ==
  /\ Top("flush_tx")
  /\ \/ SendNext(stack)
     \/ Return /\ TxKeeps /\ UNCHANGED <<queueVars, tapVars, txVars>>

\* Mutant: a packet that is kept does not stop the device.
M_TransmitBegins_busy == Idle /\ vm_running /\ SendNext(<<"flush_tx">>)

\* The device looks at its transmit queue and finds a packet.
TransmitBegins ==
  /\ Idle /\ vm_running /\ async_tx = <<>>
  /\ SendNext(<<"flush_tx">>)

\* virtio_net_tx_complete; it calls virtio_net_flush_tx, which asserts that the
\* machine is running.
virtio_net_tx_complete ==
  /\ async_tx' = <<>>
  /\ stack' = IF vm_running THEN <<"flush_tx">> \o stack ELSE <<"abort">>

\* One turn of qemu_net_queue_flush for the tap.
TxFlush ==
  /\ Top("tx_flush")
  /\ \/ /\ packets["tap"] = <<>>
        /\ Return
        /\ UNCHANGED <<queueVars, tapVars, async_tx, room, wire>>
     \/ /\ packets["tap"] # <<>>
        /\ LET p == Head(packets["tap"]) IN
           \E o \in TapOutcomes(FALSE) :
             /\ tap_write_packet(o, p.id)
             /\ IF Refused(o)
                  THEN Disable("tap", TRUE) /\ Return /\ UNCHANGED <<packets, async_tx>>
                  ELSE /\ packets' = [packets EXCEPT !["tap"] = Tail(@)]
                       /\ IF p.cb THEN virtio_net_tx_complete
                                  ELSE UNCHANGED <<async_tx, stack>>
                       /\ UNCHANGED receive_disabled
  /\ TxKeeps /\ UNCHANGED <<sent, strayed, announced>>

\* qemu_announce_self_iter: a raw packet without callback.
qemu_announce_self_iter ==
  /\ Idle /\ loop # "select"
  /\ announced < load.announce /\ announced' = announced + 1
  /\ \/ /\ link_down["nic"]
        /\ UNCHANGED <<queueVars, tapVars, room, wire, stack, strayed>>
     \/ /\ ~link_down["nic"] /\ ~qemu_can_send_packet("nic")
        /\ qemu_net_queue_append("tap", Packet(0, 1, FALSE)) /\ strayed' = TRUE
        /\ UNCHANGED <<receive_disabled, tapVars, room, wire, stack>>
     \/ /\ ~link_down["nic"] /\ qemu_can_send_packet("nic")
        /\ \E o \in TapOutcomes(FALSE) :
             /\ tap_write_packet(o, 0)
             /\ IF Refused(o)
                  THEN /\ qemu_net_queue_append("tap", Packet(0, 1, FALSE))
                       /\ strayed' = TRUE
                       /\ Disable("tap", TRUE) /\ UNCHANGED stack
                  ELSE Call("tx_flush") /\ UNCHANGED <<queueVars, strayed>>
  /\ TxKeeps /\ UNCHANGED <<async_tx, sent>>

-----------------------------------------------------------------------------
(* The main loop *)

LoopKeeps == UNCHANGED <<rxVars, txVars, configVars, machVars, cur, arrived, read, guest>>

\* qemu_iohandler_fill
qemu_iohandler_fill ==
  /\ Idle /\ loop = "fill" /\ loop' = "select"
  /\ readfds' = (read_poll /\ qemu_can_send_packet("tap"))
  /\ writefds' = write_poll
  /\ LoopKeeps /\ UNCHANGED <<queueVars, tapVars, stack>>

\* A monitor command can come: while bounds allow one, or to undo another.
Command == events < MaxEvents \/ ~vm_running \/ link_down["nic"] \/ link_down["tap"]

\* select returns; the handler of qemu_notify_event's descriptor empties it.
select ==
  /\ loop = "select" /\ ~Top("abort")
  /\ \/ notified \/ Command \/ (ioeventfd /\ rx_kick)
     \/ (readfds /\ read < arrived) \/ (writefds /\ room > 0)
  /\ loop' = "poll" /\ notified' = FALSE
  /\ readfds' = (readfds /\ read < arrived)
  /\ writefds' = (writefds /\ room > 0)
  /\ LoopKeeps /\ UNCHANGED <<queueVars, read_poll, write_poll, stack>>

\* qemu_iohandler_poll and the tap: its read handler, its write handler.
PollReads ==
  /\ Idle /\ loop = "poll" /\ readfds /\ read_poll
  /\ readfds' = FALSE
  /\ Call("tap_send")
  /\ LoopKeeps /\ UNCHANGED <<queueVars, tapVars, writefds, loop>>

tap_writable ==
  /\ Idle /\ loop = "poll" /\ ~(readfds /\ read_poll) /\ writefds /\ write_poll
  /\ readfds' = FALSE /\ writefds' = FALSE
  /\ write_poll' = FALSE /\ UNCHANGED read_poll /\ tap_update_fd_handler
  /\ qemu_flush_queued_packets("tap", "tx_flush")
  /\ LoopKeeps /\ UNCHANGED loop

PollEnds ==
  /\ Idle /\ loop = "poll" /\ ~(readfds /\ read_poll) /\ ~(writefds /\ write_poll)
  /\ loop' = "fill" /\ readfds' = FALSE /\ writefds' = FALSE
  /\ LoopKeeps /\ UNCHANGED <<queueVars, tapVars, stack>>

-----------------------------------------------------------------------------
(* The machine, the driver and the host *)

MachineKeeps ==
  UNCHANGED <<packets, read_poll, write_poll, loopVars, bufs, notification, idle_bufs,
              driver, leaked, txVars, configVars, cur, arrived, read, guest>>

\* virtio_vmstate_change when the machine stops: a kick that is still in the
\* eventfd is handled by a device that is not running.  Without eventfd the vCPU
\* has returned from the handler before it stops.
StopMachine ==
  /\ Idle /\ loop = "poll" /\ vm_running /\ (rx_kick => ioeventfd)
  /\ events < MaxEvents /\ events' = events + 1
  /\ vm_running' = FALSE /\ stopped' = TRUE
  /\ rx_kick' = FALSE
  /\ IF rx_kick THEN Disable("nic", FALSE) /\ stack' = <<"rx_flush">> /\ notified' = TRUE
                ELSE UNCHANGED <<receive_disabled, stack, notified>>
  /\ MachineKeeps /\ UNCHANGED link_down

\* When it goes on, the eventfd starts with a kick.
StartMachine ==
  /\ Idle /\ loop = "poll" /\ ~vm_running
  /\ vm_running' = TRUE
  /\ rx_kick' = ioeventfd /\ notified' = (notified \/ ioeventfd)
  /\ MachineKeeps /\ UNCHANGED <<receive_disabled, stack, link_down, events, stopped>>

qmp_set_link(c) ==
  /\ Idle /\ loop = "poll"
  /\ link_down' = [link_down EXCEPT ![c] = ~@]
  /\ ~link_down[c] => events < MaxEvents
  /\ events' = IF link_down[c] THEN events ELSE events + 1
  /\ MachineKeeps
  /\ UNCHANGED <<receive_disabled, stack, notified, rx_kick, vm_running, stopped>>

OutsideKeeps ==
  UNCHANGED <<queueVars, tapVars, loopVars, txVars, configVars, machVars, stack, cur, read,
              guest, leaked>>

\* The driver adds a buffer, and then looks whether it has to kick.
AddBuffer ==
  /\ vm_running /\ driver = "idle" /\ idle_bufs > 0 /\ ~Top("abort")
  /\ idle_bufs' = idle_bufs - 1 /\ bufs' = bufs + 1 /\ driver' = "kick"
  /\ OutsideKeeps /\ UNCHANGED <<notification, rx_kick, arrived>>

Kick ==
  /\ vm_running /\ driver = "kick" /\ ~Top("abort")
  /\ rx_kick' = (rx_kick \/ notification) /\ driver' = "idle"
  /\ OutsideKeeps /\ UNCHANGED <<bufs, notification, idle_bufs, arrived>>

PacketArrives ==
  /\ arrived < load.rx /\ ~Top("abort") /\ arrived' = arrived + 1
  /\ OutsideKeeps /\ UNCHANGED <<bufs, notification, rx_kick, idle_bufs, driver>>

HostReads ==
  /\ room < Room /\ ~Top("abort") /\ room' = room + 1
  /\ RxKeepsRing
  /\ UNCHANGED <<queueVars, tapVars, loopVars, configVars, machVars, stack, cur, arrived,
                 read, async_tx, sent, wire, strayed, announced>>

-----------------------------------------------------------------------------
HandlerStep ==
  \/ tap_send \/ TapSendAgain \/ virtio_net_receive \/ EnableRx \/ Recheck
  \/ RxFlush \/ virtio_net_flush_tx \/ TxFlush

LoopStep == qemu_iohandler_fill \/ select \/ PollReads \/ tap_writable \/ PollEnds

DriverStep == AddBuffer \/ Kick

Next ==
  \/ HandlerStep \/ LoopStep \/ DriverStep
  \/ virtio_net_handle_rx \/ TransmitBegins \/ qemu_announce_self_iter
  \/ StopMachine \/ StartMachine \/ (\E c \in Clients : qmp_set_link(c))
  \/ PacketArrives \/ HostReads

Spec == Init /\ [][Next]_vars

\* Handlers return, the main loop turns and calls the handler of each descriptor
\* that is ready, a stopped machine is started again, the driver keeps adding
\* the buffers it gets back, and the host reads from the tap device.
FairSpec ==
  /\ Spec
  /\ WF_vars(HandlerStep) /\ WF_vars(LoopStep) /\ WF_vars(DriverStep)
  /\ SF_vars(virtio_net_handle_rx) /\ SF_vars(StartMachine) /\ WF_vars(HostReads)

-----------------------------------------------------------------------------
(* Properties *)

Increasing(s) == \A i, j \in DOMAIN s : i < j => s[i] < s[j]

\* Unless the machine is stopped in between, packets from the tap reach the
\* guest in the order in which they were read, and none twice, although some are
\* delivered directly and others wait in the queue (qemu_net_queue_send does not
\* look whether the queue is empty).
GuestInOrder == stopped \/ Increasing(guest)

\* A packet the NIC has refused is not stuck: the driver has been asked for a
\* kick, and one is under way as soon as there are enough buffers.
RefusedIsWatched ==
  receive_disabled["nic"] /\ Idle =>
    /\ packets["nic"] # <<>>
    /\ notification
    /\ \/ rx_kick \/ driver = "kick"
       \/ \E i \in DOMAIN packets["nic"] : ~Enough(packets["nic"][i])

\* The tap stops reading only while one of its packets waits in the queue, whose
\* delivery makes it read again (tap_send_completed).
PausedIsQueued ==
  ~read_poll /\ Idle => packets["nic"] # <<>>

\* The tap waits for its descriptor to be writable as long as packets for it are
\* queued: "The delivery handler may only return zero if it will call
\* qemu_net_queue_flush()" (net/queue.c:28).
QueuedIsPolled ==
  packets["tap"] # <<>> /\ Idle => write_poll

\* "If a sent callback is provided to send(), the caller must handle a zero return
\* [...] Only in that case will we queue the packet. If a sent callback isn't
\* provided, we just drop the packet" (net/queue.c:33): a queued packet has a
\* callback, and its sender has been told to wait for it.
QueuedOnlyIfAwaited ==
  \A i \in DOMAIN packets["tap"] :
    packets["tap"][i].cb /\ async_tx = <<packets["tap"][i].id>>

\* The NIC and the tap implement the packet service as long as nobody else sends
\* for the NIC without a callback.
Service == INSTANCE PacketService WITH kept <- async_tx, broken <- strayed
ImplementsPacketService == Service!Spec

Dead == Top("abort")

\* Every packet that arrives is read sooner or later, unless buffers were lost:
\* the tap is polled again after each pause.
EveryPacketRead == read < arrived ~> (read = arrived \/ leaked > 0 \/ Dead)

\* A queue is emptied again; but a packet that was queued because the machine had
\* just stopped may wait for the next one to arrive.
QueueDrains ==
  packets["nic"] # <<>> ~> (packets["nic"] = <<>> \/ stopped \/ leaked > 0 \/ Dead)

\* A packet that the NIC was told to wait for is finished.
KeptIsFinished == async_tx # <<>> ~> (async_tx = <<>> \/ Dead)

\* Neither direction stops for good: what arrives is read, what the NIC refused is
\* delivered, and what the tap refused is sent and completed.
TrafficFlows == EveryPacketRead /\ QueueDrains /\ KeptIsFinished
=============================================================================
