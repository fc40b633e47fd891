--------------------------- MODULE NetPairProofs ---------------------------
(***************************************************************************)
(* Proofs about NetPair, for any number of packets, buffers and events:    *)
(* neither direction is left with packets that nobody will look at again,  *)
(* and the transmit direction implements the packet service.               *)
(***************************************************************************)
EXTENDS NetPair, ListLemmas, SequenceTheorems

-----------------------------------------------------------------------------
(* Stacks *)

Delivering == {"receive", "enable", "recheck"}
Senders    == {"tap_send", "rx_flush"}
RxFrames   == Senders \cup {"tap_send_again"}
TxFrames   == {"flush_tx", "tx_flush", "abort"}

\* The innermost call delivers a packet to the NIC.
Delivers(s) == s # <<>> /\ Head(s) \in Delivering

\* The calls of one direction do not mix with those of the other.  Only the
\* innermost call can be a delivery, and then a sender has called it.
RxStack(s) ==
  /\ s \in Seq(RxFrames \cup Delivering)
  /\ Delivers(s) => Tail(s) # <<>> /\ Tail(s) \in Seq(RxFrames) /\ Head(Tail(s)) \in Senders
  /\ ~Delivers(s) => s \in Seq(RxFrames)

StackOK(s) == s \in Seq(TxFrames) \/ RxStack(s)

\* Frames that will look at the packets for the tap, or never return.
Looks(s) == \E i \in DOMAIN s : s[i] \in {"tx_flush", "abort"}

\* What the provers know of stacks, as facts to cite.
LEMMA Push ==
  ASSUME NEW S, NEW s \in Seq(S), NEW f
  PROVE  /\ Len(s) \in Nat /\ DOMAIN s = 1..Len(s)
         /\ <<f>> \o s # <<>> /\ Head(<<f>> \o s) = f /\ Tail(<<f>> \o s) = s
         /\ Len(<<f>> \o s) = Len(s) + 1 /\ DOMAIN (<<f>> \o s) = 1..(Len(s) + 1)
         /\ (<<f>> \o s)[1] = f /\ \A i \in 1..Len(s) : (<<f>> \o s)[i + 1] = s[i]
         /\ f \in S => <<f>> \o s \in Seq(S)
OBVIOUS

\* What remains of a stack when the innermost call returns.
LEMMA Pull ==
  ASSUME NEW S, NEW s \in Seq(S), s # <<>>
  PROVE  /\ Head(s) \in S /\ Tail(s) \in Seq(S) /\ Head(s) = s[1]
         /\ Len(s) \in Nat \ {0} /\ DOMAIN s = 1..Len(s) /\ DOMAIN Tail(s) = 1..(Len(s) - 1)
         /\ \A i \in 1..(Len(s) - 1) : Tail(s)[i] = s[i + 1]
OBVIOUS

\* Pushing and popping, and the frames that look.
LEMMA LooksPush ==
  ASSUME NEW S, NEW s \in Seq(S), NEW f
  PROVE  Looks(<<f>> \o s) <=> f \in {"tx_flush", "abort"} \/ Looks(s)
<1>1. ASSUME Looks(s) PROVE Looks(<<f>> \o s)
  <2>1. PICK i \in 1..Len(s) : s[i] \in {"tx_flush", "abort"}
    BY <1>1, Push DEF Looks
  <2>2. i + 1 \in DOMAIN (<<f>> \o s) /\ (<<f>> \o s)[i + 1] = s[i]
    BY Push
  <2> QED BY <2>1, <2>2 DEF Looks
<1>2. ASSUME f \in {"tx_flush", "abort"} PROVE Looks(<<f>> \o s)
  <2>1. 1 \in DOMAIN (<<f>> \o s) /\ (<<f>> \o s)[1] = f
    BY Push
  <2> QED BY <1>2, <2>1 DEF Looks
<1>3. ASSUME Looks(<<f>> \o s), f \notin {"tx_flush", "abort"} PROVE Looks(s)
  <2>1. PICK i \in 1..(Len(s) + 1) : (<<f>> \o s)[i] \in {"tx_flush", "abort"}
    BY <1>3, Push DEF Looks
  <2>2. i # 1
    BY <1>3, <2>1, Push
  <2>3. i - 1 \in 1..Len(s) /\ i = (i - 1) + 1
    BY <2>2, Push
  <2>4. s[i - 1] = (<<f>> \o s)[i]
    BY <2>3, Push
  <2> QED BY <2>1, <2>3, <2>4, Push DEF Looks
<1> QED BY <1>1, <1>2, <1>3

\* The same for a call that returns.
LEMMA LooksPull ==
  ASSUME NEW S, NEW s \in Seq(S), s # <<>>
  PROVE  Looks(s) <=> Head(s) \in {"tx_flush", "abort"} \/ Looks(Tail(s))
<1>1. s = <<Head(s)>> \o Tail(s) /\ Tail(s) \in Seq(S)
  OBVIOUS
<1> QED BY Zenon, <1>1, LooksPush

\* A stack without delivery, and one with.
LEMMA PlainStack ==
  ASSUME NEW s \in Seq(RxFrames)
  PROVE  RxStack(s) /\ ~Delivers(s)
<1>1. ~Delivers(s)
  BY DEF Delivers, RxFrames, Senders, Delivering
<1>2. s \in Seq(RxFrames \cup Delivering)
  OBVIOUS
<1> QED BY <1>1, <1>2 DEF RxStack

\* A sender that calls the delivery function of the NIC.
LEMMA DeliveryStack ==
  ASSUME NEW s \in Seq(RxFrames), s # <<>>, Head(s) \in Senders, NEW f \in Delivering
  PROVE  /\ RxStack(<<f>> \o s) /\ Delivers(<<f>> \o s) /\ Tail(<<f>> \o s) = s
<1>1. s \in Seq(RxFrames \cup Delivering)
  OBVIOUS
<1>2. <<f>> \o s \in Seq(RxFrames \cup Delivering)
  BY <1>1, Push
<1>3. Delivers(<<f>> \o s) /\ Tail(<<f>> \o s) = s
  BY Push DEF Delivers
<1> QED BY Zenon, <1>2, <1>3 DEF RxStack

\* Which direction a stack belongs to shows in its innermost call.
LEMMA Directions ==
  ASSUME NEW s, StackOK(s)
  PROVE  /\ s = <<>> => s \in Seq(TxFrames) /\ s \in Seq(RxFrames)
         /\ s # <<>> /\ Head(s) \in TxFrames => s \in Seq(TxFrames)
         /\ s # <<>> /\ Head(s) \in RxFrames => s \in Seq(RxFrames) /\ ~Delivers(s)
         /\ Delivers(s) => RxStack(s)
<1>1. CASE s \in Seq(TxFrames)
  BY <1>1 DEF TxFrames, RxFrames, Senders, Delivers, Delivering
<1>2. CASE RxStack(s)
  BY <1>2 DEF RxStack, TxFrames, RxFrames, Senders, Delivers, Delivering
<1> QED BY <1>1, <1>2 DEF StackOK

\* No call of the receive direction looks at the packets for the tap.
LEMMA RxBlind ==
  ASSUME NEW s, RxStack(s)
  PROVE  ~Looks(s)
BY DEF RxStack, Looks, RxFrames, Senders, Delivering

-----------------------------------------------------------------------------
(* From the tap to the NIC *)

Awaiting == [id : Nat, size : Nat, cb : {TRUE}]

Anything == [id : Nat, size : Nat, cb : BOOLEAN]

\* The types the proofs need.
Types ==
  /\ DOMAIN packets = Clients /\ receive_disabled \in [Clients -> BOOLEAN]
  /\ packets["tap"] \in Seq(Anything)
  /\ read \in Nat /\ sent \in Nat

\* Packets for the NIC have a callback, and the tap is paused only if there is
\* one in the queue, or being delivered from it.
RxInv ==
  /\ StackOK(stack)
  /\ packets["nic"] \in Seq(Awaiting)
  /\ Delivers(stack) => \E p \in Awaiting : cur = <<p>>
  /\ ~read_poll => \/ packets["nic"] # <<>>
                   \/ Delivers(stack) /\ Head(Tail(stack)) = "rx_flush"

\* Steps with no delivery after them.
LEMMA RxQuiet ==
  ASSUME RxInv, stack' \in Seq(RxFrames), packets'["nic"] \in Seq(Awaiting),
         ~read_poll' => packets'["nic"] # <<>>
  PROVE  RxInv' /\ RxStack(stack')
BY PlainStack DEF RxInv, StackOK

\* A new packet of the tap.
LEMMA PacketType ==
  ASSUME Types, NEW size \in Sizes
  PROVE  Packet(read + 1, size, TRUE) \in Awaiting
BY NetPairAssumption DEF Types, Packet, Awaiting

\* One turn of tap_send keeps the invariant of this direction.
LEMMA TapSendRx ==
  ASSUME Types, RxInv, tap_send
  PROVE  RxInv' /\ RxStack(stack')
<1>1. /\ stack # <<>> /\ Head(stack) = "tap_send" /\ ~Delivers(stack) /\ stack \in Seq(RxFrames)
  BY Directions DEF tap_send, Top, RxInv, RxFrames, Senders
<1>2. read_poll' = read_poll
  BY DEF tap_send, tapVars
<1>3. Below \in Seq(RxFrames)
  BY <1>1, Pull DEF Below
<1>4. ASSUME stack' \in {stack, Below}, packets' = packets PROVE RxInv' /\ RxStack(stack')
  BY <1>1, <1>2, <1>3, <1>4, RxQuiet DEF RxInv
<1>5. ASSUME NEW size \in Sizes, qemu_net_queue_append("nic", Packet(read', size, TRUE)),
             read' = read + 1, stack' = Below
      PROVE  RxInv' /\ RxStack(stack')
  <2>1. packets'["nic"] = Append(packets["nic"], Packet(read + 1, size, TRUE))
    BY <1>5 DEF qemu_net_queue_append, Types, Clients, Packet
  <2>2. PICK p \in Awaiting : packets'["nic"] = Append(packets["nic"], p)
    BY Zenon, <1>5, <2>1, PacketType
  <2>3. packets'["nic"] \in Seq(Awaiting) /\ packets'["nic"] # <<>>
    BY <2>2, AppendType DEF RxInv
  <2> QED BY <1>3, <1>5, <2>3, RxQuiet
<1>6. ASSUME NEW size \in Sizes, cur' = <<Packet(read', size, TRUE)>>, read' = read + 1,
             Call("receive"), packets' = packets
      PROVE  RxInv' /\ RxStack(stack')
  <2>1. RxStack(stack') /\ Delivers(stack')
    BY <1>1, <1>6, DeliveryStack DEF Call, Senders, Delivering
  <2>2. \E p \in Awaiting : cur' = <<p>>
    BY Zenon, <1>6, PacketType
  <2>3. ~read_poll' => packets'["nic"] # <<>>
    BY <1>1, <1>2, <1>6 DEF RxInv
  <2> QED BY Zenon, <1>6, <2>1, <2>2, <2>3 DEF RxInv, StackOK
<1>7. \/ stack' \in {stack, Below} /\ packets' = packets
      \/ \E size \in Sizes : /\ qemu_net_queue_append("nic", Packet(read', size, TRUE))
                             /\ read' = read + 1 /\ stack' = Below
      \/ \E size \in Sizes : /\ cur' = <<Packet(read', size, TRUE)>> /\ read' = read + 1
                             /\ Call("receive") /\ packets' = packets
  BY Zenon DEF tap_send, Return
<1> QED BY Zenon, <1>4, <1>5, <1>6, <1>7

\* The end of a delivery: what is known when it returns.
LEMMA DeliveryEnds ==
  ASSUME RxInv, Delivers(stack)
  PROVE  /\ Below # <<>> /\ Below \in Seq(RxFrames) /\ Tail(Below) \in Seq(RxFrames)
         /\ Head(Below) \in Senders /\ cur[1] \in Awaiting
<1>1. PICK p \in Awaiting : cur = <<p>>
  BY DEF RxInv
<1>2. cur[1] \in Awaiting
  BY <1>1
<1>3. Below # <<>> /\ Below \in Seq(RxFrames) /\ Head(Below) \in Senders
  BY Directions DEF RxInv, RxStack, Below
<1> QED BY <1>2, <1>3, Pull

\* A refused packet is in the queue again.
LEMMA ZeroRx ==
  ASSUME Types, RxInv, Delivers(stack), ReturnsZero(cur[1])
  PROVE  RxInv' /\ RxStack(stack')
<1>1. stack' \in Seq(RxFrames)
  BY DeliveryEnds DEF ReturnsZero
<1>2. \/ packets'["nic"] = Append(packets["nic"], cur[1])
      \/ packets'["nic"] = <<cur[1]>> \o packets["nic"]
  BY Zenon DEF ReturnsZero, qemu_net_queue_append, Types, Clients
<1>3. packets'["nic"] \in Seq(Awaiting) /\ packets'["nic"] # <<>>
  <2>1. packets["nic"] \in Seq(Awaiting) /\ cur[1] \in Awaiting
    BY DeliveryEnds DEF RxInv
  <2>2. CASE packets'["nic"] = Append(packets["nic"], cur[1])
    BY <2>1, <2>2, AppendType
  <2>3. CASE packets'["nic"] = <<cur[1]>> \o packets["nic"]
    BY <2>1, <2>3, Push
  <2> QED BY <1>2, <2>2, <2>3
<1> QED BY <1>1, <1>3, RxQuiet

\* A delivered or dropped one, if it came from the queue, makes the tap read.
LEMMA SizeRx ==
  ASSUME Types, RxInv, Delivers(stack), NEW error, ReturnsSize(cur[1], error)
  PROVE  RxInv' /\ RxStack(stack')
<1>1. packets' = packets /\ packets["nic"] \in Seq(Awaiting)
  BY DEF ReturnsSize, queueVars, RxInv
<1>2. CASE Head(Below) = "tap_send"
  <2>1. "rx_flush" \in RxFrames /\ "tap_send_again" \in RxFrames
    BY DEF RxFrames, Senders
  <2>2. <<"tap_send_again">> \o Tail(Below) \in Seq(RxFrames)
    BY <2>1, DeliveryEnds, Push
  <2>3. PICK s \in Seq(RxFrames) : stack' = <<"rx_flush">> \o s
    BY Zenon, <1>2, <2>2, DeliveryEnds DEF ReturnsSize
  <2>4. stack' \in Seq(RxFrames)
    BY <2>1, <2>3, Push
  <2>5. read_poll' = read_poll
    BY Zenon, <1>2 DEF ReturnsSize, tapVars
  <2>6. ~read_poll => packets["nic"] # <<>>
    BY Zenon, <1>2 DEF RxInv, Below
  <2> QED BY <1>1, <2>4, <2>5, <2>6, RxQuiet
<1>3. CASE Head(Below) = "rx_flush"
  <2>1. stack' \in Seq(RxFrames)
    BY Zenon, <1>3, DeliveryEnds DEF ReturnsSize
  <2>2. read_poll'
    BY Zenon, <1>3, DeliveryEnds DEF ReturnsSize, tap_read_poll, Awaiting
  <2> QED BY <1>1, <2>1, <2>2, RxQuiet
<1> QED BY Zenon, <1>2, <1>3 DEF ReturnsSize

\* Every step of this direction.
LEMMA ReceiveRx ==
  ASSUME Types, RxInv, virtio_net_receive \/ EnableRx \/ Recheck
  PROVE  RxInv' /\ RxStack(stack')
<1>1. Delivers(stack)
  BY Zenon DEF virtio_net_receive, EnableRx, Recheck, Top, Delivers, Delivering
<1>2. ASSUME NEW f \in Delivering, stack' = <<f>> \o Below, UNCHANGED <<packets, cur, read_poll>>
      PROVE  RxInv' /\ RxStack(stack')
  <2>1. RxStack(stack') /\ Delivers(stack') /\ Tail(stack') = Below
    BY <1>1, <1>2, DeliveryEnds, DeliveryStack
  <2> QED BY Zenon, <1>1, <1>2, <2>1 DEF RxInv, StackOK, Below
<1>3. CASE virtio_net_receive
  <2>1. CASE Outcome(cur[1]) = "full"
    <3>1. stack' = <<"enable">> \o Below /\ UNCHANGED <<packets, cur, read_poll>>
      BY <1>3, <2>1 DEF virtio_net_receive, queueVars, tapVars
    <3> QED BY <1>2, <3>1 DEF Delivering
  <2>2. CASE Outcome(cur[1]) # "full"
    <3>1. ReturnsZero(cur[1]) \/ \E error : ReturnsSize(cur[1], error)
      BY Zenon, <1>3, <2>2 DEF virtio_net_receive
    <3> QED BY <1>1, <3>1, ZeroRx, SizeRx
  <2> QED BY <2>1, <2>2
<1>4. CASE EnableRx
  <2>1. stack' = <<"recheck">> \o Below /\ UNCHANGED <<packets, cur, read_poll>>
    BY <1>4 DEF EnableRx, queueVars, tapVars
  <2> QED BY <1>2, <2>1 DEF Delivering
<1>5. CASE Recheck
  <2>1. ReturnsZero(cur[1]) \/ ReturnsSize(cur[1], FALSE)
    BY ZenonT(30), <1>5 DEF Recheck
  <2> QED BY Zenon, <1>1, <2>1, ZeroRx, SizeRx
<1> QED BY <1>3, <1>4, <1>5

\* So does a turn of qemu_net_queue_flush, and the loop condition of tap_send.
LEMMA FlushRx ==
  ASSUME Types, RxInv, RxFlush \/ TapSendAgain
  PROVE  RxInv' /\ RxStack(stack')
<1>1. stack # <<>> /\ Head(stack) \in RxFrames /\ ~Delivers(stack) /\ stack \in Seq(RxFrames)
  BY Directions DEF RxFlush, TapSendAgain, Top, RxInv, RxFrames, Senders
<1>2. Below \in Seq(RxFrames)
  BY <1>1, Pull DEF Below
<1>3. read_poll' = read_poll /\ (~read_poll => packets["nic"] # <<>>)
  BY <1>1 DEF RxFlush, TapSendAgain, tapVars, RxInv
<1>4. CASE TapSendAgain
  <2>1. "tap_send" \in RxFrames
    BY DEF RxFrames, Senders
  <2>2. stack' \in Seq(RxFrames)
    BY <1>2, <1>4, <2>1, Push DEF TapSendAgain
  <2>3. packets' = packets
    BY <1>4 DEF TapSendAgain, queueVars
  <2> QED BY <1>3, <2>2, <2>3, RxQuiet DEF RxInv
<1>5. CASE RxFlush /\ packets["nic"] = <<>>
  <2>1. stack' = Below /\ packets' = packets
    BY <1>5 DEF RxFlush, Return
  <2> QED BY <1>2, <1>3, <2>1, RxQuiet DEF RxInv
<1>6. CASE RxFlush /\ packets["nic"] # <<>>
  <2>1. /\ cur' = <<Head(packets["nic"])>> /\ packets'["nic"] = Tail(packets["nic"])
        /\ stack' = <<"receive">> \o stack
    BY <1>6 DEF RxFlush, Call, Types, Clients
  <2>2. Head(packets["nic"]) \in Awaiting /\ packets'["nic"] \in Seq(Awaiting)
    BY <1>6, <2>1, Pull DEF RxInv
  <2>3. Head(stack) = "rx_flush"
    BY <1>6 DEF RxFlush, Top
  <2>4. RxStack(stack') /\ Delivers(stack') /\ Tail(stack') = stack
    BY <1>1, <2>1, <2>3, DeliveryStack DEF Delivering, Senders
  <2> QED BY Zenon, <2>1, <2>2, <2>3, <2>4 DEF RxInv, StackOK
<1> QED BY <1>4, <1>5, <1>6

RxStep ==
  \/ tap_send \/ TapSendAgain \/ virtio_net_receive \/ EnableRx \/ Recheck \/ RxFlush

\* All steps of this direction keep its invariant.
LEMMA RxStepRx ==
  ASSUME Types, RxInv, RxStep
  PROVE  RxInv' /\ RxStack(stack')
BY TapSendRx, ReceiveRx, FlushRx DEF RxStep

\* What a step of this direction leaves alone: everything of the other one.
Apart ==
  /\ packets'["tap"] = packets["tap"] /\ receive_disabled'["tap"] = receive_disabled["tap"]
  /\ UNCHANGED <<write_poll, async_tx, sent, wire, strayed>>

\* The end of a delivery to the NIC leaves the queue of the tap alone.
LEMMA EndsApart ==
  ASSUME Types, NEW p, NEW error, ReturnsZero(p) \/ ReturnsSize(p, error)
  PROVE  /\ DOMAIN packets' = Clients /\ receive_disabled' \in [Clients -> BOOLEAN]
         /\ packets'["tap"] = packets["tap"] /\ receive_disabled'["tap"] = receive_disabled["tap"]
         /\ UNCHANGED write_poll
<1>1. CASE ReturnsZero(p)
  BY <1>1 DEF ReturnsZero, Types, Disable, qemu_net_queue_append, tap_read_poll, tapVars, Clients
<1>2. CASE ReturnsSize(p, error)
  BY <1>2 DEF ReturnsSize, Types, tap_read_poll, tapVars, queueVars
<1> QED BY <1>1, <1>2

\* Every step of this direction does, and keeps the types.
LEMMA RxApart ==
  ASSUME Types, RxStep
  PROVE  Types' /\ Apart
<1>1. UNCHANGED <<async_tx, sent, wire, strayed>>
  BY ZenonT(30) DEF RxStep, tap_send, TapSendAgain, virtio_net_receive, EnableRx, Recheck, RxFlush, RxKeeps,
         txVars
<1>2. read' \in Nat
  <2>1. read' = read \/ (tap_send /\ read' = read + 1)
    BY Zenon DEF RxStep, tap_send, TapSendAgain, virtio_net_receive, EnableRx, Recheck, RxFlush
  <2> QED BY <2>1 DEF Types
<1>3. CASE tap_send
  <2>1. packets' = packets \/ \E p : qemu_net_queue_append("nic", p)
    BY Zenon, <1>3 DEF tap_send
  <2>2. packets'["tap"] = packets["tap"] /\ DOMAIN packets' = Clients
    BY <2>1 DEF qemu_net_queue_append, Types, Clients
  <2> QED BY SMTT(30), <1>1, <1>2, <1>3, <2>2 DEF tap_send, Types, Apart, tapVars
<1>4. CASE TapSendAgain \/ EnableRx
  BY <1>1, <1>2, <1>4 DEF TapSendAgain, EnableRx, Types, Apart, queueVars, tapVars
<1>5. CASE virtio_net_receive \/ Recheck
  <2>1. \/ UNCHANGED <<queueVars, tapVars>>
        \/ \E p, error : ReturnsZero(p) \/ ReturnsSize(p, error)
    BY Zenon, <1>5 DEF virtio_net_receive, Recheck
  <2>2. CASE UNCHANGED <<queueVars, tapVars>>
    BY <1>1, <1>2, <2>2 DEF Types, Apart, queueVars, tapVars
  <2>3. CASE \E p, error : ReturnsZero(p) \/ ReturnsSize(p, error)
    BY Zenon, <1>1, <1>2, <2>3, EndsApart DEF Types, Apart
  <2> QED BY <2>1, <2>2, <2>3
<1>6. CASE RxFlush
  BY <1>1, <1>2, <1>6 DEF RxFlush, Types, Apart, tapVars, Clients
<1> QED BY SMTT(30), <1>3, <1>4, <1>5, <1>6 DEF RxStep

\* The stack is one of the receive direction before and after.
LEMMA RxStacks ==
  ASSUME Types, RxInv, RxStep
  PROVE  stack # <<>> /\ RxStack(stack) /\ RxStack(stack')
<1>1. stack # <<>> /\ (Delivers(stack) \/ Head(stack) \in RxFrames)
  BY Zenon DEF RxStep, tap_send, TapSendAgain, virtio_net_receive, EnableRx, Recheck, RxFlush, Top,
         Delivers, Delivering, RxFrames, Senders
<1>2. RxStack(stack)
  BY <1>1, Directions, PlainStack DEF RxInv
<1> QED BY <1>1, <1>2, RxStepRx

-----------------------------------------------------------------------------
(* From the NIC to the tap *)

TxStep == virtio_net_flush_tx \/ TransmitBegins \/ TxFlush \/ qemu_announce_self_iter

\* What a step of this direction leaves alone.
LEMMA TxApart ==
  ASSUME Types, TxStep
  PROVE  packets'["nic"] = packets["nic"] /\ UNCHANGED <<read_poll, cur, read>>
<1>1. UNCHANGED <<cur, read>>
  BY ZenonT(30) DEF TxStep, virtio_net_flush_tx, TransmitBegins, TxFlush, qemu_announce_self_iter, SendNext,
         TxKeeps
<1>2. read_poll' = read_poll
  BY Zenon DEF TxStep, virtio_net_flush_tx, TransmitBegins, TxFlush, qemu_announce_self_iter, SendNext,
         tap_write_packet, tapVars
<1>3. \/ packets' = packets \/ \E p : qemu_net_queue_append("tap", p)
      \/ packets' = [packets EXCEPT !["tap"] = Tail(@)]
  BY ZenonT(30) DEF TxStep, virtio_net_flush_tx, TransmitBegins, TxFlush, qemu_announce_self_iter, SendNext,
         queueVars
<1>4. packets'["nic"] = packets["nic"]
  BY <1>3 DEF qemu_net_queue_append, Types, Clients
<1> QED BY <1>1, <1>2, <1>4

\* The packets for the tap: none is added, one at the end, or one taken.
LEMMA TxQueue ==
  ASSUME Types, TxStep
  PROVE  Types'
<1>1. receive_disabled' = receive_disabled \/ Disable("tap", TRUE)
  BY Zenon DEF TxStep, virtio_net_flush_tx, TransmitBegins, TxFlush, qemu_announce_self_iter, SendNext,
         queueVars
<1>2. receive_disabled' \in [Clients -> BOOLEAN]
  BY ZenonT(30), <1>1 DEF Disable, Types
<1>3. read' = read
  BY TxApart
<1>4. sent' = sent \/ sent' = sent + 1
  BY Zenon DEF TxStep, virtio_net_flush_tx, TransmitBegins, TxFlush, qemu_announce_self_iter, SendNext,
         txVars
<1>5. sent' \in Nat
  BY <1>4 DEF Types
<1>6. \/ packets' = packets
      \/ \E p \in Anything : qemu_net_queue_append("tap", p)
      \/ packets["tap"] # <<>> /\ packets' = [packets EXCEPT !["tap"] = Tail(@)]
  <2>1. Packet(sent + 1, 1, TRUE) \in Anything /\ Packet(0, 1, FALSE) \in Anything
    BY DEF Types, Packet, Anything
  <2>2. CASE virtio_net_flush_tx \/ TransmitBegins
    BY Zenon, <2>1, <2>2 DEF virtio_net_flush_tx, TransmitBegins, SendNext, queueVars
  <2>3. CASE TxFlush
    BY Zenon, <2>3 DEF TxFlush, queueVars
  <2>4. CASE qemu_announce_self_iter
    BY ZenonT(30), <2>1, <2>4 DEF qemu_announce_self_iter, queueVars
  <2> QED BY <2>2, <2>3, <2>4 DEF TxStep
<1>7. \/ packets'["tap"] = packets["tap"]
      \/ \E p \in Anything : packets'["tap"] = Append(packets["tap"], p)
      \/ packets["tap"] # <<>> /\ packets'["tap"] = Tail(packets["tap"])
  BY <1>6 DEF qemu_net_queue_append, Types, Clients
<1>8. packets'["tap"] \in Seq(Anything)
  <2>1. packets["tap"] \in Seq(Anything)
    BY DEF Types
  <2>2. CASE \E p \in Anything : packets'["tap"] = Append(packets["tap"], p)
    BY <2>1, <2>2, AppendType
  <2>3. CASE packets["tap"] # <<>> /\ packets'["tap"] = Tail(packets["tap"])
    BY <2>1, <2>3, Pull
  <2> QED BY <1>7, <2>1, <2>2, <2>3
<1>9. DOMAIN packets' = Clients
  BY <1>6 DEF qemu_net_queue_append, Types
<1> QED BY <1>2, <1>3, <1>5, <1>8, <1>9 DEF Types

\* The stack is one of this direction before and after.
LEMMA TxStacksKept ==
  ASSUME RxInv, TxStep
  PROVE  stack \in Seq(TxFrames) /\ stack' \in Seq(TxFrames)
<1>1. {"flush_tx", "tx_flush", "abort"} \subseteq TxFrames
  BY DEF TxFrames
<1>2. <<>> \in Seq(TxFrames) /\ <<"flush_tx">> \in Seq(TxFrames) /\ <<"abort">> \in Seq(TxFrames)
      /\ <<"flush_tx">> # <<>>
  BY <1>1
<1>3. ASSUME NEW s \in Seq(TxFrames), s # <<>>, SendNext(s)
      PROVE  stack' \in Seq(TxFrames)
  <2>1. Tail(s) \in Seq(TxFrames) /\ <<"tx_flush">> \o s \in Seq(TxFrames)
    BY <1>1, <1>3, Push, Pull
  <2> QED BY Zenon, <1>3, <2>1 DEF SendNext
<1>4. CASE virtio_net_flush_tx \/ TxFlush
  <2>1. stack # <<>> /\ stack \in Seq(TxFrames)
    BY Zenon, <1>4, Directions DEF virtio_net_flush_tx, TxFlush, Top, RxInv, TxFrames
  <2>2. Below \in Seq(TxFrames) /\ <<"flush_tx">> \o stack \in Seq(TxFrames)
    BY <1>1, <2>1, Push, Pull DEF Below
  <2>3. CASE virtio_net_flush_tx
    BY <1>3, <2>1, <2>2, <2>3 DEF virtio_net_flush_tx, Return
  <2>4. CASE TxFlush
    BY Zenon, <1>2, <2>1, <2>2, <2>4 DEF TxFlush, Return, virtio_net_tx_complete
  <2> QED BY <1>4, <2>1, <2>3, <2>4
<1>5. CASE TransmitBegins
  BY <1>2, <1>3, <1>5 DEF TransmitBegins, Idle
<1>6. CASE qemu_announce_self_iter
  <2>1. stack = <<>> /\ <<"tx_flush">> \o stack \in Seq(TxFrames)
    BY SMTT(30), <1>1, <1>2, <1>6, Push DEF qemu_announce_self_iter, Idle
  <2> QED BY ZenonT(30), <1>2, <1>6, <2>1 DEF qemu_announce_self_iter, Call
<1> QED BY <1>4, <1>5, <1>6 DEF TxStep

\* Transmission keeps the invariant of the receive direction.
LEMMA TxStepRx ==
  ASSUME Types, RxInv, TxStep
  PROVE  RxInv'
<1>1. ~Delivers(stack) /\ ~Delivers(stack')
  BY SMTT(30), TxStacksKept DEF Delivers, Delivering, TxFrames
<1> QED BY <1>1, TxApart, TxStacksKept DEF RxInv, StackOK

-----------------------------------------------------------------------------
(* The main loop, the machine, the driver and the host *)

OtherStep ==
  \/ LoopStep \/ DriverStep \/ virtio_net_handle_rx \/ StopMachine \/ StartMachine
  \/ (\E c \in Clients : qmp_set_link(c)) \/ PacketArrives \/ HostReads

\* They change neither queue; at most they make the first call of a handler.
StartsRx ==
  /\ stack = <<>> /\ stack' \in {<<"tap_send">>, <<"rx_flush">>} /\ UNCHANGED write_poll
  /\ UNCHANGED receive_disabled \/ Disable("nic", FALSE)
StartsTx == stack = <<>> /\ stack' = <<"tx_flush">> /\ Disable("tap", FALSE)

\* That is all that the main loop, monitor commands, driver and host do here.
LEMMA Elsewhere ==
  ASSUME OtherStep \/ UNCHANGED vars
  PROVE  /\ UNCHANGED <<packets, async_tx, sent, wire, strayed, read, cur, read_poll>>
         /\ UNCHANGED <<stack, receive_disabled, write_poll>> \/ StartsRx \/ StartsTx
<1>1. CASE qemu_iohandler_fill \/ select \/ PollEnds
  BY <1>1 DEF qemu_iohandler_fill, select, PollEnds, LoopKeeps, txVars, queueVars, tapVars
<1>2. CASE PollReads
  <2>1. stack = <<>> => <<"tap_send">> \o stack = <<"tap_send">>
    OBVIOUS
  <2> QED BY <1>2, <2>1 DEF PollReads, Idle, Call, StartsRx, LoopKeeps, txVars, queueVars, tapVars
<1>3. CASE tap_writable
  BY Zenon, <1>3 DEF tap_writable, Idle, qemu_flush_queued_packets, StartsTx, LoopKeeps, txVars
<1>4. CASE DriverStep \/ PacketArrives
  BY <1>4 DEF DriverStep, AddBuffer, Kick, PacketArrives, OutsideKeeps, txVars, queueVars, tapVars
<1>5. CASE virtio_net_handle_rx
  BY Zenon, <1>5 DEF virtio_net_handle_rx, Idle, qemu_flush_queued_packets, StartsRx, RxKeeps, txVars
<1>6. CASE StopMachine
  BY ZenonT(30), <1>6 DEF StopMachine, Idle, StartsRx, MachineKeeps, txVars
<1>7. CASE StartMachine \/ \E c \in Clients : qmp_set_link(c)
  BY <1>7 DEF StartMachine, qmp_set_link, MachineKeeps, txVars
<1>8. CASE HostReads
  BY <1>8 DEF HostReads, queueVars, tapVars
<1>9. CASE UNCHANGED vars
  BY <1>9 DEF vars, txVars, queueVars, tapVars
<1> QED BY SMTT(30), <1>1, <1>2, <1>3, <1>4, <1>5, <1>6, <1>7, <1>8, <1>9 DEF OtherStep, LoopStep

\* They keep the invariant of the receive direction.
LEMMA OtherRx ==
  ASSUME Types, RxInv, OtherStep \/ UNCHANGED vars
  PROVE  Types' /\ RxInv'
<1>1. receive_disabled' \in [Clients -> BOOLEAN]
  BY Zenon, Elsewhere DEF Types, StartsRx, StartsTx, Disable
<1>2. Types'
  BY <1>1, Elsewhere DEF Types
<1>3. CASE UNCHANGED stack
  <2>1. UNCHANGED <<stack, packets, cur, read_poll>>
    BY SMTT(30), <1>3, Elsewhere
  <2> QED BY ZenonT(30), <1>2, <2>1 DEF RxInv
<1>4. CASE StartsRx
  <2>1. stack' \in Seq(RxFrames)
    <3>1. <<"tap_send">> \in Seq(RxFrames) /\ <<"rx_flush">> \in Seq(RxFrames)
      BY DEF RxFrames, Senders
    <3> QED BY ZenonT(30), <1>4, <3>1 DEF StartsRx
  <2>2. ~read_poll => packets["nic"] # <<>>
    BY <1>4 DEF StartsRx, RxInv, Delivers
  <2> QED BY <1>2, <2>1, <2>2, Elsewhere, RxQuiet DEF RxInv
<1>5. CASE StartsTx
  <2>1. stack' \in Seq(TxFrames)
    BY <1>5 DEF StartsTx, TxFrames
  <2>2. ~Delivers(stack')
    BY <2>1 DEF Delivers, Delivering, TxFrames
  <2>3. ~read_poll => packets["nic"] # <<>>
    BY <1>5 DEF StartsTx, RxInv, Delivers
  <2> QED BY Zenon, <1>2, <2>1, <2>2, <2>3, Elsewhere DEF RxInv, StackOK
<1> QED BY SMTT(30), <1>2, <1>3, <1>4, <1>5, Elsewhere

\* Every step is one of these.
LEMMA Steps ==
  ASSUME [Next]_vars
  PROVE  RxStep \/ TxStep \/ (OtherStep \/ UNCHANGED vars)
BY DEF Next, HandlerStep, RxStep, TxStep, OtherStep

-----------------------------------------------------------------------------
(* The tap is polled while packets for it are queued. *)

\* Also in the middle of a handler, unless a call that is in progress will look
\* at the queue; and while the tap refuses packets, if only by being disabled.
Polled ==
  /\ receive_disabled["tap"] => write_poll
  /\ packets["tap"] # <<>> => write_poll \/ Looks(stack)

\* One packet that is sent.
LEMMA SendPolled ==
  ASSUME Types, RxInv, Polled, NEW s \in Seq(TxFrames), s # <<>>, Looks(s) <=> Looks(stack),
         SendNext(s), Head(s) = "flush_tx"
  PROVE  Polled'
<1>1. receive_disabled' = receive_disabled
  BY DEF SendNext
<1>2. write_poll => write_poll'
  BY ZenonT(30) DEF SendNext, tap_write_packet, tapVars
<1>3. CASE packets' = packets /\ stack' = s
  BY <1>1, <1>2, <1>3 DEF Polled
<1>4. CASE ~qemu_can_send_packet("nic")
  <2>1. write_poll
    BY <1>4 DEF qemu_can_send_packet, Peer, Polled
  <2> QED BY <1>1, <1>2, <2>1 DEF Polled
<1>5. ASSUME NEW o \in TapOutcomes(TRUE), tap_write_packet(o, sent'), Refused(o)
      PROVE  Polled'
  <2>1. o = "again"
    BY <1>5 DEF TapOutcomes, Refused
  <2>2. write_poll'
    BY Zenon, <1>5, <2>1 DEF tap_write_packet
  <2> QED BY <2>2 DEF Polled
<1>6. CASE stack' = <<"tx_flush">> \o s
  BY <1>1, <1>2, <1>6, LooksPush DEF Polled
<1> QED BY Zenon, <1>3, <1>4, <1>5, <1>6 DEF SendNext

\* Every step of transmission keeps the tap polled: virtio_net_flush_tx,
\* qemu_net_queue_flush and qemu_announce_self_iter.
LEMMA TxPolled ==
  ASSUME Types, RxInv, Polled, TxStep
  PROVE  Polled'
<1>1. stack \in Seq(TxFrames)
  BY TxStacksKept
<1>2. CASE TransmitBegins
  <2>1. /\ <<"flush_tx">> \in Seq(TxFrames) /\ <<"flush_tx">> # <<>>
        /\ Head(<<"flush_tx">>) = "flush_tx" /\ ~Looks(<<"flush_tx">>)
    BY DEF TxFrames, Looks
  <2>2. ~Looks(stack)
    BY <1>2 DEF TransmitBegins, Idle, Looks
  <2> QED BY Zenon, <1>2, <2>1, <2>2, SendPolled DEF TransmitBegins
<1>3. CASE virtio_net_flush_tx
  <2>1. stack # <<>> /\ Head(stack) = "flush_tx"
    BY <1>3 DEF virtio_net_flush_tx, Top
  <2>2. CASE SendNext(stack)
    BY <1>1, <2>1, <2>2, SendPolled
  <2>3. CASE Return /\ UNCHANGED <<queueVars, tapVars>>
    <3>1. Looks(stack) <=> Looks(stack')
      BY SMTT(30), <1>1, <2>1, <2>3, LooksPull DEF Return, Below
    <3> QED BY <2>3, <3>1 DEF Polled, queueVars, tapVars
  <2> QED BY <1>3, <2>2, <2>3 DEF virtio_net_flush_tx
<1>4. CASE TxFlush
  <2>1. stack # <<>> /\ Head(stack) = "tx_flush" /\ Looks(stack)
    BY <1>1, <1>4, LooksPull DEF TxFlush, Top
  <2>2. CASE packets["tap"] = <<>>
    BY <1>4, <2>2 DEF TxFlush, Polled, queueVars, tapVars
  <2>3. ASSUME NEW o \in TapOutcomes(FALSE), NEW p, tap_write_packet(o, p), Refused(o)
        PROVE  Polled'
    <3>1. write_poll'
      BY Zenon, <2>3 DEF TapOutcomes, Refused, tap_write_packet, Polled
    <3> QED BY SMTT(30), <3>1 DEF Polled
  <2>4. ASSUME NEW o, NEW p, tap_write_packet(o, p), UNCHANGED receive_disabled,
               Looks(stack')
        PROVE  Polled'
    BY Zenon, <2>4 DEF tap_write_packet, Polled
  <2>5. Looks(<<"flush_tx">> \o stack) /\ Looks(<<"abort">>)
    <3>1. DOMAIN <<"abort">> = {1} /\ <<"abort">>[1] = "abort"
      OBVIOUS
    <3> QED BY <1>1, <2>1, <3>1, LooksPush DEF Looks
  <2>6. ASSUME virtio_net_tx_complete \/ UNCHANGED stack PROVE Looks(stack')
    BY Zenon, <2>1, <2>5, <2>6 DEF virtio_net_tx_complete
  <2> QED BY Zenon, <1>4, <2>2, <2>3, <2>4, <2>6 DEF TxFlush
<1>5. CASE qemu_announce_self_iter
  <2>1. ASSUME NEW o \in TapOutcomes(FALSE), tap_write_packet(o, 0), Refused(o)
        PROVE  Polled'
    <3>1. write_poll'
      BY Zenon, <2>1 DEF TapOutcomes, Refused, tap_write_packet, Polled
    <3> QED BY <3>1 DEF Polled
  <2>2. ASSUME NEW o, tap_write_packet(o, 0), Call("tx_flush"), UNCHANGED queueVars
        PROVE  Polled'
    <3>1. Looks(stack')
      BY <1>1, <2>2, LooksPush DEF Call
    <3> QED BY Zenon, <2>2, <3>1 DEF tap_write_packet, queueVars, Polled
  <2>3. ASSUME ~qemu_can_send_packet("nic"), UNCHANGED <<receive_disabled, tapVars>>
        PROVE  Polled'
    BY <2>3 DEF qemu_can_send_packet, Peer, Polled, tapVars
  <2>4. ASSUME UNCHANGED <<queueVars, tapVars, stack>> PROVE Polled'
    BY <2>4 DEF Polled, queueVars, tapVars
  <2> QED BY Zenon, <1>5, <2>1, <2>2, <2>3, <2>4 DEF qemu_announce_self_iter
<1> QED BY <1>2, <1>3, <1>4, <1>5 DEF TxStep

\* So does every other step.
LEMMA StepPolled ==
  ASSUME Types, RxInv, Polled, [Next]_vars
  PROVE  Polled'
<1>1. CASE RxStep
  <2>1. ~Looks(stack)
    BY <1>1, RxStacks, RxBlind
  <2> QED BY <1>1, <2>1, RxApart DEF Polled, Apart
<1>2. CASE TxStep
  BY <1>2, TxPolled
<1>3. CASE OtherStep \/ UNCHANGED vars
  <2>1. UNCHANGED packets
    BY SMTT(30), <1>3, Elsewhere
  <2>2. CASE UNCHANGED <<stack, receive_disabled, write_poll>>
    BY <2>1, <2>2 DEF Polled
  <2>3. CASE StartsRx
    <3>1. receive_disabled'["tap"] = receive_disabled["tap"]
      BY <2>3 DEF StartsRx, Disable, Types, Clients
    <3>2. ~Looks(stack)
      BY <2>3 DEF StartsRx, Looks
    <3> QED BY <2>1, <2>3, <3>1, <3>2 DEF Polled, StartsRx
  <2>4. CASE StartsTx
    <3>1. ~receive_disabled'["tap"]
      BY <2>4 DEF StartsTx, Disable, Types, Clients
    <3>2. Looks(<<"tx_flush">>)
      <4>1. DOMAIN <<"tx_flush">> = {1} /\ <<"tx_flush">>[1] = "tx_flush"
        OBVIOUS
      <4> QED BY <4>1 DEF Looks
    <3> QED BY <2>4, <3>1, <3>2 DEF Polled, StartsTx
  <2> QED BY <1>3, <2>2, <2>3, <2>4, Elsewhere
<1> QED BY SMTT(30), <1>1, <1>2, <1>3, Steps

-----------------------------------------------------------------------------
(* The transmit direction implements the packet service. *)

\* The stacks with virtio_net_flush_tx, and those without.
Flushing == {<<"flush_tx">>, <<"tx_flush", "flush_tx">>, <<"flush_tx", "tx_flush">>,
             <<"tx_flush", "flush_tx", "tx_flush">>}
TxStacks == Flushing \cup {<<"tx_flush">>, <<"abort">>}

\* At most one packet is queued for the tap, and the NIC waits for it; then
\* virtio_net_flush_tx is not running.  The tap is disabled only in between
\* its own handlers, with a packet queued.
Awaited ==
  /\ stack \in TxStacks \/ RxStack(stack)
  /\ \/ packets["tap"] = <<>> /\ async_tx = <<>>
     \/ \E n \in Nat : packets["tap"] = <<Packet(n, 1, TRUE)>> /\ async_tx = <<n>>
  /\ receive_disabled["tap"] => async_tx # <<>> /\ RxStack(stack)
  /\ stack \in Flushing => async_tx = <<>>

\* Short sequences, put together.
LEMMA Two ==
  ASSUME NEW a, NEW b
  PROVE  <<a>> \o <<b>> = <<a, b>>
<1>1. Len(<<a>> \o <<b>>) = 2 /\ Len(<<a, b>>) = 2
  OBVIOUS
<1>2. \A i \in 1..2 : (<<a>> \o <<b>>)[i] = <<a, b>>[i]
  OBVIOUS
<1>3. <<a>> \o <<b>> \in Seq({a, b}) /\ <<a, b>> \in Seq({a, b})
  OBVIOUS
<1> QED BY Zenon, <1>1, <1>2, <1>3, SeqEqual

\* The same for three calls.
LEMMA Three ==
  ASSUME NEW a, NEW b, NEW c
  PROVE  <<a>> \o <<b, c>> = <<a, b, c>>
<1>1. Len(<<a>> \o <<b, c>>) = 3 /\ Len(<<a, b, c>>) = 3
  OBVIOUS
<1>2. \A i \in 1..3 : (<<a>> \o <<b, c>>)[i] = <<a, b, c>>[i]
  OBVIOUS
<1>3. <<a>> \o <<b, c>> \in Seq({a, b, c}) /\ <<a, b, c>> \in Seq({a, b, c})
  OBVIOUS
<1> QED BY Zenon, <1>1, <1>2, <1>3, SeqEqual

\* A packet appended to an empty queue.
LEMMA One ==
  ASSUME NEW a
  PROVE  Append(<<>>, a) = <<a>>
OBVIOUS

\* The stacks of this direction, one call more or less.
LEMMA Concrete ==
  /\ Tail(<<"flush_tx">>) = <<>> /\ Tail(<<"tx_flush">>) = <<>>
  /\ Tail(<<"flush_tx", "tx_flush">>) = <<"tx_flush">>
  /\ Tail(<<"tx_flush", "flush_tx">>) = <<"flush_tx">>
  /\ Tail(<<"tx_flush", "flush_tx", "tx_flush">>) = <<"flush_tx", "tx_flush">>
  /\ <<"tx_flush">> \o <<"flush_tx">> = <<"tx_flush", "flush_tx">>
  /\ <<"tx_flush">> \o <<"flush_tx", "tx_flush">> = <<"tx_flush", "flush_tx", "tx_flush">>
  /\ <<"flush_tx">> \o <<"tx_flush">> = <<"flush_tx", "tx_flush">>
  /\ <<"tx_flush">> \o <<>> = <<"tx_flush">>
<1>1. /\ Tail(<<"flush_tx">>) = <<>> /\ Tail(<<"tx_flush">>) = <<>>
  OBVIOUS
<1>2. Tail(<<"flush_tx", "tx_flush">>) = <<"tx_flush">>
  OBVIOUS
<1>3. Tail(<<"tx_flush", "flush_tx">>) = <<"flush_tx">>
  OBVIOUS
<1>4. Tail(<<"tx_flush", "flush_tx", "tx_flush">>) = <<"flush_tx", "tx_flush">>
  OBVIOUS
<1>5. <<"tx_flush">> \o <<"flush_tx">> = <<"tx_flush", "flush_tx">>
  BY Two
<1>6. <<"tx_flush">> \o <<"flush_tx", "tx_flush">> = <<"tx_flush", "flush_tx", "tx_flush">>
  BY Three
<1>7. <<"flush_tx">> \o <<"tx_flush">> = <<"flush_tx", "tx_flush">>
  BY Two
<1>8. <<"tx_flush">> \o <<>> = <<"tx_flush">>
  OBVIOUS
<1> QED BY SMTT(30), <1>1, <1>2, <1>3, <1>4, <1>5, <1>6, <1>7, <1>8

\* Which of them have which call on top; none of them is of the other direction.
LEMMA Tops ==
  ASSUME NEW s, s \in TxStacks \/ RxStack(s), s # <<>>
  PROVE  /\ Head(s) = "flush_tx" => s \in {<<"flush_tx">>, <<"flush_tx", "tx_flush">>}
         /\ Head(s) = "tx_flush" => s \in {<<"tx_flush">>, <<"tx_flush", "flush_tx">>,
                                           <<"tx_flush", "flush_tx", "tx_flush">>}
<1>1. CASE RxStack(s)
  BY <1>1 DEF RxStack, RxFrames, Senders, Delivering
<1>2. CASE s \in TxStacks
  <2>1. /\ Head(<<"flush_tx">>) = "flush_tx" /\ Head(<<"tx_flush">>) = "tx_flush"
        /\ Head(<<"flush_tx", "tx_flush">>) = "flush_tx"
        /\ Head(<<"tx_flush", "flush_tx">>) = "tx_flush"
        /\ Head(<<"tx_flush", "flush_tx", "tx_flush">>) = "tx_flush"
        /\ Head(<<"abort">>) = "abort"
    OBVIOUS
  <2> QED BY <1>2, <2>1 DEF TxStacks, Flushing
<1> QED BY <1>1, <1>2

\* The empty stack counts as one of the receive direction.
LEMMA NoCalls ==
  /\ RxStack(<<>>) /\ <<>> \notin Flushing
  /\ <<"tx_flush">> \notin Flushing /\ <<"abort">> \notin Flushing
  /\ \A s \in TxStacks : ~RxStack(s)
<1>1. RxStack(<<>>)
  <2>1. <<>> \in Seq(RxFrames)
    OBVIOUS
  <2> QED BY Zenon, <2>1, PlainStack
<1>2. <<>> \notin Flushing /\ <<"tx_flush">> \notin Flushing /\ <<"abort">> \notin Flushing
  BY DEF Flushing
<1>3. ASSUME NEW s \in TxStacks PROVE ~RxStack(s)
  <2>1. s[1] \in TxFrames /\ 1 \in DOMAIN s
    BY DEF TxStacks, Flushing, TxFrames
  <2> QED BY <2>1 DEF RxStack, TxFrames, RxFrames, Senders, Delivering
<1> QED BY <1>1, <1>2, <1>3

ServiceStep == Service!PassOn \/ Service!Keep \/ Service!Complete \/ UNCHANGED Service!vars

\* One packet that is sent, by either caller.
LEMMA SendAwaited ==
  ASSUME Types, async_tx = <<>>, packets["tap"] = <<>>, ~receive_disabled["tap"],
         NEW s \in {<<"flush_tx">>, <<"flush_tx", "tx_flush">>}, SendNext(s)
  PROVE  Awaited' /\ ServiceStep
<1>1. s \in Flushing /\ <<"tx_flush">> \o s \in Flushing
  BY Zenon, Concrete DEF Flushing
<1>2. Tail(s) = <<>> \/ Tail(s) = <<"tx_flush">>
  BY ZenonT(30), Concrete
<1>3. sent' = sent + 1 /\ receive_disabled' = receive_disabled /\ sent' \in Nat
  <2>1. sent' = sent + 1 /\ receive_disabled' = receive_disabled
    BY Zenon DEF SendNext
  <2> QED BY <2>1 DEF Types
<1>4. CASE stack' \in Flushing /\ UNCHANGED <<packets, async_tx>>
  <2>1. Awaited'
    BY SMTT(30), <1>3, <1>4 DEF Awaited, TxStacks
  <2>2. wire' \in {wire, Append(wire, sent')}
    <3>1. wire' = wire \/ \E o : tap_write_packet(o, sent')
      BY ZenonT(30) DEF SendNext
    <3> QED BY SMTT(30), <3>1 DEF tap_write_packet
  <2> QED BY SMTT(30), <1>3, <1>4, <2>1, <2>2 DEF ServiceStep, Service!PassOn, Service!Leaves
<1>5. ASSUME NEW o, Refused(o), tap_write_packet(o, sent'), async_tx' = <<sent'>>, stack' = Tail(s),
             qemu_net_queue_append("tap", Packet(sent', 1, TRUE))
      PROVE  Awaited' /\ ServiceStep
  <2>1. packets'["tap"] = <<Packet(sent', 1, TRUE)>>
    <3>1. packets'["tap"] = Append(packets["tap"], Packet(sent', 1, TRUE))
      BY Zenon, <1>5 DEF qemu_net_queue_append, Types, Clients
    <3> QED BY <3>1, One
  <2>2. Awaited'
    BY Zenon, <1>2, <1>3, <1>5, <2>1, NoCalls DEF Awaited, TxStacks
  <2>3. wire' = wire
    BY <1>5 DEF tap_write_packet, Refused
  <2> QED BY SMTT(30), <1>3, <1>5, <2>2, <2>3 DEF ServiceStep, Service!Keep
<1>6. qemu_can_send_packet("nic")
  BY DEF qemu_can_send_packet, Peer
<1> QED BY Zenon, <1>1, <1>4, <1>5, <1>6 DEF SendNext

\* The queue for the tap is flushed.
LEMMA FlushAwaited ==
  ASSUME Types, Awaited, TxFlush
  PROVE  Awaited' /\ ServiceStep
<1>1. stack \in {<<"tx_flush">>, <<"tx_flush", "flush_tx">>, <<"tx_flush", "flush_tx", "tx_flush">>}
  BY Tops DEF TxFlush, Top, Awaited
<1>2. sent' = sent
  BY SMTT(30) DEF TxFlush
<1>3. stack \in TxStacks /\ ~RxStack(stack) /\ ~receive_disabled["tap"]
  BY <1>1, NoCalls DEF TxStacks, Flushing, Awaited
<1>4. CASE packets["tap"] = <<>>
  <2>1. Return /\ UNCHANGED <<packets, receive_disabled, async_tx, wire>>
    BY <1>4 DEF TxFlush, queueVars
  <2>2. stack' \in {<<>>, <<"flush_tx">>, <<"flush_tx", "tx_flush">>}
    BY ZenonT(30), <1>1, <2>1, Concrete DEF Return, Below
  <2>3. async_tx = <<>>
    <3>1. \A n : <<Packet(n, 1, TRUE)>> # <<>>
      OBVIOUS
    <3> QED BY <1>4, <3>1 DEF Awaited
  <2>4. stack' \in TxStacks \/ RxStack(stack')
    BY SMTT(30), <2>2, NoCalls DEF TxStacks, Flushing
  <2>5. Awaited'
    BY SMTT(30), <1>3, <1>4, <2>1, <2>3, <2>4 DEF Awaited
  <2>6. strayed' = strayed
    BY DEF TxFlush
  <2> QED BY SMTT(30), <1>2, <2>1, <2>5, <2>6 DEF ServiceStep, Service!vars
<1>5. CASE packets["tap"] # <<>>
  <2>1. PICK n \in Nat : packets["tap"] = <<Packet(n, 1, TRUE)>> /\ async_tx = <<n>>
    BY ZenonT(30), <1>5 DEF Awaited
  <2>2. stack = <<"tx_flush">>
    <3>1. <<n>> # <<>>
      OBVIOUS
    <3> QED BY <1>1, <2>1, <3>1 DEF Awaited, Flushing
  <2>3. Head(packets["tap"]) = Packet(n, 1, TRUE) /\ Tail(packets["tap"]) = <<>>
    BY <2>1
  <2>4. Packet(n, 1, TRUE).id = n /\ Packet(n, 1, TRUE).cb = TRUE
    BY DEF Packet
  <2>5. PICK o \in TapOutcomes(FALSE) :
          /\ tap_write_packet(o, n)
          /\ IF Refused(o)
               THEN Disable("tap", TRUE) /\ Return /\ UNCHANGED <<packets, async_tx>>
               ELSE /\ packets' = [packets EXCEPT !["tap"] = Tail(@)]
                    /\ virtio_net_tx_complete /\ UNCHANGED receive_disabled
    BY ZenonT(30), <1>5, <2>3, <2>4 DEF TxFlush
  <2>6. CASE Refused(o)
    <3>1. stack' = <<>> /\ UNCHANGED <<packets, async_tx>>
      BY SMTT(30), <2>2, <2>5, <2>6, Concrete DEF Return, Below
    <3>2. wire' = wire
      BY <2>5, <2>6 DEF tap_write_packet, Refused
    <3>3. async_tx' # <<>>
      BY SMTT(30), <2>1, <3>1
    <3>4. Awaited'
      BY Zenon, <2>1, <3>1, <3>3, NoCalls DEF Awaited
    <3>5. strayed' = strayed
      BY DEF TxFlush
    <3> QED BY SMTT(30), <1>2, <3>1, <3>2, <3>4, <3>5 DEF ServiceStep, Service!vars
  <2>7. CASE ~Refused(o)
    <3>1. packets'["tap"] = <<>>
      BY ZenonT(30), <2>3, <2>5, <2>7 DEF Types, Clients
    <3>2. async_tx' = <<>> /\ stack' \in {<<"flush_tx", "tx_flush">>, <<"abort">>}
      BY SMTT(30), <2>2, <2>5, <2>7, Concrete DEF virtio_net_tx_complete
    <3>3. Awaited'
      BY <1>3, <2>5, <2>7, <3>1, <3>2 DEF Awaited, TxStacks, Flushing
    <3>4. wire' \in {wire, Append(wire, n)}
      BY <2>5 DEF tap_write_packet
    <3>5. async_tx # <<>> /\ async_tx[1] = n
      BY <2>1
    <3> QED BY <1>2, <3>2, <3>3, <3>4, <3>5 DEF ServiceStep, Service!Complete, Service!Leaves
  <2> QED BY SMTT(30), <2>6, <2>7
<1> QED BY SMTT(30), <1>4, <1>5

\* Every step of transmission that queues no packet without callback is a step
\* of the packet service.
LEMMA TxAwaited ==
  ASSUME Types, RxInv, Awaited, TxStep, ~strayed'
  PROVE  Awaited' /\ ServiceStep
<1>1. ASSUME async_tx = <<>> PROVE packets["tap"] = <<>> /\ ~receive_disabled["tap"]
  <2>1. \A n : <<n>> # <<>>
    OBVIOUS
  <2> QED BY <1>1, <2>1 DEF Awaited
<1>2. CASE TransmitBegins
  BY <1>1, <1>2, SendAwaited DEF TransmitBegins
<1>3. CASE virtio_net_flush_tx
  <2>1. stack \in {<<"flush_tx">>, <<"flush_tx", "tx_flush">>} /\ stack \in Flushing
    BY SMTT(30), <1>3, Tops DEF virtio_net_flush_tx, Top, Awaited, Flushing
  <2>2. async_tx = <<>>
    BY <2>1 DEF Awaited
  <2>3. CASE SendNext(stack)
    BY <1>1, <2>1, <2>2, <2>3, SendAwaited
  <2>4. CASE Return /\ UNCHANGED <<queueVars, txVars>>
    <3>1. stack' \in {<<>>, <<"tx_flush">>}
      BY ZenonT(30), <2>1, <2>4, Concrete DEF Return, Below
    <3>2. UNCHANGED <<packets, receive_disabled, async_tx, sent, wire, strayed>>
      BY SMTT(30), <2>4 DEF queueVars, txVars
    <3>3. Awaited'
      BY <1>1, <2>2, <3>1, <3>2, NoCalls DEF Awaited, TxStacks
    <3> QED BY <3>2, <3>3 DEF ServiceStep, Service!vars
  <2> QED BY SMTT(30), <1>3, <2>3, <2>4 DEF virtio_net_flush_tx
<1>4. CASE TxFlush
  BY SMTT(30), <1>4, FlushAwaited
<1>5. CASE qemu_announce_self_iter
  <2>1. /\ UNCHANGED <<queueVars, strayed, async_tx, sent>>
        /\ UNCHANGED <<stack, wire>> \/ \E o : tap_write_packet(o, 0) /\ Call("tx_flush")
        /\ UNCHANGED stack \/ qemu_can_send_packet("nic")
    BY Zenon, <1>5 DEF qemu_announce_self_iter
  <2>2. stack = <<>> /\ wire' = wire
    BY <1>5, <2>1 DEF qemu_announce_self_iter, Idle, tap_write_packet
  <2>3. stack' = <<>> \/ stack' = <<"tx_flush">>
    BY <2>1, <2>2, Concrete DEF Call
  <2>4. stack' = <<"tx_flush">> => ~receive_disabled["tap"]
    <3>1. <<"tx_flush">> # <<>>
      BY SMTT(30)
    <3> QED BY <2>1, <2>2, <3>1 DEF qemu_can_send_packet, Peer
  <2>5. Awaited'
    BY Zenon, <2>1, <2>2, <2>3, <2>4, NoCalls DEF Awaited, TxStacks, queueVars
  <2> QED BY SMTT(30), <2>1, <2>2, <2>5 DEF ServiceStep, Service!vars
<1> QED BY SMTT(30), <1>2, <1>3, <1>4, <1>5 DEF TxStep

\* Steps of the others leave the queue and the service alone.
LEMMA ApartAwaited ==
  ASSUME Types, RxInv, Awaited, RxStep \/ OtherStep \/ UNCHANGED vars
  PROVE  Awaited' /\ ServiceStep
<1>1. CASE RxStep
  <2>1. Apart /\ RxStack(stack) /\ RxStack(stack')
    BY <1>1, RxApart, RxStacks
  <2>2. stack' \notin Flushing
    BY SMTT(30), <2>1, NoCalls DEF TxStacks
  <2>3. Awaited'
    BY Zenon, <2>1, <2>2 DEF Awaited, Apart
  <2> QED BY <2>1, <2>3 DEF Apart, ServiceStep, Service!vars
<1>2. CASE OtherStep \/ UNCHANGED vars
  <2>1. UNCHANGED <<packets, async_tx, sent, wire, strayed>>
    BY <1>2, Elsewhere
  <2>2. CASE UNCHANGED <<stack, receive_disabled>>
    BY Zenon, <2>1, <2>2 DEF Awaited, ServiceStep, Service!vars
  <2>3. CASE StartsRx
    <3>1. <<"tap_send">> \in Seq(RxFrames) /\ <<"rx_flush">> \in Seq(RxFrames)
      BY DEF RxFrames, Senders
    <3>2. RxStack(stack')
      BY Zenon, <2>3, <3>1, PlainStack DEF StartsRx
    <3>3. receive_disabled'["tap"] = receive_disabled["tap"]
      BY <2>3 DEF StartsRx, Disable, Types, Clients
    <3>4. stack' \notin Flushing
      BY <3>2, NoCalls DEF TxStacks
    <3> QED BY Zenon, <2>1, <3>2, <3>3, <3>4 DEF Awaited, ServiceStep, Service!vars
  <2>4. CASE StartsTx
    <3>1. ~receive_disabled'["tap"]
      BY <2>4 DEF StartsTx, Disable, Types, Clients
    <3>2. stack' = <<"tx_flush">> /\ stack' \in TxStacks /\ stack' \notin Flushing
      BY <2>4, NoCalls DEF StartsTx, TxStacks
    <3> QED BY ZenonT(30), <2>1, <3>1, <3>2 DEF Awaited, ServiceStep, Service!vars
  <2> QED BY <1>2, <2>2, <2>3, <2>4, Elsewhere
<1> QED BY <1>1, <1>2

\* Once a packet without callback has been queued, that remains so.
LEMMA StrayedStays ==
  ASSUME Types, [Next]_vars
  PROVE  strayed' = strayed \/ strayed'
<1>1. CASE RxStep
  BY <1>1, RxApart DEF Apart
<1>2. CASE TxStep
  BY ZenonT(30), <1>2 DEF TxStep, virtio_net_flush_tx, TransmitBegins, TxFlush, qemu_announce_self_iter,
              SendNext, txVars
<1>3. CASE OtherStep \/ UNCHANGED vars
  BY <1>3, Elsewhere
<1> QED BY <1>1, <1>2, <1>3, Steps

-----------------------------------------------------------------------------
(* Theorems *)

IInv == Types /\ RxInv /\ Polled /\ (strayed \/ Awaited)

\* The queues are empty and the tap reads when it is opened.
LEMMA InitIInv ==
  ASSUME Init
  PROVE  IInv
<1>1. stack = <<>> /\ <<>> \in Seq(Awaiting) /\ <<>> \in Seq(Anything)
  BY DEF Init
<1>2. packets["nic"] = <<>> /\ packets["tap"] = <<>> /\ ~receive_disabled["tap"]
  BY DEF Init, Clients
<1>3. Types
  BY <1>1, <1>2 DEF Init, Types, Clients
<1>4. RxStack(stack) /\ stack \notin Flushing /\ ~Delivers(stack)
  BY SMTT(30), <1>1, NoCalls DEF Delivers
<1>5. RxInv
  BY ZenonT(30), <1>1, <1>2, <1>4 DEF Init, RxInv, StackOK
<1>6. Polled /\ Awaited
  BY <1>2, <1>4 DEF Init, Polled, Awaited
<1> QED BY SMTT(30), <1>3, <1>5, <1>6 DEF IInv

\* Every step keeps the invariant, and is a step of the packet service.
LEMMA StepIInv ==
  ASSUME IInv, [Next]_vars
  PROVE  IInv' /\ [Service!Next]_(Service!vars)
<1> USE DEF IInv
<1>1. Types' /\ RxInv'
  BY SMTT(30), Steps, RxApart, RxStepRx, TxQueue, TxStepRx, OtherRx
<1>2. Polled'
  BY StepPolled
<1>3. CASE strayed'
  BY <1>1, <1>2, <1>3 DEF Service!Next
<1>4. CASE ~strayed'
  <2>1. strayed' = strayed
    BY <1>4, StrayedStays
  <2>2. ~strayed
    BY <1>4, <2>1
  <2>3. Awaited' /\ ServiceStep
    BY <1>4, <2>2, Steps, TxAwaited, ApartAwaited
  <2> QED BY SMTT(30), <1>1, <1>2, <1>4, <2>2, <2>3 DEF ServiceStep, Service!Next
<1> QED BY <1>3, <1>4

\* The invariant: types, no packet that nobody will look at again, and a NIC
\* that waits for the only packet in the queue of the tap.
THEOREM QueuesSafe == Spec => []IInv
<1>1. Init => IInv
  BY InitIInv
<1>2. IInv /\ [Next]_vars => IInv'
  BY StepIInv
<1> QED BY <1>1, <1>2, PTL DEF Spec

\* The tap never stops reading without one of its packets in the queue of the
\* NIC, so that tap_send_completed will be called.
THEOREM PausedCorrect == Spec => []PausedIsQueued
<1>1. IInv => PausedIsQueued
  BY SMTT(30) DEF IInv, RxInv, PausedIsQueued, Idle, Delivers
<1> QED BY <1>1, QueuesSafe, PTL

\* The tap polls its descriptor whenever packets for it are queued, whoever has
\* sent them, and whatever handler has left them there.
THEOREM PolledCorrect == Spec => []QueuedIsPolled
<1>1. IInv => QueuedIsPolled
  BY DEF IInv, Polled, QueuedIsPolled, Idle, Looks
<1> QED BY <1>1, QueuesSafe, PTL

\* Packets from the NIC leave in order and once each, and its sent callback is
\* called for the packet it waits for, unless qemu_send_packet has been queued.
THEOREM PacketServiceCorrect == Spec => ImplementsPacketService
<1>1. Init => Service!Init
  BY DEF Init, Service!Init
<1>2. IInv /\ [Next]_vars => [Service!Next]_(Service!vars)
  BY StepIInv
<1> QED BY <1>1, <1>2, QueuesSafe, PTL DEF Spec, ImplementsPacketService, Service!Spec
=============================================================================
