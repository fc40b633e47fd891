------------------------- MODULE VirtioNetTxProofs -------------------------
(***************************************************************************)
(* Two invariants of virtio-net's transmit path, for any ring size, index  *)
(* width, burst and set of features.  Neither is inductive: what the main  *)
(* loop may rely on depends on the function the device has come from.      *)
(***************************************************************************)
EXTENDS VirtioNetTx, TLAPS

\* The device is in virtio_net_tx_bh only while the machine runs, and in no
\* function when it is idle.
Running ==
  /\ {tx_waiting, armed, vm_running, link_up} \subseteq BOOLEAN
  /\ ctx \in {"bh", "bh_again"} => vm_running
  /\ pc = "idle" => ctx = "none"

WaitInv == WaitingIsArmed /\ Running

\* Mutedness, which virtio_queue_set_notification(FALSE) establishes.
Muted == ~notification /\ (EventIdx \/ no_notify)

\* A packet is kept only outside the loop of virtio_net_flush_tx, and whoever
\* returns from there with one has muted the driver.
BusyInv ==
  /\ ctx = "async" => pc \in {"push", "notify", "return"}
  /\ async_tx # <<>> /\ ctx # "async" =>
       /\ pc \in {"idle", "flush", "read_idx", "publish", "return", "abort"}
       /\ pc \in {"idle", "return"} => Muted
       /\ pc \in {"read_idx", "publish"} => elem = <<>>

-----------------------------------------------------------------------------
\* Initially nobody waits and nothing is kept.
LEMMA InitInv == Init => WaitInv /\ BusyInv
  BY DEF Init, WaitInv, WaitingIsArmed, Running, BusyInv

\* Every step keeps tx_waiting and the bottom half or timer in agreement.
LEMMA WaitStep == WaitInv /\ [Next]_vars => WaitInv'
<1> SUFFICES ASSUME WaitInv, [Next]_vars PROVE WaitInv'
  OBVIOUS
<1> DEFINE Same == UNCHANGED <<tx_waiting, armed, vm_running, link_up>>
<1>1. ASSUME Same, ctx' \in {"bh", "bh_again"} => ctx \in {"bh", "bh_again"},
             pc' = "idle" => ctx' = "none"
      PROVE  WaitInv'
  BY <1>1 DEF WaitInv, WaitingIsArmed, Running
<1>2. CASE DriverStep
  BY <1>2, <1>1 DEF DriverStep, ctlVars, locals, WaitInv, Running
<1>3. CASE virtio_net_flush_tx
  BY <1>3, <1>1 DEF virtio_net_flush_tx, FlushKeeps, DeviceKeeps, locals
<1>4. CASE Pop
  BY <1>4, <1>1 DEF Pop, FlushKeeps, DeviceKeeps
<1>5. CASE ReadIdx \/ PublishEvent
  BY <1>5, <1>1 DEF ReadIdx, PublishEvent, FlushKeeps, DeviceKeeps
<1>6. CASE Send \/ Push
  BY <1>6, <1>1 DEF Send, Push, FlushKeeps, DeviceKeeps
<1>7. CASE Notify
  <2>1. Same /\ ctx' = ctx
    BY <1>7 DEF Notify, FlushKeeps, DeviceKeeps
  <2>2. pc' # "idle"
    BY <1>7 DEF Notify
  <2> QED BY <2>1, <2>2, <1>1
<1>8. CASE BhBurst \/ BhFound
  BY <1>8 DEF BhBurst, BhFound, Return, Arm, GoIdle, DeviceKeeps, WaitInv,
              WaitingIsArmed, Running
<1>9. CASE BhAgain \/ Completed
  BY <1>9, <1>1 DEF BhAgain, Completed, Return, Call, DeviceKeeps
<1>10. CASE BhDone \/ Ignore
  BY <1>10, <1>1 DEF BhDone, Ignore, Return, GoIdle, DeviceKeeps
<1>11. CASE HandleKick
  BY <1>11 DEF HandleKick, virtio_net_handle_tx_bh, virtio_net_handle_tx_timer, Arm, Call,
               DeviceKeeps, locals, WaitInv, WaitingIsArmed, Running
<1>12. CASE RunArmed
  BY <1>12 DEF RunArmed, Call, DeviceKeeps, WaitInv, WaitingIsArmed, Running
<1>13. CASE virtio_net_tx_complete
  BY <1>13, <1>1 DEF virtio_net_tx_complete, DeviceKeeps
<1>14. CASE StopMachine \/ StartMachine \/ virtio_net_set_link_status
  <2> USE DEF WaitInv, WaitingIsArmed, Running
  <2>1. pc' = pc /\ ctx' = ctx /\ pc = "idle"
    BY <1>14 DEF StopMachine, StartMachine, virtio_net_set_link_status, MachineKeeps, locals
  <2>2. CASE StopMachine
    BY <2>1, <2>2 DEF StopMachine, virtio_net_set_status
  <2>3. CASE StartMachine
    BY <2>1, <2>3 DEF StartMachine, virtio_net_set_status
  <2>4. CASE virtio_net_set_link_status
    BY <2>1, <2>4 DEF virtio_net_set_link_status, virtio_net_set_status
  <2> QED BY <1>14, <2>2, <2>3, <2>4
<1>15. CASE UNCHANGED vars
  BY <1>15, <1>1 DEF vars, ctlVars, locals, WaitInv, Running
<1> QED BY <1>2, <1>3, <1>4, <1>5, <1>6, <1>7, <1>8, <1>9, <1>10, <1>11, <1>12, <1>13,
           <1>14, <1>15 DEF Next, FlushStep

\* What virtio_queue_set_notification(FALSE) achieves.
LEMMA SetNotificationMutes ==
  ASSUME virtio_queue_set_notification(FALSE), UNCHANGED features
  PROVE  Muted'
  BY DEF virtio_queue_set_notification, Muted, EventIdx

\* The driver stays muted while nobody calls virtio_queue_set_notification.
LEMMA StaysMuted ==
  ASSUME Muted, UNCHANGED noteVars, UNCHANGED features
  PROVE  Muted'
  BY DEF noteVars, Muted, EventIdx

\* Every step keeps the driver muted while the backend keeps a packet.
LEMMA BusyStep == WaitInv /\ BusyInv /\ [Next]_vars => BusyInv'
<1> SUFFICES ASSUME WaitInv, BusyInv, [Next]_vars PROVE BusyInv'
  OBVIOUS
<1>0. pc = "idle" => ctx = "none"
  BY DEF WaitInv, Running
<1> USE SetNotificationMutes, StaysMuted DEF BusyInv
<1>1. CASE DriverStep
  <2>1. UNCHANGED <<features, noteVars>>
    BY <1>1 DEF DriverStep, DriverNext, Add, Kick, Reclaim, EnableInterrupt, Recheck,
                Interrupt, DriverKeeps
  <2> QED BY <1>1, <2>1 DEF DriverStep, ctlVars, locals
<1>2. CASE virtio_net_flush_tx
  BY <1>2 DEF virtio_net_flush_tx, FlushKeeps, DeviceKeeps, locals
<1>3. CASE Pop
  BY <1>3 DEF Pop, FlushKeeps, DeviceKeeps
<1>4. CASE ReadIdx \/ PublishEvent
  BY <1>4 DEF ReadIdx, PublishEvent, FlushKeeps, DeviceKeeps
<1>5. CASE Send
  BY <1>5 DEF Send, FlushKeeps, DeviceKeeps
<1>6. CASE Push \/ Notify
  BY <1>6 DEF Push, Notify, FlushKeeps, DeviceKeeps
<1>7. CASE BhBurst \/ BhFound \/ BhAgain \/ BhDone \/ Ignore \/ Completed
  BY <1>7 DEF BhBurst, BhFound, BhAgain, BhDone, Ignore, Completed, Return, GoIdle, Call,
              DeviceKeeps
<1>8. CASE HandleKick
  BY <1>0, <1>8 DEF HandleKick, virtio_net_handle_tx_bh, virtio_net_handle_tx_timer, Arm,
              Call, DeviceKeeps, MainKeeps, locals
<1>9. CASE RunArmed
  BY <1>0, <1>9 DEF RunArmed, Call, DeviceKeeps, MainKeeps
<1>10. CASE virtio_net_tx_complete
  BY <1>10 DEF virtio_net_tx_complete
<1>11. CASE StopMachine \/ StartMachine \/ virtio_net_set_link_status
  BY <1>11 DEF StopMachine, StartMachine, virtio_net_set_link_status, MachineKeeps,
               MainKeeps, locals
<1>12. CASE UNCHANGED vars
  BY <1>12 DEF vars, queueVars, ctlVars, locals
<1> QED BY <1>1, <1>2, <1>3, <1>4, <1>5, <1>6, <1>7, <1>8, <1>9, <1>10, <1>11, <1>12
        DEF Next, FlushStep

\* The inductive invariants hold in every reachable state.
LEMMA InductiveInv == Spec => [](WaitInv /\ BusyInv)
<1>1. WaitInv /\ BusyInv /\ [Next]_vars => (WaitInv /\ BusyInv)'
  BY WaitStep, BusyStep
<1> QED BY <1>1, InitInv, PTL DEF Spec

-----------------------------------------------------------------------------
\* tx_waiting and the bottom half or timer agree, whenever the machine stops
\* and goes on and the link fails and comes back (virtio_net_set_status).
THEOREM WaitingCorrect == Spec => []WaitingIsArmed
<1>1. WaitInv => WaitingIsArmed
  BY DEF WaitInv
<1> QED BY <1>1, InductiveInv, PTL

\* While the backend keeps a packet and the main loop runs, the driver is
\* asked not to kick (virtio_net_flush_tx, virtio_net_tx_complete).
THEOREM BusyCorrect == Spec => []BusyIsMuted
<1>1. WaitInv /\ BusyInv => BusyIsMuted
  BY DEF WaitInv, Running, BusyInv, BusyIsMuted, Muted
<1> QED BY <1>1, InductiveInv, PTL
=============================================================================
