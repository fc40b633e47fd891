---------------------------- MODULE DiskService ----------------------------
(***************************************************************************)
(* What a block device promises.  A request takes effect at one moment     *)
(* between call and answer.  A read returns what was last written.  Only   *)
(* writes change the disk, and only the sectors they were asked to; one    *)
(* that fails may have changed some of them.                               *)
(***************************************************************************)
CONSTANTS Reqs, Sectors

VARIABLES
  disk,   \* the contents of each sector
  op,     \* of each request: is it a write, where, and of what
  phase,  \* none, called, applied, ok or error
  data    \* what a read has returned

vars == <<disk, op, phase, data>>

Init ==
  /\ disk = [s \in Sectors |-> 0]
  /\ phase = [r \in Reqs |-> "none"]

Move(r, p) == phase' = [phase EXCEPT ![r] = p]

Call(r) ==
  /\ phase[r] = "none" /\ Move(r, "called")
  /\ \A q \in Reqs \ {r} : op'[q] = op[q]
  /\ UNCHANGED <<disk, data>>

Read(r) ==
  /\ phase[r] = "called" /\ ~op[r].write /\ Move(r, "ok")
  /\ data' = [data EXCEPT ![r] = [s \in op[r].sectors |-> disk[s]]]
  /\ UNCHANGED <<disk, op>>

Put(W, v) == disk' = [s \in Sectors |-> IF s \in W THEN v ELSE disk[s]]

Write(r) ==
  /\ phase[r] = "called" /\ op[r].write
  /\ Move(r, "applied") \/ Move(r, "ok")
  /\ Put(op[r].sectors, op[r].value)
  /\ UNCHANGED <<op, data>>

WriteFails(r) ==
  /\ phase[r] = "called" /\ op[r].write /\ Move(r, "error")
  /\ \E W \in SUBSET op[r].sectors : Put(W, op[r].value)
  /\ UNCHANGED <<op, data>>

ReadFails(r) ==
  /\ phase[r] = "called" /\ ~op[r].write /\ Move(r, "error")
  /\ UNCHANGED <<disk, op, data>>

Answer(r) ==
  /\ phase[r] = "applied" /\ (Move(r, "ok") \/ Move(r, "error"))
  /\ UNCHANGED <<disk, op, data>>

Next == \E r \in Reqs : Call(r) \/ Read(r) \/ Write(r) \/ WriteFails(r)
                          \/ ReadFails(r) \/ Answer(r)

Spec == Init /\ [][Next]_vars
=============================================================================
