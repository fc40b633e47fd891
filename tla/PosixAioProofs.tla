--------------------------- MODULE PosixAioProofs ---------------------------
(***************************************************************************)
(* The invariants of the AIO thread pool, for any number of requests,      *)
(* threads, nested handlers and any pipe capacity.  TypeOK, PoolAccounting *)
(* and Ownership are inductive only together: the counters stay natural    *)
(* numbers because they count threads, and an unlinked request was linked  *)
(* because of Ownership.                                                   *)
(***************************************************************************)
EXTENDS PosixAioPool, PosixAioOwnership

\* How long a prover may take for a leaf.
USE SMTT(15), ZenonT(20)

-----------------------------------------------------------------------------
(* Every action preserves the types of the requests, and no finished one goes
   unnoticed (NoLostCompletion) *)

\* The type of the requests, the worker threads and main, action by action.
LEMMA TypeStep ==
  ASSUME TypeOK, Ownership, Next,
         cur_threads' \in Nat, idle_threads' \in Nat,
         new_threads' \in Nat, pending_threads' \in Nat
  PROVE  TypeOK'
<1>1. /\ cur_threads' \in Nat /\ idle_threads' \in Nat
      /\ new_threads' \in Nat /\ pending_threads' \in Nat
  OBVIOUS
<1>2. ASSUME NEW r \in Reqs, NEW k \in Kinds, paio_submit(r, k)
      PROVE  TypeOK'
  <2>1. request_list' \in Seq(Reqs) /\ first_aio' \in Seq(Reqs)
    BY <1>2, AppendElements, LinkProperties DEF TypeOK, paio_submit
  <2>2. submits' \in 0..MaxSubmits
    BY <1>2, PosixAioAssumption DEF TypeOK, paio_submit
  <2>3. bh' \in BOOLEAN
    BY Zenon, <1>2 DEF TypeOK, paio_submit, spawn_thread, poolVars
  <2>4. /\ ret' \in [Reqs -> Results] /\ active' \in [Reqs -> BOOLEAN]
        /\ kind' \in [Reqs -> Kinds] /\ free' \in SUBSET Reqs
    BY <1>2 DEF TypeOK, paio_submit, Results
  <2>5. mpc' \in MainPCs /\ victim' \in Opt(Reqs)
        /\ ((mpc' = "spin") = (victim' # <<>>))
    BY <1>2 DEF TypeOK, paio_submit, MainRuns, MainPCs
  <2>6. UNCHANGED <<tpc, task, pipe, frames>>
    BY <1>2 DEF paio_submit
  <2> QED BY <1>1, <2>1, <2>2, <2>3, <2>4, <2>5, <2>6 DEF TypeOK
<1>3. ASSUME cond_signal PROVE TypeOK'
  BY Zenon, <1>1, <1>3 DEF TypeOK, cond_signal, reqVars, poolVars, WorkerPCs, MainPCs
<1>4. ASSUME NEW r \in Reqs, paio_cancel(r) PROVE TypeOK'
  <2>1. r \in Range(first_aio) /\ UNCHANGED <<active, poolVars, tpc, task, pipe,
                                            frames, submits>>
    BY <1>4 DEF paio_cancel
  <2>2. Unlink(first_aio, r) \in Seq(Reqs)
    BY <2>1, UnlinkProperties DEF TypeOK, Ownership
  <2>3. CASE ~active[r]
    <3>1. r \in Range(request_list)
      BY <2>1, <2>3 DEF Ownership
    <3>2. Unlink(request_list, r) \in Seq(Reqs)
      BY <3>1, UnlinkProperties DEF TypeOK, Ownership
    <3> QED BY Zenon, <1>1, <1>4, <2>1, <2>2, <2>3, <3>2
            DEF TypeOK, paio_cancel, paio_remove, reqVars, poolVars, Results
  <2>4. CASE active[r] /\ ret[r] # "EINPROGRESS"
    BY <1>1, <1>4, <2>1, <2>2, <2>4
       DEF TypeOK, paio_cancel, paio_remove, reqVars, poolVars
  <2>5. CASE active[r] /\ ret[r] = "EINPROGRESS"
    <3>1. mpc' = "spin" /\ victim' = <<r>> /\ UNCHANGED <<request_list, ret, reqVars>>
      BY <1>4, <2>5 DEF paio_cancel
    <3>2. <<r>> \in Opt(Reqs) /\ <<r>> # <<>>
      BY DEF Opt
    <3> QED BY <1>1, <2>1, <3>1, <3>2 DEF TypeOK, reqVars, poolVars, MainPCs
  <2> QED BY <1>4, <2>3, <2>4, <2>5 DEF paio_cancel
<1>5. ASSUME CancelSpinEnds PROVE TypeOK'
  <2>1. victim[1] \in Range(first_aio) /\ victim[1] \in Reqs
    BY <1>5, SeqType DEF CancelSpinEnds, Ownership, TypeOK, Range
  <2>2. Unlink(first_aio, victim[1]) \in Seq(Reqs)
    BY <2>1, UnlinkProperties DEF TypeOK, Ownership
  <2> QED BY <1>1, <1>5, <2>1, <2>2
          DEF TypeOK, CancelSpinEnds, paio_remove, poolVars, Opt, MainPCs
<1>6. ASSUME spawn_thread_bh_fn PROVE TypeOK'
  BY Zenon, <1>1, <1>6 DEF TypeOK, spawn_thread_bh_fn, MainRuns, reqVars, MainPCs
<1>7. ASSUME NEW u \in Threads, MainCreates(u) PROVE TypeOK'
  BY <1>1, <1>7 DEF TypeOK, MainCreates, reqVars, poolVars, WorkerPCs, MainPCs
<1>8. ASSUME posix_aio_read PROVE TypeOK'
  <2>1. [pc |-> "drain", pos |-> 0, acb |-> <<>>] \in Frame
    BY DEF Frame, FramePCs, Opt
  <2>2. frames' \in Seq(Frame)
    BY <1>8, <2>1, AppendType DEF TypeOK, posix_aio_read
  <2> QED BY <1>1, <1>8, <2>2 DEF TypeOK, posix_aio_read, reqVars, poolVars
<1>9. ASSUME ReadPipe PROVE TypeOK'
  <2>1. frames \in Seq(Frame) /\ frames # <<>>
    BY <1>9 DEF TypeOK, ReadPipe, InRead
  <2>2. frames' \in Seq(Frame)
    BY <1>9, <2>1, FrameTypes, ScanFrame DEF ReadPipe, SetTop
  <2>3. pipe' \in 0..PipeCap
    BY <1>9, PosixAioAssumption DEF TypeOK, ReadPipe
  <2> QED BY <1>1, <1>9, <2>2, <2>3 DEF TypeOK, ReadPipe, reqVars, poolVars
<1>10. ASSUME ScanStep PROVE TypeOK'
  <2>1. frames \in Seq(Frame) /\ frames # <<>> /\ Top \in Frame
    BY <1>10, FrameTypes DEF TypeOK, ScanStep, InRead, Top
  <2>2. Top.pos \in Nat /\ Top.pc = "scan"
    BY <1>10, <2>1 DEF Frame, ScanStep, InRead
  <2>3. PICK r \in Reqs : r = first_aio[Top.pos] /\ r \in Range(first_aio)
    <3>1. Top.pos \in 1..Len(first_aio)
      BY SMTT(30), <1>10, <2>1, <2>2 DEF ScanStep, TypeOK, Frame
    <3> QED BY SMTT(30), <3>1, SeqType DEF TypeOK, Range
  <2>4. Unlink(first_aio, r) \in Seq(Reqs)
    BY <2>3, UnlinkProperties DEF TypeOK, Ownership
  <2>5. /\ Scan(Top.pos + 1) \in Frame
        /\ [pc |-> "cb", pos |-> 0, acb |-> <<r>>] \in Frame
    <3>1. Scan(Top.pos + 1) \in Frame
      BY <2>2, ScanFrame
    <3>2. <<r>> \in Opt(Reqs) /\ <<r>> # <<>>
      BY DEF Opt
    <3> QED BY <3>1, <3>2, CallbackFrame
  <2>6. /\ Append(Pop(frames), Scan(Top.pos + 1)) \in Seq(Frame)
        /\ Append(Pop(frames), [pc |-> "cb", pos |-> 0, acb |-> <<r>>])
             \in Seq(Frame)
    BY <2>1, <2>5, FrameTypes
  <2>7. /\ frames' \in Seq(Frame) /\ first_aio' \in Seq(Reqs)
        /\ free' \in SUBSET Reqs /\ UNCHANGED kind
    BY Zenon, <1>10, <2>1, <2>3, <2>4, <2>6
       DEF TypeOK, ScanStep, SetTop, paio_remove, reqVars
  <2> QED BY <1>1, <1>10, <2>7 DEF TypeOK, ScanStep, poolVars
<1>11. ASSUME ScanEnds PROVE TypeOK'
  <2>1. frames' \in Seq(Frame)
    BY <1>11, FrameTypes DEF TypeOK, ScanEnds, InRead
  <2> QED BY <1>1, <1>11, <2>1 DEF TypeOK, ScanEnds, reqVars, poolVars
<1>12. ASSUME CallbackReturns PROVE TypeOK'
  <2>1. frames \in Seq(Frame) /\ frames # <<>> /\ Top \in Frame
    BY <1>12, FrameTypes DEF TypeOK, CallbackReturns, InRead, Top
  <2>2. Top.acb \in Opt(Reqs) /\ Top.acb # <<>>
    BY <1>12, <2>1 DEF Frame, CallbackReturns, InRead
  <2>3. Top.acb[1] \in Reqs
    BY <2>2 DEF Opt
  <2>4. frames' \in Seq(Frame)
    BY <1>12, <2>1, FrameTypes, ScanFrame DEF CallbackReturns, SetTop
  <2> QED BY <1>1, <1>12, <2>3, <2>4 DEF TypeOK, CallbackReturns, poolVars
<1>13. ASSUME NEW t \in Threads, TakeRequest(t) PROVE TypeOK'
  <2>1. Head(request_list) \in Reqs /\ Tail(request_list) \in Seq(Reqs)
    BY <1>13, TailElements DEF TypeOK, TakeRequest
  <2>2. <<Head(request_list)>> \in Opt(Reqs) /\ <<Head(request_list)>> # <<>>
    BY <2>1 DEF Opt
  <2>3. /\ task' \in [Threads -> Opt(Reqs)] /\ tpc' \in [Threads -> WorkerPCs]
        /\ \A u \in Threads : (tpc'[u] = "working") = (task'[u] # <<>>)
    BY <1>13, <2>2 DEF TypeOK, TakeRequest, WorkerPCs
  <2>4. active' \in [Reqs -> BOOLEAN]
    BY <1>13, <2>1 DEF TypeOK, TakeRequest
  <2> QED BY <1>1, <1>13, <2>1, <2>3, <2>4
          DEF TypeOK, TakeRequest, reqVars, mainVars
<1>14. ASSUME NEW t \in Threads, StoreResult(t) PROVE TypeOK'
  <2>1. task[t] \in Opt(Reqs) /\ task[t] # <<>>
    BY <1>14 DEF TypeOK, StoreResult
  <2>2. task[t][1] \in Reqs
    BY <2>1 DEF Opt
  <2>3. ret' \in [Reqs -> Results]
    BY <1>14, <2>2 DEF TypeOK, StoreResult, HandleAiocb, Results, Done
  <2>4. /\ task' \in [Threads -> Opt(Reqs)] /\ tpc' \in [Threads -> WorkerPCs]
        /\ \A u \in Threads : (tpc'[u] = "working") = (task'[u] # <<>>)
    BY <1>14 DEF TypeOK, StoreResult, WorkerPCs, Opt
  <2> QED BY <1>1, <1>14, <2>3, <2>4
          DEF TypeOK, StoreResult, reqVars, poolVars, mainVars
<1>15. ASSUME NEW t \in Threads,
              \/ ThreadStart(t) \/ ThreadSpawns(t)
              \/ \E u \in Threads : ThreadCreates(t, u)
              \/ WaitForWork(t) \/ ThreadExits(t) \/ WaitReturns(t)
              \/ posix_aio_notify_event(t)
       PROVE  TypeOK'
  <2>1. /\ tpc' \in [Threads -> WorkerPCs]
        /\ \A u \in Threads : (tpc'[u] = "working") = (tpc[u] = "working")
    BY Zenon, <1>15 DEF TypeOK, ThreadStart, ThreadSpawns, ThreadCreates, WaitForWork,
                 ThreadExits, WaitReturns, posix_aio_notify_event, WorkerPCs
  <2>2. pipe' \in 0..PipeCap
    BY <1>15, PosixAioAssumption
       DEF TypeOK, ThreadStart, ThreadSpawns, ThreadCreates, WaitForWork,
           ThreadExits, WaitReturns, posix_aio_notify_event
  <2>3. UNCHANGED <<request_list, reqVars, ret, active, bh, task, mainVars, submits>>
    BY <1>15 DEF ThreadStart, ThreadSpawns, ThreadCreates, WaitForWork,
                 ThreadExits, WaitReturns, posix_aio_notify_event, poolVars
  <2> QED BY <1>1, <2>1, <2>2, <2>3 DEF TypeOK, reqVars, mainVars
<1> QED BY <1>2, <1>3, <1>4, <1>5, <1>6, <1>7, <1>8, <1>9, <1>10, <1>11, <1>12,
           <1>13, <1>14, <1>15 DEF Next, MainNext, WorkerNext

-----------------------------------------------------------------------------
(* Completion *)

\* Main leaves its loop for an unlocked step only outside posix_aio_read or
\* inside a callback of it.
Nested == mpc # "run" /\ frames # <<>> => Peek(frames).pc = "cb"

\* Preserved by every action.
LEMMA NestedStep ==
  ASSUME Nested, Next
  PROVE  Nested'
<1>1. ASSUME UNCHANGED frames, mpc' # "run" => mpc # "run" \/ MainRuns
      PROVE  Nested'
  BY <1>1 DEF Nested, MainRuns
<1>2. ASSUME mpc' = "run" PROVE Nested'
  BY <1>2 DEF Nested
<1>3. ASSUME MainNext PROVE Nested'
  BY Zenon, <1>1, <1>2, <1>3
     DEF MainNext, paio_submit, cond_signal, paio_cancel, CancelSpinEnds,
         spawn_thread_bh_fn, MainCreates, posix_aio_read, ReadPipe, ScanStep,
         ScanEnds, CallbackReturns, MainRuns, InRead
<1>4. ASSUME NEW t \in Threads, WorkerNext(t) PROVE Nested'
  <2>1. UNCHANGED mainVars
    BY <1>4 DEF WorkerNext, ThreadStart, ThreadSpawns, ThreadCreates,
                TakeRequest, WaitForWork, ThreadExits, WaitReturns,
                StoreResult, posix_aio_notify_event
  <2> QED BY SMTT(30), <1>1, <2>1 DEF mainVars
<1> QED BY <1>3, <1>4 DEF Next

\* Something other than a frame in the middle of its scan will make main look
\* at every request of the list, or a scan will get to element i.
Noticed == pipe > 0 \/ \E t \in Threads : tpc[t] = "notify"
Visited(fs, i) == \E j \in 1..Len(fs) : WillVisit(fs[j], i)

\* A finished request is noticed: preserved by every action.
LEMMA CompletionStep ==
  ASSUME TypeOK, Ownership, Nested, NoLostCompletion, Next
  PROVE  NoLostCompletion'
<1>1. /\ first_aio \in Seq(Reqs) /\ Len(first_aio) \in Nat
      /\ first_aio \in [1..Len(first_aio) -> Reqs] /\ IsInjective(first_aio)
      /\ ret \in [Reqs -> Results] /\ tpc \in [Threads -> WorkerPCs]
      /\ pipe \in Nat /\ frames \in Seq(Frame) /\ PipeCap \in Nat \ {0}
  BY SeqType, PosixAioAssumption DEF TypeOK, Ownership
<1>2. ASSUME Noticed' PROVE NoLostCompletion'
  BY <1>2 DEF Noticed, NoLostCompletion
<1>3. ASSUME NEW i \in 1..Len(first_aio), ret[first_aio[i]] # "EINPROGRESS"
      PROVE  Noticed \/ Visited(frames, i)
  BY <1>3 DEF Noticed, Visited, NoLostCompletion
<1>4. ASSUME Noticed => Noticed',
             \A i \in 1..Len(first_aio') :
               ret'[first_aio'[i]] # "EINPROGRESS" =>
                 Noticed \/ Visited(frames', i)
      PROVE  NoLostCompletion'
  BY <1>4 DEF Noticed, Visited, NoLostCompletion
\* Inside a callback the scan is about to start afresh.
<1>5. ASSUME frames # <<>>, Peek(frames).pc \in {"cb", "drain"}, NEW i
      PROVE  Visited(frames, i)
  <2>1. Len(frames) \in 1..Len(frames) /\ Peek(frames) = frames[Len(frames)]
    <3>1. frames \in Seq(Frame)
      BY <1>1
    <3>2. Len(frames) \in Nat \ {0} /\ Peek(frames) = frames[Len(frames)]
      BY Zenon, <1>5, <3>1, StackProperties
    <3> QED BY <3>2
  <2> QED BY <1>5, <2>1 DEF Visited, WillVisit
<1>6. ASSUME frames = <<>>, NEW i PROVE ~Visited(frames, i)
  BY <1>6 DEF Visited
<1>7. ASSUME UNCHANGED <<first_aio, ret, frames>>, Noticed => Noticed'
      PROVE  NoLostCompletion'
  BY <1>3, <1>4, <1>7
\* A request leaves the list while main is outside every scan.
<1>8. ASSUME NEW r \in Range(first_aio), first_aio' = Unlink(first_aio, r),
             \A q \in Reqs : q # r => ret'[q] = ret[q],
             frames # <<>> => Peek(frames).pc = "cb",
             UNCHANGED <<frames, pipe, tpc>>
      PROVE  NoLostCompletion'
  <2>1. /\ Len(first_aio') = Len(first_aio) - 1
        /\ Range(first_aio') = Range(first_aio) \ {r}
        /\ \E k \in 1..Len(first_aio) :
             /\ \A i \in 1..(Len(first_aio) - 1) : i < k => first_aio'[i] = first_aio[i]
             /\ \A i \in 1..(Len(first_aio) - 1) :
                  i >= k => first_aio'[i] = first_aio[i + 1]
        /\ first_aio' \in Seq(Reqs)
    <3>1. first_aio \in Seq(Reqs) /\ IsInjective(first_aio)
      BY <1>1
    <3>2. /\ Unlink(first_aio, r) \in Seq(Reqs)
          /\ Len(Unlink(first_aio, r)) = Len(first_aio) - 1
          /\ Range(Unlink(first_aio, r)) = Range(first_aio) \ {r}
      BY <1>8, <3>1, UnlinkProperties
    <3>3. \E k \in 1..Len(first_aio) :
            /\ first_aio[k] = r
            /\ \A i \in 1..(Len(first_aio) - 1) :
                 i < k => Unlink(first_aio, r)[i] = first_aio[i]
            /\ \A i \in 1..(Len(first_aio) - 1) :
                 i >= k => Unlink(first_aio, r)[i] = first_aio[i + 1]
      BY <1>8, <3>1, UnlinkProperties
    <3> QED BY Zenon, <1>8, <3>2, <3>3
  <2>2. ASSUME NEW i \in 1..Len(first_aio')
        PROVE  \E j \in 1..Len(first_aio) : first_aio'[i] = first_aio[j]
    <3>1. i \in 1..(Len(first_aio) - 1) /\ i \in 1..Len(first_aio)
          /\ i + 1 \in 1..Len(first_aio)
      BY <1>1, <2>1
    <3> QED BY <2>1, <3>1
  <2>3. \A i \in 1..Len(first_aio') : first_aio'[i] \in Reqs /\ first_aio'[i] # r
    <3> TAKE i \in 1..Len(first_aio')
    <3>1. first_aio' \in [1..Len(first_aio') -> Reqs]
      BY <2>1, SeqType
    <3>2. first_aio'[i] \in Range(first_aio')
      BY <3>1 DEF Range
    <3> QED BY <2>1, <3>1, <3>2
  <2>4. CASE frames = <<>>
    BY <1>3, <1>4, <1>6, <1>8, <2>2, <2>3, <2>4 DEF Noticed
  <2>5. CASE frames # <<>>
    BY <1>4, <1>5, <1>8, <2>5 DEF Noticed
  <2> QED BY <2>4, <2>5
\* The innermost frame changes, and its new state will visit what matters.
<1>9. ASSUME frames # <<>>, NEW f \in Frame, frames' = Append(Pop(frames), f),
             NEW i, WillVisit(f, i)
      PROVE  Visited(frames', i)
  <2>1. /\ Len(frames) \in Nat \ {0} /\ Len(frames') = Len(frames)
        /\ frames'[Len(frames)] = f
    <3>1. frames \in Seq(Frame)
      BY <1>1
    <3> QED BY <1>9, <3>1, StackProperties
  <2>2. Len(frames) \in 1..Len(frames')
    BY <2>1
  <2> QED BY <1>9, <2>1, <2>2 DEF Visited
<1>10. ASSUME NEW r \in Reqs, NEW k \in Kinds, paio_submit(r, k)
       PROVE  NoLostCompletion'
  <2>1. /\ first_aio' = Link(r, first_aio) /\ ret' = [ret EXCEPT ![r] = "EINPROGRESS"]
        /\ UNCHANGED <<frames, pipe, tpc>>
    BY <1>10 DEF paio_submit
  <2>2. /\ Len(first_aio') = Len(first_aio) + 1 /\ first_aio'[1] = r
        /\ \A i \in 1..Len(first_aio) : first_aio'[i + 1] = first_aio[i]
    <3>1. first_aio \in Seq(Reqs)
      BY <1>1
    <3>2. /\ Len(Link(r, first_aio)) = Len(first_aio) + 1
          /\ Link(r, first_aio)[1] = r
          /\ \A i \in 1..Len(first_aio) : Link(r, first_aio)[i + 1] = first_aio[i]
      BY <3>1, LinkProperties
    <3> QED BY <2>1, <3>2
  <2>3. ASSUME NEW i \in 1..Len(first_aio'), ret'[first_aio'[i]] # "EINPROGRESS"
        PROVE  Noticed \/ Visited(frames', i)
    <3>1. first_aio'[i] # r
      BY <1>1, <2>1, <2>3
    <3>2. i # 1
      BY <2>2, <3>1
    <3>3. PICK j \in 1..Len(first_aio) : i = j + 1
      <4>1. i - 1 \in 1..Len(first_aio) /\ i = (i - 1) + 1
        BY <1>1, <2>2, <3>2
      <4> QED BY <4>1
    <3>4. first_aio'[i] = first_aio[j]
      BY <2>2, <3>3
    <3>5. ret[first_aio[j]] # "EINPROGRESS"
      BY <1>1, <2>1, <2>3, <3>1, <3>4
    <3>6. CASE Noticed
      BY <3>6
    <3>7. CASE Visited(frames, j)
      <4>1. PICK m \in 1..Len(frames) : WillVisit(frames[m], j)
        BY <3>7 DEF Visited
      <4>2. frames[m] \in Frame
        BY <1>1, <4>1, SeqType
      <4>3. WillVisit(frames[m], i)
        BY <1>1, <3>3, <4>1, <4>2 DEF WillVisit, Frame
      <4> QED BY <2>1, <4>1, <4>3 DEF Visited
    <3> QED BY <1>3, <3>5, <3>6, <3>7
  <2> QED BY <1>4, <2>1, <2>3 DEF Noticed
<1>11. ASSUME cond_signal PROVE NoLostCompletion'
  BY <1>1, <1>7, <1>11 DEF cond_signal, reqVars, Noticed
<1>12. ASSUME NEW r \in Reqs, paio_cancel(r) PROVE NoLostCompletion'
  <2>1. /\ r \in Range(first_aio) /\ UNCHANGED <<frames, pipe, tpc>>
        /\ frames # <<>> => Peek(frames).pc = "cb"
    BY <1>12 DEF paio_cancel, MainRuns
  <2>2. CASE first_aio' = Unlink(first_aio, r) /\ \A q \in Reqs : q # r => ret'[q] = ret[q]
    BY <1>8, <2>1, <2>2
  <2>3. CASE UNCHANGED <<first_aio, ret>>
    BY <1>7, <2>1, <2>3 DEF Noticed
  <2>4. \/ first_aio' = Unlink(first_aio, r) /\ \A q \in Reqs : q # r => ret'[q] = ret[q]
        \/ UNCHANGED <<first_aio, ret>>
    BY <1>1, <1>12 DEF paio_cancel, paio_remove, reqVars
  <2> QED BY <2>2, <2>3, <2>4
<1>13. ASSUME CancelSpinEnds PROVE NoLostCompletion'
  <2>1. /\ victim[1] \in Range(first_aio) /\ first_aio' = Unlink(first_aio, victim[1])
        /\ UNCHANGED <<frames, pipe, tpc, ret>>
        /\ frames # <<>> => Peek(frames).pc = "cb"
    BY <1>13 DEF CancelSpinEnds, paio_remove, Ownership, Nested
  <2> QED BY <1>8, <2>1
<1>14. ASSUME spawn_thread_bh_fn PROVE NoLostCompletion'
  BY <1>7, <1>14 DEF spawn_thread_bh_fn, reqVars, Noticed
<1>15. ASSUME NEW u \in Threads, MainCreates(u) PROVE NoLostCompletion'
  BY <1>1, <1>7, <1>15 DEF MainCreates, reqVars, Noticed
<1>16. ASSUME posix_aio_read PROVE NoLostCompletion'
  BY <1>2, <1>16 DEF posix_aio_read, Noticed
<1>17. ASSUME ReadPipe PROVE NoLostCompletion'
  <2>1. /\ frames # <<>> /\ Peek(frames).pc = "drain"
        /\ UNCHANGED <<first_aio, ret, tpc>>
    BY <1>17 DEF ReadPipe, InRead, Top, reqVars
  <2>2. CASE UNCHANGED frames
    <3>1. \A i : Visited(frames', i)
      BY <1>5, <2>1, <2>2
    <3> QED BY <3>1 DEF NoLostCompletion, Visited
  <2>3. CASE frames' = Append(Pop(frames), Scan(1))
    <3>1. \A i \in Nat \ {0} : WillVisit(Scan(1), i)
      BY DEF WillVisit, Scan
    <3>2. \A i \in Nat \ {0} : Visited(frames', i)
      BY <1>9, <2>1, <2>3, <3>1, ScanFrame
    <3>3. \A i \in 1..Len(first_aio') : i \in Nat \ {0}
      BY <1>1, <2>1
    <3> QED BY <3>2, <3>3 DEF NoLostCompletion, Visited
  <2> QED BY <1>17, <2>2, <2>3 DEF ReadPipe, SetTop
<1>18. ASSUME ScanStep PROVE NoLostCompletion'
  <2>1. /\ frames # <<>> /\ Top = Peek(frames) /\ Peek(frames) \in Frame
        /\ Top.pc = "scan" /\ Top.pos \in Nat \ {0} /\ Top.pos <= Len(first_aio)
    <3>1. frames # <<>> /\ Top = Peek(frames) /\ Top.pc = "scan"
          /\ Top.pos <= Len(first_aio)
      BY <1>18 DEF ScanStep, InRead, Top
    <3>2. Peek(frames) \in Frame
      BY <1>1, <3>1, FrameTypes
    <3> QED BY <3>1, <3>2 DEF Frame
  <2>2. PICK p \in 1..Len(first_aio) : p = Top.pos
    BY <1>1, <2>1
  <2>3. PICK r \in Reqs : r = first_aio[p] /\ r \in Range(first_aio)
    BY <1>1, <2>2 DEF Range
  <2>4. UNCHANGED <<ret, tpc, pipe>>
    BY <1>18 DEF ScanStep
  <2>5. CASE ret[r] = "ECANCELED"
    <3>1. first_aio' = Unlink(first_aio, r) /\ UNCHANGED frames
      BY <1>18, <2>2, <2>3, <2>5 DEF ScanStep, paio_remove, Done
    <3>2. Len(first_aio') = Len(first_aio) - 1
      BY Zenon, <1>1, <2>3, <3>1, UnlinkProperties
    <3>3. PICK k \in 1..Len(first_aio) :
            /\ first_aio[k] = r
            /\ \A i \in 1..(Len(first_aio) - 1) :
                 i < k => Unlink(first_aio, r)[i] = first_aio[i]
            /\ \A i \in 1..(Len(first_aio) - 1) :
                 i >= k => Unlink(first_aio, r)[i] = first_aio[i + 1]
      <4>1. first_aio \in Seq(Reqs) /\ IsInjective(first_aio)
        BY <1>1
      <4>2. r \in Range(first_aio)
        BY <2>3
      <4> QED BY <4>1, <4>2, UnlinkProperties
    <3>4. k = p
      BY <1>1, <2>3, <3>3 DEF IsInjective
    <3>5. Len(frames) \in 1..Len(frames) /\ Peek(frames) = frames[Len(frames)]
      <4>1. frames \in Seq(Frame)
        BY <1>1
      <4>2. Len(frames) \in Nat \ {0} /\ Peek(frames) = frames[Len(frames)]
        BY <2>1, <4>1, StackProperties
      <4> QED BY <4>2
    <3>6. ASSUME NEW i \in 1..Len(first_aio'), ret'[first_aio'[i]] # "EINPROGRESS"
          PROVE  Noticed \/ Visited(frames', i)
      <4>1. i \in 1..(Len(first_aio) - 1) /\ i \in 1..Len(first_aio)
        BY <1>1, <3>2
      <4>2. CASE i < p
        BY <1>3, <2>4, <3>1, <3>3, <3>4, <3>6, <4>1, <4>2
      <4>3. CASE i >= p
        BY <2>1, <2>2, <3>1, <3>5, <4>3 DEF Visited, WillVisit
      <4> QED BY <4>1, <4>2, <4>3
    <3> QED BY <1>4, <2>4, <3>6 DEF Noticed
  <2>6. CASE ret[r] = "EINPROGRESS"
    <3>1. frames' = Append(Pop(frames), Scan(p + 1)) /\ UNCHANGED first_aio
      BY <1>18, <2>2, <2>3, <2>6 DEF ScanStep, SetTop, Done, reqVars
    <3>2. Scan(p + 1) \in Frame
      BY <1>1, <2>2, ScanFrame
    <3>3. ASSUME NEW i \in 1..Len(first_aio'), ret'[first_aio'[i]] # "EINPROGRESS"
          PROVE  Noticed \/ Visited(frames', i)
      <4>1. Noticed \/ Visited(frames, i)
        BY <1>3, <2>4, <3>1, <3>3
      <4>2. i # p
        BY <2>3, <2>4, <2>6, <3>1, <3>3
      <4>3. CASE Visited(frames, i)
        <5>1. PICK m \in 1..Len(frames) : WillVisit(frames[m], i)
          BY <4>3 DEF Visited
        <5>2. frames \in Seq(Frame)
          BY <1>1
        <5>3. /\ Len(frames) \in Nat \ {0} /\ Peek(frames) = frames[Len(frames)]
              /\ Len(frames') = Len(frames)
              /\ \A n \in 1..(Len(frames) - 1) : frames'[n] = frames[n]
          BY SMTT(30), <2>1, <3>1, <3>2, <5>2, StackProperties
        <5>4. CASE m = Len(frames)
          <6>1. p <= i
            BY <2>1, <2>2, <5>1, <5>3, <5>4 DEF WillVisit
          <6>2. WillVisit(Scan(p + 1), i)
            BY <1>1, <2>2, <4>2, <6>1, <3>1, <3>3 DEF WillVisit, Scan
          <6> QED BY <1>9, <2>1, <3>1, <3>2, <6>2
        <5>5. CASE m # Len(frames)
          <6>1. m \in 1..(Len(frames) - 1) /\ m \in 1..Len(frames')
            BY <5>3, <5>5
          <6> QED BY <5>1, <5>3, <6>1 DEF Visited
        <5> QED BY <5>4, <5>5
      <4> QED BY <4>1, <4>3
    <3> QED BY <1>4, <2>4, <3>3 DEF Noticed
  <2>7. CASE ret[r] \in Done
    <3>1. frames' = Append(Pop(frames), [pc |-> "cb", pos |-> 0, acb |-> <<r>>])
      BY <1>18, <2>2, <2>3, <2>7 DEF ScanStep, SetTop, Done
    <3>2. [pc |-> "cb", pos |-> 0, acb |-> <<r>>] \in Frame
      <4>1. <<r>> \in Opt(Reqs) /\ <<r>> # <<>>
        BY DEF Opt
      <4> QED BY <4>1, CallbackFrame
    <3>3. \A i : WillVisit([pc |-> "cb", pos |-> 0, acb |-> <<r>>], i)
      BY DEF WillVisit
    <3>4. \A i : Visited(frames', i)
      BY <1>9, <2>1, <3>1, <3>2, <3>3
    <3> QED BY Zenon, <3>4 DEF NoLostCompletion, Visited
  <2> QED BY <1>18, <2>2, <2>3, <2>5, <2>6, <2>7 DEF ScanStep
<1>19. ASSUME ScanEnds PROVE NoLostCompletion'
  <2>1. /\ frames # <<>> /\ Peek(frames).pc = "scan"
        /\ Peek(frames).pos > Len(first_aio) /\ frames' = Pop(frames)
        /\ UNCHANGED <<first_aio, ret, pipe, tpc>>
    BY <1>19 DEF ScanEnds, InRead, Top, reqVars
  <2>2. frames \in Seq(Frame)
    BY <1>1
  <2>3. /\ Len(frames) \in Nat \ {0} /\ Peek(frames) = frames[Len(frames)]
        /\ Len(frames') = Len(frames) - 1 /\ Peek(frames) \in Frame
        /\ \A n \in 1..(Len(frames) - 1) : frames'[n] = frames[n]
    BY <2>1, <2>2, StackProperties
  <2>4. ASSUME NEW i \in 1..Len(first_aio), Visited(frames, i)
        PROVE  Visited(frames', i)
    <3>1. PICK m \in 1..Len(frames) : WillVisit(frames[m], i)
      BY <2>4 DEF Visited
    <3>2. ~WillVisit(Peek(frames), i)
      BY <1>1, <2>1, <2>3 DEF WillVisit, Frame
    <3>3. m \in 1..(Len(frames) - 1)
      BY <2>3, <3>1, <3>2
    <3> QED BY <2>3, <3>1, <3>3 DEF Visited
  <2> QED BY <1>3, <1>4, <2>1, <2>4 DEF Noticed
<1>20. ASSUME CallbackReturns PROVE NoLostCompletion'
  <2>1. /\ frames # <<>> /\ frames' = Append(Pop(frames), Scan(1))
        /\ UNCHANGED first_aio
    BY <1>20 DEF CallbackReturns, InRead, SetTop
  <2>2. \A i \in Nat \ {0} : WillVisit(Scan(1), i)
    BY DEF WillVisit, Scan
  <2>3. \A i \in Nat \ {0} : Visited(frames', i)
    BY <1>9, <2>1, <2>2, ScanFrame
  <2>4. \A i \in 1..Len(first_aio') : i \in Nat \ {0}
    BY <1>1, <2>1
  <2> QED BY <2>3, <2>4 DEF NoLostCompletion, Visited
<1>21. ASSUME NEW t \in Threads, StoreResult(t) \/ posix_aio_notify_event(t)
       PROVE  NoLostCompletion'
  BY <1>1, <1>2, <1>21 DEF StoreResult, posix_aio_notify_event, Noticed
<1>22. ASSUME NEW t \in Threads,
              \/ ThreadStart(t) \/ ThreadSpawns(t)
              \/ (\E u \in Threads : ThreadCreates(t, u)) \/ TakeRequest(t)
              \/ WaitForWork(t) \/ ThreadExits(t) \/ WaitReturns(t)
       PROVE  NoLostCompletion'
  <2>1. \A u \in Threads : tpc[u] = "notify" => tpc'[u] = "notify"
    BY <1>1, <1>22 DEF ThreadStart, ThreadSpawns, ThreadCreates, TakeRequest,
                       Checks, WaitForWork, ThreadExits, WaitReturns
  <2>2. UNCHANGED <<first_aio, ret, frames, pipe>>
    BY <1>22 DEF ThreadStart, ThreadSpawns, ThreadCreates, TakeRequest,
                 WaitForWork, ThreadExits, WaitReturns, reqVars, mainVars
  <2> QED BY <1>7, <2>1, <2>2 DEF Noticed
<1> QED BY <1>10, <1>11, <1>12, <1>13, <1>14, <1>15, <1>16, <1>17, <1>18, <1>19,
           <1>20, <1>21, <1>22 DEF Next, MainNext, WorkerNext

-----------------------------------------------------------------------------
(* The inductive invariant *)

IInv == TypeOK /\ PoolAccounting /\ Ownership

\* The inductive invariant holds initially ...
LEMMA InitIInv == Init => IInv
<1> SUFFICES ASSUME Init PROVE IInv
  OBVIOUS
<1>1. TypeOK
  <2>1. (CHOOSE k \in Kinds : TRUE) \in Kinds
    BY PosixAioAssumption
  <2>2. kind \in [Reqs -> Kinds]
    BY <2>1 DEF Init
  <2>3. <<>> \in Seq(Reqs) /\ <<>> \in Seq(Frame) /\ <<>> \in Opt(Reqs)
    <3>1. <<>> \in Seq(Reqs) /\ <<>> \in Seq(Frame)
      OBVIOUS
    <3>2. <<>> \in Opt(Reqs)
      BY Zenon DEF Opt
    <3> QED BY <3>1, <3>2
  <2>4. pipe \in 0..PipeCap /\ submits \in 0..MaxSubmits
    BY PosixAioAssumption DEF Init
  <2> QED BY Zenon, <2>2, <2>3, <2>4 DEF Init, TypeOK, Results, WorkerPCs, MainPCs
<1>2. PoolAccounting
  BY InitPool
<1>3. Ownership
  <2>1. /\ first_aio = <<>> /\ request_list = <<>> /\ frames = <<>>
        /\ mpc # "spin" /\ \A t \in Threads : tpc[t] # "working"
    BY DEF Init
  <2>2. /\ IsInjective(first_aio) /\ Range(first_aio) = {}
        /\ IsInjective(request_list) /\ Range(request_list) = {}
    BY <2>1 DEF Range, IsInjective
  <2>3. CalledOnce(frames) /\ InCallback(frames) = {}
    BY <2>1 DEF CalledOnce, InCallback
  <2> QED BY Zenon, <2>1, <2>2, <2>3 DEF Ownership
<1> QED BY <1>1, <1>2, <1>3 DEF IInv

\* ... and every step preserves it.
LEMMA StepIInv == IInv /\ [Next]_vars => IInv'
<1> SUFFICES ASSUME IInv, [Next]_vars PROVE IInv'
  OBVIOUS
<1>1. CASE Next
  <2>1. PoolAccounting'
    BY <1>1, PoolStep DEF IInv
  <2>2. TypeOK'
    BY <1>1, <2>1, CounterTypes, TypeStep DEF IInv
  <2>3. Ownership'
    BY <1>1, <2>2, OwnershipStep DEF IInv
  <2> QED BY <2>1, <2>2, <2>3 DEF IInv
<1>2. CASE UNCHANGED vars
  BY Zenon, <1>2 DEF IInv, vars, reqVars, poolVars, mainVars, TypeOK, PoolAccounting,
              Ownership
<1> QED BY <1>1, <1>2

\* The inductive invariant holds: types, the counters of the pool, and the
\* ownership of aiocbs, for any number of requests and threads.
THEOREM Safety == Spec => []IInv
  BY InitIInv, StepIInv, PTL DEF Spec

\* Every variable keeps its type; the counters never go below 0.
THEOREM TypeCorrect == Spec => []TypeOK
<1>1. IInv => TypeOK
  BY DEF IInv
<1> QED BY <1>1, Safety, PTL

\* The counters of the pool describe the threads that exist, and there are
\* never more than max_threads of them.
THEOREM PoolCorrect == Spec => []PoolAccounting
<1>1. IInv => PoolAccounting
  BY DEF IInv
<1> QED BY <1>1, Safety, PTL

\* No aiocb is released, reused or handed to a second worker while somebody
\* still works on it, and no list is asked to unlink what it does not hold.
THEOREM OwnershipCorrect == Spec => []Ownership
<1>1. IInv => Ownership
  BY DEF IInv
<1> QED BY <1>1, Safety, PTL

-----------------------------------------------------------------------------
(* Nothing is forgotten *)

Promises == NoLostSpawn /\ Served /\ NoStrandedRequest /\ Nested /\ NoLostCompletion

\* Nothing is forgotten: the promises of the pool hold together.
LEMMA PromisesHold == Spec => []Promises
<1>1. Init => Promises
  BY DEF Init, Promises, NoLostSpawn, Served, NoStrandedRequest, Nested,
         NoLostCompletion
<1>2. IInv /\ Promises /\ [Next]_vars => Promises'
  <2> SUFFICES ASSUME IInv, Promises, [Next]_vars PROVE Promises'
    OBVIOUS
  <2>1. CASE Next
    BY SMTT(30), <2>1, SpawnStep, ServedStep, StrandedStep, NestedStep, CompletionStep
       DEF IInv, Promises
  <2>2. CASE UNCHANGED vars
    BY <2>2 DEF Promises, NoLostSpawn, Served, NoStrandedRequest, Nested,
                NoLostCompletion, vars, reqVars, poolVars, mainVars
  <2> QED BY <2>1, <2>2
<1> QED BY <1>1, <1>2, Safety, PTL DEF Spec

\* A thread spawn_thread has promised is created: the bottom half is scheduled
\* or a thread that is coming up will create it.
THEOREM SpawnCorrect == Spec => []NoLostSpawn
<1>1. Promises => NoLostSpawn
  BY DEF Promises
<1> QED BY <1>1, PromisesHold, PTL

\* A queued request never waits for a worker that sleeps for ever.
THEOREM StrandedCorrect == Spec => []NoStrandedRequest
<1>1. Promises => NoStrandedRequest
  BY DEF Promises
<1> QED BY <1>1, PromisesHold, PTL

\* A finished request is found by posix_aio_read, although a full pipe drops
\* bytes and the handler can be called from inside a callback.
THEOREM CompletionCorrect == Spec => []NoLostCompletion
<1>1. Promises => NoLostCompletion
  BY DEF Promises
<1> QED BY <1>1, PromisesHold, PTL
=============================================================================
