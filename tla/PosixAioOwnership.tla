------------------------- MODULE PosixAioOwnership --------------------------
(***************************************************************************)
(* The requests of the AIO pool: who owns an aiocb.  The last lemma says   *)
(* that every action preserves Ownership.                                  *)
(***************************************************************************)
EXTENDS PosixAio, ListLemmas

\* A frame stack after a call, a return, or a change of its innermost frame.
LEMMA FrameTypes ==
  ASSUME frames \in Seq(Frame), frames # <<>>
  PROVE  /\ Len(frames) \in Nat \ {0} /\ Peek(frames) \in Frame
         /\ Pop(frames) \in Seq(Frame)
         /\ \A f \in Frame : Append(Pop(frames), f) \in Seq(Frame)
  BY StackProperties

\* The frame of a scan of first_aio.
LEMMA ScanFrame == \A i \in Nat \ {0} : Scan(i) \in Frame
  BY DEF Scan, Frame, FramePCs, Opt

\* The frame of a running callback.
LEMMA CallbackFrame ==
  \A a \in Opt(Reqs) : a # <<>> => [pc |-> "cb", pos |-> 0, acb |-> a] \in Frame
  BY DEF Frame, FramePCs

-----------------------------------------------------------------------------
(* Ownership *)

\* A handler call starts: a frame that runs no callback is pushed.
LEMMA PushFrame ==
  ASSUME NEW fs \in Seq(Frame), NEW f \in Frame, f.pc # "cb"
  PROVE  /\ InCallback(Append(fs, f)) = InCallback(fs)
         /\ CalledOnce(fs) => CalledOnce(Append(fs, f))
<1> DEFINE n == Len(fs)
           gs == Append(fs, f)
<1>1. n \in Nat /\ fs \in [1..n -> Frame]
  BY SeqType
<1>2. /\ gs \in Seq(Frame) /\ Len(gs) = n + 1 /\ gs[n + 1] = f
      /\ \A i \in 1..n : gs[i] = fs[i]
  BY AppendType
<1>3. \A i \in 1..(n + 1) : i \in 1..n \/ i = n + 1
  BY <1>1
<1>4. \A i \in 1..n : i \in 1..(n + 1)
  BY <1>1
<1>5. f.acb = <<>> /\ \A i \in 1..n : fs[i].pc = "cb" => fs[i].acb # <<>>
  BY <1>1 DEF Frame
<1> HIDE DEF n, gs
<1>6. {i \in 1..Len(gs) : gs[i].pc = "cb"} = {i \in 1..n : fs[i].pc = "cb"}
  BY <1>2, <1>3, <1>4
<1>7. InCallback(gs) = InCallback(fs)
  BY <1>2, <1>6 DEF InCallback, n
<1>8. ASSUME CalledOnce(fs) PROVE CalledOnce(gs)
  <2>1. \A i, j \in 1..n : fs[i].pc = "cb" /\ fs[i].acb = fs[j].acb => i = j
    BY <1>8 DEF CalledOnce, n
  <2> QED BY <1>2, <1>3, <1>5, <2>1 DEF CalledOnce
<1> QED BY <1>7, <1>8 DEF gs

\* A handler call returns: a frame that runs no callback is popped.
LEMMA PopFrame ==
  ASSUME NEW fs \in Seq(Frame), fs # <<>>, Peek(fs).pc # "cb"
  PROVE  /\ InCallback(Pop(fs)) = InCallback(fs)
         /\ CalledOnce(fs) => CalledOnce(Pop(fs))
<1> DEFINE n == Len(fs)
           gs == Pop(fs)
<1>1. n \in Nat \ {0} /\ fs[n].pc # "cb"
  BY Zenon, StackProperties
<1>2. Len(gs) = n - 1 /\ \A i \in 1..(n - 1) : gs[i] = fs[i]
  BY StackProperties
<1>3. /\ \A i \in 1..n : i \in 1..(n - 1) \/ i = n
      /\ \A i \in 1..(n - 1) : i \in 1..n
  BY <1>1
<1> HIDE DEF n, gs
<1>4. {i \in 1..Len(gs) : gs[i].pc = "cb"} = {i \in 1..n : fs[i].pc = "cb"}
  BY <1>1, <1>2, <1>3
<1>5. \A i \in {k \in 1..n : fs[k].pc = "cb"} : gs[i] = fs[i]
  BY <1>1, <1>2, <1>3
<1>6. InCallback(gs) = InCallback(fs)
  BY <1>4, <1>5 DEF InCallback, n
<1>7. ASSUME CalledOnce(fs) PROVE CalledOnce(gs)
  BY <1>2, <1>3, <1>7 DEF CalledOnce, n
<1> QED BY <1>6, <1>7 DEF gs

\* The innermost frame starts a callback, ends one, or does neither.
LEMMA ChangeFrame ==
  ASSUME NEW fs \in Seq(Frame), fs # <<>>, NEW f \in Frame, CalledOnce(fs)
  PROVE  /\ Peek(fs).pc # "cb" /\ f.pc # "cb" =>
              /\ InCallback(Append(Pop(fs), f)) = InCallback(fs)
              /\ CalledOnce(Append(Pop(fs), f))
         /\ Peek(fs).pc = "cb" /\ f.pc # "cb" =>
              /\ Peek(fs).acb[1] \in InCallback(fs)
              /\ InCallback(Append(Pop(fs), f))
                   = InCallback(fs) \ {Peek(fs).acb[1]}
              /\ CalledOnce(Append(Pop(fs), f))
         /\ Peek(fs).pc # "cb" /\ f.pc = "cb" /\ f.acb[1] \notin InCallback(fs) =>
              /\ InCallback(Append(Pop(fs), f)) = InCallback(fs) \cup {f.acb[1]}
              /\ CalledOnce(Append(Pop(fs), f))
<1> DEFINE n == Len(fs)
           gs == Append(Pop(fs), f)
           t == Peek(fs)
<1>1. n \in Nat \ {0} /\ fs \in [1..n -> Frame] /\ t = fs[n] /\ t \in Frame
  BY StackProperties, SeqType
<1>2. /\ gs \in Seq(Frame) /\ Len(gs) = n /\ gs[n] = f
      /\ \A i \in 1..(n - 1) : gs[i] = fs[i]
  BY StackProperties
<1>3. /\ \A i \in 1..n : i \in 1..(n - 1) \/ i = n
      /\ \A i \in 1..(n - 1) : i \in 1..n /\ i # n
      /\ n \in 1..n
  <2>1. n \in Nat \ {0}
    BY <1>1
  <2> HIDE DEF n
  <2> QED BY <2>1
<1>4. \A g \in Frame : (g.pc = "cb") = (g.acb # <<>>) /\ g.acb \in Opt(Reqs)
  BY DEF Frame
<1>5. \A a, b \in Opt(Reqs) : a # <<>> /\ b # <<>> /\ a[1] = b[1] => a = b
  BY DEF Opt
<1>6. \A i, j \in 1..n : fs[i].pc = "cb" /\ fs[i].acb = fs[j].acb => i = j
  BY DEF CalledOnce
<1>7. \A x : x \in InCallback(fs) <=>
               \E i \in 1..n : fs[i].pc = "cb" /\ x = fs[i].acb[1]
  BY DEF InCallback
<1> HIDE DEF n
<1>8. \A x : x \in InCallback(gs) <=>
               \E i \in 1..n : gs[i].pc = "cb" /\ x = gs[i].acb[1]
  BY <1>2 DEF InCallback
<1>9. CalledOnce(gs) <=>
        \A i, j \in 1..n : gs[i].pc = "cb" /\ gs[i].acb = gs[j].acb => i = j
  BY <1>2 DEF CalledOnce
<1> HIDE DEF gs, t
<1>10. ASSUME t.pc # "cb", f.pc # "cb"
       PROVE  InCallback(gs) = InCallback(fs) /\ CalledOnce(gs)
  <2>1. \A i \in 1..n : gs[i].pc = "cb" \/ fs[i].pc = "cb" => gs[i] = fs[i]
    BY <1>1, <1>2, <1>3, <1>10
  <2>2. InCallback(gs) = InCallback(fs)
    <3>1. ASSUME NEW x \in InCallback(gs) PROVE x \in InCallback(fs)
      BY <1>7, <1>8, <2>1, <3>1
    <3>2. ASSUME NEW x \in InCallback(fs) PROVE x \in InCallback(gs)
      BY <1>7, <1>8, <2>1, <3>2
    <3> QED BY Zenon, <3>1, <3>2
  <2>3. \A i, j \in 1..n : gs[i].pc = "cb" /\ gs[i].acb = gs[j].acb => i = j
    BY <1>1, <1>2, <1>3, <1>4, <1>6, <1>10
  <2> QED BY <1>9, <2>2, <2>3
<1>11. ASSUME t.pc = "cb", f.pc # "cb"
       PROVE  /\ t.acb[1] \in InCallback(fs)
              /\ InCallback(gs) = InCallback(fs) \ {t.acb[1]} /\ CalledOnce(gs)
  <2>1. t.acb[1] \in InCallback(fs)
    BY <1>1, <1>3, <1>7, <1>11
  <2>2. ASSUME NEW x \in InCallback(gs)
        PROVE  x \in InCallback(fs) /\ x # t.acb[1]
    <3>1. PICK i \in 1..n : gs[i].pc = "cb" /\ x = gs[i].acb[1]
      BY <1>8, <2>2
    <3>2. i # n /\ gs[i] = fs[i]
      BY <1>2, <1>3, <1>11, <3>1
    <3>3. fs[i].acb # t.acb
      BY <1>1, <1>3, <1>6, <3>1, <3>2
    <3>4. fs[i].acb[1] # t.acb[1]
      BY <1>1, <1>4, <1>5, <1>11, <3>1, <3>2, <3>3
    <3> QED BY <1>7, <3>1, <3>2, <3>4
  <2>3. ASSUME NEW x \in InCallback(fs), x # t.acb[1] PROVE x \in InCallback(gs)
    <3>1. PICK i \in 1..n : fs[i].pc = "cb" /\ x = fs[i].acb[1]
      BY <1>7, <2>3
    <3>2. i # n
      BY <1>1, <2>3, <3>1
    <3> QED BY <1>2, <1>3, <1>8, <3>1, <3>2
  <2>4. \A i, j \in 1..n : gs[i].pc = "cb" /\ gs[i].acb = gs[j].acb => i = j
    BY <1>1, <1>2, <1>3, <1>4, <1>6, <1>11
  <2> QED BY <1>9, <2>1, <2>2, <2>3, <2>4
<1>12. ASSUME t.pc # "cb", f.pc = "cb", f.acb[1] \notin InCallback(fs)
       PROVE  InCallback(gs) = InCallback(fs) \cup {f.acb[1]} /\ CalledOnce(gs)
  <2>1. ASSUME NEW x \in InCallback(gs) PROVE x \in InCallback(fs) \cup {f.acb[1]}
    BY <1>2, <1>3, <1>7, <1>8, <2>1
  <2>2. ASSUME NEW x \in InCallback(fs) PROVE x \in InCallback(gs)
    BY <1>1, <1>2, <1>3, <1>7, <1>8, <1>12, <2>2
  <2>3. f.acb[1] \in InCallback(gs)
    BY <1>2, <1>3, <1>8, <1>12
  <2>4. \A i \in 1..(n - 1) : fs[i].pc = "cb" => fs[i].acb # f.acb
    BY <1>3, <1>7, <1>12
  <2>5. \A i \in 1..(n - 1) : fs[i].pc # "cb" => fs[i].acb # f.acb
    BY <1>1, <1>3, <1>4, <1>12
  <2>6. \A i, j \in 1..n : gs[i].pc = "cb" /\ gs[i].acb = gs[j].acb => i = j
    BY <1>1, <1>2, <1>3, <1>6, <2>4, <2>5
  <2> QED BY <1>9, <2>1, <2>2, <2>3, <2>6
<1> QED BY <1>10, <1>11, <1>12 DEF gs, t

\* Ownership is preserved by every action.
LEMMA OwnershipStep ==
  ASSUME TypeOK, Ownership, TypeOK', Next
  PROVE  Ownership'
<1> DEFINE Listed == Range(first_aio)
           Queued == Range(request_list)
           Called == InCallback(frames)
<1>1. /\ request_list \in Seq(Reqs) /\ first_aio \in Seq(Reqs)
      /\ free \in SUBSET Reqs /\ ret \in [Reqs -> Results]
      /\ active \in [Reqs -> BOOLEAN] /\ tpc \in [Threads -> WorkerPCs]
      /\ task \in [Threads -> Opt(Reqs)] /\ frames \in Seq(Frame)
      /\ \A t \in Threads : (tpc[t] = "working") = (task[t] # <<>>)
  BY DEF TypeOK
<1>2. Listed \subseteq Reqs /\ Queued \subseteq Listed
  BY <1>1, SeqType DEF Ownership, Range
\* Actions that leave the lists, the aiocbs and the frames alone.
<1>3. ASSUME UNCHANGED <<request_list, first_aio, free, ret, active, task, frames,
                         victim>>,
             mpc' = "spin" => mpc = "spin",
             \A t \in Threads : tpc'[t] = "working" => tpc[t] = "working"
      PROVE  Ownership'
  BY <1>3 DEF Ownership
\* Actions that change no list and no aiocb, and start or end no callback.
<1>4. ASSUME UNCHANGED <<request_list, first_aio, free, ret, active, task, tpc, mpc,
                         victim>>,
             InCallback(frames') = Called, CalledOnce(frames')
      PROVE  Ownership'
  BY <1>4 DEF Ownership
\* A request is unlinked and released; no worker has it.
<1>5. ASSUME NEW r \in Listed, r \notin Queued,
             \A t \in Threads : tpc[t] = "working" => task[t][1] # r,
             first_aio' = Unlink(first_aio, r), free' = free \cup {r},
             UNCHANGED <<request_list, ret, active, task, tpc>>,
             InCallback(frames') = Called, CalledOnce(frames'),
             mpc' # "spin"
      PROVE  Ownership'
  <2>1. Range(first_aio') = Listed \ {r} /\ IsInjective(first_aio')
    BY SMTT(30), <1>1, <1>5, UnlinkProperties DEF Ownership
  <2> QED BY SMTT(30), <1>2, <1>5, <2>1 DEF Ownership
<1>6. ASSUME NEW r \in Reqs, NEW k \in Kinds, paio_submit(r, k)
      PROVE  Ownership'
  <2>1. r \in free /\ r \notin Listed /\ r \notin Queued /\ r \notin Called
    BY <1>2, <1>6 DEF paio_submit, Ownership
  <2>2. /\ Range(first_aio') = Listed \cup {r} /\ IsInjective(first_aio')
        /\ Range(request_list') = Queued \cup {r} /\ IsInjective(request_list')
    <3>1. first_aio' = Link(r, first_aio) /\ request_list' = Append(request_list, r)
      BY <1>6 DEF paio_submit
    <3>2. IsInjective(first_aio) /\ IsInjective(request_list)
      BY DEF Ownership
    <3>3. Range(first_aio') = Listed \cup {r} /\ IsInjective(first_aio')
      <4>1. /\ Range(Link(r, first_aio)) = Range(first_aio) \cup {r}
            /\ IsInjective(first_aio) /\ r \notin Range(first_aio) =>
                 IsInjective(Link(r, first_aio))
        BY <1>1, LinkProperties
      <4> QED BY <2>1, <3>1, <3>2, <4>1
    <3>4. Range(request_list') = Queued \cup {r} /\ IsInjective(request_list')
      BY <1>1, <2>1, <3>1, <3>2, AppendElements
    <3> QED BY <3>3, <3>4
  <2>3. /\ ret' = [ret EXCEPT ![r] = "EINPROGRESS"]
        /\ active' = [active EXCEPT ![r] = FALSE] /\ free' = free \ {r}
        /\ mpc' = "signal" /\ UNCHANGED <<tpc, task, frames, victim>>
    BY <1>6 DEF paio_submit
  <2>4. Range(request_list') = {q \in Range(first_aio') : ~active'[q]}
    BY <1>1, <1>2, <2>1, <2>2, <2>3 DEF Ownership
  <2>5. \A q \in Range(request_list') : ret'[q] = "EINPROGRESS"
    BY <1>1, <1>2, <2>1, <2>2, <2>3 DEF Ownership
  <2>6. \A t \in Threads : tpc[t] = "working" => task[t][1] \in Listed
    BY DEF Ownership
  <2>7. \A t \in Threads : tpc'[t] = "working" =>
          /\ task'[t][1] \in {q \in Range(first_aio') : active'[q]}
          /\ ret'[task'[t][1]] = "EINPROGRESS"
          /\ \A u \in Threads : task'[u] = task'[t] => u = t
    BY <1>1, <1>2, <2>1, <2>2, <2>3, <2>6 DEF Ownership
  <2> QED BY SMTT(30), <2>1, <2>2, <2>3, <2>4, <2>5, <2>7 DEF Ownership
<1>7. ASSUME cond_signal PROVE Ownership'
  BY <1>1, <1>3, <1>7 DEF cond_signal, reqVars
<1>8. ASSUME NEW r \in Reqs, paio_cancel(r) PROVE Ownership'
  <2>1. r \in Listed /\ mpc # "spin" /\ UNCHANGED <<active, tpc, task, frames>>
    BY SMTT(30), <1>8 DEF paio_cancel, MainRuns
  <2>2. CASE ~active[r]
    <3>1. /\ request_list' = Unlink(request_list, r)
          /\ first_aio' = Unlink(first_aio, r) /\ free' = free \cup {r}
          /\ ret' = [ret EXCEPT ![r] = "ECANCELED"] /\ UNCHANGED <<mpc, victim>>
      BY SMTT(30), <1>8, <2>2 DEF paio_cancel, paio_remove
    <3>2. r \in Queued
      BY SMTT(30), <2>1, <2>2 DEF Ownership
    <3>3. /\ Range(first_aio') = Listed \ {r} /\ IsInjective(first_aio')
          /\ Range(request_list') = Queued \ {r} /\ IsInjective(request_list')
      BY SMTT(30), <1>1, <2>1, <3>1, <3>2, UnlinkProperties DEF Ownership
    <3>4. \A t \in Threads : tpc[t] = "working" => task[t][1] # r
      BY <2>2 DEF Ownership
    <3>5. \A t \in Threads : tpc'[t] = "working" =>
            /\ task'[t][1] \in {q \in Range(first_aio') : active'[q]}
            /\ ret'[task'[t][1]] = "EINPROGRESS"
            /\ \A u \in Threads : task'[u] = task'[t] => u = t
      BY <1>1, <1>2, <2>1, <3>1, <3>3, <3>4 DEF Ownership
    <3>6. \A q \in Range(request_list') : ret'[q] = "EINPROGRESS"
      BY <1>1, <1>2, <3>1, <3>3 DEF Ownership
    <3> QED BY SMTT(30), <1>2, <2>1, <3>1, <3>3, <3>5, <3>6 DEF Ownership
  <2>3. CASE active[r] /\ ret[r] # "EINPROGRESS"
    <3>1. /\ r \notin Queued
          /\ \A t \in Threads : tpc[t] = "working" => task[t][1] # r
      BY <2>3 DEF Ownership
    <3>2. CalledOnce(frames)
      BY SMTT(30) DEF Ownership
    <3> QED BY <1>5, <1>8, <2>1, <2>3, <3>1, <3>2 DEF paio_cancel, paio_remove
  <2>4. CASE active[r] /\ ret[r] = "EINPROGRESS"
    <3>1. mpc' = "spin" /\ victim' = <<r>> /\ UNCHANGED <<request_list, ret, reqVars>>
      BY <1>8, <2>4 DEF paio_cancel
    <3> QED BY <2>1, <2>4, <3>1 DEF Ownership, reqVars
  <2> QED BY <1>8, <2>2, <2>3, <2>4 DEF paio_cancel
<1>9. ASSUME CancelSpinEnds PROVE Ownership'
  <2>1. PICK r : r = victim[1] /\ r \in Listed /\ active[r] /\ ret[r] # "EINPROGRESS"
    BY <1>9 DEF CancelSpinEnds, Ownership
  <2>2. /\ r \notin Queued
        /\ \A t \in Threads : tpc[t] = "working" => task[t][1] # r
    BY <2>1 DEF Ownership
  <2>3. CalledOnce(frames)
    BY DEF Ownership
  <2> QED BY <1>5, <1>9, <2>1, <2>2, <2>3 DEF CancelSpinEnds, paio_remove
<1>10. ASSUME spawn_thread_bh_fn PROVE Ownership'
  BY <1>3, <1>10 DEF spawn_thread_bh_fn, reqVars
<1>11. ASSUME NEW u \in Threads, MainCreates(u) PROVE Ownership'
  BY <1>1, <1>3, <1>11 DEF MainCreates, reqVars
<1>12. ASSUME posix_aio_read PROVE Ownership'
  <2>1. /\ [pc |-> "drain", pos |-> 0, acb |-> <<>>] \in Frame
        /\ [pc |-> "drain", pos |-> 0, acb |-> <<>>].pc # "cb"
    BY DEF Frame, FramePCs, Opt
  <2>2. InCallback(frames') = Called /\ CalledOnce(frames')
    BY <1>1, <1>12, <2>1, PushFrame DEF posix_aio_read, Ownership
  <2> QED BY <1>4, <1>12, <2>2 DEF posix_aio_read, reqVars
<1>13. ASSUME ReadPipe PROVE Ownership'
  <2>1. frames # <<>> /\ Peek(frames).pc # "cb"
    BY <1>13 DEF ReadPipe, InRead, Top
  <2>2. Scan(1) \in Frame /\ Scan(1).pc # "cb"
    BY ScanFrame DEF Scan
  <2>3. CalledOnce(frames)
    BY DEF Ownership
  <2>4. /\ InCallback(Append(Pop(frames), Scan(1))) = Called
        /\ CalledOnce(Append(Pop(frames), Scan(1)))
    BY <1>1, <2>1, <2>2, <2>3, ChangeFrame
  <2>5. InCallback(frames') = Called /\ CalledOnce(frames')
    BY Zenon, <1>13, <2>3, <2>4 DEF ReadPipe, SetTop
  <2> QED BY <1>4, <1>13, <2>5 DEF ReadPipe, reqVars
<1>14. ASSUME ScanStep PROVE Ownership'
  <2>1. /\ frames # <<>> /\ Peek(frames).pc = "scan" /\ Top = Peek(frames)
        /\ Peek(frames) \in Frame /\ CalledOnce(frames) /\ mpc = "run"
    BY <1>1, <1>14, FrameTypes DEF ScanStep, InRead, Top, Ownership
  <2>2. Top.pos \in 1..Len(first_aio)
    BY SMTT(30), <1>1, <1>14, <2>1, SeqType DEF ScanStep, Frame
  <2>3. PICK r \in Listed : r = first_aio[Top.pos]
    BY <1>1, <2>2, SeqType DEF Range
  <2>4. UNCHANGED <<request_list, ret, active, tpc, task, mpc, victim>>
    BY <1>14 DEF ScanStep
  <2>5. ret[r] # "EINPROGRESS" =>
          /\ r \notin Queued
          /\ \A t \in Threads : tpc[t] = "working" => task[t][1] # r
    BY DEF Ownership
  <2>6. CASE ret[r] = "ECANCELED"
    <3>1. first_aio' = Unlink(first_aio, r) /\ free' = free \cup {r}
          /\ UNCHANGED frames
      BY <1>14, <2>3, <2>6 DEF ScanStep, paio_remove, Done
    <3> QED BY <1>5, <2>1, <2>3, <2>4, <2>5, <2>6, <3>1
  <2>7. CASE ret[r] = "EINPROGRESS"
    <3>1. frames' = Append(Pop(frames), Scan(Top.pos + 1)) /\ UNCHANGED reqVars
      BY <1>14, <2>3, <2>7 DEF ScanStep, SetTop, Done
    <3>2. Scan(Top.pos + 1) \in Frame /\ Scan(Top.pos + 1).pc # "cb"
      BY <1>1, <2>2, ScanFrame, SeqType DEF Scan
    <3>3. InCallback(frames') = Called /\ CalledOnce(frames')
      BY <1>1, <2>1, <3>1, <3>2, ChangeFrame
    <3> QED BY <1>4, <2>4, <3>1, <3>3 DEF reqVars
  <2>8. CASE ret[r] \in Done
    <3> DEFINE f == [pc |-> "cb", pos |-> 0, acb |-> <<r>>]
    <3>1. /\ first_aio' = Unlink(first_aio, r) /\ UNCHANGED free
          /\ frames' = Append(Pop(frames), f)
      BY <1>14, <2>3, <2>8 DEF ScanStep, SetTop, Done
    <3>2. f \in Frame /\ f.pc = "cb" /\ f.acb[1] = r
      <4>1. <<r>> \in Opt(Reqs) /\ <<r>> # <<>> /\ <<r>>[1] = r
        BY <1>2 DEF Opt
      <4> QED BY Zenon, <4>1, CallbackFrame
    <3> HIDE DEF f
    <3>3. r \notin Called /\ r \notin free
      BY <2>3 DEF Ownership
    <3>4. InCallback(frames') = Called \cup {r} /\ CalledOnce(frames')
      BY <1>1, <2>1, <3>1, <3>2, <3>3, ChangeFrame
    <3>5. Range(first_aio') = Listed \ {r} /\ IsInjective(first_aio')
      BY SMTT(30), <1>1, <2>3, <3>1, UnlinkProperties DEF Ownership
    <3>6. ret[r] # "EINPROGRESS"
      BY <2>8 DEF Done
    <3>7. /\ (free' \cup InCallback(frames')) \cap Range(first_aio') = {}
          /\ free' \cap InCallback(frames') = {}
      <4>1. (free \cup Called) \cap Listed = {} /\ free \cap Called = {}
        BY Zenon DEF Ownership
      <4> QED BY <3>1, <3>3, <3>4, <3>5, <4>1
    <3>8. Queued = {q \in Range(first_aio') : ~active[q]}
      <4>1. Queued = {q \in Listed : ~active[q]} /\ r \notin Queued
        BY <2>5, <3>6 DEF Ownership
      <4> QED BY <3>5, <4>1
    <3>9. \A t \in Threads : tpc[t] = "working" =>
            /\ task[t][1] \in {q \in Range(first_aio') : active[q]}
            /\ ret[task[t][1]] = "EINPROGRESS"
            /\ \A u \in Threads : task[u] = task[t] => u = t
      BY <2>5, <3>5, <3>6 DEF Ownership
    <3>10. IsInjective(request_list) /\ \A q \in Queued : ret[q] = "EINPROGRESS"
      BY Zenon DEF Ownership
    <3> QED BY Zenon, <2>1, <2>4, <3>4, <3>5, <3>7, <3>8, <3>9, <3>10 DEF Ownership
  <2> QED BY <1>14, <2>3, <2>6, <2>7, <2>8 DEF ScanStep
<1>15. ASSUME ScanEnds PROVE Ownership'
  <2>1. frames # <<>> /\ Peek(frames).pc # "cb" /\ CalledOnce(frames)
    BY <1>15 DEF ScanEnds, InRead, Top, Ownership
  <2>2. InCallback(frames') = Called /\ CalledOnce(frames')
    BY <1>1, <1>15, <2>1, PopFrame DEF ScanEnds
  <2> QED BY <1>4, <1>15, <2>2 DEF ScanEnds, reqVars
<1>16. ASSUME CallbackReturns PROVE Ownership'
  <2>1. frames # <<>> /\ Peek(frames).pc = "cb" /\ CalledOnce(frames)
    BY <1>16 DEF CallbackReturns, InRead, Top, Ownership
  <2>2. Scan(1) \in Frame /\ Scan(1).pc # "cb"
    BY ScanFrame DEF Scan
  <2>3. PICK r : r = Peek(frames).acb[1]
    OBVIOUS
  <2>4. frames' = Append(Pop(frames), Scan(1)) /\ free' = free \cup {r}
    BY <1>16, <2>3 DEF CallbackReturns, SetTop, Top
  <2>5. /\ r \in Called /\ InCallback(frames') = Called \ {r} /\ CalledOnce(frames')
    BY <1>1, <2>1, <2>2, <2>3, <2>4, ChangeFrame
  <2>6. UNCHANGED <<request_list, first_aio, ret, active, task, tpc, mpc, victim>>
    BY <1>16 DEF CallbackReturns
  <2>7. (free \cup Called) \cap Listed = {} /\ free \cap Called = {}
    BY Zenon DEF Ownership
  <2>8. /\ (free' \cup InCallback(frames')) \cap Listed = {}
        /\ free' \cap InCallback(frames') = {}
    BY <2>4, <2>5, <2>7
  <2> QED BY Zenon, <2>5, <2>6, <2>8 DEF Ownership
<1>17. ASSUME NEW t \in Threads, TakeRequest(t) PROVE Ownership'
  <2>1. PICK r \in Queued : r = Head(request_list)
    BY <1>1, <1>17, TailElements DEF TakeRequest
  <2>2. Range(request_list') = Queued \ {r} /\ IsInjective(request_list')
    BY <1>1, <1>17, <2>1, TailElements DEF TakeRequest, Ownership
  <2>3. /\ active' = [active EXCEPT ![r] = TRUE] /\ task' = [task EXCEPT ![t] = <<r>>]
        /\ tpc' = [tpc EXCEPT ![t] = "working"] /\ tpc[t] # "working"
        /\ UNCHANGED <<first_aio, free, ret, frames, mpc, victim>>
    BY <1>17, <2>1 DEF TakeRequest, Checks, reqVars, mainVars
  <2>4. r \in Listed /\ r \in Reqs /\ ~active[r] /\ ret[r] = "EINPROGRESS"
    BY <1>2, <2>1 DEF Ownership
  <2>5. \A u \in Threads : task[u] # <<>> => task[u][1] # r
    BY <1>1, <2>4 DEF Ownership
  <2>6. \A u \in Threads : task[u] # <<r>>
    <3>1. <<r>> # <<>> /\ <<r>>[1] = r
      OBVIOUS
    <3> QED BY Zenon, <2>5, <3>1
  <2>7. Range(request_list') = {q \in Range(first_aio') : ~active'[q]}
    BY <1>1, <1>2, <2>2, <2>3, <2>4 DEF Ownership
  <2>8. mpc' = "spin" => victim'[1] \in {q \in Range(first_aio') : active'[q]}
    BY <1>1, <1>2, <2>3, <2>4 DEF Ownership
  <2>9. ASSUME NEW u \in Threads, tpc'[u] = "working"
        PROVE  /\ task'[u][1] \in {q \in Range(first_aio') : active'[q]}
               /\ ret'[task'[u][1]] = "EINPROGRESS"
               /\ \A v \in Threads : task'[v] = task'[u] => v = u
    <3>1. CASE u = t
      <4>1. task'[u] = <<r>> /\ task'[u][1] = r
        BY <1>1, <2>3, <3>1
      <4> QED BY Zenon, <1>1, <1>2, <2>3, <2>4, <2>6, <3>1, <4>1
    <3>2. CASE u # t
      <4>1. task'[u] = task[u] /\ tpc[u] = "working"
        BY <1>1, <2>3, <2>9, <3>2
      <4>2. /\ task[u][1] \in {q \in Listed : active[q]}
            /\ ret[task[u][1]] = "EINPROGRESS"
            /\ \A v \in Threads : task[v] = task[u] => v = u
        BY SMTT(30), <4>1 DEF Ownership
      <4> QED BY <1>1, <1>2, <2>3, <2>4, <2>6, <3>2, <4>1, <4>2
    <3> QED BY <3>1, <3>2
  <2> QED BY <2>2, <2>3, <2>7, <2>8, <2>9 DEF Ownership
<1>18. ASSUME NEW t \in Threads, StoreResult(t) PROVE Ownership'
  <2>1. task[t] # <<>> /\ task[t] \in Opt(Reqs) /\ tpc[t] = "working"
    BY <1>1, <1>18 DEF StoreResult
  <2>2. PICK r \in Reqs : r = task[t][1] /\ task[t] = <<r>>
    BY <2>1 DEF Opt
  <2>3. PICK res : ret' = [ret EXCEPT ![r] = res]
    BY Zenon, <1>18, <2>2 DEF StoreResult
  <2>4. /\ task' = [task EXCEPT ![t] = <<>>] /\ tpc' = [tpc EXCEPT ![t] = "notify"]
        /\ UNCHANGED <<request_list, first_aio, free, active, frames, mpc, victim>>
    BY <1>18 DEF StoreResult, reqVars, mainVars
  <2>5. r \in Listed /\ active[r] /\ r \notin Queued
    BY <2>1, <2>2 DEF Ownership
  <2>6. \A q \in Range(request_list') : ret'[q] = "EINPROGRESS"
    BY <1>1, <1>2, <2>3, <2>4, <2>5 DEF Ownership
  <2>7. ASSUME NEW u \in Threads, tpc'[u] = "working"
        PROVE  /\ task'[u][1] \in {q \in Range(first_aio') : active'[q]}
               /\ ret'[task'[u][1]] = "EINPROGRESS"
               /\ \A v \in Threads : task'[v] = task'[u] => v = u
    <3>1. u # t /\ tpc[u] = "working" /\ task'[u] = task[u]
      BY <1>1, <2>4, <2>7
    <3>2. /\ task[u][1] \in {q \in Listed : active[q]}
          /\ ret[task[u][1]] = "EINPROGRESS"
          /\ \A v \in Threads : task[v] = task[u] => v = u
      BY <3>1 DEF Ownership
    <3>3. task[u] # task[t] /\ task[u] # <<>> /\ task[u] \in Opt(Reqs)
      BY <1>1, <3>1, <3>2
    <3>4. task[u][1] # r
      BY <2>2, <3>3 DEF Opt
    <3> QED BY <1>1, <1>2, <2>3, <2>4, <3>1, <3>2, <3>3, <3>4
  <2> QED BY <2>4, <2>6, <2>7 DEF Ownership
<1>19. ASSUME NEW t \in Threads,
              \/ ThreadStart(t) \/ ThreadSpawns(t)
              \/ \E u \in Threads : ThreadCreates(t, u)
              \/ WaitForWork(t) \/ ThreadExits(t) \/ WaitReturns(t)
              \/ posix_aio_notify_event(t)
       PROVE  Ownership'
  <2>1. \A u \in Threads : tpc'[u] = "working" => tpc[u] = "working"
    BY Zenon, <1>1, <1>19 DEF ThreadStart, ThreadSpawns, ThreadCreates, WaitForWork,
                       ThreadExits, WaitReturns, posix_aio_notify_event
  <2>2. UNCHANGED <<request_list, reqVars, ret, active, task, mainVars>>
    BY <1>19 DEF ThreadStart, ThreadSpawns, ThreadCreates, WaitForWork,
                 ThreadExits, WaitReturns, posix_aio_notify_event
  <2> QED BY <1>3, <2>1, <2>2 DEF reqVars, mainVars
<1> QED BY <1>6, <1>7, <1>8, <1>9, <1>10, <1>11, <1>12, <1>13, <1>14, <1>15,
           <1>16, <1>17, <1>18, <1>19 DEF Next, MainNext, WorkerNext
=============================================================================
