----------------------------- MODULE EventLoop -----------------------------
(***************************************************************************)
(* The code that runs callbacks: bottom halves (async.c), the handlers     *)
(* that qemu_aio_wait dispatches (aio.c), the file descriptor handlers of  *)
(* the main loop (iohandler.c) and main_loop_wait, which drives them       *)
(* (main-loop.c).  All of it runs under the global mutex, but a callback   *)
(* may change the list that is being walked, and may call qemu_aio_wait,   *)
(* which walks it again.  The walks in progress are a stack of frames, the *)
(* innermost last; a frame holds what its C function has in locals.  Only  *)
(* qemu_bh_schedule is called at any moment, by a signal handler.          *)
(***************************************************************************)
EXTENDS Naturals, Sequences, FiniteSets, Lists

CONSTANTS
  Scopes,       \* bound: the bottom halves, nodes and descriptors of a behaviour
  Events,       \* the events handlers are registered for: sets of "r", "w"
  MaxWait,      \* bound: nested calls of qemu_aio_wait
  MaxBusy,      \* bound: outstanding requests of a file descriptor
  Signals,      \* whether a signal handler schedules bottom halves
  HandlersWait  \* whether a handler called by qemu_aio_wait calls it again

ASSUME EventLoopAssumption ==
  /\ Events \subseteq (SUBSET {"r", "w"} \ {{}})
  /\ MaxWait \in Nat /\ MaxBusy \in Nat
  /\ Signals \in BOOLEAN /\ HandlersWait \in BOOLEAN

\* Bottom halves and AioHandler nodes (the memory of a freed one is allocated
\* again), and file descriptors.
Bhs   == UNION {s.bhs : s \in Scopes}
Nodes == UNION {s.nodes : s \in Scopes}
Fds   == UNION {s.fds : s \in Scopes}

VARIABLES
  scope,             \* the scope of this behaviour
  first_bh,          \* the list of bottom halves, newest first
  scheduled, idle, deleted,  \* the bottom halves with that flag set
  nesting,           \* the static counter of qemu_bh_poll
  aio_handlers,      \* the list of nodes, newest first
  node,              \* the fields of each node
  walking_handlers,
  io_handlers,       \* the main loop's records, named by their fd, newest first
  ioh,               \* the fields of each record
  busy,              \* outstanding requests of each fd, what io_flush reports
  stack              \* the walks in progress

bhVars  == <<first_bh, scheduled, idle, deleted, nesting>>
aioVars == <<aio_handlers, node, walking_handlers>>
iohVars == <<io_handlers, ioh>>
vars == <<bhVars, aioVars, iohVars, busy, stack, scope>>

Opt(S)   == {<<>>} \cup {<<x>> : x \in S}   \* a pointer to an S, or NULL
Walks    == {"read", "in_read", "write", "in_write", "next"}
NoNode   == [fd |-> CHOOSE fd \in Fds : TRUE, ev |-> {}, flush |-> FALSE,
             deleted |-> FALSE]
NoRecord == [ev |-> {}, deleted |-> FALSE]

\* Frames.  at is the list element a walk looks at or, in a callback, the next
\* one if the C code has fetched it already.  due is history: what was
\* scheduled when the walk over the bottom halves began and has not run since.
PollFrame == [fn : {"bh_poll"}, pc : {"walk", "cb"}, at : Opt(Bhs),
              ret : BOOLEAN, due : SUBSET Bhs]
WaitFrame == [fn : {"aio_wait"}, pc : {"poll", "fill", "select"} \cup Walks,
              at : Opt(Nodes), rd : SUBSET Fds, wr : SUBSET Fds]
LoopFrame == [fn : {"main_loop"}, pc : {"select"} \cup Walks,
              at : Opt(Fds), next : Opt(Fds), rd : SUBSET Fds, wr : SUBSET Fds]

Init ==
  /\ scope \in Scopes
  /\ first_bh = <<>> /\ scheduled = {} /\ idle = {} /\ deleted = {}
  /\ nesting = 0
  /\ aio_handlers = <<>> /\ node = [n \in Nodes |-> NoNode]
  /\ walking_handlers = 0
  /\ io_handlers = <<>> /\ ioh = [fd \in Fds |-> NoRecord]
  /\ busy = [fd \in Fds |-> 0]
  /\ stack = <<>>

Top       == Peek(stack)
At(fn, pc) == stack # <<>> /\ Top.fn = fn /\ Top.pc = pc
Goto(f)   == stack' = Append(Pop(stack), f)
Return    == stack' = Pop(stack)

\* Code that uses the event loop runs: between iterations, while the main loop
\* has given up the mutex in select, or in a callback.
InCallback == stack # <<>> /\ Top.pc \in {"cb", "in_read", "in_write"}
UserRuns   == stack = <<>> \/ At("main_loop", "select") \/ InCallback

-----------------------------------------------------------------------------
(* Bottom halves: async.c *)

\* The bottom halves a caller may name: allocated and not deleted.
Usable == Range(first_bh) \ deleted

qemu_bh_new(b) ==
  /\ UserRuns /\ b \notin Range(first_bh)
  /\ first_bh' = Link(b, first_bh)
  /\ UNCHANGED <<scheduled, idle, deleted, nesting, aioVars, iohVars, busy, stack>>

qemu_bh_schedule_idle(b) ==
  /\ UserRuns /\ b \in Usable \ scheduled
  /\ scheduled' = scheduled \cup {b}
  /\ idle' = idle \cup {b}
  /\ UNCHANGED <<first_bh, deleted, nesting, aioVars, iohVars, busy, stack>>

qemu_bh_schedule(b) ==
  /\ UserRuns \/ Signals
  /\ b \in Usable \ scheduled
  /\ scheduled' = scheduled \cup {b}
  /\ idle' = idle \ {b}
  /\ UNCHANGED <<first_bh, deleted, nesting, aioVars, iohVars, busy, stack>>

\* History: no walk owes b a run any more.
Settle(b, fs) ==
  [i \in DOMAIN fs |-> IF fs[i].fn = "bh_poll" THEN [fs[i] EXCEPT !.due = @ \ {b}]
                                               ELSE fs[i]]

qemu_bh_cancel(b) ==
  /\ UserRuns /\ b \in Usable
  /\ scheduled' = scheduled \ {b}
  /\ stack' = Settle(b, stack)
  /\ UNCHANGED <<first_bh, idle, deleted, nesting, aioVars, iohVars, busy>>

qemu_bh_delete(b) ==
  /\ UserRuns /\ b \in Usable
  /\ scheduled' = scheduled \ {b}
  /\ deleted' = deleted \cup {b}
  /\ stack' = Settle(b, stack)
  /\ UNCHANGED <<first_bh, idle, nesting, aioVars, iohVars, busy>>

\* The frame of a qemu_bh_poll that begins.
NewPoll == [fn |-> "bh_poll", pc |-> "walk", at |-> First(first_bh),
            ret |-> FALSE, due |-> scheduled \ deleted]

\* Mutants: the poll ends after one callback, or idle bottom halves are left out.
M_PollVisit_one ==
  /\ At("bh_poll", "walk") /\ Top.at # <<>>
  /\ LET b == Top.at[1] IN
       IF b \notin deleted /\ b \in scheduled
         THEN /\ scheduled' = scheduled \ {b}
              /\ idle' = idle \ {b}
              /\ stack' = Settle(b, Append(Pop(stack),
                   [Top EXCEPT !.at = <<>>, !.pc = "cb", !.ret = @ \/ b \notin idle]))
         ELSE /\ Goto([Top EXCEPT !.at = After(first_bh, b)])
              /\ UNCHANGED <<scheduled, idle>>
  /\ UNCHANGED <<first_bh, deleted, nesting, aioVars, iohVars, busy>>


\* One iteration of the loop of qemu_bh_poll.
PollVisit ==
  /\ At("bh_poll", "walk") /\ Top.at # <<>>
  /\ LET b == Top.at[1]
         f == [Top EXCEPT !.at = After(first_bh, b)]
     IN  IF b \notin deleted /\ b \in scheduled
           THEN /\ scheduled' = scheduled \ {b}
                /\ idle' = idle \ {b}
                /\ stack' = Settle(b, Append(Pop(stack),
                     [f EXCEPT !.pc = "cb", !.ret = @ \/ b \notin idle]))
           ELSE Goto(f) /\ UNCHANGED <<scheduled, idle>>
  /\ UNCHANGED <<first_bh, deleted, nesting, aioVars, iohVars, busy>>

\* The frames of the stack fs once its innermost qemu_bh_poll has returned.
AfterPoll(fs) ==
  LET below == Pop(fs) IN
    IF below = <<>> \/ Peek(below).fn # "aio_wait" \/ Peek(below).pc # "poll"
      THEN below
      ELSE IF Peek(fs).ret THEN Pop(below)
           ELSE Append(Pop(below), [Peek(below) EXCEPT !.pc = "fill"])

\* Mutant: every call frees the deleted ones.
M_PollEnds_free ==
  /\ At("bh_poll", "walk") /\ Top.at = <<>>
  /\ nesting' = nesting - 1
  /\ first_bh' = SelectSeq(first_bh, LAMBDA b : b \notin deleted)
  /\ idle' = idle \ deleted
  /\ deleted' = {}
  /\ stack' = AfterPoll(stack)
  /\ UNCHANGED <<scheduled, aioVars, iohVars, busy>>

\* The end of qemu_bh_poll: the outermost call frees the deleted ones.
PollEnds ==
  /\ At("bh_poll", "walk") /\ Top.at = <<>>
  /\ nesting' = nesting - 1
  /\ IF nesting' = 0
       THEN /\ first_bh' = SelectSeq(first_bh, LAMBDA b : b \notin deleted)
            /\ idle' = idle \ deleted
            /\ deleted' = {}
       ELSE UNCHANGED <<first_bh, idle, deleted>>
  /\ stack' = AfterPoll(stack)
  /\ UNCHANGED <<scheduled, aioVars, iohVars, busy>>

-----------------------------------------------------------------------------
(* Registration of handlers: aio.c and iohandler.c *)

\* The nodes of fd that find_aio_handler accepts; it returns the first.
Live(fd) == {n \in Range(aio_handlers) : node[n].fd = fd /\ ~node[n].deleted}

find_aio_handler(fd) ==
  CHOOSE n \in Live(fd) :
    \A i, j \in 1..Len(aio_handlers) :
      aio_handlers[i] = n /\ aio_handlers[j] \in Live(fd) => i <= j

\* Mutant: a deleted record that is used again stays marked.
M_set_fd_handler2_marked(fd, ev) ==
  IF ev = {}
    THEN /\ ioh' = IF fd \in Range(io_handlers)
                     THEN [ioh EXCEPT ![fd].deleted = TRUE] ELSE ioh
         /\ UNCHANGED io_handlers
    ELSE /\ ioh' = [ioh EXCEPT ![fd].ev = ev]
         /\ io_handlers' = IF fd \in Range(io_handlers) THEN io_handlers
                                                        ELSE Link(fd, io_handlers)

\* A deleted record of fd is used again.
qemu_set_fd_handler2(fd, ev) ==
  IF ev = {}
    THEN /\ ioh' = IF fd \in Range(io_handlers)
                     THEN [ioh EXCEPT ![fd].deleted = TRUE] ELSE ioh
         /\ UNCHANGED io_handlers
    ELSE /\ ioh' = [ioh EXCEPT ![fd] = [ev |-> ev, deleted |-> FALSE]]
         /\ io_handlers' = IF fd \in Range(io_handlers) THEN io_handlers
                                                        ELSE Link(fd, io_handlers)

\* Mutant: the lock walking_handlers is ignored.
M_RemoveHandler_now(fd) ==
  IF Live(fd) = {} THEN UNCHANGED <<aio_handlers, node>>
  ELSE LET n == find_aio_handler(fd) IN
    /\ aio_handlers' = Unlink(aio_handlers, n)
    /\ node' = [node EXCEPT ![n] = NoNode]

RemoveHandler(fd) ==
  IF Live(fd) = {} THEN UNCHANGED <<aio_handlers, node>>
  ELSE LET n == find_aio_handler(fd) IN
    IF walking_handlers = 1
      THEN /\ node' = [node EXCEPT ![n].deleted = TRUE]
           /\ UNCHANGED aio_handlers
      ELSE /\ aio_handlers' = Unlink(aio_handlers, n)
           /\ node' = [node EXCEPT ![n] = NoNode]

\* n is the new node if fd has none.
AddHandler(fd, ev, flush, n) ==
  LET new == [fd |-> fd, ev |-> ev, flush |-> flush, deleted |-> FALSE]
  IN  IF Live(fd) = {}
        THEN /\ n \notin Range(aio_handlers)
             /\ aio_handlers' = Link(n, aio_handlers)
             /\ node' = [node EXCEPT ![n] = new]
        ELSE /\ n = find_aio_handler(fd)
             /\ node' = [node EXCEPT ![n] = new]
             /\ UNCHANGED aio_handlers

qemu_aio_set_fd_handler(fd, ev) ==
  /\ UserRuns
  /\ IF ev = {}
       THEN RemoveHandler(fd)
       ELSE \E n \in scope.nodes, flush \in BOOLEAN : AddHandler(fd, ev, flush, n)
  /\ qemu_set_fd_handler2(fd, ev)
  /\ UNCHANGED <<bhVars, walking_handlers, busy, stack>>

\* A request is submitted; completions are the work of the read handler.
Submit(fd) ==
  /\ UserRuns /\ Live(fd) # {} /\ busy[fd] < MaxBusy
  /\ busy' = [busy EXCEPT ![fd] = @ + 1]
  /\ UNCHANGED <<bhVars, aioVars, iohVars, stack>>

ReadHandler(fd) == busy' = [busy EXCEPT ![fd] = IF @ > 0 THEN @ - 1 ELSE 0]

\* A callback returns to the walk that called it.
CallbackReturns ==
  /\ InCallback
  /\ Goto([Top EXCEPT !.pc = CASE @ = "cb" -> "walk"
                               [] @ = "in_read" -> "write"
                               [] @ = "in_write" -> "next"])
  /\ UNCHANGED <<bhVars, aioVars, iohVars, busy>>

-----------------------------------------------------------------------------
(* qemu_aio_wait: aio.c *)

qemu_aio_wait ==
  /\ UserRuns
  /\ Cardinality({i \in DOMAIN stack : stack[i].fn = "aio_wait"}) < MaxWait
  /\ InCallback /\ Top.fn = "aio_wait" => HandlersWait
  /\ nesting' = nesting + 1
  /\ stack' = stack \o <<[fn |-> "aio_wait", pc |-> "poll", at |-> <<>>,
                          rd |-> {}, wr |-> {}], NewPoll>>
  /\ UNCHANGED <<first_bh, scheduled, idle, deleted, aioVars, iohVars, busy>>

\* The nodes whose descriptors are waited for: io_flush is asked even if the
\* node is deleted.
Polled == {n \in Range(aio_handlers) :
             /\ node[n].flush => busy[node[n].fd] > 0
             /\ ~node[n].deleted}
AnyBusy == \E n \in Range(aio_handlers) : node[n].flush /\ busy[node[n].fd] > 0

Fill ==
  /\ At("aio_wait", "fill")
  /\ walking_handlers' = 0
  /\ IF AnyBusy
       THEN Goto([Top EXCEPT !.pc = "select",
                   !.rd = {node[n].fd : n \in {m \in Polled : "r" \in node[m].ev}},
                   !.wr = {node[n].fd : n \in {m \in Polled : "w" \in node[m].ev}}])
       ELSE Return
  /\ UNCHANGED <<bhVars, aio_handlers, node, iohVars, busy>>

\* select returns ready descriptors, or an error.
SelectReturns ==
  /\ At("aio_wait", "select")
  /\ \/ \E rd \in SUBSET Top.rd, wr \in SUBSET Top.wr :
          /\ rd \cup wr # {}
          /\ Goto([Top EXCEPT !.pc = "read", !.rd = rd, !.wr = wr,
                              !.at = First(aio_handlers)])
          /\ walking_handlers' = 1
     \/ Return /\ UNCHANGED walking_handlers
  /\ UNCHANGED <<bhVars, aio_handlers, node, iohVars, busy>>

\* The walk looks at node n, whose memory must not have been freed: what a
\* read of a freed node does is not modelled.
Visits(fn, pc) == At(fn, pc) /\ Top.at # <<>>
AtNode(pc) == Visits("aio_wait", pc) /\ Top.at[1] \in Range(aio_handlers)

WaitReads ==
  /\ AtNode("read")
  /\ LET h == node[Top.at[1]] IN
       IF ~h.deleted /\ h.fd \in Top.rd /\ "r" \in h.ev
         THEN Goto([Top EXCEPT !.pc = "in_read"]) /\ ReadHandler(h.fd)
         ELSE Goto([Top EXCEPT !.pc = "write"]) /\ UNCHANGED busy
  /\ UNCHANGED <<bhVars, aioVars, iohVars>>

WaitWrites ==
  /\ AtNode("write")
  /\ LET h == node[Top.at[1]] IN
       IF ~h.deleted /\ h.fd \in Top.wr /\ "w" \in h.ev
         THEN Goto([Top EXCEPT !.pc = "in_write"])
         ELSE Goto([Top EXCEPT !.pc = "next"])
  /\ UNCHANGED <<bhVars, aioVars, iohVars, busy>>

WaitAdvances ==
  /\ AtNode("next")
  /\ LET n == Top.at[1] IN
       /\ Goto([Top EXCEPT !.pc = "read", !.at = After(aio_handlers, n)])
       /\ IF node[n].deleted
            THEN /\ aio_handlers' = Unlink(aio_handlers, n)
                 /\ node' = [node EXCEPT ![n] = NoNode]
            ELSE UNCHANGED <<aio_handlers, node>>
  /\ UNCHANGED <<bhVars, walking_handlers, iohVars, busy>>

WaitEnds ==
  /\ At("aio_wait", "read") /\ Top.at = <<>>
  /\ walking_handlers' = 0
  /\ Return
  /\ UNCHANGED <<bhVars, aio_handlers, node, iohVars, busy>>

-----------------------------------------------------------------------------
(* The main loop: main_loop_wait and qemu_iohandler_poll *)

\* fd_read_poll may hold back any descriptor.
main_loop_wait ==
  /\ stack = <<>>
  /\ LET on == {fd \in Range(io_handlers) : ~ioh[fd].deleted} IN
       \E rd \in SUBSET {fd \in on : "r" \in ioh[fd].ev} :
         stack' = <<[fn |-> "main_loop", pc |-> "select", at |-> <<>>,
                     next |-> <<>>, rd |-> rd,
                     wr |-> {fd \in on : "w" \in ioh[fd].ev}]>>
  /\ UNCHANGED <<bhVars, aioVars, iohVars, busy>>

\* The walk to the record at, with the following one fetched in advance.
LoopAt(f, at) == [f EXCEPT !.pc = "read", !.at = at,
                  !.next = IF at = <<>> THEN <<>> ELSE After(io_handlers, at[1])]

\* Select ends with ready descriptors or, at a timeout, with none.
LoopSelects ==
  /\ At("main_loop", "select")
  /\ \E rd \in SUBSET Top.rd, wr \in SUBSET Top.wr :
       Goto(LoopAt([Top EXCEPT !.rd = rd, !.wr = wr],
                   IF rd \cup wr = {} THEN <<>> ELSE First(io_handlers)))
  /\ UNCHANGED <<bhVars, aioVars, iohVars, busy>>

LoopReads ==
  /\ Visits("main_loop", "read")
  /\ LET fd == Top.at[1] IN
       IF ~ioh[fd].deleted /\ "r" \in ioh[fd].ev /\ fd \in Top.rd
         THEN Goto([Top EXCEPT !.pc = "in_read"]) /\ ReadHandler(fd)
         ELSE Goto([Top EXCEPT !.pc = "write"]) /\ UNCHANGED busy
  /\ UNCHANGED <<bhVars, aioVars, iohVars>>

LoopWrites ==
  /\ Visits("main_loop", "write")
  /\ LET fd == Top.at[1] IN
       IF ~ioh[fd].deleted /\ "w" \in ioh[fd].ev /\ fd \in Top.wr
         THEN Goto([Top EXCEPT !.pc = "in_write"])
         ELSE Goto([Top EXCEPT !.pc = "next"])
  /\ UNCHANGED <<bhVars, aioVars, iohVars, busy>>

LoopAdvances ==
  /\ Visits("main_loop", "next")
  /\ LET fd == Top.at[1] IN
       IF ioh[fd].deleted
         THEN /\ io_handlers' = Unlink(io_handlers, fd)
              /\ ioh' = [ioh EXCEPT ![fd] = NoRecord]
         ELSE UNCHANGED iohVars
  /\ Goto([Top EXCEPT !.pc = "read", !.at = Top.next,
           !.next = IF Top.next = <<>> THEN <<>>
                    ELSE After(io_handlers, Top.next[1])])
  /\ UNCHANGED <<bhVars, aioVars, busy>>

\* Behind the handlers, and the timers, main_loop_wait polls bottom halves.
LoopPolls ==
  /\ At("main_loop", "read") /\ Top.at = <<>>
  /\ nesting' = nesting + 1
  /\ Goto(NewPoll)
  /\ UNCHANGED <<first_bh, scheduled, idle, deleted, aioVars, iohVars, busy>>

-----------------------------------------------------------------------------
UserNext ==
  \/ \E b \in scope.bhs : \/ qemu_bh_new(b) \/ qemu_bh_schedule_idle(b)
                          \/ qemu_bh_schedule(b) \/ qemu_bh_cancel(b)
                          \/ qemu_bh_delete(b)
  \/ \E fd \in scope.fds, ev \in Events \cup {{}} : qemu_aio_set_fd_handler(fd, ev)
  \/ \E fd \in scope.fds : Submit(fd)
  \/ qemu_aio_wait

\* Steps the event loop takes by itself, callbacks returning included.
LoopNext ==
  \/ PollVisit \/ PollEnds \/ CallbackReturns
  \/ Fill \/ SelectReturns \/ WaitReads \/ WaitWrites \/ WaitAdvances \/ WaitEnds
  \/ main_loop_wait \/ LoopSelects \/ LoopReads \/ LoopWrites \/ LoopAdvances
  \/ LoopPolls

Next == (UserNext \/ LoopNext) /\ UNCHANGED scope

Spec == Init /\ [][Next]_vars
FairSpec == Spec /\ WF_vars(LoopNext /\ UNCHANGED scope)

-----------------------------------------------------------------------------
(* Properties *)

Frames(fn) == {i \in DOMAIN stack : stack[i].fn = fn}
Within(ptr, list) == ptr # <<>> => ptr[1] \in Range(list)

\* A walk over the bottom halves never holds a pointer to a freed one, however
\* deep its callbacks poll again: only the outermost qemu_bh_poll frees
\* (async.c:78), and the counter it trusts is the number of walks.
BhWalkSafe ==
  /\ nesting = Cardinality(Frames("bh_poll"))
  /\ \A i \in Frames("bh_poll") : Within(stack[i].at, first_bh)

\* The walk of qemu_aio_wait never stands on a freed node: the lock
\* walking_handlers keeps qemu_aio_set_fd_handler from removing it (aio.c:26).
AioWalkSafe ==
  \A i \in Frames("aio_wait") :
    stack[i].pc \in Walks => Within(stack[i].at, aio_handlers)

\* The main loop's walk never stands on a freed record, nor has it fetched one:
\* removal only marks the record (iohandler.c:62).
LoopWalkSafe ==
  \A i \in Frames("main_loop") : /\ Within(stack[i].at, io_handlers)
                                 /\ Within(stack[i].next, io_handlers)

\* Neither walk over the handlers stands on freed memory, whatever handlers add
\* and remove.
WalksSafe == AioWalkSafe /\ LoopWalkSafe

Pos(b) == CHOOSE i \in 1..Len(first_bh) : first_bh[i] = b

\* A poll misses no bottom half that was scheduled when it began: what has not
\* run since, here or in a nested poll, and was not cancelled or deleted, is
\* still ahead of the walk, whatever callbacks did to the list (async.c:64).
PollPaysDue ==
  \A i \in Frames("bh_poll") : \A b \in stack[i].due :
    /\ b \in scheduled \ deleted
    /\ stack[i].at # <<>> /\ Pos(stack[i].at[1]) <= Pos(b)

\* The two registries agree.  A descriptor has at most one node that is not
\* deleted, and the main loop polls exactly the descriptors that have one, for
\* the same events, whatever was removed and registered again during a walk.
RegistriesAgree ==
  \A fd \in Fds :
    /\ Cardinality(Live(fd)) <= 1
    /\ (Live(fd) # {}) = (fd \in Range(io_handlers) /\ ~ioh[fd].deleted)
    /\ \A n \in Live(fd) : node[n].ev = ioh[fd].ev

=============================================================================
