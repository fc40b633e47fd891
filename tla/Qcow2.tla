------------------------------- MODULE Qcow2 -------------------------------
(***************************************************************************)
(* The metadata of a qcow2 image under concurrent requests, I/O errors and *)
(* power failures: the two write-back caches (block/qcow2-cache.c), the    *)
(* reference counts (block/qcow2-refcount.c), allocating writes            *)
(* (block/qcow2-cluster.c, block/qcow2.c), discards and flushes.  The      *)
(* caches write tables back in any order except where one cache depends on *)
(* the other; the medium keeps writes in any order between two flushes.    *)
(* s->lock is held by one request at a time, so there is one stack of      *)
(* calls into the caches.  One request touches one guest cluster.          *)
(***************************************************************************)
EXTENDS Integers, Sequences, FiniteSetsExt, Lists

CONSTANTS
  Cos,         \* coroutines, each with one request at a time
  Guests,      \* guest clusters 1..n
  Clusters,    \* clusters of the image file 1..n that data can be put in
  PerTable,    \* guest clusters an L2 table maps
  PerBlock,    \* clusters a refcount block counts
  CacheSize,   \* entries of each cache
  Shared,      \* guest clusters whose data a snapshot shares
  Fails,       \* kinds of I/O that may fail: "write", "flush", "read", "data"
  Racy,        \* whether the guest discards clusters that it is writing
  MaxReqs,     \* bound: requests in a behaviour
  MaxCrashes   \* bound: power failures in a behaviour

Caches    == {"l2", "rb"}
Other(c)  == IF c = "l2" THEN "rb" ELSE "l2"
Table(g)  == <<"l2", (g - 1) \div PerTable>>
Block(h)  == <<"rb", (h - 1) \div PerBlock>>
Tables    == {Table(g) : g \in Guests}
Blocks    == {Block(h) : h \in Clusters}
Objs      == Tables \cup Blocks

ASSUME Qcow2Assumption ==
  /\ Guests = 1..Cardinality(Guests) /\ Clusters = 1..Cardinality(Clusters)
  /\ Shared \subseteq Guests /\ Cardinality(Shared) <= Cardinality(Clusters)
  /\ {PerTable, PerBlock, CacheSize} \subseteq Nat \ {0}
  /\ Fails \subseteq {"write", "flush", "read", "data"}
  /\ Racy \in BOOLEAN /\ MaxReqs \in Nat /\ MaxCrashes \in Nat

VARIABLES
  file,        \* each table or block of the image file, as a read returns it
  stable,      \* the contents of it that a power failure may leave
  cache,       \* the entries of each cache
  depends,     \* whether a cache depends on the other one
  on_flush,    \* depends_on_flush of each cache
  free_cluster_index,
  stack,       \* calls in progress under s->lock, innermost last
  ret,         \* what the last of them returned: [ok, val]
  owner,       \* the coroutine that holds s->lock, <<>> or <<co>>
  req,         \* the request of each coroutine
  cluster_allocs,  \* coroutines with an allocation in flight
  copied,      \* copied data that is not yet flushed: <<guest, cluster>>
  reqs, crashes    \* requests and power failures so far

diskVars  == <<file, stable, copied>>
cacheVars == <<cache, depends, on_flush>>
callVars  == <<stack, ret>>
reqVars   == <<owner, req, cluster_allocs>>
boundVars == <<reqs, crashes>>
vars == <<diskVars, cacheVars, free_cluster_index, callVars, reqVars, boundVars>>

\* An L2 entry: no cluster, or one with or without QCOW_OFLAG_COPIED.
None   == [to |-> 0, copied |-> FALSE]
Entry  == [to : {0} \cup Clusters, copied : BOOLEAN]
Empty  == [obj |-> <<>>, table |-> <<>>, dirty |-> FALSE, ref |-> 0]
NoReq  == [kind |-> "none", g |-> 1, cow |-> FALSE, pc |-> "idle", to |-> 0,
           on |-> <<>>]
Ok     == [ok |-> TRUE, val |-> 0]
Failed == [ok |-> FALSE, val |-> 0]

\* A new image: the guest clusters of Shared have data, which the snapshot
\* refers to as well.
Content(o) ==
  IF o \in Tables
    THEN [g \in {x \in Guests : Table(x) = o} |->
            IF g \in Shared THEN [to |-> g, copied |-> FALSE] ELSE None]
    ELSE [h \in {x \in Clusters : Block(x) = o} |-> IF h \in Shared THEN 2 ELSE 0]

\* The caches behind qcow2_open.
NoTables == [c \in Caches |-> [i \in 1..CacheSize |-> Empty]]
Neither  == [c \in Caches |-> FALSE]

Init ==
  /\ file = [o \in Objs |-> Content(o)]
  /\ stable = [o \in Objs |-> {Content(o)}]
  /\ cache = NoTables /\ depends = Neither /\ on_flush = Neither
  /\ free_cluster_index = 1
  /\ stack = <<>> /\ ret = Ok
  /\ owner = <<>> /\ req = [co \in Cos |-> NoReq] /\ cluster_allocs = {}
  /\ copied = {} /\ reqs = 0 /\ crashes = 0

Top         == Peek(stack)
Calling(fn, pc) == stack # <<>> /\ Top.fn = fn /\ Top.pc = pc
Goto(f)     == stack' = Append(Pop(stack), f) /\ UNCHANGED ret
Call(f, g)  == stack' = Append(Append(Pop(stack), f), g) /\ ret' = Ok
Return(r)   == stack' = Pop(stack) /\ ret' = r

\* The frames of the calls.
FlushOf(c)  == [fn |-> "flush", pc |-> "loop", c |-> c, i |-> 1, bad |-> FALSE]
FlushEntry(c, i) == [fn |-> "entry", pc |-> "start", c |-> c, i |-> i]
SetDep(c)   == [fn |-> "setdep", pc |-> "start", c |-> c]
Get(o)      == [fn |-> "get", pc |-> "find", o |-> o, i |-> 0]
UpdateRefcount(h, addend) ==
  [fn |-> "update", pc |-> "start", h |-> h, addend |-> addend]
AllocClusters == [fn |-> "alloc", pc |-> "scan", h |-> 0]

-----------------------------------------------------------------------------
(* The image file, an external service *)

\* An I/O of the given kind succeeds, or fails if such I/O may.
MayFail(kind) == kind \in Fails

bdrv_pwrite(o, v) ==
  /\ file' = [file EXCEPT ![o] = v]
  /\ stable' = [stable EXCEPT ![o] = @ \cup {v}]
  /\ UNCHANGED copied

bdrv_flush ==
  /\ stable' = [o \in Objs |-> {file[o]}]
  /\ copied' = {}
  /\ UNCHANGED file

-----------------------------------------------------------------------------
(* The caches: block/qcow2-cache.c *)

others == <<free_cluster_index, reqVars, boundVars>>

\* One step of the loop of qcow2_cache_flush, or its end.
qcow2_cache_flush ==
  /\ Calling("flush", "loop")
  /\ LET bad == Top.bad \/ ~ret.ok IN
       \/ /\ Top.i <= CacheSize
          /\ Call([Top EXCEPT !.i = @ + 1, !.bad = bad], FlushEntry(Top.c, Top.i))
          /\ UNCHANGED diskVars
       \/ /\ Top.i > CacheSize /\ ~bad
          /\ bdrv_flush /\ Return(Ok)
       \/ /\ Top.i > CacheSize /\ (bad \/ MayFail("flush"))
          /\ Return(Failed) /\ UNCHANGED diskVars
  /\ UNCHANGED <<cacheVars, others>>

\* The beginning of qcow2_cache_entry_flush: a dirty entry waits for what its
\* cache depends on.
EntryFlush ==
  /\ Calling("entry", "start")
  /\ LET c == Top.c
         e == cache[c][Top.i]
         clean == ~e.dirty \/ e.obj = <<>>
     IN  \/ /\ clean
            /\ Return(Ok) /\ UNCHANGED <<diskVars, on_flush>>
         \/ /\ ~clean /\ depends[c]
            /\ Call([Top EXCEPT !.pc = "dep"], FlushOf(Other(c)))
            /\ UNCHANGED <<diskVars, on_flush>>
         \/ /\ ~clean /\ ~depends[c] /\ on_flush[c]
            /\ \/ /\ bdrv_flush /\ Goto([Top EXCEPT !.pc = "write"])
                  /\ on_flush' = [on_flush EXCEPT ![c] = FALSE]
               \/ /\ MayFail("flush") /\ Return(Failed)
                  /\ UNCHANGED <<diskVars, on_flush>>
         \/ /\ ~clean /\ ~depends[c] /\ ~on_flush[c]
            /\ Goto([Top EXCEPT !.pc = "write"]) /\ UNCHANGED <<diskVars, on_flush>>
  /\ UNCHANGED <<cache, depends, others>>

\* qcow2_cache_flush_dependency, when the flush has returned.
EntryDependency ==
  /\ Calling("entry", "dep")
  /\ IF ret.ok
       THEN /\ depends' = [depends EXCEPT ![Top.c] = FALSE]
            /\ on_flush' = [on_flush EXCEPT ![Top.c] = FALSE]
            /\ Goto([Top EXCEPT !.pc = "write"])
       ELSE Return(Failed) /\ UNCHANGED <<depends, on_flush>>
  /\ UNCHANGED <<cache, diskVars, others>>

EntryWrite ==
  /\ Calling("entry", "write")
  /\ LET e == cache[Top.c][Top.i] IN
       \/ /\ bdrv_pwrite(e.obj[1], e.table) /\ Return(Ok)
          /\ cache' = [cache EXCEPT ![Top.c][Top.i].dirty = FALSE]
       \/ /\ MayFail("write") /\ Return(Failed)
          /\ UNCHANGED <<diskVars, cache>>
  /\ UNCHANGED <<depends, on_flush, others>>

\* qcow2_cache_set_dependency makes cache Top.c depend on the other one.
qcow2_cache_set_dependency ==
  /\ Calling("setdep", "start")
  /\ IF depends[Other(Top.c)]
       THEN /\ Call([Top EXCEPT !.pc = "flushed"], FlushOf(Top.c))
            /\ UNCHANGED depends
       ELSE /\ depends' = [depends EXCEPT ![Top.c] = TRUE]
            /\ Return(Ok)
  /\ UNCHANGED <<cache, on_flush, diskVars, others>>

SetDependency ==
  /\ Calling("setdep", "flushed")
  /\ IF ret.ok
       THEN /\ depends' = [depends EXCEPT ![Top.c] = TRUE, ![Other(Top.c)] = FALSE]
            /\ on_flush' = [on_flush EXCEPT ![Other(Top.c)] = FALSE]
            /\ Return(Ok)
       ELSE Return(Failed) /\ UNCHANGED <<depends, on_flush>>
  /\ UNCHANGED <<cache, diskVars, others>>

\* The entry that caches o, and the cache with that entry changed.
Cached(o)  == \E i \in 1..CacheSize : cache[o[1]][i].obj = <<o>>
Slot(o)    == CHOOSE i \in 1..CacheSize : cache[o[1]][i].obj = <<o>>
TableOf(o) == cache[o[1]][Slot(o)].table
With(o, e) == [cache EXCEPT ![o[1]][Slot(o)] = e]
ref(o, n)  == [cache[o[1]][Slot(o)] EXCEPT !.ref = @ + n]
\* The entry with x changed to v, marked dirty; and qcow2_cache_put.
Modified(o, x, v)     == [ref(o, 0) EXCEPT !.table[x] = v, !.dirty = TRUE]
qcow2_cache_put(o)    == With(o, ref(o, -1))
PutModified(o, x, v)  == With(o, [Modified(o, x, v) EXCEPT !.ref = @ - 1])

\* qcow2_cache_do_get.  Any entry that nobody uses may be replaced.
qcow2_cache_do_get ==
  /\ Calling("get", "find")
  /\ LET o == Top.o IN
       \/ /\ Cached(o)
          /\ cache' = With(o, ref(o, 1)) /\ Return(Ok)
       \/ /\ ~Cached(o)
          /\ \E i \in 1..CacheSize :
               /\ cache[o[1]][i].ref = 0
               /\ Call([Top EXCEPT !.pc = "evicted", !.i = i], FlushEntry(o[1], i))
          /\ UNCHANGED cache
  /\ UNCHANGED <<depends, on_flush, diskVars, others>>

ReplaceEntry ==
  /\ Calling("get", "evicted")
  /\ LET o == Top.o
         e == [obj |-> <<o>>, table |-> file[o], dirty |-> FALSE, ref |-> 1]
     IN  \/ /\ ret.ok
            /\ cache' = [cache EXCEPT ![o[1]][Top.i] = e] /\ Return(Ok)
         \/ /\ ret.ok /\ MayFail("read")
            /\ cache' = [cache EXCEPT ![o[1]][Top.i] = Empty] /\ Return(Failed)
         \/ ~ret.ok /\ Return(Failed) /\ UNCHANGED cache
  /\ UNCHANGED <<depends, on_flush, diskVars, others>>

-----------------------------------------------------------------------------
(* Reference counts: block/qcow2-refcount.c *)

\* Mutant: a refcount may go down before the L2 table is written.
M_update_refcount_unordered ==
  /\ Calling("update", "start")
  /\ Call([Top EXCEPT !.pc = "modify"], Get(Block(Top.h)))
  /\ UNCHANGED <<cacheVars, diskVars, others>>

\* update_refcount first makes the refcount blocks wait for the L2 tables if
\* the count goes down, and does not look at what that returns.
update_refcount ==
  /\ \/ /\ Calling("update", "start") /\ Top.addend < 0
        /\ Call([Top EXCEPT !.pc = "load"], SetDep("rb"))
     \/ /\ Calling("update", "start") /\ Top.addend > 0
        /\ Call([Top EXCEPT !.pc = "modify"], Get(Block(Top.h)))
     \/ /\ Calling("update", "load")
        /\ Call([Top EXCEPT !.pc = "modify"], Get(Block(Top.h)))
  /\ UNCHANGED <<cacheVars, diskVars, others>>

\* The refcount is changed in its block; a free cluster is found again.
ModifyRefcount ==
  /\ Calling("update", "modify")
  /\ IF ret.ok
       THEN LET o   == Block(Top.h)
                old == TableOf(o)[Top.h]
                n   == old + Top.addend
                ok  == n \in 0..65535
            IN  /\ cache' = PutModified(o, Top.h, IF ok THEN n ELSE old)
                /\ free_cluster_index' = IF n = 0 /\ Top.h < free_cluster_index
                                           THEN Top.h ELSE free_cluster_index
                /\ Return(IF ok THEN Ok ELSE Failed)
       ELSE Return(Failed) /\ UNCHANGED <<cache, free_cluster_index>>
  /\ UNCHANGED <<depends, on_flush, diskVars, reqVars, boundVars>>

\* alloc_clusters_noref: the search, one cluster at a time.  Behind the last
\* cluster alloc_refcount_block would be needed, which is taken to fail.
alloc_clusters_noref ==
  /\ Calling("alloc", "scan")
  /\ LET h == free_cluster_index IN
       IF h \in Clusters
         THEN /\ free_cluster_index' = h + 1
              /\ Call([Top EXCEPT !.pc = "look", !.h = h], Get(Block(h)))
         ELSE Return(Failed) /\ UNCHANGED free_cluster_index
  /\ UNCHANGED <<cacheVars, diskVars, reqVars, boundVars>>

\* The cluster is free, or the search goes on.
LookAtCluster ==
  /\ Calling("alloc", "look")
  /\ LET o == Block(Top.h) IN
       \/ ~ret.ok /\ Return(Failed) /\ UNCHANGED cache
       \/ /\ ret.ok /\ TableOf(o)[Top.h] # 0
          /\ cache' = qcow2_cache_put(o) /\ Goto([Top EXCEPT !.pc = "scan"])
       \/ /\ ret.ok /\ TableOf(o)[Top.h] = 0
          /\ cache' = qcow2_cache_put(o)
          /\ Call([Top EXCEPT !.pc = "taken"], UpdateRefcount(Top.h, 1))
  /\ UNCHANGED <<depends, on_flush, diskVars, others>>

qcow2_alloc_clusters ==
  /\ Calling("alloc", "taken")
  /\ Return(IF ret.ok THEN [ok |-> TRUE, val |-> Top.h] ELSE Failed)
  /\ UNCHANGED <<cacheVars, diskVars, others>>

-----------------------------------------------------------------------------
(* Requests: block/qcow2.c and block/qcow2-cluster.c *)

\* co holds s->lock and no call of it is in progress; co takes s->lock.
Runs(co, pc)  == owner = <<co>> /\ stack = <<>> /\ req[co].pc = pc
Locks(co, pc) == owner = <<>> /\ req[co].pc = pc /\ owner' = <<co>>
\* co goes on at pc, after the call of f if there is one.
At(co, pc)      == req' = [req EXCEPT ![co].pc = pc]
Calls(co, f, pc) == stack' = <<f>> /\ ret' = Ok /\ At(co, pc)
Continue(co, pc) == At(co, pc) /\ UNCHANGED callVars
Unlock == owner' = <<>>

\* The guest issues a request for one cluster; cow says that a write does not
\* fill it.
Submit(co) ==
  /\ req[co].pc = "idle" /\ reqs < MaxReqs
  /\ reqs' = reqs + 1
  /\ \E kind \in {"read", "write", "discard", "flush"}, g \in Guests, cow \in BOOLEAN :
       /\ kind # "write" => ~cow
       /\ kind = "flush" => g = 1
       /\ Racy \/ \A d \in Cos : "discard" \in {kind, req[d].kind} => req[d].g # g
       /\ req' = [req EXCEPT ![co] = [NoReq EXCEPT !.kind = kind, !.g = g,
                                                   !.cow = cow, !.pc = "start"]]
  /\ UNCHANGED <<diskVars, cacheVars, free_cluster_index, callVars, owner,
                 cluster_allocs, crashes>>

\* The request takes s->lock and looks up the L2 table, or flushes.
Begin(co) ==
  /\ Locks(co, "start")
  /\ IF req[co].kind = "flush"
       THEN Calls(co, FlushOf("l2"), "l2_flushed")
       ELSE Calls(co, Get(Table(req[co].g)), "table")
  /\ UNCHANGED <<diskVars, cacheVars, free_cluster_index, cluster_allocs, boundVars>>

\* Mutant: the L2 table is not put back.
M_ReadLookup_pins(co) ==
  /\ Runs(co, "table") /\ req[co].kind = "read"
  /\ Continue(co, "end")
  /\ UNCHANGED <<diskVars, cacheVars, free_cluster_index, owner, cluster_allocs,
                 boundVars>>

\* qcow2_get_cluster_offset for a read, which has no data to wait for if the
\* cluster is not allocated.
ReadLookup(co) ==
  /\ Runs(co, "table") /\ req[co].kind = "read"
  /\ LET o == Table(req[co].g)
         e == TableOf(o)[req[co].g]
     IN  \/ /\ ~ret.ok
            /\ Continue(co, "end") /\ UNCHANGED <<cache, owner>>
         \/ /\ ret.ok /\ e.to = 0
            /\ cache' = qcow2_cache_put(o) /\ Continue(co, "end") /\ UNCHANGED owner
         \/ /\ ret.ok /\ e.to # 0
            /\ req' = [req EXCEPT ![co].pc = "reading", ![co].to = e.to]
            /\ cache' = qcow2_cache_put(o) /\ Unlock /\ UNCHANGED callVars
  /\ UNCHANGED <<diskVars, depends, on_flush, free_cluster_index, cluster_allocs,
                 boundVars>>

\* bdrv_co_readv of the data, without s->lock.
ReadData(co) ==
  /\ req[co].pc = "reading"
  /\ At(co, "relock")
  /\ UNCHANGED <<diskVars, cacheVars, free_cluster_index, callVars, owner,
                 cluster_allocs, boundVars>>

\* Mutant: an allocation of the same cluster is overlooked.
M_Conflicts_before(co) == {d \in cluster_allocs : req[d].g = req[co].g - 1}

\* The allocations in flight that do_alloc_cluster_offset waits for.
Conflicts(co) == {d \in cluster_allocs : req[d].g \in {req[co].g, req[co].g - 1}}

\* qcow2_alloc_cluster_offset up to the allocation.
qcow2_alloc_cluster_offset(co) ==
  /\ Runs(co, "table") /\ req[co].kind = "write"
  /\ LET o == Table(req[co].g)
         e == TableOf(o)[req[co].g]
     IN  \/ /\ ~ret.ok
            /\ Continue(co, "end") /\ UNCHANGED <<cache, owner>>
         \/ /\ ret.ok /\ e.copied
            /\ req' = [req EXCEPT ![co].pc = "data", ![co].to = e.to]
            /\ cache' = qcow2_cache_put(o) /\ Unlock /\ UNCHANGED callVars
         \/ /\ ret.ok /\ ~e.copied
            /\ \E d \in Conflicts(co) :
                 req' = [req EXCEPT ![co].pc = "wait", ![co].on = <<d>>]
            /\ cache' = qcow2_cache_put(o) /\ Unlock /\ UNCHANGED callVars
         \/ /\ ret.ok /\ ~e.copied /\ Conflicts(co) = {}
            /\ Calls(co, AllocClusters, "alloc")
            /\ cache' = qcow2_cache_put(o) /\ UNCHANGED owner
  /\ UNCHANGED <<diskVars, depends, on_flush, free_cluster_index, cluster_allocs,
                 boundVars>>

Allocated(co) ==
  /\ Runs(co, "alloc")
  /\ IF ret.ok
       THEN /\ req' = [req EXCEPT ![co].pc = "data", ![co].to = ret.val]
            /\ cluster_allocs' = cluster_allocs \cup {co}
            /\ Unlock
       ELSE At(co, "end") /\ UNCHANGED <<cluster_allocs, owner>>
  /\ UNCHANGED <<diskVars, cacheVars, free_cluster_index, callVars, boundVars>>

\* bdrv_co_writev of the data, without s->lock.
WriteData(co) ==
  /\ req[co].pc = "data"
  /\ \/ At(co, "written")
     \/ MayFail("data") /\ At(co, "relock")
  /\ UNCHANGED <<diskVars, cacheVars, free_cluster_index, callVars, owner,
                 cluster_allocs, boundVars>>

\* s->lock is taken again, after a read or a failure.
Relock(co) ==
  /\ Locks(co, "relock") /\ Continue(co, "end")
  /\ UNCHANGED <<diskVars, cacheVars, free_cluster_index, cluster_allocs, boundVars>>

\* qcow2_alloc_cluster_link_l2: nothing to link, no data to copy, or a lookup
\* of the data to copy (copy_sectors reads through qcow2_co_readv).
qcow2_alloc_cluster_link_l2(co) ==
  /\ Locks(co, "written")
  /\ \/ co \notin cluster_allocs /\ Continue(co, "end")
     \/ /\ co \in cluster_allocs /\ ~req[co].cow
        /\ Calls(co, SetDep("l2"), "dependent")
     \/ /\ co \in cluster_allocs /\ req[co].cow
        /\ Calls(co, Get(Table(req[co].g)), "copy")
  /\ UNCHANGED <<diskVars, cacheVars, free_cluster_index, cluster_allocs, boundVars>>

CopyLookup(co) ==
  /\ Runs(co, "copy") /\ Unlock
  /\ cache' = IF ret.ok THEN qcow2_cache_put(Table(req[co].g)) ELSE cache
  /\ Continue(co, IF ret.ok THEN "copying" ELSE "relock")
  /\ UNCHANGED <<diskVars, depends, on_flush, free_cluster_index, cluster_allocs,
                 boundVars>>

copy_sectors(co) ==
  /\ req[co].pc = "copying"
  /\ \/ /\ copied' = copied \cup {<<req[co].g, req[co].to>>}
        /\ At(co, "copied")
     \/ MayFail("data") /\ At(co, "relock") /\ UNCHANGED copied
  /\ UNCHANGED <<file, stable, cacheVars, free_cluster_index, callVars, owner,
                 cluster_allocs, boundVars>>

\* Mutant: the L2 table of copied data is held back by nothing.
M_LinkCopied_at_once(co) ==
  /\ Locks(co, "copied")
  /\ Calls(co, Get(Table(req[co].g)), "link")
  /\ UNCHANGED <<diskVars, cacheVars, free_cluster_index, cluster_allocs, boundVars>>

LinkCopied(co) ==
  /\ Locks(co, "copied")
  /\ on_flush' = [on_flush EXCEPT !["l2"] = TRUE]
  /\ Calls(co, SetDep("l2"), "dependent")
  /\ UNCHANGED <<diskVars, cache, depends, free_cluster_index, cluster_allocs,
                 boundVars>>

\* What qcow2_cache_set_dependency returned is not looked at.
LinkLookup(co) ==
  /\ Runs(co, "dependent")
  /\ Calls(co, Get(Table(req[co].g)), "link")
  /\ UNCHANGED <<diskVars, cacheVars, free_cluster_index, owner, cluster_allocs,
                 boundVars>>


\* The L2 entry is set, and the cluster it had is freed.
LinkL2(co) ==
  /\ Runs(co, "link")
  /\ LET o   == Table(req[co].g)
         old == TableOf(o)[req[co].g].to
         new == [to |-> req[co].to, copied |-> TRUE]
     IN  \/ ~ret.ok /\ Continue(co, "end") /\ UNCHANGED cache
         \/ /\ ret.ok
            /\ cache' = PutModified(o, req[co].g, new)
            /\ IF old = 0 THEN Continue(co, "end")
                          ELSE Calls(co, UpdateRefcount(old, -1), "end")
  /\ UNCHANGED <<diskVars, depends, on_flush, free_cluster_index, owner,
                 cluster_allocs, boundVars>>

\* discard_single_l2: the entry is cleared while its table stays in use, and
\* the cluster is freed.
discard_single_l2(co) ==
  /\ Runs(co, "table") /\ req[co].kind = "discard"
  /\ LET o   == Table(req[co].g)
         old == TableOf(o)[req[co].g].to
     IN  \/ ~ret.ok /\ Continue(co, "end") /\ UNCHANGED cache
         \/ /\ ret.ok /\ old = 0
            /\ cache' = qcow2_cache_put(o) /\ Continue(co, "end")
         \/ /\ ret.ok /\ old # 0
            /\ cache' = With(o, Modified(o, req[co].g, None))
            /\ Calls(co, UpdateRefcount(old, -1), "put")
  /\ UNCHANGED <<diskVars, depends, on_flush, free_cluster_index, owner,
                 cluster_allocs, boundVars>>

DiscardPut(co) ==
  /\ Runs(co, "put")
  /\ cache' = qcow2_cache_put(Table(req[co].g))
  /\ Continue(co, "end")
  /\ UNCHANGED <<diskVars, depends, on_flush, free_cluster_index, owner,
                 cluster_allocs, boundVars>>

\* Mutant: the refcount blocks are not flushed.
M_flush_to_os_l2(co) ==
  /\ \/ Runs(co, "l2_flushed") /\ Continue(co, IF ret.ok THEN "rb_flushed" ELSE "end")
     \/ Runs(co, "rb_flushed") /\ Continue(co, "end")
  /\ UNCHANGED <<diskVars, cacheVars, free_cluster_index, owner, cluster_allocs,
                 boundVars>>

\* qcow2_co_flush_to_os between its two flushes, and behind them.
qcow2_co_flush_to_os(co) ==
  /\ \/ Runs(co, "l2_flushed") /\ ret.ok /\ Calls(co, FlushOf("rb"), "rb_flushed")
     \/ Runs(co, "l2_flushed") /\ ~ret.ok /\ Continue(co, "end")
     \/ Runs(co, "rb_flushed") /\ Continue(co, "end")
  /\ UNCHANGED <<diskVars, cacheVars, free_cluster_index, owner, cluster_allocs,
                 boundVars>>

\* Mutant: dependent requests are not restarted.
M_run_dependent_requests_none(co) ==
  /\ Runs(co, "end") /\ Unlock
  /\ cluster_allocs' = cluster_allocs \ {co}
  /\ req' = [req EXCEPT ![co] = NoReq]
  /\ UNCHANGED <<diskVars, cacheVars, free_cluster_index, callVars, boundVars>>

\* The end of a request: run_dependent_requests and the last unlock.
run_dependent_requests(co) ==
  /\ Runs(co, "end") /\ Unlock
  /\ cluster_allocs' = cluster_allocs \ {co}
  /\ req' = [d \in Cos |-> IF d = co THEN NoReq
                           ELSE IF req[d].on = <<co>>
                             THEN [req[d] EXCEPT !.pc = "start", !.on = <<>>]
                             ELSE req[d]]
  /\ UNCHANGED <<diskVars, cacheVars, free_cluster_index, callVars, boundVars>>

\* A power failure leaves any stable content of each table and block, and the
\* image is opened again.
PowerFailure ==
  /\ crashes < MaxCrashes
  /\ crashes' = crashes + 1
  /\ \E t \in [Tables -> UNION {stable[o] : o \in Tables}],
        b \in [Blocks -> UNION {stable[o] : o \in Blocks}] :
       LET f == [o \in Objs |-> IF o \in Tables THEN t[o] ELSE b[o]] IN
         /\ \A o \in Objs : f[o] \in stable[o]
         /\ file' = f
         /\ stable' = [o \in Objs |-> {f[o]}]
  /\ cache' = NoTables /\ depends' = Neither /\ on_flush' = Neither
  /\ free_cluster_index' = 1
  /\ stack' = <<>> /\ ret' = Ok
  /\ owner' = <<>> /\ req' = [co \in Cos |-> NoReq] /\ cluster_allocs' = {}
  /\ copied' = {}
  /\ UNCHANGED reqs

CallNext ==
  \/ qcow2_cache_flush \/ EntryFlush \/ EntryDependency \/ EntryWrite
  \/ qcow2_cache_set_dependency \/ SetDependency
  \/ qcow2_cache_do_get \/ ReplaceEntry
  \/ update_refcount \/ ModifyRefcount
  \/ alloc_clusters_noref \/ LookAtCluster \/ qcow2_alloc_clusters

RequestNext(co) ==
  \/ Begin(co) \/ ReadLookup(co) \/ ReadData(co) \/ qcow2_alloc_cluster_offset(co)
  \/ Allocated(co) \/ WriteData(co) \/ Relock(co)
  \/ qcow2_alloc_cluster_link_l2(co) \/ CopyLookup(co) \/ copy_sectors(co)
  \/ LinkCopied(co) \/ LinkLookup(co) \/ LinkL2(co)
  \/ discard_single_l2(co) \/ DiscardPut(co) \/ qcow2_co_flush_to_os(co)
  \/ run_dependent_requests(co)

Next ==
  \/ CallNext
  \/ \E co \in Cos : Submit(co) \/ RequestNext(co)
  \/ PowerFailure

Spec == Init /\ [][Next]_vars

\* A call, and a request that has what it waits for, goes on: coroutines that
\* block on I/O are entered again when it completes, and CoMutex hands the lock
\* to its waiters.
Fairness ==
  /\ WF_vars(CallNext)
  /\ \A co \in Cos : WF_vars(RequestNext(co))

FairSpec == Spec /\ Fairness

-----------------------------------------------------------------------------
(* Properties *)

\* The content of o that the driver works with: cached, or else in the file.
Logical(o) == IF Cached(o) THEN TableOf(o) ELSE file[o]

\* References to cluster h: the most that the stable versions of the L2 tables
\* hold, and those that the driver works with.  The snapshot has one of its own.
SnapshotRefs(h) == IF h \in Shared THEN 1 ELSE 0
RefsIn(v, h)    == Cardinality({g \in DOMAIN v : v[g].to = h})
StableRefs(h)   ==
  SnapshotRefs(h)
    + MapThenSumSet(LAMBDA t : Max({RefsIn(v, h) : v \in stable[t]}), Tables)
LogicalRefs(h)  ==
  SnapshotRefs(h) + MapThenSumSet(LAMBDA t : RefsIn(Logical(t), h), Tables)

\* Whenever the power fails, no cluster has fewer references counted on the
\* medium than it has there: the caches' dependencies (qcow2_cache_set_dependency
\* in qcow2_alloc_cluster_link_l2 and update_refcount) keep the L2 tables behind
\* increments and ahead of decrements.  Leaked clusters are allowed.
CrashConsistent ==
  \A h \in Clusters : \A v \in stable[Block(h)] : StableRefs(h) <= v[h]

\* Before an L2 table that points to a cluster is written, the increased refcount
\* of the cluster is on the medium, as the comment in qcow2_alloc_cluster_link_l2
\* says.
RefcountBeforeLink ==
  Calling("entry", "write") /\ Top.c = "l2" =>
    LET t == cache["l2"][Top.i].table IN
      \A g \in DOMAIN t : t[g].to # 0 =>
        \A v \in stable[Block(t[g].to)] : v[t[g].to] > 0

\* An L2 table is not written while data copied into one of its clusters could
\* still be lost (qcow2_cache_depends_on_flush).
CowBeforeLink ==
  Calling("entry", "write") /\ Top.c = "l2" =>
    LET v == cache["l2"][Top.i].table IN
      \A g \in DOMAIN v : <<g, v[g].to>> \notin copied

\* When qcow2_co_flush_to_os has succeeded, everything is on the medium.
FlushIsDurable ==
  \A co \in Cos : Runs(co, "rb_flushed") /\ ret.ok =>
    \A o \in Objs : stable[o] = {Logical(o)}

\* When s->lock is free no cache entry is in use, as qcow2_cache_destroy asserts
\* and the comment in qcow2_alloc_cluster_offset demands of sleeping requests;
\* and a lookup that replaces an entry finds one that is not in use, where
\* qcow2_cache_find_entry_to_replace would abort.
PinsReleased ==
  /\ owner = <<>> => \A c \in Caches, i \in 1..CacheSize : cache[c][i].ref = 0
  /\ Calling("get", "find") /\ ~Cached(Top.o) =>
       \E i \in 1..CacheSize : cache[Top.o[1]][i].ref = 0

\* The reference counts the driver works with cover the L2 tables it works with
\* and the clusters of allocations in flight, when s->lock is free; a cluster
\* whose entry says QCOW_OFLAG_COPIED has exactly one reference (qcow2.h), so
\* writing in place changes nobody else's data.
InFlight(h) == Cardinality({co \in cluster_allocs : req[co].to = h})

\* Data is written where the guest cluster is mapped, or to a cluster that only
\* this allocation has; and a cluster that is being read is not taken for other
\* data.  The lookup is not out of date although s->lock has been dropped.  Two
\* allocations in flight are for different guest clusters.
DataStaysHome ==
  /\ \A co \in Cos : req[co].pc \in {"data", "copying"} =>
       IF co \in cluster_allocs
         THEN LogicalRefs(req[co].to) = 0 /\ InFlight(req[co].to) = 1
         ELSE Logical(Table(req[co].g))[req[co].g].to = req[co].to
  /\ \A co \in Cos : req[co].pc = "reading" =>
       /\ InFlight(req[co].to) = 0
       /\ \A g \in Guests \ {req[co].g} : Logical(Table(g))[g].to # req[co].to
  /\ \A a, b \in cluster_allocs : req[a].g = req[b].g => a = b

\* Every request ends: none is left in the queue of an allocation that is gone,
\* and the caches' mutual flushes end.
RequestsEnd == \A co \in Cos : req[co].pc # "idle" ~> req[co].pc = "idle"
=============================================================================
