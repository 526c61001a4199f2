----------------------------- MODULE SsdStream -----------------------------
(***************************************************************************)
(* The host tier of the SSD expert streaming (ggml-ssd-stream.cpp).  The   *)
(* weights of the experts stay in the model file.  A slice (one expert of  *)
(* one tensor) is read into a sparse arena before the node that uses it is *)
(* computed; the resident slices form a segmented LRU under a byte budget. *)
(* The owner thread loads the model, runs the fill passes, computes and    *)
(* unloads; a worker reads the slices that the last token predicts.        *)
(* The epochs of the passes are kept as the set of slices whose node       *)
(* carries the current one (slice_node::pass = cur_pass): a pass begins by *)
(* emptying it.  A failed read of the owner aborts the process and is left *)
(* out; a failed read of the worker is not.                                *)
(***************************************************************************)
EXTENDS Integers, FiniteSets, SequencesExt, LruLists

CONSTANTS Tensors,     \* the streamed expert tensors
          Experts,     \* the experts of each of them
          Size,        \* bytes of one slice of a tensor (nb[2])
          Arenas,      \* the buffers the loader splits the tensors over
          ArenaOf,     \* the arena of a tensor
          Budget,      \* budget_bytes
          ProtectedCap,\* protected_cap, when the LRU is segmented
          Depth,       \* pf_depth, at least 1 here
          QueueMax,    \* 1024 in the code
          BatchMax,    \* 16 in the code
          IdLists,     \* input of the model: the lists of experts a node of a tensor may use
          Modes        \* [slru, par]: LLAMA_SSD_STREAM_SLRU, more than one read thread

Slices == Tensors \X Experts
Bytes(x) == Size[x[1]]

ASSUME SizeAssumption == Size \in [Tensors -> Nat \ {0}]
ASSUME ArenaAssumption == ArenaOf \in [Tensors -> Arenas]
ASSUME BudgetAssumption == Budget \in Nat /\ ProtectedCap \in Nat
ASSUME QueueAssumption == Depth \in Nat \ {0} /\ QueueMax \in Nat \ {0} /\ BatchMax \in Nat \ {0}
ASSUME ModesAssumption == Modes \subseteq [slru : BOOLEAN, par : BOOLEAN]
ASSUME IdsAssumption ==
  /\ IdLists \in [Tensors -> SUBSET Seq(Experts)]
  /\ \A t \in Tensors : \A ids \in IdLists[t] : ids # <<>> /\ IsInjective(ids)
ASSUME ModelIsFinite == IsFiniteSet(Tensors) /\ IsFiniteSet(Experts)

VARIABLES
  probation,   \* the list of slices seen once, most recent first
  protectd,    \* the list of slices hit again, most recent first
  protectedBytes,
  resident,    \* resident_bytes, the reservations of the worker included
  pinned,      \* the slices whose node carries the current pass
  filling,     \* the slices the worker is reading
  page,        \* what the arena holds of a slice: nothing, a part, or the whole
  mutex,       \* g_state.mutex: "free", "owner" or "worker"
  owner,       \* the thread that computes: [pc, tensor, used, todo, touched, deferred]
  worker,      \* ssd_prefetch_worker: [pc, batch, reads, ok]
  queue,       \* pf_queue
  stop,        \* pf_stop
  lastIds,     \* pf_last_ids: the experts of a tensor's last pass
  order,       \* pf_order
  mapped,      \* the arenas that are mapped
  registry,    \* the tensors ggml_ssd_stream_note has registered
  mode         \* the environment the process was started with

lru == <<probation, protectd, protectedBytes, resident>>
prediction == <<lastIds, order, queue>>
model == <<mapped, registry, mode, stop>>
vars == <<lru, pinned, filling, page, mutex, owner, worker, prediction, model>>

NoPass == [pc |-> "none", used |-> <<>>, todo |-> <<>>, touched |-> {}, deferred |-> {}]
NoWork == [pc |-> "off", batch |-> <<>>, reads |-> <<>>, ok |-> TRUE]

Nodes == ToSet(probation) \cup ToSet(protectd)   \* the keys of the index
BytesIn(s) == FoldLeft(LAMBDA n, x : n + Bytes(x), 0, s)
Min2(a, b) == IF a < b THEN a ELSE b

-----------------------------------------------------------------------------
Init ==
  /\ probation = <<>> /\ protectd = <<>> /\ protectedBytes = 0 /\ resident = 0
  /\ pinned = {} /\ filling = {} /\ page = [x \in Slices |-> "none"]
  /\ mutex = "free" /\ owner = NoPass /\ worker = NoWork
  /\ queue = <<>> /\ stop = FALSE /\ lastIds = [t \in Tensors |-> <<>>] /\ order = <<>>
  /\ mapped = {} /\ registry = {}
  /\ mode \in Modes

\* The loader maps the arenas (fresh pages, all zero) and registers the tensors.
Load ==
  /\ owner.pc = "none"
  /\ mapped' = Arenas /\ registry' = Tensors
  /\ page' = [x \in Slices |-> "none"]
  /\ owner' = [owner EXCEPT !.pc = "idle"]
  /\ UNCHANGED <<lru, pinned, filling, mutex, worker, prediction, stop, mode>>

-----------------------------------------------------------------------------
(* The lists *)

\* ssd_evict and what its callers do around it: the tail of probation goes,
\* and the tail of protected only if there is none that the pass does not pin.
EvictableAnyTail(seg) == seg # <<>>   \* a mutant: the pass pins nothing
Evictable(seg) == seg # <<>> /\ Last(seg) \notin pinned
Victims == Evictable(probation) \/ Evictable(protectd)
EvictOne ==
  \/ /\ Evictable(probation)
     /\ probation' = Front(probation)
     /\ resident' = resident - Bytes(Last(probation))
     /\ page' = [page EXCEPT ![Last(probation)] = "none"]
     /\ UNCHANGED <<protectd, protectedBytes>>
  \/ /\ ~Evictable(probation) /\ Evictable(protectd)
     /\ protectd' = Front(protectd)
     /\ resident' = resident - Bytes(Last(protectd))
     /\ protectedBytes' = protectedBytes - Bytes(Last(protectd))
     /\ page' = [page EXCEPT ![Last(protectd)] = "none"]
     /\ UNCHANGED probation

\* ssd_touch on a hit in probation of a segmented LRU, with ssd_demote_protected: the
\* tails of the protected list go to the front of probation until it fits its cap.
Booked(seg, n) == protectedBytes + Bytes(Head(seg)) - BytesIn(SubSeq(seg, n + 1, Len(seg)))
Demotes(seg, n) ==
  /\ Booked(seg, n) <= ProtectedCap
  /\ \A m \in n+1..Len(seg) : Booked(seg, m) > ProtectedCap
Promote(x) ==
  \E n \in 0..Len(Cons(x, protectd)) :
    /\ Demotes(Cons(x, protectd), n)
    /\ protectd' = Kept(Cons(x, protectd), n)
    /\ probation' = Demoted(Cons(x, protectd), n, Without(probation, x))
    /\ protectedBytes' = Booked(Cons(x, protectd), n)

-----------------------------------------------------------------------------
(* The owner: fill passes *)

\* A pass begins: eval_cb and prefill_experts touch every expert the node
\* uses, gpu_bind those its VRAM slots miss; prefill_experts predicts nothing.
StartPass(used, todo) ==
  /\ owner.pc = "idle" /\ mutex = "free"
  /\ mutex' = "owner" /\ pinned' = {}
  /\ owner' = [pc |-> "touch", used |-> used, todo |-> todo, touched |-> {}, deferred |-> {}]
  /\ UNCHANGED <<lru, filling, page, worker, prediction, model>>
\* A node whose tensor is not registered: the pass is counted, nothing else.
OtherNode ==
  /\ owner.pc = "idle" /\ mutex = "free"
  /\ pinned' = {}
  /\ UNCHANGED <<lru, filling, page, mutex, owner, worker, prediction, model>>

Touching(x) == owner.pc = "touch" /\ owner.todo # <<>> /\ x = Head(owner.todo)
Touched(x, defer) ==
  [owner EXCEPT !.todo = Tail(@), !.touched = @ \cup {x},
                !.deferred = IF defer THEN @ \cup {x} ELSE @]

\* The worker is reading this very slice: the mutex is released until it is done.
WaitForFill(x) ==
  /\ Touching(x) /\ x \in filling
  /\ mutex' = "free" /\ owner' = [owner EXCEPT !.pc = "wait"]
  /\ UNCHANGED <<lru, pinned, filling, page, worker, prediction, model>>
Woken ==
  /\ owner.pc = "wait" /\ mutex = "free" /\ Head(owner.todo) \notin filling
  /\ mutex' = "owner" /\ owner' = [owner EXCEPT !.pc = "touch"]
  /\ UNCHANGED <<lru, pinned, filling, page, worker, prediction, model>>

Hit(x) ==
  /\ Touching(x) /\ x \in Nodes \ filling
  /\ \/ /\ x \in ToSet(protectd)
        /\ protectd' = ToFront(protectd, x)
        /\ UNCHANGED <<probation, protectedBytes>>
     \/ /\ x \in ToSet(probation) /\ mode.slru /\ Promote(x)
     \/ /\ x \in ToSet(probation) /\ ~mode.slru
        /\ probation' = ToFront(probation, x)
        /\ UNCHANGED <<protectd, protectedBytes>>
  /\ pinned' = pinned \cup {x} /\ owner' = Touched(x, FALSE)
  /\ UNCHANGED <<resident, filling, page, mutex, worker, prediction, model>>

\* A miss makes room first ...
Deferring == mode.par /\ owner.used # <<>>
MissingInIndex(x) == Touching(x) /\ x \notin Nodes   \* a mutant: a second read of what is being read
Missing(x) == Touching(x) /\ x \notin Nodes \cup filling
Full(x) == resident + Bytes(x) > Budget
MakeRoom(x) ==
  /\ Missing(x) /\ Full(x) /\ EvictOne
  /\ UNCHANGED <<pinned, filling, mutex, owner, worker, prediction, model>>
\* ... and overshoots the budget when both tails belong to the pass.  With more
\* than one read thread eval_cb and gpu_bind read the bytes at the end of the pass.
Insert(x) ==
  /\ Missing(x) /\ (~Full(x) \/ ~Victims)
  /\ probation' = Cons(x, probation)
  /\ resident' = resident + Bytes(x)
  /\ pinned' = pinned \cup {x}
  /\ page' = [page EXCEPT ![x] = IF Deferring THEN "part" ELSE "whole"]
  /\ owner' = Touched(x, Deferring)
  /\ UNCHANGED <<protectd, protectedBytes, filling, mutex, worker, prediction, model>>

\* ssd_prefetch_observe: the experts of this pass are kept, those of the next
\* tensors' last passes are queued, the oldest predictions fall off the queue.
Position(t, ord) == CHOOSE i \in DOMAIN ord : ord[i] = t
Predicted(t, ord, last) ==
  LET n == Len(ord)
      After(k) == ord[((Position(t, ord) - 1 + k) % n) + 1]
      Known(s) == SelectSeq([i \in DOMAIN last[s] |-> <<s, last[s][i]>>],
                             LAMBDA x : x \notin Nodes \cup filling)
  IN  IF n < 2 THEN <<>>
      ELSE FlattenSeq([k \in 1..Min2(Depth, n - 1) |-> Known(After(k))])
Newest(s) == SubSeq(s, Len(s) - Min2(Len(s), QueueMax) + 1, Len(s))
Observe(used) ==
  IF used = <<>> THEN UNCHANGED <<lastIds, order, queue, worker>>
  ELSE LET t == used[1][1]
           ord == IF t \in ToSet(order) THEN order ELSE Append(order, t)
           last == [lastIds EXCEPT ![t] = [i \in DOMAIN used |-> used[i][2]]]
       IN  /\ order' = ord /\ lastIds' = last
           /\ queue' = Newest(queue \o Predicted(t, ord, last))
           /\ worker' = [worker EXCEPT !.pc = IF @ = "off" THEN "idle" ELSE @]

\* The deferred reads, the predictions, and the mutex is released.
EndPass ==
  /\ owner.pc = "touch" /\ owner.todo = <<>>
  /\ page' = [x \in Slices |-> IF x \in owner.deferred THEN "whole" ELSE page[x]]
  /\ Observe(owner.used)
  /\ owner' = [owner EXCEPT !.pc = "compute", !.used = <<>>, !.deferred = {}]
  /\ mutex' = "free"
  /\ UNCHANGED <<lru, pinned, filling, model>>
\* The node that uses the slices is computed, or they are copied to the device.
Compute ==
  /\ owner.pc = "compute" /\ owner' = [NoPass EXCEPT !.pc = "idle"]
  /\ UNCHANGED <<lru, pinned, filling, page, mutex, worker, prediction, model>>

-----------------------------------------------------------------------------
(* The owner: unloading *)

FreeArenaSilent(a) ==   \* a mutant: the worker is not told to stop
  /\ owner.pc \in {"idle", "freeing"} /\ a \in mapped
  /\ mapped' = mapped \ {a}
  /\ owner' = [owner EXCEPT !.pc = IF mapped = {a} THEN "join" ELSE "freeing"]
  /\ UNCHANGED <<lru, pinned, filling, page, mutex, worker, prediction, registry, mode, stop>>
\* ssd_buffer_free: the arena is unmapped; after the last one the state goes too.
FreeArena(a) ==
  /\ owner.pc \in {"idle", "freeing"} /\ a \in mapped
  /\ mapped' = mapped \ {a}
  /\ stop' = (mapped = {a} /\ worker.pc # "off")
  /\ owner' = [owner EXCEPT !.pc = IF mapped = {a} THEN "join" ELSE "freeing"]
  /\ UNCHANGED <<lru, pinned, filling, page, mutex, worker, prediction, registry, mode>>
ResetUnjoined ==   \* a mutant: the worker is not joined
  /\ owner.pc = "join" /\ mutex = "free"
  /\ probation' = <<>> /\ protectd' = <<>> /\ protectedBytes' = 0 /\ resident' = 0
  /\ filling' = {} /\ queue' = <<>> /\ order' = <<>>
  /\ lastIds' = [t \in Tensors |-> <<>>] /\ registry' = {} /\ stop' = FALSE
  /\ owner' = [owner EXCEPT !.pc = "none"]
  /\ pinned' = {}
  /\ UNCHANGED <<page, mutex, worker, mapped, mode>>
\* ssd_stream_reset: the worker is joined before the mutex is taken.
Reset ==
  /\ owner.pc = "join" /\ worker.pc = "off" /\ mutex = "free"
  /\ probation' = <<>> /\ protectd' = <<>> /\ protectedBytes' = 0 /\ resident' = 0
  /\ filling' = {} /\ queue' = <<>> /\ order' = <<>>
  /\ lastIds' = [t \in Tensors |-> <<>>] /\ registry' = {} /\ stop' = FALSE
  /\ owner' = [owner EXCEPT !.pc = "none"]
  /\ pinned' = {}
  /\ UNCHANGED <<page, mutex, worker, mapped, mode>>

-----------------------------------------------------------------------------
(* The prefetch worker *)

TakeBatch ==
  /\ worker.pc = "idle" /\ ~stop /\ queue # <<>>
  /\ LET n == Min2(Len(queue), BatchMax) IN
     /\ worker' = [worker EXCEPT !.pc = "lock", !.batch = SubSeq(queue, 1, n)]
     /\ queue' = SubSeq(queue, n + 1, Len(queue))
  /\ UNCHANGED <<lru, pinned, filling, page, mutex, owner, lastIds, order, model>>
WorkerStops ==
  /\ worker.pc = "idle" /\ stop
  /\ worker' = NoWork
  /\ UNCHANGED <<lru, pinned, filling, page, mutex, owner, prediction, model>>
LockBatch ==
  /\ worker.pc = "lock" /\ mutex = "free"
  /\ mutex' = "worker" /\ worker' = [worker EXCEPT !.pc = "place"]
  /\ UNCHANGED <<lru, pinned, filling, page, owner, prediction, model>>

Placing(x) == worker.pc = "place" /\ worker.batch # <<>> /\ x = Head(worker.batch)
Wanted(x) == x \notin Nodes \cup filling /\ x[1] \in registry
\* Resident, being read, no longer registered - or it fits only at the cost of
\* the current pass: the prediction is dropped.
Skip(x) ==
  /\ Placing(x) /\ (~Wanted(x) \/ (Full(x) /\ ~Victims))
  /\ worker' = [worker EXCEPT !.batch = Tail(@)]
  /\ UNCHANGED <<lru, pinned, filling, page, mutex, owner, prediction, model>>
PlaceRoom(x) ==
  /\ Placing(x) /\ Wanted(x) /\ Full(x) /\ EvictOne
  /\ UNCHANGED <<pinned, filling, mutex, owner, worker, prediction, model>>
\* The bytes are reserved; the read will go over what the arena holds there.
Reserve(x) ==
  /\ Placing(x) /\ Wanted(x) /\ ~Full(x)
  /\ filling' = filling \cup {x} /\ resident' = resident + Bytes(x)
  /\ page' = [page EXCEPT ![x] = "part"]
  /\ worker' = [worker EXCEPT !.batch = Tail(@), !.reads = Append(@, x)]
  /\ UNCHANGED <<probation, protectd, protectedBytes, pinned, mutex, owner, prediction, model>>
UnlockBatch ==
  /\ worker.pc = "place" /\ worker.batch = <<>>
  /\ mutex' = "free" /\ worker' = [worker EXCEPT !.pc = "read"]
  /\ UNCHANGED <<lru, pinned, filling, page, owner, prediction, model>>

\* ssd_read_batch, without the mutex: one failed read spoils the batch.
ReadBatch(ok) ==
  /\ worker.pc = "read" /\ (worker.reads = <<>> => ok)
  /\ page' = [x \in Slices |-> IF ok /\ x \in ToSet(worker.reads) THEN "whole" ELSE page[x]]
  /\ worker' = [worker EXCEPT !.pc = "land", !.ok = ok]
  /\ UNCHANGED <<lru, pinned, filling, mutex, owner, prediction, model>>
LandFailedStuck ==   \* a mutant: a failed read stays in filling
  /\ worker.pc = "land" /\ mutex = "free"
  /\ filling' = IF worker.ok THEN filling \ ToSet(worker.reads) ELSE filling
  /\ IF worker.ok
     THEN probation' = Reverse(worker.reads) \o probation /\ UNCHANGED resident
     ELSE resident' = resident - BytesIn(worker.reads) /\ UNCHANGED probation
  /\ worker' = [NoWork EXCEPT !.pc = "idle"]
  /\ UNCHANGED <<protectd, protectedBytes, pinned, page, mutex, owner, prediction, model>>
\* The slices enter probation as its most recent, with no pass of their own.
Land ==
  /\ worker.pc = "land" /\ mutex = "free"
  /\ filling' = filling \ ToSet(worker.reads)
  /\ IF worker.ok
     THEN probation' = Reverse(worker.reads) \o probation /\ UNCHANGED resident
     ELSE resident' = resident - BytesIn(worker.reads) /\ UNCHANGED probation
  /\ worker' = [NoWork EXCEPT !.pc = "idle"]
  /\ UNCHANGED <<protectd, protectedBytes, pinned, page, mutex, owner, prediction, model>>

-----------------------------------------------------------------------------
\* What a pass may be asked for: the experts a node uses, in the order of its ids.
BeginPass == \E t \in registry : \E l \in IdLists[t] :
  LET ids == [i \in DOMAIN l |-> <<t, l[i]>>] IN
  \/ StartPass(ids, ids)                                  \* ggml_ssd_stream_eval_cb
  \/ StartPass(<<>>, ids)                                 \* ggml_ssd_stream_prefill_experts
  \/ \E m \in SUBSET ToSet(ids) : m # ToSet(ids) /\ StartPass(ids, SelectSeq(ids, LAMBDA x : x \in m))  \* ggml_ssd_stream_gpu_bind

TouchOne == \E x \in Slices :
  WaitForFill(x) \/ Hit(x) \/ MakeRoom(x) \/ Insert(x)
Pass == TouchOne \/ Woken \/ EndPass \/ Compute
Unload == (\E a \in Arenas : owner.pc = "freeing" /\ FreeArena(a)) \/ Reset
Worker ==
  \/ TakeBatch \/ WorkerStops \/ LockBatch \/ UnlockBatch \/ Land
  \/ \E x \in Slices : Skip(x) \/ PlaceRoom(x) \/ Reserve(x)
  \/ \E ok \in BOOLEAN : ReadBatch(ok)
Next == Load \/ BeginPass \/ OtherNode \/ Pass \/ (\E a \in Arenas : FreeArena(a)) \/ Reset \/ Worker

Spec == Init /\ [][Next]_vars
\* The owner goes on with a pass or an unloading it has begun; the worker's
\* thread is scheduled and its reads return.
SsdFairness == WF_vars(Pass \/ Unload) /\ WF_vars(Worker)
-----------------------------------------------------------------------------
\* Every variable has its type (ssd_stream_state); the bytes never go below zero.
TypeOK ==
  /\ probation \in Seq(Slices) /\ protectd \in Seq(Slices) /\ queue \in Seq(Slices)
  /\ protectedBytes \in Nat /\ resident \in Nat
  /\ pinned \subseteq Slices /\ filling \subseteq Slices
  /\ page \in [Slices -> {"none", "part", "whole"}]
  /\ mutex \in {"free", "owner", "worker"}
  /\ owner \in [pc : {"none", "idle", "touch", "wait", "compute", "freeing", "join"},
                used : Seq(Slices), todo : Seq(Slices),
                touched : SUBSET Slices, deferred : SUBSET Slices]
  /\ worker \in [pc : {"off", "idle", "lock", "place", "read", "land"},
                 batch : Seq(Slices), reads : Seq(Slices), ok : BOOLEAN]
  /\ stop \in BOOLEAN /\ lastIds \in [Tensors -> Seq(Experts)] /\ order \in Seq(Tensors)
  /\ mapped \subseteq Arenas /\ registry \subseteq Tensors
  /\ mode \in Modes

\* A slice has one node, and none while it is being read: the worker inserts what it
\* read without another look at the index, and the demand waits for it (ssd_touch).
OneNode ==
  /\ IsInjective(probation) /\ IsInjective(protectd)
  /\ ToSet(probation) \cap ToSet(protectd) = {}
  /\ Nodes \cap filling = {}

\* The slices a node is computed from are all whole in the arena, whatever the rest of
\* its pass and the worker have evicted or read meanwhile; what the index calls
\* resident is whole, but for the deferred reads of the running pass (eval_cb, gpu_bind,
\* prefill_experts).
ServesWhole ==
  /\ owner.pc = "compute" => \A x \in owner.touched : x \in Nodes /\ page[x] = "whole"
  /\ \A x \in Nodes \ owner.deferred : page[x] = "whole"

\* Nothing of a model that was unloaded is resident, being read or waited for: a late
\* read of the worker may not reach the state of the next model (ssd_stream_reset).
NoGhost == \A x \in Nodes \cup filling : x[1] \in registry

\* A fill pass comes to its end, the computation of its node, although it waits for reads
\* of the worker, which may fail (fill_cv); and an unloading, which frees the arenas,
\* although it waits for the worker, which may be reading or about to take the mutex (the
\* join).  No step leaves these places but the last of a pass or of an unloading.
OwnerEnds == []<>(owner.pc \notin {"touch", "wait", "freeing", "join"})
=============================================================================
