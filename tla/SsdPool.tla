------------------------------ MODULE SsdPool ------------------------------
(***************************************************************************)
(* The device tier of the SSD expert streaming: a pool of K VRAM slots     *)
(* (gpu_slot_pool) that the nodes of one slice shape share, and the bind   *)
(* of a node (ggml_ssd_stream_gpu_bind), which touches the pool for every  *)
(* expert the node uses, copies the slices the pool misses from the arena  *)
(* (SsdStream shows them whole there) and gives the node slot ids for its  *)
(* expert ids.  Every node keeps the tensor its router writes its          *)
(* selection to, since the node itself is left pointing at the slot ids;   *)
(* a graph that is rebuilt may put its nodes and ids at old addresses.     *)
(***************************************************************************)
EXTENDS Integers, FiniteSets, SequencesExt, LruLists

CONSTANTS Keys,          \* the slices (tensor, expert) of one shape
          K,             \* slots of the pool
          PoolModes,     \* LLAMA_SSD_STREAM_GPU_SLRU and the slots of its protected segment
          GpuNodes,      \* addresses of graph nodes
          Ids,           \* addresses of the tensors that routers write
          Uses,          \* input of the model: the lists of slices a node may use
          None

ASSUME KAssumption == K \in Nat \ {0} /\ PoolModes \subseteq [slru : BOOLEAN, cap : 0..K]
ASSUME UsesAssumption == Uses \subseteq Seq(Keys) /\ \A u \in Uses : u # <<>> /\ IsInjective(u)

Slots == 0..K-1

VARIABLES
  slotProbation, slotProtectd,  \* lists of keys, most recent first
  slotOf,               \* idx: the slot of every key of the two lists
  freelist,             \* the slots never used
  content,              \* the slice a slot holds
  graph,                \* the ids tensor of each node of the current graph
  src,                  \* node->src[2]: an ids tensor, or the node's own slot ids
  orig,                 \* gpu_node_state::orig_ids
  job,                  \* [pc, node, todo, map, fill]: fill is the slice to be copied to a slot
  slotMode                  \* the environment the process was started with

pool == <<slotProbation, slotProtectd, slotOf, freelist, slotMode>>
wiring == <<graph, src, orig>>
poolVars == <<pool, content, wiring, job>>

SlotIds == "slot ids"
ASSUME NoneAssumption == None \notin Keys \cup Ids /\ SlotIds \notin Ids
NoMap == [x \in {} |-> 0]
NoFill == [s \in Slots |-> None]
NoJob == [pc |-> "idle", node |-> None, todo |-> <<>>, map |-> NoMap, fill |-> NoFill]

\* ggml_ssd_stream_gpu_ensure_pool, gpu_slot_pool::init
PoolInit ==
  /\ slotProbation = <<>> /\ slotProtectd = <<>> /\ slotOf = NoMap
  /\ freelist = [i \in 1..K |-> K - i]
  /\ content = [s \in Slots |-> None]
  /\ graph \in [GpuNodes -> Ids] /\ src = graph /\ orig = [n \in GpuNodes |-> None]
  /\ job = NoJob /\ slotMode \in PoolModes

\* A new graph: its nodes point at the tensors of their routers again.
Rebuild ==
  /\ job.pc = "idle"
  /\ graph' \in [GpuNodes -> Ids] /\ src' = graph'
  /\ UNCHANGED <<pool, content, orig, job>>

\* ssd_stream_reset: the model is unloaded with its pools, and another one loaded.
PoolReset ==
  /\ job.pc = "idle"
  /\ slotProbation' = <<>> /\ slotProtectd' = <<>> /\ slotOf' = NoMap
  /\ freelist' = [i \in 1..K |-> K - i]
  /\ content' = [s \in Slots |-> None]
  /\ graph' \in [GpuNodes -> Ids] /\ src' = graph' /\ orig' = [n \in GpuNodes |-> None]
  /\ UNCHANGED <<job, slotMode>>

OrigIdsKept(n) == IF orig[n] = None THEN src[n] ELSE orig[n]   \* a mutant: kept for ever
\* ggml_ssd_stream_gpu_orig_ids: an address that is neither the tensor kept for the
\* node nor its slot ids belongs to a node that took the place of an old one.
OrigIds(n) ==
  IF orig[n] = None \/ src[n] \notin {orig[n], SlotIds} THEN src[n] ELSE orig[n]
Bind(n, used) ==
  /\ job.pc = "idle"
  /\ orig' = [orig EXCEPT ![n] = OrigIds(n)]
  /\ job' = [NoJob EXCEPT !.pc = "touch", !.node = n, !.todo = used]
  /\ UNCHANGED <<pool, content, graph, src>>

-----------------------------------------------------------------------------
(* gpu_slot_pool::touch *)

TouchingSlot(x) == job.pc = "touch" /\ job.todo # <<>> /\ x = Head(job.todo)
Mapped(x, s) == [y \in DOMAIN job.map \cup {x} |-> IF y = x THEN s ELSE job.map[y]]

\* demote: what exceeds the cap goes to the front of probation, in its order.
SlotHit(x) ==
  /\ TouchingSlot(x) /\ x \in DOMAIN slotOf
  /\ \/ /\ x \in ToSet(slotProtectd)
        /\ slotProtectd' = ToFront(slotProtectd, x) /\ UNCHANGED slotProbation
     \/ /\ x \notin ToSet(slotProtectd) /\ slotMode.slru
        /\ LET seg == Cons(x, slotProtectd)
               n == IF Len(seg) > slotMode.cap THEN slotMode.cap ELSE Len(seg)
           IN  /\ slotProtectd' = Kept(seg, n)
               /\ slotProbation' = Demoted(seg, n, Without(slotProbation, x))
     \/ /\ x \notin ToSet(slotProtectd) /\ ~slotMode.slru
        /\ slotProbation' = ToFront(slotProbation, x) /\ UNCHANGED slotProtectd
  /\ job' = [job EXCEPT !.todo = Tail(@), !.map = Mapped(x, slotOf[x])]
  /\ UNCHANGED <<slotOf, freelist, slotMode, content, wiring>>

Assigned(x, s, victims) ==
  [y \in (DOMAIN slotOf \ victims) \cup {x} |-> IF y = x THEN s ELSE slotOf[y]]
Missed(x, s) ==
  job' = [job EXCEPT !.todo = Tail(@), !.map = Mapped(x, s), !.fill[s] = x]
MissingSlot(x) == TouchingSlot(x) /\ x \notin DOMAIN slotOf
TakeFree(x) ==
  /\ MissingSlot(x) /\ freelist # <<>>
  /\ LET s == Last(freelist) IN
     /\ freelist' = Front(freelist)
     /\ slotOf' = Assigned(x, s, {})
     /\ Missed(x, s)
  /\ slotProbation' = Cons(x, slotProbation)
  /\ UNCHANGED <<slotProtectd, slotMode, content, wiring>>
\* Nothing pins a slot: the victim may be one this very bind has given out.
EvictFrom(x, seg) ==
  /\ slotOf' = Assigned(x, slotOf[Last(seg)], {Last(seg)})
  /\ Missed(x, slotOf[Last(seg)])
EvictProtected(x) ==   \* a mutant: the other segment first
  /\ MissingSlot(x) /\ freelist = <<>>
  /\ \/ /\ slotProtectd = <<>> /\ EvictFrom(x, slotProbation)
        /\ slotProbation' = Cons(x, Front(slotProbation)) /\ UNCHANGED slotProtectd
     \/ /\ slotProtectd # <<>> /\ EvictFrom(x, slotProtectd)
        /\ slotProbation' = Cons(x, slotProbation) /\ slotProtectd' = Front(slotProtectd)
  /\ UNCHANGED <<freelist, slotMode, content, wiring>>

Evict(x) ==
  /\ MissingSlot(x) /\ freelist = <<>>
  /\ \/ /\ slotProbation # <<>> /\ EvictFrom(x, slotProbation)
        /\ slotProbation' = Cons(x, Front(slotProbation)) /\ UNCHANGED slotProtectd
     \/ /\ slotProbation = <<>> /\ slotProtectd # <<>> /\ EvictFrom(x, slotProtectd)
        /\ slotProbation' = <<x>> /\ slotProtectd' = Front(slotProtectd)
  /\ UNCHANGED <<freelist, slotMode, content, wiring>>
-----------------------------------------------------------------------------
\* The misses are copied, each to the slot its touch returned, the last one met into a
\* slot last, and the copies are waited for; the node gets its slot ids.
Fill ==
  /\ job.pc = "touch" /\ job.todo = <<>>
  /\ content' = [s \in Slots |-> IF job.fill[s] = None THEN content[s] ELSE job.fill[s]]
  /\ src' = [src EXCEPT ![job.node] = SlotIds]
  /\ job' = [job EXCEPT !.pc = "run", !.fill = NoFill]
  /\ UNCHANGED <<pool, graph, orig>>
\* The node multiplies with the slots it was given.
Run == job.pc = "run" /\ job' = NoJob /\ UNCHANGED <<pool, content, wiring>>

PoolNext ==
  \/ Rebuild \/ PoolReset \/ Fill \/ Run
  \/ \E n \in GpuNodes, used \in Uses : Bind(n, used)
  \/ \E x \in Keys : SlotHit(x) \/ TakeFree(x) \/ Evict(x)
PoolSpec == PoolInit /\ [][PoolNext]_poolVars

-----------------------------------------------------------------------------
\* Every variable has its type (gpu_slot_pool, gpu_node_state).
PoolTypeOK ==
  /\ slotMode \in PoolModes /\ slotProbation \in Seq(Keys) /\ slotProtectd \in Seq(Keys)
  /\ freelist \in Seq(Slots)
  /\ DOMAIN slotOf \subseteq Keys /\ \A x \in DOMAIN slotOf : slotOf[x] \in Slots
  /\ content \in [Slots -> Keys \cup {None}]
  /\ graph \in [GpuNodes -> Ids] /\ src \in [GpuNodes -> Ids \cup {SlotIds}]
  /\ orig \in [GpuNodes -> Ids \cup {None}]
  /\ job.pc \in {"idle", "touch", "run"} /\ job.node \in GpuNodes \cup {None}
  /\ job.todo \in Seq(Keys) /\ job.fill \in [Slots -> Keys \cup {None}]
  /\ DOMAIN job.map \subseteq Keys /\ \A x \in DOMAIN job.map : job.map[x] \in Slots

\* Every slot belongs to one key of the lists or is free (idx, freelist), and when no
\* bind is at work it holds what its key says: a hit needs no copy.
PoolHolds ==
  /\ DOMAIN slotOf = ToSet(slotProbation) \cup ToSet(slotProtectd)
  /\ IsInjective(slotOf) /\ {slotOf[x] : x \in DOMAIN slotOf} \cap ToSet(freelist) = {}
  /\ job.pc # "touch" => \A x \in DOMAIN slotOf : content[slotOf[x]] = x

\* A node that uses no more experts than the slots outside the protected segment
\* multiplies with the experts it chose: none of its slots went to another of its
\* experts (gpu_bind, which pins nothing).  Beyond that it may not, see README.md.
SlotsServe ==
  job.pc = "run" /\ Cardinality(DOMAIN job.map) <= K - slotMode.cap =>
    \A x \in DOMAIN job.map : content[job.map[x]] = x

\* A node reads the selection of the router of the graph it is in, never of an older
\* one that had a node at this address (ggml_ssd_stream_gpu_orig_ids).
IdsAreFresh == job.pc # "idle" => orig[job.node] = graph[job.node]
=============================================================================
