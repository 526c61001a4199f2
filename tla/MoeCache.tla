------------------------------ MODULE MoeCache ------------------------------
(***************************************************************************)
(* The MoE expert cache of src/src/llama-moe-cache.cpp.                    *)
(*                                                                         *)
(* Every cached layer has a pool of device slots.  The decode thread calls *)
(* step() before each decode, with no graph in flight; one worker thread   *)
(* copies experts into slots while graphs run.  A graph routes an expert   *)
(* to the device chain or to the host chain through two tables.            *)
(*                                                                         *)
(* step() is several actions: the worker runs between them, and they share *)
(* only todo and done (under the mutex) and the memory of the slots.       *)
(***************************************************************************)
EXTENDS Integers, FiniteSets, FiniteSetsExt

CONSTANTS
  Experts,      \* the routed experts of a layer
  NoExpert,     \* slot_expert = -1: the slot is free
  Torn,         \* memory of a slot while a copy into it is under way
  NLayers,      \* cached layers, numbered from 1
  NSlots,       \* slots of a layer
  StaticFill,   \* set of <<expert, slot>> filled by create (params.static_fill)
  Inserts,      \* params.inserts: uploads per layer per step
  Slab,         \* bytes of one expert of a layer
  StepCap,      \* params.step_mib: upload bytes per step
  HotUses,      \* params.hot_uses
  HitCap,       \* UINT16_MAX for slot_hits
  MissCap,      \* UINT16_MAX for miss_count
  AgeEvery,     \* slot_hits are halved every AgeEvery steps (64)
  ObsCap,       \* room of the observation buffer
  Routings      \* what one graph may route in a layer: expert -> number of rows

Layers == 1..NLayers
Slots  == 0..NSlots-1
Skip   == -1     \* LLAMA_EXPERT_SLOT_SKIP, and expert_slot = -1

ASSUME NoExpertAssumption == NoExpert \notin Experts
ASSUME TornAssumption     == Torn \notin Experts
ASSUME SizeAssumption     == /\ IsFiniteSet(Experts)
                             /\ NLayers \in Nat \ {0}
                             /\ NSlots \in Nat \ {0}
                             /\ Inserts \in Nat \ {0}
ASSUME BudgetAssumption   == /\ Slab \in [Layers -> Nat \ {0}]
                             /\ StepCap \in Nat
ASSUME PolicyAssumption   == /\ HotUses \in Nat
                             /\ HitCap \in Nat
                             /\ MissCap \in Nat
                             /\ AgeEvery \in Nat \ {0}
                             /\ ObsCap \in Nat
ASSUME RoutingAssumption  == Routings \subseteq [Experts -> Nat]
\* static_fill puts expert e in slot e: no expert and no slot twice
ASSUME FillAssumption     == /\ StaticFill \subseteq Experts \X Slots
                             /\ \A f, g \in StaticFill : f[1] = g[1] <=> f[2] = g[2]

VARIABLES
  phase,        \* where the decode thread is
  \* residency, written by step() alone
  slotExpert, expertSlot, inFlight, pending,
  \* the replacement policy
  pos,          \* order of slot_last_use, ties by slot index: 0 = least recent
  hits, missCount, obs, clock,
  \* what the device sees
  gpuTable,     \* expert -> slot or Skip
  cpuTable,     \* the experts the host chain computes
  content,      \* what the memory of a slot holds
  \* locals of step()
  finished, cand, fresh, dirty, round, li, bytes, scheduled,
  \* shared with the worker, under mtx
  todo, done, stop,
  \* the worker
  wpc, batch, toCopy

residency  == <<slotExpert, expertSlot, inFlight, pending>>
policy     == <<pos, hits, missCount, obs, clock>>
tables     == <<gpuTable, cpuTable>>
loop       == <<cand, round, li, bytes>>
worker     == <<wpc, batch, toCopy>>
vars == <<phase, residency, policy, tables, content, finished, fresh, dirty,
          loop, scheduled, todo, done, stop, worker>>

Job == [layer : Layers, expert : Experts, slot : Slots]

\* The tables flush_tables writes for a layer whose map is es.
GpuTableOf(es) == es
CpuTableOf(es) == {e \in Experts : es[e] = Skip}

Init ==
  LET es == [e \in Experts |-> IF \E s \in Slots : <<e, s>> \in StaticFill
                               THEN CHOOSE s \in Slots : <<e, s>> \in StaticFill
                               ELSE Skip]
      se == [s \in Slots |-> IF \E e \in Experts : <<e, s>> \in StaticFill
                             THEN CHOOSE e \in Experts : <<e, s>> \in StaticFill
                             ELSE NoExpert]
  IN
  /\ phase = "idle"
  /\ slotExpert = [l \in Layers |-> se]
  /\ expertSlot = [l \in Layers |-> es]
  /\ content    = [l \in Layers |-> se]
  /\ gpuTable   = [l \in Layers |-> GpuTableOf(es)]
  /\ cpuTable   = [l \in Layers |-> CpuTableOf(es)]
  /\ inFlight   = [l \in Layers |-> {}]
  /\ pending    = [l \in Layers |-> {}]
  /\ pos        = [l \in Layers |-> [s \in Slots |-> s]]
  /\ hits       = [l \in Layers |-> [s \in Slots |-> 0]]
  /\ missCount  = [l \in Layers |-> [e \in Experts |-> 0]]
  /\ obs        = [l \in Layers |-> [e \in Experts |-> 0]]
  /\ clock      = 0
  /\ cand       = [l \in Layers |-> {}]
  /\ fresh      = [l \in Layers |-> {}]
  /\ finished = {} /\ dirty = {} /\ scheduled = {}
  /\ round = 0 /\ li = 1 /\ bytes = 0
  /\ todo = {} /\ done = {} /\ stop = FALSE
  /\ wpc = "wait" /\ batch = {} /\ toCopy = {}

-----------------------------------------------------------------------------
(* step(), part 1: publish the uploads the worker completed.               *)

BeginStep ==
  /\ phase \in {"idle", "ready"}
  /\ phase' = "publish"
  /\ finished' = done
  /\ done' = {}
  /\ clock' = (clock + 1) % AgeEvery
  /\ fresh' = [l \in Layers |-> {}]
  /\ UNCHANGED <<residency, pos, hits, missCount, obs, tables, content, dirty,
                 loop, scheduled, todo, stop, worker>>

\* the upload is over: slot_in_flight and expert_pending are cleared
SettlePendingOnly(j) ==
  /\ pending' = [pending EXCEPT ![j.layer] = @ \ {j.expert}]
  /\ UNCHANGED inFlight
Settle(j) ==
  /\ inFlight' = [inFlight EXCEPT ![j.layer] = @ \ {j.slot}]
  /\ pending'  = [pending  EXCEPT ![j.layer] = @ \ {j.expert}]

Publish(j) ==
  /\ phase = "publish"
  /\ j \in finished
  /\ finished' = finished \ {j}
  /\ slotExpert' = [slotExpert EXCEPT ![j.layer][j.slot] = j.expert]
  /\ expertSlot' = [expertSlot EXCEPT ![j.layer] =
                      [e \in Experts |-> IF e = j.expert THEN j.slot
                                         ELSE IF e = slotExpert[j.layer][j.slot] THEN Skip
                                         ELSE @[e]]]
  /\ Settle(j)
  /\ fresh'    = [fresh    EXCEPT ![j.layer] = @ \cup {j.slot}]
  /\ hits'      = [hits      EXCEPT ![j.layer][j.slot]   = 0]
  /\ missCount' = [missCount EXCEPT ![j.layer][j.expert] = 0]
  /\ dirty' = dirty \cup {j.layer}
  /\ UNCHANGED <<phase, pos, obs, clock, tables, content, loop, scheduled,
                 todo, done, stop, worker>>

(* step(), part 2: consume the observations.                               *)

Capped(n, cap) == IF n > cap THEN cap ELSE n

\* hits the observations of layer l add to slot s
HitsOn(l, s) == IF \E e \in Experts : expertSlot[l][e] = s
                THEN obs[l][CHOOSE e \in Experts : expertSlot[l][e] = s]
                ELSE 0

\* slots whose slot_last_use is the current step: published now, or hit
UsedNow(l) == fresh[l] \cup {s \in Slots : HitsOn(l, s) > 0}

\* slot_last_use as a rank: the slots used now move behind all others
Rank(p, used, s) ==
  IF s \in used
    THEN Cardinality(Slots \ used) + Cardinality({t \in used : t < s})
    ELSE Cardinality({t \in Slots \ used : p[t] < p[s]})

\* missed, and no upload for it is queued
CandidatesWithPending(l) == {e \in Experts : obs[l][e] > 0 /\ expertSlot[l][e] = Skip}
Candidates(l) == {e \in Experts : /\ obs[l][e] > 0
                                  /\ expertSlot[l][e] = Skip
                                  /\ e \notin pending[l]}

Consume ==
  /\ phase = "publish"
  /\ finished = {}
  /\ phase' = "sched"
  /\ fresh' = [l \in Layers |-> UsedNow(l)]
  /\ pos'   = [l \in Layers |-> [s \in Slots |-> Rank(pos[l], UsedNow(l), s)]]
  /\ hits'  = [l \in Layers |-> [s \in Slots |->
                 LET h == Capped(hits[l][s] + HitsOn(l, s), HitCap)
                 IN  IF clock = 0 THEN h \div 2 ELSE h]]
  /\ missCount' = [l \in Layers |-> [e \in Experts |->
                     IF expertSlot[l][e] = Skip
                       THEN Capped(missCount[l][e] + obs[l][e], MissCap)
                       ELSE missCount[l][e]]]
  /\ cand' = [l \in Layers |-> Candidates(l)]
  /\ obs' = [l \in Layers |-> [e \in Experts |-> 0]]
  /\ round' = 0 /\ li' = 1 /\ bytes' = 0
  /\ UNCHANGED <<residency, clock, tables, content, finished, dirty, scheduled,
                 todo, done, stop, worker>>

-----------------------------------------------------------------------------
(* The scheduling loop: rounds over the layers, one candidate at a time,   *)
(* under a byte cap that all layers share.                                 *)

InLoop == phase = "sched" /\ round < Inserts /\ bytes < StepCap

NextLayer == IF li = NLayers THEN round' = round + 1 /\ li' = 1
                             ELSE round' = round     /\ li' = li + 1

\* sorted by miss_count; std::sort leaves the order of equals open
MostWanted(l) == {e \in cand[l] : \A f \in cand[l] : missCount[l][e] >= missCount[l][f]}

FreeSlots(l) == {s \in Slots : slotExpert[l][s] = NoExpert /\ s \notin inFlight[l]}
Evictable(l) == {s \in Slots : s \notin inFlight[l] /\ s \notin fresh[l]}
ColdSlots(l) == {s \in Evictable(l) : hits[l][s] <= HotUses}

\* least recently used, cold slots first
IsVictim(l, s) ==
  LET pool == IF ColdSlots(l) # {} THEN ColdSlots(l) ELSE Evictable(l)
  IN  s \in pool /\ \A t \in pool : pos[l][s] <= pos[l][t]

\* slab does not fit in what is left of the step: leave the inner loop
BreakRound ==
  /\ InLoop
  /\ bytes + Slab[li] > StepCap
  /\ round' = round + 1 /\ li' = 1
  /\ UNCHANGED <<phase, residency, policy, tables, content, finished, cand, bytes,
                 fresh, dirty, scheduled, todo, done, stop, worker>>

NoCandidate ==
  /\ InLoop
  /\ bytes + Slab[li] <= StepCap
  /\ cand[li] = {}
  /\ NextLayer
  /\ UNCHANGED <<phase, residency, policy, tables, content, finished, cand, bytes,
                 fresh, dirty, scheduled, todo, done, stop, worker>>

\* the common tail of an admission of expert e into slot s
Admit(e, s) ==
  /\ inFlight' = [inFlight EXCEPT ![li] = @ \cup {s}]
  /\ pending'  = [pending  EXCEPT ![li] = @ \cup {e}]
  /\ scheduled' = scheduled \cup {[layer |-> li, expert |-> e, slot |-> s]}
  /\ cand' = [cand EXCEPT ![li] = @ \ {e}]
  /\ bytes' = bytes + Slab[li]
  /\ NextLayer
  /\ UNCHANGED <<phase, policy, tables, content, finished, fresh, todo, done, stop, worker>>

\* a free slot admits on the first miss
AdmitFree(e, s) ==
  /\ InLoop
  /\ bytes + Slab[li] <= StepCap
  /\ e \in MostWanted(li)
  /\ s \in FreeSlots(li) /\ \A t \in FreeSlots(li) : s <= t
  /\ Admit(e, s)
  /\ UNCHANGED <<slotExpert, expertSlot, dirty>>

\* the tables of the layer have to be written again
MarkDirty == dirty' = dirty \cup {li}

\* a full pool needs a repeat miss; the table entry of the victim is cleared now
AdmitEvicting(e, s) ==
  /\ InLoop
  /\ bytes + Slab[li] <= StepCap
  /\ e \in MostWanted(li)
  /\ FreeSlots(li) = {}
  /\ missCount[li][e] >= 2
  /\ IsVictim(li, s)
  /\ expertSlot' = [expertSlot EXCEPT ![li] =
                      [x \in Experts |-> IF x = slotExpert[li][s] THEN Skip ELSE @[x]]]
  /\ slotExpert' = [slotExpert EXCEPT ![li][s] = NoExpert]
  /\ MarkDirty
  /\ Admit(e, s)

\* a first miss in a full pool: try the next candidate of the same layer
PassOver(e) ==
  /\ InLoop
  /\ bytes + Slab[li] <= StepCap
  /\ e \in MostWanted(li)
  /\ FreeSlots(li) = {}
  /\ missCount[li][e] < 2
  /\ cand' = [cand EXCEPT ![li] = @ \ {e}]
  /\ UNCHANGED <<phase, residency, policy, tables, content, finished, round, li, bytes,
                 fresh, dirty, scheduled, todo, done, stop, worker>>

\* every slot is in flight or was used in this step
NothingEvictable(e) ==
  /\ InLoop
  /\ bytes + Slab[li] <= StepCap
  /\ e \in MostWanted(li)
  /\ FreeSlots(li) = {}
  /\ missCount[li][e] >= 2
  /\ Evictable(li) = {}
  /\ cand' = [cand EXCEPT ![li] = {}]
  /\ NextLayer
  /\ UNCHANGED <<phase, residency, policy, tables, content, finished, bytes,
                 fresh, dirty, scheduled, todo, done, stop, worker>>

\* step(), part 3: write the tables of the layers that changed ...
Flush ==
  /\ phase = "sched"
  /\ ~InLoop
  /\ phase' = "handoff"
  /\ gpuTable' = [l \in Layers |-> IF l \in dirty THEN GpuTableOf(expertSlot[l])
                                                  ELSE gpuTable[l]]
  /\ cpuTable' = [l \in Layers |-> IF l \in dirty THEN CpuTableOf(expertSlot[l])
                                                  ELSE cpuTable[l]]
  /\ dirty' = {}
  \* the locals of the loop go out of scope
  /\ cand'  = [l \in Layers |-> {}]
  /\ fresh' = [l \in Layers |-> {}]
  /\ round' = 0 /\ li' = 1 /\ bytes' = 0
  /\ UNCHANGED <<residency, policy, content, finished, scheduled,
                 todo, done, stop, worker>>

\* ... then hand the copies to the worker
Queue == todo' = todo \cup scheduled

HandOff ==
  /\ phase = "handoff"
  /\ phase' = "ready"
  /\ Queue
  /\ scheduled' = {}
  /\ UNCHANGED <<residency, policy, tables, content, finished, fresh, dirty, loop,
                 done, stop, worker>>

-----------------------------------------------------------------------------
(* The graphs of a decode (external: llama_context::decode).               *)

StartGraph ==
  /\ phase = "ready"
  /\ phase' = "graph"
  /\ UNCHANGED <<residency, policy, tables, content, finished, fresh, dirty, loop,
                 scheduled, todo, done, stop, worker>>

RowsOf(f) == MapThenSumSet(LAMBDA e : f[e], Experts)

\* observe(): the routed ids of each layer are copied out, or dropped when the
\* buffer has no room for them
EndGraph(r) ==
  /\ phase = "graph"
  /\ r \in [Layers -> Routings]
  /\ phase' = "ready"
  /\ obs' = [l \in Layers |->
               IF RowsOf(obs[l]) + RowsOf(r[l]) > ObsCap
                 THEN obs[l]
                 ELSE [e \in Experts |-> obs[l][e] + r[l][e]]]
  /\ UNCHANGED <<residency, pos, hits, missCount, clock, tables, content, finished,
                 fresh, dirty, loop, scheduled, todo, done, stop, worker>>

\* a graph that fails to compute makes decode return before observe()
FailGraph ==
  /\ phase = "graph"
  /\ phase' = "idle"
  /\ UNCHANGED <<residency, policy, tables, content, finished, fresh, dirty, loop,
                 scheduled, todo, done, stop, worker>>

-----------------------------------------------------------------------------
(* worker_loop()                                                           *)

WorkerTake ==
  /\ wpc = "wait" /\ ~stop /\ todo # {}
  /\ wpc' = "copy"
  /\ batch' = todo /\ toCopy' = todo
  /\ todo' = {}
  /\ UNCHANGED <<phase, residency, policy, tables, content, finished, fresh, dirty,
                 loop, scheduled, done, stop>>

\* copy_slot(): three asynchronous uploads, torn until the backend is synchronized
WorkerCopy(j) ==
  /\ wpc = "copy"
  /\ j \in toCopy
  /\ toCopy' = toCopy \ {j}
  /\ content' = [content EXCEPT ![j.layer][j.slot] = Torn]
  /\ UNCHANGED <<phase, residency, policy, tables, finished, fresh, dirty, loop,
                 scheduled, todo, done, stop, wpc, batch>>

WorkerSync ==
  /\ wpc = "copy"
  /\ toCopy = {}
  /\ wpc' = "post"
  /\ content' = [l \in Layers |-> [s \in Slots |->
                   IF \E j \in batch : j.layer = l /\ j.slot = s
                     THEN (CHOOSE j \in batch : j.layer = l /\ j.slot = s).expert
                     ELSE content[l][s]]]
  /\ UNCHANGED <<phase, residency, policy, tables, finished, fresh, dirty, loop,
                 scheduled, todo, done, stop, batch, toCopy>>

CopiesLandedUnchecked == wpc \in {"copy", "post"} /\ toCopy = {}
CopiesLanded == wpc = "post"

WorkerPost ==
  /\ CopiesLanded
  /\ wpc' = "wait"
  /\ done' = done \cup batch
  /\ batch' = {}
  /\ UNCHANGED <<phase, residency, policy, tables, content, finished, fresh, dirty,
                 loop, scheduled, todo, stop, toCopy>>

WorkerExit ==
  /\ wpc = "wait" /\ stop
  /\ wpc' = "exited"
  /\ UNCHANGED <<phase, residency, policy, tables, content, finished, fresh, dirty,
                 loop, scheduled, todo, done, stop, batch, toCopy>>

-----------------------------------------------------------------------------
(* The destructor: raise stop, join the worker, free the pools.            *)

RaiseStop ==
  /\ phase \in {"idle", "ready"}
  /\ phase' = "join"
  /\ stop' = TRUE
  /\ UNCHANGED <<residency, policy, tables, content, finished, fresh, dirty, loop,
                 scheduled, todo, done, worker>>

Joined == phase = "join" /\ wpc = "exited"

FreePools ==
  /\ Joined
  /\ phase' = "freed"
  /\ UNCHANGED <<residency, policy, tables, content, finished, fresh, dirty, loop,
                 scheduled, todo, done, stop, worker>>

Freed == phase = "freed" /\ UNCHANGED vars

-----------------------------------------------------------------------------
Step ==
  \/ BeginStep
  \/ \E j \in finished : Publish(j)
  \/ Consume
  \/ BreakRound
  \/ NoCandidate
  \/ \E e \in Experts, s \in Slots : AdmitFree(e, s)
  \/ \E e \in Experts, s \in Slots : AdmitEvicting(e, s)
  \/ \E e \in Experts : PassOver(e)
  \/ \E e \in Experts : NothingEvictable(e)
  \/ Flush
  \/ HandOff

Graph == StartGraph \/ FailGraph \/ \E r \in [Layers -> Routings] : EndGraph(r)

Worker == WorkerTake \/ WorkerSync \/ WorkerPost \/ WorkerExit
          \/ \E j \in toCopy : WorkerCopy(j)

Next == Step \/ Graph \/ Worker \/ RaiseStop \/ FreePools \/ Freed

Spec == Init /\ [][Next]_vars

(***************************************************************************)
(* The worker thread and the code inside step() always run on, and decodes *)
(* keep coming: a decode has finitely many graphs, and not every graph     *)
(* fails.                                                                  *)
(***************************************************************************)
SomeGraphEnds == \E r \in [Layers -> Routings] : EndGraph(r)

FairSpec == Spec /\ WF_vars(Step) /\ SF_vars(BeginStep) /\ WF_vars(Worker)
                 /\ SF_vars(StartGraph) /\ SF_vars(SomeGraphEnds)

-----------------------------------------------------------------------------
(* Properties                                                              *)

\* every job the cache knows of, wherever it is
Jobs == finished \cup scheduled \cup todo \cup batch \cup done

\* The variables range over what the fields of llama_moe_cache and
\* llama_moe_cache_layer can hold.
TypeOK ==
  /\ phase \in {"idle", "publish", "sched", "handoff", "ready", "graph", "join", "freed"}
  /\ slotExpert \in [Layers -> [Slots -> Experts \cup {NoExpert}]]
  /\ expertSlot \in [Layers -> [Experts -> Slots \cup {Skip}]]
  /\ inFlight \in [Layers -> SUBSET Slots]
  /\ pending  \in [Layers -> SUBSET Experts]
  /\ pos  \in [Layers -> [Slots -> Nat]]
  /\ hits \in [Layers -> [Slots -> Nat]]
  /\ missCount \in [Layers -> [Experts -> Nat]]
  /\ obs \in [Layers -> [Experts -> Nat]]
  /\ clock \in 0..AgeEvery-1
  /\ gpuTable \in [Layers -> [Experts -> Slots \cup {Skip}]]
  /\ cpuTable \in [Layers -> SUBSET Experts]
  /\ content \in [Layers -> [Slots -> Experts \cup {NoExpert, Torn}]]
  /\ cand  \in [Layers -> SUBSET Experts]
  /\ fresh \in [Layers -> SUBSET Slots]
  /\ dirty \subseteq Layers
  /\ finished \subseteq Job /\ scheduled \subseteq Job
  /\ todo \subseteq Job /\ done \subseteq Job /\ batch \subseteq Job
  /\ toCopy \subseteq Job
  /\ round \in Nat /\ li \in Layers /\ bytes \in Nat
  /\ stop \in BOOLEAN
  /\ wpc \in {"wait", "copy", "post", "exited"}

\* While a graph runs, a device chain that the table sends to a slot finds the
\* whole expert it asked for there, and the host chain computes the others:
\* step() orders evict, flush, hand-off and publish so that no copy is visible.
GraphReadsItsExperts ==
  phase = "graph" =>
    \A l \in Layers, e \in Experts :
      IF e \in cpuTable[l] THEN gpuTable[l][e] = Skip
                           ELSE /\ gpuTable[l][e] \in Slots
                                /\ content[l][gpuTable[l][e]] = e

\* The worker only writes slots that no table entry refers to, in every state:
\* the tables are flushed before the copies are handed over.
WorkerWritesUnreferenced ==
  \A j \in todo \cup batch : \A e \in Experts : gpuTable[j.layer][e] # j.slot

\* A slot is marked in flight, and an expert pending, exactly while one job for
\* it is on its way; nothing is ever left marked (a slot lost for good).
InFlightAccounted ==
  \A l \in Layers :
    /\ inFlight[l] = {j.slot   : j \in {k \in Jobs : k.layer = l}}
    /\ pending[l]  = {j.expert : j \in {k \in Jobs : k.layer = l}}

\* An expert is in at most one slot of its layer, resident or on its way: a
\* second miss while an upload is queued must not schedule another.
ExpertInOneSlot ==
  \A l \in Layers, e \in Experts :
    Cardinality({s \in Slots : slotExpert[l][s] = e}
                \cup {j.slot : j \in {k \in Jobs : k.layer = l /\ k.expert = e}}) <= 1

\* The inductive invariant: what every step() leaves true of residency, jobs,
\* slot memory and tables taken together.  The safety properties follow from it.
Residency ==
  \A l \in Layers, s \in Slots, e \in Experts :
    slotExpert[l][s] = e <=> expertSlot[l][e] = s
Marked ==
  \A l \in Layers :
    /\ \A s \in Slots   : s \in inFlight[l] <=> \E j \in Jobs : j.layer = l /\ j.slot = s
    /\ \A e \in Experts : e \in pending[l]  <=> \E j \in Jobs : j.layer = l /\ j.expert = e
    /\ \A s \in inFlight[l] : slotExpert[l][s] = NoExpert
    /\ \A e \in pending[l] \cup cand[l] : expertSlot[l][e] = Skip
    /\ pending[l] \cap cand[l] = {}
JobsDistinct ==
  /\ \A j, k \in Jobs : j.layer = k.layer /\ (j.slot = k.slot \/ j.expert = k.expert) => j = k
  /\ finished \cap (scheduled \cup todo \cup batch \cup done) = {}
  /\ scheduled \cap (todo \cup batch \cup done) = {}
  /\ todo \cap (batch \cup done) = {}
  /\ batch \cap done = {}
Contents ==
  /\ \A l \in Layers, s \in Slots :
       slotExpert[l][s] \in Experts => content[l][s] = slotExpert[l][s]
  /\ \A j \in done \cup finished : content[j.layer][j.slot] = j.expert
  /\ wpc = "post" => \A j \in batch : content[j.layer][j.slot] = j.expert
Tables ==
  /\ \A l \in Layers \ dirty : /\ gpuTable[l] = GpuTableOf(expertSlot[l])
                               /\ cpuTable[l] = CpuTableOf(expertSlot[l])
  /\ \A j \in finished \cup todo \cup batch \cup done, e \in Experts :
       gpuTable[j.layer][e] # j.slot
Stages ==
  /\ phase \notin {"publish", "sched"} => dirty = {}
  /\ phase # "publish" => finished = {}
  /\ phase \notin {"sched", "handoff"} => scheduled = {}
  /\ phase # "sched" => \A l \in Layers : cand[l] = {}
  /\ wpc \in {"wait", "exited"} => batch = {}
  /\ wpc # "copy" => toCopy = {}
  /\ toCopy \subseteq batch
  /\ phase = "freed" => wpc = "exited"
IInv == /\ Residency /\ Marked /\ JobsDistinct /\ Contents /\ Tables /\ Stages

\* No copy is under way once the pools are freed: the destructor joins first.
NoCopyAfterFree == phase = "freed" => wpc = "exited" /\ batch = {}

\* The slots evicted by a step were not hit in the graphs since the last step.
EvictsNoSlotInUse ==
  [][\A l \in Layers, s \in Slots :
       (phase = "sched" /\ slotExpert[l][s] \in Experts /\ slotExpert'[l][s] = NoExpert)
         => s \notin fresh[l]]_vars

\* Every upload lands: the slot it holds is published by a later step.
UploadsLand ==
  \A l \in Layers, s \in Slots : s \in inFlight[l] ~> (s \notin inFlight[l] \/ stop)
=============================================================================
