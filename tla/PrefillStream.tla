--------------------------- MODULE PrefillStream ---------------------------
(***************************************************************************)
(* The ring of streamed expert weights of a prefill: pstream_state,        *)
(* pstream_prepare and their part of ggml_backend_sched_compute_splits in  *)
(* src/ggml/src/ggml-backend.cpp.                                          *)
(*                                                                         *)
(* The weights of a graph, its entries, are copied by a worker thread on   *)
(* its own device stream into a ring of NSlots slots, while the host       *)
(* queues the splits that multiply with them on the compute stream.  A     *)
(* split is queued when its weight is there; after it an event is recorded *)
(* that the slot is free, and the weight NSlots entries later is asked     *)
(* for.  The ring grows when a graph has a larger weight.                  *)
(*                                                                         *)
(* What a slot holds is a weight, None or Torn; the worker waits for its   *)
(* own copies, so the copy stream is a part of its steps.  Entries count   *)
(* from 1.                                                                 *)
(***************************************************************************)
EXTENDS Integers, Sequences

CONSTANTS
  Weights,
  Size,         \* of a weight
  Graphs,       \* the weights of each graph, in the order of its splits
  NSlots,
  MaxStreamed,    \* bound: graphs computed
  CanFail       \* a split may fail, or the ring's memory

ASSUME PrefillAssumption ==
  /\ NSlots \in Nat \ {0} /\ MaxStreamed \in Nat /\ CanFail \in BOOLEAN
  /\ Size \in [Weights -> Nat \ {0}]
  /\ Graphs \subseteq Seq(Weights) \ {<<>>}

None == "none"
HalfWritten == "torn"
Slots == 0..NSlots-1

VARIABLES
  \* the host: where it is, graphs computed, st.entries, the next entry, their seq
  host, graphs, entries, entry, enSeq,
  \* pstream_state, shared with the worker
  q, stop, in_flight, seq, done_seq, free_recorded,
  \* the ring: its slot size (0: no buffer), how often it was allocated, failed
  slotSize, ring, failed,
  \* the worker: where it is, its job, the event it waits for
  worker, job, need,
  \* the compute stream, whether its first operation is under way; ev_free
  compute, busy, freeRecorded, freeReached,
  \* memory of the slots
  mem

prefillHostVars == <<host, graphs, entries, entry, enSeq>>
queueVars       == <<q, stop, in_flight, seq, done_seq, free_recorded>>
ringVars        == <<slotSize, ring, failed>>
workVars        == <<worker, job, need>>
streamVars      == <<compute, busy, freeRecorded, freeReached>>
prefillVars     == <<prefillHostVars, queueVars, ringVars, workVars, streamVars, mem>>

NoJob == [seq |-> 0, slot |-> 0, src |-> None, wait |-> FALSE, ring |-> 0]

PrefillInit ==
  /\ host = "idle" /\ graphs = 0 /\ entries = <<>> /\ entry = 1 /\ enSeq = <<>>
  /\ q = <<>> /\ stop = FALSE /\ in_flight = 0 /\ seq = 0
  /\ done_seq = [k \in Slots |-> -1] /\ free_recorded = [k \in Slots |-> FALSE]
  /\ slotSize = 0 /\ ring = 0 /\ failed = FALSE
  /\ worker = "wait" /\ job = NoJob /\ need = 0
  /\ compute = <<>> /\ busy = FALSE
  /\ freeRecorded = [k \in Slots |-> 0] /\ freeReached = [k \in Slots |-> 0]
  /\ mem = [k \in Slots |-> None]

SlotOf(e) == (e - 1) % NSlots
\* whether every weight of a graph has room in a slot of n bytes
Fits(g, n) == \A e \in DOMAIN g : Size[g[e]] <= n

-----------------------------------------------------------------------------
(* The host                                                                *)

\* pstream_prepare: the entries of the graph, and whether the ring is large enough
Prepare(g) ==
  /\ host = "idle" /\ ~failed /\ graphs < MaxStreamed
  /\ graphs' = graphs + 1 /\ entries' = g
  /\ host' = IF Fits(g, slotSize) THEN "prime" ELSE "grow"
  /\ UNCHANGED <<entry, enSeq, queueVars, ringVars, workVars, streamVars, mem>>

\* (mutant) a job that the worker already popped is forgotten
QueueEmpty == q = <<>>
\* "nothing queued AND nothing the worker already popped"
Quiet == q = <<>> /\ in_flight = 0

\* the host waits for the worker and for the device, frees the ring, and makes a new one
Grow ==
  /\ host = "grow" /\ Quiet /\ compute = <<>>
  /\ \/ /\ \E e \in DOMAIN entries : LET n == Size[entries[e]] IN Fits(entries, n) /\ slotSize' = n
        /\ ring' = ring + 1 /\ host' = "prime"
        /\ UNCHANGED failed
     \/ /\ CanFail
        /\ slotSize' = 0 /\ failed' = TRUE /\ host' = "idle"
        /\ UNCHANGED ring
  /\ mem' = [k \in Slots |-> None]
  /\ freeRecorded' = [k \in Slots |-> 0] /\ freeReached' = [k \in Slots |-> 0]
  /\ done_seq' = [k \in Slots |-> -1] /\ free_recorded' = [k \in Slots |-> FALSE]
  /\ UNCHANGED <<graphs, entries, entry, enSeq, q, stop, in_flight, seq, workVars, compute, busy>>

\* (mutant) the slot is written at once
NoWait(k) == FALSE
\* a copy into a slot that was read waits for the event of its last reader
WaitFree(k) == free_recorded[k]
Job(e, s) == [seq |-> s, slot |-> SlotOf(e), src |-> entries[e], wait |-> WaitFree(SlotOf(e)),
              ring |-> ring]

\* the first NSlots weights
Prime ==
  /\ host = "prime"
  /\ LET n == IF Len(entries) < NSlots THEN Len(entries) ELSE NSlots
     IN /\ q' = q \o [e \in 1..n |-> Job(e, seq + e)]
        /\ enSeq' = [e \in DOMAIN entries |-> IF e <= n THEN seq + e ELSE 0]
        /\ seq' = seq + n
  /\ host' = "compute" /\ entry' = 1
  /\ UNCHANGED <<graphs, entries, stop, in_flight, done_seq, free_recorded, ringVars, workVars,
                 streamVars, mem>>

\* the weight of this split has arrived
Arrived == done_seq[SlotOf(entry)] >= enSeq[entry]

\* (mutant) the number of the job before
JobSeqOld == seq
\* the number of the job that asks for the next weight
JobSeq == seq + 1

\* the split is queued, the event that its slot is free is recorded after it, and the next
\* weight of the slot is asked for
ComputeStreamed ==
  /\ host = "compute" /\ Arrived
  /\ LET k == SlotOf(entry)
         n == freeRecorded[k] + 1
         next == entry + NSlots
     IN /\ compute' = compute \o <<[op |-> "mul", src |-> entries[entry], slot |-> k, nth |-> 0],
                                 [op |-> "free", src |-> None, slot |-> k, nth |-> n]>>
        /\ freeRecorded' = [freeRecorded EXCEPT ![k] = n]
        /\ free_recorded' = [free_recorded EXCEPT ![k] = TRUE]
        /\ IF next <= Len(entries)
             THEN /\ q' = Append(q, [Job(next, JobSeq) EXCEPT !.wait = TRUE])
                  /\ enSeq' = [enSeq EXCEPT ![next] = seq + 1]
                  /\ seq' = seq + 1
             ELSE UNCHANGED <<q, enSeq, seq>>
  /\ entry' = IF entry < Len(entries) THEN entry + 1 ELSE 1
  /\ host' = IF entry < Len(entries) THEN "compute" ELSE "idle"
  /\ UNCHANGED <<graphs, entries, stop, in_flight, done_seq, ringVars, workVars, busy,
                 freeReached, mem>>

\* the split cannot be queued: the graph is given up, with jobs on the way
ComputeFails ==
  /\ host = "compute" /\ Arrived /\ CanFail
  /\ host' = "idle" /\ entry' = 1
  /\ UNCHANGED <<graphs, entries, enSeq, queueVars, ringVars, workVars, streamVars, mem>>

\* ggml_backend_sched_free, ~pstream_state
FreeRing ==
  /\ host = "idle" /\ ~stop
  /\ stop' = TRUE /\ host' = "join"
  /\ UNCHANGED <<graphs, entries, entry, enSeq, q, in_flight, seq, done_seq, free_recorded, ringVars,
                 workVars, streamVars, mem>>

Release ==
  /\ host = "join" /\ worker = "ended"
  /\ host' = "freed" /\ slotSize' = 0
  /\ UNCHANGED <<graphs, entries, entry, enSeq, queueVars, ring, failed, workVars, streamVars, mem>>

-----------------------------------------------------------------------------
(* The worker                                                              *)

Take ==
  /\ worker = "wait" /\ q # <<>>
  /\ job' = Head(q) /\ q' = Tail(q) /\ in_flight' = in_flight + 1
  /\ worker' = "taken"
  /\ UNCHANGED <<prefillHostVars, stop, seq, done_seq, free_recorded, ringVars, need, streamVars, mem>>

EndWorker ==
  /\ worker = "wait" /\ q = <<>> /\ stop
  /\ worker' = "ended"
  /\ UNCHANGED <<prefillHostVars, queueVars, ringVars, job, need, streamVars, mem>>

\* the event as it was last recorded when the worker asks for it
AwaitFree ==
  /\ worker = "taken"
  /\ need' = IF job.wait THEN freeRecorded[job.slot] ELSE 0
  /\ worker' = "await"
  /\ UNCHANGED <<prefillHostVars, queueVars, ringVars, job, streamVars, mem>>

BeginSlotCopy ==
  /\ worker = "await" /\ freeReached[job.slot] >= need
  /\ mem' = [mem EXCEPT ![job.slot] = HalfWritten]
  /\ worker' = "copy"
  /\ UNCHANGED <<prefillHostVars, queueVars, ringVars, job, need, streamVars>>

EndSlotCopy ==
  /\ worker = "copy"
  /\ mem' = [mem EXCEPT ![job.slot] = job.src]
  /\ worker' = "copied"
  /\ UNCHANGED <<prefillHostVars, queueVars, ringVars, job, need, streamVars>>

Post ==
  /\ worker = "copied"
  /\ done_seq' = [done_seq EXCEPT ![job.slot] = job.seq]
  /\ in_flight' = in_flight - 1
  /\ worker' = "wait"
  /\ UNCHANGED <<prefillHostVars, q, stop, seq, free_recorded, ringVars, job, need, streamVars, mem>>

-----------------------------------------------------------------------------
(* The compute stream                                                      *)

ComputeIs(o) == compute # <<>> /\ Head(compute).op = o

BeginMul ==
  /\ ComputeIs("mul") /\ ~busy
  /\ busy' = TRUE
  /\ UNCHANGED <<prefillHostVars, queueVars, ringVars, workVars, compute, freeRecorded, freeReached, mem>>

EndMul ==
  /\ ComputeIs("mul") /\ busy
  /\ busy' = FALSE /\ compute' = Tail(compute)
  /\ UNCHANGED <<prefillHostVars, queueVars, ringVars, workVars, freeRecorded, freeReached, mem>>

ReachFree ==
  /\ ComputeIs("free")
  /\ freeReached' = [freeReached EXCEPT ![Head(compute).slot] = Head(compute).nth]
  /\ compute' = Tail(compute)
  /\ UNCHANGED <<prefillHostVars, queueVars, ringVars, workVars, busy, freeRecorded, mem>>

-----------------------------------------------------------------------------
Worker == Take \/ EndWorker \/ AwaitFree \/ BeginSlotCopy \/ EndSlotCopy \/ Post
Device == BeginMul \/ EndMul \/ ReachFree
HostGoesOn == Grow \/ Prime \/ ComputeStreamed \/ ComputeFails \/ Release
PrefillNext == (\E g \in Graphs : Prepare(g)) \/ FreeRing \/ HostGoesOn \/ Worker \/ Device

PrefillSpec == PrefillInit /\ [][PrefillNext]_prefillVars
PrefillFairness == WF_prefillVars(HostGoesOn) /\ WF_prefillVars(Worker) /\ WF_prefillVars(Device)

-----------------------------------------------------------------------------
(* Properties                                                              *)

JobType == [seq : Nat, slot : Slots, src : Weights \cup {None}, wait : BOOLEAN, ring : Nat]

\* Every variable has its type.
PrefillTypeOK ==
  /\ host \in {"idle", "grow", "prime", "compute", "join", "freed"} /\ graphs \in 0..MaxStreamed
  /\ entries \in Seq(Weights) /\ entry \in Nat \ {0} /\ enSeq \in Seq(Nat)
  /\ q \in Seq(JobType) /\ stop \in BOOLEAN /\ in_flight \in Nat /\ seq \in Nat
  /\ done_seq \in [Slots -> Int] /\ free_recorded \in [Slots -> BOOLEAN]
  /\ slotSize \in Nat /\ ring \in Nat /\ failed \in BOOLEAN
  /\ worker \in {"wait", "taken", "await", "copy", "copied", "ended"}
  /\ job \in JobType /\ need \in Nat
  /\ compute \in Seq([op : {"mul", "free"}, src : Weights \cup {None}, slot : Slots, nth : Nat])
  /\ busy \in BOOLEAN /\ freeRecorded \in [Slots -> Nat] /\ freeReached \in [Slots -> Nat]
  /\ mem \in [Slots -> Weights \cup {None, HalfWritten}]

\* "Events order the copy of slot k after the last reader of slot k and the reader after its
\* copy" (the comment of the ring): a split multiplies with its own weight, whole, from its
\* begin to its end, also after a graph that was given up with copies on the way.
ReadsItsWeight == busy => mem[Head(compute).slot] = Head(compute).src

\* The worker copies into the ring that exists: it is drained before a reallocation
\* (pstream_prepare).
WritesLiveRing == worker \in {"taken", "await", "copy", "copied"} => job.ring = ring /\ slotSize > 0

\* The host never waits for a weight that does not come, or for the worker to be drained:
\* every graph ends.
EveryPrefillEnds == host \in {"grow", "prime", "compute"} ~> host = "idle"
=============================================================================
