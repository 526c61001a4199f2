--------------------------- MODULE SchedPipeline ---------------------------
(***************************************************************************)
(* Pipeline parallelism of the backend scheduler: the copies of inputs and *)
(* their events in src/ggml/src/ggml-backend.cpp, on CUDA devices          *)
(* (ggml_backend_cuda_cpy_tensor_async in ggml-cuda.cu).                   *)
(*                                                                         *)
(* The model's layers are split over devices, the stages: a graph has one  *)
(* split per stage, and takes the activation of the stage before ("prev")  *)
(* and inputs of the user (positions, masks: "user").  The host queues     *)
(* work on the stages' streams and goes on with the next graph while the   *)
(* streams run: the inputs of a stage exist in n_copies copies, one graph  *)
(* uses one of them.                                                       *)
(*                                                                         *)
(* A stream executes its operations in order; copies and computes take     *)
(* time: a stage reads the activation in its first layer (phase 1) and the *)
(* inputs of the user in all of them.  An event is named by its stage and  *)
(* copy, the event of a copy between devices by its source and 0 (copies   *)
(* count from 1).  What a buffer holds is the number of the graph it was   *)
(* written for, or Torn.                                                   *)
(***************************************************************************)
EXTENDS Integers, Sequences

CONSTANTS
  NStages,      \* the devices that the layers are split over
  Machines,     \* how the model may be run, see Machine
  MaxGraphs     \* bound: graphs computed

Stages == 1..NStages
Torn   == -1

Inputs == {<<"user">>, <<"prev">>, <<"user", "prev">>, <<"prev", "user">>}
\* layout: per stage, its inputs in the order in which its nodes use them; async: the
\* devices copy from one to another on a stream; copies: n_copies, GGML_SCHED_MAX_COPIES
\* with pipeline parallelism and 1 without
Machine == [layout : [Stages -> Inputs], async : BOOLEAN, copies : Nat \ {0}]

ASSUME PipelineAssumption ==
  /\ NStages \in Nat \ {0} /\ MaxGraphs \in Nat
  /\ Machines \subseteq Machine
  /\ \A m \in Machines : m.layout[1] = <<"user">>

VARIABLES
  \* how the model is run (fixed)
  machine,
  \* the host: graphs begun, the split and the input it is at, the scheduler's copies
  graph, split, input, curCopy, nextCopy, isAlloc,
  \* per stage: queued operations, and how far the first of them is (0: not begun)
  stream, phase,
  \* events: how often recorded by the host, and how often reached by a stream
  recorded, reached,
  \* memory: the copies of the inputs, the output of each stage
  cpy, out

hostVars == <<machine, graph, split, input, curCopy, nextCopy, isAlloc>>
vars == <<hostVars, stream, phase, recorded, reached, cpy, out>>

NCopies == machine.copies
Copies  == 1..NCopies
Events  == Stages \X (0..NCopies)
InputsOf(b) == machine.layout[b]

Init ==
  /\ machine \in Machines
  /\ graph = 0 /\ split = 0 /\ input = 1
  /\ curCopy = 1 /\ nextCopy = 1 /\ isAlloc = FALSE
  /\ stream = [b \in Stages |-> <<>>] /\ phase = [b \in Stages |-> 0]
  /\ recorded = [e \in Events |-> 0] /\ reached = [e \in Events |-> 0]
  /\ cpy = [b \in Stages |-> [k \in {"user", "prev"} |-> [c \in Copies |-> 0]]]
  /\ out = [b \in Stages |-> 0]

Idle == split = 0
Drained(b) == stream[b] = <<>>
AllDrained == \A b \in Stages : Drained(b)

-----------------------------------------------------------------------------
(* The host                                                                *)

\* ggml_backend_sched_alloc_graph for a graph that was built anew, and its inputs set
Alloc ==
  /\ Idle /\ ~isAlloc /\ graph < MaxGraphs
  /\ curCopy' = nextCopy
  /\ nextCopy' = (nextCopy % NCopies) + 1
  /\ isAlloc' = TRUE
  /\ graph' = graph + 1 /\ split' = 1 /\ input' = 1
  /\ UNCHANGED <<machine, stream, phase, recorded, reached, cpy, out>>

\* ggml_backend_sched_reset
Reset ==
  /\ Idle /\ isAlloc
  /\ isAlloc' = FALSE
  /\ UNCHANGED <<machine, graph, split, input, curCopy, nextCopy, stream, phase,
                 recorded, reached, cpy, out>>

\* ggml_backend_sched_synchronize
Synchronize ==
  /\ Idle /\ AllDrained
  /\ nextCopy' = IF isAlloc THEN nextCopy ELSE 1
  /\ UNCHANGED <<machine, graph, split, input, curCopy, isAlloc, stream, phase,
                 recorded, reached, cpy, out>>

\* process_ubatch reuses the graph, in the same copy: with pipeline parallelism, it synchronizes
\* before it sets the inputs
Reuse ==
  /\ Idle /\ isAlloc /\ graph < MaxGraphs
  /\ NCopies > 1 => AllDrained
  /\ graph' = graph + 1 /\ split' = 1 /\ input' = 1
  /\ UNCHANGED <<machine, curCopy, nextCopy, isAlloc, stream, phase, recorded,
                 reached, cpy, out>>

AtInput(k) == split > 0 /\ input <= Len(InputsOf(split)) /\ InputsOf(split)[input] = k
NextInput == input' = input + 1 /\ UNCHANGED <<machine, graph, split, curCopy, nextCopy, isAlloc>>
Ready(e) == reached[e] = recorded[e]
Put(b, c, k, v) == cpy' = [cpy EXCEPT ![b][k][c] = v]

\* (mutant) whoever has it
FreeAnyway(b) == TRUE
\* the copy is free when the graph that had it is through this stage; a scheduler with
\* one copy has no events and waits for the stage itself
Free(b) == IF NCopies > 1 THEN Ready(<<b, curCopy>>) ELSE Drained(b)

\* an input of the user is copied at once
CopyUser ==
  /\ AtInput("user") /\ Free(split)
  /\ Put(split, curCopy, "user", graph)
  /\ NextInput
  /\ UNCHANGED <<stream, phase, recorded, reached, out>>

Compute(g, c) == [op |-> "compute", graph |-> g, copy |-> c]
CopyTo(b, c)  == [op |-> "copy", to |-> b, copy |-> c]
Record(e, n)  == [op |-> "record", event |-> e, nth |-> n]
Await(e, n)   == [op |-> "wait", event |-> e, nth |-> n]

\* with one copy, there is no event to put into a stream
EventWait(b) == IF NCopies > 1 THEN <<Await(<<b, curCopy>>, recorded[<<b, curCopy>>])>> ELSE <<>>

\* (mutant) the destination goes on before the copy is there
CopyUnwaited ==
  /\ AtInput("prev") /\ machine.async
  /\ NCopies = 1 => Drained(split)
  /\ LET from == split - 1
     IN stream' = [stream EXCEPT ![from] = Append(@, CopyTo(split, curCopy))]
  /\ NextInput
  /\ UNCHANGED <<recorded, phase, reached, cpy, out>>

\* an activation that the devices copy: on the stream of the source, which then records the
\* event that the destination waits for
CopyAsync ==
  /\ AtInput("prev") /\ machine.async
  /\ NCopies = 1 => Drained(split)
  /\ LET from == split - 1
         e    == <<from, 0>>
         n    == recorded[e] + 1
     IN /\ stream' = [stream EXCEPT ![from]  = @ \o <<CopyTo(split, curCopy), Record(e, n)>>,
                                    ![split] = @ \o EventWait(split) \o <<Await(e, n)>>]
        /\ recorded' = [recorded EXCEPT ![e] = n]
  /\ NextInput
  /\ UNCHANGED <<phase, reached, cpy, out>>

\* an activation that the host copies: when its source is ready and the copy is free
CopySync ==
  /\ AtInput("prev") /\ ~machine.async
  /\ Drained(split - 1) /\ Free(split)
  /\ Put(split, curCopy, "prev", out[split - 1])
  /\ stream' = [stream EXCEPT ![split] = @ \o EventWait(split)]
  /\ NextInput
  /\ UNCHANGED <<phase, recorded, reached, out>>

\* the split is queued, and the event of this copy after it
ComputeSplit ==
  /\ split > 0 /\ input > Len(InputsOf(split))
  /\ LET e == <<split, curCopy>>
         n == recorded[e] + 1
     IN IF NCopies > 1
          THEN /\ recorded' = [recorded EXCEPT ![e] = n]
               /\ stream' = [stream EXCEPT ![split] = @ \o <<Compute(graph, curCopy), Record(e, n)>>]
          ELSE /\ stream' = [stream EXCEPT ![split] = Append(@, Compute(graph, curCopy))]
               /\ UNCHANGED recorded
  /\ split' = IF split < NStages THEN split + 1 ELSE 0
  /\ input' = 1
  /\ UNCHANGED <<machine, graph, curCopy, nextCopy, isAlloc, phase, reached, cpy, out>>

-----------------------------------------------------------------------------
(* The streams                                                             *)

HeadIs(b, o) == stream[b] # <<>> /\ Head(stream[b]).op = o
Finish(b) == stream' = [stream EXCEPT ![b] = Tail(@)] /\ phase' = [phase EXCEPT ![b] = 0]
Start(b) == phase[b] = 0 /\ phase' = [phase EXCEPT ![b] = 1]

Reads(b, k) == (\E i \in DOMAIN InputsOf(b) : InputsOf(b)[i] = k) /\ (k = "prev" => phase[b] = 1)
InputsAre(b, c, g) == \A k \in {"user", "prev"} : Reads(b, k) => cpy[b][k][c] = g

\* what is computed from other inputs than its own is nobody's
ResultOf(b, o, v) == IF InputsAre(b, o.copy, o.graph) THEN v ELSE Torn

StartCompute(b) ==
  /\ HeadIs(b, "compute") /\ Start(b)
  /\ out' = [out EXCEPT ![b] = Torn]
  /\ UNCHANGED <<hostVars, stream, recorded, reached, cpy>>

FirstLayer(b) ==
  /\ HeadIs(b, "compute") /\ phase[b] = 1
  /\ phase' = [phase EXCEPT ![b] = 2]
  /\ out' = [out EXCEPT ![b] = ResultOf(b, Head(stream[b]), Head(stream[b]).graph)]
  /\ UNCHANGED <<hostVars, stream, recorded, reached, cpy>>

EndCompute(b) ==
  /\ HeadIs(b, "compute") /\ phase[b] = 2
  /\ out' = [out EXCEPT ![b] = ResultOf(b, Head(stream[b]), @)]
  /\ Finish(b)
  /\ UNCHANGED <<hostVars, recorded, reached, cpy>>

StartCopy(b) ==
  /\ HeadIs(b, "copy") /\ Start(b)
  /\ Put(Head(stream[b]).to, Head(stream[b]).copy, "prev", Torn)
  /\ UNCHANGED <<hostVars, stream, recorded, reached, out>>

EndCopy(b) ==
  /\ HeadIs(b, "copy") /\ phase[b] = 1
  /\ Put(Head(stream[b]).to, Head(stream[b]).copy, "prev", out[b])
  /\ Finish(b)
  /\ UNCHANGED <<hostVars, recorded, reached, out>>

Reach(b) ==
  /\ HeadIs(b, "record")
  /\ reached' = [reached EXCEPT ![Head(stream[b]).event] = Head(stream[b]).nth]
  /\ Finish(b)
  /\ UNCHANGED <<hostVars, recorded, cpy, out>>

Pass(b) ==
  /\ HeadIs(b, "wait")
  /\ reached[Head(stream[b]).event] >= Head(stream[b]).nth
  /\ Finish(b)
  /\ UNCHANGED <<hostVars, recorded, reached, cpy, out>>

-----------------------------------------------------------------------------
Host == Alloc \/ Reset \/ Synchronize \/ Reuse \/ CopyUser \/ CopyAsync \/ CopySync \/ ComputeSplit
Runs(b) == StartCompute(b) \/ FirstLayer(b) \/ EndCompute(b) \/ StartCopy(b) \/ EndCopy(b) \/ Reach(b) \/ Pass(b)
Next == Host \/ \E b \in Stages : Runs(b)

Spec == Init /\ [][Next]_vars

-----------------------------------------------------------------------------
(* Properties                                                              *)

\* Types: of the streams, what they may hold.
TypeOK ==
  /\ machine \in Machines
  /\ graph \in 0..MaxGraphs /\ split \in 0..NStages /\ input \in 1..3
  /\ curCopy \in Copies /\ nextCopy \in Copies /\ isAlloc \in BOOLEAN
  /\ \A b \in Stages : \A i \in DOMAIN stream[b] :
       stream[b][i].op \in {"compute", "copy", "record", "wait"}
  /\ phase \in [Stages -> 0..2]
  /\ recorded \in [Events -> Nat] /\ reached \in [Events -> Nat]
  /\ \A b \in Stages, k \in {"user", "prev"}, c \in Copies : cpy[b][k][c] \in 0..MaxGraphs \cup {Torn}
  /\ out \in [Stages -> 0..MaxGraphs \cup {Torn}]

\* Where stages copy to each other on streams and there are events, the host waits for the event
\* of a copy only if an input of the user is the first that it comes to at every stage.
HostWaits == machine.async /\ NCopies > 1 => \A b \in Stages : InputsOf(b)[1] = "user"

\* A stage computes a graph from that graph's own inputs, whole, for as long as it reads them.
\* Of the inputs of the user on every machine: "inputs from the user must be copied immediately
\* to prevent the user overwriting the data before the copy is done", and no later graph gets
\* the copy before.  Of the activation where the host waits; where it does not, only of the
\* last graph queued: an earlier one may find that of a later graph (see WaitsForUse).
OwnInputs ==
  \A b \in Stages, k \in {"user", "prev"} :
    LET o == Head(stream[b]) IN
    /\ phase[b] > 0 /\ HeadIs(b, "compute") /\ Reads(b, k)
    /\ k = "user" \/ HostWaits \/ o.graph = graph
    => cpy[b][k][o.copy] = o.graph

\* "wait for the split backend to finish using the input before overwriting it"
\* (ggml_backend_sched_compute_splits): no copy between devices writes what a stage reads.
WaitsForUse ==
  \A b, d \in Stages :
    phase[b] > 0 /\ HeadIs(b, "copy") /\ HeadIs(d, "compute") /\ Reads(d, "prev") =>
      ~(Head(stream[b]).to = d /\ Head(stream[b]).copy = Head(stream[d]).copy)

\* When the host has queued a graph and all streams are through, the last stage has
\* computed it from what the first made of it (what llama_synchronize relies on).
DrainedIsDone == Idle /\ AllDrained => \A b \in Stages : out[b] = graph
=============================================================================
