----------------------------- MODULE ThreadPool -----------------------------
(***************************************************************************)
(* The thread pool of the CPU backend: src/ggml/src/ggml-cpu/ggml-cpu.c,   *)
(* built without OpenMP.                                                   *)
(*                                                                         *)
(* The calling thread, 0, kicks off a graph and computes it with the       *)
(* workers it asked for; the others stay parked.  A worker polls n_graph   *)
(* without the mutex and then sleeps on the condition variable with it.    *)
(* The nodes are separated by a barrier; a matrix product has one inside,  *)
(* and its chunks are handed out by an atomic counter.                     *)
(*                                                                         *)
(* Atomics are sequentially consistent here; each access to n_graph,       *)
(* n_barrier, n_barrier_passed, current_chunk, abort, pause and stop that  *)
(* another thread may race is a step of its own.  Nodes count from 1: an   *)
(* abort of 0 is the code's -1.  A node is a kind:                         *)
(*   "mul"  a matrix product: src1 is converted into the work buffer by    *)
(*          all of the threads, then the chunks are computed;              *)
(*   "map"  an operation whose rows are split over the threads;            *)
(*   "fuse" an RMS_NORM that is computed with the MUL, a map, after it;    *)
(*   "nop"  an empty operation, skipped.                                   *)
(***************************************************************************)
EXTENDS Integers, Sequences, FiniteSets

CONSTANTS
  NThreads,     \* n_threads of the pool
  Requests,     \* the n_threads that plans ask for
  Graphs,       \* the graphs that are computed
  Chunks,       \* nchunk0 * nchunk1 of a matrix product, as its shape gives it
  MaxGraphs     \* bound: graphs computed in the life of the pool

Kinds == {"mul", "map", "fuse", "nop"}

ASSUME ThreadPoolAssumption ==
  /\ NThreads \in Nat \ {0} /\ Chunks \in Nat \ {0} /\ MaxGraphs \in Nat
  /\ Requests \subseteq Nat \ {0}
  /\ Graphs \subseteq Seq(Kinds) \ {<<>>}
  /\ \E n \in {Len(g) : g \in Graphs} : \A g \in Graphs : Len(g) <= n
  /\ \A g \in Graphs : \A k \in DOMAIN g :
       g[k] = "fuse" => k < Len(g) /\ g[k+1] = "map"

Threads == 0..NThreads-1
Workers == 1..NThreads-1
Free    == -1     \* of the mutex
MaxLen  == CHOOSE n \in {Len(g) : g \in Graphs} : \A g \in Graphs : Len(g) <= n
MaxParts == IF Chunks > NThreads THEN Chunks ELSE NThreads

VARIABLES
  \* struct ggml_threadpool; n_graph holds the count of graphs and the active threads
  mutex, cgraph, n_graph, n_barrier, n_barrier_passed, current_chunk, stop, pause, abort,
  \* the calling thread: the threads its plan asks for
  request,
  \* per thread: where it is, last_graph, node_n, its chunk, n_passed, where a barrier leads
  pc, last_graph, node, chunk, n_passed, after,
  \* data: how often each part of each node was written; for whom each share of the
  \* work buffer was converted, as graph count and node
  written, wdata

workVars    == <<cgraph, current_chunk, abort, request, written, wdata>>
barrierVars == <<n_barrier, n_barrier_passed, n_passed, after>>
sleepVars   == <<mutex, n_graph, stop, pause, last_graph>>
vars == <<workVars, barrierVars, sleepVars, pc, node, chunk>>

Unwritten == [k \in 1..MaxLen |-> [c \in 0..MaxParts-1 |-> 0]]

\* ggml_threadpool_new_impl: the workers have been started, and may not have run yet
Init ==
  /\ mutex = Free /\ cgraph \in Graphs /\ request = 1
  /\ n_graph = [count |-> 0, threads |-> 0]
  /\ n_barrier = 0 /\ n_barrier_passed = 0 /\ current_chunk = 0
  /\ stop = FALSE /\ pause \in BOOLEAN /\ abort = 0
  /\ pc = [t \in Threads |-> IF t = 0 THEN "idle" ELSE "top"]
  /\ last_graph = [t \in Threads |-> [count |-> 0, threads |-> 0]]
  /\ node = [t \in Threads |-> 1] /\ chunk = [t \in Threads |-> 0]
  /\ n_passed = [t \in Threads |-> 0] /\ after = [t \in Threads |-> "leave"]
  /\ written = Unwritten
  /\ wdata = [t \in Threads |-> <<0, 0>>]

Active == n_graph.threads
Goto(t, l) == pc' = [pc EXCEPT ![t] = l]

\* ggml_cond_broadcast: the waiters go on to take the mutex again
Woken(l) == CASE l = "sleep" -> "lock" [] l = "paused" -> "resumed" [] OTHER -> l
Broadcast == [t \in Threads |-> Woken(pc[t])]

-----------------------------------------------------------------------------
(* The caller: ggml_graph_compute, pause, resume, free                     *)

\* the parameters of the new graph are set while the workers are parked or on their way
Compute(g, n) ==
  /\ pc[0] = "idle" /\ n_graph.count < MaxGraphs
  /\ cgraph' = g /\ current_chunk' = 0 /\ abort' = 0
  /\ request' = IF n > NThreads THEN NThreads ELSE n
  /\ written' = Unwritten
  /\ Goto(0, "kick")
  /\ UNCHANGED <<wdata, barrierVars, sleepVars, node, chunk>>

\* (mutant) without the mutex
KickUnlocked ==
  /\ pc[0] = "kick"
  /\ n_graph' = [count |-> n_graph.count + 1, threads |-> request]
  /\ Goto(0, "signal")
  /\ UNCHANGED <<mutex, stop, pause, last_graph, workVars, barrierVars, node, chunk>>

\* ggml_graph_compute_kickoff, up to the store of n_graph that polling threads see
Kick ==
  /\ pc[0] = "kick" /\ mutex = Free
  /\ mutex' = 0
  /\ n_graph' = [count |-> n_graph.count + 1, threads |-> request]
  /\ Goto(0, "signal")
  /\ UNCHANGED <<stop, pause, last_graph, workVars, barrierVars, node, chunk>>

Signal ==
  /\ pc[0] = "signal"
  /\ pause' = FALSE
  /\ pc' = [Broadcast EXCEPT ![0] = "enter"]
  /\ mutex' = Free
  /\ UNCHANGED <<n_graph, stop, last_graph, workVars, barrierVars, node, chunk>>

\* ggml_threadpool_pause: also for the pool that a backend gives up for another
Pause ==
  /\ pc[0] = "idle" /\ mutex = Free /\ ~pause
  /\ pause' = TRUE /\ pc' = Broadcast
  /\ UNCHANGED <<mutex, n_graph, stop, last_graph, workVars, barrierVars, node, chunk>>

Resume ==
  /\ pc[0] = "idle" /\ mutex = Free /\ pause
  /\ pause' = FALSE /\ pc' = Broadcast
  /\ UNCHANGED <<mutex, n_graph, stop, last_graph, workVars, barrierVars, node, chunk>>

\* ggml_threadpool_free: stop is set before pause is taken back
FreeStop ==
  /\ pc[0] = "idle" /\ mutex = Free
  /\ mutex' = 0 /\ stop' = TRUE
  /\ Goto(0, "free")
  /\ UNCHANGED <<n_graph, pause, last_graph, workVars, barrierVars, node, chunk>>

\* (mutant) pause stays
FreePaused ==
  /\ pc[0] = "free"
  /\ pc' = [Broadcast EXCEPT ![0] = "join"]
  /\ mutex' = Free
  /\ UNCHANGED <<n_graph, pause, stop, last_graph, workVars, barrierVars, node, chunk>>

FreeSignal ==
  /\ pc[0] = "free"
  /\ pause' = FALSE
  /\ pc' = [Broadcast EXCEPT ![0] = "join"]
  /\ mutex' = Free
  /\ UNCHANGED <<n_graph, stop, last_graph, workVars, barrierVars, node, chunk>>

Join ==
  /\ pc[0] = "join" /\ \A t \in Workers : pc[t] = "ended"
  /\ Goto(0, "ended")
  /\ UNCHANGED <<workVars, barrierVars, sleepVars, node, chunk>>

-----------------------------------------------------------------------------
(* A worker without work: ggml_graph_compute_secondary_thread              *)

\* the pause loop and then the test of stop, both without the mutex
Top(t) ==
  /\ pc[t] = "top"
  /\ Goto(t, IF pause THEN "pause" ELSE "unpaused")
  /\ UNCHANGED <<workVars, barrierVars, sleepVars, node, chunk>>

SeeStop(t) ==
  /\ pc[t] = "unpaused"
  /\ Goto(t, IF stop THEN "ended" ELSE "poll")
  /\ UNCHANGED <<workVars, barrierVars, sleepVars, node, chunk>>

\* under the mutex: still paused?
PauseLock(t) ==
  /\ pc[t] = "pause" /\ mutex = Free
  /\ IF pause THEN mutex' = t /\ Goto(t, "pausing")
              ELSE Goto(t, "top") /\ UNCHANGED mutex
  /\ UNCHANGED <<n_graph, stop, pause, last_graph, workVars, barrierVars, node, chunk>>

PauseWait(t) ==
  /\ pc[t] = "pausing"
  /\ mutex' = Free /\ Goto(t, "paused")
  /\ UNCHANGED <<n_graph, stop, pause, last_graph, workVars, barrierVars, node, chunk>>

PauseEnd(t) ==
  /\ pc[t] = "resumed" /\ mutex = Free
  /\ Goto(t, "top")
  /\ UNCHANGED <<workVars, barrierVars, sleepVars, node, chunk>>

\* thread_ready, which polls: stop and pause first, n_graph after them.  More rounds of
\* polling without news change nothing
PollStop(t) ==
  /\ pc[t] = "poll"
  /\ Goto(t, IF stop \/ pause THEN "lock" ELSE "look")
  /\ UNCHANGED <<workVars, barrierVars, sleepVars, node, chunk>>

\* a new graph is noted in last_graph, also by a thread that has no part in it
NewGraph(t) == n_graph # last_graph[t]
Note(t) == last_graph' = [last_graph EXCEPT ![t] = n_graph]
Takes(t) == NewGraph(t) /\ t < Active

Look(t) ==
  /\ pc[t] = "look"
  /\ Note(t)
  /\ Goto(t, IF Takes(t) THEN "enter" ELSE "lock")
  /\ UNCHANGED <<mutex, n_graph, stop, pause, workVars, barrierVars, node, chunk>>

\* thread_ready under the mutex, before the first wait and after each
Lock(t) ==
  /\ pc[t] = "lock" /\ mutex = Free
  /\ \/ /\ stop \/ pause
        /\ Goto(t, "top") /\ UNCHANGED <<mutex, last_graph>>
     \/ /\ ~stop /\ ~pause /\ NewGraph(t)
        /\ Note(t)
        /\ Goto(t, IF Takes(t) THEN "enter" ELSE "top") /\ UNCHANGED mutex
     \/ /\ ~stop /\ ~pause /\ ~NewGraph(t)
        /\ mutex' = t
        /\ Goto(t, "wait") /\ UNCHANGED last_graph
  /\ UNCHANGED <<n_graph, stop, pause, workVars, barrierVars, node, chunk>>

\* ggml_cond_wait gives the mutex up as it goes to sleep
Wait(t) ==
  /\ pc[t] = "wait"
  /\ mutex' = Free /\ Goto(t, "sleep")
  /\ UNCHANGED <<n_graph, stop, pause, last_graph, workVars, barrierVars, node, chunk>>

\* a condition variable may wake a waiter for nothing
Spurious(t) ==
  /\ pc[t] \in {"sleep", "paused"}
  /\ Goto(t, Woken(pc[t]))
  /\ UNCHANGED <<workVars, barrierVars, sleepVars, node, chunk>>

-----------------------------------------------------------------------------
(* ggml_graph_compute_thread                                               *)

Kind(t) == cgraph[node[t]]

\* ggml_compute_forward_mul_mat: too few chunks are split anew, one for each thread
NParts(kind, n) ==
  CASE kind = "mul" -> IF Chunks < n * 4 THEN n ELSE Chunks
    [] kind = "map" -> n
    [] OTHER -> 0

Enter(t) ==
  /\ pc[t] = "enter"
  /\ node' = [node EXCEPT ![t] = 1]
  /\ Goto(t, "node")
  /\ UNCHANGED <<workVars, barrierVars, sleepVars, chunk>>

\* (mutant) none between two nodes
GoNodeless(t, l) ==
  Goto(t, IF l = "node" THEN l ELSE "barrier") /\ after' = [after EXCEPT ![t] = l]
GoBarrier(t, l) == Goto(t, "barrier") /\ after' = [after EXCEPT ![t] = l]

\* the head of the loop over the nodes
AbortedAnywhere(t) == abort # 0    \* (mutant) as if abort were a flag
Aborted(t) == abort = node[t]
NodeHead(t) ==
  /\ pc[t] = "node"
  /\ \/ /\ node[t] > Len(cgraph) \/ Aborted(t)
        /\ GoBarrier(t, "leave") /\ UNCHANGED node
     \/ /\ node[t] <= Len(cgraph) /\ ~Aborted(t) /\ Kind(t) = "nop"
        /\ node' = [node EXCEPT ![t] = @ + 1]
        /\ UNCHANGED <<pc, after>>
     \/ /\ node[t] <= Len(cgraph) /\ ~Aborted(t) /\ Kind(t) # "nop"
        /\ Goto(t, IF Kind(t) = "mul" THEN "convert" ELSE "map")
        /\ UNCHANGED <<node, after>>
  /\ UNCHANGED <<workVars, n_barrier, n_barrier_passed, n_passed, sleepVars, chunk>>

Written(k, c) == written' = [written EXCEPT ![k][c] = @ + 1]

\* a map; a fused norm leaves its own rows to those of the node after it
Map(t) ==
  /\ pc[t] = "map"
  /\ LET k == IF Kind(t) = "fuse" THEN node[t] + 1 ELSE node[t] IN
       /\ Written(k, t)
       /\ node' = [node EXCEPT ![t] = k]
  /\ Goto(t, "done")
  /\ UNCHANGED <<cgraph, current_chunk, abort, request, wdata, barrierVars, sleepVars, chunk>>


\* a matrix product: this thread's share of src1, and the first chunk that is not somebody's own
Convert(t) ==
  /\ pc[t] = "convert"
  /\ wdata' = [wdata EXCEPT ![t] = <<n_graph.count, node[t]>>]
  /\ current_chunk' = IF t = 0 THEN Active ELSE current_chunk
  /\ chunk' = [chunk EXCEPT ![t] = t]
  /\ GoBarrier(t, "chunk")
  /\ UNCHANGED <<cgraph, abort, request, written, n_barrier, n_barrier_passed, n_passed,
                 sleepVars, node>>

\* one chunk is computed, from all of the converted src1, and the next one taken
MulChunk(t) ==
  /\ pc[t] = "chunk"
  /\ LET n == NParts("mul", Active) IN
       \/ /\ chunk[t] >= n
          /\ Goto(t, "done") /\ UNCHANGED <<written, current_chunk, chunk>>
       \/ /\ chunk[t] < n
          /\ Written(node[t], chunk[t])
          /\ IF Active >= n
               THEN Goto(t, "done") /\ UNCHANGED <<current_chunk, chunk>>
               ELSE /\ chunk' = [chunk EXCEPT ![t] = current_chunk]
                    /\ current_chunk' = current_chunk + 1
                    /\ UNCHANGED pc
  /\ UNCHANGED <<cgraph, abort, request, wdata, barrierVars, sleepVars, node>>

\* after a node: thread 0 asks the abort callback and names the node to stop at; a
\* barrier, unless it was the last
Done(t) ==
  /\ pc[t] = "done"
  /\ abort' \in {abort} \cup (IF t = 0 THEN {node[t] + 1} ELSE {})
  /\ node' = [node EXCEPT ![t] = @ + 1]
  /\ IF node[t] < Len(cgraph) THEN GoBarrier(t, "node")
                              ELSE Goto(t, "node") /\ UNCHANGED after
  /\ UNCHANGED <<cgraph, current_chunk, request, written, wdata, n_barrier, n_barrier_passed,
                 n_passed, sleepVars, chunk>>

\* the caller returns, a worker looks for the next graph
Leave(t) ==
  /\ pc[t] = "leave"
  /\ Goto(t, IF t = 0 THEN "idle" ELSE "top")
  /\ UNCHANGED <<workVars, barrierVars, sleepVars, node, chunk>>

-----------------------------------------------------------------------------
(* ggml_barrier                                                            *)

BarrierRead(t) ==
  /\ pc[t] = "barrier"
  /\ n_passed' = [n_passed EXCEPT ![t] = n_barrier_passed]
  /\ Goto(t, IF Active = 1 THEN after[t] ELSE "arrive")
  /\ UNCHANGED <<workVars, n_barrier, n_barrier_passed, after, sleepVars, node, chunk>>

Arrive(t) ==
  /\ pc[t] = "arrive"
  /\ n_barrier' = n_barrier + 1
  /\ Goto(t, IF n_barrier = Active - 1 THEN "reset" ELSE "spin")
  /\ UNCHANGED <<workVars, n_barrier_passed, n_passed, after, sleepVars, node, chunk>>

\* the last to arrive empties the barrier and then lets the others pass
Reset(t) ==
  /\ pc[t] = "reset"
  /\ n_barrier' = 0
  /\ Goto(t, "pass")
  /\ UNCHANGED <<workVars, n_barrier_passed, n_passed, after, sleepVars, node, chunk>>

Pass(t) ==
  /\ pc[t] = "pass"
  /\ n_barrier_passed' = n_barrier_passed + 1
  /\ Goto(t, after[t])
  /\ UNCHANGED <<workVars, n_barrier, n_passed, after, sleepVars, node, chunk>>

Spin(t) ==
  /\ pc[t] = "spin" /\ n_barrier_passed # n_passed[t]
  /\ Goto(t, after[t])
  /\ UNCHANGED <<workVars, barrierVars, sleepVars, node, chunk>>

-----------------------------------------------------------------------------
Caller == Kick \/ Signal \/ FreeSignal \/ Join
Parked(t) ==
  \/ Top(t) \/ SeeStop(t) \/ PauseWait(t) \/ PollStop(t) \/ Look(t) \/ Wait(t)
  \/ PauseLock(t) \/ PauseEnd(t) \/ Lock(t)
Works(t) ==
  \/ Enter(t) \/ NodeHead(t) \/ Map(t) \/ Convert(t) \/ MulChunk(t) \/ Done(t) \/ Leave(t)
  \/ BarrierRead(t) \/ Arrive(t) \/ Reset(t) \/ Pass(t) \/ Spin(t)

\* a freed pool
Ended == pc[0] = "ended" /\ UNCHANGED vars

Next ==
  \/ \E g \in Graphs, n \in Requests : Compute(g, n)
  \/ Pause \/ Resume \/ FreeStop \/ Caller
  \/ \E t \in Workers : Parked(t) \/ Spurious(t)
  \/ \E t \in Threads : Works(t)
  \/ Ended

Spec == Init /\ [][Next]_vars

\* every thread runs; whoever wants the mutex again and again finds it free at some time.
\* Nobody has to compute a graph, to pause, to resume or to free
Fairness ==
  /\ SF_vars(Caller)
  /\ \A t \in Workers : SF_vars(Parked(t))
  /\ \A t \in Threads : WF_vars(Works(t))
FairSpec == Spec /\ Fairness

-----------------------------------------------------------------------------
(* Properties                                                              *)

Idle == {"idle", "kick", "signal", "free", "join"}
Sleeping == {"top", "unpaused", "pause", "pausing", "paused", "resumed", "poll", "look",
             "lock", "wait", "sleep"}
Working == {"enter", "node", "map", "convert", "chunk", "done", "barrier", "arrive", "reset",
            "pass", "spin", "leave"}

\* Every variable has its type.
TypeOK ==
  /\ mutex \in Threads \cup {Free} /\ cgraph \in Graphs
  /\ n_graph \in [count : 0..MaxGraphs, threads : 0..NThreads]
  /\ n_barrier \in 0..NThreads /\ n_barrier_passed \in Nat /\ current_chunk \in Nat
  /\ stop \in BOOLEAN /\ pause \in BOOLEAN
  /\ abort \in 0..MaxLen+1 /\ request \in 1..NThreads
  /\ pc \in [Threads -> Idle \cup Sleeping \cup Working \cup {"ended"}]
  /\ last_graph \in [Threads -> [count : 0..MaxGraphs, threads : 0..NThreads]]
  /\ node \in [Threads -> 1..MaxLen+1] /\ chunk \in [Threads -> Nat]
  /\ n_passed \in [Threads -> Nat] /\ after \in [Threads -> {"node", "chunk", "leave"}]
  /\ written \in [1..MaxLen -> [0..MaxParts-1 -> Nat]]
  /\ wdata \in [Threads -> (0..MaxGraphs) \X (0..MaxLen)]

\* A thread that computes a chunk reads all of src1 from the work buffer, which every
\* matrix product of a graph uses: each share in it was converted for this node of this
\* graph (the barriers of ggml_compute_forward_mul_mat and of the loop over the nodes).
BufferIsOurs ==
  \A t \in Threads : pc[t] = "chunk" =>
    \A i \in 0..Active-1 : wdata[i] = <<n_graph.count, node[t]>>

\* The pool computes graphs as GraphRun promises: nodes in order, every chunk and every
\* thread's rows written once, and an abort stops all of the threads at one node.
Run == INSTANCE GraphRun WITH
         Teams <- 1..NThreads, Parts <- NParts,
         running <- pc[0] \notin {"idle", "free", "join", "ended"},
         graph <- cgraph, team <- request,
         last <- IF n_graph.count = 0 /\ pc[0] \in {"idle", "free", "join", "ended"} THEN 0
                 ELSE IF abort = 0 THEN Len(cgraph) ELSE abort - 1
RunsGraphs == Run!Spec

\* Every compute returns: no kick-off is missed by a worker that polls, goes to sleep,
\* pauses or wakes for nothing, and no barrier waits for a thread that does not come.
EveryComputeReturns == pc[0] = "kick" ~> pc[0] = "idle"

\* ggml_threadpool_free returns: every worker sees stop, asleep, paused or polling.
PoolIsFreed == pc[0] = "free" ~> pc[0] = "ended"
=============================================================================
