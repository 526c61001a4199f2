-------------------------- MODULE ThreadPoolProofs --------------------------
(***************************************************************************)
(* The CPU thread pool, for any number of threads, graphs and chunks.      *)
(*                                                                         *)
(* Between two barriers all of the team is in one segment of the graph     *)
(* (Segment): the nodes up to the next barrier, the chunks of a product or *)
(* the way out.  A thread that the barrier has let pass counts as where    *)
(* the barrier leads (Loc), so that the last to arrive moves the whole     *)
(* team to the next segment in one step (SegmentEnds).                     *)
(***************************************************************************)
EXTENDS ThreadPool, FiniteSetTheorems, TLAPS

-----------------------------------------------------------------------------
(* Where the threads are                                                   *)

\* The threads that the graph asks for; from the store of n_graph to the caller's return they
\* work on it.
Team  == 0..Active-1
On    == pc[0] = "signal" \/ pc[0] \in Working
In(t) == pc[t] \in Working /\ (t = 0 \/ last_graph[t] = n_graph)

\* A thread that the barrier has let pass is where the barrier leads, though it may not know.
Released(t) == pc[t] = "spin" /\ n_passed[t] # n_barrier_passed
Loc(t)      == IF Released(t) THEN after[t] ELSE pc[t]
Passing     == {"reset", "pass"}
Gated       == {"barrier", "arrive", "spin"} \cup Passing

NNodes == Len(cgraph)
\* A thread that starts at node k skips to n; a map after skipped nodes finishes with node l.
Reaches(k, n)  == n \in k..NNodes+1 /\ \A j \in k..n-1 : cgraph[j] = "nop"
Finishes(k, l) ==
  /\ l \in k..NNodes
  /\ \E m \in k..l : Reaches(k, m) /\ \/ cgraph[m] = "map"  /\ l = m
                                      \/ cgraph[m] = "fuse" /\ l = m + 1
Product(k, n)  == n \in k..NNodes /\ Reaches(k, n) /\ cgraph[n] = "mul"

\* Between two barriers the team is in one segment: the nodes from k on up to the barrier in a matrix product
\* or after a map, the chunks of node k, or the way out.  Where a segment ends:
NodeEnds(k, a, n) ==
  \/ abort # k /\ a = "chunk" /\ Product(k, n)
  \/ abort # k /\ a = "node"  /\ n \in k+1..NNodes /\ Finishes(k, n - 1)
  \/ abort # k /\ a = "leave" /\ n = NNodes + 1 /\ (Reaches(k, n) \/ Finishes(k, NNodes))
  \/ abort = k /\ a = "leave" /\ n = k
ChunkEnds(k, a, n) == n = k + 1 /\ a = IF k < NNodes THEN "node" ELSE "leave"

AtNode(t, k) ==
  /\ Loc(t) \in {"enter", "node", "convert", "map", "done"} \cup Gated
  /\ Loc(t) = "enter"   => k = 1
  /\ Loc(t) = "node"    => /\ Reaches(k, node[t]) \/ (node[t] = NNodes + 1 /\ Finishes(k, NNodes))
                           /\ abort = k => node[t] = k
  /\ Loc(t) = "convert" => abort # k /\ Product(k, node[t])
  /\ Loc(t) = "map"     => /\ abort # k /\ node[t] \in k..NNodes /\ Reaches(k, node[t])
                           /\ cgraph[node[t]] \in {"map", "fuse"}
  /\ Loc(t) = "done"    => abort # k /\ Finishes(k, node[t])
  /\ Loc(t) \in Gated   => NodeEnds(k, after[t], node[t])
AtChunk(t, k) ==
  /\ cgraph[k] = "mul"
  /\ Loc(t) \in {"chunk", "done", "node"} \cup Gated
  /\ Loc(t) \in {"chunk", "done"} => node[t] = k
  /\ Loc(t) = "node"              => node[t] = k + 1 /\ k = NNodes
  /\ Loc(t) \in Gated             => ChunkEnds(k, after[t], node[t])
At(t, k, p) ==
  /\ p = "node"  => AtNode(t, k)
  /\ p = "chunk" => AtChunk(t, k)
  /\ p = "leave" => Loc(t) = "leave"

\* A thread of the team that is not at work has not come yet, or has left.
Waited(t, k, p) == p = "node" /\ k = 1 /\ (t = 0 \/ last_graph[t] # n_graph)
Gone(t, p)      == p = "leave" /\ t # 0 /\ last_graph[t] = n_graph
TeamAt(k, p) ==
  \A t \in Team : IF In(t) THEN At(t, k, p) ELSE Waited(t, k, p) \/ Gone(t, p)

\* The caller has named no node to stop at, or one that is nowhere, or the one of this segment or
\* of the next.
AbortAt(k, p) ==
  \/ abort = 0 \/ abort = NNodes + 1
  \/ p = "leave" /\ abort \in 1..NNodes
  \/ p = "node" /\ abort = k /\ k > 1
  \/ In(0) /\ Loc(0) \in Gated /\ after[0] = "node" /\ node[0] = abort

\* What was converted.
Converted(t) ==
  /\ wdata[t] = <<n_graph.count, node[t]>> /\ chunk[t] = t
  /\ t = 0 => current_chunk = Active
BufferAt(k, p) ==
  /\ p = "node"  => \A t \in Team : In(t) /\ Loc(t) \in Gated /\ after[t] = "chunk" => Converted(t)
  /\ p = "chunk" => \A t \in Team : wdata[t] = <<n_graph.count, k>>

\* What was written: all of the earlier nodes, and of this one what the team has done.
PartsOf(k)  == 0..NParts(cgraph[k], request)-1
Complete(k) == \A c \in PartsOf(k) : written[k][c] = 1
Mapped(c, j) == c \in Team /\ In(c) /\ Loc(c) # "enter" /\ (Loc(c) = "done" \/ node[c] > j)
Held(c)      == \E t \in Team : Loc(t) = "chunk" /\ chunk[t] = c
NodeData(k) ==
  \A j \in k..MaxLen : \A c \in 0..MaxParts-1 :
    written[j][c] = IF Finishes(k, j) /\ Mapped(c, j) THEN 1 ELSE 0
ChunkData(k) ==
  /\ \A j \in k+1..MaxLen : \A c \in 0..MaxParts-1 : written[j][c] = 0
  /\ current_chunk >= Active
  /\ \A t \in Team : IF Loc(t) = "chunk" THEN chunk[t] < current_chunk
                                         ELSE current_chunk >= NParts("mul", Active)
  /\ \A t, u \in Team : t # u /\ Loc(t) = "chunk" /\ Loc(u) = "chunk" => chunk[t] # chunk[u]
  /\ \A c \in 0..MaxParts-1 :
       written[k][c] = IF c < NParts("mul", Active) /\ c < current_chunk /\ ~Held(c) THEN 1 ELSE 0
LastNode == IF abort = 0 THEN NNodes ELSE abort - 1
WrittenAt(k, p) ==
  /\ p = "node"  => NodeData(k)  /\ \A j \in 1..k-1 : Complete(j)
  /\ p = "chunk" => ChunkData(k) /\ \A j \in 1..k-1 : Complete(j)
  /\ p = "leave" => \A j \in 1..LastNode : Complete(j)

Parts == {"node", "chunk", "leave"}
Segment(k, p) == TeamAt(k, p) /\ AbortAt(k, p) /\ BufferAt(k, p) /\ WrittenAt(k, p)
TeamInv == On => \E k \in 1..NNodes, p \in Parts : Segment(k, p)

\* The caller; between two graphs nobody is left to enter the one before.
CallerInv ==
  /\ pc[0] \notin Sleeping
  /\ pc[0] = "kick" => n_graph.count < MaxGraphs /\ abort = 0 /\ written = Unwritten
  /\ On => n_graph.count > 0 /\ request = Active
  /\ ~On => \A t \in Team : t # 0 => last_graph[t] = n_graph

\* A worker that is in the code of a graph works on this one, or is on its way out of an earlier.
WorkersInv == \A t \in Workers :
  /\ pc[t] \notin Idle
  /\ last_graph[t].count <= n_graph.count
  /\ last_graph[t].count = n_graph.count => last_graph[t] = n_graph
  /\ pc[t] \in Working => Loc(t) = "leave" \/ (On /\ In(t) /\ t \in Team)

\* The barrier counts those that wait; while one opens it, all the others wait.
Waiting == {t \in Threads : pc[t] = "spin" /\ n_passed[t] = n_barrier_passed}
BarrierInv ==
  /\ \A t \in Threads : pc[t] = "spin" => n_passed[t] <= n_barrier_passed
  /\ \A t \in Threads : pc[t] = "arrive" => n_passed[t] = n_barrier_passed
  /\ \A t \in Threads : pc[t] \in Passing => Team \ {t} \subseteq Waiting
  /\ \A t \in Threads : pc[t] = "pass" => n_barrier = 0
  /\ (\A t \in Threads : pc[t] \notin Passing) => n_barrier = Cardinality(Waiting)

PoolInv == TypeOK /\ CallerInv /\ WorkersInv /\ BarrierInv /\ TeamInv

-----------------------------------------------------------------------------
(* Facts about the constants and the nodes                                 *)

\* The graphs, and the longest of them.
LEMMA GraphShape ==
  ASSUME NEW g \in Graphs
  PROVE  /\ g \in Seq(Kinds) /\ Len(g) \in Nat \ {0} /\ DOMAIN g = 1..Len(g)
         /\ \A k \in 1..Len(g) : g[k] \in Kinds
         /\ \A k \in 1..Len(g) : g[k] = "fuse" => k < Len(g) /\ g[k+1] = "map"
         /\ MaxLen \in Nat /\ Len(g) <= MaxLen
<1>1. g \in Seq(Kinds) /\ g # <<>>
  BY ThreadPoolAssumption
<1>2. Len(g) \in Nat \ {0} /\ DOMAIN g = 1..Len(g) /\ \A k \in 1..Len(g) : g[k] \in Kinds
  BY <1>1
<1>3. \A k \in 1..Len(g) : g[k] = "fuse" => k < Len(g) /\ g[k+1] = "map"
  BY <1>2, ThreadPoolAssumption
<1>4. MaxLen \in {Len(h) : h \in Graphs} /\ \A h \in Graphs : Len(h) <= MaxLen
  BY ThreadPoolAssumption DEF MaxLen
<1>5. PICK h \in Graphs : MaxLen = Len(h)
  BY <1>4
<1>6. h \in Seq(Kinds)
  BY <1>5, ThreadPoolAssumption
<1>. QED BY <1>1, <1>2, <1>3, <1>4, <1>5, <1>6

\* The threads and the parts of a node.
LEMMA Counts ==
  /\ NThreads \in Nat \ {0} /\ MaxGraphs \in Nat /\ MaxParts \in Nat /\ MaxParts >= NThreads
  /\ 0 \in Threads /\ Workers \subseteq Threads /\ 0 \notin Workers
  /\ \A t \in Threads : t \in Nat /\ (t # 0 => t \in Workers)
  /\ \A n \in 1..NThreads : \A kind : NParts(kind, n) \in 0..MaxParts
  /\ \A n \in 1..NThreads : NParts("mul", n) >= n /\ NParts("map", n) = n
                            /\ NParts("nop", n) = 0 /\ NParts("fuse", n) = 0
<1>1. MaxParts \in Nat /\ MaxParts >= NThreads /\ MaxParts >= Chunks
  BY ThreadPoolAssumption DEF MaxParts
<1>2. \A n \in 1..NThreads : \A kind : NParts(kind, n) \in 0..MaxParts
  BY <1>1, ThreadPoolAssumption DEF NParts
<1>3. \A n \in 1..NThreads : NParts("mul", n) >= n /\ NParts("map", n) = n
                             /\ NParts("nop", n) = 0 /\ NParts("fuse", n) = 0
  BY ThreadPoolAssumption DEF NParts
<1>. QED BY <1>1, <1>2, <1>3, ThreadPoolAssumption DEF Threads, Workers

\* Where the skipping of nodes leads.
LEMMA Skipping ==
  ASSUME cgraph \in Graphs, NEW k \in 1..NNodes
  PROVE  /\ Reaches(k, k)
         /\ \A n \in 1..NNodes : Reaches(k, n) /\ cgraph[n] = "nop" => Reaches(k, n + 1)
         /\ \A n \in 1..NNodes : Reaches(k, n) /\ cgraph[n] = "map" => Finishes(k, n)
         /\ \A n \in 1..NNodes : Reaches(k, n) /\ cgraph[n] = "fuse" => Finishes(k, n + 1)
<1> USE DEF NNodes, Reaches, Finishes
<1>1. /\ NNodes \in Nat \ {0}
      /\ \A n \in 1..NNodes : cgraph[n] = "fuse" => n < NNodes
  BY GraphShape
<1>2. Reaches(k, k)
  BY <1>1
<1>3. \A n \in 1..NNodes : Reaches(k, n) /\ cgraph[n] = "nop" => Reaches(k, n + 1)
  BY <1>1
<1>4. \A n \in 1..NNodes : Reaches(k, n) /\ cgraph[n] = "map" => Finishes(k, n)
  BY <1>1
<1>5. \A n \in 1..NNodes : Reaches(k, n) /\ cgraph[n] = "fuse" => Finishes(k, n + 1)
  BY <1>1
<1>. QED BY <1>2, <1>3, <1>4, <1>5

\* A node leads to one end.
LEMMA OneEnd ==
  ASSUME cgraph \in Graphs, NEW k \in 1..NNodes
  PROVE  /\ \A l : Finishes(k, l) => l \in k..NNodes /\ cgraph[l] = "map"
         /\ \A l : Finishes(k, l) => \A j \in k..l-1 : cgraph[j] \in {"nop", "fuse"}
         /\ \A l, m : Finishes(k, l) /\ Finishes(k, m) => l = m
         /\ \A l, n : Finishes(k, l) => ~Product(k, n)
         /\ \A l, n : Finishes(k, l) /\ Reaches(k, n) => n <= l
         /\ \A l, n : Finishes(k, l) /\ Reaches(k, n) /\ cgraph[n] = "map" => l = n
         /\ \A l, n : Finishes(k, l) /\ Reaches(k, n) /\ cgraph[n] = "fuse" => l = n + 1
         /\ \A l, n : Finishes(k, l) /\ Reaches(k, n) /\ cgraph[n] = "nop" => l # n
         /\ \A m, n : Product(k, m) /\ Product(k, n) => m = n
         /\ \A m, n : Product(k, m) /\ Reaches(k, n) => n <= m
<1> USE DEF NNodes, Reaches, Finishes, Product
<1>1. /\ NNodes \in Nat \ {0}
      /\ \A n \in 1..NNodes : cgraph[n] = "fuse" => n < NNodes /\ cgraph[n+1] = "map"
  BY GraphShape
<1>2. ASSUME NEW l, Finishes(k, l)
      PROVE  /\ l \in k..NNodes /\ cgraph[l] = "map"
             /\ \A j \in k..l-1 : cgraph[j] \in {"nop", "fuse"}
             /\ \E m \in k..l : Reaches(k, m) /\ \/ cgraph[m] = "map"  /\ l = m
                                                 \/ cgraph[m] = "fuse" /\ l = m + 1
  BY <1>1, <1>2
<1>3. ASSUME NEW m \in k..NNodes, NEW n \in k..NNodes+1, Reaches(k, m), Reaches(k, n), cgraph[m] # "nop"
      PROVE  n <= m /\ (n = NNodes + 1 \/ cgraph[n] # "nop" => n = m)
  <2>1. n <= m
    <3>1. n \in Nat /\ m \in Nat /\ (n > m => m \in k..n-1)
      BY <1>1
    <3>. QED BY <1>3, <3>1
  <2>2. n < m => cgraph[n] = "nop" /\ n # NNodes + 1
    <3>1. n < m => n \in k..m-1
      BY <1>1
    <3>. QED BY <1>1, <1>3, <3>1
  <2>. QED BY <1>1, <2>1, <2>2
<1>. HIDE DEF NNodes, Reaches, Finishes, Product
<1>4. \A n : Reaches(k, n) => n \in k..NNodes+1
  BY DEF Reaches
<1>5. \A n : Product(k, n) => n \in k..NNodes /\ Reaches(k, n) /\ cgraph[n] = "mul"
  BY DEF Product
<1>6. ASSUME NEW l, Finishes(k, l), NEW n, Reaches(k, n)
      PROVE  /\ n <= l /\ ~Product(k, n)
             /\ cgraph[n] = "map" => l = n
             /\ cgraph[n] = "fuse" => l = n + 1
             /\ cgraph[n] = "nop" => l # n
  <2>1. PICK m \in k..l : Reaches(k, m) /\ \/ cgraph[m] = "map"  /\ l = m
                                           \/ cgraph[m] = "fuse" /\ l = m + 1
    BY <1>2, <1>6
  <2>2. l \in k..NNodes /\ cgraph[l] = "map" /\ m \in k..NNodes
    BY <1>1, <1>2, <1>6
  <2>3. n \in k..NNodes+1 /\ n <= m
    BY <1>3, <1>4, <1>6, <2>1, <2>2
  <2>4. n <= NNodes /\ cgraph[n] # "nop" => n = m
    BY <1>3, <1>4, <1>6, <2>1, <2>2
  <2>5. n <= NNodes
    BY <1>1, <2>2, <2>3
  <2>6. n <= l
    BY <1>1, <2>2, <2>3
  <2>. QED BY <1>5, <2>1, <2>2, <2>3, <2>4, <2>5, <2>6
<1>7. ASSUME NEW l, Finishes(k, l), NEW h, Finishes(k, h)
      PROVE  l = h
  <2>1. PICK m \in k..l : Reaches(k, m) /\ \/ cgraph[m] = "map"  /\ l = m
                                           \/ cgraph[m] = "fuse" /\ l = m + 1
    BY <1>2, <1>7
  <2>. QED BY <1>6, <1>7, <2>1
<1>8. ASSUME NEW m, Product(k, m), NEW n, Reaches(k, n)
      PROVE  n <= m /\ (cgraph[n] = "mul" /\ n \in k..NNodes => n = m)
  BY <1>1, <1>3, <1>4, <1>5, <1>8
<1>. QED
  <2>1. \A l : Finishes(k, l) => l \in k..NNodes /\ cgraph[l] = "map" /\ \A j \in k..l-1 : cgraph[j] \in {"nop", "fuse"}
    BY <1>2
  <2>2. \A l, n : Finishes(k, l) /\ Reaches(k, n) =>
             /\ n <= l /\ ~Product(k, n)
             /\ cgraph[n] = "map" => l = n
             /\ cgraph[n] = "fuse" => l = n + 1
             /\ cgraph[n] = "nop" => l # n
    BY <1>6
  <2>3. \A l, n : Finishes(k, l) => ~Product(k, n)
    BY <1>5, <2>2
  <2>4. \A l, m : Finishes(k, l) /\ Finishes(k, m) => l = m
    BY <1>7
  <2>5. \A m, n : Product(k, m) /\ Reaches(k, n) => n <= m
    BY <1>8
  <2>6. \A m, n : Product(k, m) /\ Product(k, n) => m = n
    BY <1>5, <1>8
  <2>. QED BY <2>1, <2>2, <2>3, <2>4, <2>5, <2>6

-----------------------------------------------------------------------------
(* What keeps a segment                                                    *)

\* Places that exclude each other.
LEMMA PcSets ==
  /\ Gated \subseteq Working /\ Passing \subseteq Gated
  /\ "leave" \notin Gated /\ "node" \notin Gated /\ "chunk" \notin Gated /\ "done" \notin Gated
  /\ "enter" \notin Gated /\ "map" \notin Gated /\ "convert" \notin Gated
  /\ Idle \cap Working = {} /\ Sleeping \cap Working = {} /\ Idle \cap Sleeping = {}
  /\ "ended" \notin Idle \cup Sleeping \cup Working
  /\ {"enter", "node", "map", "convert", "chunk", "done", "leave"} \subseteq Working
  BY DEF Gated, Passing, Working, Idle, Sleeping

\* While a graph is under way the caller is one of the team.
LEMMA TeamShape ==
  ASSUME TypeOK, CallerInv
  PROVE  /\ Active \in 0..NThreads /\ n_graph.count \in 0..MaxGraphs
         /\ Team \subseteq Threads /\ \A t \in Threads : t \in Team <=> t < Active
         /\ On => 0 \in Team /\ request = Active /\ Active \in 1..NThreads
         /\ cgraph \in Graphs /\ NNodes \in Nat \ {0} /\ NNodes <= MaxLen
<1>1. Active \in 0..NThreads /\ n_graph.count \in 0..MaxGraphs /\ cgraph \in Graphs /\ request \in 1..NThreads
  BY DEF TypeOK, Active
<1>2. On => request = Active
  BY DEF CallerInv
<1>3. NNodes \in Nat \ {0} /\ NNodes <= MaxLen
  BY <1>1, GraphShape DEF NNodes
<1>. QED BY <1>1, <1>2, <1>3, Counts DEF Team, Threads

\* A thread of the team stays where it is, up to its way through the barrier.
Stays(t) ==
  /\ In(t)' <=> In(t)
  /\ last_graph'[t] = last_graph[t]
  /\ In(t) => Loc(t)' = Loc(t) \/ (Loc(t) \in Gated /\ Loc(t)' \in Gated)

\* Where a segment ends depends on the graph and on the node that was named to stop at.
LEMMA EndsKept ==
  ASSUME cgraph' = cgraph
  PROVE  /\ \A k, n : Reaches(k, n)' = Reaches(k, n)
         /\ \A k, n : Finishes(k, n)' = Finishes(k, n)
         /\ \A k, n : Product(k, n)' = Product(k, n)
         /\ \A k, a, n : (abort' = k <=> abort = k) => NodeEnds(k, a, n)' = NodeEnds(k, a, n)
         /\ \A k, a, n : ChunkEnds(k, a, n)' = ChunkEnds(k, a, n)
         /\ NNodes' = NNodes
<1>1. NNodes' = NNodes /\ cgraph' = cgraph
  BY DEF NNodes
<1>2. \A k, n : Reaches(k, n)' = Reaches(k, n)
  BY <1>1 DEF Reaches
<1>3. \A k, n : Finishes(k, n)' = Finishes(k, n)
  BY <1>1, <1>2 DEF Finishes
<1>4. \A k, n : Product(k, n)' = Product(k, n)
  BY <1>1, <1>2 DEF Product
<1>5. \A k, a, n : (abort' = k <=> abort = k) => NodeEnds(k, a, n)' = NodeEnds(k, a, n)
  BY <1>1, <1>2, <1>3, <1>4 DEF NodeEnds
<1>6. \A k, a, n : ChunkEnds(k, a, n)' = ChunkEnds(k, a, n)
  BY <1>1 DEF ChunkEnds
<1>. QED BY <1>1, <1>2, <1>3, <1>4, <1>5, <1>6

\* A thread that stays is still in its segment.
LEMMA AtKept ==
  ASSUME NEW t, NEW k, NEW p, At(t, k, p), Stays(t), In(t),
         cgraph' = cgraph, p = "node" => (abort' = k <=> abort = k), node'[t] = node[t], after'[t] = after[t]
  PROVE  At(t, k, p)'
<1>1. Loc(t)' = Loc(t) \/ (Loc(t) \in Gated /\ Loc(t)' \in Gated)
  BY DEF Stays
<1>2. CASE Loc(t)' = Loc(t)
  <2>1. p = "node" => AtNode(t, k)'
    <3> SUFFICES ASSUME p = "node", AtNode(t, k) PROVE AtNode(t, k)'
      BY DEF At
    <3>1. abort' = k <=> abort = k
      OBVIOUS
    <3>. QED BY <1>2, <3>1, EndsKept DEF AtNode
  <2>2. p = "chunk" => AtChunk(t, k)'
    <3> SUFFICES ASSUME AtChunk(t, k) PROVE AtChunk(t, k)'
      BY DEF At
    <3>. QED BY <1>2, EndsKept DEF AtChunk
  <2>. QED BY <1>2, <2>1, <2>2 DEF At
<1>3. CASE Loc(t) \in Gated /\ Loc(t)' \in Gated
  <2>1. p = "node" => AtNode(t, k)'
    <3> SUFFICES ASSUME p = "node", AtNode(t, k) PROVE AtNode(t, k)'
      BY DEF At
    <3>1. abort' = k <=> abort = k
      OBVIOUS
    <3>. QED BY <1>3, <3>1, EndsKept, PcSets DEF AtNode
  <2>2. p = "chunk" => AtChunk(t, k)'
    <3> SUFFICES ASSUME AtChunk(t, k) PROVE AtChunk(t, k)'
      BY DEF At
    <3>. QED BY <1>3, EndsKept, PcSets DEF AtChunk
  <2>. QED BY <1>3, <2>1, <2>2, PcSets DEF At
<1>. QED BY <1>1, <1>2, <1>3

\* The segment goes on when all of the team stay.
LEMMA SegmentKept ==
  ASSUME TypeOK, CallerInv, On, NEW k \in 1..NNodes, NEW p \in Parts, Segment(k, p),
         UNCHANGED <<workVars, n_graph, node, chunk>>,
         \A t \in Team : Stays(t) /\ after'[t] = after[t]
  PROVE  Segment(k, p)'
<1>1. /\ UNCHANGED <<cgraph, abort, request, current_chunk, written, wdata, n_graph, node, chunk>>
      /\ Team' = Team /\ Active' = Active /\ NNodes' = NNodes /\ LastNode' = LastNode
  BY DEF workVars, Team, Active, NNodes, LastNode
<1>2. 0 \in Team
  BY TeamShape
<1>3. TeamAt(k, p)'
  <2> SUFFICES ASSUME NEW t \in Team
               PROVE  IF In(t)' THEN At(t, k, p)' ELSE Waited(t, k, p)' \/ Gone(t, p)'
    BY <1>1 DEF TeamAt
  <2>1. CASE In(t)
    <3>1. At(t, k, p)
      BY <2>1 DEF Segment, TeamAt
    <3>. QED BY <1>1, <2>1, <3>1, AtKept DEF Stays
  <2>2. CASE ~In(t)
    BY <1>1, <2>2 DEF Segment, TeamAt, Waited, Gone, Stays
  <2>. QED BY <2>1, <2>2
<1>4. AbortAt(k, p)'
  <2>1. In(0) /\ Loc(0) \in Gated => In(0)' /\ Loc(0)' \in Gated
    BY <1>2 DEF Stays
  <2>2. after'[0] = after[0]
    BY <1>2
  <2>. QED BY <1>1, <2>1, <2>2 DEF AbortAt, Segment
<1>5. BufferAt(k, p)'
  <2>1. \A t \in Team : Converted(t)' = Converted(t)
    BY <1>1 DEF Converted
  <2>2. \A t \in Team : In(t)' /\ Loc(t)' \in Gated => In(t) /\ Loc(t) \in Gated
    BY DEF Stays
  <2>. QED BY <1>1, <2>1, <2>2 DEF BufferAt, Segment
<1>6. \A j : Complete(j)' = Complete(j)
  BY <1>1 DEF Complete, PartsOf
<1>7. p = "node" => NodeData(k)'
  <2> SUFFICES ASSUME p = "node", NodeData(k) PROVE NodeData(k)'
    BY DEF Segment, WrittenAt
  <2>1. \A c, j : Mapped(c, j)' <=> Mapped(c, j)
    <3> SUFFICES ASSUME NEW c \in Team, NEW j, In(c)
                 PROVE  (Loc(c)' # "enter" /\ (Loc(c)' = "done" \/ node[c] > j))
                        <=> (Loc(c) # "enter" /\ (Loc(c) = "done" \/ node[c] > j))
      BY <1>1 DEF Mapped, Stays
    <3>. QED BY PcSets DEF Stays
  <2>. QED BY <1>1, <2>1, EndsKept DEF NodeData
<1>8. p = "chunk" => ChunkData(k)'
  <2> SUFFICES ASSUME p = "chunk", ChunkData(k) PROVE ChunkData(k)'
    BY DEF Segment, WrittenAt
  <2>1. \A t \in Team : In(t)
    BY DEF Segment, TeamAt, Waited, Gone
  <2>2. \A t \in Team : Loc(t)' = "chunk" <=> Loc(t) = "chunk"
    BY <2>1, PcSets DEF Stays
  <2>3. \A c : Held(c)' = Held(c)
    BY <1>1, <2>2 DEF Held
  <2>. QED BY <1>1, <2>2, <2>3 DEF ChunkData
<1>. QED BY <1>1, <1>3, <1>4, <1>5, <1>6, <1>7, <1>8 DEF Segment, WrittenAt

\* A thread of the team comes to the graph.
LEMMA SegmentJoined ==
  ASSUME TypeOK, CallerInv, On, NEW k \in 1..NNodes, NEW p \in Parts, Segment(k, p),
         UNCHANGED <<workVars, n_graph, node, chunk>>,
         NEW t \in Team, ~In(t), t = 0 \/ last_graph[t] # n_graph, In(t)', Loc(t)' = "enter",
         \A u \in Team \ {t} : Stays(u) /\ after'[u] = after[u]
  PROVE  Segment(k, p)'
<1>1. /\ UNCHANGED <<cgraph, abort, request, current_chunk, written, wdata, n_graph, node, chunk>>
      /\ Team' = Team /\ Active' = Active /\ NNodes' = NNodes /\ LastNode' = LastNode
  BY DEF workVars, Team, Active, NNodes, LastNode
<1>2. p = "node" /\ k = 1
  BY DEF Segment, TeamAt, Waited, Gone
<1>3. TeamAt(k, p)'
  <2> SUFFICES ASSUME NEW u \in Team
               PROVE  IF In(u)' THEN At(u, k, p)' ELSE Waited(u, k, p)' \/ Gone(u, p)'
    BY <1>1 DEF TeamAt
  <2>1. CASE u = t
    <3>1. AtNode(t, k)'
      BY <1>2, PcSets DEF AtNode
    <3>. QED BY <1>2, <2>1, <3>1 DEF At
  <2>2. CASE u # t /\ In(u)
    <3>1. At(u, k, p)
      BY <2>2 DEF Segment, TeamAt
    <3>2. At(u, k, p)'
      BY <1>1, <2>2, <3>1, AtKept
    <3>. QED BY <2>2, <3>2 DEF Stays
  <2>3. CASE u # t /\ ~In(u)
    BY <1>1, <2>3 DEF Segment, TeamAt, Waited, Gone, Stays
  <2>. QED BY <2>1, <2>2, <2>3
<1>4. AbortAt(k, p)'
  <2> SUFFICES ASSUME In(0), Loc(0) \in Gated, after[0] = "node", node[0] = abort
               PROVE  AbortAt(k, p)'
    BY <1>1 DEF AbortAt, Segment
  <2>1. 0 \in Team \ {t}
    BY TeamShape
  <2>2. In(0)' /\ Loc(0)' \in Gated /\ after'[0] = after[0]
    BY <2>1 DEF Stays
  <2>. QED BY <1>1, <2>2 DEF AbortAt
<1>5. BufferAt(k, p)'
  <2>1. \A u \in Team : Converted(u)' = Converted(u)
    BY <1>1 DEF Converted
  <2>2. \A u \in Team : In(u)' /\ Loc(u)' \in Gated => In(u) /\ Loc(u) \in Gated
    BY PcSets DEF Stays
  <2>3. \A u \in Team : Loc(u)' \in Gated => after'[u] = after[u]
    BY PcSets
  <2>. QED BY <1>1, <1>2, <2>1, <2>2, <2>3 DEF BufferAt, Segment
<1>6. \A j : Complete(j)' = Complete(j)
  BY <1>1 DEF Complete, PartsOf
<1>7. NodeData(k)'
  <2>1. \A c, j : Mapped(c, j)' <=> Mapped(c, j)
    <3>1. \A j : ~Mapped(t, j) /\ ~Mapped(t, j)'
      BY DEF Mapped
    <3>2. ASSUME NEW c \in Team \ {t}, NEW j, In(c)
          PROVE  (Loc(c)' # "enter" /\ (Loc(c)' = "done" \/ node[c] > j))
                        <=> (Loc(c) # "enter" /\ (Loc(c) = "done" \/ node[c] > j))
      BY PcSets, <3>2 DEF Stays
    <3>3. \A c \in Team \ {t} : \A j : Mapped(c, j)' <=> Mapped(c, j)
      BY <1>1, <3>2 DEF Mapped, Stays
    <3>4. \A c, j : c \notin Team => ~Mapped(c, j) /\ ~Mapped(c, j)'
      BY <1>1 DEF Mapped
    <3>. QED BY <3>1, <3>3, <3>4
  <2>. QED BY <1>1, <1>2, <2>1, EndsKept DEF NodeData, Segment, WrittenAt
<1>. QED BY <1>1, <1>2, <1>3, <1>4, <1>5, <1>6, <1>7 DEF Segment, WrittenAt

-----------------------------------------------------------------------------
(* Steps outside of the graph                                              *)

\* Of what a step that is not in the graph leaves alone.
Outside ==
  /\ UNCHANGED <<workVars, barrierVars, n_graph, node, chunk>>
  /\ \A t \in Threads : pc[t] \in Working \/ pc'[t] \in Working => pc'[t] = pc[t]
  /\ \A t \in Threads :
       \/ last_graph'[t] = last_graph[t]
       \/ t # 0 /\ t \notin Team /\ pc[t] \notin Working /\ last_graph'[t] = n_graph
  /\ pc'[0] = "signal" <=> pc[0] = "signal"
  /\ pc'[0] = "kick" => pc[0] = "kick"
  /\ pc'[0] \notin Sleeping
  /\ \A t \in Workers : pc'[t] \notin Idle

\* A step outside of the graph keeps all but the types.
LEMMA OutsideKeeps ==
  ASSUME PoolInv, Outside
  PROVE  CallerInv' /\ WorkersInv' /\ BarrierInv' /\ TeamInv'
<1>1. TypeOK /\ CallerInv /\ WorkersInv /\ BarrierInv
  BY DEF PoolInv
<1>2. /\ UNCHANGED <<workVars, cgraph, abort, request, current_chunk, written, wdata, n_graph, node, chunk, after,
                     n_passed, n_barrier, n_barrier_passed>>
      /\ Team' = Team /\ Active' = Active /\ NNodes' = NNodes
  BY DEF Outside, workVars, barrierVars, Team, Active, NNodes
<1>3. On' <=> On
  BY Counts DEF On, Outside
<1>4. \A t \in Threads : pc[t] \in Working \/ pc'[t] \in Working => Loc(t)' = Loc(t)
  BY <1>2 DEF Outside, Loc, Released
<1>5. CallerInv'
  BY <1>1, <1>2, <1>3, TeamShape DEF Outside, CallerInv
<1>6. WorkersInv'
  <2> SUFFICES ASSUME NEW t \in Workers
               PROVE  /\ pc'[t] \notin Idle
                      /\ last_graph'[t].count <= n_graph.count
                      /\ last_graph'[t].count = n_graph.count => last_graph'[t] = n_graph
                      /\ pc'[t] \in Working => Loc(t)' = "leave" \/ (On' /\ In(t)' /\ t \in Team)
    BY <1>2 DEF WorkersInv
  <2>1. t \in Threads
    BY Counts
  <2>2. last_graph'[t] = last_graph[t] \/ last_graph'[t] = n_graph
    BY <2>1 DEF Outside
  <2>3. pc'[t] \in Working => pc'[t] = pc[t] /\ last_graph'[t] = last_graph[t]
    BY <2>1 DEF Outside
  <2>4. n_graph.count <= n_graph.count
    BY <1>1, TeamShape
  <2>5. pc'[t] \in Working => Loc(t)' = "leave" \/ (On' /\ In(t)' /\ t \in Team)
    BY <1>1, <1>2, <1>3, <1>4, <2>1, <2>3 DEF WorkersInv, In
  <2>. QED BY <1>1, <2>2, <2>4, <2>5 DEF WorkersInv, Outside
<1>7. BarrierInv'
  <2>1. \A t \in Threads : \A l \in Gated : pc'[t] = l <=> pc[t] = l
    BY PcSets DEF Outside
  <2>2. "spin" \in Gated /\ "arrive" \in Gated /\ "pass" \in Gated /\ "reset" \in Gated
    BY DEF Gated, Passing
  <2>3. Waiting' = Waiting
    BY <1>2, <2>1, <2>2 DEF Waiting
  <2>4. \A t \in Threads : pc'[t] \in Passing <=> pc[t] \in Passing
    BY <2>1, <2>2 DEF Passing
  <2>. QED BY <1>1, <1>2, <2>1, <2>2, <2>3, <2>4 DEF BarrierInv
<1>8. TeamInv'
  <2> SUFFICES ASSUME On PROVE \E k \in 1..NNodes, p \in Parts : Segment(k, p)'
    BY <1>2, <1>3 DEF TeamInv
  <2>1. PICK k \in 1..NNodes, p \in Parts : Segment(k, p)
    BY DEF PoolInv, TeamInv
  <2>2. \A t \in Team : Stays(t) /\ after'[t] = after[t]
    <3> SUFFICES ASSUME NEW t \in Team PROVE Stays(t)
      BY <1>2
    <3>1. t \in Threads
      BY <1>1, TeamShape
    <3>2. last_graph'[t] = last_graph[t]
      BY <3>1 DEF Outside
    <3>3. In(t)' <=> In(t)
      BY <1>2, <3>1, <3>2 DEF In, Outside
    <3>4. In(t) => Loc(t)' = Loc(t)
      BY <1>4, <3>1 DEF In
    <3>. QED BY <3>2, <3>3, <3>4 DEF Stays
  <2>3. Segment(k, p)'
    BY <1>1, <1>2, <2>1, <2>2, SegmentKept
  <2>. QED BY <2>3
<1>. QED BY <1>5, <1>6, <1>7, <1>8

Places == Idle \cup Sleeping \cup Working \cup {"ended"}

\* Waking moves those that sleep only.
LEMMA WakeShape ==
  ASSUME pc \in [Threads -> Places]
  PROVE  /\ Broadcast \in [Threads -> Places]
         /\ \A t \in Threads : \/ Broadcast[t] = pc[t]
                               \/ pc[t] \in Sleeping /\ Broadcast[t] \in Sleeping
<1>1. \A t \in Threads : \/ Woken(pc[t]) = pc[t]
                         \/ pc[t] \in Sleeping /\ Woken(pc[t]) \in Sleeping
  BY DEF Woken, Sleeping
<1>2. \A t \in Threads : Broadcast[t] = Woken(pc[t])
  BY DEF Broadcast
<1>3. \A t \in Threads : Woken(pc[t]) \in Places
  BY <1>1 DEF Places
<1>4. Broadcast \in [Threads -> Places]
  BY <1>3 DEF Broadcast
<1>. QED BY <1>1, <1>2, <1>4

\* It keeps the types, too.
LEMMA OutsideTypes ==
  ASSUME TypeOK, UNCHANGED <<workVars, barrierVars, n_graph, node, chunk>>,
         mutex' \in Threads \cup {Free}, stop' \in BOOLEAN, pause' \in BOOLEAN,
         pc' \in [Threads -> Places],
         last_graph' = last_graph \/ \E t \in Threads : last_graph' = [last_graph EXCEPT ![t] = n_graph]
  PROVE  TypeOK'
<1>1. last_graph' \in [Threads -> [count : 0..MaxGraphs, threads : 0..NThreads]]
  BY DEF TypeOK
<1>. QED BY <1>1 DEF TypeOK, Places, workVars, barrierVars

\* The caller pauses, resumes and frees the pool.
LEMMA CallerSteps ==
  ASSUME PoolInv, Pause \/ Resume \/ FreeStop \/ FreeSignal \/ Join
  PROVE  PoolInv'
<1>1. TypeOK /\ pc \in [Threads -> Places] /\ 0 \in Threads /\ Workers \subseteq Threads /\ 0 \notin Workers
  BY Counts DEF PoolInv, TypeOK, Places
<1>2. \A t \in Workers : pc[t] \notin Idle
  BY DEF PoolInv, WorkersInv
<1>3. pc[0] \in {"idle", "free", "join"}
  BY DEF Pause, Resume, FreeStop, FreeSignal, Join
<1>4. /\ UNCHANGED <<workVars, barrierVars, n_graph, last_graph, node, chunk>>
      /\ mutex' \in {mutex, Free, 0} /\ stop' \in {stop, TRUE} /\ pause' \in {pause, TRUE, FALSE}
  BY DEF Pause, Resume, FreeStop, FreeSignal, Join, sleepVars
<1>5. \E l \in {"idle", "free", "join", "ended"} :
         \/ pc' = Broadcast /\ l = "idle" /\ pc[0] = "idle"
         \/ pc' = [Broadcast EXCEPT ![0] = l]
         \/ pc' = [pc EXCEPT ![0] = l]
  BY DEF Pause, Resume, FreeStop, FreeSignal, Join, Goto
<1>6. /\ pc' \in [Threads -> Places]
      /\ pc'[0] \in {"idle", "free", "join", "ended"}
      /\ \A t \in Workers : pc'[t] = pc[t] \/ (pc[t] \in Sleeping /\ pc'[t] \in Sleeping)
  <2>1. Broadcast \in [Threads -> Places] /\ Broadcast[0] = Woken(pc[0])
        /\ \A t \in Threads : Broadcast[t] = pc[t] \/ (pc[t] \in Sleeping /\ Broadcast[t] \in Sleeping)
    BY <1>1, WakeShape DEF Broadcast
  <2>2. Broadcast[0] = pc[0]
    BY <1>1, <1>3, <2>1, PcSets DEF Idle
  <2>3. {"idle", "free", "join", "ended"} \subseteq Places
    BY DEF Places, Idle
  <2>. QED BY <1>1, <1>5, <2>1, <2>2, <2>3
<1>7. Outside
  <2>1. \A t \in Threads : pc[t] \in Working \/ pc'[t] \in Working => pc'[t] = pc[t]
    <3>1. \A t \in Threads : t = 0 \/ t \in Workers
      BY Counts
    <3>2. pc[0] \notin Working /\ pc'[0] \notin Working
      BY <1>3, <1>6, PcSets DEF Idle
    <3>. QED BY <1>6, <3>1, <3>2, PcSets
  <2>2. pc[0] # "signal" /\ pc'[0] # "signal" /\ pc'[0] # "kick" /\ pc'[0] \notin Sleeping
    BY <1>3, <1>6, PcSets DEF Idle
  <2>3. \A t \in Workers : pc'[t] \notin Idle
    BY <1>2, <1>6, PcSets
  <2>. QED BY <1>4, <2>1, <2>2, <2>3 DEF Outside
<1>8. TypeOK'
  <2>1. mutex' \in Threads \cup {Free} /\ stop' \in BOOLEAN /\ pause' \in BOOLEAN
    BY <1>1, <1>4 DEF TypeOK
  <2>. QED BY <1>1, <1>4, <1>6, <2>1, OutsideTypes
<1>. QED BY <1>7, <1>8, OutsideKeeps DEF PoolInv

\* A worker that takes no part
LEMMA ParkedOutside ==
  ASSUME PoolInv, NEW t \in Workers,
         UNCHANGED <<workVars, barrierVars, n_graph, stop, pause, node, chunk>>,
         pc[t] \in Sleeping, NEW l \in Sleeping \cup {"ended"}, Goto(t, l), mutex' \in {mutex, Free, t},
         UNCHANGED last_graph \/ (Note(t) /\ ~Takes(t))
  PROVE  PoolInv'
<1>1. /\ TypeOK /\ CallerInv /\ WorkersInv /\ pc \in [Threads -> Places]
      /\ 0 \in Threads /\ t \in Threads /\ t # 0 /\ 0 \notin Workers
  BY Counts DEF PoolInv, TypeOK, Places
<1>2. pc' = [pc EXCEPT ![t] = l] /\ l \in Places
  BY DEF Goto, Places
<1>3. pc' \in [Threads -> Places] /\ pc'[t] = l /\ \A u \in Threads \ {t} : pc'[u] = pc[u]
  BY <1>1, <1>2
<1>4. last_graph' = last_graph \/ last_graph' = [last_graph EXCEPT ![t] = n_graph]
  BY DEF Note
<1>5. TypeOK'
  <2>1. mutex' \in Threads \cup {Free} /\ stop' \in BOOLEAN /\ pause' \in BOOLEAN
    BY <1>1 DEF TypeOK
  <2>. QED BY <1>1, <1>3, <1>4, <2>1, OutsideTypes
<1>6. Outside
  <2>1. \A u \in Threads : pc[u] \in Working \/ pc'[u] \in Working => pc'[u] = pc[u]
    BY <1>3, PcSets
  <2>2. \A u \in Threads :
          \/ last_graph'[u] = last_graph[u]
          \/ u # 0 /\ u \notin Team /\ pc[u] \notin Working /\ last_graph'[u] = n_graph
    <3>1. CASE last_graph' = last_graph
      BY <3>1
    <3>2. CASE Note(t) /\ ~Takes(t)
      <4>1. last_graph \in [Threads -> [count : 0..MaxGraphs, threads : 0..NThreads]]
        BY <1>1 DEF TypeOK
      <4>2. last_graph'[t] = n_graph /\ \A u \in Threads \ {t} : last_graph'[u] = last_graph[u]
        BY <1>1, <3>2, <4>1 DEF Note
      <4>3. t \notin Team \/ n_graph = last_graph[t]
        BY <1>1, <3>2, TeamShape DEF Takes, NewGraph
      <4>4. pc[t] \notin Working
        BY PcSets
      <4>. QED BY <1>1, <4>2, <4>3, <4>4
    <3>. QED BY <3>1, <3>2
  <2>3. pc'[0] = pc[0] /\ pc[0] \notin Sleeping
    BY <1>1, <1>3 DEF CallerInv
  <2>4. \A u \in Workers : pc'[u] \notin Idle
    BY <1>1, <1>3, Counts, PcSets DEF WorkersInv
  <2>. QED BY <2>1, <2>2, <2>3, <2>4 DEF Outside
<1>. QED BY <1>5, <1>6, OutsideKeeps DEF PoolInv

\* A worker notes a graph that asks for it, and goes to work.
LEMMA WorkerJoins ==
  ASSUME PoolInv, NEW t \in Workers,
         UNCHANGED <<workVars, barrierVars, mutex, n_graph, stop, pause, node, chunk>>,
         pc[t] \in Sleeping, Goto(t, "enter"), Note(t), Takes(t)
  PROVE  PoolInv'
<1>1. /\ TypeOK /\ CallerInv /\ WorkersInv /\ BarrierInv /\ pc \in [Threads -> Places]
      /\ last_graph \in [Threads -> [count : 0..MaxGraphs, threads : 0..NThreads]]
      /\ 0 \in Threads /\ t \in Threads /\ t # 0 /\ 0 \notin Workers /\ Workers \subseteq Threads
  BY Counts DEF PoolInv, TypeOK, Places
<1>2. /\ pc' = [pc EXCEPT ![t] = "enter"] /\ "enter" \in Places
      /\ last_graph' = [last_graph EXCEPT ![t] = n_graph]
  BY DEF Goto, Places, Working, Note
<1>3. /\ pc' \in [Threads -> Places] /\ pc'[t] = "enter" /\ \A u \in Threads \ {t} : pc'[u] = pc[u]
      /\ last_graph'[t] = n_graph /\ \A u \in Threads \ {t} : last_graph'[u] = last_graph[u]
  BY <1>1, <1>2
<1>4. TypeOK'
  <2>1. mutex' \in Threads \cup {Free} /\ stop' \in BOOLEAN /\ pause' \in BOOLEAN
    BY <1>1 DEF TypeOK
  <2>. QED BY <1>1, <1>2, <1>3, <2>1, OutsideTypes
<1>5. t \in Team /\ last_graph[t] # n_graph
  BY <1>1, TeamShape DEF Takes, NewGraph
<1>6. On
  BY <1>1, <1>5 DEF CallerInv
<1>7. /\ UNCHANGED <<workVars, cgraph, abort, request, current_chunk, written, wdata, n_graph, node, chunk, after,
                     n_passed, n_barrier, n_barrier_passed>>
      /\ Team' = Team /\ Active' = Active /\ NNodes' = NNodes
  BY DEF workVars, barrierVars, Team, Active, NNodes
<1>8. On' /\ pc'[0] = pc[0]
  BY <1>1, <1>3, <1>6 DEF On
<1>9. \A u \in Threads \ {t} : Loc(u)' = Loc(u) /\ (In(u)' <=> In(u)) /\ last_graph'[u] = last_graph[u]
  BY <1>3, <1>7 DEF Loc, Released, In
<1>10. /\ ~In(t) /\ In(t)' /\ Loc(t)' = "enter"
  BY <1>3, <1>7, PcSets DEF Loc, Released, In
<1>11. CallerInv'
  BY <1>1, <1>6, <1>7, <1>8 DEF CallerInv
<1>12. WorkersInv'
  <2> SUFFICES ASSUME NEW u \in Workers
               PROVE  /\ pc'[u] \notin Idle
                      /\ last_graph'[u].count <= n_graph.count
                      /\ last_graph'[u].count = n_graph.count => last_graph'[u] = n_graph
                      /\ pc'[u] \in Working => Loc(u)' = "leave" \/ (On' /\ In(u)' /\ u \in Team)
    BY <1>7 DEF WorkersInv
  <2>1. CASE u = t
    <3>1. n_graph.count <= n_graph.count
      BY <1>1, TeamShape
    <3>. QED BY <1>3, <1>5, <1>8, <1>10, <2>1, <3>1, PcSets
  <2>2. CASE u # t
    BY <1>1, <1>3, <1>6, <1>8, <1>9, <2>2 DEF WorkersInv
  <2>. QED BY <2>1, <2>2
<1>13. BarrierInv'
  <2>1. \A u \in Threads : \A l \in Gated : pc'[u] = l <=> pc[u] = l
    BY <1>3, PcSets
  <2>2. "spin" \in Gated /\ "arrive" \in Gated /\ "pass" \in Gated /\ "reset" \in Gated
    BY DEF Gated, Passing
  <2>3. Waiting' = Waiting
    BY <1>7, <2>1, <2>2 DEF Waiting
  <2>4. \A u \in Threads : pc'[u] \in Passing <=> pc[u] \in Passing
    BY <2>1, <2>2 DEF Passing
  <2>. QED BY <1>1, <1>7, <2>1, <2>2, <2>3, <2>4 DEF BarrierInv
<1>14. TeamInv'
  <2>1. PICK k \in 1..NNodes, p \in Parts : Segment(k, p)
    BY <1>6 DEF PoolInv, TeamInv
  <2>2. \A u \in Team \ {t} : Stays(u) /\ after'[u] = after[u]
    BY <1>1, <1>7, <1>9, TeamShape DEF Stays
  <2>3. Segment(k, p)'
    BY <1>1, <1>5, <1>6, <1>7, <1>10, <2>1, <2>2, SegmentJoined
  <2>. QED BY <1>7, <2>3 DEF TeamInv
<1>. QED BY <1>4, <1>11, <1>12, <1>13, <1>14 DEF PoolInv

\* All steps of a worker that is not in the graph.
LEMMA ParkedSteps ==
  ASSUME PoolInv, NEW t \in Workers, Parked(t) \/ Spurious(t)
  PROVE  PoolInv'
<1>1. CASE Top(t) \/ SeeStop(t) \/ PauseWait(t) \/ PollStop(t) \/ Wait(t) \/ PauseLock(t) \/ PauseEnd(t) \/ Spurious(t)
  <2>1. /\ UNCHANGED <<workVars, barrierVars, n_graph, stop, pause, last_graph, node, chunk>>
        /\ pc[t] \in Sleeping /\ mutex' \in {mutex, Free, t}
    BY <1>1 DEF Top, SeeStop, PauseWait, PollStop, Wait, PauseLock, PauseEnd, Spurious, sleepVars, Sleeping
  <2>2. \E l \in Sleeping \cup {"ended"} : Goto(t, l)
    BY <1>1 DEF Top, SeeStop, PauseWait, PollStop, Wait, PauseLock, PauseEnd, Spurious, Sleeping, Woken
  <2>. QED BY <2>1, <2>2, ParkedOutside
<1>2. CASE Look(t)
  <2>1. /\ UNCHANGED <<workVars, barrierVars, mutex, n_graph, stop, pause, node, chunk>>
        /\ pc[t] \in Sleeping /\ Note(t) /\ Goto(t, IF Takes(t) THEN "enter" ELSE "lock")
    BY <1>2 DEF Look, Sleeping
  <2>2. "lock" \in Sleeping
    BY DEF Sleeping
  <2>3. CASE Takes(t)
    BY <2>1, <2>3, WorkerJoins
  <2>4. CASE ~Takes(t)
    BY <2>1, <2>2, <2>4, ParkedOutside
  <2>. QED BY <2>3, <2>4
<1>3. CASE Lock(t)
  <2>1. /\ UNCHANGED <<workVars, barrierVars, n_graph, stop, pause, node, chunk>>
        /\ pc[t] \in Sleeping /\ mutex' \in {mutex, t} /\ "top" \in Sleeping /\ "wait" \in Sleeping
    BY <1>3 DEF Lock, Sleeping
  <2>2. \/ UNCHANGED last_graph /\ (Goto(t, "top") \/ Goto(t, "wait"))
        \/ Note(t) /\ mutex' = mutex /\ Takes(t) /\ Goto(t, "enter")
        \/ Note(t) /\ mutex' = mutex /\ ~Takes(t) /\ Goto(t, "top")
    BY <1>3 DEF Lock
  <2>3. CASE UNCHANGED last_graph /\ (Goto(t, "top") \/ Goto(t, "wait"))
    BY <2>1, <2>3, ParkedOutside
  <2>4. CASE Note(t) /\ mutex' = mutex /\ Takes(t) /\ Goto(t, "enter")
    BY <2>1, <2>4, WorkerJoins
  <2>5. CASE Note(t) /\ mutex' = mutex /\ ~Takes(t) /\ Goto(t, "top")
    BY <2>1, <2>5, ParkedOutside
  <2>. QED BY <2>2, <2>3, <2>4, <2>5
<1>. QED BY <1>1, <1>2, <1>3 DEF Parked

\* The caller replaces the graph when nobody is left to enter the one before.
LEMMA ComputeStep ==
  ASSUME PoolInv, NEW g \in Graphs, NEW n \in Requests, Compute(g, n)
  PROVE  PoolInv'
<1>1. TypeOK /\ CallerInv /\ WorkersInv /\ BarrierInv /\ pc \in [Threads -> Places] /\ 0 \in Threads
  BY Counts DEF PoolInv, TypeOK, Places
<1>2. /\ pc[0] = "idle" /\ n_graph.count < MaxGraphs /\ pc' = [pc EXCEPT ![0] = "kick"]
      /\ cgraph' = g /\ current_chunk' = 0 /\ abort' = 0 /\ written' = Unwritten
      /\ request' = IF n > NThreads THEN NThreads ELSE n
      /\ UNCHANGED <<wdata, n_barrier, n_barrier_passed, n_passed, after, mutex, n_graph, stop, pause, last_graph,
                     node, chunk>>
  BY DEF Compute, Goto, barrierVars, sleepVars
<1>3. pc'[0] = "kick" /\ \A t \in Threads \ {0} : pc'[t] = pc[t]
  BY <1>1, <1>2
<1>4. Team' = Team /\ n_graph' = n_graph
  BY <1>2 DEF Team, Active
<1>5. ~On /\ ~On'
  BY <1>2, <1>3, PcSets DEF On, Idle
<1>6. \A t \in Workers : t \in Threads \ {0}
  BY Counts
<1>7. TypeOK'
  <2>1. request' \in 1..NThreads
    BY <1>2, Counts, ThreadPoolAssumption
  <2>2. written' \in [1..MaxLen -> [0..MaxParts-1 -> Nat]]
    BY <1>2 DEF Unwritten
  <2>3. abort' \in 0..MaxLen+1
    BY <1>2, GraphShape
  <2>4. pc' \in [Threads -> Places]
    BY <1>1, <1>2 DEF Places, Idle
  <2>. QED BY <1>1, <1>2, <2>1, <2>2, <2>3, <2>4 DEF TypeOK, Places
<1>8. CallerInv'
  BY <1>1, <1>2, <1>3, <1>4, <1>5, PcSets DEF CallerInv, Idle
<1>9. WorkersInv'
  <2>1. \A t \in Workers : Loc(t)' = Loc(t) /\ pc'[t] = pc[t]
    BY <1>2, <1>3, <1>6 DEF Loc, Released
  <2>. QED BY <1>1, <1>2, <1>5, <2>1 DEF WorkersInv
<1>10. BarrierInv'
  <2>1. \A t \in Threads : \A l \in Gated : pc'[t] = l <=> pc[t] = l
    BY <1>2, <1>3, PcSets DEF Idle
  <2>2. "spin" \in Gated /\ "arrive" \in Gated /\ "pass" \in Gated /\ "reset" \in Gated
    BY DEF Gated, Passing
  <2>3. Waiting' = Waiting
    BY <1>2, <2>1, <2>2 DEF Waiting
  <2>4. \A t \in Threads : pc'[t] \in Passing <=> pc[t] \in Passing
    BY <2>1, <2>2 DEF Passing
  <2>. QED BY <1>1, <1>2, <1>4, <2>1, <2>2, <2>3, <2>4 DEF BarrierInv
<1>. QED BY <1>5, <1>7, <1>8, <1>9, <1>10 DEF PoolInv, TeamInv

\* The first segment of a graph: nobody has come yet.
LEMMA KickStep == ASSUME PoolInv, Kick PROVE PoolInv'
<1>1. /\ TypeOK /\ CallerInv /\ WorkersInv /\ BarrierInv /\ pc \in [Threads -> Places] /\ 0 \in Threads
      /\ request \in 1..NThreads /\ n_graph.count \in Nat /\ MaxGraphs \in Nat
  <2>1. TypeOK /\ CallerInv /\ WorkersInv /\ BarrierInv
    BY DEF PoolInv
  <2>2. pc \in [Threads -> Places] /\ 0 \in Threads /\ request \in 1..NThreads
    BY <2>1, Counts DEF TypeOK, Places
  <2>3. n_graph.count \in 0..MaxGraphs /\ MaxGraphs \in Nat
    BY <2>1, TeamShape, Counts
  <2>. QED BY <2>1, <2>2, <2>3
<1>2. /\ pc[0] = "kick" /\ pc' = [pc EXCEPT ![0] = "signal"] /\ mutex' = 0
      /\ n_graph' = [count |-> n_graph.count + 1, threads |-> request]
      /\ UNCHANGED <<cgraph, current_chunk, abort, request, written, wdata, n_barrier, n_barrier_passed, n_passed,
                     after, stop, pause, last_graph, node, chunk>>
  BY DEF Kick, Goto, barrierVars, workVars
<1>3. pc'[0] = "signal" /\ \A t \in Threads \ {0} : pc'[t] = pc[t]
  BY <1>1, <1>2
<1>4. n_graph.count < MaxGraphs /\ abort = 0 /\ written = Unwritten
  BY <1>1, <1>2 DEF CallerInv
<1>5. Active' = request /\ n_graph'.count = n_graph.count + 1 /\ Team' = 0..request-1
  BY <1>2 DEF Active, Team
<1>6. ~On /\ On'
  BY <1>2, <1>3, PcSets DEF On, Idle
<1>7. \A t \in Workers : t \in Threads \ {0}
  BY Counts
<1>8. \A t \in Workers : last_graph[t].count < n_graph'.count /\ last_graph[t].count \in Nat
  <2>1. \A t \in Workers : last_graph[t].count \in Nat
    BY <1>1, <1>7, Counts DEF TypeOK
  <2>. QED BY <1>1, <1>5, <2>1 DEF WorkersInv
<1>9. TypeOK'
  <2>1. n_graph' \in [count : 0..MaxGraphs, threads : 0..NThreads]
    <3>1. n_graph.count + 1 \in 0..MaxGraphs /\ request \in 0..NThreads
      BY <1>1, <1>4, Counts
    <3>. QED BY <1>2, <3>1
  <2>2. pc' \in [Threads -> Places]
    BY <1>1, <1>2 DEF Places, Idle
  <2>3. mutex' \in Threads \cup {Free}
    BY <1>1, <1>2
  <2>. QED BY <1>1, <1>2, <2>1, <2>2, <2>3 DEF TypeOK, Places
<1>10. CallerInv'
  BY <1>1, <1>2, <1>3, <1>5, <1>6, PcSets DEF CallerInv, Idle
<1>11. \A t \in Workers : Loc(t)' = Loc(t) /\ pc'[t] = pc[t] /\ (pc[t] \in Working => Loc(t) = "leave")
  BY <1>1, <1>2, <1>3, <1>6, <1>7 DEF Loc, Released, WorkersInv
<1>12. WorkersInv'
  <2>1. \A t \in Workers : last_graph[t].count <= n_graph'.count /\ last_graph[t].count # n_graph'.count
    BY <1>1, <1>5, <1>8
  <2>. QED BY <1>1, <1>2, <1>11, <2>1 DEF WorkersInv
<1>13. BarrierInv'
  <2>1. \A t \in Threads : \A l \in Gated : pc'[t] = l <=> pc[t] = l
    BY <1>2, <1>3, PcSets DEF Idle
  <2>2. "spin" \in Gated /\ "arrive" \in Gated /\ "pass" \in Gated /\ "reset" \in Gated
    BY DEF Gated, Passing
  <2>3. Waiting' = Waiting
    BY <1>2, <2>1, <2>2 DEF Waiting
  <2>4. \A t \in Threads : pc[t] \notin Passing /\ pc'[t] \notin Passing
    <3>1. pc[0] \notin Passing /\ pc'[0] \notin Passing
      BY <1>2, <1>3 DEF Passing
    <3>2. \A t \in Workers : pc[t] \notin Passing
      BY <1>11, PcSets DEF Passing, Loc, Released
    <3>. QED BY <1>3, <3>1, <3>2, Counts
  <2>. QED BY <1>1, <1>2, <2>1, <2>2, <2>3, <2>4 DEF BarrierInv, Passing
<1>14. TeamInv'
  <2>1. cgraph' = cgraph /\ NNodes' = NNodes /\ NNodes \in Nat \ {0} /\ 1 \in 1..NNodes /\ "node" \in Parts
    BY <1>1, <1>2, TeamShape DEF NNodes, Parts
  <2>2. \A t \in Team' : ~In(t)'
    <3>1. \A t \in Workers : last_graph'[t] # n_graph'
      <4>1. \A t \in Workers : last_graph[t].count # n_graph'.count
        BY <1>1, <1>5, <1>8
      <4>. QED BY <1>2, <4>1
    <3>2. \A t \in Team' : t = 0 \/ t \in Workers
      BY <1>1, <1>5, Counts DEF Workers
    <3>3. pc'[0] \notin Working
      BY <1>3, PcSets DEF Idle
    <3>. QED BY <3>1, <3>2, <3>3 DEF In
  <2>3. TeamAt(1, "node")'
    <3>1. \A t \in Team' : t = 0 \/ last_graph'[t] # n_graph'
      <4>1. \A t \in Workers : last_graph[t].count # n_graph'.count
        BY <1>1, <1>5, <1>8
      <4>2. \A t \in Team' : t = 0 \/ t \in Workers
        BY <1>1, <1>5, Counts DEF Workers
      <4>. QED BY <1>2, <4>1, <4>2
    <3>. QED BY <2>2, <3>1 DEF TeamAt, Waited
  <2>4. AbortAt(1, "node")'
    BY <1>2, <1>4 DEF AbortAt
  <2>5. BufferAt(1, "node")'
    BY <2>2 DEF BufferAt
  <2>6. WrittenAt(1, "node")'
    <3>1. \A c, j : ~Mapped(c, j)'
      BY <2>2 DEF Mapped
    <3>2. MaxLen \in Nat /\ written' = written
      BY <1>1, <1>2, GraphShape DEF TypeOK
    <3>3. NodeData(1)'
      BY <1>4, <3>1, <3>2 DEF NodeData, Unwritten
    <3>. QED BY <3>3 DEF WrittenAt
  <2>7. Segment(1, "node")'
    BY <2>3, <2>4, <2>5, <2>6 DEF Segment
  <2>. QED BY <2>1, <2>7 DEF TeamInv
<1>. QED BY <1>9, <1>10, <1>12, <1>13, <1>14 DEF PoolInv

\* The caller comes to its graph.
LEMMA SignalStep == ASSUME PoolInv, Signal PROVE PoolInv'
<1>1. TypeOK /\ CallerInv /\ WorkersInv /\ BarrierInv /\ pc \in [Threads -> Places] /\ 0 \in Threads
  BY Counts DEF PoolInv, TypeOK, Places
<1>2. /\ pc[0] = "signal" /\ pc' = [Broadcast EXCEPT ![0] = "enter"] /\ mutex' = Free /\ pause' = FALSE
      /\ UNCHANGED <<workVars, n_barrier, n_barrier_passed, n_passed, after, barrierVars, n_graph, stop, last_graph,
                     node, chunk>>
      /\ UNCHANGED <<cgraph, current_chunk, abort, request, written, wdata>>
  BY DEF Signal, barrierVars, workVars
<1>3. /\ pc' \in [Threads -> Places] /\ pc'[0] = "enter"
      /\ \A t \in Threads \ {0} : pc'[t] = pc[t] \/ (pc[t] \in Sleeping /\ pc'[t] \in Sleeping)
  BY <1>1, <1>2, WakeShape DEF Places, Working
<1>4. Team' = Team /\ Active' = Active /\ NNodes' = NNodes
  BY <1>2 DEF Active, Team, NNodes
<1>5. On /\ On'
  BY <1>2, <1>3, PcSets DEF On
<1>6. \A t \in Workers : t \in Threads \ {0}
  BY Counts
<1>7. TypeOK'
  BY <1>1, <1>2, <1>3, OutsideTypes DEF TypeOK
<1>8. \A t \in Threads \ {0} : /\ In(t)' <=> In(t)
                               /\ pc[t] \in Working \/ pc'[t] \in Working => pc'[t] = pc[t] /\ Loc(t)' = Loc(t)
  BY <1>2, <1>3, PcSets DEF In, Loc, Released
<1>9. CallerInv'
  BY <1>1, <1>2, <1>3, <1>4, <1>5, PcSets DEF CallerInv, Idle
<1>10. WorkersInv'
  <2>1. \A t \in Workers : pc'[t] \notin Idle
    BY <1>1, <1>3, <1>6, PcSets DEF WorkersInv
  <2>. QED BY <1>1, <1>2, <1>4, <1>5, <1>6, <1>8, <2>1 DEF WorkersInv
<1>11. BarrierInv'
  <2>1. \A t \in Threads : \A l \in Gated : pc'[t] = l <=> pc[t] = l
    BY <1>2, <1>3, PcSets DEF Idle
  <2>2. "spin" \in Gated /\ "arrive" \in Gated /\ "pass" \in Gated /\ "reset" \in Gated
    BY DEF Gated, Passing
  <2>3. Waiting' = Waiting
    BY <1>2, <2>1, <2>2 DEF Waiting
  <2>4. \A t \in Threads : pc'[t] \in Passing <=> pc[t] \in Passing
    BY <2>1, <2>2 DEF Passing
  <2>. QED BY <1>1, <1>2, <1>4, <2>1, <2>2, <2>3, <2>4 DEF BarrierInv
<1>12. TeamInv'
  <2>1. PICK k \in 1..NNodes, p \in Parts : Segment(k, p)
    BY <1>5 DEF PoolInv, TeamInv
  <2>2. \A u \in Team \ {0} : Stays(u) /\ after'[u] = after[u]
    BY <1>1, <1>2, <1>8, TeamShape DEF Stays, In
  <2>3. 0 \in Team /\ ~In(0) /\ In(0)' /\ Loc(0)' = "enter"
    BY <1>1, <1>2, <1>3, <1>5, TeamShape, PcSets DEF In, Loc, Released, Idle
  <2>4. Segment(k, p)'
    BY <1>1, <1>2, <1>5, <2>1, <2>2, <2>3, SegmentJoined
  <2>. QED BY <1>4, <2>4 DEF TeamInv
<1>. QED BY <1>7, <1>9, <1>10, <1>11, <1>12 DEF PoolInv

-----------------------------------------------------------------------------
(* Steps in the graph                                                      *)

\* A step of thread t, as the others see it.
Alone(t) ==
  /\ UNCHANGED <<cgraph, request, sleepVars, n_barrier_passed>>
  /\ \A u \in Threads \ {t} :
       /\ pc'[u] = pc[u] /\ node'[u] = node[u] /\ chunk'[u] = chunk[u]
       /\ n_passed'[u] = n_passed[u] /\ after'[u] = after[u]

\* The others stay where they are.
LEMMA AloneSame ==
  ASSUME NEW t, Alone(t)
  PROVE  /\ Active' = Active /\ Team' = Team /\ NNodes' = NNodes
         /\ UNCHANGED <<cgraph, request, n_graph, last_graph, n_barrier_passed, mutex, stop, pause>>
         /\ \A u \in Threads \ {t} :
              Stays(u) /\ Loc(u)' = Loc(u) /\ (In(u)' <=> In(u)) /\ after'[u] = after[u]
<1>1. UNCHANGED <<cgraph, request, n_graph, last_graph, n_barrier_passed, mutex, stop, pause>>
  BY DEF Alone, sleepVars
<1>2. Active' = Active /\ Team' = Team /\ NNodes' = NNodes
  BY <1>1 DEF Active, Team, NNodes
<1>3. ASSUME NEW u \in Threads \ {t}
      PROVE  Loc(u)' = Loc(u) /\ (In(u)' <=> In(u)) /\ last_graph'[u] = last_graph[u] /\ after'[u] = after[u]
  BY <1>1 DEF Alone, Loc, Released, In
<1>. QED BY <1>1, <1>2, <1>3 DEF Stays

\* A thread at work that is not on its way out is of the team, and in its segment.
LEMMA AtWork ==
  ASSUME PoolInv, NEW t \in Threads, pc[t] \in Working, Loc(t) # "leave"
  PROVE  /\ On /\ In(t) /\ t \in Team /\ 0 \in Team
         /\ \E k \in 1..NNodes, p \in {"node", "chunk"} : Segment(k, p) /\ At(t, k, p)
<1>1. TypeOK /\ CallerInv /\ WorkersInv
  BY DEF PoolInv
<1>2. On /\ In(t)
  <2>1. CASE t = 0
    BY <2>1 DEF On, In
  <2>2. CASE t # 0
    <3>1. t \in Workers
      BY <2>2, Counts
    <3>. QED BY <1>1, <3>1 DEF WorkersInv
  <2>. QED BY <2>1, <2>2
<1>3. t \in Team /\ 0 \in Team
  <2>1. 0 \in Team
    BY <1>1, <1>2, TeamShape
  <2>2. CASE t # 0
    <3>1. t \in Workers
      BY <2>2, Counts
    <3>. QED BY <1>1, <2>1, <3>1 DEF WorkersInv
  <2>. QED BY <2>1, <2>2
<1>4. PICK k \in 1..NNodes, p \in Parts : Segment(k, p)
  BY <1>2 DEF PoolInv, TeamInv
<1>5. At(t, k, p)
  BY <1>2, <1>3, <1>4 DEF Segment, TeamAt
<1>6. p # "leave"
  BY <1>5 DEF At
<1>. QED BY <1>2, <1>3, <1>4, <1>5, <1>6 DEF Parts

\* The caller's and the workers' parts of the invariant, in a step within the graph.
LEMMA RestKept ==
  ASSUME PoolInv, NEW t \in Threads, Alone(t), pc[t] \in Working, pc'[t] \in Working,
         Loc(t) = "leave" => Loc(t)' = "leave",
         Loc(t) # "leave" \/ UNCHANGED <<abort, written>>
  PROVE  CallerInv' /\ WorkersInv'
<1>1. TypeOK /\ CallerInv /\ WorkersInv
  BY DEF PoolInv
<1>2. On' <=> On
  BY PcSets, Counts DEF On, Alone
<1>3. pc'[0] = pc[0] \/ (pc[0] \in Working /\ pc'[0] \in Working)
  BY Counts DEF Alone
<1>4. UNCHANGED <<abort, written>> \/ On
  BY AtWork
<1>5. CallerInv'
  BY <1>1, <1>2, <1>3, <1>4, AloneSame, PcSets DEF CallerInv, On, Idle
<1>6. WorkersInv'
  <2> SUFFICES ASSUME NEW u \in Workers
               PROVE  /\ pc'[u] \notin Idle
                      /\ pc'[u] \in Working => Loc(u)' = "leave" \/ (On' /\ In(u)' /\ u \in Team)
    BY <1>1, AloneSame DEF WorkersInv
  <2>1. CASE u = t
    <3>1. Loc(t) # "leave" => On /\ In(t) /\ t \in Team
      BY AtWork
    <3>2. In(t) => In(t)'
      BY AloneSame DEF In
    <3>. QED BY <1>2, <2>1, <3>1, <3>2, PcSets
  <2>2. CASE u # t
    <3>1. u \in Threads \ {t}
      BY <2>2, Counts
    <3>. QED BY <1>1, <1>2, <3>1, AloneSame DEF WorkersInv, Alone
  <2>. QED BY <2>1, <2>2
<1>. QED BY <1>5, <1>6

InBarrier == {"arrive", "spin"} \cup Passing

\* A step that is not in the barrier leaves its count alone.
LEMMA BarrierKept ==
  ASSUME PoolInv, NEW t \in Threads, Alone(t), pc[t] \notin InBarrier, pc'[t] \notin InBarrier,
         n_barrier' = n_barrier
  PROVE  BarrierInv'
<1>1. BarrierInv
  BY DEF PoolInv
<1>2. \A u \in Threads : \A l \in InBarrier : pc'[u] = l <=> pc[u] = l
  BY DEF Alone
<1>3. "spin" \in InBarrier /\ "arrive" \in InBarrier /\ "pass" \in InBarrier /\ "reset" \in InBarrier
  BY DEF InBarrier, Passing
<1>4. \A u \in Threads : pc[u] = "spin" \/ pc[u] = "arrive" => n_passed'[u] = n_passed[u]
  BY <1>3 DEF Alone
<1>5. Waiting' = Waiting
  BY <1>2, <1>3, <1>4, AloneSame DEF Waiting
<1>6. \A u \in Threads : pc'[u] \in Passing <=> pc[u] \in Passing
  BY <1>2, <1>3 DEF Passing
<1>. QED BY <1>1, <1>2, <1>3, <1>4, <1>5, <1>6, AloneSame DEF BarrierInv

\* The team is still in the segment when the thread that moved is.
LEMMA TeamMoves ==
  ASSUME TypeOK, CallerInv, NEW k \in 1..NNodes, NEW p \in Parts, TeamAt(k, p),
         NEW t \in Team, Alone(t), In(t)', At(t, k, p)', p = "node" => (abort' = k <=> abort = k)
  PROVE  TeamAt(k, p)'
<1> SUFFICES ASSUME NEW u \in Team \ {t}
             PROVE  IF In(u)' THEN At(u, k, p)' ELSE Waited(u, k, p)' \/ Gone(u, p)'
  BY AloneSame DEF TeamAt
<1>1. u \in Threads \ {t}
  BY TeamShape
<1>2. Stays(u) /\ (In(u)' <=> In(u)) /\ node'[u] = node[u] /\ after'[u] = after[u] /\ cgraph' = cgraph
  BY <1>1, AloneSame DEF Alone
<1>3. CASE In(u)
  <2>1. At(u, k, p)
    BY <1>3 DEF TeamAt
  <2>2. At(u, k, p)'
    BY <1>2, <1>3, <2>1, AtKept
  <2>. QED BY <1>2, <1>3, <2>2
<1>4. CASE ~In(u)
  BY <1>1, <1>2, <1>4, AloneSame DEF TeamAt, Waited, Gone
<1>. QED BY <1>3, <1>4

\* A step before the barrier leaves the node to stop at where it was.
LEMMA AbortMoves ==
  ASSUME NEW k \in 1..NNodes, NEW p \in Parts, AbortAt(k, p),
         NEW t, Alone(t), abort' = abort, Loc(t) \notin Gated, 0 \in Threads
  PROVE  AbortAt(k, p)'
<1>1. CASE In(0) /\ Loc(0) \in Gated /\ after[0] = "node" /\ node[0] = abort
  <2>1. 0 \in Threads \ {t}
    BY <1>1
  <2>2. In(0)' /\ Loc(0)' = Loc(0) /\ after'[0] = after[0] /\ node'[0] = node[0]
    BY <1>1, <2>1, AloneSame DEF Alone
  <2>. QED BY <1>1, <2>2 DEF AbortAt
<1>2. CASE ~(In(0) /\ Loc(0) \in Gated /\ after[0] = "node" /\ node[0] = abort)
  BY <1>2, AloneSame DEF AbortAt
<1>. QED BY <1>1, <1>2

\* What the others have written stays theirs.
LEMMA OthersMapped ==
  ASSUME TypeOK, CallerInv, NEW t \in Team, Alone(t)
  PROVE  \A c, j : c # t => (Mapped(c, j)' <=> Mapped(c, j))
<1> SUFFICES ASSUME NEW c, NEW j, c # t PROVE Mapped(c, j)' <=> Mapped(c, j)
  OBVIOUS
<1>1. CASE c \in Team
  <2>1. c \in Threads \ {t}
    BY <1>1, TeamShape
  <2>2. (In(c)' <=> In(c)) /\ Loc(c)' = Loc(c) /\ node'[c] = node[c] /\ Team' = Team
    BY <2>1, AloneSame DEF Alone
  <2>. QED BY <2>2 DEF Mapped
<1>2. CASE c \notin Team
  BY <1>2, AloneSame DEF Mapped
<1>. QED BY <1>1, <1>2

\* Complete nodes stay so.
LEMMA CompleteKept ==
  ASSUME NEW t, Alone(t), NEW j, \A c \in PartsOf(j) : written'[j][c] = written[j][c], Complete(j)
  PROVE  Complete(j)'
<1>1. PartsOf(j)' = PartsOf(j)
  BY AloneSame DEF PartsOf
<1>. QED BY <1>1 DEF Complete

\* The buffer, when t neither is at the barrier in a product nor converts for the others.
LEMMA BufferMoves ==
  ASSUME TypeOK, CallerInv, NEW k, NEW p, BufferAt(k, p), NEW t \in Team, Alone(t), wdata' = wdata,
         t = 0 \/ current_chunk' = current_chunk,
         p = "node" => Loc(t)' \notin Gated \/ after'[t] # "chunk"
  PROVE  BufferAt(k, p)'
<1>1. ASSUME p = "node", NEW u \in Team, In(u)', Loc(u)' \in Gated, after'[u] = "chunk"
      PROVE  Converted(u)'
  <2>1. u # t
    BY <1>1
  <2>2. u \in Threads \ {t}
    BY <2>1, TeamShape
  <2>3. In(u) /\ Loc(u) \in Gated /\ after[u] = "chunk"
    BY <1>1, <2>2, AloneSame
  <2>4. Converted(u)
    BY <1>1, <2>3 DEF BufferAt
  <2>5. node'[u] = node[u] /\ chunk'[u] = chunk[u] /\ n_graph' = n_graph /\ Active' = Active
    BY <2>2, AloneSame DEF Alone
  <2>6. u = 0 => current_chunk' = current_chunk
    BY <2>1
  <2>. QED BY <2>4, <2>5, <2>6 DEF Converted
<1>2. ASSUME p = "chunk" PROVE \A u \in Team : wdata'[u] = <<n_graph'.count, k>>
  BY <1>2, AloneSame DEF BufferAt
<1>. QED BY <1>1, <1>2, AloneSame DEF BufferAt

\* A thread goes on to another node, or to the barrier, and writes nothing.
LEMMA QuietMove ==
  ASSUME PoolInv, On, NEW k \in 1..NNodes, NEW p \in {"node", "chunk"}, Segment(k, p),
         NEW t \in Team, In(t), pc[t] \in {"enter", "node"}, Alone(t), UNCHANGED workVars,
         In(t)', At(t, k, p)', Loc(t)' # "chunk", Loc(t)' \notin Gated \/ after'[t] # "chunk",
         p = "node" => \A j \in k..MaxLen : Finishes(k, j) => (Mapped(t, j)' <=> Mapped(t, j))
  PROVE  Segment(k, p)'
<1>1. TypeOK /\ CallerInv /\ 0 \in Threads /\ k \in 1..NNodes /\ p \in Parts
  BY Counts DEF PoolInv, Parts
<1>2. UNCHANGED <<cgraph, current_chunk, abort, request, written, wdata>>
  BY DEF workVars
<1>3. Loc(t) = pc[t] /\ Loc(t) \notin Gated /\ Loc(t) # "chunk"
  BY PcSets DEF Loc, Released
<1>4. TeamAt(k, p)'
  BY <1>1, <1>2, TeamMoves DEF Segment
<1>5. AbortAt(k, p)'
  BY <1>1, <1>2, <1>3, AbortMoves DEF Segment
<1>6. BufferAt(k, p)'
  BY <1>1, <1>2, BufferMoves DEF Segment
<1>7. \A j \in 1..k-1 : Complete(j)'
  <2>1. \A j \in 1..k-1 : Complete(j)
    BY DEF Segment, WrittenAt
  <2>. QED BY <1>2, <2>1, CompleteKept
<1>8. ASSUME p = "node" PROVE NodeData(k)'
  <2>1. NodeData(k)
    BY <1>8 DEF Segment, WrittenAt
  <2>2. \A j \in k..MaxLen : \A c : Finishes(k, j) => (Mapped(c, j)' <=> Mapped(c, j))
    BY <1>1, <1>8, OthersMapped
  <2>3. \A j : Finishes(k, j)' = Finishes(k, j)
    BY <1>2, EndsKept
  <2>. QED BY <1>2, <2>1, <2>2, <2>3 DEF NodeData
<1>9. ASSUME p = "chunk" PROVE ChunkData(k)'
  <2>1. ChunkData(k)
    BY <1>9 DEF Segment, WrittenAt
  <2>2. \A u \in Team : (Loc(u)' = "chunk" <=> Loc(u) = "chunk") /\ (Loc(u) = "chunk" => chunk'[u] = chunk[u])
    <3>1. \A u \in Team : u # t => Loc(u)' = Loc(u) /\ chunk'[u] = chunk[u]
      BY <1>1, TeamShape, AloneSame DEF Alone
    <3>. QED BY <1>3, <3>1
  <2>3. \A c : Held(c)' <=> Held(c)
    BY <2>2, AloneSame DEF Held
  <2>. QED BY <1>2, <2>1, <2>2, <2>3, AloneSame DEF ChunkData
<1>. QED BY <1>4, <1>5, <1>6, <1>7, <1>8, <1>9 DEF Segment, WrittenAt

\* A thread starts with the first node.
LEMMA EnterStep == ASSUME PoolInv, NEW t \in Threads, Enter(t) PROVE PoolInv'
<1>1. /\ TypeOK /\ pc \in [Threads -> Places] /\ node \in [Threads -> 1..MaxLen+1] /\ cgraph \in Graphs
  BY DEF PoolInv, TypeOK, Places
<1>2. /\ pc[t] = "enter" /\ pc' = [pc EXCEPT ![t] = "node"] /\ node' = [node EXCEPT ![t] = 1]
      /\ UNCHANGED <<workVars, barrierVars, sleepVars, chunk>>
  BY DEF Enter, Goto
<1>3. UNCHANGED <<cgraph, current_chunk, abort, request, written, wdata, n_barrier, n_barrier_passed, n_passed, after>>
  BY <1>2 DEF workVars, barrierVars
<1>4. pc'[t] = "node" /\ node'[t] = 1
  BY <1>1, <1>2
<1>5. Alone(t)
  BY <1>1, <1>2, <1>3 DEF Alone
<1>6. /\ Loc(t) = "enter" /\ Loc(t)' = "node" /\ pc[t] \in Working /\ pc'[t] \in Working
      /\ pc[t] \notin InBarrier /\ pc'[t] \notin InBarrier
  BY <1>2, <1>4, PcSets DEF Loc, Released, InBarrier, Passing
<1>7. TypeOK'
  <2>1. node' \in [Threads -> 1..MaxLen+1]
    BY <1>1, <1>2, GraphShape
  <2>2. pc' \in [Threads -> Places]
    BY <1>1, <1>2 DEF Places, Working
  <2>. QED BY <1>1, <1>2, <1>3, <2>1, <2>2 DEF TypeOK, Places, sleepVars
<1>8. CallerInv' /\ WorkersInv'
  BY <1>3, <1>5, <1>6, RestKept
<1>9. BarrierInv'
  BY <1>3, <1>5, <1>6, BarrierKept
<1>10. TeamInv'
  <2>1. PICK k \in 1..NNodes, p \in {"node", "chunk"} : Segment(k, p) /\ At(t, k, p)
    BY <1>6, AtWork
  <2>2. On /\ In(t) /\ t \in Team
    BY <1>6, AtWork
  <2>3. In(t)'
    BY <1>5, <1>6, <2>2, AloneSame DEF In
  <2>4. p = "node" /\ k = 1
    BY <1>6, <2>1, PcSets DEF At, AtNode, AtChunk
  <2>5. NNodes \in Nat \ {0} /\ MaxLen \in Nat
    BY <1>1, GraphShape DEF NNodes
  <2>6. At(t, k, p)'
    <3>1. Reaches(1, 1)'
      BY <1>1, <1>3, <2>4, Skipping, EndsKept
    <3>2. AtNode(t, 1)'
      BY <1>4, <1>6, <3>1, PcSets DEF AtNode
    <3>. QED BY <2>4, <3>2 DEF At
  <2>7. \A j \in k..MaxLen : ~Mapped(t, j) /\ ~Mapped(t, j)'
    BY <1>4, <1>6, <2>4, <2>5 DEF Mapped
  <2>8. Segment(k, p)'
    BY <1>2, <1>5, <1>6, <2>1, <2>2, <2>3, <2>6, <2>7, QuietMove, PcSets
  <2>. QED BY <1>5, <2>1, <2>8, AloneSame DEF TeamInv, Parts
<1>. QED BY <1>7, <1>8, <1>9, <1>10 DEF PoolInv

\* The node of an abort is where a segment starts, or none.
LEMMA AbortedAtStart ==
  ASSUME PoolInv, On, NEW k \in 1..NNodes, Segment(k, "node"), NEW t \in Team, In(t), Loc(t) = "node",
         abort = node[t]
  PROVE  abort = k \/ node[t] = NNodes + 1
<1>1. TypeOK /\ CallerInv /\ cgraph \in Graphs /\ NNodes \in Nat \ {0} /\ 0 \in Team
  BY TeamShape DEF PoolInv
<1>2. AtNode(t, k)
  BY DEF Segment, TeamAt, At
<1>3. Reaches(k, node[t]) \/ node[t] = NNodes + 1
  BY <1>2 DEF AtNode
<1>4. node[t] \in Nat \ {0}
  BY <1>1, TeamShape, GraphShape DEF TypeOK
<1>5. ASSUME In(0), Loc(0) \in Gated, after[0] = "node", node[0] = abort
      PROVE  node[t] = NNodes + 1
  <2>1. NodeEnds(k, "node", node[t])
    <3>1. AtNode(0, k)
      BY <1>1, <1>5 DEF Segment, TeamAt, At
    <3>. QED BY <1>5, <3>1 DEF AtNode
  <2>2. node[t] \in k+1..NNodes /\ Finishes(k, node[t] - 1)
    BY <2>1 DEF NodeEnds
  <2>3. Reaches(k, node[t]) => node[t] <= node[t] - 1
    BY <1>1, <2>2, OneEnd
  <2>. QED BY <1>3, <1>4, <2>3
<1>6. AbortAt(k, "node")
  BY DEF Segment
<1>. QED BY <1>4, <1>5, <1>6 DEF AbortAt

\* The head of the loop leads to the end of the segment or further into it.
LEMMA NodeHeadStep == ASSUME PoolInv, NEW t \in Threads, NodeHead(t) PROVE PoolInv'
<1>1. /\ TypeOK /\ pc \in [Threads -> Places] /\ node \in [Threads -> 1..MaxLen+1] /\ cgraph \in Graphs
      /\ after \in [Threads -> {"node", "chunk", "leave"}] /\ t \in Threads
  BY DEF PoolInv, TypeOK, Places
<1>2. /\ pc[t] = "node" /\ UNCHANGED <<workVars, n_barrier, n_barrier_passed, n_passed, sleepVars, chunk>>
      /\ UNCHANGED <<cgraph, current_chunk, abort, request, written, wdata>>
  BY DEF NodeHead, workVars
<1>3. Loc(t) = "node" /\ pc[t] \in Working /\ pc[t] \notin InBarrier
  BY <1>2, PcSets DEF Loc, Released, InBarrier, Passing
<1>4. PICK k \in 1..NNodes, p \in {"node", "chunk"} : Segment(k, p) /\ At(t, k, p)
  BY <1>3, AtWork
<1>5. On /\ In(t) /\ t \in Team
  BY <1>3, AtWork
<1>6. NNodes \in Nat \ {0} /\ NNodes <= MaxLen /\ MaxLen \in Nat /\ NNodes = Len(cgraph)
      /\ \A n \in 1..NNodes : cgraph[n] \in Kinds
  BY <1>1, GraphShape DEF NNodes
<1>7. /\ p = "node" => AtNode(t, k)
      /\ p = "chunk" => AtChunk(t, k)
  BY <1>4 DEF At
<1>8. node[t] \in k..NNodes+1 /\ (p = "chunk" => node[t] = NNodes + 1 /\ k = NNodes)
  BY <1>3, <1>6, <1>7 DEF AtNode, AtChunk, Reaches
<1>9. PICK l, m, a : /\ pc' = [pc EXCEPT ![t] = l] /\ node' = [node EXCEPT ![t] = m]
                     /\ after' = [after EXCEPT ![t] = a] /\ a \in {"node", "chunk", "leave"}
                     /\ \/ l = "barrier" /\ m = node[t] /\ a = "leave" /\ (node[t] > NNodes \/ abort = node[t])
                        \/ /\ l = "node" /\ m = node[t] + 1 /\ a = after[t] /\ abort # node[t]
                           /\ node[t] <= NNodes /\ cgraph[node[t]] = "nop"
                        \/ /\ l = "convert" /\ m = node[t] /\ a = after[t] /\ abort # node[t]
                           /\ node[t] <= NNodes /\ cgraph[node[t]] = "mul"
                        \/ /\ l = "map" /\ m = node[t] /\ a = after[t] /\ abort # node[t]
                           /\ node[t] <= NNodes /\ cgraph[node[t]] \in {"map", "fuse"}
  <2>1. CASE (node[t] > NNodes \/ abort = node[t]) /\ GoBarrier(t, "leave") /\ UNCHANGED node
    <3>1. node' = [node EXCEPT ![t] = node[t]]
      BY <1>1, <2>1
    <3>. QED BY <2>1, <3>1 DEF GoBarrier, Goto
  <2>2. CASE node[t] <= NNodes /\ ~Aborted(t) /\ Kind(t) = "nop" /\ node' = [node EXCEPT ![t] = @ + 1] /\ UNCHANGED <<pc, after>>
    <3>1. pc' = [pc EXCEPT ![t] = "node"] /\ after' = [after EXCEPT ![t] = after[t]] /\ node' = [node EXCEPT ![t] = node[t] + 1]
      BY <1>1, <1>2, <2>2
    <3>2. after[t] \in {"node", "chunk", "leave"}
      BY <1>1
    <3>. QED BY <2>2, <3>1, <3>2 DEF Aborted, Kind
  <2>3. CASE /\ node[t] <= NNodes /\ ~Aborted(t) /\ Kind(t) # "nop"
             /\ Goto(t, IF Kind(t) = "mul" THEN "convert" ELSE "map") /\ UNCHANGED <<node, after>>
    <3>1. after' = [after EXCEPT ![t] = after[t]] /\ node' = [node EXCEPT ![t] = node[t]]
      BY <1>1, <2>3
    <3>2. after[t] \in {"node", "chunk", "leave"} /\ node[t] \in 1..NNodes
      BY <1>1, <1>6, <1>8, <2>3
    <3>3. Kind(t) = cgraph[node[t]] /\ cgraph[node[t]] \in Kinds
      BY <1>6, <3>2 DEF Kind
    <3>. QED BY <2>3, <3>1, <3>2, <3>3 DEF Aborted, Goto, Kinds
  <2>. QED BY <1>6, <2>1, <2>2, <2>3 DEF NodeHead, Aborted
<1>10. pc'[t] = l /\ node'[t] = m /\ after'[t] = a
  BY <1>1, <1>9
<1>11. Alone(t)
  BY <1>1, <1>2, <1>9 DEF Alone
<1>12. /\ l \in Working /\ l \notin InBarrier /\ l # "leave" /\ l # "chunk" /\ Loc(t)' = l
  BY <1>9, <1>10, PcSets DEF Loc, Released, InBarrier, Passing, Gated
<1>13. m \in 1..MaxLen+1
  BY <1>6, <1>8, <1>9
<1>14. TypeOK'
  <2>1. node' \in [Threads -> 1..MaxLen+1] /\ after' \in [Threads -> {"node", "chunk", "leave"}]
    BY <1>1, <1>9, <1>13
  <2>2. pc' \in [Threads -> Places]
    BY <1>1, <1>9, <1>12 DEF Places
  <2>. QED BY <1>1, <1>2, <2>1, <2>2 DEF TypeOK, Places, sleepVars
<1>15. CallerInv' /\ WorkersInv'
  BY <1>2, <1>3, <1>10, <1>11, <1>12, RestKept
<1>16. BarrierInv'
  BY <1>2, <1>3, <1>10, <1>11, <1>12, BarrierKept
<1>17. TeamInv'
  <2>1. In(t)'
    BY <1>5, <1>10, <1>11, <1>12, AloneSame DEF In
  <2>2. ASSUME node[t] <= NNodes, abort # node[t]
        PROVE  p = "node" /\ abort # k /\ Reaches(k, node[t])
    BY <1>3, <1>6, <1>7, <1>8, <2>2 DEF AtNode
  <2>3. ASSUME p = "node", node[t] > NNodes \/ abort = node[t]
        PROVE  NodeEnds(k, "leave", node[t])
    <3>1. abort = k => node[t] = k
      BY <1>3, <1>7, <2>3 DEF AtNode
    <3>2. node[t] = NNodes + 1 \/ abort = k
      BY <1>3, <1>4, <1>5, <1>6, <1>8, <2>3, AbortedAtStart
    <3>3. Reaches(k, node[t]) \/ Finishes(k, NNodes)
      BY <1>3, <1>7, <2>3 DEF AtNode
    <3>. QED BY <3>1, <3>2, <3>3 DEF NodeEnds
  <2>4. At(t, k, p)'
    <3>1. CASE l = "barrier" /\ p = "node"
      <4>1. NodeEnds(k, "leave", node[t])'
        BY <1>2, <1>9, <2>3, <3>1, EndsKept
      <4>2. AtNode(t, k)'
        BY <1>9, <1>10, <1>12, <3>1, <4>1, PcSets DEF AtNode, Gated
      <4>. QED BY <3>1, <4>2 DEF At
    <3>2. CASE l = "barrier" /\ p = "chunk"
      <4>1. AtChunk(t, k)'
        BY <1>2, <1>7, <1>8, <1>9, <1>10, <1>11, <1>12, <3>2, PcSets, AloneSame DEF AtChunk, ChunkEnds, Gated
      <4>. QED BY <3>2, <4>1 DEF At
    <3>3. CASE l # "barrier"
      <4>1. p = "node" /\ abort' # k /\ Reaches(k, node[t]) /\ node[t] \in k..NNodes /\ node[t] \in 1..NNodes
            /\ abort # node[t]
        BY <1>2, <1>6, <1>8, <1>9, <2>2, <3>3
      <4>2. CASE l = "node"
        <5>1. Reaches(k, node[t] + 1)
          BY <1>1, <1>9, <4>1, <4>2, Skipping
        <5>2. Reaches(k, m)'
          BY <1>2, <1>9, <4>2, <5>1, EndsKept
        <5>3. AtNode(t, k)'
          BY <1>10, <1>12, <4>1, <4>2, <5>2, PcSets DEF AtNode
        <5>. QED BY <4>1, <5>3 DEF At
      <4>3. CASE l = "convert"
        <5>1. Product(k, node[t]) /\ m = node[t]
          BY <1>9, <4>1, <4>3 DEF Product
        <5>2. Product(k, m)'
          BY <1>2, <5>1, EndsKept
        <5>3. AtNode(t, k)'
          BY <1>10, <1>12, <4>1, <4>3, <5>2, PcSets DEF AtNode
        <5>. QED BY <4>1, <5>3 DEF At
      <4>4. CASE l = "map"
        <5>1. Reaches(k, m)' /\ m \in k..NNodes' /\ cgraph'[m] \in {"map", "fuse"}
          BY <1>2, <1>9, <4>1, <4>4, EndsKept
        <5>2. AtNode(t, k)'
          BY <1>10, <1>12, <4>1, <4>4, <5>1, PcSets DEF AtNode
        <5>. QED BY <4>1, <5>2 DEF At
      <4>. QED BY <1>9, <3>3, <4>2, <4>3, <4>4
    <3>. QED BY <3>1, <3>2, <3>3
  <2>5. ASSUME p = "node", NEW j \in k..MaxLen, Finishes(k, j) PROVE Mapped(t, j)' <=> Mapped(t, j)
    <3>1. Mapped(t, j) <=> node[t] > j
      BY <1>3, <1>5 DEF Mapped
    <3>2. l # "enter" /\ l # "done"
      BY <1>9
    <3>3. Mapped(t, j)' <=> m > j
      BY <1>5, <1>10, <1>11, <1>12, <2>1, <3>2, AloneSame DEF Mapped
    <3>4. m > j <=> node[t] > j
      <4>1. CASE m = node[t]
        BY <4>1
      <4>2. CASE m = node[t] + 1 /\ cgraph[node[t]] = "nop" /\ node[t] <= NNodes /\ abort # node[t]
        <5>1. j # node[t]
          BY <1>1, <2>2, <2>5, <4>2, OneEnd
        <5>. QED BY <1>6, <1>8, <4>2, <5>1
      <4>. QED BY <1>9, <4>1, <4>2
    <3>. QED BY <3>1, <3>3, <3>4
  <2>6. Loc(t)' \notin Gated \/ after'[t] # "chunk"
    BY <1>9, <1>10, <1>12, PcSets
  <2>7. Segment(k, p)'
    BY <1>2, <1>4, <1>5, <1>11, <1>12, <2>1, <2>4, <2>5, <2>6, QuietMove
  <2>. QED BY <1>11, <2>7, AloneSame DEF TeamInv, Parts
<1>. QED BY <1>14, <1>15, <1>16, <1>17 DEF PoolInv

\* One part of one node is written once more.
LEMMA WrittenOnce ==
  ASSUME TypeOK, NEW n \in 1..MaxLen, NEW c \in 0..MaxParts-1, Written(n, c)
  PROVE  /\ written' \in [1..MaxLen -> [0..MaxParts-1 -> Nat]]
         /\ written'[n][c] = written[n][c] + 1
         /\ \A j \in 1..MaxLen : \A d \in 0..MaxParts-1 :
              j # n \/ d # c => written'[j][d] = written[j][d]
<1>1. written \in [1..MaxLen -> [0..MaxParts-1 -> Nat]]
  BY DEF TypeOK
<1>2. written' = [written EXCEPT ![n] = [written[n] EXCEPT ![c] = written[n][c] + 1]]
  BY <1>1 DEF Written
<1>3. written[n] \in [0..MaxParts-1 -> Nat] /\ written[n][c] + 1 \in Nat
  <2>1. written[n] \in [0..MaxParts-1 -> Nat]
    BY <1>1
  <2>2. written[n][c] \in Nat
    BY <2>1
  <2>. QED BY <2>1, <2>2
<1>4. [written[n] EXCEPT ![c] = written[n][c] + 1] \in [0..MaxParts-1 -> Nat]
  BY <1>3
<1>5. written' \in [1..MaxLen -> [0..MaxParts-1 -> Nat]]
  BY <1>1, <1>2, <1>4
<1>6. /\ \A j \in 1..MaxLen : j # n => written'[j] = written[j]
      /\ written'[n] = [written[n] EXCEPT ![c] = written[n][c] + 1]
  BY <1>1, <1>2
<1>7. /\ written'[n][c] = written[n][c] + 1
      /\ \A d \in 0..MaxParts-1 : d # c => written'[n][d] = written[n][d]
  BY <1>3, <1>6
<1>. QED BY <1>5, <1>6, <1>7

\* The parts of a node that has been computed are within the bounds.
LEMMA PartsInBounds ==
  ASSUME TypeOK, CallerInv
  PROVE  /\ \A t \in Threads : t \in 0..MaxParts-1
         /\ \A j \in 1..NNodes : PartsOf(j) \subseteq 0..MaxParts-1
<1>1. request \in 1..NThreads
  BY DEF TypeOK
<1>2. \A j \in 1..NNodes : NParts(cgraph[j], request) \in 0..MaxParts
  BY <1>1, Counts
<1>3. MaxParts \in Nat /\ NThreads \in Nat /\ MaxParts >= NThreads
  BY Counts
<1>. QED BY <1>2, <1>3 DEF PartsOf, Threads

\* A thread writes its rows of the one node that ends this segment.
LEMMA MapStep == ASSUME PoolInv, NEW t \in Threads, Map(t) PROVE PoolInv'
<1>1. /\ TypeOK /\ pc \in [Threads -> Places] /\ node \in [Threads -> 1..MaxLen+1] /\ cgraph \in Graphs
      /\ t \in Threads /\ CallerInv
  BY DEF PoolInv, TypeOK, Places
<1>2. /\ pc[t] = "map" /\ pc' = [pc EXCEPT ![t] = "done"]
      /\ UNCHANGED <<cgraph, current_chunk, abort, request, wdata, barrierVars, n_barrier, n_barrier_passed, n_passed,
                     after, sleepVars, chunk>>
  BY DEF Map, Goto, barrierVars
<1>3. Loc(t) = "map" /\ pc[t] \in Working /\ pc[t] \notin InBarrier /\ Loc(t) \notin Gated
  BY <1>2, PcSets DEF Loc, Released, InBarrier, Passing
<1>4. PICK k \in 1..NNodes, p \in {"node", "chunk"} : Segment(k, p) /\ At(t, k, p)
  BY <1>3, AtWork
<1>5. On /\ In(t) /\ t \in Team
  BY <1>3, AtWork
<1>6. NNodes \in Nat \ {0} /\ NNodes <= MaxLen /\ MaxLen \in Nat /\ k \in 1..NNodes /\ k \in 1..MaxLen
  BY <1>1, GraphShape DEF NNodes
<1>7. p = "node" /\ AtNode(t, k)
  BY <1>3, <1>4, PcSets DEF At, AtChunk
<1>8. abort # k /\ node[t] \in k..NNodes /\ node[t] \in 1..NNodes /\ Reaches(k, node[t]) /\ cgraph[node[t]] \in {"map", "fuse"}
  BY <1>3, <1>6, <1>7 DEF AtNode
<1>9. PICK l : /\ Written(l, t) /\ node' = [node EXCEPT ![t] = l] /\ Finishes(k, l) /\ node[t] <= l
  <2>1. CASE cgraph[node[t]] = "fuse"
    <3>1. Kind(t) = "fuse"
      BY <2>1 DEF Kind
    <3>2. Written(node[t] + 1, t) /\ node' = [node EXCEPT ![t] = node[t] + 1]
      BY <3>1 DEF Map
    <3>3. Finishes(k, node[t] + 1) /\ node[t] <= node[t] + 1
      BY <1>1, <1>6, <1>8, <2>1, Skipping
    <3>. QED BY <3>2, <3>3
  <2>2. CASE cgraph[node[t]] = "map"
    <3>1. Kind(t) # "fuse"
      BY <2>2 DEF Kind
    <3>2. Written(node[t], t) /\ node' = [node EXCEPT ![t] = node[t]]
      BY <3>1 DEF Map
    <3>3. Finishes(k, node[t]) /\ node[t] <= node[t]
      BY <1>1, <1>6, <1>8, <2>2, Skipping
    <3>. QED BY <3>2, <3>3
  <2>. QED BY <1>8, <2>1, <2>2
<1>10. l \in k..NNodes /\ l \in 1..MaxLen /\ l \in 1..MaxLen+1
  BY <1>1, <1>6, <1>9, OneEnd
<1>11. t \in 0..MaxParts-1
  BY <1>1, PartsInBounds
<1>12. /\ written' \in [1..MaxLen -> [0..MaxParts-1 -> Nat]]
       /\ written'[l][t] = written[l][t] + 1
       /\ \A j \in 1..MaxLen : \A d \in 0..MaxParts-1 : j # l \/ d # t => written'[j][d] = written[j][d]
  BY <1>1, <1>9, <1>10, <1>11, WrittenOnce
<1>13. pc'[t] = "done" /\ node'[t] = l
  BY <1>1, <1>2, <1>9
<1>14. Alone(t)
  BY <1>1, <1>2, <1>9 DEF Alone
<1>15. Loc(t)' = "done" /\ pc'[t] \in Working /\ pc'[t] \notin InBarrier /\ In(t)'
  BY <1>5, <1>13, <1>14, AloneSame, PcSets DEF Loc, Released, InBarrier, Passing, In
<1>16. TypeOK'
  <2>1. node' \in [Threads -> 1..MaxLen+1] /\ pc' \in [Threads -> Places]
    BY <1>1, <1>2, <1>9, <1>10 DEF Places, Working
  <2>. QED BY <1>1, <1>2, <1>12, <2>1 DEF TypeOK, Places, sleepVars
<1>17. CallerInv' /\ WorkersInv'
  BY <1>3, <1>14, <1>15, RestKept, PcSets
<1>18. BarrierInv'
  BY <1>2, <1>3, <1>14, <1>15, BarrierKept
<1>19. TeamInv'
  <2>1. At(t, k, p)'
    <3>1. Finishes(k, l)'
      BY <1>2, <1>9, EndsKept
    <3>2. AtNode(t, k)'
      BY <1>2, <1>8, <1>13, <1>15, <3>1, PcSets DEF AtNode
    <3>. QED BY <1>7, <3>2 DEF At
  <2>2. TeamAt(k, p)'
    BY <1>1, <1>2, <1>4, <1>5, <1>14, <1>15, <2>1, TeamMoves DEF Segment, Parts
  <2>3. AbortAt(k, p)'
    BY <1>2, <1>3, <1>4, <1>14, AbortMoves, Counts DEF Segment, Parts
  <2>4. BufferAt(k, p)'
    BY <1>1, <1>2, <1>4, <1>5, <1>14, <1>15, BufferMoves, PcSets DEF Segment
  <2>5. \A j \in 1..k-1 : Complete(j)'
    <3> SUFFICES ASSUME NEW j \in 1..k-1 PROVE Complete(j)'
      OBVIOUS
    <3>1. Complete(j)
      BY <1>4, <1>7 DEF Segment, WrittenAt
    <3>2. j \in 1..NNodes /\ j \in 1..MaxLen /\ j # l
      BY <1>6, <1>10
    <3>3. \A c \in PartsOf(j) : written'[j][c] = written[j][c]
      BY <1>1, <1>12, <3>2, PartsInBounds
    <3>. QED BY <1>14, <3>1, <3>3, CompleteKept
  <2>6. NodeData(k)'
    <3>1. NodeData(k)
      BY <1>4, <1>7 DEF Segment, WrittenAt
    <3>2. ~Mapped(t, l) /\ Mapped(t, l)'
      BY <1>3, <1>5, <1>9, <1>10, <1>6, <1>8, <1>14, <1>15, AloneSame DEF Mapped
    <3>3. written[l][t] = 0
      BY <1>6, <1>10, <1>11, <3>1, <3>2 DEF NodeData
    <3>4. \A j : Finishes(k, j) => j = l
      BY <1>1, <1>9, OneEnd
    <3>5. \A j : Finishes(k, j)' = Finishes(k, j)
      BY <1>2, EndsKept
    <3>6. ASSUME NEW j \in k..MaxLen, NEW c \in 0..MaxParts-1
          PROVE  written'[j][c] = IF Finishes(k, j) /\ Mapped(c, j)' THEN 1 ELSE 0
      <4>1. j \in 1..MaxLen /\ written[j][c] = IF Finishes(k, j) /\ Mapped(c, j) THEN 1 ELSE 0
        BY <1>6, <3>1 DEF NodeData
      <4>2. CASE c # t
        BY <1>1, <1>5, <1>12, <1>14, <4>1, <4>2, OthersMapped
      <4>3. CASE c = t /\ j = l
        BY <1>9, <1>12, <3>2, <3>3, <4>3
      <4>4. CASE j # l
        BY <1>12, <3>4, <4>1, <4>4
      <4>. QED BY <4>2, <4>3, <4>4
    <3>. QED BY <3>5, <3>6 DEF NodeData
  <2>7. Segment(k, p)'
    BY <1>7, <2>2, <2>3, <2>4, <2>5, <2>6 DEF Segment, WrittenAt
  <2>. QED BY <1>14, <2>7, AloneSame DEF TeamInv, Parts
<1>. QED BY <1>16, <1>17, <1>18, <1>19 DEF PoolInv

\* A thread's share of the buffer is converted for the product that ends this segment.
LEMMA ConvertStep == ASSUME PoolInv, NEW t \in Threads, Convert(t) PROVE PoolInv'
<1>1. /\ TypeOK /\ pc \in [Threads -> Places] /\ node \in [Threads -> 1..MaxLen+1] /\ cgraph \in Graphs
      /\ after \in [Threads -> {"node", "chunk", "leave"}] /\ chunk \in [Threads -> Nat]
      /\ wdata \in [Threads -> (0..MaxGraphs) \X (0..MaxLen)] /\ current_chunk \in Nat
      /\ t \in Threads /\ CallerInv
  BY DEF PoolInv, TypeOK, Places
<1>2. /\ pc[t] = "convert" /\ pc' = [pc EXCEPT ![t] = "barrier"] /\ after' = [after EXCEPT ![t] = "chunk"]
      /\ wdata' = [wdata EXCEPT ![t] = <<n_graph.count, node[t]>>]
      /\ current_chunk' = (IF t = 0 THEN Active ELSE current_chunk)
      /\ chunk' = [chunk EXCEPT ![t] = t]
      /\ UNCHANGED <<cgraph, abort, request, written, n_barrier, n_barrier_passed, n_passed, sleepVars, node>>
  BY DEF Convert, GoBarrier, Goto
<1>3. Loc(t) = "convert" /\ pc[t] \in Working /\ pc[t] \notin InBarrier /\ Loc(t) \notin Gated
  BY <1>2, PcSets DEF Loc, Released, InBarrier, Passing
<1>4. PICK k \in 1..NNodes, p \in {"node", "chunk"} : Segment(k, p) /\ At(t, k, p)
  BY <1>3, AtWork
<1>5. On /\ In(t) /\ t \in Team
  BY <1>3, AtWork
<1>6. NNodes \in Nat \ {0} /\ NNodes <= MaxLen /\ MaxLen \in Nat /\ k \in 1..NNodes
  BY <1>1, GraphShape DEF NNodes
<1>7. p = "node" /\ AtNode(t, k)
  BY <1>3, <1>4, PcSets DEF At, AtChunk
<1>8. abort # k /\ Product(k, node[t]) /\ node[t] \in k..NNodes
  BY <1>3, <1>7 DEF AtNode, Product
<1>9. /\ pc'[t] = "barrier" /\ after'[t] = "chunk" /\ wdata'[t] = <<n_graph.count, node[t]>> /\ chunk'[t] = t
      /\ \A u \in Threads : u # t => wdata'[u] = wdata[u]
  BY <1>1, <1>2
<1>10. Alone(t)
  BY <1>1, <1>2 DEF Alone
<1>11. /\ Loc(t)' = "barrier" /\ Loc(t)' \in Gated /\ pc'[t] \in Working /\ pc'[t] \notin InBarrier /\ In(t)'
  BY <1>5, <1>9, <1>10, AloneSame, PcSets DEF Loc, Released, InBarrier, Passing, In, Gated
<1>12. TypeOK'
  <2>1. pc' \in [Threads -> Places] /\ after' \in [Threads -> {"node", "chunk", "leave"}]
    BY <1>1, <1>2 DEF Places, Working
  <2>2. wdata' \in [Threads -> (0..MaxGraphs) \X (0..MaxLen)]
    <3>1. n_graph.count \in 0..MaxGraphs /\ node[t] \in 0..MaxLen
      BY <1>1, <1>6, <1>8, TeamShape
    <3>. QED BY <1>1, <1>2, <3>1
  <2>3. chunk' \in [Threads -> Nat] /\ current_chunk' \in Nat
    <3>1. t \in Nat /\ Active \in Nat
      BY <1>1, TeamShape, Counts
    <3>. QED BY <1>1, <1>2, <3>1
  <2>. QED BY <1>1, <1>2, <2>1, <2>2, <2>3 DEF TypeOK, Places, sleepVars
<1>13. CallerInv' /\ WorkersInv'
  BY <1>3, <1>10, <1>11, RestKept
<1>14. BarrierInv'
  BY <1>2, <1>3, <1>10, <1>11, BarrierKept
<1>15. TeamInv'
  <2>1. At(t, k, p)'
    <3>1. NodeEnds(k, "chunk", node[t])
      BY <1>8 DEF NodeEnds
    <3>2. NodeEnds(k, "chunk", node[t])'
      BY <1>2, <3>1, EndsKept
    <3>3. AtNode(t, k)'
      BY <1>2, <1>9, <1>11, <3>2, PcSets DEF AtNode
    <3>. QED BY <1>7, <3>3 DEF At
  <2>2. TeamAt(k, p)'
    BY <1>1, <1>2, <1>4, <1>5, <1>10, <1>11, <2>1, TeamMoves DEF Segment, Parts
  <2>3. AbortAt(k, p)'
    BY <1>2, <1>3, <1>4, <1>10, AbortMoves, Counts DEF Segment, Parts
  <2>4. BufferAt(k, p)'
    <3> SUFFICES ASSUME NEW u \in Team, In(u)', Loc(u)' \in Gated, after'[u] = "chunk" PROVE Converted(u)'
      BY <1>7, <1>10, AloneSame DEF BufferAt
    <3>1. n_graph' = n_graph /\ Active' = Active /\ node'[u] = node[u]
      BY <1>2, <1>10, AloneSame
    <3>2. CASE u = t
      BY <1>2, <1>9, <3>1, <3>2 DEF Converted
    <3>3. CASE u # t
      <4>1. u \in Threads \ {t}
        BY <1>1, <3>3, TeamShape
      <4>2. In(u) /\ Loc(u) \in Gated /\ after[u] = "chunk" /\ chunk'[u] = chunk[u]
        BY <1>10, <4>1, AloneSame DEF Alone
      <4>3. Converted(u)
        BY <1>4, <1>7, <4>2 DEF Segment, BufferAt
      <4>4. u = 0 => current_chunk' = Active \/ current_chunk' = current_chunk
        BY <1>2
      <4>. QED BY <1>9, <3>1, <4>1, <4>2, <4>3, <4>4 DEF Converted
    <3>. QED BY <3>2, <3>3
  <2>5. \A j \in 1..k-1 : Complete(j)'
    BY <1>2, <1>4, <1>7, <1>10, CompleteKept DEF Segment, WrittenAt
  <2>6. NodeData(k)'
    <3>1. NodeData(k)
      BY <1>4, <1>7 DEF Segment, WrittenAt
    <3>2. \A j : Mapped(t, j)' <=> Mapped(t, j)
      BY <1>2, <1>3, <1>5, <1>10, <1>11, AloneSame DEF Mapped
    <3>3. \A c, j : Mapped(c, j)' <=> Mapped(c, j)
      BY <1>1, <1>5, <1>10, <3>2, OthersMapped
    <3>4. \A j : Finishes(k, j)' = Finishes(k, j)
      BY <1>2, EndsKept
    <3>. QED BY <1>2, <3>1, <3>3, <3>4 DEF NodeData
  <2>7. Segment(k, p)'
    BY <1>7, <2>2, <2>3, <2>4, <2>5, <2>6 DEF Segment, WrittenAt
  <2>. QED BY <1>10, <2>7, AloneSame DEF TeamInv, Parts
<1>. QED BY <1>12, <1>13, <1>14, <1>15 DEF PoolInv

\* After a node: the barrier, or the end of the graph; thread 0 may name the next node to stop at.
LEMMA DoneStep == ASSUME PoolInv, NEW t \in Threads, Done(t) PROVE PoolInv'
<1>1. /\ TypeOK /\ pc \in [Threads -> Places] /\ node \in [Threads -> 1..MaxLen+1] /\ cgraph \in Graphs
      /\ after \in [Threads -> {"node", "chunk", "leave"}] /\ t \in Threads /\ CallerInv
  BY DEF PoolInv, TypeOK, Places
<1>2. /\ pc[t] = "done" /\ node' = [node EXCEPT ![t] = node[t] + 1]
      /\ abort' = abort \/ (t = 0 /\ abort' = node[t] + 1)
      /\ UNCHANGED <<cgraph, current_chunk, request, written, wdata, n_barrier, n_barrier_passed, n_passed,
                     sleepVars, chunk>>
  BY DEF Done
<1>3. Loc(t) = "done" /\ pc[t] \in Working /\ pc[t] \notin InBarrier /\ Loc(t) \notin Gated
  BY <1>2, PcSets DEF Loc, Released, InBarrier, Passing
<1>4. PICK k \in 1..NNodes, p \in {"node", "chunk"} : Segment(k, p) /\ At(t, k, p)
  BY <1>3, AtWork
<1>5. On /\ In(t) /\ t \in Team
  BY <1>3, AtWork
<1>6. NNodes \in Nat \ {0} /\ NNodes <= MaxLen /\ MaxLen \in Nat /\ NNodes = Len(cgraph) /\ k \in 1..NNodes
  BY <1>1, GraphShape DEF NNodes
<1>7. /\ p = "node" => abort # k /\ Finishes(k, node[t])
      /\ p = "chunk" => node[t] = k
  BY <1>3, <1>4 DEF At, AtNode, AtChunk
<1>8. node[t] \in k..NNodes
  BY <1>1, <1>6, <1>7, OneEnd
<1>9. PICK l, a : /\ pc' = [pc EXCEPT ![t] = l] /\ after' = [after EXCEPT ![t] = a]
                  /\ \/ node[t] < NNodes /\ l = "barrier" /\ a = "node"
                     \/ node[t] = NNodes /\ l = "node" /\ a = after[t]
  <2>1. CASE node[t] < NNodes
    <3>1. pc' = [pc EXCEPT ![t] = "barrier"] /\ after' = [after EXCEPT ![t] = "node"]
      BY <1>6, <2>1 DEF Done, GoBarrier, Goto
    <3>. QED BY <2>1, <3>1
  <2>2. CASE node[t] = NNodes
    <3>1. after' = after /\ pc' = [pc EXCEPT ![t] = "node"]
      BY <1>6, <2>2 DEF Done, Goto
    <3>2. after' = [after EXCEPT ![t] = after[t]]
      BY <1>1, <3>1
    <3>. QED BY <2>2, <3>1, <3>2
  <2>3. node[t] < NNodes \/ node[t] = NNodes
    BY <1>6, <1>8
  <2>. QED BY <2>1, <2>2, <2>3
<1>17. PICK n \in k..NNodes : n = node[t]
  BY <1>8
<1>10. pc'[t] = l /\ node'[t] = node[t] + 1 /\ after'[t] = a /\ a \in {"node", "chunk", "leave"}
  BY <1>1, <1>2, <1>9
<1>11. Alone(t)
  BY <1>1, <1>2, <1>9 DEF Alone
<1>12. /\ Loc(t)' = l /\ l # "enter" /\ l # "done" /\ l # "chunk" /\ l # "leave" /\ l \in Working /\ l \notin InBarrier
       /\ l = "barrier" <=> l \in Gated
       /\ In(t)'
  BY <1>5, <1>9, <1>10, <1>11, AloneSame, PcSets DEF Loc, Released, InBarrier, Passing, In, Gated
<1>13. TypeOK'
  <2>1. node[t] + 1 \in 1..MaxLen+1 /\ node[t] + 1 \in 0..MaxLen+1
    BY <1>6, <1>8
  <2>2. node' \in [Threads -> 1..MaxLen+1] /\ pc' \in [Threads -> Places]
        /\ after' \in [Threads -> {"node", "chunk", "leave"}]
    BY <1>1, <1>2, <1>9, <1>10, <1>12, <2>1 DEF Places
  <2>3. abort' \in 0..MaxLen+1
    BY <1>1, <1>2, <2>1 DEF TypeOK
  <2>. QED BY <1>1, <1>2, <2>2, <2>3 DEF TypeOK, Places, sleepVars
<1>14. CallerInv' /\ WorkersInv'
  BY <1>3, <1>10, <1>11, <1>12, RestKept
<1>15. BarrierInv'
  BY <1>2, <1>3, <1>10, <1>11, <1>12, BarrierKept
<1>16. TeamInv'
  <2>1. p = "node" => abort' # k
    BY <1>2, <1>6, <1>7, <1>8
  <2>2. At(t, k, p)'
    <3>1. CASE p = "node"
      <4>1. Finishes(k, n)'
        BY <1>2, <1>7, <1>17, <3>1, EndsKept
      <4>2. CASE l = "barrier"
        <5>1. NodeEnds(k, "node", n + 1)'
          <6>1. n + 1 \in k+1..NNodes' /\ n + 1 - 1 = n
            BY <1>6, <1>8, <1>9, <1>11, <1>17, <4>2, AloneSame
          <6>. QED BY <2>1, <3>1, <4>1, <6>1 DEF NodeEnds
        <5>2. NodeEnds(k, after[t], node[t])'
          BY <1>9, <1>10, <1>17, <4>2, <5>1
        <5>3. AtNode(t, k)'
          BY <1>9, <1>12, <4>2, <5>2, PcSets DEF AtNode
        <5>. QED BY <3>1, <5>3 DEF At
      <4>3. CASE l = "node"
        <5>1. node'[t] = NNodes' + 1 /\ Finishes(k, NNodes)'
          <6>1. NNodes' = n
            BY <1>9, <1>11, <1>17, <4>3, AloneSame
          <6>. QED BY <1>10, <1>17, <4>1, <6>1
        <5>2. AtNode(t, k)'
          BY <1>12, <2>1, <3>1, <4>3, <5>1, PcSets DEF AtNode
        <5>. QED BY <3>1, <5>2 DEF At
      <4>. QED BY <1>9, <4>2, <4>3
    <3>2. CASE p = "chunk"
      <4>1. cgraph[k] = "mul" /\ cgraph' = cgraph /\ NNodes' = NNodes
        BY <1>2, <1>4, <1>11, <3>2, AloneSame DEF At, AtChunk
      <4>2. AtChunk(t, k)'
        BY <1>7, <1>9, <1>10, <1>12, <3>2, <4>1, PcSets DEF AtChunk, ChunkEnds
      <4>. QED BY <3>2, <4>2 DEF At
    <3>. QED BY <3>1, <3>2
  <2>3. TeamAt(k, p)'
    BY <1>1, <1>4, <1>5, <1>7, <1>11, <1>12, <2>1, <2>2, TeamMoves DEF Segment, Parts
  <2>4. AbortAt(k, p)'
    <3>1. CASE abort' = abort
      BY <1>3, <1>4, <1>11, <3>1, AbortMoves, Counts DEF Segment, Parts
    <3>2. CASE t = 0 /\ abort' = node[t] + 1 /\ node[t] < NNodes
      <4>1. l = "barrier" /\ a = "node"
        BY <1>6, <1>8, <1>9, <3>2
      <4>2. In(0)' /\ Loc(0)' \in Gated
        BY <1>12, <3>2, <4>1
      <4>3. after'[0] = "node" /\ node'[0] = abort'
        BY <1>10, <3>2, <4>1
      <4>. QED BY <4>2, <4>3 DEF AbortAt
    <3>3. CASE abort' = node[t] + 1 /\ node[t] = NNodes
      BY <1>11, <3>3, AloneSame DEF AbortAt
    <3>. QED BY <1>2, <1>9, <3>1, <3>2, <3>3
  <2>5. BufferAt(k, p)'
    <3>1. Loc(t)' \notin Gated \/ after'[t] # "chunk"
      BY <1>9, <1>10, <1>12
    <3>. QED BY <1>1, <1>2, <1>4, <1>5, <1>11, <3>1, BufferMoves DEF Segment
  <2>6. \A j \in 1..k-1 : Complete(j)'
    BY <1>2, <1>4, <1>11, CompleteKept DEF Segment, WrittenAt
  <2>7. ASSUME p = "node" PROVE NodeData(k)'
    <3>1. NodeData(k)
      BY <1>4, <2>7 DEF Segment, WrittenAt
    <3>2. ASSUME NEW j, Finishes(k, j) PROVE Mapped(t, j)' <=> Mapped(t, j)
      <4>1. j = node[t]
        BY <1>1, <1>7, <2>7, <3>2, OneEnd
      <4>2. Mapped(t, j)
        BY <1>3, <1>5 DEF Mapped
      <4>3. Mapped(t, j)'
        BY <1>5, <1>6, <1>8, <1>10, <1>11, <1>12, <4>1, AloneSame DEF Mapped
      <4>. QED BY <4>2, <4>3
    <3>3. \A c, j : Finishes(k, j) => (Mapped(c, j)' <=> Mapped(c, j))
      BY <1>1, <1>5, <1>11, <3>2, OthersMapped
    <3>4. \A j : Finishes(k, j)' = Finishes(k, j)
      BY <1>2, EndsKept
    <3>. QED BY <1>2, <3>1, <3>3, <3>4 DEF NodeData
  <2>8. ASSUME p = "chunk" PROVE ChunkData(k)'
    <3>1. ChunkData(k)
      BY <1>4, <2>8 DEF Segment, WrittenAt
    <3>2. \A u \in Team : (Loc(u)' = "chunk" <=> Loc(u) = "chunk") /\ (Loc(u) = "chunk" => chunk'[u] = chunk[u])
      <4>1. \A u \in Team : u # t => Loc(u)' = Loc(u) /\ chunk'[u] = chunk[u]
        BY <1>1, <1>11, TeamShape, AloneSame DEF Alone
      <4>. QED BY <1>3, <1>12, <4>1
    <3>3. \A c : Held(c)' <=> Held(c)
      BY <1>11, <3>2, AloneSame DEF Held
    <3>. QED BY <1>2, <1>11, <3>1, <3>2, <3>3, AloneSame DEF ChunkData
  <2>9. Segment(k, p)'
    BY <2>3, <2>4, <2>5, <2>6, <2>7, <2>8 DEF Segment, WrittenAt
  <2>. QED BY <1>11, <2>9, AloneSame DEF TeamInv, Parts
<1>. QED BY <1>13, <1>14, <1>15, <1>16 DEF PoolInv

\* The chunks of a product: each is held by one thread, or has been written, or is to be taken.
LEMMA MulChunkStep == ASSUME PoolInv, NEW t \in Threads, MulChunk(t) PROVE PoolInv'
<1> DEFINE n == NParts("mul", Active)
<1>1. /\ TypeOK /\ pc \in [Threads -> Places] /\ node \in [Threads -> 1..MaxLen+1] /\ cgraph \in Graphs
      /\ chunk \in [Threads -> Nat] /\ current_chunk \in Nat /\ t \in Threads /\ CallerInv
  BY DEF PoolInv, TypeOK, Places
<1>2. /\ pc[t] = "chunk"
      /\ UNCHANGED <<cgraph, abort, request, wdata, barrierVars, n_barrier, n_barrier_passed, n_passed, after,
                     sleepVars, node>>
  BY DEF MulChunk, barrierVars
<1>3. Loc(t) = "chunk" /\ pc[t] \in Working /\ pc[t] \notin InBarrier /\ Loc(t) \notin Gated
  BY <1>2, PcSets DEF Loc, Released, InBarrier, Passing
<1>4. PICK k \in 1..NNodes, p \in {"node", "chunk"} : Segment(k, p) /\ At(t, k, p)
  BY <1>3, AtWork
<1>5. On /\ In(t) /\ t \in Team
  BY <1>3, AtWork
<1>6. NNodes \in Nat \ {0} /\ NNodes <= MaxLen /\ MaxLen \in Nat /\ k \in 1..NNodes /\ k \in 1..MaxLen
  BY <1>1, GraphShape DEF NNodes
<1>7. p = "chunk" /\ cgraph[k] = "mul" /\ node[t] = k
  BY <1>3, <1>4, PcSets DEF At, AtNode, AtChunk
<1>8. ChunkData(k) /\ \A j \in 1..k-1 : Complete(j)
  BY <1>4, <1>7 DEF Segment, WrittenAt
<1>9. /\ Active \in 1..NThreads /\ request = Active /\ n \in 0..MaxParts /\ MaxParts \in Nat /\ Active \in Nat
      /\ Team \subseteq Threads
  BY <1>1, <1>5, TeamShape, Counts
<1>. HIDE DEF n
<1>10. /\ chunk[t] \in Nat /\ chunk[t] < current_chunk /\ current_chunk >= Active
       /\ \A u \in Team : u # t /\ Loc(u) = "chunk" => chunk[u] # chunk[t]
  BY <1>1, <1>3, <1>5, <1>8 DEF ChunkData
<1>11. \/ /\ chunk[t] >= n /\ pc' = [pc EXCEPT ![t] = "done"] /\ UNCHANGED <<written, current_chunk, chunk>>
       \/ /\ chunk[t] < n /\ Written(k, chunk[t]) /\ Active >= n
          /\ pc' = [pc EXCEPT ![t] = "done"] /\ UNCHANGED <<current_chunk, chunk>>
       \/ /\ chunk[t] < n /\ Written(k, chunk[t]) /\ Active < n
          /\ chunk' = [chunk EXCEPT ![t] = current_chunk] /\ current_chunk' = current_chunk + 1 /\ UNCHANGED pc
  <2>1. \/ /\ chunk[t] >= n /\ Goto(t, "done") /\ UNCHANGED <<written, current_chunk, chunk>>
        \/ /\ chunk[t] < n /\ Written(node[t], chunk[t])
           /\ IF Active >= n
                THEN Goto(t, "done") /\ UNCHANGED <<current_chunk, chunk>>
                ELSE /\ chunk' = [chunk EXCEPT ![t] = current_chunk]
                     /\ current_chunk' = current_chunk + 1
                     /\ UNCHANGED pc
    BY DEF MulChunk, n
  <2>2. Active >= n \/ Active < n
    BY <1>9
  <2>. QED BY <1>7, <1>9, <2>1, <2>2 DEF Goto
<1>12. /\ written' \in [1..MaxLen -> [0..MaxParts-1 -> Nat]]
       /\ \A j \in 1..MaxLen : \A d \in 0..MaxParts-1 : j # k \/ d # chunk[t] => written'[j][d] = written[j][d]
       /\ chunk[t] < n => /\ chunk[t] \in 0..MaxParts-1
                          /\ written'[k][chunk[t]] = written[k][chunk[t]] + 1
  <2>1. CASE chunk[t] >= n
    <3>1. n \in Nat /\ ~(chunk[t] < n)
      BY <1>9, <1>10, <2>1
    <3>2. written' = written
      BY <1>11, <3>1
    <3>. QED BY <1>1, <3>1, <3>2 DEF TypeOK
  <2>2. CASE chunk[t] < n
    <3>1. chunk[t] \in 0..MaxParts-1 /\ Written(k, chunk[t])
      BY <1>9, <1>10, <1>11, <2>2
    <3>. QED BY <1>1, <1>6, <3>1, WrittenOnce
  <2>. QED BY <1>9, <1>10, <2>1, <2>2
<1>13. /\ pc'[t] \in {"chunk", "done"} /\ \A u \in Threads \ {t} : pc'[u] = pc[u] /\ chunk'[u] = chunk[u]
       /\ pc' \in [Threads -> Places]
  BY <1>1, <1>2, <1>11 DEF Places, Working
<1>14. Alone(t)
  BY <1>2, <1>13 DEF Alone
<1>15. Loc(t)' = pc'[t] /\ pc'[t] \in Working /\ pc'[t] \notin InBarrier /\ In(t)' /\ Loc(t)' \notin Gated
  BY <1>5, <1>13, <1>14, AloneSame, PcSets DEF Loc, Released, InBarrier, Passing, In
<1>16. TypeOK'
  <2>1. chunk' \in [Threads -> Nat] /\ current_chunk' \in Nat
    BY <1>1, <1>11
  <2>. QED BY <1>1, <1>2, <1>12, <1>13, <2>1 DEF TypeOK, Places, sleepVars
<1>17. CallerInv' /\ WorkersInv'
  BY <1>3, <1>14, <1>15, RestKept, PcSets
<1>18. BarrierInv'
  BY <1>2, <1>3, <1>14, <1>15, BarrierKept
<1>19. TeamInv'
  <2>1. At(t, k, p)'
    <3>1. AtChunk(t, k)'
      BY <1>2, <1>7, <1>13, <1>15 DEF AtChunk
    <3>. QED BY <1>7, <3>1 DEF At
  <2>2. TeamAt(k, p)'
    BY <1>1, <1>2, <1>4, <1>5, <1>14, <1>15, <2>1, TeamMoves DEF Segment, Parts
  <2>3. AbortAt(k, p)'
    BY <1>2, <1>3, <1>4, <1>14, AbortMoves, Counts DEF Segment, Parts
  <2>4. BufferAt(k, p)'
    BY <1>2, <1>4, <1>7, <1>14, AloneSame DEF BufferAt, Segment
  <2>5. \A j \in 1..k-1 : Complete(j)'
    <3> SUFFICES ASSUME NEW j \in 1..k-1 PROVE Complete(j)'
      OBVIOUS
    <3>1. j \in 1..NNodes /\ j \in 1..MaxLen /\ j # k
      BY <1>6
    <3>2. \A c \in PartsOf(j) : written'[j][c] = written[j][c]
      BY <1>1, <1>12, <3>1, PartsInBounds
    <3>. QED BY <1>8, <1>14, <3>2, CompleteKept
  <2>6. ChunkData(k)'
    <3>1. /\ \A u \in Team \ {t} : Loc(u)' = Loc(u) /\ chunk'[u] = chunk[u]
          /\ Active' = Active /\ Team' = Team
      BY <1>9, <1>13, <1>14, AloneSame
    <3>2. n' = n
      BY <3>1 DEF n
    <3>3. /\ \A j \in k+1..MaxLen : \A c \in 0..MaxParts-1 : written[j][c] = 0
          /\ current_chunk >= Active
          /\ \A u \in Team : IF Loc(u) = "chunk" THEN chunk[u] < current_chunk ELSE current_chunk >= n
          /\ \A u, v \in Team : u # v /\ Loc(u) = "chunk" /\ Loc(v) = "chunk" => chunk[u] # chunk[v]
          /\ \A c \in 0..MaxParts-1 :
               written[k][c] = IF c < n /\ c < current_chunk /\ ~Held(c) THEN 1 ELSE 0
      BY <1>8 DEF ChunkData, n
    <3>4. \A u \in Team : chunk[u] \in Nat
      BY <1>1, <1>9
    <3>5. \A j \in k+1..MaxLen : \A c \in 0..MaxParts-1 : written'[j][c] = 0
      BY <1>6, <1>12, <3>3
    <3>6. current_chunk' >= Active
      BY <1>1, <1>9, <1>10, <1>11
    <3>7. CASE pc'[t] = "done" /\ UNCHANGED <<current_chunk, chunk>>
      <4>1. current_chunk >= n /\ Loc(t)' # "chunk"
        BY <1>1, <1>9, <1>10, <1>11, <1>15, <3>7, PcSets
      <4>2. \A u \in Team : IF Loc(u)' = "chunk" THEN chunk'[u] < current_chunk' ELSE current_chunk' >= n
        BY <3>1, <3>3, <3>7, <4>1
      <4>3. \A u, v \in Team : u # v /\ Loc(u)' = "chunk" /\ Loc(v)' = "chunk" => chunk'[u] # chunk'[v]
        BY <3>1, <3>3, <4>1
      <4>4. \A c : Held(c)' <=> (Held(c) /\ c # chunk[t])
        <5>1. \A c : Held(c)' <=> \E u \in Team \ {t} : Loc(u) = "chunk" /\ chunk[u] = c
          BY <3>1, <4>1 DEF Held
        <5>2. \A c : Held(c) <=> c = chunk[t] \/ \E u \in Team \ {t} : Loc(u) = "chunk" /\ chunk[u] = c
          BY <1>3, <1>5 DEF Held
        <5>. QED BY <1>10, <5>1, <5>2
      <4>5. ASSUME NEW c \in 0..MaxParts-1
            PROVE  written'[k][c] = IF c < n /\ c < current_chunk' /\ ~Held(c)' THEN 1 ELSE 0
        <5>1. CASE c # chunk[t]
          BY <1>6, <1>12, <3>3, <3>7, <4>4, <5>1
        <5>2. CASE c = chunk[t] /\ c < n
          <6>1. Held(c) /\ ~Held(c)' /\ c < current_chunk'
            BY <1>3, <1>5, <1>10, <3>7, <4>4, <5>2 DEF Held
          <6>. QED BY <1>12, <3>3, <5>2, <6>1
        <5>3. CASE c = chunk[t] /\ ~(c < n)
          <6>1. UNCHANGED written
            BY <1>11, <5>3
          <6>. QED BY <3>3, <5>3, <6>1
        <5>. QED BY <5>1, <5>2, <5>3
      <4>. QED BY <3>1, <3>2, <3>5, <3>6, <4>2, <4>3, <4>5 DEF ChunkData, n
    <3>8. CASE /\ chunk[t] < n /\ Active < n
               /\ chunk' = [chunk EXCEPT ![t] = current_chunk] /\ current_chunk' = current_chunk + 1 /\ UNCHANGED pc
      <4>1. chunk'[t] = current_chunk /\ Loc(t)' = "chunk"
        BY <1>1, <1>2, <1>15, <3>8
      <4>2. \A u \in Team : IF Loc(u)' = "chunk" THEN chunk'[u] < current_chunk' ELSE current_chunk' >= n
        BY <1>1, <1>9, <3>1, <3>3, <3>4, <3>8, <4>1
      <4>3. \A u, v \in Team : u # v /\ Loc(u)' = "chunk" /\ Loc(v)' = "chunk" => chunk'[u] # chunk'[v]
        BY <1>1, <3>1, <3>3, <3>4, <4>1
      <4>4. \A c \in 0..MaxParts-1 : Held(c)' <=> (c = current_chunk \/ (Held(c) /\ c # chunk[t]))
        <5>1. \A c : Held(c)' <=> c = current_chunk \/ \E u \in Team \ {t} : Loc(u) = "chunk" /\ chunk[u] = c
          BY <1>5, <3>1, <4>1 DEF Held
        <5>2. \A c : Held(c) <=> c = chunk[t] \/ \E u \in Team \ {t} : Loc(u) = "chunk" /\ chunk[u] = c
          BY <1>3, <1>5 DEF Held
        <5>. QED BY <1>10, <5>1, <5>2
      <4>5. ASSUME NEW c \in 0..MaxParts-1
            PROVE  written'[k][c] = IF c < n /\ c < current_chunk' /\ ~Held(c)' THEN 1 ELSE 0
        <5>1. CASE c # chunk[t] /\ c # current_chunk
          <6>1. c < current_chunk' <=> c < current_chunk
            BY <1>1, <3>8, <5>1
          <6>. QED BY <1>6, <1>12, <3>3, <4>4, <5>1, <6>1
        <5>2. CASE c = chunk[t]
          <6>1. Held(c) /\ ~Held(c)' /\ c < current_chunk' /\ c < n
            BY <1>1, <1>3, <1>5, <1>10, <3>8, <4>4, <5>2 DEF Held
          <6>. QED BY <1>12, <3>3, <5>2, <6>1
        <5>3. CASE c = current_chunk
          <6>1. Held(c)' /\ ~(c < current_chunk) /\ c # chunk[t]
            BY <1>1, <1>10, <4>4, <5>3
          <6>. QED BY <1>6, <1>12, <3>3, <6>1
        <5>. QED BY <5>1, <5>2, <5>3
      <4>. QED BY <3>1, <3>2, <3>5, <3>6, <4>2, <4>3, <4>5 DEF ChunkData, n
    <3>. QED BY <1>1, <1>11, <3>7, <3>8
  <2>7. Segment(k, p)'
    BY <1>7, <2>2, <2>3, <2>4, <2>5, <2>6 DEF Segment, WrittenAt
  <2>. QED BY <1>14, <2>7, AloneSame DEF TeamInv, Parts
<1>. QED BY <1>16, <1>17, <1>18, <1>19 DEF PoolInv

-----------------------------------------------------------------------------
(* From one segment to the next                                            *)

\* The whole team ends a segment at one node, with one place to go.
LEMMA EndsAgree ==
  ASSUME cgraph \in Graphs, NEW k \in 1..NNodes, NEW a, NEW n, NodeEnds(k, a, n),
         NEW b, NEW m, NodeEnds(k, b, m)
  PROVE  a = b /\ n = m
<1> DEFINE Chunks1(l) == abort # k /\ Product(k, l)
           Nodes1(l)  == abort # k /\ l \in k+1..NNodes /\ Finishes(k, l - 1)
           Leaves1(l) == abort # k /\ l = NNodes + 1 /\ (Reaches(k, l) \/ Finishes(k, NNodes))
           Aborts1(l) == abort = k /\ l = k
<1>1. NNodes \in Nat \ {0}
  BY GraphShape DEF NNodes
<1>2. \A l : Product(k, l) => l \in k..NNodes
  BY DEF Product
<1>3. ASSUME NEW l, NEW h
      PROVE  /\ Chunks1(l) /\ Chunks1(h) => l = h
             /\ Chunks1(l) => ~Nodes1(h)
             /\ Chunks1(l) => ~Leaves1(h)
  <2>1. Chunks1(l) /\ Chunks1(h) => l = h
    BY OneEnd
  <2>2. Chunks1(l) => ~Nodes1(h)
    BY OneEnd
  <2>3. Chunks1(l) => ~Leaves1(h)
    <3>1. ASSUME Chunks1(l), h = NNodes + 1 PROVE ~Reaches(k, h)
      <4>1. Reaches(k, h) => h <= l
        BY <3>1, OneEnd
      <4>. QED BY <1>1, <1>2, <3>1, <4>1
    <3>2. Chunks1(l) => ~Finishes(k, NNodes)
      BY OneEnd
    <3>. QED BY <3>1, <3>2
  <2>. QED BY <2>1, <2>2, <2>3
<1>4. ASSUME NEW l, NEW h
      PROVE  /\ Nodes1(l) /\ Nodes1(h) => l = h
             /\ Nodes1(l) => ~Leaves1(h)
             /\ Leaves1(l) /\ Leaves1(h) => l = h
  <2>1. Nodes1(l) /\ Nodes1(h) => l = h
    <3>1. Nodes1(l) /\ Nodes1(h) => l - 1 = h - 1 /\ l \in Int /\ h \in Int
      BY <1>1, OneEnd
    <3>. QED BY <3>1
  <2>2. Nodes1(l) => ~Leaves1(h)
    <3>1. ASSUME Nodes1(l), h = NNodes + 1 PROVE ~Reaches(k, h)
      <4>1. Reaches(k, h) => h <= l - 1
        BY <3>1, OneEnd
      <4>. QED BY <1>1, <3>1, <4>1
    <3>2. ASSUME Nodes1(l) PROVE ~Finishes(k, NNodes)
      <4>1. Finishes(k, NNodes) => NNodes = l - 1
        BY <3>2, OneEnd
      <4>. QED BY <1>1, <3>2, <4>1
    <3>. QED BY <3>1, <3>2
  <2>. QED BY <2>1, <2>2
<1>5. /\ \/ Chunks1(n) /\ a = "chunk"
         \/ Nodes1(n) /\ a = "node"
         \/ Leaves1(n) /\ a = "leave"
         \/ Aborts1(n) /\ a = "leave"
      /\ \/ Chunks1(m) /\ b = "chunk"
         \/ Nodes1(m) /\ b = "node"
         \/ Leaves1(m) /\ b = "leave"
         \/ Aborts1(m) /\ b = "leave"
  BY DEF NodeEnds
<1>6. \A l, h : Aborts1(l) => ~Chunks1(h) /\ ~Nodes1(h) /\ ~Leaves1(h) /\ (Aborts1(h) => h = l)
  OBVIOUS
<1>. HIDE DEF Chunks1, Nodes1, Leaves1, Aborts1
<1>. QED BY <1>3, <1>4, <1>5, <1>6

\* All of the team waits at the end of segment k, p.
AllAtEnd(k, p, a, n) ==
  \A t \in Team : In(t) /\ Loc(t) \in Gated /\ after[t] = a /\ node[t] = n
                  /\ (p = "node" => NodeEnds(k, a, n)) /\ (p = "chunk" => ChunkEnds(k, a, n))

\* When all of the team waits it waits for the same segment to begin.
LEMMA OneEndOfAll ==
  ASSUME TypeOK, CallerInv, On, NEW k \in 1..NNodes, NEW p \in Parts, TeamAt(k, p),
         \A t \in Team : In(t) /\ Loc(t) \in Gated
  PROVE  p # "leave" /\ AllAtEnd(k, p, after[0], node[0])
<1>1. 0 \in Team /\ cgraph \in Graphs
  BY TeamShape
<1>2. \A t \in Team : At(t, k, p)
  BY DEF TeamAt
<1>3. p # "leave"
  BY <1>1, <1>2, PcSets DEF At
<1>4. CASE p = "node"
  <2>1. \A t \in Team : NodeEnds(k, after[t], node[t])
    BY <1>2, <1>4 DEF At, AtNode
  <2>2. \A t \in Team : after[t] = after[0] /\ node[t] = node[0]
    BY <1>1, <2>1, EndsAgree
  <2>. QED BY <1>1, <1>3, <1>4, <2>1, <2>2 DEF AllAtEnd
<1>5. CASE p = "chunk"
  <2>1. \A t \in Team : ChunkEnds(k, after[t], node[t])
    BY <1>2, <1>5 DEF At, AtChunk
  <2>2. \A t \in Team : after[t] = after[0] /\ node[t] = node[0]
    BY <1>1, <2>1 DEF ChunkEnds
  <2>. QED BY <1>1, <1>3, <1>5, <2>1, <2>2 DEF AllAtEnd
<1>. QED BY <1>3, <1>4, <1>5 DEF Parts

\* At its end the nodes of the segment are complete.
LEMMA NodesAreComplete ==
  ASSUME TypeOK, CallerInv, On, NEW k \in 1..NNodes, Segment(k, "node"), NEW a, NEW n,
         AllAtEnd(k, "node", a, n)
  PROVE  \A j \in 1..n-1 : Complete(j)
<1>1. 0 \in Team /\ cgraph \in Graphs /\ NNodes \in Nat \ {0} /\ NNodes <= MaxLen /\ MaxLen \in Nat
      /\ request = Active /\ Active \in 1..NThreads
  BY TeamShape, GraphShape
<1>2. NodeEnds(k, a, n)
  BY <1>1 DEF AllAtEnd
<1>3. /\ NodeData(k)
      /\ \A j \in 1..k-1 : Complete(j)
  BY DEF Segment, WrittenAt
<1>4. /\ n \in k..NNodes+1
      /\ Reaches(k, n) \/ (n > k /\ Finishes(k, n - 1)) \/ n = k
  BY <1>1, <1>2 DEF NodeEnds, Product, Reaches
<1>5. ASSUME NEW j \in k..n-1, cgraph[j] \in {"nop", "fuse"} PROVE Complete(j)
  <2>1. PartsOf(j) = {}
    BY <1>1, <1>5, Counts DEF PartsOf
  <2>. QED BY <2>1 DEF Complete
<1>6. ASSUME n > k, Finishes(k, n - 1) PROVE Complete(n - 1)
  <2>1. n - 1 \in k..NNodes /\ cgraph[n - 1] = "map" /\ n - 1 \in k..MaxLen
    BY <1>1, <1>6, OneEnd
  <2>2. PartsOf(n - 1) = Team
    BY <1>1, <2>1, Counts DEF PartsOf, Team
  <2>3. \A c \in Team : Mapped(c, n - 1)
    <3>1. \A c \in Team : In(c) /\ Loc(c) # "enter" /\ node[c] = n
      BY PcSets DEF AllAtEnd
    <3>. QED BY <1>1, <1>4, <3>1 DEF Mapped
  <2>4. \A c \in Team : c \in 0..MaxParts-1
    BY TeamShape, PartsInBounds
  <2>. QED BY <1>3, <1>6, <2>1, <2>2, <2>3, <2>4 DEF Complete, NodeData
<1>7. ASSUME NEW j \in k..n-1 PROVE Complete(j)
  <2>1. CASE Reaches(k, n)
    BY <1>5, <2>1 DEF Reaches
  <2>2. CASE n > k /\ Finishes(k, n - 1)
    <3>1. \A i \in k..n-2 : cgraph[i] \in {"nop", "fuse"}
      <4>1. n - 1 - 1 = n - 2
        BY <1>1, <1>4
      <4>. QED BY <1>1, <2>2, <4>1, OneEnd
    <3>2. j = n - 1 \/ j \in k..n-2
      BY <1>1, <1>4
    <3>. QED BY <1>5, <1>6, <2>2, <3>1, <3>2
  <2>3. n # k
    BY <1>1, <1>4
  <2>. QED BY <1>4, <2>1, <2>2, <2>3
<1>8. \A j \in 1..n-1 : j \in 1..k-1 \/ j \in k..n-1
  BY <1>1, <1>4
<1>. QED BY <1>3, <1>7, <1>8

\* The barrier lets all of the team go on.
TeamGoes(a, n) ==
  /\ UNCHANGED <<workVars, n_graph, node, chunk, after>>
  /\ \A t \in Team : In(t)' /\ Loc(t)' = a /\ node[t] = n

\* Data that was complete stays so when the team goes on.
LEMMA GoesSame ==
  ASSUME NEW a, NEW n, TeamGoes(a, n)
  PROVE  /\ UNCHANGED <<cgraph, current_chunk, abort, request, written, wdata, n_graph, node, chunk, after>>
         /\ Team' = Team /\ Active' = Active /\ NNodes' = NNodes
         /\ \A j : Complete(j) => Complete(j)'
<1>1. UNCHANGED <<cgraph, current_chunk, abort, request, written, wdata, n_graph, node, chunk, after>>
  BY DEF TeamGoes, workVars
<1>2. Team' = Team /\ Active' = Active /\ NNodes' = NNodes
  BY <1>1 DEF Team, Active, NNodes
<1>3. \A j : Complete(j) => Complete(j)'
  BY <1>1 DEF Complete, PartsOf
<1>. QED BY <1>1, <1>2, <1>3

\* A segment of nodes begins.
LEMMA StartNode ==
  ASSUME TypeOK, CallerInv, On, NEW n \in 2..NNodes, TeamGoes("node", n), abort \in {0, NNodes + 1, n},
         \A j \in n..MaxLen : \A c \in 0..MaxParts-1 : written[j][c] = 0,
         \A j \in 1..n-1 : Complete(j)
  PROVE  Segment(n, "node")'
<1>1. NNodes \in Nat \ {0} /\ NNodes <= MaxLen /\ MaxLen \in Nat /\ n \in 1..NNodes /\ cgraph \in Graphs /\ n \in Nat
  BY TeamShape, GraphShape
<1>2. \A t \in Team : In(t)' /\ Loc(t)' = "node" /\ node'[t] = n
  BY GoesSame DEF TeamGoes
<1>3. TeamAt(n, "node")'
  <2>1. Reaches(n, n)'
    BY <1>1, Skipping, GoesSame, EndsKept
  <2>2. \A t \in Team : AtNode(t, n)'
    BY <1>2, <2>1, PcSets DEF AtNode
  <2>. QED BY <1>2, <2>2, GoesSame DEF TeamAt, At
<1>4. AbortAt(n, "node")'
  BY <1>1, GoesSame DEF AbortAt
<1>5. BufferAt(n, "node")'
  BY <1>2, PcSets, GoesSame DEF BufferAt
<1>6. NodeData(n)'
  <2>1. \A c : \A j \in n..MaxLen : ~Mapped(c, j)'
    <3>1. \A j \in n..MaxLen : ~(n > j)
      BY <1>1
    <3>. QED BY <1>2, <3>1, GoesSame DEF Mapped
  <2>. QED BY <2>1, GoesSame DEF NodeData
<1>7. \A j \in 1..n-1 : Complete(j)'
  BY GoesSame
<1>. QED BY <1>3, <1>4, <1>5, <1>6, <1>7 DEF Segment, WrittenAt

\* The chunks of a product begin: each thread holds its own one.
LEMMA StartChunk ==
  ASSUME TypeOK, CallerInv, On, NEW n \in 1..NNodes, TeamGoes("chunk", n), abort \in {0, NNodes + 1},
         cgraph[n] = "mul", \A t \in Team : Converted(t),
         \A j \in n..MaxLen : \A c \in 0..MaxParts-1 : written[j][c] = 0,
         \A j \in 1..n-1 : Complete(j)
  PROVE  Segment(n, "chunk")'
<1>1. /\ NNodes \in Nat \ {0} /\ NNodes <= MaxLen /\ MaxLen \in Nat /\ n \in 1..NNodes /\ n \in Nat
      /\ Active \in 1..NThreads /\ 0 \in Team /\ NParts("mul", Active) \in Nat
  BY TeamShape, GraphShape, Counts
<1>2. \A t \in Team : In(t)' /\ Loc(t)' = "chunk" /\ node'[t] = n
  BY GoesSame DEF TeamGoes
<1>3. TeamAt(n, "chunk")'
  <2>1. \A t \in Team : AtChunk(t, n)'
    BY <1>2, PcSets, GoesSame DEF AtChunk
  <2>. QED BY <1>2, <2>1, GoesSame DEF TeamAt, At
<1>4. AbortAt(n, "chunk")'
  BY GoesSame DEF AbortAt
<1>5. \A t \in Team : wdata[t] = <<n_graph.count, n>> /\ chunk[t] = t
  BY DEF Converted, TeamGoes
<1>6. BufferAt(n, "chunk")'
  BY <1>5, GoesSame DEF BufferAt
<1>7. current_chunk = Active
  BY <1>1 DEF Converted
<1>8. ChunkData(n)'
  <2>1. \A t \in Team : Loc(t)' = "chunk" /\ chunk'[t] = t /\ t < Active
    BY <1>1, <1>2, <1>5, GoesSame DEF Team
  <2>2. \A c \in 0..MaxParts-1 : c < Active => Held(c)'
    <3>1. \A c \in 0..MaxParts-1 : c < Active => c \in Team
      BY <1>1 DEF Team
    <3>. QED BY <2>1, <3>1, GoesSame DEF Held
  <2>3. \A j \in n+1..MaxLen : \A c \in 0..MaxParts-1 : written'[j][c] = 0
    BY <1>1, GoesSame
  <2>4. \A c \in 0..MaxParts-1 :
          written'[n][c] = IF c < NParts("mul", Active)' /\ c < current_chunk' /\ ~Held(c)' THEN 1 ELSE 0
    BY <1>1, <1>7, <2>2, GoesSame
  <2>5. current_chunk' >= Active'
    BY <1>1, <1>7, GoesSame
  <2>. QED BY <1>7, <2>1, <2>3, <2>4, <2>5, GoesSame DEF ChunkData
<1>9. \A j \in 1..n-1 : Complete(j)'
  BY GoesSame
<1>. QED BY <1>3, <1>4, <1>6, <1>8, <1>9 DEF Segment, WrittenAt

\* The way out begins.
LEMMA StartLeave ==
  ASSUME TypeOK, CallerInv, NEW k \in 1..NNodes, NEW n, TeamGoes("leave", n), abort \in 0..NNodes+1,
         \A j \in 1..LastNode : Complete(j)
  PROVE  Segment(k, "leave")'
<1>1. NNodes \in Nat \ {0}
  BY TeamShape
<1>2. TeamAt(k, "leave")'
  BY GoesSame DEF TeamAt, At, TeamGoes
<1>3. abort' = 0 \/ abort' = NNodes' + 1 \/ abort' \in 1..NNodes'
  BY <1>1, GoesSame
<1>4. AbortAt(k, "leave")'
  BY <1>3 DEF AbortAt
<1>5. BufferAt(k, "leave")'
  BY DEF BufferAt
<1>6. LastNode' = LastNode
  BY GoesSame DEF LastNode
<1>. QED BY <1>2, <1>4, <1>5, <1>6, GoesSame DEF Segment, WrittenAt

\* When all of the team is let pass the next segment begins.
LEMMA SegmentEnds ==
  ASSUME TypeOK, CallerInv, On, NEW k \in 1..NNodes, NEW p \in Parts, Segment(k, p),
         \A t \in Team : In(t) /\ Loc(t) \in Gated /\ In(t)' /\ Loc(t)' = after[t],
         UNCHANGED <<workVars, n_graph, node, chunk, after>>
  PROVE  \E h \in 1..NNodes, q \in Parts : Segment(h, q)'
<1>4. PICK a, n : a = after[0] /\ n = node[0]
  OBVIOUS
<1>1. /\ 0 \in Team /\ cgraph \in Graphs /\ NNodes \in Nat \ {0} /\ NNodes <= MaxLen /\ MaxLen \in Nat
      /\ request = Active /\ Active \in 1..NThreads /\ Team \subseteq Threads
  BY TeamShape, GraphShape
<1>2. p # "leave" /\ AllAtEnd(k, p, a, n)
  BY <1>4, OneEndOfAll DEF Segment
<1>3. TeamGoes(a, n)
  BY <1>2 DEF AllAtEnd, TeamGoes
<1>5. /\ p = "node" => NodeEnds(k, a, n)
      /\ p = "chunk" => ChunkEnds(k, a, n)
  BY <1>1, <1>2 DEF AllAtEnd
<1>6. \/ abort = 0 \/ abort = NNodes + 1
      \/ p = "node" /\ abort = k
      \/ a = "node" /\ n = abort
  BY <1>2, <1>4 DEF Segment, AbortAt
<1>7. "node" \in Parts /\ "chunk" \in Parts /\ "leave" \in Parts
  BY DEF Parts
<1>8. CASE p = "node"
  <2>1. NodeData(k) /\ \A j \in 1..n-1 : Complete(j)
    BY <1>2, <1>8, NodesAreComplete DEF Segment, WrittenAt
  <2>2. CASE abort # k /\ a = "chunk" /\ Product(k, n)
    <3>1. n \in k..NNodes /\ n \in 1..NNodes /\ cgraph[n] = "mul"
      BY <1>1, <2>2 DEF Product
    <3>2. \A j \in n..MaxLen : \A c \in 0..MaxParts-1 : written[j][c] = 0
      <4>1. \A j : ~Finishes(k, j)
        BY <1>1, <2>2, OneEnd
      <4>. QED BY <1>1, <2>1, <3>1, <4>1 DEF NodeData
    <3>3. \A t \in Team : Converted(t)
      BY <1>2, <1>8, <2>2 DEF Segment, BufferAt, AllAtEnd
    <3>4. abort \in {0, NNodes + 1}
      BY <1>6, <2>2
    <3>5. Segment(n, "chunk")'
      BY <1>3, <2>1, <2>2, <3>1, <3>2, <3>3, <3>4, StartChunk
    <3>. QED BY <1>7, <3>1, <3>5
  <2>3. CASE abort # k /\ a = "node" /\ n \in k+1..NNodes /\ Finishes(k, n - 1)
    <3>1. n \in 2..NNodes /\ n \in 1..NNodes
      BY <1>1, <2>3
    <3>2. \A j \in n..MaxLen : \A c \in 0..MaxParts-1 : written[j][c] = 0
      <4>1. \A j \in n..MaxLen : j \in k..MaxLen /\ j # n - 1
        BY <1>1, <2>3, <3>1
      <4>2. \A j \in n..MaxLen : ~Finishes(k, j)
        BY <1>1, <2>3, <4>1, OneEnd
      <4>. QED BY <2>1, <4>1, <4>2 DEF NodeData
    <3>3. abort \in {0, NNodes + 1, n}
      BY <1>6, <2>3
    <3>4. Segment(n, "node")'
      BY <1>3, <2>1, <2>3, <3>1, <3>2, <3>3, StartNode
    <3>. QED BY <1>7, <3>1, <3>4
  <2>4. CASE abort # k /\ a = "leave" /\ n = NNodes + 1
    <3>1. abort \in {0, NNodes + 1} /\ abort \in 0..NNodes+1 /\ n - 1 = NNodes
      BY <1>1, <1>6, <2>4
    <3>2. LastNode = NNodes
      BY <1>1, <3>1 DEF LastNode
    <3>3. Segment(k, "leave")'
      BY <1>3, <2>1, <2>4, <3>1, <3>2, StartLeave
    <3>. QED BY <1>7, <3>3
  <2>5. CASE abort = k /\ a = "leave" /\ n = k
    <3>1. abort \in 0..NNodes+1 /\ LastNode = n - 1
      BY <1>1, <2>5 DEF LastNode
    <3>2. Segment(k, "leave")'
      BY <1>3, <2>1, <2>5, <3>1, StartLeave
    <3>. QED BY <1>7, <3>2
  <2>. QED BY <1>5, <1>8, <2>2, <2>3, <2>4, <2>5 DEF NodeEnds
<1>9. CASE p = "chunk"
  <2>1. ChunkData(k) /\ \A j \in 1..k-1 : Complete(j)
    BY <1>9 DEF Segment, WrittenAt
  <2>2. cgraph[k] = "mul" /\ n = k + 1 /\ a = IF k < NNodes THEN "node" ELSE "leave"
    <3>1. At(0, k, p)
      BY <1>1 DEF Segment, TeamAt
    <3>. QED BY <1>5, <1>9, <3>1 DEF At, AtChunk, ChunkEnds
  <2>3. Complete(k)
    <3>1. \A t \in Team : Loc(t) # "chunk"
      BY PcSets
    <3>2. current_chunk >= NParts("mul", Active) /\ \A c : ~Held(c)
      BY <1>1, <2>1, <3>1 DEF ChunkData, Held
    <3>3. PartsOf(k) = 0..NParts("mul", Active)-1 /\ NParts("mul", Active) \in Nat /\ PartsOf(k) \subseteq 0..MaxParts-1
      BY <1>1, <2>2, Counts, PartsInBounds DEF PartsOf
    <3>4. current_chunk \in Nat
      BY DEF TypeOK
    <3>5. \A c \in PartsOf(k) : c \in 0..MaxParts-1 /\ c < NParts("mul", Active) /\ c < current_chunk
      BY <3>2, <3>3, <3>4
    <3>. QED BY <2>1, <3>2, <3>5 DEF ChunkData, Complete
  <2>4. \A j \in 1..n-1 : Complete(j)
    <3>1. \A j \in 1..n-1 : j = k \/ j \in 1..k-1
      BY <1>1, <2>2
    <3>. QED BY <2>1, <2>3, <3>1
  <2>5. CASE k < NNodes
    <3>1. n \in 2..NNodes /\ n \in 1..NNodes /\ a = "node"
      BY <1>1, <2>2, <2>5
    <3>2. \A j \in n..MaxLen : \A c \in 0..MaxParts-1 : written[j][c] = 0
      BY <2>1, <2>2 DEF ChunkData
    <3>3. abort \in {0, NNodes + 1, n}
      BY <1>6, <1>9
    <3>4. Segment(n, "node")'
      BY <1>3, <2>4, <3>1, <3>2, <3>3, StartNode
    <3>. QED BY <1>7, <3>1, <3>4
  <2>6. CASE ~(k < NNodes)
    <3>1. a = "leave" /\ n - 1 = NNodes
      BY <1>1, <2>2, <2>6
    <3>2. abort \in {0, NNodes + 1} /\ abort \in 0..NNodes+1
      BY <1>1, <1>6, <1>9, <3>1
    <3>3. LastNode = NNodes
      BY <1>1, <3>2 DEF LastNode
    <3>4. Segment(k, "leave")'
      BY <1>3, <2>4, <3>1, <3>2, <3>3, StartLeave
    <3>. QED BY <1>7, <3>4
  <2>. QED BY <2>5, <2>6
<1>. QED BY <1>2, <1>8, <1>9 DEF Parts

-----------------------------------------------------------------------------
(* The barrier                                                             *)

\* Who waits is of the team; when a thread has yet to come, the barrier is not opening.
LEMMA WaitingShape ==
  ASSUME PoolInv
  PROVE  /\ \A t \in Threads : pc[t] \in Working /\ Loc(t) # "leave" => t \in Team
         /\ \A t \in Waiting : Loc(t) = "spin" /\ pc[t] = "spin"
         /\ Waiting \subseteq Team /\ IsFiniteSet(Team) /\ Cardinality(Team) = Active
         /\ IsFiniteSet(Waiting) /\ Cardinality(Waiting) \in Nat
<1>1. TypeOK /\ CallerInv
  BY DEF PoolInv
<1>2. \A t \in Threads : pc[t] \in Working /\ Loc(t) # "leave" => t \in Team
  BY AtWork
<1>3. \A t \in Waiting : t \in Threads /\ Loc(t) = "spin" /\ pc[t] = "spin"
  BY DEF Waiting, Loc, Released
<1>4. Waiting \subseteq Team
  BY <1>2, <1>3, PcSets DEF Gated
<1>5. Active \in Nat
  BY <1>1, TeamShape
<1>6. IsFiniteSet(0..Active-1) /\ Cardinality(0..Active-1) = Active
  <2>1. 0 \in Int /\ Active - 1 \in Int
    BY <1>5
  <2>2. IsFiniteSet(0..Active-1) /\ Cardinality(0..Active-1) = IF 0 > Active - 1 THEN 0 ELSE Active - 1 - 0 + 1
    BY <2>1, FS_Interval
  <2>. QED BY <1>5, <2>2
<1>7. IsFiniteSet(Waiting)
  BY <1>4, <1>6, FS_Subset DEF Team
<1>8. Cardinality(Waiting) \in Nat
  BY <1>7, FS_CardinalityType
<1>. QED BY <1>2, <1>3, <1>4, <1>6, <1>7, <1>8 DEF Team

\* A step of t in the barrier that leaves it where it is.
LEMMA BarrierMove ==
  ASSUME PoolInv, NEW t \in Threads, Alone(t), pc[t] \in Gated, pc'[t] \in Working,
         UNCHANGED <<workVars, node, chunk, after>>,
         Loc(t)' = Loc(t) \/ (Loc(t) \in Gated /\ Loc(t)' \in Gated)
  PROVE  CallerInv' /\ WorkersInv' /\ TeamInv'
<1>1. TypeOK /\ CallerInv /\ WorkersInv
  BY DEF PoolInv
<1>2. UNCHANGED <<cgraph, current_chunk, abort, request, written, wdata>> /\ pc[t] \in Working
  BY PcSets DEF workVars
<1>3. CallerInv' /\ WorkersInv'
  BY <1>2, RestKept, PcSets
<1>4. TeamInv'
  <2> SUFFICES ASSUME On' PROVE \E k \in 1..NNodes, p \in Parts : Segment(k, p)'
    BY AloneSame DEF TeamInv
  <2>1. On
    BY <1>2, PcSets, Counts DEF On, Alone
  <2>2. PICK k \in 1..NNodes, p \in Parts : Segment(k, p)
    BY <2>1 DEF PoolInv, TeamInv
  <2>3. \A u \in Team : Stays(u) /\ after'[u] = after[u]
    <3> SUFFICES ASSUME NEW u \in Team PROVE Stays(u)
      OBVIOUS
    <3>1. u \in Threads
      BY <1>1, TeamShape
    <3>2. CASE u = t
      BY <1>2, <3>2, AloneSame DEF Stays, In
    <3>3. CASE u # t
      BY <3>1, <3>3, AloneSame
    <3>. QED BY <3>2, <3>3
  <2>4. Segment(k, p)'
    BY <1>1, <2>1, <2>2, <2>3, AloneSame, SegmentKept
  <2>. QED BY <2>4
<1>. QED BY <1>3, <1>4

\* The last to arrive finds all the others waiting.
LEMMA ArriveStep == ASSUME PoolInv, NEW t \in Threads, Arrive(t) PROVE PoolInv'
<1>1. /\ TypeOK /\ CallerInv /\ BarrierInv /\ pc \in [Threads -> Places] /\ n_barrier \in 0..NThreads
      /\ n_passed \in [Threads -> Nat] /\ n_barrier_passed \in Nat
  BY DEF PoolInv, TypeOK, Places
<1>2. /\ pc[t] = "arrive" /\ pc' = [pc EXCEPT ![t] = IF n_barrier = Active - 1 THEN "reset" ELSE "spin"]
      /\ n_barrier' = n_barrier + 1
      /\ UNCHANGED <<workVars, n_barrier_passed, n_passed, after, sleepVars, node, chunk>>
      /\ UNCHANGED <<cgraph, current_chunk, abort, request, written, wdata>>
  BY DEF Arrive, Goto, workVars
<1>3. /\ pc'[t] = IF n_barrier = Active - 1 THEN "reset" ELSE "spin"
      /\ \A u \in Threads \ {t} : pc'[u] = pc[u]
  BY <1>1, <1>2
<1>4. Alone(t)
  BY <1>2, <1>3 DEF Alone
<1>5. n_passed[t] = n_barrier_passed /\ n_passed' = n_passed /\ n_barrier_passed' = n_barrier_passed
  BY <1>1, <1>2 DEF BarrierInv
<1>6. /\ Loc(t) = "arrive" /\ Loc(t)' = pc'[t] /\ pc[t] \in Gated /\ pc'[t] \in Gated /\ pc[t] \in Working /\ pc'[t] \in Working
  BY <1>2, <1>3, <1>5, PcSets DEF Loc, Released, Gated, Passing
<1>7. CallerInv' /\ WorkersInv' /\ TeamInv'
  BY <1>2, <1>4, <1>6, BarrierMove
<1>8. t \in Team /\ t \notin Waiting /\ Waiting \subseteq Team /\ IsFiniteSet(Team) /\ Cardinality(Team) = Active
      /\ IsFiniteSet(Waiting) /\ Cardinality(Waiting) \in Nat
  BY <1>2, <1>6, WaitingShape DEF Waiting
<1>9. Active \in 1..NThreads
  BY <1>1, <1>6, AtWork, TeamShape
<1>10. \A u \in Threads : pc[u] \notin Passing
  BY <1>1, <1>2, <1>8 DEF BarrierInv, Passing
<1>11. n_barrier = Cardinality(Waiting)
  BY <1>1, <1>10 DEF BarrierInv
<1>12. /\ IsFiniteSet(Team \ {t}) /\ Cardinality(Team \ {t}) = Active - 1
       /\ Waiting \subseteq Team \ {t} /\ Cardinality(Waiting) <= Active - 1
       /\ Cardinality(Waiting) = Active - 1 => Waiting = Team \ {t}
  <2>1. IsFiniteSet(Team \ {t}) /\ Cardinality(Team \ {t}) = Active - 1
    BY <1>8, FS_RemoveElement
  <2>2. Waiting \subseteq Team \ {t}
    BY <1>8
  <2>. QED BY <2>1, <2>2, FS_Subset
<1>13. TypeOK'
  <2>1. n_barrier' \in 0..NThreads
    <3>1. n_barrier <= Active - 1 /\ n_barrier \in Nat
      BY <1>1, <1>11, <1>12
    <3>2. Active \in 1..NThreads /\ NThreads \in Nat /\ n_barrier' = n_barrier + 1
      BY <1>2, <1>9, Counts
    <3>. QED BY <3>1, <3>2
  <2>2. pc' \in [Threads -> Places]
    <3>1. pc'[t] \in Places
      BY <1>6 DEF Places
    <3>. QED BY <1>1, <1>2, <1>3, <3>1
  <2>. QED BY <1>1, <1>2, <2>1, <2>2 DEF TypeOK, Places, sleepVars
<1>14. BarrierInv'
  <2>1. CASE n_barrier = Active - 1
    <3>1. pc'[t] = "reset"
      BY <1>3, <2>1
    <3>2. Waiting' = Waiting
      BY <1>2, <1>3, <1>5, <3>1 DEF Waiting
    <3>3. \A u \in Threads : pc'[u] \in Passing => u = t
      BY <1>3, <1>10
    <3>4. Team' \ {t} \subseteq Waiting'
      BY <1>4, <1>11, <1>12, <2>1, <3>2, AloneSame
    <3>5. \A u \in Threads : pc'[u] # "pass"
      BY <1>3, <1>10, <3>1 DEF Passing
    <3>6. /\ \A u \in Threads : pc'[u] = "spin" => n_passed'[u] <= n_barrier_passed'
          /\ \A u \in Threads : pc'[u] = "arrive" => n_passed'[u] = n_barrier_passed'
      BY <1>1, <1>3, <1>5, <3>1 DEF BarrierInv
    <3>. QED BY <3>1, <3>3, <3>4, <3>5, <3>6 DEF BarrierInv, Passing
  <2>2. CASE n_barrier # Active - 1
    <3>1. pc'[t] = "spin"
      BY <1>3, <2>2
    <3>2. Waiting' = Waiting \cup {t}
      BY <1>2, <1>3, <1>5, <3>1 DEF Waiting
    <3>3. Cardinality(Waiting') = n_barrier + 1
      BY <1>8, <1>11, <3>2, FS_AddElement
    <3>4. \A u \in Threads : pc'[u] \notin Passing
      BY <1>3, <1>10, <3>1 DEF Passing
    <3>5. /\ \A u \in Threads : pc'[u] = "spin" => n_passed'[u] <= n_barrier_passed'
          /\ \A u \in Threads : pc'[u] = "arrive" => n_passed'[u] = n_barrier_passed'
      BY <1>1, <1>3, <1>5, <3>1 DEF BarrierInv
    <3>. QED BY <1>2, <3>3, <3>4, <3>5 DEF BarrierInv, Passing
  <2>. QED BY <2>1, <2>2
<1>. QED BY <1>7, <1>13, <1>14 DEF PoolInv

\* The barrier is emptied while the others wait.
LEMMA ResetStep == ASSUME PoolInv, NEW t \in Threads, Reset(t) PROVE PoolInv'
<1>1. /\ TypeOK /\ CallerInv /\ BarrierInv /\ pc \in [Threads -> Places] /\ NThreads \in Nat
  BY Counts DEF PoolInv, TypeOK, Places
<1>2. /\ pc[t] = "reset" /\ pc' = [pc EXCEPT ![t] = "pass"] /\ n_barrier' = 0
      /\ UNCHANGED <<workVars, n_barrier_passed, n_passed, after, sleepVars, node, chunk>>
      /\ UNCHANGED <<cgraph, current_chunk, abort, request, written, wdata>>
  BY DEF Reset, Goto, workVars
<1>3. pc'[t] = "pass" /\ \A u \in Threads \ {t} : pc'[u] = pc[u]
  BY <1>1, <1>2
<1>4. Alone(t)
  BY <1>2, <1>3 DEF Alone
<1>5. /\ Loc(t) \in Gated /\ Loc(t)' \in Gated /\ pc[t] \in Gated /\ pc'[t] \in Working
  BY <1>2, <1>3, PcSets DEF Loc, Released, Gated, Passing
<1>6. CallerInv' /\ WorkersInv' /\ TeamInv'
  BY <1>2, <1>4, <1>5, BarrierMove
<1>7. TypeOK'
  <2>1. n_barrier' \in 0..NThreads
    BY <1>1, <1>2
  <2>2. pc' \in [Threads -> Places]
    BY <1>1, <1>2 DEF Places, Working
  <2>. QED BY <1>1, <1>2, <2>1, <2>2 DEF TypeOK, Places, sleepVars
<1>8. BarrierInv'
  <2>1. Waiting' = Waiting
    BY <1>2, <1>3 DEF Waiting
  <2>2. \A u \in Threads : pc'[u] \in Passing <=> pc[u] \in Passing
    BY <1>2, <1>3 DEF Passing
  <2>3. /\ \A u \in Threads : pc'[u] = "spin" => n_passed'[u] <= n_barrier_passed'
        /\ \A u \in Threads : pc'[u] = "arrive" => n_passed'[u] = n_barrier_passed'
    BY <1>1, <1>2, <1>3 DEF BarrierInv
  <2>. QED BY <1>1, <1>2, <1>3, <1>4, <2>1, <2>2, <2>3, AloneSame DEF BarrierInv, Passing
<1>. QED BY <1>6, <1>7, <1>8 DEF PoolInv

\* A thread sees that it was let pass.
LEMMA SpinStep == ASSUME PoolInv, NEW t \in Threads, Spin(t) PROVE PoolInv'
<1>1. /\ TypeOK /\ CallerInv /\ BarrierInv /\ pc \in [Threads -> Places]
      /\ after \in [Threads -> {"node", "chunk", "leave"}]
  BY DEF PoolInv, TypeOK, Places
<1>2. /\ pc[t] = "spin" /\ n_barrier_passed # n_passed[t] /\ pc' = [pc EXCEPT ![t] = after[t]]
      /\ UNCHANGED <<workVars, n_barrier, n_barrier_passed, n_passed, after, sleepVars, node, chunk>>
      /\ UNCHANGED <<cgraph, current_chunk, abort, request, written, wdata>>
  BY DEF Spin, Goto, workVars, barrierVars
<1>3. /\ pc'[t] = after[t] /\ after[t] \in {"node", "chunk", "leave"}
      /\ \A u \in Threads \ {t} : pc'[u] = pc[u]
  BY <1>1, <1>2
<1>4. Alone(t)
  BY <1>2, <1>3 DEF Alone
<1>5. Loc(t) = after[t] /\ Loc(t)' = after[t] /\ pc[t] \in Gated /\ pc'[t] \in Working
  BY <1>2, <1>3, PcSets DEF Loc, Released, Gated
<1>6. CallerInv' /\ WorkersInv' /\ TeamInv'
  BY <1>2, <1>4, <1>5, BarrierMove
<1>7. TypeOK'
  <2>1. pc' \in [Threads -> Places]
    BY <1>1, <1>2, <1>3 DEF Places, Working
  <2>. QED BY <1>1, <1>2, <2>1 DEF TypeOK, Places, sleepVars
<1>8. BarrierInv'
  <2>1. Waiting' = Waiting
    BY <1>2, <1>3 DEF Waiting
  <2>2. \A u \in Threads : pc'[u] \in Passing <=> pc[u] \in Passing
    BY <1>2, <1>3 DEF Passing
  <2>3. /\ \A u \in Threads : pc'[u] = "spin" => n_passed'[u] <= n_barrier_passed'
        /\ \A u \in Threads : pc'[u] = "arrive" => n_passed'[u] = n_barrier_passed'
        /\ \A u \in Threads : pc'[u] = "pass" => pc[u] = "pass"
    BY <1>1, <1>2, <1>3 DEF BarrierInv
  <2>. QED BY <1>1, <1>2, <1>4, <2>1, <2>2, <2>3, AloneSame DEF BarrierInv
<1>. QED BY <1>6, <1>7, <1>8 DEF PoolInv

\* A thread at the barrier reads its count of passes; alone it walks through.
LEMMA BarrierReadStep == ASSUME PoolInv, NEW t \in Threads, BarrierRead(t) PROVE PoolInv'
<1>1. /\ TypeOK /\ CallerInv /\ WorkersInv /\ BarrierInv /\ pc \in [Threads -> Places]
      /\ n_passed \in [Threads -> Nat] /\ n_barrier_passed \in Nat /\ after \in [Threads -> {"node", "chunk", "leave"}]
  BY DEF PoolInv, TypeOK, Places
<1>2. /\ pc[t] = "barrier" /\ pc' = [pc EXCEPT ![t] = IF Active = 1 THEN after[t] ELSE "arrive"]
      /\ n_passed' = [n_passed EXCEPT ![t] = n_barrier_passed]
      /\ UNCHANGED <<workVars, n_barrier, n_barrier_passed, after, sleepVars, node, chunk>>
      /\ UNCHANGED <<cgraph, current_chunk, abort, request, written, wdata>>
  BY DEF BarrierRead, Goto, workVars
<1>3. /\ pc'[t] = (IF Active = 1 THEN after[t] ELSE "arrive") /\ after[t] \in {"node", "chunk", "leave"}
      /\ n_passed'[t] = n_barrier_passed
      /\ \A u \in Threads \ {t} : pc'[u] = pc[u] /\ n_passed'[u] = n_passed[u]
  BY <1>1, <1>2
<1>4. Alone(t)
  BY <1>2, <1>3 DEF Alone
<1>5. /\ Loc(t) = "barrier" /\ Loc(t)' = pc'[t] /\ pc[t] \in Gated /\ pc[t] \in Working /\ pc'[t] \in Working
      /\ Loc(t) \in Gated /\ Loc(t) # "leave" /\ pc'[t] # "spin" /\ pc'[t] \notin Passing
  BY <1>2, <1>3, PcSets DEF Loc, Released, Gated, Passing
<1>6. On /\ In(t) /\ t \in Team /\ 0 \in Team
  BY <1>5, AtWork
<1>7. TypeOK'
  <2>1. pc' \in [Threads -> Places] /\ n_passed' \in [Threads -> Nat]
    <3>1. pc'[t] \in Places
      BY <1>5 DEF Places
    <3>. QED BY <1>1, <1>2, <1>3, <3>1
  <2>. QED BY <1>1, <1>2, <2>1 DEF TypeOK, Places, sleepVars
<1>8. BarrierInv'
  <2>1. Waiting' = Waiting
    BY <1>2, <1>3, <1>5 DEF Waiting
  <2>2. \A u \in Threads : pc'[u] \in Passing <=> pc[u] \in Passing
    BY <1>2, <1>3, <1>5 DEF Passing
  <2>3. /\ \A u \in Threads : pc'[u] = "spin" => n_passed'[u] <= n_barrier_passed'
        /\ \A u \in Threads : pc'[u] = "arrive" => n_passed'[u] = n_barrier_passed'
        /\ \A u \in Threads : pc'[u] = "pass" => pc[u] = "pass"
    BY <1>1, <1>2, <1>3 DEF BarrierInv
  <2>. QED BY <1>1, <1>2, <1>4, <2>1, <2>2, <2>3, AloneSame DEF BarrierInv
<1>9. CASE Active # 1
  <2>1. Loc(t)' \in Gated
    BY <1>3, <1>5, <1>9 DEF Gated
  <2>2. CallerInv' /\ WorkersInv' /\ TeamInv'
    BY <1>2, <1>4, <1>5, <2>1, BarrierMove
  <2>. QED BY <1>7, <1>8, <2>2 DEF PoolInv
<1>10. CASE Active = 1
  <2>1. \A u \in Team : u = t
    BY <1>6, <1>10 DEF Team
  <2>2. PICK k \in 1..NNodes, p \in Parts : Segment(k, p)
    BY <1>6 DEF PoolInv, TeamInv
  <2>3. In(t)' /\ Loc(t)' = after[t]
    BY <1>3, <1>4, <1>5, <1>6, <1>10, AloneSame DEF In
  <2>4. \A u \in Team : In(u) /\ Loc(u) \in Gated /\ In(u)' /\ Loc(u)' = after[u]
    BY <1>5, <1>6, <2>1, <2>3
  <2>5. UNCHANGED <<workVars, n_graph, node, chunk, after>>
    BY <1>2 DEF sleepVars
  <2>6. \E h \in 1..NNodes, q \in Parts : Segment(h, q)'
    BY <1>1, <1>6, <2>2, <2>4, <2>5, SegmentEnds
  <2>7. TeamInv'
    BY <1>4, <2>6, AloneSame DEF TeamInv
  <2>8. CallerInv' /\ WorkersInv'
    BY <1>2, <1>4, <1>5, RestKept
  <2>. QED BY <1>7, <1>8, <2>7, <2>8 DEF PoolInv
<1>. QED BY <1>9, <1>10

\* All of the team is let pass at once.
LEMMA PassStep == ASSUME PoolInv, NEW t \in Threads, Pass(t) PROVE PoolInv'
<1>1. /\ TypeOK /\ CallerInv /\ WorkersInv /\ BarrierInv /\ pc \in [Threads -> Places]
      /\ n_passed \in [Threads -> Nat] /\ n_barrier_passed \in Nat /\ after \in [Threads -> {"node", "chunk", "leave"}]
  BY DEF PoolInv, TypeOK, Places
<1>2. /\ pc[t] = "pass" /\ pc' = [pc EXCEPT ![t] = after[t]] /\ n_barrier_passed' = n_barrier_passed + 1
      /\ UNCHANGED <<workVars, n_barrier, n_passed, after, sleepVars, node, chunk>>
      /\ UNCHANGED <<cgraph, current_chunk, abort, request, written, wdata, n_graph, last_graph>>
  BY DEF Pass, Goto, workVars, sleepVars
<1>3. /\ pc'[t] = after[t] /\ after[t] \in {"node", "chunk", "leave"} /\ \A u \in Threads \ {t} : pc'[u] = pc[u]
      /\ pc'[t] # "spin" /\ pc'[t] # "arrive" /\ pc'[t] \notin Passing /\ pc'[t] \in Working
  BY <1>1, <1>2, PcSets DEF Passing
<1>4. Team' = Team /\ Active' = Active /\ NNodes' = NNodes
  BY <1>2 DEF Team, Active, NNodes
<1>5. Loc(t) = "pass" /\ pc[t] \in Working /\ Loc(t) # "leave" /\ Loc(t) \in Gated
  BY <1>2, PcSets DEF Loc, Released, Gated, Passing
<1>6. On /\ In(t) /\ t \in Team /\ 0 \in Team /\ Team \subseteq Threads
  BY <1>1, <1>5, AtWork, TeamShape
<1>7. Team \ {t} \subseteq Waiting /\ n_barrier = 0
  BY <1>1, <1>2 DEF BarrierInv, Passing
<1>8. \A u \in Threads : pc[u] \in Working /\ Loc(u) # "leave" => u \in Team
  BY WaitingShape
<1>9. \A u \in Threads : pc[u] \notin {"arrive", "reset"} /\ (pc[u] = "pass" => u = t)
  <2> SUFFICES ASSUME NEW u \in Threads, u # t, pc[u] \in {"arrive", "reset", "pass"} PROVE FALSE
    BY <1>2
  <2>1. pc[u] \in Working /\ Loc(u) # "leave"
    BY PcSets DEF Loc, Released, Gated, Passing
  <2>2. u \in Waiting
    BY <1>7, <1>8, <2>1
  <2>. QED BY <2>2 DEF Waiting
<1>10. \A u \in Threads : n_passed[u] <= n_barrier_passed => n_passed[u] # n_barrier_passed + 1
  BY <1>1
<1>11. \A u \in Threads : pc[u] = "spin" => n_passed[u] <= n_barrier_passed /\ n_passed[u] # n_barrier_passed'
  BY <1>1, <1>2, <1>10 DEF BarrierInv
<1>12. TypeOK'
  <2>1. pc' \in [Threads -> Places]
    <3>1. pc'[t] \in Places
      BY <1>3 DEF Places
    <3>. QED BY <1>1, <1>2, <1>3, <3>1
  <2>2. n_barrier_passed' \in Nat
    BY <1>1, <1>2
  <2>. QED BY <1>1, <1>2, <2>1, <2>2 DEF TypeOK, Places, sleepVars
<1>13. BarrierInv'
  <2>1. Waiting' = {}
    BY <1>2, <1>3, <1>11 DEF Waiting
  <2>2. \A u \in Threads : pc'[u] \notin Passing /\ pc'[u] # "arrive" /\ pc'[u] # "pass"
    BY <1>3, <1>9 DEF Passing
  <2>3. \A u \in Threads : pc'[u] = "spin" => n_passed'[u] <= n_barrier_passed'
    BY <1>1, <1>2, <1>3, <1>11
  <2>4. n_barrier' = Cardinality(Waiting')
    BY <1>2, <1>7, <2>1, FS_EmptySet
  <2>. QED BY <2>2, <2>3, <2>4 DEF BarrierInv
<1>14. On'
  BY <1>2, <1>3, <1>6, Counts DEF On
<1>15. CallerInv'
  <2>1. pc'[0] = pc[0] \/ pc'[0] \in Working
    BY <1>3, Counts
  <2>. QED BY <1>1, <1>2, <1>4, <1>6, <1>14, <2>1, PcSets DEF CallerInv, Idle
<1>16. WorkersInv'
  <2> SUFFICES ASSUME NEW u \in Workers
               PROVE  /\ pc'[u] \notin Idle
                      /\ pc'[u] \in Working => Loc(u)' = "leave" \/ (In(u)' /\ u \in Team)
    BY <1>1, <1>2, <1>4, <1>14 DEF WorkersInv
  <2>1. u \in Threads
    BY Counts
  <2>2. CASE u = t
    BY <1>2, <1>3, <1>6, <2>2, PcSets DEF In
  <2>3. CASE u # t
    <3>1. pc'[u] = pc[u] /\ pc[u] \notin Idle
      BY <1>1, <1>3, <2>1, <2>3 DEF WorkersInv
    <3>2. ASSUME pc[u] \in Working, Loc(u) = "leave" PROVE Loc(u)' = "leave"
      BY <1>2, <1>11, <2>1, <3>1, <3>2 DEF Loc, Released
    <3>3. ASSUME pc[u] \in Working, Loc(u) # "leave" PROVE In(u)' /\ u \in Team
      BY <1>2, <2>1, <3>1, <3>3, AtWork DEF In
    <3>. QED BY <3>1, <3>2, <3>3
  <2>. QED BY <2>2, <2>3
<1>17. TeamInv'
  <2>1. PICK k \in 1..NNodes, p \in Parts : Segment(k, p)
    BY <1>6 DEF PoolInv, TeamInv
  <2>2. ASSUME NEW u \in Team PROVE In(u) /\ Loc(u) \in Gated /\ In(u)' /\ Loc(u)' = after[u]
    <3>1. CASE u = t
      <4>1. Loc(t)' = after[t] /\ In(t)'
        BY <1>2, <1>3, <1>6 DEF Loc, Released, In
      <4>. QED BY <1>5, <1>6, <3>1, <4>1
    <3>2. CASE u # t
      <4>1. pc[u] = "spin" /\ Loc(u) = "spin" /\ u \in Threads
        BY <1>6, <1>7, <3>2, WaitingShape
      <4>2. pc[u] \in Working /\ Loc(u) \in Gated /\ Loc(u) # "leave"
        BY <4>1, PcSets DEF Gated
      <4>3. In(u)
        BY <4>1, <4>2, AtWork
      <4>4. pc'[u] = "spin" /\ n_passed'[u] # n_barrier_passed' /\ after'[u] = after[u]
        BY <1>2, <1>3, <1>11, <3>2, <4>1
      <4>5. Loc(u)' = after[u]
        BY <4>4 DEF Loc, Released
      <4>6. In(u)'
        BY <1>2, <4>1, <4>3, <4>4 DEF In
      <4>. QED BY <4>2, <4>3, <4>5, <4>6
    <3>. QED BY <3>1, <3>2
  <2>3. \E h \in 1..NNodes, q \in Parts : Segment(h, q)'
    BY <1>1, <1>2, <1>6, <2>1, <2>2, SegmentEnds
  <2>. QED BY <1>4, <2>3 DEF TeamInv
<1>. QED BY <1>12, <1>13, <1>15, <1>16, <1>17 DEF PoolInv

-----------------------------------------------------------------------------
(* The way out                                                             *)

\* Who is on the way out of this graph, or has gone, finds all of the team there.
LEMMA AllLeave ==
  ASSUME PoolInv, NEW t \in Team, In(t), Loc(t) = "leave", On
  PROVE  \E k \in 1..NNodes : Segment(k, "leave")
<1>1. PICK k \in 1..NNodes, p \in Parts : Segment(k, p)
  BY DEF PoolInv, TeamInv
<1>2. At(t, k, p)
  BY <1>1 DEF Segment, TeamAt
<1>3. p = "leave"
  BY <1>1, <1>2, PcSets DEF At, AtNode, AtChunk, Parts
<1>. QED BY <1>1, <1>3

\* The caller returns when all of the team has been at work and is on the way out.
LEMMA LeaveStep == ASSUME PoolInv, NEW t \in Threads, Leave(t) PROVE PoolInv'
<1>1. TypeOK /\ CallerInv /\ WorkersInv /\ BarrierInv /\ pc \in [Threads -> Places]
  BY DEF PoolInv, TypeOK, Places
<1>2. /\ pc[t] = "leave" /\ pc' = [pc EXCEPT ![t] = IF t = 0 THEN "idle" ELSE "top"]
      /\ UNCHANGED <<workVars, n_barrier, n_barrier_passed, n_passed, after, barrierVars, sleepVars, node, chunk>>
      /\ UNCHANGED <<cgraph, current_chunk, abort, request, written, wdata, n_graph, last_graph>>
  BY DEF Leave, Goto, workVars, barrierVars, sleepVars
<1>3. pc'[t] = (IF t = 0 THEN "idle" ELSE "top") /\ \A u \in Threads \ {t} : pc'[u] = pc[u]
  BY <1>1, <1>2
<1>4. Alone(t)
  BY <1>2, <1>3 DEF Alone
<1>5. /\ pc[t] \notin InBarrier /\ pc'[t] \notin InBarrier /\ pc'[t] \notin Working /\ pc[t] \in Working /\ Loc(t) = "leave"
      /\ t = 0 => pc'[t] \notin Sleeping
      /\ t # 0 => pc'[t] \notin Idle
  BY <1>2, <1>3, PcSets DEF Loc, Released, InBarrier, Passing, Idle, Sleeping
<1>6. TypeOK'
  <2>1. pc' \in [Threads -> Places]
    BY <1>1, <1>2 DEF Places, Idle, Sleeping
  <2>. QED BY <1>1, <1>2, <2>1 DEF TypeOK, Places, sleepVars
<1>7. BarrierInv'
  BY <1>2, <1>4, <1>5, BarrierKept
<1>8. Team' = Team /\ NNodes' = NNodes /\ Active' = Active /\ \A u \in Workers : u \in Threads /\ u # 0
  BY <1>4, AloneSame, Counts
<1>9. CASE t # 0
  <2>1. pc'[0] = pc[0] /\ (On' <=> On)
    BY <1>3, <1>9, Counts DEF On
  <2>2. CallerInv'
    BY <1>1, <1>2, <1>8, <2>1 DEF CallerInv
  <2>3. WorkersInv'
    <3> SUFFICES ASSUME NEW u \in Workers
                 PROVE  /\ pc'[u] \notin Idle
                        /\ pc'[u] \in Working => Loc(u)' = "leave" \/ (On /\ In(u)' /\ u \in Team)
      BY <1>1, <1>2, <1>8, <2>1 DEF WorkersInv
    <3>1. CASE u = t
      BY <1>5, <1>9, <3>1
    <3>2. CASE u # t
      <4>1. u \in Threads \ {t}
        BY <1>8, <3>2
      <4>. QED BY <1>1, <1>3, <1>4, <4>1, AloneSame DEF WorkersInv
    <3>. QED BY <3>1, <3>2
  <2>4. TeamInv'
    <3> SUFFICES ASSUME On PROVE \E k \in 1..NNodes, p \in Parts : Segment(k, p)'
      BY <1>8, <2>1 DEF TeamInv
    <3>1. CASE In(t) /\ t \in Team
      <4>1. PICK k \in 1..NNodes : Segment(k, "leave")
        BY <1>5, <3>1, AllLeave
      <4>2. TeamAt(k, "leave")'
        <5> SUFFICES ASSUME NEW u \in Team
                     PROVE  IF In(u)' THEN At(u, k, "leave")' ELSE Waited(u, k, "leave")' \/ Gone(u, "leave")'
          BY <1>8 DEF TeamAt
        <5>1. CASE u = t
          BY <1>2, <1>5, <1>9, <3>1, <5>1 DEF In, Gone
        <5>2. CASE u # t
          <6>1. (In(u)' <=> In(u)) /\ Loc(u)' = Loc(u)
            BY <1>1, <1>4, <5>2, AloneSame, TeamShape
          <6>. QED BY <1>2, <4>1, <6>1 DEF Segment, TeamAt, At, Waited, Gone
        <5>. QED BY <5>1, <5>2
      <4>3. AbortAt(k, "leave")'
        <5>1. (In(0)' <=> In(0)) /\ Loc(0)' = Loc(0)
          BY <1>4, <1>9, AloneSame, Counts
        <5>. QED BY <1>2, <1>8, <4>1, <5>1 DEF Segment, AbortAt
      <4>4. BufferAt(k, "leave")'
        BY DEF BufferAt
      <4>5. WrittenAt(k, "leave")'
        <5>1. LastNode' = LastNode
          BY <1>2, <1>8 DEF LastNode
        <5>2. \A j : Complete(j) => Complete(j)'
          BY <1>2 DEF Complete, PartsOf
        <5>. QED BY <4>1, <5>1, <5>2 DEF Segment, WrittenAt
      <4>. QED BY <4>2, <4>3, <4>4, <4>5 DEF Segment, Parts
    <3>2. CASE ~(In(t) /\ t \in Team)
      <4>1. PICK k \in 1..NNodes, p \in Parts : Segment(k, p)
        BY DEF PoolInv, TeamInv
      <4>2. \A u \in Team : Stays(u) /\ after'[u] = after[u]
        <5> SUFFICES ASSUME NEW u \in Team PROVE Stays(u)
          BY <1>2
        <5>1. CASE u = t
          BY <1>2, <1>5, <3>2, <5>1 DEF Stays, In
        <5>2. CASE u # t
          BY <1>1, <1>4, <5>2, AloneSame, TeamShape
        <5>. QED BY <5>1, <5>2
      <4>3. Segment(k, p)'
        BY <1>1, <1>2, <4>1, <4>2, SegmentKept
      <4>. QED BY <4>3
    <3>. QED BY <3>1, <3>2
  <2>. QED BY <1>6, <1>7, <2>2, <2>3, <2>4 DEF PoolInv
<1>10. CASE t = 0
  <2>1. On /\ ~On' /\ In(0) /\ 0 \in Team
    BY <1>1, <1>3, <1>5, <1>10, TeamShape DEF On, In
  <2>2. PICK k \in 1..NNodes : Segment(k, "leave")
    BY <1>5, <1>10, <2>1, AllLeave
  <2>3. \A u \in Team : u # 0 => last_graph[u] = n_graph
    BY <2>2 DEF Segment, TeamAt, Waited, Gone, In
  <2>4. \A u \in Workers : pc[u] \in Working => Loc(u) = "leave"
    BY <1>1, <2>2 DEF WorkersInv, Segment, TeamAt, At
  <2>5. CallerInv'
    BY <1>1, <1>2, <1>3, <1>5, <1>8, <1>10, <2>1, <2>3 DEF CallerInv
  <2>6. WorkersInv'
    <3>1. \A u \in Workers : u \in Threads \ {t} /\ pc'[u] = pc[u] /\ Loc(u)' = Loc(u)
      BY <1>3, <1>4, <1>8, <1>10, AloneSame
    <3>. QED BY <1>1, <1>2, <2>4, <3>1 DEF WorkersInv
  <2>. QED BY <1>6, <1>7, <2>1, <2>5, <2>6 DEF PoolInv, TeamInv
<1>. QED BY <1>9, <1>10

-----------------------------------------------------------------------------
(* The invariant                                                           *)

\* A new pool
LEMMA PoolInit == Init => PoolInv
<1> SUFFICES ASSUME Init PROVE PoolInv
  OBVIOUS
<1>1. /\ mutex = Free /\ cgraph \in Graphs /\ request = 1 /\ n_graph = [count |-> 0, threads |-> 0]
      /\ n_barrier = 0 /\ n_barrier_passed = 0 /\ current_chunk = 0
      /\ stop = FALSE /\ pause \in BOOLEAN /\ abort = 0
      /\ pc = [t \in Threads |-> IF t = 0 THEN "idle" ELSE "top"]
      /\ last_graph = [t \in Threads |-> [count |-> 0, threads |-> 0]]
      /\ node = [t \in Threads |-> 1] /\ chunk = [t \in Threads |-> 0]
      /\ n_passed = [t \in Threads |-> 0] /\ after = [t \in Threads |-> "leave"]
      /\ written = Unwritten /\ wdata = [t \in Threads |-> <<0, 0>>]
  BY DEF Init
<1>2. MaxLen \in Nat /\ NThreads \in Nat \ {0} /\ MaxGraphs \in Nat
  BY <1>1, GraphShape, Counts
<1>3. pc[0] = "idle" /\ \A t \in Workers : pc[t] = "top" /\ t \in Threads
  BY <1>1, Counts
<1>4. "idle" \in Idle /\ "top" \in Sleeping
  BY DEF Idle, Sleeping
<1>5. TypeOK
  <2>1. pc \in [Threads -> Idle \cup Sleeping \cup Working \cup {"ended"}]
    BY <1>1, <1>4
  <2>2. n_graph \in [count : 0..MaxGraphs, threads : 0..NThreads]
    BY <1>1, <1>2
  <2>3. last_graph \in [Threads -> [count : 0..MaxGraphs, threads : 0..NThreads]]
    BY <1>1, <1>2
  <2>4. written \in [1..MaxLen -> [0..MaxParts-1 -> Nat]]
    BY <1>1 DEF Unwritten
  <2>5. node \in [Threads -> 1..MaxLen+1] /\ abort \in 0..MaxLen+1 /\ wdata \in [Threads -> (0..MaxGraphs) \X (0..MaxLen)]
    BY <1>1, <1>2
  <2>6. mutex \in Threads \cup {Free} /\ n_barrier \in 0..NThreads /\ request \in 1..NThreads
    BY <1>1, <1>2
  <2>7. stop \in BOOLEAN /\ pause \in BOOLEAN
    BY <1>1
  <2>. QED BY <1>1, <2>1, <2>2, <2>3, <2>4, <2>5, <2>6, <2>7 DEF TypeOK
<1>6. ~On /\ Team = {}
  BY <1>1, <1>3, <1>4, PcSets DEF On, Team, Active, Idle
<1>7. CallerInv
  BY <1>3, <1>4, <1>6, PcSets DEF CallerInv, Idle
<1>8. WorkersInv
  <2>1. \A t \in Workers : last_graph[t] = n_graph /\ n_graph.count = 0
    BY <1>1, <1>3
  <2>. QED BY <1>3, <1>4, <2>1, PcSets DEF WorkersInv
<1>9. BarrierInv
  <2>1. \A t \in Threads : pc[t] \in {"idle", "top"}
    BY <1>1
  <2>2. Waiting = {}
    BY <2>1 DEF Waiting
  <2>. QED BY <1>1, <2>1, <2>2, FS_EmptySet DEF BarrierInv, Passing
<1>. QED BY <1>5, <1>6, <1>7, <1>8, <1>9 DEF PoolInv, TeamInv

\* Nothing happens to a freed pool.
LEMMA StutterKeeps == ASSUME PoolInv, UNCHANGED vars PROVE PoolInv'
<1>1. TypeOK /\ pc \in [Threads -> Places]
  BY DEF PoolInv, TypeOK, Places
<1>2. UNCHANGED <<workVars, barrierVars, sleepVars, mutex, n_graph, stop, pause, last_graph, pc, node, chunk>>
  BY DEF vars, sleepVars
<1>3. Outside
  <2>1. pc[0] \notin Sleeping /\ \A t \in Workers : pc[t] \notin Idle
    BY DEF PoolInv, CallerInv, WorkersInv
  <2>. QED BY <1>2, <2>1 DEF Outside
<1>4. TypeOK'
  BY <1>1, <1>2, OutsideTypes DEF TypeOK
<1>. QED BY <1>3, <1>4, OutsideKeeps DEF PoolInv

\* Every step keeps the invariant.
LEMMA PoolStep == PoolInv /\ [Next]_vars => PoolInv'
<1> SUFFICES ASSUME PoolInv, [Next]_vars PROVE PoolInv'
  OBVIOUS
<1>1. CASE \E g \in Graphs, n \in Requests : Compute(g, n)
  BY <1>1, ComputeStep
<1>2. CASE Pause \/ Resume \/ FreeStop \/ Caller
  BY <1>2, CallerSteps, KickStep, SignalStep DEF Caller
<1>3. CASE \E t \in Workers : Parked(t) \/ Spurious(t)
  BY <1>3, ParkedSteps
<1>4. CASE \E t \in Threads : Works(t)
  <2>1. PICK t \in Threads : Works(t)
    BY <1>4
  <2>. QED BY <2>1, EnterStep, NodeHeadStep, MapStep, ConvertStep, MulChunkStep, DoneStep, LeaveStep,
              BarrierReadStep, ArriveStep, ResetStep, PassStep, SpinStep DEF Works
<1>5. CASE Ended \/ UNCHANGED vars
  BY <1>5, StutterKeeps DEF Ended
<1>. QED BY <1>1, <1>2, <1>3, <1>4, <1>5 DEF Next

\* The invariant holds.
THEOREM PoolIsInvariant == Spec => []PoolInv
<1>. QED BY PoolInit, PoolStep, PTL DEF Spec

\* Every variable has its type: a chunk that is taken, a node that is named to stop at and the counts of the
\* barrier stay in their bounds.
THEOREM TypesHold == Spec => []TypeOK
<1>1. PoolInv => TypeOK
  BY DEF PoolInv
<1>. QED BY <1>1, PoolIsInvariant, PTL

\* A thread that computes a chunk finds each share of the work buffer converted for this product of this graph.
THEOREM BufferHolds == Spec => []BufferIsOurs
<1>1. PoolInv => BufferIsOurs
  <2> SUFFICES ASSUME PoolInv, NEW t \in Threads, pc[t] = "chunk", NEW i \in 0..Active-1
               PROVE  wdata[i] = <<n_graph.count, node[t]>>
    BY DEF BufferIsOurs
  <2>1. Loc(t) = "chunk" /\ pc[t] \in Working /\ Loc(t) # "leave"
    BY PcSets DEF Loc, Released
  <2>2. PICK k \in 1..NNodes, p \in {"node", "chunk"} : Segment(k, p) /\ At(t, k, p)
    BY <2>1, AtWork
  <2>3. p = "chunk" /\ node[t] = k
    BY <2>1, <2>2, PcSets DEF At, AtNode, AtChunk
  <2>. QED BY <2>2, <2>3 DEF Segment, BufferAt, Team
<1>. QED BY <1>1, PoolIsInvariant, PTL

-----------------------------------------------------------------------------
(* The pool computes graphs as GraphRun promises                           *)

\* The caller between two graphs, and what GraphRun sees.
Resting == {"idle", "free", "join", "ended"}
Running == pc[0] \notin Resting
Last    == IF n_graph.count = 0 /\ pc[0] \in Resting THEN 0 ELSE LastNode

\* The variables of GraphRun.
LEMMA RunView ==
  /\ Run!vars = <<Running, cgraph, request, written, Last>>
  /\ \A k : Run!PartsOf(k) = PartsOf(k)
  /\ \A k : Run!Complete(k) <=> Complete(k)
<1>1. Run!vars = <<Running, cgraph, request, written, Last>>
  BY DEF Run!vars, Running, Last, Resting, LastNode, NNodes
<1>2. \A k : Run!PartsOf(k) = PartsOf(k)
  BY DEF Run!PartsOf, PartsOf
<1>3. \A k : Run!Complete(k) <=> Complete(k)
  BY <1>2 DEF Run!Complete, Complete
<1>. QED BY <1>1, <1>2, <1>3

\* Nothing that GraphRun sees changes.
LEMMA RunSame ==
  ASSUME UNCHANGED <<cgraph, request, written>>, Running' <=> Running, Last' = Last
  PROVE  UNCHANGED Run!vars
<1>1. Running' = Running
  BY DEF Running
<1>2. UNCHANGED <<Running, cgraph, request, written, Last>>
  BY <1>1
<1>. QED BY <1>2 DEF Run!vars, Running, Last, Resting, LastNode, NNodes

\* A graph under way is one that runs.
LEMMA OnRuns == ASSUME On PROVE Running /\ Last = LastNode
<1>1. pc[0] \notin Resting
  BY PcSets DEF On, Resting, Idle
<1>. QED BY <1>1 DEF Running, Last

\* A step that neither writes nor starts nor ends a graph.
LEMMA RunQuiet ==
  ASSUME UNCHANGED <<cgraph, request, written, abort, n_graph>>, pc'[0] \in Resting <=> pc[0] \in Resting
  PROVE  UNCHANGED Run!vars
<1>1. Running' <=> Running
  BY DEF Running
<1>2. Last' = Last
  BY DEF Last, LastNode, NNodes
<1>. QED BY <1>1, <1>2, RunSame

\* One part of one node is written as GraphRun allows.
LEMMA RunWrites ==
  ASSUME TypeOK, CallerInv, On, NEW n \in 1..NNodes, NEW c \in PartsOf(n), Written(n, c), written[n][c] = 0,
         n <= LastNode, \A j \in 1..n-1 : Complete(j),
         UNCHANGED <<cgraph, request, abort, n_graph>>, pc'[0] \notin Resting
  PROVE  Run!Next
<1>1. cgraph \in Graphs /\ NNodes <= MaxLen /\ MaxLen \in Nat /\ NNodes \in Nat /\ n \in 1..MaxLen
  BY TeamShape, GraphShape
<1>2. n \in DOMAIN cgraph
  BY <1>1, GraphShape DEF NNodes
<1>3. written' = [written EXCEPT ![n][c] = 1]
  <2>1. written' = [written EXCEPT ![n][c] = written[n][c] + 1]
    BY DEF Written
  <2>. QED BY <2>1
<1>4. Running /\ Last = LastNode
  BY OnRuns
<1>5. (Running' <=> Running) /\ Last' = Last
  BY <1>4 DEF Running, Last, LastNode, NNodes
<1>6. Run!Write(n, c)
  <2>1. Running' = Running
    BY <1>5 DEF Running
  <2>2. Running /\ n <= Last /\ c \in Run!PartsOf(n) /\ \A j \in 1..n-1 : Run!Complete(j)
    BY <1>4, RunView
  <2>3. UNCHANGED <<Running, cgraph, request, Last>>
    BY <1>5, <2>1
  <2>. QED BY <1>3, <2>2, <2>3 DEF Run!Write, Running, Last, Resting, LastNode, NNodes
<1>7. c \in Run!PartsOf(n)
  BY RunView
<1>. QED BY <1>2, <1>6, <1>7 DEF Run!Next

\* A compute begins.
LEMMA RunCompute ==
  ASSUME PoolInv, NEW g \in Graphs, NEW n \in Requests, Compute(g, n)
  PROVE  Run!Next
<1>1. TypeOK /\ pc \in [Threads -> Places] /\ 0 \in Threads
  BY Counts DEF PoolInv, TypeOK, Places
<1>2. /\ pc[0] = "idle" /\ pc' = [pc EXCEPT ![0] = "kick"] /\ cgraph' = g /\ abort' = 0 /\ written' = Unwritten
      /\ request' = IF n > NThreads THEN NThreads ELSE n
  BY DEF Compute, Goto
<1>3. pc'[0] = "kick"
  BY <1>1, <1>2
<1>4. request' \in 1..NThreads
  BY <1>2, Counts, ThreadPoolAssumption
<1>5. ~Running /\ Running' /\ Last' = Len(cgraph')
  BY <1>2, <1>3 DEF Running, Resting, Last, LastNode, NNodes
<1>6. \A k \in DOMAIN written' : \A c \in DOMAIN written'[k] : written'[k][c] = 0
  BY <1>2 DEF Unwritten
<1>7. Run!Begin
  BY <1>2, <1>4, <1>5, <1>6 DEF Run!Begin, Running, Resting, Last, LastNode, NNodes
<1>. QED BY <1>7 DEF Run!Next

\* In the nodes of a segment
LEMMA RunMap == ASSUME PoolInv, NEW t \in Threads, Map(t) PROVE Run!Next
<1>1. TypeOK /\ CallerInv /\ pc \in [Threads -> Places] /\ cgraph \in Graphs
  BY DEF PoolInv, TypeOK, Places
<1>2. /\ pc[t] = "map" /\ pc' = [pc EXCEPT ![t] = "done"]
      /\ UNCHANGED <<cgraph, abort, request, n_graph>>
  BY DEF Map, Goto, sleepVars
<1>3. Loc(t) = "map" /\ pc[t] \in Working
  BY <1>2, PcSets DEF Loc, Released
<1>4. PICK k \in 1..NNodes, p \in {"node", "chunk"} : Segment(k, p) /\ At(t, k, p)
  BY <1>3, AtWork
<1>5. On /\ In(t) /\ t \in Team /\ 0 \in Team
  BY <1>3, AtWork
<1>6. NNodes \in Nat \ {0} /\ NNodes <= MaxLen /\ MaxLen \in Nat /\ request = Active /\ Active \in 1..NThreads
  BY <1>1, <1>5, TeamShape, GraphShape
<1>7. p = "node" /\ AtNode(t, k)
  BY <1>3, <1>4, PcSets DEF At, AtChunk
<1>8. abort # k /\ node[t] \in 1..NNodes /\ node[t] \in k..NNodes /\ Reaches(k, node[t])
      /\ cgraph[node[t]] \in {"map", "fuse"}
  BY <1>3, <1>6, <1>7 DEF AtNode
<1>9. PICK l : Written(l, t) /\ Finishes(k, l) /\ node[t] <= l
  <2>1. CASE cgraph[node[t]] = "fuse"
    <3>1. Written(node[t] + 1, t)
      BY <2>1 DEF Map, Kind
    <3>2. Finishes(k, node[t] + 1) /\ node[t] <= node[t] + 1
      BY <1>1, <1>6, <1>8, <2>1, Skipping
    <3>. QED BY <3>1, <3>2
  <2>2. CASE cgraph[node[t]] = "map"
    <3>1. Written(node[t], t)
      BY <2>2 DEF Map, Kind
    <3>2. Finishes(k, node[t]) /\ node[t] <= node[t]
      BY <1>1, <1>6, <1>8, <2>2, Skipping
    <3>. QED BY <3>1, <3>2
  <2>. QED BY <1>8, <2>1, <2>2
<1>10. /\ l \in k..NNodes /\ l \in 1..NNodes /\ l \in k..MaxLen /\ cgraph[l] = "map"
       /\ \A j \in k..l-1 : cgraph[j] \in {"nop", "fuse"}
  BY <1>1, <1>6, <1>9, OneEnd
<1>11. t \in PartsOf(l) /\ t \in 0..MaxParts-1
  <2>1. PartsOf(l) = Team
    BY <1>6, <1>10, Counts DEF PartsOf, Team
  <2>. QED BY <1>1, <1>5, <2>1, PartsInBounds
<1>12. NodeData(k) /\ \A j \in 1..k-1 : Complete(j)
  BY <1>4, <1>7 DEF Segment, WrittenAt
<1>13. written[l][t] = 0
  <2>1. ~(node[t] > l)
    BY <1>8, <1>9, <1>10
  <2>2. ~Mapped(t, l)
    BY <1>3, <2>1 DEF Mapped
  <2>. QED BY <1>10, <1>11, <1>12, <2>2 DEF NodeData
<1>14. \A j \in 1..l-1 : Complete(j)
  <2>1. ASSUME NEW j \in k..l-1 PROVE Complete(j)
    <3>1. PartsOf(j) = {}
      BY <1>6, <1>10, Counts DEF PartsOf
    <3>. QED BY <3>1 DEF Complete
  <2>2. \A j \in 1..l-1 : j \in 1..k-1 \/ j \in k..l-1
    BY <1>6, <1>10
  <2>. QED BY <1>12, <2>1, <2>2
<1>15. l <= LastNode
  <2>1. CASE abort = 0 \/ abort = NNodes + 1
    BY <1>6, <1>10, <2>1 DEF LastNode
  <2>2. CASE In(0) /\ Loc(0) \in Gated /\ after[0] = "node" /\ node[0] = abort
    <3>1. AtNode(0, k)
      BY <1>4, <1>5, <1>7, <2>2 DEF Segment, TeamAt, At
    <3>2. abort \in k+1..NNodes /\ Finishes(k, abort - 1)
      BY <2>2, <3>1 DEF AtNode, NodeEnds
    <3>3. l = abort - 1
      BY <1>1, <1>9, <3>2, OneEnd
    <3>. QED BY <1>6, <1>10, <3>2, <3>3 DEF LastNode
  <2>3. AbortAt(k, "node")
    BY <1>4, <1>7 DEF Segment
  <2>. QED BY <1>8, <2>1, <2>2, <2>3 DEF AbortAt
<1>16. pc'[0] \notin Resting
  BY <1>1, <1>2, <1>5, OnRuns, Counts DEF Running, Resting
<1>. QED BY <1>1, <1>2, <1>5, <1>9, <1>10, <1>11, <1>13, <1>14, <1>15, <1>16, RunWrites

\* A chunk is written, or was none.
LEMMA RunMulChunk ==
  ASSUME PoolInv, NEW t \in Threads, MulChunk(t)
  PROVE  Run!Next \/ UNCHANGED Run!vars
<1>1. TypeOK /\ CallerInv /\ pc \in [Threads -> Places] /\ cgraph \in Graphs /\ chunk \in [Threads -> Nat]
      /\ current_chunk \in Nat
  BY DEF PoolInv, TypeOK, Places
<1>2. /\ pc[t] = "chunk" /\ (pc' = pc \/ pc' = [pc EXCEPT ![t] = "done"])
      /\ UNCHANGED <<cgraph, abort, request, n_graph>>
  BY DEF MulChunk, Goto, sleepVars
<1>3. Loc(t) = "chunk" /\ pc[t] \in Working
  BY <1>2, PcSets DEF Loc, Released
<1>4. PICK k \in 1..NNodes, p \in {"node", "chunk"} : Segment(k, p) /\ At(t, k, p)
  BY <1>3, AtWork
<1>5. On /\ In(t) /\ t \in Team /\ 0 \in Team
  BY <1>3, AtWork
<1>6. NNodes \in Nat \ {0} /\ NNodes <= MaxLen /\ MaxLen \in Nat /\ request = Active /\ Active \in 1..NThreads
  BY <1>1, <1>5, TeamShape, GraphShape
<1>7. p = "chunk" /\ cgraph[k] = "mul" /\ node[t] = k
  BY <1>3, <1>4, PcSets DEF At, AtNode, AtChunk
<1>8. ChunkData(k) /\ \A j \in 1..k-1 : Complete(j)
  BY <1>4, <1>7 DEF Segment, WrittenAt
<1>9. pc'[0] \notin Resting /\ pc[0] \notin Resting
  BY <1>1, <1>2, <1>5, OnRuns, Counts DEF Running, Resting
<1>10. \/ UNCHANGED written
       \/ chunk[t] < NParts("mul", Active) /\ Written(k, chunk[t])
  BY <1>7 DEF MulChunk
<1>11. CASE UNCHANGED written
  BY <1>2, <1>9, <1>11, RunQuiet
<1>12. CASE chunk[t] < NParts("mul", Active) /\ Written(k, chunk[t])
  <2>1. NParts("mul", Active) \in 0..MaxParts /\ MaxParts \in Nat /\ chunk[t] \in Nat
    BY <1>1, <1>6, Counts
  <2>2. chunk[t] \in PartsOf(k) /\ chunk[t] \in 0..MaxParts-1
    BY <1>6, <1>7, <1>12, <2>1 DEF PartsOf
  <2>3. Held(chunk[t])
    BY <1>3, <1>5 DEF Held
  <2>4. written[k][chunk[t]] = 0
    BY <1>8, <2>2, <2>3 DEF ChunkData
  <2>5. k <= LastNode
    <3>1. CASE abort = 0 \/ abort = NNodes + 1
      BY <1>6, <3>1 DEF LastNode
    <3>2. CASE In(0) /\ Loc(0) \in Gated /\ after[0] = "node" /\ node[0] = abort
      <4>1. AtChunk(0, k)
        BY <1>4, <1>5, <1>7, <3>2 DEF Segment, TeamAt, At
      <4>2. abort = k + 1
        BY <3>2, <4>1 DEF AtChunk, ChunkEnds
      <4>. QED BY <1>6, <4>2 DEF LastNode
    <3>3. AbortAt(k, "chunk")
      BY <1>4, <1>7 DEF Segment
    <3>. QED BY <3>1, <3>2, <3>3 DEF AbortAt
  <2>. QED BY <1>1, <1>2, <1>5, <1>8, <1>9, <1>12, <2>2, <2>4, <2>5, RunWrites
<1>. QED BY <1>10, <1>11, <1>12

\* Thread 0 names a node to stop at: no other was named, and nothing of the later nodes is written.
LEMMA RunDone ==
  ASSUME PoolInv, NEW t \in Threads, Done(t)
  PROVE  Run!Next \/ UNCHANGED Run!vars
<1>1. TypeOK /\ CallerInv /\ pc \in [Threads -> Places] /\ cgraph \in Graphs
  BY DEF PoolInv, TypeOK, Places
<1>2. /\ pc[t] = "done" /\ (\E l \in {"barrier", "node"} : pc' = [pc EXCEPT ![t] = l])
      /\ abort' = abort \/ (t = 0 /\ abort' = node[t] + 1)
      /\ UNCHANGED <<cgraph, request, written, n_graph>>
  BY DEF Done, Goto, GoBarrier, sleepVars
<1>3. Loc(t) = "done" /\ pc[t] \in Working /\ Loc(t) \notin Gated
  BY <1>2, PcSets DEF Loc, Released
<1>4. PICK k \in 1..NNodes, p \in {"node", "chunk"} : Segment(k, p) /\ At(t, k, p)
  BY <1>3, AtWork
<1>5. On /\ In(t) /\ t \in Team /\ 0 \in Team
  BY <1>3, AtWork
<1>6. NNodes \in Nat \ {0} /\ NNodes <= MaxLen /\ MaxLen \in Nat /\ NNodes = Len(cgraph)
  BY <1>1, GraphShape DEF NNodes
<1>7. /\ p = "node" => abort # k /\ Finishes(k, node[t])
      /\ p = "chunk" => node[t] = k
  BY <1>3, <1>4 DEF At, AtNode, AtChunk
<1>8. pc'[0] \notin Resting /\ pc[0] \notin Resting
  BY <1>1, <1>2, <1>5, OnRuns, Counts DEF Running, Resting
<1>9. CASE abort' = abort
  BY <1>2, <1>8, <1>9, RunQuiet
<1>10. CASE t = 0 /\ abort' = node[t] + 1
  <2>1. PICK n : n = node[t]
    OBVIOUS
  <2>2. n \in k..NNodes /\ n \in 1..Len(cgraph)
    BY <1>1, <1>6, <1>7, <2>1, OneEnd
  <2>3. abort = 0 \/ abort = NNodes + 1
    BY <1>3, <1>4, <1>7, <1>10 DEF Segment, AbortAt
  <2>4. Running /\ Running' /\ Last = LastNode /\ Last' = LastNode'
    BY <1>8 DEF Running, Last
  <2>5. Last = Len(cgraph)
    BY <1>6, <2>3, <2>4 DEF LastNode
  <2>6. Last' = n
    BY <1>6, <1>10, <2>1, <2>2, <2>4 DEF LastNode
  <2>7. ASSUME NEW j \in n+1..Len(cgraph) PROVE Run!Untouched(j)
    <3>1. j \in k+1..MaxLen /\ j \in k..MaxLen /\ j \in 1..MaxLen /\ j # n
      BY <1>6, <2>2
    <3>2. DOMAIN written[j] = 0..MaxParts-1
      BY <1>1, <3>1 DEF TypeOK
    <3>3. CASE p = "node"
      <4>1. ~Finishes(k, j)
        BY <1>1, <1>7, <2>1, <3>1, <3>3, OneEnd
      <4>2. NodeData(k)
        BY <1>4, <3>3 DEF Segment, WrittenAt
      <4>. QED BY <3>1, <3>2, <4>1, <4>2 DEF NodeData, Run!Untouched
    <3>4. CASE p = "chunk"
      <4>1. ChunkData(k)
        BY <1>4, <3>4 DEF Segment, WrittenAt
      <4>. QED BY <3>1, <3>2, <4>1 DEF ChunkData, Run!Untouched
    <3>. QED BY <3>3, <3>4
  <2>8. Run!Abort
    <3>1. Running' = Running
      BY <2>4 DEF Running
    <3>2. UNCHANGED <<Running, cgraph, request, written>>
      BY <1>2, <3>1
    <3>. QED BY <2>2, <2>4, <2>5, <2>6, <2>7, <3>2 DEF Run!Abort, Running, Last, Resting, LastNode, NNodes
  <2>. QED BY <2>8 DEF Run!Next
<1>. QED BY <1>2, <1>9, <1>10

\* The caller returns with all of the nodes up to the last complete.
LEMMA RunLeave ==
  ASSUME PoolInv, NEW t \in Threads, Leave(t)
  PROVE  Run!Next \/ UNCHANGED Run!vars
<1>1. TypeOK /\ CallerInv /\ pc \in [Threads -> Places] /\ n_graph.count \in 0..MaxGraphs /\ MaxGraphs \in Nat
  BY TeamShape, Counts DEF PoolInv, TypeOK, Places
<1>2. /\ pc[t] = "leave" /\ pc' = [pc EXCEPT ![t] = IF t = 0 THEN "idle" ELSE "top"]
      /\ UNCHANGED <<cgraph, request, written, abort, n_graph>>
  BY DEF Leave, Goto, workVars, sleepVars
<1>3. CASE t # 0
  <2>1. pc'[0] = pc[0]
    BY <1>1, <1>2, <1>3, Counts
  <2>. QED BY <1>2, <2>1, RunQuiet
<1>4. CASE t = 0
  <2>1. pc[0] = "leave" /\ pc'[0] = "idle" /\ pc[0] \in Working /\ Loc(0) = "leave" /\ In(0) /\ On
    BY <1>1, <1>2, <1>4, PcSets, Counts DEF Loc, Released, In, On
  <2>2. 0 \in Team /\ n_graph.count > 0
    BY <1>1, <2>1, TeamShape DEF CallerInv
  <2>3. PICK k \in 1..NNodes : Segment(k, "leave")
    BY <2>1, <2>2, AllLeave
  <2>4. \A j \in 1..LastNode : Complete(j)
    BY <2>3 DEF Segment, WrittenAt
  <2>5. Running /\ ~Running' /\ Last = LastNode /\ Last' = Last
    BY <1>1, <1>2, <2>1, <2>2 DEF Running, Resting, Last, LastNode, NNodes
  <2>6. \A j \in 1..Last : Run!Complete(j)
    BY <2>4, <2>5, RunView
  <2>7. UNCHANGED <<cgraph, request, written, Last>>
    BY <1>2, <2>5
  <2>8. Running' = FALSE
    BY <2>5 DEF Running
  <2>9. Run!Return
    BY <2>5, <2>6, <2>7, <2>8 DEF Run!Return, Running, Last, Resting, LastNode, NNodes
  <2>. QED BY <2>9 DEF Run!Next
<1>. QED BY <1>3, <1>4

\* GraphRun sees nothing of the other steps.
LEMMA RunOthers ==
  ASSUME PoolInv,
         \/ Pause \/ Resume \/ FreeStop \/ Caller \/ Ended \/ UNCHANGED vars
         \/ \E t \in Workers : Parked(t) \/ Spurious(t)
         \/ \E t \in Threads : Enter(t) \/ NodeHead(t) \/ Convert(t) \/ BarrierRead(t) \/ Arrive(t) \/ Reset(t)
                               \/ Pass(t) \/ Spin(t)
  PROVE  UNCHANGED Run!vars
<1>1. TypeOK /\ pc \in [Threads -> Places] /\ 0 \in Threads /\ after \in [Threads -> {"node", "chunk", "leave"}]
  BY Counts DEF PoolInv, TypeOK, Places
<1>2. Broadcast[0] = pc[0]
  <2>1. pc[0] \notin Sleeping
    BY DEF PoolInv, CallerInv
  <2>2. \A u \in Threads : Broadcast[u] = Woken(pc[u])
    BY DEF Broadcast
  <2>. QED BY <1>1, <2>1, <2>2 DEF Woken, Sleeping
<1>3. CASE Kick
  <2>1. /\ pc[0] = "kick" /\ pc' = [pc EXCEPT ![0] = "signal"] /\ UNCHANGED <<cgraph, request, written, abort>>
    BY <1>3 DEF Kick, Goto, workVars
  <2>2. pc[0] \notin Resting /\ pc'[0] \notin Resting
    BY <1>1, <2>1 DEF Resting
  <2>3. Last' = Last /\ (Running' <=> Running)
    BY <2>1, <2>2 DEF Last, LastNode, NNodes, Running
  <2>. QED BY <2>1, <2>3, RunSame
<1>4. CASE Pause \/ Resume \/ FreeStop \/ Signal \/ FreeSignal \/ Join
  <2>1. UNCHANGED <<cgraph, request, written, abort, n_graph>>
    BY <1>4 DEF Pause, Resume, FreeStop, Signal, FreeSignal, Join, workVars, sleepVars
  <2>2. \/ pc' = Broadcast
        \/ pc[0] = "idle" /\ pc' = [pc EXCEPT ![0] = "free"]
        \/ pc[0] = "join" /\ pc' = [pc EXCEPT ![0] = "ended"]
        \/ pc[0] = "signal" /\ pc' = [Broadcast EXCEPT ![0] = "enter"]
        \/ pc[0] = "free" /\ pc' = [Broadcast EXCEPT ![0] = "join"]
    BY <1>4 DEF Pause, Resume, FreeStop, Signal, FreeSignal, Join, Goto
  <2>3. pc'[0] \in Resting <=> pc[0] \in Resting
    <3>1. 0 \in DOMAIN pc /\ 0 \in DOMAIN Broadcast
      BY <1>1 DEF Broadcast
    <3>. QED BY <1>2, <2>2, <3>1 DEF Resting
  <2>. QED BY <2>1, <2>3, RunQuiet
<1>5. CASE Ended \/ UNCHANGED vars
  <2>1. UNCHANGED <<pc, cgraph, request, written, abort, n_graph>>
    BY <1>5 DEF Ended, vars, workVars, sleepVars
  <2>. QED BY <2>1, RunQuiet
<1>6. ASSUME NEW t \in Workers, Parked(t) \/ Spurious(t) PROVE UNCHANGED Run!vars
  <2>1. UNCHANGED <<cgraph, request, written, abort, n_graph>> /\ (pc' = pc \/ \E l : pc' = [pc EXCEPT ![t] = l])
    BY <1>6 DEF Parked, Spurious, Top, SeeStop, PauseWait, PollStop, Look, Wait, PauseLock, PauseEnd, Lock, Goto,
                workVars, sleepVars
  <2>2. t # 0
    BY Counts
  <2>3. pc'[0] = pc[0]
    BY <1>1, <2>1, <2>2
  <2>. QED BY <2>1, <2>3, RunQuiet
<1>7. ASSUME NEW t \in Threads,
             Enter(t) \/ NodeHead(t) \/ Convert(t) \/ BarrierRead(t) \/ Arrive(t) \/ Reset(t) \/ Pass(t) \/ Spin(t)
      PROVE  UNCHANGED Run!vars
  <2>1. UNCHANGED <<cgraph, request, written, abort, n_graph>> /\ pc[t] \in Working
    BY <1>7 DEF Enter, NodeHead, Convert, BarrierRead, Arrive, Reset, Pass, Spin, workVars, sleepVars, Working
  <2>2. pc' = pc \/ \E l \in Working : pc' = [pc EXCEPT ![t] = l]
    <3>1. after[t] \in Working
      BY <1>1, PcSets
    <3>2. {"node", "barrier", "convert", "map", "arrive", "spin", "reset", "pass"} \subseteq Working
      BY DEF Working
    <3>. QED BY <1>7, <3>1, <3>2 DEF Enter, NodeHead, Convert, BarrierRead, Arrive, Reset, Pass, Spin, Goto, GoBarrier
  <2>3. pc'[0] = pc[0] \/ (pc[0] \in Working /\ pc'[0] \in Working)
    BY <1>1, <2>1, <2>2
  <2>4. \A l \in Working : l \notin Resting
    BY PcSets DEF Resting, Idle
  <2>. QED BY <2>1, <2>3, <2>4, RunQuiet
<1>. QED BY <1>3, <1>4, <1>5, <1>6, <1>7 DEF Caller

\* The nodes in order, each part once, and everything up to the last node when the caller returns.
THEOREM GraphsAreRun == Spec => RunsGraphs
<1>1. Init => Run!Init
  <2> SUFFICES ASSUME Init PROVE Run!Init
    OBVIOUS
  <2>1. pc[0] = "idle" /\ n_graph.count = 0
    BY Counts DEF Init
  <2>2. ~Running /\ Last = 0
    BY <2>1 DEF Running, Resting, Last
  <2>. QED BY <2>2 DEF Run!Init, Running, Resting, Last, LastNode, NNodes
<1>2. PoolInv /\ [Next]_vars => [Run!Next]_(Run!vars)
  <2> SUFFICES ASSUME PoolInv, [Next]_vars PROVE Run!Next \/ UNCHANGED Run!vars
    OBVIOUS
  <2>1. CASE \E g \in Graphs, n \in Requests : Compute(g, n)
    BY <2>1, RunCompute
  <2>2. CASE \E t \in Threads : Map(t) \/ MulChunk(t) \/ Done(t) \/ Leave(t)
    BY <2>2, RunMap, RunMulChunk, RunDone, RunLeave
  <2>3. \/ \E g \in Graphs, n \in Requests : Compute(g, n)
        \/ \E t \in Threads : Map(t) \/ MulChunk(t) \/ Done(t) \/ Leave(t)
        \/ Pause \/ Resume \/ FreeStop \/ Caller \/ Ended \/ UNCHANGED vars
        \/ \E t \in Workers : Parked(t) \/ Spurious(t)
        \/ \E t \in Threads : Enter(t) \/ NodeHead(t) \/ Convert(t) \/ BarrierRead(t) \/ Arrive(t) \/ Reset(t)
                              \/ Pass(t) \/ Spin(t)
    BY DEF Next, Works
  <2>. QED BY <2>1, <2>2, <2>3, RunOthers
<1>. QED BY <1>1, <1>2, PoolIsInvariant, PTL DEF Spec, RunsGraphs, Run!Spec
=============================================================================
