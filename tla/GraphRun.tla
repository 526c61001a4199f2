------------------------------ MODULE GraphRun ------------------------------
(***************************************************************************)
(* What a compute of a graph promises, whoever computes it: the nodes are  *)
(* written in their order, each part of a node once, and the caller        *)
(* returns with all of the graph written or, after an abort, with all of   *)
(* the nodes up to one and nothing of the later ones.                      *)
(***************************************************************************)
EXTENDS Integers, Sequences

CONSTANTS
  Graphs,       \* the graphs: sequences of nodes
  Teams,        \* how many threads a compute may have
  Parts(_, _)   \* the parts into which so many threads split a node

VARIABLES
  running,      \* a compute is under way
  graph, team,  \* its graph and its number of threads
  written,      \* how often each part of each node was written
  last          \* the last node that is to be computed

vars == <<running, graph, team, written, last>>

PartsOf(k) == 0..Parts(graph[k], team) - 1
Complete(k) == \A c \in PartsOf(k) : written[k][c] = 1
Untouched(k) == \A c \in DOMAIN written[k] : written[k][c] = 0

Init == ~running /\ last = 0

Begin ==
  /\ ~running /\ running'
  /\ graph' \in Graphs /\ team' \in Teams
  /\ last' = Len(graph')
  /\ \A k \in DOMAIN written' : \A c \in DOMAIN written'[k] : written'[k][c] = 0

\* a part is written when all the nodes before are complete
Write(k, c) ==
  /\ running /\ k <= last
  /\ c \in PartsOf(k) /\ written[k][c] = 0
  /\ \A j \in 1..k-1 : Complete(j)
  /\ written' = [written EXCEPT ![k][c] = 1]
  /\ UNCHANGED <<running, graph, team, last>>

Abort ==
  /\ running /\ last = Len(graph)
  /\ \E k \in 1..Len(graph) :
       /\ \A j \in k+1..Len(graph) : Untouched(j)
       /\ last' = k
  /\ UNCHANGED <<running, graph, team, written>>

Return ==
  /\ running /\ running' = FALSE
  /\ \A k \in 1..last : Complete(k)
  /\ UNCHANGED <<graph, team, written, last>>

Next == Begin \/ Abort \/ Return \/ \E k \in DOMAIN graph : \E c \in PartsOf(k) : Write(k, c)

Spec == Init /\ [][Next]_vars
=============================================================================
