---------------------------- MODULE MCScheduler ----------------------------
(* Instances of Scheduler for TLC. *)
EXTENDS Scheduler

UserFirst == [b \in Stages |-> IF b = 1 THEN <<"user">> ELSE <<"user", "prev">>]
PrevFirst == [b \in Stages |-> IF b = 1 THEN <<"user">> ELSE <<"prev", "user">>]

\* a layer uses the activation first and the devices copy it, with the program's four copies and
\* with one; activations that are copied after the inputs of the user, or by the host
Orders == {[layout |-> PrevFirst, async |-> TRUE,  copies |-> 4],
           [layout |-> UserFirst, async |-> TRUE,  copies |-> 4],
           [layout |-> UserFirst, async |-> TRUE,  copies |-> 2],
           [layout |-> PrevFirst, async |-> FALSE, copies |-> 2],
           [layout |-> PrevFirst, async |-> TRUE,  copies |-> 1]}

CONSTANTS w1, w2, w3

Sizes == [w \in Weights |-> IF w = w3 THEN 2 ELSE 1]
\* twice around the ring and more; one with the large weight
TwoGraphs == {<<w1, w2, w1, w2, w1>>, <<w2, w3>>}

\* the activation first, four copies; there is one of one copy for Scheduler
FourCopies == {[layout |-> PrevFirst, async |-> TRUE, copies |-> 4],
               [layout |-> PrevFirst, async |-> TRUE, copies |-> 1]}
=============================================================================
