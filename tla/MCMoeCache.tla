----------------------------- MODULE MCMoeCache -----------------------------
(* Instances of MoeCache for TLC.                                          *)
EXTENDS MoeCache

\* a graph routes one or two experts of a layer, each in one row
OneOrTwo == {f \in [Experts -> 0..1] : Cardinality({e \in Experts : f[e] = 1}) \in 1..2}

\* the cap of a step is no multiple of it
TwoUnitSlab == [l \in Layers |-> 2]
FirstInto0  == {<<CHOOSE e \in Experts : TRUE, 0>>}
=============================================================================
