------------------------------- MODULE MCSsd -------------------------------
(* An instance of Ssd for TLC: the two experts of gate fill the budget, the one
   of down fills it alone and does not fit the protected segment; and a pool of
   slots, of which a node uses up to three slices, in any order. *)
EXTENDS Ssd
CONSTANTS gate, down
MCSize == (gate :> 1) @@ (down :> 2)
MCArenaOf == (gate :> 1) @@ (down :> 2)
MCIdLists == (gate :> {<<1, 2>>}) @@ (down :> {<<1>>})
MCModes == {[slru |-> TRUE, par |-> TRUE], [slru |-> FALSE, par |-> FALSE]}
MCPoolModes == {[slru |-> TRUE, cap |-> 1], [slru |-> TRUE, cap |-> 3], [slru |-> FALSE, cap |-> 0]}
MCUses == {u \in UNION {[1..n -> Keys] : n \in {2, 3}} : IsInjective(u)}
=============================================================================
