-------------------------------- MODULE Ssd --------------------------------
(***************************************************************************)
(* The SSD expert streaming (ggml-ssd-stream.cpp): its host tier, the      *)
(* arena (SsdStream), and the pool of VRAM slots above it (SsdPool).  A    *)
(* bind takes the slices that its pool misses from the arena, where a fill *)
(* pass has made them whole (ServesWhole); the two share no other state,   *)
(* and a behaviour follows one of them.                                    *)
(***************************************************************************)
EXTENDS SsdStream, SsdPool

VARIABLE tier   \* which of the two is followed: "arena" or "slots" (fixed)

ssdVars == <<tier, vars, poolVars>>

SsdInit ==
  /\ Init /\ PoolInit
  /\ tier \in {"arena", "slots"}
  /\ tier = "arena" => slotMode = CHOOSE m \in PoolModes : TRUE
  /\ tier = "arena" => graph = [n \in GpuNodes |-> CHOOSE i \in Ids : TRUE]
  /\ tier = "slots" => mode = CHOOSE m \in Modes : TRUE

SsdNext ==
  \/ tier = "arena" /\ Next     /\ UNCHANGED <<tier, poolVars>>
  \/ tier = "slots" /\ PoolNext /\ UNCHANGED <<tier, vars>>

SsdSpec     == SsdInit /\ [][SsdNext]_ssdVars
FairSsdSpec == SsdSpec /\ SsdFairness
=============================================================================
