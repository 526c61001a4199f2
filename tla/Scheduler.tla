----------------------------- MODULE Scheduler -----------------------------
(***************************************************************************)
(* The backend scheduler (src/ggml/src/ggml-backend.cpp) on a machine with *)
(* several GPUs or with one.  With several, graphs are pipelined over      *)
(* copies of the inputs (SchedPipeline), and pstream_prepare declines;     *)
(* with one GPU there is no pipeline, and the weights of a prefill may be  *)
(* streamed through a ring (PrefillStream).                                *)
(***************************************************************************)
EXTENDS SchedPipeline, PrefillStream

VARIABLE single   \* one GPU (fixed)

schedVars == <<single, vars, prefillVars>>

\* a scheduler of one GPU has one copy of the inputs; which machine it is makes no difference
SchedInit ==
  /\ Init /\ PrefillInit
  /\ single \in BOOLEAN
  /\ single => machine = CHOOSE m \in Machines : m.copies = 1

SchedNext ==
  \/ ~single /\ Next        /\ UNCHANGED <<single, prefillVars>>
  \/ single  /\ PrefillNext /\ UNCHANGED <<single, vars>>

SchedSpec     == SchedInit /\ [][SchedNext]_schedVars
FairSchedSpec == SchedSpec /\ PrefillFairness
=============================================================================
