----------------------------- MODULE ModelLock -----------------------------
(***************************************************************************)
(* What the context guard of src/tools/server/server-queue.h promises: the *)
(* model is destroyed only while no HTTP thread is inside its window, and  *)
(* no thread enters the window of a model that is gone.                    *)
(***************************************************************************)
CONSTANT Threads
VARIABLES inside, model

Init == inside = {} /\ model = "loaded"

Acquire(t) ==
  /\ model = "loaded"
  /\ t \notin inside
  /\ inside' = inside \cup {t}
  /\ UNCHANGED model

Release(t) ==
  /\ t \in inside
  /\ inside' = inside \ {t}
  /\ UNCHANGED model

Unload ==
  /\ model = "loaded"
  /\ inside = {}
  /\ model' = "gone"
  /\ UNCHANGED inside

Load ==
  /\ model = "gone"
  /\ model' = "loaded"
  /\ UNCHANGED inside

Next == Unload \/ Load \/ \E t \in Threads : Acquire(t) \/ Release(t)

Spec == Init /\ [][Next]_<<inside, model>>
=============================================================================
