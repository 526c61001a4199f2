--------------------------- MODULE ServerContext ---------------------------
(***************************************************************************)
(* The slots of src/tools/server/server-context.cpp: process_single_task,  *)
(* update_slots, and the model they need: loaded at start, destroyed while *)
(* the server sleeps and for an --rpc-reload.                              *)
(*                                                                         *)
(* Which tokens a slot decodes is abstracted: in an iteration it may have  *)
(* nothing to show, finish its prompt, send a part, finish or fail.        *)
(***************************************************************************)
EXTENDS ServerQueue

CONSTANTS
  Kind,         \* task -> "infer", "slot" (save, restore, erase) or "query" (metrics, ...)
  ActionSlot,   \* task -> slot_action.id_slot of a "slot" task
  Unfit,        \* tasks launch_slot_with_task rejects (tokens, sampler, aLoRA)
  EmptyPrompt,  \* tasks with an empty prompt
  Streams,      \* tasks with partial results
  CanFail,      \* a slot or a decode may fail
  CanLose       \* an RPC worker may be lost; --rpc-reload

ASSUME KindAssumption ==
  /\ Kind \in [Tasks -> {"infer", "slot", "query"}]
  /\ ActionSlot \in [Tasks -> Slots]
  /\ UNION {Unfit, EmptyPrompt, Streams} \subseteq Tasks
  /\ \A t \in Tasks : \A k \in Kids[t] : Kind[t] = "infer" /\ Kids[k] = {}
  /\ {CanFail, CanLose} \subseteq BOOLEAN
\* set_hard_limits: n_cmpl is at most n_parallel; add_child copies the tokens
ASSUME ChildAssumption ==
  \A t \in Tasks : /\ IsFiniteSet(Kids[t]) /\ Cardinality(Kids[t]) < NSlots
                   /\ \A k \in Kids[t] : k \in EmptyPrompt <=> t \in EmptyPrompt

VARIABLES
  slotTask,     \* slot -> the task it processes, or NoTask
  phase,        \* slot -> "idle", "other" (WAIT_OTHER), "prompt" or "gen"
  todo,         \* slots this update_slots has yet to go over
  model,        \* "loaded" or "gone"
  reloadPending

slotVars  == <<slotTask, phase>>
modelVars == <<model, reloadPending>>
contextVars == <<slotVars, todo, modelVars>>
vars == <<queueVars, contextVars>>

Init ==
  /\ QueueInit
  /\ slotTask = [s \in Slots |-> NoTask]
  /\ phase = [s \in Slots |-> "idle"]
  /\ todo = {}
  /\ model = "loaded" /\ reloadPending = FALSE

Idle(s) == phase[s] = "idle"
Busy == {s \in Slots : ~Idle(s)}

\* what the actions of the main thread leave to the HTTP threads
httpVars == <<guardVars, waiting, readerVars>>

\* release(): the slot is idle, and a deferred task gets its chance
ReleaseAlone(s) ==
  /\ slotTask' = [slotTask EXCEPT ![s] = NoTask]
  /\ phase' = [phase EXCEPT ![s] = "idle"]
  /\ UNCHANGED tasksVars
ReleaseStaysBusy(s) == PopDeferred(s) /\ UNCHANGED slotVars
Release(s) ==
  /\ slotTask' = [slotTask EXCEPT ![s] = NoTask]
  /\ phase' = [phase EXCEPT ![s] = "idle"]
  /\ PopDeferred(s)

-----------------------------------------------------------------------------
(* process_single_task                                                     *)

Process(op) ==
  /\ main = "process"
  /\ held.op = op
  /\ main' = "pop"
  /\ held' = Nothing
  /\ UNCHANGED <<httpVars, todo, modelVars>>

ProcessNextResponse ==
  /\ Process("next")
  /\ UNCHANGED <<tasksVars, results, slotVars>>

ProcessCancel ==
  /\ Process("cancel")
  /\ UNCHANGED results
  /\ \/ \E s \in Slots : slotTask[s] = held.id /\ Release(s)
     \/ /\ \A s \in Slots : slotTask[s] # held.id
        /\ UNCHANGED <<tasksVars, slotVars>>

ProcessQuery ==
  /\ Process("run")
  /\ Kind[held.id] = "query"
  /\ Send(held.id, "final")
  /\ UNCHANGED <<tasksVars, slotVars>>

ProcessSlotAction ==
  /\ Process("run")
  /\ Kind[held.id] = "slot"
  /\ IF Idle(ActionSlot[held.id])
     THEN Send(held.id, "final") /\ UNCHANGED deferred
     ELSE Defer(held.id) /\ UNCHANGED results
  /\ UNCHANGED <<queue, slotVars>>

\* get_available_slot: the slot asked for, busy or not, or any idle one
Available(t) == IF IdSlot[t] # AnySlot THEN {IdSlot[t]} ELSE {s \in Slots : Idle(s)}
FreeFor(t) == {s \in Available(t) : Idle(s)}

\* get_free_slots and launch_slots_with_parent_task: the first idle slots for the children
FreeSlots(s) == {x \in Slots \ {s} : Idle(x)}
EnoughSlots(t) == \E s \in FreeFor(t) : Cardinality(FreeSlots(s)) >= Cardinality(Kids[t])
ChildSlots(t, s) ==
  CHOOSE C \in kSubset(Cardinality(Kids[t]), FreeSlots(s)) :
    \A x \in C, y \in FreeSlots(s) \ C : x < y

DeferInfer ==
  /\ Process("run")
  /\ Kind[held.id] = "infer"
  /\ ~EnoughSlots(held.id)
  /\ Defer(held.id)
  /\ UNCHANGED <<queue, results, slotVars>>

\* children and parent are launched together; children wait for the parent's prompt
Launch ==
  /\ Process("run")
  /\ Kind[held.id] = "infer"
  /\ EnoughSlots(held.id)
  /\ held.id \notin Unfit
  /\ \E s \in FreeFor(held.id) :
       /\ Cardinality(FreeSlots(s)) >= Cardinality(Kids[held.id])
       /\ LET C == ChildSlots(held.id, s) IN
          \E kid \in Bijection(C, Kids[held.id]) :
            /\ slotTask' = [x \in Slots |-> IF x = s THEN held.id
                                            ELSE IF x \in C THEN kid[x] ELSE slotTask[x]]
            /\ phase' = [x \in Slots |-> IF x = s THEN "prompt"
                                         ELSE IF x \in C THEN "other" ELSE phase[x]]
  /\ UNCHANGED <<tasksVars, results>>

\* the first launch fails (the children go first): an error for it, the task is dropped
LaunchFails ==
  /\ Process("run")
  /\ Kind[held.id] = "infer"
  /\ EnoughSlots(held.id)
  /\ held.id \in Unfit
  /\ \E t \in IF Kids[held.id] = {} THEN {held.id} ELSE Kids[held.id] : Send(t, "error")
  /\ UNCHANGED <<tasksVars, slotVars>>

-----------------------------------------------------------------------------
(* update_slots: first the reload of a model that lost an RPC worker       *)

BeginUpdate ==
  /\ main = "update" /\ ~reloadPending
  /\ main' = "check"
  /\ UNCHANGED <<tasksVars, httpVars, results, held, contextVars>>

\* rpc_try_surgical: the worker came back and has its share again
Reprovision ==
  /\ main = "update" /\ reloadPending
  /\ reloadPending' = FALSE
  /\ main' = "check"
  /\ UNCHANGED <<tasksVars, httpVars, results, held, slotVars, todo, model>>

HoldBegin ==
  /\ main = "update" /\ reloadPending
  /\ reloadPending' = FALSE
  /\ hold' = TRUE
  /\ main' = "hold"
  /\ UNCHANGED <<tasksVars, nGuards, sleeping, reqStop, waiting, results, readerVars, held,
                 slotVars, todo, model>>

\* the readers did not drain in 15 s
HoldTimesOut ==
  /\ main = "hold"
  /\ nGuards # 0
  /\ hold' = FALSE
  /\ reloadPending' = TRUE
  /\ main' = "check"
  /\ UNCHANGED <<tasksVars, nGuards, sleeping, reqStop, waiting, results, readerVars, held,
                 slotVars, todo, model>>

DrainedOrNot == TRUE
Drained == nGuards = 0

Destroy ==
  /\ main = "hold"
  /\ Drained
  /\ model' = "gone"
  /\ main' = "reload"
  /\ UNCHANGED <<tasksVars, httpVars, results, held, slotVars, todo, reloadPending>>

\* load_model makes the slots anew
LoadModel ==
  /\ model' = "loaded"
  /\ slotTask' = [s \in Slots |-> NoTask]
  /\ phase' = [s \in Slots |-> "idle"]

\* an attempt that succeeds; the failed ones before it change nothing here
Reload ==
  /\ main = "reload"
  /\ LoadModel
  /\ hold' = FALSE
  /\ main' = "check"
  /\ UNCHANGED <<tasksVars, nGuards, sleeping, reqStop, waiting, results, readerVars, held,
                 todo, reloadPending>>

(* ... then an iteration over the slots                                    *)

\* a busy server comes back for the next tokens
PostNextResponse == queue' = IF Busy = {} THEN queue ELSE Append(queue, NextResponse)

CheckIdle ==
  /\ main = "check"
  /\ todo' = Busy
  /\ main' = IF Busy = {} THEN "wait" ELSE "step"
  /\ PostNextResponse
  /\ UNCHANGED <<deferred, httpVars, results, held, slotVars, modelVars>>

\* slot s has its turn in this iteration
Turn(s) ==
  /\ main = "step"
  /\ s \in todo /\ s = Min(todo)
  /\ todo' = todo \ {s}
  /\ UNCHANGED <<httpVars, mainVars, modelVars>>

\* it waits for its parent, cannot join the batch, or has more prompt to process
NoProgress(s) ==
  /\ Turn(s)
  /\ UNCHANGED <<tasksVars, results, slotVars>>

\* the prompt is done: children that wait for it get a copy and start as well
Followers(s) == {x \in Slots : phase[x] = "other" /\ slotTask[x] \in Kids[slotTask[s]]}

FinishPrompt(s) ==
  /\ Turn(s)
  /\ phase[s] = "prompt" /\ slotTask[s] \notin EmptyPrompt
  /\ phase' = [x \in Slots |-> IF x \in {s} \cup Followers(s) THEN "gen" ELSE phase[x]]
  /\ UNCHANGED <<tasksVars, results, slotTask>>

\* bound: one partial result of a task is under way at a time
SendPart(s) ==
  /\ Turn(s)
  /\ phase[s] = "gen" /\ slotTask[s] \in Streams
  /\ \A i \in DOMAIN results : results[i].id # slotTask[s]
  /\ Send(slotTask[s], "partial")
  /\ UNCHANGED <<tasksVars, slotVars>>

\* the last token, or an empty prompt: the final result, then release()
Finish(s) ==
  /\ Turn(s)
  /\ phase[s] = "gen" \/ (phase[s] = "prompt" /\ slotTask[s] \in EmptyPrompt)
  /\ Send(slotTask[s], "final")
  /\ Release(s)

\* an error of this slot alone, thrown or sent
Fail(s) ==
  /\ Turn(s)
  /\ CanFail
  /\ phase[s] \in {"prompt", "gen"}
  /\ Send(slotTask[s], "error")
  /\ Release(s)

EndStep ==
  /\ main = "step"
  /\ todo = {}
  /\ main' = "wait"
  /\ UNCHANGED <<tasksVars, httpVars, results, held, contextVars>>

\* an exception of the whole batch: every slot is aborted, one by one
DecodeFails ==
  /\ main = "step"
  /\ \/ CanFail /\ main' = "abort"
     \/ CanLose /\ main' = "lost"
  /\ todo' = Busy
  /\ UNCHANGED <<tasksVars, httpVars, results, held, slotVars, modelVars>>

Abort(s) ==
  /\ main \in {"abort", "lost"}
  /\ s \in todo /\ s = Min(todo)
  /\ todo' = todo \ {s}
  /\ Send(slotTask[s], "error")
  /\ Release(s)
  /\ UNCHANGED <<httpVars, mainVars, modelVars>>

EndAbort ==
  /\ main \in {"abort", "lost"}
  /\ todo = {}
  /\ main' = "wait"
  /\ IF main = "lost"
     THEN reloadPending' = TRUE /\ queue' = Append(queue, NextResponse)
     ELSE UNCHANGED <<reloadPending, queue>>
  /\ UNCHANGED <<deferred, httpVars, results, held, slotVars, todo, model>>

-----------------------------------------------------------------------------
(* handle_sleeping_state is called under mutex_tasks                       *)

Sleep == EnterSleep /\ model' = "gone" /\ UNCHANGED <<slotVars, todo, reloadPending>>
Wake  == LeaveSleep /\ LoadModel /\ UNCHANGED <<todo, reloadPending>>

ProcessTask ==
  \/ ProcessNextResponse \/ ProcessCancel \/ ProcessQuery \/ ProcessSlotAction
  \/ DeferInfer \/ Launch \/ LaunchFails

UpdateSlots ==
  \/ BeginUpdate \/ Reprovision \/ HoldBegin \/ HoldTimesOut \/ Destroy \/ Reload
  \/ CheckIdle \/ EndStep \/ EndAbort
  \/ \E s \in Slots : FinishPrompt(s) \/ SendPart(s) \/ Finish(s) \/ Abort(s)

StartLoop == (TakeTask \/ QueueDrained \/ NewTasks) /\ UNCHANGED contextVars

Next ==
  \/ \E r \in Requests : Reader(r) /\ UNCHANGED contextVars
  \/ StartLoop \/ Sleep \/ Wake
  \/ ProcessTask \/ UpdateSlots
  \/ DecodeFails
  \/ \E s \in Slots : NoProgress(s) \/ Fail(s)

Spec == Init /\ [][Next]_vars

-----------------------------------------------------------------------------
(* Fairness.  The main thread keeps going; it does so by turns of slots    *)
(* that may show no progress, but a prompt and an answer are finite, which *)
(* strong fairness of the two actions that end them says.  A thread keeps  *)
(* going as well; ctx_guard_enter is retried at every wakeup and the       *)
(* server stays awake for idle_sleep_ms, at least a second.                *)

MainStep ==
  \/ StartLoop \/ Wake \/ ProcessTask \/ UpdateSlots
  \/ \E s \in Slots : NoProgress(s)

ReaderStep(r) ==
  \/ RequestWake(r) \/ Register(r) \/ LeaveWindow(r) \/ Post(r)
  \/ Receive(r) \/ Unwait(r) \/ Clean(r) \/ PostCancel(r)

Fairness ==
  /\ WF_vars(MainStep)
  /\ \A s \in Slots : SF_vars(FinishPrompt(s)) /\ SF_vars(Finish(s))
  /\ \A r \in Requests : /\ WF_vars(ReaderStep(r) /\ UNCHANGED contextVars)
                         /\ SF_vars(Enter(r) /\ UNCHANGED contextVars)

FairSpec == Spec /\ Fairness

-----------------------------------------------------------------------------
\* Every variable has its type, and the guards are counted right.
\* (the fields of server_queue, server_response, the readers and the slots)
TypeOK ==
  /\ queue \in Seq(Entry) /\ deferred \in Seq(Tasks)
  /\ nGuards \in Nat
  /\ {hold, sleeping, reqStop, reloadPending} \subseteq BOOLEAN
  /\ waiting \subseteq Tasks /\ results \in Seq(Result)
  /\ pc \in [Requests -> {"new", "enter", "refused", "window", "release", "post", "next",
                          "stop", "clean", "cancel", "done"}]
  /\ guarded \subseteq Requests
  /\ got \in [Requests -> SUBSET Tasks]
  /\ main \in {"pop", "process", "update", "hold", "reload", "check", "step",
               "abort", "lost", "wait", "asleep"}
  /\ held \in Entry
  /\ slotTask \in [Slots -> Tasks \cup {NoTask}]
  /\ phase \in [Slots -> {"idle", "other", "prompt", "gen"}]
  /\ todo \subseteq Slots
  /\ model \in {"loaded", "gone"}

\* The guard protocol, as an inductive invariant: the counter is the number of
\* readers that hold a guard, these are in the window, the flags tell where the
\* main thread is, and the model is gone only behind them, with no reader inside
\* (ctx_guard_enter, ctx_hold_begin, start_loop).
GuardInv ==
  /\ nGuards = Cardinality(guarded)
  /\ guarded = {r \in Requests : pc[r] \in {"window", "release"}}
  /\ hold <=> main \in {"hold", "reload"}
  /\ sleeping <=> main = "asleep"
  /\ model = "gone" <=> main \in {"reload", "asleep"}
  /\ model = "gone" => guarded = {}

\* Threads, guard and teardown implement the lock on the model.
\* (server_res_generator, ctx_hold_begin, the sleep check of start_loop)
Lock == INSTANCE ModelLock WITH Threads <- Requests, inside <- guarded
ImplementsModelLock == Lock!Spec

\* how often task t, posted by itself or within its parent, is somewhere
Copies(t) ==
  Cardinality({i \in DOMAIN queue : queue[i].op = "run" /\ t \in Own(queue[i].id)})
  + Cardinality({i \in DOMAIN deferred : t \in Own(deferred[i])})
  + (IF held.op = "run" /\ t \in Own(held.id) THEN 1 ELSE 0)
  + Cardinality({s \in Slots : slotTask[s] = t})
Answers(t) == {i \in DOMAIN results : results[i].id = t /\ results[i].kind # "partial"}

\* A task is answered once, with nothing after the answer and no work left to do
\* for it (the assertion "duplicate result received" of wait_for_all).
AnsweredOnce ==
  \A r \in Requests : \A t \in IdsOf(r) :
    /\ Cardinality(Answers(t)) + (IF t \in got[r] THEN 1 ELSE 0) <= 1
    /\ Answers(t) # {} \/ t \in got[r] => Copies(t) = 0
    /\ \A i \in Answers(t) : \A j \in DOMAIN results : results[j].id = t => j <= i

\* A reader that is gone leaves no result in the queue, where nobody would take it
\* out, and no id that would let one in (stop, remove_waiting_task_id, send).
NothingLeftBehind ==
  \A r \in Requests : pc[r] \in {"done", "refused"} =>
    /\ waiting \cap IdsOf(r) = {}
    /\ \A i \in DOMAIN results : results[i].id \notin IdsOf(r)

\* While a client waits, each of its tasks without an answer is somewhere in the
\* server, unless an error is on its way that ends the request (defer, release,
\* launch, abort: no path drops a task silently).
TaskAccounted ==
  \A r \in Requests :
    pc[r] = "next" /\ (\A t \in IdsOf(r) : \A i \in Answers(t) : results[i].kind = "final") =>
      \A t \in IdsOf(r) \ got[r] : Copies(t) = 1 \/ Answers(t) # {}

\* Every request whose tasks are posted comes to an end (defer and pop_deferred_task
\* lose no task; children follow their parent).
EveryRequestEnds == \A r \in Requests : pc[r] = "next" ~> pc[r] = "done"

\* A request that waits at the guard is let in or refused: a sleeping server wakes
\* for it (ctx_guard_enter, start_loop).
EveryRequestEnters == \A r \in Requests : pc[r] = "enter" ~> pc[r] \in {"window", "refused"}

\* A deferred task is taken up again (server-context.cpp:3770).
DeferredTakenUp == \A t \in Tasks : (\E i \in DOMAIN deferred : deferred[i] = t)
                                      ~> held = Run(t)
=============================================================================
