---------------------------- MODULE ServerQueue ----------------------------
(***************************************************************************)
(* The task queue, the result queue and the readers of                     *)
(* src/tools/server/server-queue.cpp.                                      *)
(*                                                                         *)
(* One HTTP thread serves a request: it enters the guarded window in which *)
(* it reads the model, posts its tasks and collects their results.  The    *)
(* main thread runs start_loop(); ServerContext has what its callbacks do. *)
(*                                                                         *)
(* Every critical section of mutex_tasks or mutex_results is one action or *)
(* a part of one.  A waiter of a condition variable is enabled by its      *)
(* predicate.  Times are abstracted: a timed wait may time out and an idle *)
(* server may have been idle for long enough.                              *)
(***************************************************************************)
EXTENDS Integers, Sequences, FiniteSets, FiniteSetsExt, SequencesExt

CONSTANTS
  Requests,     \* the requests, each served by an HTTP thread of its own
  Tasks,
  NoTask,
  Posts,        \* request -> the tasks it posts, in order
  Kids,         \* task -> its child_tasks (n_cmpl > 1), posted inside of it
  IdSlot,       \* task -> id_slot, the slot a completion asks for, or AnySlot
  NSlots,       \* n_parallel
  CanSleep,     \* idle_sleep_ms >= 0
  Impatient     \* requests whose client may go away or whose handler may fail

Slots   == 0..NSlots-1
AnySlot == -1

\* server_task::get_list_id: the ids the reader of r waits for
Own(t) == {t} \cup Kids[t]
IdsOf(r) == UNION {Own(Posts[r][i]) : i \in DOMAIN Posts[r]}

ASSUME TaskAssumption ==
  /\ NoTask \notin Tasks
  /\ Posts  \in [Requests -> Seq(Tasks)]
  /\ Kids   \in [Tasks -> SUBSET Tasks]
  /\ IdSlot \in [Tasks -> Slots \cup {AnySlot}]
\* get_new_id gives every task an id of its own
ASSUME IdAssumption ==
  /\ \A r \in Requests : Posts[r] # <<>>
  /\ \A q, r \in Requests : q # r => IdsOf(q) \cap IdsOf(r) = {}
  /\ \A r \in Requests : \A i, j \in DOMAIN Posts[r] :
       i # j => Own(Posts[r][i]) \cap Own(Posts[r][j]) = {}
ASSUME LimitAssumption ==
  /\ NSlots \in Nat \ {0}
  /\ CanSleep \in BOOLEAN
  /\ Impatient \subseteq Requests

VARIABLES
  \* server_queue, under mutex_tasks
  queue, deferred, nGuards, hold, sleeping, reqStop,
  \* server_response, under mutex_results
  waiting, results,
  \* a server_response_reader: where its thread is, has_ctx_guard, the tasks answered
  pc, guarded, got,
  \* the main thread: where it is, the task it took
  main, held

tasksVars   == <<queue, deferred>>
guardVars   == <<nGuards, hold, sleeping, reqStop>>
resultVars  == <<waiting, results>>
readerVars  == <<pc, guarded, got>>
mainVars    == <<main, held>>
queueVars   == <<tasksVars, guardVars, resultVars, readerVars, mainVars>>

Entry     == [op : {"run", "cancel", "next", "none"}, id : Tasks \cup {NoTask}]
Run(t)    == [op |-> "run",    id |-> t]
Cancel(t) == [op |-> "cancel", id |-> t]
NextResponse == [op |-> "next",   id |-> NoTask]     
Nothing   == [op |-> "none",   id |-> NoTask]

Result == [id : Tasks, kind : {"partial", "final", "error"}]

QueueInit ==
  /\ queue = <<>> /\ deferred = <<>>
  /\ nGuards = 0 /\ hold = FALSE /\ sleeping = FALSE /\ reqStop = FALSE
  /\ waiting = {} /\ results = <<>>
  /\ pc = [r \in Requests |-> "new"]
  /\ guarded = {}
  /\ got = [r \in Requests |-> {}]
  /\ main = "pop" /\ held = Nothing

-----------------------------------------------------------------------------
(* What the two threads do to the queues, as parts of their actions.       *)

DeferNot(t) == UNCHANGED deferred
Defer(t) == deferred' = Append(deferred, t)

\* pop_deferred_task: a task that asks for this slot, or else the oldest
PopDeferred(s) ==
  IF deferred = <<>>
  THEN UNCHANGED tasksVars
  ELSE LET wanting == {i \in DOMAIN deferred : IdSlot[deferred[i]] = s}
           i == IF wanting = {} THEN 1 ELSE Min(wanting)
       IN /\ queue' = <<Run(deferred[i])>> \o queue
          /\ deferred' = RemoveAt(deferred, i)

\* server_response::send: a result nobody waits for is dropped
Send(t, k) == results' = IF t \in waiting THEN Append(results, [id |-> t, kind |-> k])
                                          ELSE results

\* erase_if: what is at the positions I of a deque, in its order
Picked(s, I) == [k \in 1..Cardinality(I) |->
                   s[CHOOSE i \in I : Cardinality({j \in I : j <= i}) = k]]

\* remove_waiting_task_id: the results not yet received go as well
KeepAll(ids) == results
Without(ids) == Picked(results, {i \in DOMAIN results : results[i].id \notin ids})

\* cleanup_pending_task for every id, and the CANCEL tasks go to the front
CancelAll(ids) ==
  /\ queue'    = SetToSeq({Cancel(t) : t \in ids})
                   \o Picked(queue, {i \in DOMAIN queue : queue[i].op # "run" \/ queue[i].id \notin ids})
  /\ deferred' = Picked(deferred, {i \in DOMAIN deferred : deferred[i] \notin ids})

-----------------------------------------------------------------------------
(* server_response_reader: the HTTP thread of a request.                   *)

Goto(r, there) == pc' = [pc EXCEPT ![r] = there]

Arrive(r) ==
  /\ pc[r] = "new"
  /\ Goto(r, "enter")
  /\ UNCHANGED <<tasksVars, guardVars, resultVars, guarded, got, mainVars>>

\* ctx_guard_enter; the thread waits while its condition does not hold
MayEnter == ~hold /\ ~sleeping

AskNobody == UNCHANGED reqStop
AskToWake == reqStop' = TRUE

RequestWake(r) ==
  /\ pc[r] = "enter"
  /\ ~hold /\ sleeping /\ ~reqStop
  /\ AskToWake
  /\ UNCHANGED <<tasksVars, nGuards, hold, sleeping, resultVars, readerVars, mainVars>>

TakeGuard(r) == guarded' = guarded \cup {r} /\ nGuards' = nGuards + 1

Enter(r) ==
  /\ pc[r] = "enter"
  /\ MayEnter
  /\ TakeGuard(r)
  /\ Goto(r, "window")
  /\ UNCHANGED <<tasksVars, hold, sleeping, reqStop, resultVars, got, mainVars>>

\* the hold outlasts CTX_GUARD_HOLD_TIMEOUT_MS: answered with a 503
Refuse(r) ==
  /\ pc[r] = "enter"
  /\ hold
  /\ Goto(r, "refused")
  /\ UNCHANGED <<tasksVars, guardVars, resultVars, guarded, got, mainVars>>

\* ctx_guard_release, which does nothing the second time
ReleaseGuard(r) ==
  IF r \in guarded
  THEN /\ nGuards' = nGuards - 1
       /\ guarded' = guarded \ {r}
       /\ UNCHANGED <<hold, sleeping, reqStop>>
  ELSE UNCHANGED <<guardVars, guarded>>

\* post_tasks: the ids are waited for, then the guard goes, then the tasks are posted
Register(r) ==
  /\ pc[r] = "window"
  /\ waiting' = waiting \cup IdsOf(r)
  /\ Goto(r, "release")
  /\ UNCHANGED <<tasksVars, guardVars, results, guarded, got, mainVars>>

LeaveWindow(r) ==
  /\ pc[r] = "release"
  /\ ReleaseGuard(r)
  /\ Goto(r, "post")
  /\ UNCHANGED <<tasksVars, resultVars, got, mainVars>>

Post(r) ==
  /\ pc[r] = "post"
  /\ queue' = queue \o [i \in DOMAIN Posts[r] |-> Run(Posts[r][i])]
  /\ Goto(r, "next")
  /\ UNCHANGED <<deferred, guardVars, resultVars, guarded, got, mainVars>>

\* the handler throws before it posts: the reader dies with no ids, stop() releases
GiveUp(r) ==
  /\ pc[r] = "window"
  /\ r \in Impatient
  /\ ReleaseGuard(r)
  /\ Goto(r, "done")
  /\ UNCHANGED <<tasksVars, resultVars, got, mainVars>>

\* next(): the oldest result of one of the ids; an error ends the reader
Receive(r) ==
  /\ pc[r] = "next"
  /\ \E i \in DOMAIN results :
       /\ results[i].id \in IdsOf(r)
       /\ \A j \in 1..i-1 : results[j].id \notin IdsOf(r)
       /\ results' = RemoveAt(results, i)
       /\ got' = [got EXCEPT ![r] = IF results[i].kind = "final" THEN @ \cup {results[i].id}
                                                                  ELSE @]
       /\ Goto(r, IF results[i].kind = "error" \/ got'[r] = IdsOf(r) THEN "stop" ELSE "next")
  /\ UNCHANGED <<tasksVars, guardVars, waiting, guarded, mainVars>>

\* should_stop(), or the response is destroyed: the destructor calls stop()
ClientGone(r) ==
  /\ pc[r] = "next"
  /\ r \in Impatient
  /\ Goto(r, "stop")
  /\ UNCHANGED <<tasksVars, guardVars, resultVars, guarded, got, mainVars>>

\* stop(): no more results of the ids; what is unfinished is cancelled
Unwait(r) ==
  /\ pc[r] = "stop"
  /\ waiting' = waiting \ IdsOf(r)
  /\ Goto(r, IF got[r] = IdsOf(r) THEN "done" ELSE "clean")
  /\ UNCHANGED <<tasksVars, guardVars, results, guarded, got, mainVars>>

Clean(r) ==
  /\ pc[r] = "clean"
  /\ results' = Without(IdsOf(r))
  /\ Goto(r, "cancel")
  /\ UNCHANGED <<tasksVars, guardVars, waiting, guarded, got, mainVars>>

PostCancel(r) ==
  /\ pc[r] = "cancel"
  /\ CancelAll(IdsOf(r))
  /\ Goto(r, "done")
  /\ UNCHANGED <<guardVars, resultVars, guarded, got, mainVars>>

Reader(r) ==
  \/ Arrive(r) \/ RequestWake(r) \/ Enter(r) \/ Refuse(r)
  \/ Register(r) \/ LeaveWindow(r) \/ Post(r) \/ GiveUp(r)
  \/ Receive(r) \/ ClientGone(r) \/ Unwait(r) \/ Clean(r) \/ PostCancel(r)

-----------------------------------------------------------------------------
(* start_loop(): the main thread between its callbacks.                    *)

TakeTask ==
  /\ main = "pop"
  /\ queue # <<>>
  /\ held' = Head(queue)
  /\ queue' = Tail(queue)
  /\ main' = "process"
  /\ UNCHANGED <<deferred, guardVars, resultVars, readerVars>>

QueueDrained ==
  /\ main = "pop"
  /\ queue = <<>>
  /\ main' = "update"
  /\ UNCHANGED <<tasksVars, guardVars, resultVars, readerVars, held>>

NewTasks ==
  /\ main = "wait"
  /\ queue # <<>>
  /\ main' = "pop"
  /\ UNCHANGED <<tasksVars, guardVars, resultVars, readerVars, held>>

MaySleep == nGuards = 0

EnterSleep ==
  /\ main = "wait"
  /\ CanSleep
  /\ queue = <<>>
  /\ MaySleep
  /\ sleeping' = TRUE /\ reqStop' = FALSE
  /\ main' = "asleep"
  /\ UNCHANGED <<tasksVars, nGuards, hold, resultVars, readerVars, held>>

LeaveSleep ==
  /\ main = "asleep"
  /\ reqStop
  /\ sleeping' = FALSE /\ reqStop' = FALSE
  /\ main' = "pop"
  /\ UNCHANGED <<tasksVars, nGuards, hold, resultVars, readerVars, held>>
=============================================================================
