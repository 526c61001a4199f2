------------------------------- MODULE Router -------------------------------
(***************************************************************************)
(* The router of the server (server_models): a table of models, each with  *)
(* a status; a child process per running model; a managing thread and a    *)
(* stopping thread per child; requests that load a model on demand and     *)
(* evict the least recently used one; and reloads of the model list.       *)
(* Each action is one critical section of server_models::mutex, or one     *)
(* step of a thread outside of it.                                         *)
(* RouterInit and the like are named apart from those of ServerContext:    *)
(* ServerProofs extends both.                                              *)
(***************************************************************************)
EXTENDS Integers, FiniteSets, SequencesExt

CONSTANTS Models, ModelsMax,  \* models_max
          Threads,            \* HTTP threads that ask for models
          Reloaders,          \* HTTP threads that reload the model list
          None

ASSUME MaxAssumption == ModelsMax \in Nat \ {0} /\ IsFiniteSet(Models)
ASSUME NoneAssumption == None \notin Models

VARIABLES
  status,    \* meta.status
  recent,    \* the models by meta.last_used, oldest first
  stopping,  \* stopping_models
  child,     \* the process: "none", "loading", "ready", "sleeping", "dead"
  pipe,      \* what the child wrote to its stdout and nobody read yet
  mgr,       \* the managing thread
  stopper,   \* its stopping thread
  thr,       \* the threads with a request: [pc, m, lru]
  rel,       \* the threads that reload: [pc, todo, changed]
  reloading  \* is_reloading

proc == <<child, pipe>>
table == <<status, recent, stopping>>
routerVars == <<table, proc, mgr, stopper, thr, rel, reloading>>

NoRequest == [pc |-> "idle", m |-> None, lru |-> None]
NoReload == [pc |-> "idle", todo |-> {}, changed |-> {}]

RouterInit ==
  /\ status = [m \in Models |-> "UNLOADED"]
  /\ recent = SetToSeq(Models) /\ stopping = {}
  /\ child = [m \in Models |-> "none"] /\ pipe = [m \in Models |-> "empty"]
  /\ mgr = [m \in Models |-> "none"] /\ stopper = [m \in Models |-> "none"]
  /\ thr = [t \in Threads |-> NoRequest] /\ rel = [r \in Reloaders |-> NoReload]
  /\ reloading = FALSE

Running(m) == status[m] \in {"LOADING", "LOADED", "SLEEPING"}   \* is_running
Active == {m \in Models : Running(m)}
Alive(m) == child[m] \in {"loading", "ready", "sleeping"}
Used(m) == Append(SelectSeq(recent, LAMBDA x : x # m), m)       \* last_used := now
IsLru(m) == \E i \in DOMAIN recent : recent[i] = m /\ \A j \in 1..i-1 : ~Running(recent[j])

\* server_models::unload: a child that is still loading is killed at once
Stop(m) ==
  IF Running(m)
  THEN /\ stopping' = stopping \cup {m}
       /\ child' = IF status[m] = "LOADING" /\ Alive(m) THEN [child EXCEPT ![m] = "dead"] ELSE child
  ELSE UNCHANGED <<stopping, child>>

-----------------------------------------------------------------------------
(* A request: ensure_model_ready, load, unload_lru *)

At(t, pc) == thr[t].pc = pc
Go(t, pc) == thr' = [thr EXCEPT ![t].pc = pc]
Gone(t) == thr' = [thr EXCEPT ![t] = NoRequest]
StaysElse == UNCHANGED <<rel, reloading, mgr, stopper>>

Ensure(t, m) ==
  /\ At(t, "idle") /\ status[m] \notin {"LOADED", "SLEEPING"}
  /\ thr' = [thr EXCEPT ![t] = [NoRequest EXCEPT !.m = m,
                                 !.pc = IF status[m] = "UNLOADED" THEN "lru" ELSE "wait"]]
  /\ UNCHANGED <<table, proc>> /\ StaysElse

UnloadLru(t) ==
  /\ At(t, "lru")
  /\ \/ /\ Cardinality(Active) >= ModelsMax
        /\ \E m \in Active : IsLru(m) /\ thr' = [thr EXCEPT ![t] = [@ EXCEPT !.lru = m, !.pc = "evict"]]
     \/ Go(t, "load")   \* there is room, or the models were all used this very millisecond
  /\ UNCHANGED <<table, proc>> /\ StaysElse
Evict(t) ==
  /\ At(t, "evict") /\ Stop(thr[t].lru) /\ Go(t, "evicting")
  /\ UNCHANGED <<status, recent, pipe>> /\ StaysElse
\* cv.wait: the thread looks again when it is woken, which may be too late
Evicted(t) ==
  /\ At(t, "evicting") /\ status[thr[t].lru] = "UNLOADED" /\ Go(t, "load")
  /\ UNCHANGED <<table, proc>> /\ StaysElse

\* the managing thread of the old child is joined, that of the new one starts
Spawn(m) ==
  /\ status' = [status EXCEPT ![m] = "LOADING"] /\ recent' = Used(m)
  /\ child' = [child EXCEPT ![m] = "loading"] /\ pipe' = [pipe EXCEPT ![m] = "empty"]
  /\ mgr' = [mgr EXCEPT ![m] = "reading"] /\ stopper' = [stopper EXCEPT ![m] = "waiting"]
  /\ UNCHANGED stopping

FullNever == FALSE                         \* a mutant: no check under the lock
Full == Cardinality(Active) >= ModelsMax
MayLoadAlways == TRUE                      \* a mutant: does not wait for a reload
MayLoad == ~reloading
Load(t) ==
  LET m == thr[t].m
  IN /\ At(t, "load") /\ MayLoad
     /\ \/ /\ status[m] # "UNLOADED" /\ Go(t, "wait")       \* "model is not ready"
           /\ UNCHANGED <<table, proc, mgr, stopper>>
        \/ /\ status[m] = "UNLOADED" /\ Full /\ Gone(t)     \* "model limit reached, try again later"
           /\ UNCHANGED <<table, proc, mgr, stopper>>
        \/ /\ status[m] = "UNLOADED" /\ ~Full /\ mgr[m] = "none"
           /\ Spawn(m) /\ Go(t, "wait")
     /\ UNCHANGED <<rel, reloading>>
Waited(t) ==
  /\ At(t, "wait") /\ status[thr[t].m] # "LOADING" /\ Gone(t)
  /\ UNCHANGED <<table, proc>> /\ StaysElse

\* A request to a running model counts as a use of it.
Proxy(m) ==
  /\ Running(m) /\ recent' = Used(m)
  /\ UNCHANGED <<status, stopping, proc, thr>> /\ StaysElse
\* POST /models/unload
Unload(m) ==
  /\ Running(m) /\ Stop(m)
  /\ UNCHANGED <<status, recent, pipe, thr>> /\ StaysElse

-----------------------------------------------------------------------------
(* load_models: running models whose preset changed are unloaded *)

ReloadModels(r) ==
  /\ rel[r].pc = "idle"
  /\ \E S \in SUBSET Active : rel' = [rel EXCEPT ![r] = [pc |-> "unload", todo |-> S, changed |-> S]]
  /\ reloading' = TRUE
  /\ UNCHANGED <<table, proc, mgr, stopper, thr>>
ReloadUnload(r) ==
  \E m \in rel[r].todo :
    /\ rel[r].pc = "unload" /\ Stop(m)
    /\ rel' = [rel EXCEPT ![r].todo = @ \ {m}]
    /\ UNCHANGED <<status, recent, pipe, mgr, stopper, thr, reloading>>
ReloadEnd(r) ==
  /\ rel[r].pc = "unload" /\ rel[r].todo = {} /\ \A m \in rel[r].changed : ~Running(m)
  /\ rel' = [rel EXCEPT ![r] = NoReload] /\ reloading' = FALSE
  /\ UNCHANGED <<table, proc, mgr, stopper, thr>>

-----------------------------------------------------------------------------
(* The child process *)

ChildSays(m, from, to, word) ==
  /\ child[m] = from /\ pipe[m] = "empty"
  /\ child' = [child EXCEPT ![m] = to] /\ pipe' = [pipe EXCEPT ![m] = word]
  /\ UNCHANGED <<table, mgr, stopper, thr, rel, reloading>>
\* ready; asleep for being idle; loading again, when it wakes up or lost a worker
ChildReports(m) ==
  \/ ChildSays(m, "loading", "ready", "LOADED")
  \/ ChildSays(m, "ready", "sleeping", "SLEEPING")
  \/ \E from \in {"sleeping", "ready"} : ChildSays(m, from, "loading", "LOADING")
\* it crashes, or does what it was told
ChildDies(m) ==
  /\ Alive(m) /\ child' = [child EXCEPT ![m] = "dead"]
  /\ UNCHANGED <<table, pipe, mgr, stopper, thr, rel, reloading>>

-----------------------------------------------------------------------------
(* The managing thread of a child and the two threads it starts *)

\* the log thread: handle_child_state
ReadState(m) ==
  /\ mgr[m] = "reading" /\ pipe[m] # "empty"
  /\ status' = [status EXCEPT ![m] = pipe[m]] /\ pipe' = [pipe EXCEPT ![m] = "empty"]
  /\ UNCHANGED <<recent, stopping, child, mgr, stopper, thr, rel, reloading>>
\* end of file on its stdout: child_proc->stopped
ChildEnded(m) ==
  /\ mgr[m] = "reading" /\ child[m] = "dead" /\ pipe[m] = "empty"
  /\ mgr' = [mgr EXCEPT ![m] = "stopped"]
  /\ UNCHANGED <<table, proc, stopper, thr, rel, reloading>>
EraseStop(m) ==
  /\ mgr[m] = "stopped" /\ stopping' = stopping \ {m}
  /\ mgr' = [mgr EXCEPT ![m] = "erased"]
  /\ UNCHANGED <<status, recent, proc, stopper, thr, rel, reloading>>
Stopped(m) == mgr[m] \in {"stopped", "erased"}
JoinedEarly(m) == TRUE                      \* a mutant: the status before the join
JoinedStopper(m) == stopper[m] = "end"
\* the stopping thread joined and the exit code read: update_status
SetUnloaded(m) ==
  /\ mgr[m] = "erased" /\ JoinedStopper(m)
  /\ status' = [status EXCEPT ![m] = "UNLOADED"] /\ child' = [child EXCEPT ![m] = "none"]
  /\ mgr' = [mgr EXCEPT ![m] = "none"]
  /\ UNCHANGED <<recent, stopping, pipe, stopper, thr, rel, reloading>>

\* the stopping thread is woken by a stop, and tells the child to exit, or by its end
StopWakes(m) ==
  /\ stopper[m] = "waiting" /\ (m \in stopping \/ Stopped(m))
  /\ stopper' = [stopper EXCEPT ![m] = IF Stopped(m) THEN "end" ELSE "grace"]
  /\ UNCHANGED <<table, child, pipe, mgr, thr, rel, reloading>>
StopSeesEnd(m) ==
  /\ stopper[m] = "grace" /\ (m \notin stopping \/ Stopped(m))
  /\ stopper' = [stopper EXCEPT ![m] = "end"]
  /\ UNCHANGED <<table, proc, mgr, thr, rel, reloading>>
KillsNone(m) == child                       \* a mutant: waits for the child for ever
Kills(m) == IF Alive(m) THEN [child EXCEPT ![m] = "dead"] ELSE child
\* stop_timeout is over
ForceKill(m) ==
  /\ stopper[m] = "grace" /\ m \in stopping /\ ~Stopped(m)
  /\ child' = Kills(m)
  /\ stopper' = [stopper EXCEPT ![m] = "end"]
  /\ UNCHANGED <<table, pipe, mgr, thr, rel, reloading>>

-----------------------------------------------------------------------------
Request(t) == \/ \E m \in Models : Ensure(t, m)
              \/ UnloadLru(t) \/ Evict(t) \/ Evicted(t) \/ Load(t) \/ Waited(t)
ReloadGoesOn(r) == ReloadUnload(r) \/ ReloadEnd(r)
Manager(m) == ReadState(m) \/ ChildEnded(m) \/ EraseStop(m) \/ SetUnloaded(m)
Stopper(m) == StopWakes(m) \/ StopSeesEnd(m) \/ ForceKill(m)

RouterNext ==
  \/ \E t \in Threads : Request(t)
  \/ \E r \in Reloaders : ReloadModels(r) \/ ReloadGoesOn(r)
  \/ \E m \in Models : Proxy(m) \/ Unload(m) \/ ChildReports(m) \/ ChildDies(m)
  \/ \E m \in Models : Manager(m) \/ Stopper(m)

\* The threads of the router run; children, requests and reloads owe nothing.
RouterSpec == /\ RouterInit /\ [][RouterNext]_routerVars
        /\ \A m \in Models : WF_routerVars(Manager(m)) /\ WF_routerVars(Stopper(m))
        /\ \A r \in Reloaders : WF_routerVars(ReloadGoesOn(r))

-----------------------------------------------------------------------------
(* What the router promises *)

\* A thread past its first look knows its model, one that evicts knows which.
ThreadsTyped ==
  /\ thr \in [Threads -> [pc : {"idle", "lru", "evict", "evicting", "load", "wait"},
                          m : Models \cup {None}, lru : Models \cup {None}]]
  /\ \A t \in Threads : thr[t].pc # "idle" => thr[t].m \in Models
  /\ \A t \in Threads : thr[t].pc \in {"evict", "evicting"} => thr[t].lru \in Models
\* Every variable has its type (server_model_meta, instance_t, the threads).
TableTyped ==
  /\ status \in [Models -> {"UNLOADED", "LOADING", "LOADED", "SLEEPING"}]
  /\ stopping \subseteq Models
  /\ child \in [Models -> {"none", "loading", "ready", "sleeping", "dead"}]
  /\ pipe \in [Models -> {"empty", "LOADING", "LOADED", "SLEEPING"}]
  /\ mgr \in [Models -> {"none", "reading", "stopped", "erased"}]
  /\ stopper \in [Models -> {"none", "waiting", "grace", "end"}]
RouterTypeOK ==
  /\ TableTyped /\ ThreadsTyped
  /\ rel \in [Reloaders -> [pc : {"idle", "unload"}, todo : SUBSET Models, changed : SUBSET Models]]

\* There are never more child processes than models_max, however many requests saw room
\* at once while the evictions they asked for were going on.
AtMostMax == Cardinality({m \in Models : child[m] # "none"}) <= ModelsMax

\* A model counts as running exactly as long as its process and the threads that manage
\* it are there: what a child wrote before it died never revives its entry, and a load
\* finds nothing left of the old child.
RunsAsItSays ==
  \A m \in Models :
    /\ Running(m) <=> child[m] # "none"
    /\ Running(m) <=> mgr[m] # "none"
    /\ ~Running(m) => stopper[m] \in {"none", "end"} /\ pipe[m] = "empty"

\* A child that somebody asked to stop is gone in the end, even when it never answers.
EveryStopEnds ==
  \A m \in Models : (m \in stopping /\ Running(m)) ~> ~Running(m)

\* A reload ends, since no load starts while it waits for the models it unloads.
EveryReloadEnds == \A r \in Reloaders : (rel[r].pc = "unload") ~> (rel[r].pc = "idle")

\* server-models.cpp: the stopping thread is there "to monitor explicit stop requests"; the
\* request to stop a child that was ending already stays and stops the model's next child.
NoneStartsStopped ==
  [][\A m \in Models : child[m] = "none" /\ child'[m] = "loading" => m \notin stopping]_routerVars

\* server-models.cpp: a load waits "for unload to complete", and misses it when another
\* request loads that model again first.
EvictionEnds == \A t \in Threads : (thr[t].pc = "evicting") ~> (thr[t].pc # "evicting")
=============================================================================
