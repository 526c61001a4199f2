---------------------------- MODULE MoeDoorbell ----------------------------
(***************************************************************************)
(* The MoE doorbell: src/src/llama-moe-doorbell.cpp, with the device side  *)
(* of src/ggml/src/ggml-cuda/moe-doorbell.cu.                              *)
(*                                                                         *)
(* A graph rings a layer's slot of a mailbox; a team of host threads       *)
(* computes the missed experts of the request and sets the slot's DONE     *)
(* word, which the graph's join waits for.  The owner queues one job per   *)
(* graph, the device runs the graphs in order, the team serves the jobs in *)
(* order: thread 0, the leader, waits for each ring and decides for all.   *)
(*                                                                         *)
(* Atomics are sequentially consistent here.  The atomic operations of the *)
(* barrier, of publish_go and of wait_go are steps of their own.  A job is *)
(* named by its id, from 0; what it computes by the job it is for.         *)
(***************************************************************************)
EXTENDS Integers, Sequences, FiniteSets

CONSTANTS
  NThreads,     \* n_threads
  Slots,        \* the layers of the mailbox
  Rings,        \* the slots that the graph of each job rings, in order
  JobCap,       \* JOB_CAP
  MaxJobs,      \* bound: the jobs begun
  CanFail       \* the launch of a graph may fail

ASSUME DoorbellAssumption ==
  /\ NThreads \in Nat \ {0}
  /\ JobCap \in Nat \ {0} /\ MaxJobs \in Nat
  /\ Rings \in [0..MaxJobs-1 -> Seq(Slots) \ {<<>>}]
  /\ CanFail \in BOOLEAN

Threads == 0..NThreads-1
Leader  == 0
Jobs    == 0..MaxJobs-1
None    == -1
NPhases == 4    \* quantize, gate_up, act, down

\* begin(): the steps start at 1, as the mailbox starts with 0 (2^32 jobs do not happen)
Step(k) == k + 1

VARIABLES
  \* the owner: where it is; jobs; the counters of jobs
  owner, jobs, nPosted, nDone, abortUpto, stop,
  \* the device: graphs launched, as the job and the number of its operations
  stream, op,
  \* the mailbox: the request's job, RING, DONE, the job each thread's share is for
  request, ring, done, partial,
  \* the team
  pc, myJob, myGo, layer, ph, missing, verdict,
  \* publish_go and wait_go
  goSeq, goVerdict, nParked, mtx, waiting,
  \* barrier
  barCount, barPhase, saved

ownerVars  == <<owner, jobs, nPosted, abortUpto, stop>>
deviceVars == <<stream, op, request, ring>>
goVars     == <<goSeq, goVerdict, nParked, mtx, waiting>>
barVars    == <<barCount, barPhase, saved>>
serveVars  == <<myJob, myGo, layer, ph>>
mailVars   == <<done, partial>>
leadVars   == <<missing, verdict>>
vars == <<ownerVars, nDone, deviceVars, mailVars, pc, serveVars, leadVars, goVars, barVars>>

Init ==
  /\ owner = "idle" /\ jobs = [x \in 0..JobCap-1 |-> None]
  /\ nPosted = 0 /\ nDone = 0 /\ abortUpto = None /\ stop = FALSE
  /\ stream = <<>> /\ op = 0
  /\ request = [s \in Slots |-> None]
  /\ ring = [s \in Slots |-> 0] /\ done = [s \in Slots |-> 0]
  /\ partial = [s \in Slots |-> [i \in Threads |-> None]]
  /\ pc = [i \in Threads |-> "job"]
  /\ myJob = [i \in Threads |-> 0] /\ myGo = [i \in Threads |-> 0]
  /\ layer = [i \in Threads |-> 0] /\ ph = [i \in Threads |-> 0]
  /\ missing = FALSE /\ verdict = 0
  /\ goSeq = 0 /\ goVerdict = 0 /\ nParked = 0 /\ mtx = None /\ waiting = {}
  /\ barCount = 0 /\ barPhase = 0 /\ saved = [i \in Threads |-> 0]

-----------------------------------------------------------------------------
(* The owner: process_ubatch, ~llama_context                               *)

teamVars == <<nDone, mailVars, pc, serveVars, leadVars, goVars, barVars>>

\* begin(): the entry is filled when a job is over for all of the team
Room == nPosted - nDone < JobCap

Begin ==
  /\ owner = "idle"
  /\ nPosted < MaxJobs
  /\ Room
  /\ jobs' = [jobs EXCEPT ![nPosted % JobCap] = nPosted]
  /\ owner' = "post"
  /\ UNCHANGED <<nPosted, abortUpto, stop, deviceVars, teamVars>>

NOps(k) == 2 * Len(Rings[k])

PostJob ==
  /\ owner = "post"
  /\ nPosted' = nPosted + 1
  /\ owner' = "launch"
  /\ UNCHANGED <<jobs, abortUpto, stop, deviceVars, teamVars>>

\* the graph has a ring and a join for each slot; a failed launch leaves some of them
Launch ==
  /\ owner = "launch"
  /\ \E n \in 0..NOps(nPosted - 1) :
       /\ n < NOps(nPosted - 1) => CanFail
       /\ stream' = Append(stream, [job |-> nPosted - 1, ops |-> n])
       /\ owner' = IF n < NOps(nPosted - 1) THEN "failed" ELSE "idle"
  /\ UNCHANGED <<jobs, nPosted, abortUpto, stop, op, request, ring, teamVars>>

\* synchronize(), then abort_pending()
Synchronized == stream = <<>>

AbortMore ==
  /\ owner \in {"failed", "quit"} /\ Synchronized
  /\ abortUpto' = IF nDone < nPosted THEN nPosted ELSE abortUpto
  /\ owner' = IF owner = "failed" THEN "aborting" ELSE "draining"
  /\ UNCHANGED <<jobs, nPosted, stop, deviceVars, teamVars>>
AbortPendingNot ==
  /\ owner \in {"failed", "quit"} /\ Synchronized
  /\ owner' = IF owner = "failed" THEN "idle" ELSE "stop"
  /\ UNCHANGED <<jobs, nPosted, abortUpto, stop, deviceVars, teamVars>>
AbortPending ==
  /\ owner \in {"failed", "quit"} /\ Synchronized
  /\ abortUpto' = IF nDone < nPosted THEN nPosted - 1 ELSE abortUpto
  /\ owner' = IF owner = "failed" THEN "aborting" ELSE "draining"
  /\ UNCHANGED <<jobs, nPosted, stop, deviceVars, teamVars>>

AllAborted ==
  /\ owner \in {"aborting", "draining"}
  /\ nDone >= nPosted
  /\ owner' = IF owner = "aborting" THEN "idle" ELSE "stop"
  /\ UNCHANGED <<jobs, nPosted, abortUpto, stop, deviceVars, teamVars>>

Quit ==
  /\ owner = "idle"
  /\ owner' = "quit"
  /\ UNCHANGED <<jobs, nPosted, abortUpto, stop, deviceVars, teamVars>>

Stop ==
  /\ owner = "stop"
  /\ stop' = TRUE
  /\ owner' = "join"
  /\ UNCHANGED <<jobs, nPosted, abortUpto, deviceVars, teamVars>>

Joined ==
  /\ owner = "join"
  /\ \A i \in Threads : pc[i] = "exited"
  /\ owner' = "gone"
  /\ UNCHANGED <<jobs, nPosted, abortUpto, stop, deviceVars, teamVars>>

Owner == Begin \/ PostJob \/ Launch \/ AbortPending \/ AllAborted \/ Stop \/ Joined

-----------------------------------------------------------------------------
(* The device.  op counts the steps of the graph it runs: the request of a *)
(* ring, its RING word, the join.                                          *)

Running(k, s, o) ==
  /\ stream # <<>>
  /\ stream[1].job = k
  /\ LET l == op \div 3 + 1 IN l <= Len(Rings[k]) /\ s = Rings[k][l] /\ op % 3 = o
Launched == stream # <<>> /\ op < (stream[1].ops \div 2) * 3 + 2 * (stream[1].ops % 2)

NextOp == op' = op + 1 /\ UNCHANGED stream

RingData(k, s) ==
  /\ Launched /\ Running(k, s, 0)
  /\ request' = [request EXCEPT ![s] = k]
  /\ NextOp
  /\ UNCHANGED <<ownerVars, teamVars, ring>>

RingWord(k, s) ==
  /\ Launched /\ Running(k, s, 1)
  /\ ring' = [ring EXCEPT ![s] = Step(k)]
  /\ NextOp
  /\ UNCHANGED <<ownerVars, teamVars, request>>

Join(k, s) ==
  /\ Launched /\ Running(k, s, 2)
  /\ done[s] = Step(k)
  /\ NextOp
  /\ UNCHANGED <<ownerVars, teamVars, request, ring>>

GraphDone ==
  /\ stream # <<>> /\ ~Launched
  /\ stream' = Tail(stream) /\ op' = 0
  /\ UNCHANGED <<ownerVars, teamVars, request, ring>>

Device == GraphDone \/ \E k \in Jobs, s \in Slots : RingData(k, s) \/ RingWord(k, s) \/ Join(k, s)

-----------------------------------------------------------------------------
(* The team                                                                *)

Goto(i, there) == pc' = [pc EXCEPT ![i] = there]

\* the entry of the ring and the slot that thread i works on
Entry(i)  == jobs[myJob[i] % JobCap]
Layers(i) == Rings[Entry(i)]
SlotOf(i) == Layers(i)[layer[i]]

\* serve(): the next decision
EnterLayer(i, l) ==
  /\ layer' = [layer EXCEPT ![i] = l]
  /\ myGo' = [myGo EXCEPT ![i] = @ + 1]
  /\ Goto(i, IF i = Leader THEN "ring" ELSE "go")

TakeJob(i) ==
  /\ pc[i] = "job"
  /\ nPosted > myJob[i]
  /\ EnterLayer(i, 1)
  /\ UNCHANGED <<ownerVars, nDone, deviceVars, mailVars, myJob, ph, leadVars, goVars, barVars>>

Exit(i) ==
  /\ pc[i] = "job"
  /\ nPosted <= myJob[i] /\ stop
  /\ Goto(i, "exited")
  /\ UNCHANGED <<ownerVars, nDone, deviceVars, mailVars, serveVars, leadVars, goVars, barVars>>

\* the leader: collect() finds the misses
SeeRing ==
  /\ pc[Leader] = "ring"
  /\ ring[SlotOf(Leader)] = Step(Entry(Leader))
  /\ verdict' = 1
  /\ missing' \in BOOLEAN
  /\ Goto(Leader, "verdict")
  /\ UNCHANGED <<ownerVars, nDone, deviceVars, mailVars, serveVars, goVars, barVars>>

NoRing ==
  /\ pc[Leader] = "ring"
  /\ ring[SlotOf(Leader)] # Step(Entry(Leader))
  /\ Goto(Leader, "abort?")
  /\ UNCHANGED <<ownerVars, nDone, deviceVars, mailVars, serveVars, leadVars, goVars, barVars>>

LookAbort ==
  /\ pc[Leader] = "abort?"
  /\ IF abortUpto >= myJob[Leader]
     THEN verdict' = 0 /\ Goto(Leader, "verdict")
     ELSE Goto(Leader, "ring") /\ UNCHANGED verdict
  /\ UNCHANGED <<ownerVars, nDone, deviceVars, mailVars, serveVars, missing, goVars, barVars>>

\* publish_go
Publish ==
  /\ pc[Leader] = "verdict"
  /\ goVerdict' = verdict
  /\ Goto(Leader, "seq")
  /\ UNCHANGED <<ownerVars, nDone, deviceVars, mailVars, serveVars, leadVars, goSeq, nParked,
                 mtx, waiting, barVars>>

CountGo ==
  /\ pc[Leader] = "seq"
  /\ goSeq' = goSeq + 1
  /\ Goto(Leader, "look")
  /\ UNCHANGED <<ownerVars, nDone, deviceVars, mailVars, serveVars, leadVars, goVerdict, nParked,
                 mtx, waiting, barVars>>

LookTwice ==
  /\ pc[Leader] = "look"
  /\ Goto(Leader, IF nParked > 1 THEN "notify" ELSE "decided")
  /\ UNCHANGED <<ownerVars, nDone, deviceVars, mailVars, serveVars, leadVars, goVars, barVars>>
LookParked ==
  /\ pc[Leader] = "look"
  /\ Goto(Leader, IF nParked > 0 THEN "notify" ELSE "decided")
  /\ UNCHANGED <<ownerVars, nDone, deviceVars, mailVars, serveVars, leadVars, goVars, barVars>>

NotifyGo ==
  /\ pc[Leader] = "notify"
  /\ mtx = None
  /\ waiting' = {}
  /\ Goto(Leader, "decided")
  /\ UNCHANGED <<ownerVars, nDone, deviceVars, mailVars, serveVars, leadVars, goSeq, goVerdict,
                 nParked, mtx, barVars>>

\* wait_go: a thread that has spun for long enough parks
SeeGo(i) ==
  /\ pc[i] = "go"
  /\ goSeq >= myGo[i]
  /\ Goto(i, "decided")
  /\ UNCHANGED <<ownerVars, nDone, deviceVars, mailVars, serveVars, leadVars, goVars, barVars>>

Park(i) ==
  /\ pc[i] = "go"
  /\ mtx = None /\ mtx' = i
  /\ Goto(i, "count")
  /\ UNCHANGED <<ownerVars, nDone, deviceVars, mailVars, serveVars, leadVars, goSeq, goVerdict,
                 nParked, waiting, barVars>>

CountParked(i) ==
  /\ pc[i] = "count"
  /\ nParked' = nParked + 1
  /\ Goto(i, "predicate")
  /\ UNCHANGED <<ownerVars, nDone, deviceVars, mailVars, serveVars, leadVars, goSeq, goVerdict,
                 mtx, waiting, barVars>>

\* the predicate of cv_go.wait, first and at every wakeup
WaitGo(i) ==
  /\ pc[i] = "predicate"
  /\ goSeq < myGo[i]
  /\ waiting' = waiting \cup {i}
  /\ mtx' = None
  /\ Goto(i, "parked")
  /\ UNCHANGED <<ownerVars, nDone, deviceVars, mailVars, serveVars, leadVars, goSeq, goVerdict,
                 nParked, barVars>>

Unpark(i) ==
  /\ pc[i] = "predicate"
  /\ goSeq >= myGo[i]
  /\ nParked' = nParked - 1
  /\ mtx' = None
  /\ Goto(i, "decided")
  /\ UNCHANGED <<ownerVars, nDone, deviceVars, mailVars, serveVars, leadVars, goSeq, goVerdict,
                 waiting, barVars>>

Wakeup(i) ==
  /\ pc[i] = "parked"
  /\ i \notin waiting
  /\ mtx = None /\ mtx' = i
  /\ Goto(i, "predicate")
  /\ UNCHANGED <<ownerVars, nDone, deviceVars, mailVars, serveVars, leadVars, goSeq, goVerdict,
                 nParked, waiting, barVars>>

-----------------------------------------------------------------------------
(* serve(), after the decision.  ph is the phase under way; 0 stands for   *)
(* the end of the job, NPhases for the last part of the layer.             *)

Decide(i) ==
  /\ pc[i] = "decided"
  /\ \/ /\ goVerdict = 0            \* the job is abandoned
        /\ Goto(i, "barrier") /\ ph' = [ph EXCEPT ![i] = 0] /\ UNCHANGED partial
     \/ /\ goVerdict # 0 /\ missing
        /\ Goto(i, "work") /\ ph' = [ph EXCEPT ![i] = 1] /\ UNCHANGED partial
     \/ /\ goVerdict # 0 /\ ~missing \* the partial is zero: the leader writes all of it
        /\ Goto(i, "barrier") /\ ph' = [ph EXCEPT ![i] = NPhases]
        /\ partial' = IF i = Leader
                      THEN [partial EXCEPT ![SlotOf(i)] = [j \in Threads |-> myJob[i]]]
                      ELSE partial
  /\ UNCHANGED <<ownerVars, nDone, deviceVars, done, myJob, myGo, layer, leadVars, goVars, barVars>>

\* a share of the phase; down() writes the partial
Work(i) ==
  /\ pc[i] = "work"
  /\ partial' = IF ph[i] = NPhases THEN [partial EXCEPT ![SlotOf(i)][i] = request[SlotOf(i)]]
                                   ELSE partial
  /\ Goto(i, "barrier")
  /\ UNCHANGED <<ownerVars, nDone, deviceVars, done, serveVars, leadVars, goVars, barVars>>

\* barrier(); with one thread there is nothing to wait for
ReadPhase(i) ==
  /\ pc[i] = "barrier"
  /\ saved' = [saved EXCEPT ![i] = barPhase]
  /\ Goto(i, IF NThreads = 1 THEN "through" ELSE "arrive")
  /\ UNCHANGED <<ownerVars, nDone, deviceVars, mailVars, serveVars, leadVars, goVars, barCount,
                 barPhase>>

ArriveEarly(i) ==
  /\ pc[i] = "arrive"
  /\ barCount' = barCount + 1
  /\ Goto(i, IF barCount = NThreads - 2 THEN "reset" ELSE "spin")
  /\ UNCHANGED <<ownerVars, nDone, deviceVars, mailVars, serveVars, leadVars, goVars, barPhase,
                 saved>>
Arrive(i) ==
  /\ pc[i] = "arrive"
  /\ barCount' = barCount + 1
  /\ Goto(i, IF barCount = NThreads - 1 THEN "reset" ELSE "spin")
  /\ UNCHANGED <<ownerVars, nDone, deviceVars, mailVars, serveVars, leadVars, goVars, barPhase,
                 saved>>

Reset(i) ==
  /\ pc[i] = "reset"
  /\ barCount' = 0
  /\ Goto(i, "flip")
  /\ UNCHANGED <<ownerVars, nDone, deviceVars, mailVars, serveVars, leadVars, goVars, barPhase,
                 saved>>

\* the phase is compared with the last one only: its parity is enough
Flip(i) ==
  /\ pc[i] = "flip"
  /\ barPhase' = 1 - barPhase
  /\ Goto(i, "through")
  /\ UNCHANGED <<ownerVars, nDone, deviceVars, mailVars, serveVars, leadVars, goVars, barCount,
                 saved>>

Spin(i) ==
  /\ pc[i] = "spin"
  /\ barPhase # saved[i]
  /\ Goto(i, "through")
  /\ UNCHANGED <<ownerVars, nDone, deviceVars, mailVars, serveVars, leadVars, goVars, barVars>>

\* after the barrier: the next phase; DONE and the next layer; the end of the job
NextPhase(i) ==
  /\ pc[i] = "through" /\ ph[i] \in 1..NPhases-1
  /\ ph' = [ph EXCEPT ![i] = @ + 1]
  /\ Goto(i, "work")
  /\ UNCHANGED <<ownerVars, nDone, deviceVars, mailVars, myJob, myGo, layer, leadVars, goVars,
                 barVars>>

EndLayer(i) ==
  /\ pc[i] = "through" /\ ph[i] = NPhases
  /\ done' = IF i = Leader THEN [done EXCEPT ![SlotOf(i)] = Step(Entry(i))] ELSE done
  /\ IF layer[i] < Len(Layers(i))
     THEN EnterLayer(i, layer[i] + 1) /\ UNCHANGED ph
     ELSE Goto(i, "barrier") /\ ph' = [ph EXCEPT ![i] = 0] /\ UNCHANGED <<layer, myGo>>
  /\ UNCHANGED <<ownerVars, nDone, deviceVars, partial, myJob, leadVars, goVars, barVars>>

EndJob(i) ==
  /\ pc[i] = "through" /\ ph[i] = 0
  /\ nDone' = IF i = Leader THEN myJob[i] + 1 ELSE nDone
  /\ myJob' = [myJob EXCEPT ![i] = @ + 1]
  /\ Goto(i, "job")
  /\ UNCHANGED <<ownerVars, deviceVars, mailVars, myGo, layer, ph, leadVars, goVars, barVars>>

Lead == SeeRing \/ NoRing \/ LookAbort \/ Publish \/ CountGo \/ LookParked \/ NotifyGo

Worker(i) ==
  \/ TakeJob(i) \/ Exit(i) \/ SeeGo(i)
  \/ CountParked(i) \/ WaitGo(i) \/ Unpark(i) \/ Wakeup(i)
  \/ Decide(i) \/ Work(i)
  \/ ReadPhase(i) \/ Arrive(i) \/ Reset(i) \/ Flip(i) \/ Spin(i)
  \/ NextPhase(i) \/ EndLayer(i) \/ EndJob(i)

Next == Owner \/ Quit \/ Device \/ Lead \/ \E i \in Threads : Worker(i) \/ Park(i)

Spec == Init /\ [][Next]_vars

-----------------------------------------------------------------------------
\* Every thread of the process and the device go on; no thread needs to park.
Fairness ==
  /\ WF_vars(Owner) /\ WF_vars(Device) /\ WF_vars(Lead)
  /\ \A i \in Threads : WF_vars(Worker(i)) /\ SF_vars(Wakeup(i))

FairSpec == Spec /\ Fairness

-----------------------------------------------------------------------------
(* Properties                                                              *)

InBarrier == {"barrier", "arrive", "reset", "flip", "spin", "through"}
Places == InBarrier \cup
          {"job", "exited", "ring", "abort?", "verdict", "seq", "look", "notify", "go", "count",
           "predicate", "parked", "decided", "work"}
\* thread i is between taking a job and the barrier at its end
Inside(i) == pc[i] \notin {"job", "exited"} /\ (pc[i] \in InBarrier => ph[i] # 0)
InStream(k) == \E n \in DOMAIN stream : stream[n].job = k

\* Every variable has its type.
TypeOK ==
  /\ owner \in {"idle", "post", "launch", "failed", "aborting", "quit", "draining", "stop", "join",
                "gone"}
  /\ jobs \in [0..JobCap-1 -> Jobs \cup {None}]
  /\ nPosted \in 0..MaxJobs /\ nDone \in 0..nPosted /\ nPosted - nDone <= JobCap
  /\ abortUpto \in Jobs \cup {None} /\ stop \in BOOLEAN
  /\ stream \in Seq([job : Jobs, ops : Nat]) /\ op \in Nat
  /\ request \in [Slots -> Jobs \cup {None}]
  /\ ring \in [Slots -> 0..MaxJobs] /\ done \in [Slots -> 0..MaxJobs]
  /\ partial \in [Slots -> [Threads -> Jobs \cup {None}]]
  /\ pc \in [Threads -> Places]
  /\ myJob \in [Threads -> 0..MaxJobs] /\ myGo \in [Threads -> Nat]
  /\ layer \in [Threads -> Nat] /\ ph \in [Threads -> 0..NPhases]
  /\ missing \in BOOLEAN /\ verdict \in 0..1 /\ goVerdict \in 0..1
  /\ goSeq \in Nat /\ nParked \in 0..NThreads /\ mtx \in Threads \cup {None}
  /\ waiting \subseteq Threads
  /\ barCount \in 0..NThreads /\ barPhase \in 0..1 /\ saved \in [Threads -> 0..1]

\* The join that a graph passes adds a partial whose every share is of this graph's own request:
\* neither a late DONE of an earlier graph nor a share still missing lets it through.
JoinsItsOwn ==
  \A k \in Jobs, s \in Slots :
    Launched /\ Running(k, s, 2) /\ done[s] = Step(k) => \A i \in Threads : partial[s][i] = k

\* A job's entry is not reused while a thread is inside the job (the comment in worker()).
EntryKept == \A i \in Threads : Inside(i) => Entry(i) = myJob[i]

\* The decision a thread acts on is the one of its own layer (the comment in wait_go()).
DecideAsOne == \A i \in Threads : pc[i] = "decided" => goSeq = myGo[i] /\ goVerdict = verdict

\* A job the leader abandons has no graph left that could wait for it (process_ubatch()).
AbandonsTheLost == pc[Leader] = "verdict" /\ verdict = 0 => ~InStream(myJob[Leader])

\* Every graph that was launched, or a part of it, ends: no join waits for ever.
EveryGraphEnds == stream # <<>> ~> stream = <<>>

\* The destructor returns.
ShutdownEnds == owner = "quit" ~> owner = "gone"
=============================================================================
