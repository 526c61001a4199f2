--------------------------- MODULE DoorbellProofs ---------------------------
(***************************************************************************)
(* Four facts of the doorbell, for any number of threads, jobs and layers. *)
(*                                                                         *)
(* A job that the leader abandons has no graph on the device.  The team    *)
(* acts as one: a barrier cuts what its threads do into parts, and they    *)
(* are all in the same part; so the entry of a job is kept while a thread  *)
(* is in it, and a thread acts on the decision of its own layer.  A join   *)
(* adds the shares of its own graph's request.                             *)
(***************************************************************************)
EXTENDS MoeDoorbell, FiniteSetTheorems, TLAPS

\* Abandoned jobs.  The owner aborts when the device is idle, and only what is posted by then.
\* The jobs on the device are later than the ones given up, and the leader only abandons these.
IInv ==
  /\ nPosted \in Nat /\ abortUpto \in Int /\ abortUpto < nPosted
  /\ owner = "launch" => abortUpto < nPosted - 1
  /\ stream \in Seq([job : Int, ops : Int])
  /\ \A n \in DOMAIN stream : abortUpto < stream[n].job
  /\ pc \in [Threads -> Places] /\ myJob \in [Threads -> Int]
  /\ pc[Leader] = "verdict" /\ verdict = 0 => myJob[Leader] <= abortUpto

\* There is a leader.
LEMMA LeaderIsThread == Leader \in Threads
  BY DoorbellAssumption DEF Leader, Threads

LEMMA InitIInv == Init => IInv
  BY LeaderIsThread DEF Init, IInv, Leader, None, Places

\* The owner: only AbortPending gives jobs up, and it finds the device idle.
LEMMA OwnerIInv == IInv /\ (Owner \/ Quit) => IInv'
<1> SUFFICES ASSUME IInv, Owner \/ Quit PROVE IInv'
  OBVIOUS
<1> USE DEF IInv, teamVars, deviceVars, serveVars, leadVars
<1>1. CASE Begin
  BY <1>1 DEF Begin
<1>2. CASE PostJob
  BY <1>2 DEF PostJob
<1>3. CASE Launch
  <2>1. PICK n \in Int : stream' = Append(stream, [job |-> nPosted - 1, ops |-> n])
    BY <1>3 DEF Launch
  <2>2. owner' \in {"idle", "failed"}
    BY <1>3 DEF Launch
  <2>3. owner = "launch" /\ UNCHANGED <<nPosted, abortUpto, pc, myJob, verdict>>
    BY <1>3 DEF Launch
  <2>4. [job |-> nPosted - 1, ops |-> n] \in [job : Int, ops : Int]
    OBVIOUS
  <2>5. stream' \in Seq([job : Int, ops : Int])
    BY <2>1, <2>4
  <2>6. ASSUME NEW m \in DOMAIN stream' PROVE abortUpto < stream'[m].job
    <3>1. CASE m = Len(stream) + 1
      BY <2>1, <2>3, <2>4, <3>1
    <3>2. CASE m \in DOMAIN stream
      BY <2>1, <3>2
    <3>. QED
      BY <2>1, <2>4, <3>1, <3>2
  <2>. QED
    BY <2>2, <2>3, <2>5, <2>6
<1>4. CASE AbortPending
  <2>1. stream' = <<>> /\ owner' # "launch" /\ UNCHANGED <<nPosted, pc, myJob, verdict>>
    BY <1>4 DEF AbortPending, Synchronized
  <2>2. abortUpto' \in {abortUpto, nPosted - 1}
    BY <1>4 DEF AbortPending
  <2>. QED
    BY <2>1, <2>2, LeaderIsThread
<1>5. CASE AllAborted
  BY <1>5 DEF AllAborted
<1>6. CASE Stop
  BY <1>6 DEF Stop
<1>7. CASE Joined
  BY <1>7 DEF Joined
<1>8. CASE Quit
  BY <1>8 DEF Quit
<1>. QED
  BY <1>1, <1>2, <1>3, <1>4, <1>5, <1>6, <1>7, <1>8 DEF Owner

\* The device: a graph that ends leaves the stream.
LEMMA DeviceIInv == IInv /\ Device => IInv'
<1> SUFFICES ASSUME IInv, Device PROVE IInv'
  OBVIOUS
<1> USE DEF IInv, teamVars, ownerVars, serveVars, leadVars
<1>1. CASE GraphDone
  BY <1>1 DEF GraphDone
<1>2. ASSUME NEW k \in Jobs, NEW s \in Slots, RingData(k, s) \/ RingWord(k, s) \/ Join(k, s)
      PROVE  IInv'
  BY <1>2 DEF RingData, RingWord, Join, NextOp
<1>. QED
  BY <1>1, <1>2 DEF Device

\* The leader: it gives up a job only when it saw abort_upto at this job or a later one.
LEMMA LeadIInv == IInv /\ Lead => IInv'
<1> SUFFICES ASSUME IInv, Lead PROVE IInv'
  OBVIOUS
<1> USE LeaderIsThread DEF IInv, ownerVars, deviceVars, serveVars, leadVars, Goto, Places, InBarrier
<1>1. CASE SeeRing
  BY <1>1 DEF SeeRing
<1>2. CASE NoRing
  BY <1>2 DEF NoRing
<1>3. CASE LookAbort
  BY <1>3 DEF LookAbort
<1>4. CASE Publish
  BY <1>4 DEF Publish
<1>5. CASE CountGo
  BY <1>5 DEF CountGo
<1>6. CASE LookParked
  BY <1>6 DEF LookParked
<1>7. CASE NotifyGo
  BY <1>7 DEF NotifyGo
<1>. QED
  BY <1>1, <1>2, <1>3, <1>4, <1>5, <1>6, <1>7 DEF Lead

\* The rest of serve() does not bring the leader to a verdict.
LEMMA WorkerIInv == ASSUME NEW i \in Threads, IInv, Worker(i) \/ Park(i) PROVE IInv'
<1>1. UNCHANGED <<owner, nPosted, abortUpto, stream, verdict>>
  BY DEF Worker, Park, TakeJob, Exit, SeeGo, CountParked, WaitGo, Unpark, Wakeup, Decide, Work,
         ReadPhase, Arrive, Reset, Flip, Spin, NextPhase, EndLayer, EndJob, ownerVars, deviceVars,
         leadVars
<1>2. \E there \in Places \ {"verdict"} : pc' = [pc EXCEPT ![i] = there]
  <2> USE DEF Goto, Places, InBarrier
  <2>1. CASE TakeJob(i)
    BY <2>1 DEF TakeJob, EnterLayer
  <2>2. CASE EndLayer(i)
    BY <2>2 DEF EndLayer, EnterLayer
  <2>3. CASE Decide(i)
    BY <2>3 DEF Decide
  <2>4. CASE ReadPhase(i)
    BY <2>4 DEF ReadPhase
  <2>5. CASE Arrive(i)
    BY <2>5 DEF Arrive
  <2>6. CASE Exit(i) \/ SeeGo(i) \/ Park(i) \/ CountParked(i) \/ WaitGo(i) \/ Unpark(i) \/ Wakeup(i)
    BY <2>6 DEF Exit, SeeGo, Park, CountParked, WaitGo, Unpark, Wakeup
  <2>7. CASE Work(i) \/ Reset(i) \/ Flip(i) \/ Spin(i) \/ NextPhase(i) \/ EndJob(i)
    BY <2>7 DEF Work, Reset, Flip, Spin, NextPhase, EndJob
  <2>. QED
    BY <2>1, <2>2, <2>3, <2>4, <2>5, <2>6, <2>7 DEF Worker
<1>3. \/ myJob' = myJob
      \/ myJob' = [myJob EXCEPT ![i] = @ + 1] /\ pc[i] = "through"
  BY DEF Worker, Park, TakeJob, Exit, SeeGo, CountParked, WaitGo, Unpark, Wakeup, Decide, Work,
         ReadPhase, Arrive, Reset, Flip, Spin, NextPhase, EndLayer, EndJob, serveVars
<1>. QED
  BY <1>1, <1>2, <1>3, LeaderIsThread DEF IInv

LEMMA NextIInv == IInv /\ [Next]_vars => IInv'
<1> SUFFICES ASSUME IInv, [Next]_vars PROVE IInv'
  OBVIOUS
<1>1. CASE UNCHANGED vars
  BY <1>1 DEF vars, ownerVars, deviceVars, serveVars, leadVars, IInv
<1>. QED
  BY <1>1, OwnerIInv, DeviceIInv, LeadIInv, WorkerIInv DEF Next

\* No graph waits, or will wait, for a job that the leader abandons.
THEOREM AbandonedHasNoGraph == Spec => []AbandonsTheLost
<1>1. IInv => AbandonsTheLost
  BY LeaderIsThread DEF IInv, AbandonsTheLost, InStream
<1>. QED
  BY <1>1, InitIInv, NextIInv, PTL DEF Spec
-----------------------------------------------------------------------------
(* The team acts as one, for any number of threads.  A barrier cuts what a *)
(* thread does into parts: a part is named by its job, its layer, what is  *)
(* done in it (1: the decision and what follows at once, 2..4: a phase, 5: *)
(* the end of the job) and the number of its decision.  A thread that the  *)
(* barrier released is in the part it goes on with.                        *)

Leading   == {"ring", "abort?", "verdict", "seq", "look", "notify"}
Following == {"go", "count", "predicate", "parked"}
Away(i)   == pc[i] \in {"job", "exited"}
Past(i)   == pc[i] \in InBarrier \cup {"work"}
MoreLayers(i) == layer[i] < Len(Rings[myJob[i]])

Released(i) == pc[i] = "through" \/ (pc[i] = "spin" /\ saved[i] # barPhase)
JobOver(i)  == Released(i) /\ ph[i] = 0
Onward(i)   == Released(i) /\ (ph[i] = 0 \/ (ph[i] = NPhases /\ MoreLayers(i)))

JobOf(i)   == IF JobOver(i) THEN myJob[i] + 1 ELSE myJob[i]
LayerOf(i) == IF Away(i) \/ JobOver(i) THEN 1 ELSE IF Onward(i) THEN layer[i] + 1 ELSE layer[i]
KindOf(i)  == IF ~Past(i) \/ Onward(i) THEN 1
              ELSE IF Released(i) THEN ph[i] + 1
              ELSE IF ph[i] = 0 THEN (IF goVerdict = 0 THEN 1 ELSE 5)
              ELSE IF ph[i] = NPhases /\ ~missing THEN 1 ELSE ph[i]
GoOf(i)    == IF Away(i) \/ Onward(i) THEN myGo[i] + 1 ELSE myGo[i]
PartOf(i)  == <<JobOf(i), LayerOf(i), KindOf(i), GoOf(i)>>

TeamTypes ==
  /\ pc \in [Threads -> Places] /\ saved \in [Threads -> 0..1] /\ barPhase \in 0..1
  /\ myJob \in [Threads -> Nat] /\ myGo \in [Threads -> Nat]
  /\ layer \in [Threads -> Nat] /\ ph \in [Threads -> 0..NPhases]
  /\ goSeq \in Nat /\ nPosted \in Nat /\ nDone \in Nat /\ barCount \in Nat
  /\ jobs \in [0..JobCap-1 -> Int]
  /\ \A i \in Threads : /\ i = Leader => pc[i] \notin Following
                        /\ i # Leader => pc[i] \notin Leading
                        /\ pc[i] = "work" => ph[i] # 0

\* The barrier lets a thread through when all are there, and counts those that wait.
Waiting == {i \in Threads : pc[i] = "spin" /\ saved[i] = barPhase}
Barrier ==
  /\ \A i \in Threads : pc[i] \in {"arrive", "reset", "flip"} => saved[i] = barPhase
  /\ \A i \in Threads : pc[i] \in {"reset", "flip"} => Threads \ {i} \subseteq Waiting
  /\ \A i \in Threads : pc[i] = "flip" => barCount = 0
  /\ (\A i \in Threads : pc[i] \notin {"reset", "flip"}) => barCount = Cardinality(Waiting)

InStep == \A i, j \in Threads : PartOf(i) = PartOf(j)

\* What a thread that decided may rely on until it goes on to the next decision.
Decided(i) == pc[i] = "decided" \/ (Past(i) /\ ~Onward(i))
SettledFor(i) ==
  /\ Decided(i) => goSeq = GoOf(i)
  /\ Past(i) /\ ~Onward(i) => /\ ph[i] # 0 => goVerdict # 0
                              /\ ph[i] \in 1..NPhases-1 => missing
Settled == \A i \in Threads : SettledFor(i)
ToCount == Away(Leader) \/ Onward(Leader) \/ pc[Leader] \in {"ring", "abort?", "verdict", "seq"}
Counted ==
  /\ goSeq = IF ToCount THEN GoOf(Leader) - 1 ELSE GoOf(Leader)
  /\ pc[Leader] # "verdict" => goVerdict = verdict

\* The entries of the jobs that are not over for all.
Entries ==
  /\ nDone = myJob[Leader] /\ nDone <= nPosted /\ nPosted - nDone <= JobCap
  /\ \A i \in Threads : ~Away(i) => myJob[i] < nPosted
  /\ \A x \in nDone..nPosted-1 : jobs[x % JobCap] = x
  /\ owner = "post" => jobs[nPosted % JobCap] = nPosted /\ nPosted - nDone < JobCap

Team == TeamTypes /\ Barrier /\ InStep /\ Settled /\ Counted /\ Entries

\* There is no entry for two jobs whose numbers are less than JobCap apart.
LEMMA Multiples ==
  ASSUME NEW c \in Nat \ {0}, NEW q \in Int, NEW p \in Int, c * q - c * p \in 1..c-1
  PROVE  FALSE
<1>1. c * q - c * p = c * (q - p)
  OBVIOUS
<1>2. CASE q - p <= 0
  BY <1>1, <1>2
<1>3. CASE q - p >= 1
  BY <1>1, <1>3
<1>. QED BY <1>2, <1>3

LEMMA OwnEntry ==
  ASSUME NEW a \in Nat, NEW b \in Nat, NEW c \in Nat \ {0}, a < b, b - a < c
  PROVE  (a % c) # (b % c)
<1> SUFFICES ASSUME a % c = b % c PROVE FALSE
  OBVIOUS
<1>1. \A x \in Nat : (x % c) \in 0..c-1 /\ x = c * (x \div c) + (x % c) /\ (x \div c) \in Int
  OBVIOUS
<1> DEFINE q == b \div c
           p == a \div c
<1>2. q \in Int /\ p \in Int /\ b - a = c * q - c * p
  BY <1>1
<1> HIDE DEF q, p
<1>. QED BY <1>2, Multiples

LEMMA InitTeam == Init => Team
<1> SUFFICES ASSUME Init PROVE Team
  OBVIOUS
<1> USE DoorbellAssumption, LeaderIsThread DEF Init
<1>1. TeamTypes
  BY DEF TeamTypes, Places, InBarrier, Following, Leading, None, NPhases
<1>2. Barrier
  <2>1. Waiting = {}
    BY DEF Waiting
  <2>. QED BY <2>1, FS_EmptySet DEF Barrier
<1>3. /\ \A i \in Threads : Away(i) /\ ~Past(i) /\ ~Released(i)
      /\ \A i \in Threads : PartOf(i) = <<0, 1, 1, 1>>
  BY DEF Away, Past, Released, PartOf, JobOf, LayerOf, KindOf, GoOf, JobOver, Onward, InBarrier
<1>4. InStep /\ Settled
  BY <1>3 DEF InStep, Settled, SettledFor, Decided
<1>5. Counted
  BY <1>3 DEF Counted, ToCount, GoOf
<1>6. Entries
  BY <1>3 DEF Entries
<1>. QED BY <1>1, <1>2, <1>4, <1>5, <1>6 DEF Team

\* A thread may act on the decision once it is counted.
LEMMA NotYetCounted ==
  ASSUME Team, ToCount PROVE \A i \in Threads : ~Decided(i)
<1> SUFFICES ASSUME NEW i \in Threads, Decided(i) PROVE FALSE
  OBVIOUS
<1>1. goSeq = GoOf(i) /\ goSeq = GoOf(Leader) - 1
  BY DEF Team, Settled, SettledFor, Counted
<1>2. GoOf(i) = GoOf(Leader)
  BY LeaderIsThread DEF Team, InStep, PartOf
<1>3. GoOf(i) \in Int
  BY DEF Team, TeamTypes, GoOf
<1>4. GoOf(i) = GoOf(i) - 1
  BY <1>1, <1>2
<1>5. \A x \in Int : x # x - 1
  OBVIOUS
<1>. QED BY <1>3, <1>4, <1>5

-----------------------------------------------------------------------------
\* The steps of a thread that leave the others, the barrier's phase and the decision alone.
Alone(i) ==
  /\ barPhase' = barPhase /\ goVerdict' = goVerdict /\ missing' = missing
  /\ \A j \in Threads \ {i} : /\ pc'[j] = pc[j] /\ saved'[j] = saved[j] /\ ph'[j] = ph[j]
                              /\ myJob'[j] = myJob[j] /\ myGo'[j] = myGo[j]
                              /\ layer'[j] = layer[j]

LEMMA OthersStay ==
  ASSUME NEW i \in Threads, Alone(i), NEW j \in Threads \ {i}
  PROVE  /\ PartOf(j)' = PartOf(j) /\ GoOf(j)' = GoOf(j)
         /\ Decided(j)' <=> Decided(j)
         /\ Past(j)' <=> Past(j)
         /\ Onward(j)' <=> Onward(j)
         /\ Away(j)' <=> Away(j)
         /\ Released(j)' <=> Released(j)
         /\ JobOver(j)' <=> JobOver(j)
<1>1. /\ Released(j)' <=> Released(j)
      /\ MoreLayers(j)' <=> MoreLayers(j)
      /\ Away(j)' <=> Away(j)
      /\ Past(j)' <=> Past(j)
  BY DEF Alone, Released, MoreLayers, Away, Past
<1>2. /\ JobOver(j)' <=> JobOver(j)
      /\ Onward(j)' <=> Onward(j)
  BY <1>1 DEF Alone, JobOver, Onward
<1>3. JobOf(j)' = JobOf(j) /\ LayerOf(j)' = LayerOf(j) /\ KindOf(j)' = KindOf(j) /\ GoOf(j)' = GoOf(j)
  BY <1>1, <1>2 DEF Alone, JobOf, LayerOf, KindOf, GoOf
<1>. QED BY <1>1, <1>2, <1>3 DEF Alone, PartOf, Decided

LEMMA StaysInStep ==
  ASSUME Team, NEW i \in Threads, Alone(i), TeamTypes', Barrier', Entries',
         PartOf(i)' = PartOf(i),
         SettledFor(i)',
         goSeq' = goSeq, verdict' = verdict,
         i = Leader => (ToCount' <=> ToCount) /\ pc[i] # "verdict" /\ pc'[i] # "verdict"
  PROVE  Team'
<1>1. GoOf(i)' = GoOf(i)
  BY DEF PartOf
<1>2. InStep'
  <2>1. \A j \in Threads : PartOf(j)' = PartOf(j)
    BY OthersStay
  <2>. QED BY <2>1 DEF InStep, Team
<1>3. Settled'
  <2>1. ASSUME NEW j \in Threads \ {i} PROVE SettledFor(j)'
    <3>1. SettledFor(j)
      BY DEF Team, Settled
    <3>. QED BY <3>1, OthersStay DEF Alone, SettledFor
  <2>. QED BY <2>1 DEF Settled
<1>4. Counted'
  <2>1. GoOf(Leader)' = GoOf(Leader)
    BY <1>1, OthersStay, LeaderIsThread
  <2>2. (ToCount' <=> ToCount) /\ (pc[Leader] # "verdict" <=> pc'[Leader] # "verdict")
    <3>1. CASE i = Leader
      BY <3>1
    <3>2. CASE i # Leader
      BY <3>2, OthersStay, LeaderIsThread DEF Alone, ToCount
    <3>. QED BY <3>1, <3>2
  <2>. QED BY <2>1, <2>2 DEF Team, Counted, Alone
<1>. QED BY <1>2, <1>3, <1>4 DEF Team

\* Steps that leave the barrier as it is.
LEMMA AwayFromBarrier ==
  ASSUME Team, NEW i \in Threads, NEW there \in Places \ {"arrive", "reset", "flip", "spin"},
         pc' = [pc EXCEPT ![i] = there], UNCHANGED <<barPhase, barCount, saved>>,
         pc[i] \notin {"arrive", "reset", "flip"}, i \notin Waiting
  PROVE  Barrier'
<1>1. pc \in [Threads -> Places]
  BY DEF Team, TeamTypes
<1>2. Waiting' = Waiting
  BY <1>1 DEF Waiting
<1>3. \A j \in Threads : pc[j] \notin {"reset", "flip"}
  BY DEF Team, Barrier
<1>4. \A j \in Threads : j # i => pc'[j] = pc[j]
  BY <1>1
<1>5. pc'[i] = there
  BY <1>1
<1>. QED BY <1>2, <1>3, <1>4, <1>5 DEF Team, Barrier

LEMMA SameEntries ==
  ASSUME Team, NEW i \in Threads, UNCHANGED <<owner, jobs, nPosted, nDone, myJob>>,
         \A j \in Threads \ {i} : pc'[j] = pc[j], Away(i)' \/ myJob[i] < nPosted
  PROVE  Entries'
<1>1. \A j \in Threads \ {i} : Away(j)' <=> Away(j)
  BY DEF Away
<1>. QED BY <1>1 DEF Team, Entries

\* The owner's entry for the job of a thread that is in it.
LEMMA EntryOfJob ==
  ASSUME Team, NEW i \in Threads, ~Away(i), ~JobOver(i)
  PROVE  Entry(i) = myJob[i]
<1>1. JobOf(i) = myJob[i] /\ JobOf(i) = JobOf(Leader)
  BY LeaderIsThread DEF JobOf, Team, InStep, PartOf
<1>2. nDone = myJob[Leader] /\ myJob[Leader] <= JobOf(Leader) /\ myJob[i] < nPosted
  BY LeaderIsThread DEF Team, TeamTypes, Entries, JobOf
<1>3. nDone <= myJob[i]
  BY <1>1, <1>2
<1>4. myJob[i] \in Int /\ nDone \in Int /\ nPosted \in Int
  BY DEF Team, TeamTypes
<1>5. myJob[i] \in nDone..nPosted-1
  BY <1>2, <1>3, <1>4
<1>. QED BY <1>5 DEF Entry, Team, Entries

\* wait_job() and wait_go()
LEMMA WaitsInStep ==
  ASSUME Team, NEW i \in Threads,
         \/ TakeJob(i) \/ Exit(i) \/ SeeGo(i) \/ CountParked(i) \/ WaitGo(i) \/ Unpark(i)
         \/ Wakeup(i) \/ Park(i)
  PROVE  Team'
<1> DEFINE here == pc[i]
<1>1. PICK there \in {"ring", "go", "exited", "decided", "predicate", "parked", "count"} :
        pc' = [pc EXCEPT ![i] = there]
  BY DEF TakeJob, EnterLayer, Exit, SeeGo, CountParked, WaitGo, Unpark, Wakeup, Park, Goto
<1>2. pc[i] \in {"job", "go", "count", "predicate", "parked"}
  BY DEF TakeJob, Exit, SeeGo, CountParked, WaitGo, Unpark, Wakeup, Park
<1>3. UNCHANGED <<owner, jobs, nPosted, nDone, myJob, ph, verdict, missing, goSeq, goVerdict,
                  barCount, barPhase, saved>>
  BY DEF TakeJob, EnterLayer, Exit, SeeGo, CountParked, WaitGo, Unpark, Wakeup, Park,
         ownerVars, serveVars, leadVars, goVars, barVars
<1>4. \/ UNCHANGED <<layer, myGo>>
      \/ /\ TakeJob(i) /\ layer' = [layer EXCEPT ![i] = 1] /\ myGo' = [myGo EXCEPT ![i] = @ + 1]
  BY DEF TakeJob, EnterLayer, Exit, SeeGo, CountParked, WaitGo, Unpark, Wakeup, Park, serveVars
<1>5. TeamTypes'
  <2>1. /\ i = Leader => there \notin Following
        /\ i # Leader => there \notin Leading
    BY <1>1, <1>2 DEF TakeJob, EnterLayer, Exit, SeeGo, CountParked, WaitGo, Unpark, Wakeup, Park,
                      Goto, Team, TeamTypes, Following, Leading
  <2>2. pc' \in [Threads -> Places]
    BY <1>1 DEF Team, TeamTypes, Places
  <2>3. myGo' \in [Threads -> Nat] /\ layer' \in [Threads -> Nat]
    <3>1. myGo \in [Threads -> Nat] /\ layer \in [Threads -> Nat] /\ myGo[i] + 1 \in Nat
      BY DEF Team, TeamTypes
    <3>. QED BY <1>4, <3>1
  <2>4. \A j \in Threads : /\ j = Leader => pc'[j] \notin Following
                           /\ j # Leader => pc'[j] \notin Leading
                           /\ pc'[j] = "work" => ph[j] # 0
    BY <1>1, <2>1 DEF Team, TeamTypes
  <2>. QED BY <1>3, <2>2, <2>3, <2>4 DEF Team, TeamTypes
<1>6. Alone(i)
  BY <1>1, <1>3, <1>4 DEF Alone, Team, TeamTypes
<1>7. Barrier'
  BY <1>1, <1>2, <1>3, AwayFromBarrier DEF Waiting, Places
<1>8. Entries'
  <2>1. CASE pc[i] = "job"
    <3>1. myJob[i] < nPosted \/ pc'[i] = "exited"
      BY <1>1, <2>1 DEF TakeJob, Exit, SeeGo, CountParked, WaitGo, Unpark, Wakeup, Park, Goto,
                        Team, TeamTypes
    <3>. QED BY <1>3, <1>6, <3>1, SameEntries DEF Alone, Away
  <2>2. CASE pc[i] # "job"
    <3>1. myJob[i] < nPosted
      BY <1>2, <2>2 DEF Away, Team, Entries
    <3>. QED BY <1>3, <1>6, <3>1, SameEntries DEF Alone
  <2>. QED BY <2>1, <2>2
<1> USE DEF Team, TeamTypes, PartOf, JobOf, LayerOf, KindOf, GoOf, Released, JobOver, Onward, Away, Past, InBarrier
<1>9. PartOf(i)' = PartOf(i)
  <2>1. CASE TakeJob(i)
    BY <1>1, <1>3, <2>1 DEF TakeJob, EnterLayer, Goto
  <2>2. CASE ~TakeJob(i)
    BY <1>1, <1>2, <1>3, <1>4, <2>2 DEF Exit, SeeGo, CountParked, WaitGo, Unpark, Wakeup, Park, Goto
  <2>. QED BY <2>1, <2>2
<1>10. SettledFor(i)'
  <2>1. CASE pc'[i] = "decided"
    <3>1. goSeq >= GoOf(i) /\ GoOf(i) = GoOf(i)'
      BY <1>1, <1>2, <1>9, <2>1 DEF TakeJob, EnterLayer, Exit, SeeGo, CountParked, WaitGo, Unpark,
                                   Wakeup, Park, Goto
    <3>2. GoOf(i) = GoOf(Leader) /\ goSeq <= GoOf(Leader)
      BY LeaderIsThread DEF InStep, Counted
    <3>3. GoOf(i) \in Int /\ goSeq \in Int
      OBVIOUS
    <3>4. goSeq' = GoOf(i)' /\ ~Past(i)'
      <4>1. goSeq = GoOf(i)
        BY <3>1, <3>2, <3>3
      <4>2. ~Past(i)'
        BY <2>1
      <4>. QED BY <1>3, <3>1, <4>1, <4>2
    <3>. QED BY <3>4 DEF SettledFor
  <2>2. CASE pc'[i] # "decided"
    BY <1>1, <2>2 DEF SettledFor, Decided
  <2>. QED BY <2>1, <2>2
<1>11. i = Leader => (ToCount' <=> ToCount) /\ pc[i] # "verdict" /\ pc'[i] # "verdict"
  <2> SUFFICES ASSUME i = Leader PROVE (ToCount' <=> ToCount) /\ pc[i] # "verdict" /\ pc'[i] # "verdict"
    OBVIOUS
  <2>1. pc[i] = "job" /\ pc'[i] \in {"ring", "exited"}
    BY <1>1, <1>2 DEF TakeJob, EnterLayer, Exit, SeeGo, CountParked, WaitGo, Unpark, Wakeup, Park,
                      Goto, Following
  <2>. QED BY <2>1 DEF ToCount
<1>. QED BY <1>3, <1>5, <1>6, <1>7, <1>8, <1>9, <1>10, <1>11, StaysInStep

\* collect(), the look at abort_upto, and publish_go up to its count: no thread has decided.
LEMMA LeadToCount ==
  ASSUME Team, NEW there \in {"ring", "abort?", "verdict", "seq", "look"},
         pc[Leader] \in {"ring", "abort?", "verdict", "seq"},
         pc' = [pc EXCEPT ![Leader] = there],
         goSeq' = IF there = "look" THEN goSeq + 1 ELSE goSeq,
         there # "verdict" => goVerdict' = verdict',
         UNCHANGED <<owner, jobs, nPosted, nDone, myJob, myGo, layer, ph, barVars>>
  PROVE  Team'
<1>1. pc \in [Threads -> Places] /\ Leader \in Threads /\ goSeq \in Nat
  BY LeaderIsThread DEF Team, TeamTypes
<1>2. pc'[Leader] = there /\ \A j \in Threads \ {Leader} : pc'[j] = pc[j]
  BY <1>1
<1>3. ToCount /\ \A j \in Threads : ~Decided(j)
  BY NotYetCounted DEF ToCount
<1>4. ~Past(Leader) /\ ~Past(Leader)' /\ ~Away(Leader) /\ ~Away(Leader)' /\ ~Released(Leader) /\ ~Released(Leader)'
  BY <1>2 DEF Past, InBarrier, Away, Released
<1>5. ASSUME NEW j \in Threads
      PROVE  /\ Past(j)' <=> Past(j)
             /\ Away(j)' <=> Away(j)
             /\ Onward(j)' <=> Onward(j)
             /\ JobOver(j)' <=> JobOver(j)
  <2>1. /\ Released(j)' <=> Released(j)
        /\ MoreLayers(j)' <=> MoreLayers(j)
        /\ Past(j)' <=> Past(j)
        /\ Away(j)' <=> Away(j)
    BY <1>2, <1>4 DEF Released, MoreLayers, Past, Away, barVars
  <2>. QED BY <2>1 DEF Onward, JobOver
<1>6. ASSUME NEW j \in Threads PROVE PartOf(j)' = PartOf(j) /\ GoOf(j)' = GoOf(j) /\ ~Decided(j)'
  <2>1. JobOf(j)' = JobOf(j) /\ LayerOf(j)' = LayerOf(j) /\ GoOf(j)' = GoOf(j)
    BY <1>5 DEF JobOf, LayerOf, GoOf
  <2>2. KindOf(j) = 1 /\ KindOf(j)' = 1
    BY <1>3, <1>5 DEF KindOf, Decided
  <2>3. pc[j] # "decided" /\ pc'[j] # "decided"
    BY <1>2, <1>3 DEF Decided
  <2>. QED BY <1>3, <1>5, <2>1, <2>2, <2>3 DEF PartOf, Decided
<1>7. InStep' /\ Settled'
  <2>1. InStep'
    BY <1>6 DEF InStep, Team
  <2>2. Settled'
    BY <1>6 DEF Settled, SettledFor, Decided
  <2>. QED BY <2>1, <2>2
<1>8. Counted'
  <2>1. goSeq = GoOf(Leader) - 1 /\ GoOf(Leader) \in Int /\ GoOf(Leader)' = GoOf(Leader)
    BY <1>1, <1>3, <1>6 DEF Team, TeamTypes, Counted, GoOf
  <2>2. ToCount' <=> there # "look"
    BY <1>2, <1>4, <1>5 DEF ToCount, Onward
  <2>3. goSeq' = IF ToCount' THEN GoOf(Leader)' - 1 ELSE GoOf(Leader)'
    BY <2>1, <2>2
  <2>. QED BY <1>2, <2>3 DEF Counted
<1>9. Barrier'
  <2>1. Waiting' = Waiting
    BY <1>2 DEF Waiting, barVars
  <2>. QED BY <1>2, <2>1 DEF Team, Barrier, barVars
<1>10. TeamTypes'
  <2>1. pc' \in [Threads -> Places] /\ goSeq' \in Nat
    BY <1>1 DEF Places
  <2>2. \A j \in Threads : /\ j = Leader => pc'[j] \notin Following
                           /\ j # Leader => pc'[j] \notin Leading
                           /\ pc'[j] = "work" => ph[j] # 0
    BY <1>2 DEF Team, TeamTypes, Following
  <2>. QED BY <2>1, <2>2 DEF Team, TeamTypes, barVars
<1>11. Entries'
  BY <1>5 DEF Team, Entries
<1>. QED BY <1>7, <1>8, <1>9, <1>10, <1>11 DEF Team

LEMMA LeadInStep == Team /\ Lead => Team'
<1> SUFFICES ASSUME Team, Lead PROVE Team'
  OBVIOUS
<1> USE DEF ownerVars, serveVars, goVars, leadVars
<1>1. CASE SeeRing
  BY <1>1, LeadToCount DEF SeeRing, Goto
<1>2. CASE NoRing
  BY <1>2, LeadToCount DEF NoRing, Goto, Team, Counted
<1>3. CASE LookAbort
  BY <1>3, LeadToCount DEF LookAbort, Goto, Team, Counted
<1>4. CASE Publish
  BY <1>4, LeadToCount DEF Publish, Goto
<1>5. CASE CountGo
  BY <1>5, LeadToCount DEF CountGo, Goto, Team, Counted
<1>6. CASE LookParked \/ NotifyGo
  <2>1. PICK there \in {"notify", "decided"} : pc' = [pc EXCEPT ![Leader] = there]
    BY <1>6 DEF LookParked, NotifyGo, Goto
  <2>2. pc[Leader] \in {"look", "notify"}
    BY <1>6 DEF LookParked, NotifyGo
  <2>3. UNCHANGED <<owner, jobs, nPosted, nDone, myJob, myGo, layer, ph, verdict, missing, goSeq,
                    goVerdict, barCount, barPhase, saved>>
    BY <1>6 DEF LookParked, NotifyGo, barVars
  <2>4. pc \in [Threads -> Places] /\ Leader \in Threads
    BY LeaderIsThread DEF Team, TeamTypes
  <2>5. pc'[Leader] = there /\ \A j \in Threads \ {Leader} : pc'[j] = pc[j]
    BY <2>1, <2>4
  <2>6. Alone(Leader)
    BY <2>3, <2>5 DEF Alone
  <2>7. TeamTypes'
    <3>1. pc' \in [Threads -> Places]
      BY <2>1, <2>4 DEF Places
    <3>2. \A j \in Threads : /\ j = Leader => pc'[j] \notin Following
                             /\ j # Leader => pc'[j] \notin Leading
                             /\ pc'[j] = "work" => ph[j] # 0
      BY <2>5 DEF Team, TeamTypes, Following
    <3>. QED BY <2>3, <3>1, <3>2 DEF Team, TeamTypes
  <2>8. Barrier'
    BY <2>1, <2>2, <2>3, <2>4, AwayFromBarrier DEF Waiting, Places
  <2>9. Entries'
    <3>1. myJob[Leader] < nPosted
      BY <2>2, <2>4 DEF Away, Team, Entries
    <3>. QED BY <2>3, <2>4, <2>5, <3>1, SameEntries
  <2>10. /\ ~Past(Leader) /\ ~Past(Leader)' /\ ~Away(Leader) /\ ~Away(Leader)'
         /\ ~Released(Leader) /\ ~Released(Leader)'
    BY <2>2, <2>5 DEF Past, InBarrier, Away, Released
  <2>11. ~Onward(Leader) /\ ~Onward(Leader)' /\ ~JobOver(Leader) /\ ~JobOver(Leader)'
    BY <2>10 DEF Onward, JobOver
  <2>12. PartOf(Leader)' = PartOf(Leader) /\ GoOf(Leader)' = GoOf(Leader)
    BY <2>3, <2>10, <2>11 DEF PartOf, JobOf, LayerOf, KindOf, GoOf
  <2>13. ~ToCount /\ ~ToCount'
    BY <2>2, <2>5, <2>10, <2>11 DEF ToCount
  <2>14. SettledFor(Leader)'
    BY <2>3, <2>10, <2>12, <2>13 DEF SettledFor, Team, Counted
  <2>. QED BY <2>2, <2>3, <2>4, <2>5, <2>6, <2>7, <2>8, <2>9, <2>12, <2>13, <2>14, StaysInStep
<1>. QED BY <1>1, <1>2, <1>3, <1>4, <1>5, <1>6 DEF Lead

\* serve() between the decision and the barrier
LEMMA WorksInStep ==
  ASSUME Team, NEW i \in Threads, Decide(i) \/ Work(i)
  PROVE  Team'
<1>1. PICK there \in {"barrier", "work"}, p \in 0..NPhases :
        /\ pc' = [pc EXCEPT ![i] = there] /\ ph' = [ph EXCEPT ![i] = p]
        /\ Work(i) => there = "barrier" /\ p = ph[i]
        /\ Decide(i) => \/ goVerdict = 0 /\ p = 0 /\ there = "barrier"
                        \/ goVerdict # 0 /\ missing /\ p = 1
                        \/ goVerdict # 0 /\ ~missing /\ p = NPhases
  <2>1. CASE Decide(i)
    BY <2>1 DEF Decide, Work, Goto, NPhases
  <2>2. CASE Work(i)
    <3>1. ph' = [ph EXCEPT ![i] = ph[i]] /\ ph[i] \in 0..NPhases
      BY <2>2 DEF Work, serveVars, Team, TeamTypes
    <3>. QED BY <2>2, <3>1 DEF Decide, Work, Goto
  <2>. QED BY <2>1, <2>2
<1>2. pc[i] \in {"decided", "work"} /\ (pc[i] = "work" <=> Work(i)) /\ (pc[i] = "decided" <=> Decide(i))
  BY DEF Decide, Work
<1>3. UNCHANGED <<owner, jobs, nPosted, nDone, myJob, myGo, layer, verdict, missing, goSeq,
                  goVerdict, barCount, barPhase, saved>>
  BY DEF Decide, Work, ownerVars, serveVars, leadVars, goVars, barVars
<1>4. /\ pc \in [Threads -> Places] /\ ph \in [Threads -> 0..NPhases]
      /\ pc[i] = "work" => ph[i] # 0
  BY DEF Team, TeamTypes
<1>5. /\ pc'[i] = there /\ ph'[i] = p
      /\ \A j \in Threads \ {i} : pc'[j] = pc[j] /\ ph'[j] = ph[j]
  BY <1>1, <1>4
<1>6. Alone(i)
  BY <1>3, <1>5 DEF Alone
<1>7. TeamTypes'
  <2>1. pc' \in [Threads -> Places] /\ ph' \in [Threads -> 0..NPhases]
    BY <1>1, <1>4 DEF Places, InBarrier
  <2>2. there = "work" => p # 0
    BY <1>1, <1>2 DEF NPhases
  <2>3. \A j \in Threads : /\ j = Leader => pc'[j] \notin Following
                           /\ j # Leader => pc'[j] \notin Leading
                           /\ pc'[j] = "work" => ph'[j] # 0
    BY <1>5, <2>2 DEF Team, TeamTypes, Following, Leading
  <2>. QED BY <1>3, <2>1, <2>3 DEF Team, TeamTypes
<1>8. Barrier'
  BY <1>1, <1>2, <1>3, AwayFromBarrier DEF Waiting, Places, InBarrier
<1>9. Entries'
  <2>1. myJob[i] < nPosted
    BY <1>2 DEF Away, Team, Entries
  <2>. QED BY <1>3, <1>5, <2>1, SameEntries
<1>10. /\ ~Away(i) /\ ~Away(i)' /\ ~Released(i) /\ ~Released(i)' /\ Past(i)'
       /\ Past(i) <=> Work(i)
  BY <1>2, <1>5 DEF Away, Released, Past, InBarrier
<1>11. ~Onward(i) /\ ~Onward(i)' /\ ~JobOver(i) /\ ~JobOver(i)'
  BY <1>10 DEF Onward, JobOver
<1>12. KindOf(i)' = KindOf(i)
  <2>1. CASE Work(i)
    BY <1>1, <1>3, <1>5, <1>10, <1>11, <2>1 DEF KindOf
  <2>2. CASE Decide(i) /\ ~Work(i)
    <3>1. KindOf(i) = 1
      BY <1>10, <2>2 DEF KindOf
    <3>2. KindOf(i)' = 1
      BY <1>1, <1>3, <1>5, <1>10, <1>11, <2>2 DEF KindOf, NPhases
    <3>. QED BY <3>1, <3>2
  <2>. QED BY <2>1, <2>2
<1>13. PartOf(i)' = PartOf(i) /\ GoOf(i)' = GoOf(i)
  BY <1>3, <1>10, <1>11, <1>12 DEF PartOf, JobOf, LayerOf, GoOf
<1>14. SettledFor(i)'
  <2>1. goSeq' = GoOf(i)'
    BY <1>2, <1>3, <1>10, <1>11, <1>13 DEF Team, Settled, SettledFor, Decided
  <2>2. (p # 0 => goVerdict # 0) /\ (p \in 1..NPhases-1 => missing)
    <3>1. CASE Work(i)
      BY <1>1, <1>10, <1>11, <3>1 DEF Team, Settled, SettledFor
    <3>2. CASE Decide(i)
      BY <1>1, <3>2 DEF NPhases
    <3>. QED BY <3>1, <3>2
  <2>. QED BY <1>3, <1>5, <2>1, <2>2 DEF SettledFor
<1>15. i = Leader => ~ToCount /\ ~ToCount' /\ pc[i] # "verdict" /\ pc'[i] # "verdict"
  BY <1>2, <1>5, <1>10, <1>11 DEF ToCount
<1>. QED BY <1>3, <1>6, <1>7, <1>8, <1>9, <1>13, <1>14, <1>15, StaysInStep

\* Steps through the barrier that leave its phase.
LEMMA InBarrierInStep ==
  ASSUME Team, NEW i \in Threads, NEW there \in InBarrier, pc' = [pc EXCEPT ![i] = there],
         pc[i] \in InBarrier,
         Released(i)' <=> Released(i), saved' \in [Threads -> 0..1],
         \A j \in Threads \ {i} : saved'[j] = saved[j], barCount' \in Nat, Barrier',
         UNCHANGED <<owner, jobs, nPosted, nDone, myJob, myGo, layer, ph, leadVars, goVars,
                     barPhase>>
  PROVE  Team'
<1>1. pc \in [Threads -> Places]
  BY DEF Team, TeamTypes
<1>2. /\ pc'[i] = there
      /\ \A j \in Threads \ {i} : pc'[j] = pc[j]
  BY <1>1
<1>3. Alone(i)
  BY <1>2 DEF Alone, leadVars, goVars
<1>4. TeamTypes'
  <2>1. pc' \in [Threads -> Places]
    BY <1>1 DEF Places
  <2>2. \A j \in Threads : /\ j = Leader => pc'[j] \notin Following
                           /\ j # Leader => pc'[j] \notin Leading
                           /\ pc'[j] = "work" => ph[j] # 0
    BY <1>2 DEF Team, TeamTypes, Following, Leading, InBarrier
  <2>. QED BY <2>1, <2>2 DEF Team, TeamTypes, goVars
<1>5. Past(i) /\ Past(i)' /\ ~Away(i) /\ ~Away(i)'
  BY <1>2 DEF Past, Away, InBarrier
<1>6. Entries'
  <2>1. myJob[i] < nPosted
    BY <1>5 DEF Team, Entries
  <2>. QED BY <1>2, <2>1, SameEntries
<1>7. (Onward(i)' <=> Onward(i)) /\ (JobOver(i)' <=> JobOver(i))
  BY DEF Onward, JobOver, MoreLayers
<1>8. PartOf(i)' = PartOf(i) /\ GoOf(i)' = GoOf(i)
  BY <1>5, <1>7 DEF PartOf, JobOf, LayerOf, KindOf, GoOf, leadVars, goVars
<1>9. SettledFor(i)'
  <2>1. SettledFor(i)
    BY DEF Team, Settled
  <2>2. pc[i] # "decided" /\ pc'[i] # "decided"
    BY <1>2 DEF InBarrier
  <2>. QED BY <1>5, <1>7, <1>8, <2>1, <2>2 DEF SettledFor, Decided, leadVars, goVars
<1>10. i = Leader => (ToCount' <=> ToCount) /\ pc[i] # "verdict" /\ pc'[i] # "verdict"
  BY <1>2, <1>5, <1>7 DEF ToCount, InBarrier
<1>. QED BY <1>3, <1>4, <1>6, <1>8, <1>9, <1>10, StaysInStep DEF leadVars, goVars

LEMMA TeamIsFinite == IsFiniteSet(Threads) /\ Cardinality(Threads) = NThreads
<1>1. 0 \in Int /\ NThreads - 1 \in Int
  BY DoorbellAssumption
<1>2. /\ IsFiniteSet(0..NThreads-1)
      /\ Cardinality(0..NThreads-1) = IF 0 > NThreads-1 THEN 0 ELSE NThreads-1 - 0 + 1
  BY <1>1, FS_Interval
<1>. QED BY <1>2, DoorbellAssumption DEF Threads

\* barrier(), but for the flip of the phase
LEMMA BarrierInStep ==
  ASSUME Team, NEW i \in Threads,
         (NThreads > 1 /\ ReadPhase(i)) \/ Arrive(i) \/ Reset(i) \/ Spin(i)
  PROVE  Team'
<1> USE DEF ownerVars, serveVars
<1>1. /\ pc \in [Threads -> Places] /\ saved \in [Threads -> 0..1]
      /\ barPhase \in 0..1 /\ barCount \in Nat
  BY DEF Team, TeamTypes
<1>2. Barrier
  BY DEF Team
<1>3. CASE NThreads > 1 /\ ReadPhase(i)
  <2>1. pc[i] = "barrier" /\ pc' = [pc EXCEPT ![i] = "arrive"]
    <3>1. NThreads # 1
      BY <1>3
    <3>. QED BY <1>3, <3>1 DEF ReadPhase, Goto
  <2>2. saved' = [saved EXCEPT ![i] = barPhase] /\ UNCHANGED <<barCount, barPhase>>
    BY <1>3 DEF ReadPhase
  <2>3. /\ pc'[i] = "arrive" /\ saved'[i] = barPhase
        /\ \A j \in Threads \ {i} : pc'[j] = pc[j] /\ saved'[j] = saved[j]
    BY <1>1, <2>1, <2>2
  <2>4. Waiting' = Waiting /\ i \notin Waiting
    BY <2>1, <2>2, <2>3 DEF Waiting
  <2>5. \A j \in Threads : pc[j] \notin {"reset", "flip"}
    BY <1>2, <2>1, <2>4 DEF Barrier
  <2>6. Barrier'
    BY <1>2, <2>2, <2>3, <2>4, <2>5 DEF Barrier
  <2>7. ~Released(i) /\ ~Released(i)'
    BY <2>1, <2>3 DEF Released
  <2>8. saved' \in [Threads -> 0..1]
    BY <1>1, <2>2
  <2>. QED BY <1>1, <1>3, <2>1, <2>2, <2>3, <2>6, <2>7, <2>8, InBarrierInStep DEF ReadPhase, InBarrier
<1>4. CASE Arrive(i)
  <2>1. /\ pc[i] = "arrive" /\ barCount' = barCount + 1 /\ UNCHANGED <<saved, barPhase>>
        /\ pc' = [pc EXCEPT ![i] = IF barCount = NThreads - 1 THEN "reset" ELSE "spin"]
    BY <1>4 DEF Arrive, Goto
  <2>2. i \notin Waiting /\ saved[i] = barPhase
    BY <1>2, <2>1 DEF Waiting, Barrier
  <2>3. \A j \in Threads : pc[j] \notin {"reset", "flip"}
    BY <1>2, <2>1, <2>2 DEF Barrier
  <2>4. barCount = Cardinality(Waiting)
    BY <1>2, <2>3 DEF Barrier
  <2>5. IsFiniteSet(Threads \ {i}) /\ Cardinality(Threads \ {i}) = NThreads - 1
    BY TeamIsFinite, FS_RemoveElement
  <2>6. Waiting \subseteq Threads \ {i} /\ IsFiniteSet(Waiting)
    BY <2>2, <2>5, FS_Subset DEF Waiting
  <2>7. PICK there \in {"reset", "spin"} :
          pc' = [pc EXCEPT ![i] = there] /\ (there = "reset" <=> barCount = NThreads - 1)
    BY <2>1
  <2>8. pc'[i] = there /\ \A j \in Threads \ {i} : pc'[j] = pc[j]
    BY <1>1, <2>7
  <2>9. Barrier'
    <3>1. CASE there = "reset"
      <4>1. Waiting = Threads \ {i}
        BY <2>4, <2>5, <2>6, <2>7, <3>1, FS_Subset
      <4>2. Waiting' = Waiting
        BY <2>1, <2>2, <2>8, <3>1 DEF Waiting
      <4>. QED BY <1>2, <2>1, <2>2, <2>3, <2>8, <3>1, <4>1, <4>2 DEF Barrier
    <3>2. CASE there = "spin"
      <4>1. Waiting' = Waiting \cup {i}
        BY <2>1, <2>2, <2>8, <3>2 DEF Waiting
      <4>2. Cardinality(Waiting') = barCount + 1
        BY <2>2, <2>4, <2>6, <4>1, FS_AddElement
      <4>. QED BY <1>2, <2>1, <2>3, <2>8, <3>2, <4>2 DEF Barrier
    <3>. QED BY <3>1, <3>2
  <2>10. ~Released(i) /\ ~Released(i)'
    BY <2>1, <2>2, <2>7, <2>8 DEF Released
  <2>11. /\ UNCHANGED <<owner, jobs, nPosted, nDone, myJob, myGo, layer, ph, leadVars, goVars>>
         /\ saved' \in [Threads -> 0..1] /\ barCount' \in Nat
    BY <1>1, <1>4, <2>1 DEF Arrive
  <2>. QED BY <2>1, <2>7, <2>9, <2>10, <2>11, InBarrierInStep DEF InBarrier
<1>5. CASE Reset(i)
  <2>1. /\ pc[i] = "reset" /\ barCount' = 0 /\ UNCHANGED <<saved, barPhase>>
        /\ pc' = [pc EXCEPT ![i] = "flip"]
    BY <1>5 DEF Reset, Goto
  <2>2. pc'[i] = "flip" /\ \A j \in Threads \ {i} : pc'[j] = pc[j]
    BY <1>1, <2>1
  <2>3. Waiting' = Waiting
    BY <2>1, <2>2 DEF Waiting
  <2>4. Barrier'
    BY <1>2, <2>1, <2>2, <2>3 DEF Barrier
  <2>5. ~Released(i) /\ ~Released(i)'
    BY <2>1, <2>2 DEF Released
  <2>6. /\ UNCHANGED <<owner, jobs, nPosted, nDone, myJob, myGo, layer, ph, leadVars, goVars>>
        /\ saved' \in [Threads -> 0..1] /\ barCount' \in Nat
    BY <1>1, <1>5, <2>1 DEF Reset
  <2>. QED BY <2>1, <2>4, <2>5, <2>6, InBarrierInStep DEF InBarrier
<1>6. CASE Spin(i)
  <2>1. /\ pc[i] = "spin" /\ barPhase # saved[i] /\ UNCHANGED <<saved, barPhase, barCount>>
        /\ pc' = [pc EXCEPT ![i] = "through"]
    BY <1>6 DEF Spin, Goto, barVars
  <2>2. Barrier'
    BY <2>1, AwayFromBarrier DEF Waiting, Places, InBarrier
  <2>3. Released(i) /\ Released(i)'
    BY <1>1, <2>1 DEF Released
  <2>. QED BY <1>1, <1>6, <2>1, <2>2, <2>3, InBarrierInStep DEF Spin, InBarrier
<1>. QED BY <1>3, <1>4, <1>5, <1>6

\* The barrier is full: all are at the same place.
LEMMA SamePlace ==
  ASSUME Team, \A j \in Threads : Past(j) /\ ~Released(j) /\ ~Away(j)
  PROVE  /\ \A j \in Threads : /\ goSeq = myGo[j]
                               /\ ph[j] # 0 => goVerdict # 0
                               /\ ph[j] \in 1..NPhases-1 => missing
         /\ \A j, k \in Threads : /\ myJob[j] = myJob[k] /\ layer[j] = layer[k]
                                  /\ myGo[j] = myGo[k] /\ ph[j] = ph[k]
<1>1. ASSUME NEW j \in Threads
      PROVE  /\ PartOf(j) = <<myJob[j], layer[j], KindOf(j), myGo[j]>>
             /\ KindOf(j) = IF ph[j] = 0 THEN (IF goVerdict = 0 THEN 1 ELSE 5)
                            ELSE IF ph[j] = NPhases /\ ~missing THEN 1 ELSE ph[j]
             /\ goSeq = myGo[j]
             /\ ph[j] # 0 => goVerdict # 0
             /\ ph[j] \in 1..NPhases-1 => missing
  <2>1. ~Onward(j) /\ ~JobOver(j)
    BY DEF Onward, JobOver
  <2>2. SettledFor(j)
    BY DEF Team, Settled
  <2>. QED BY <2>1, <2>2 DEF PartOf, JobOf, LayerOf, KindOf, GoOf, SettledFor, Decided
<1>2. \A j \in Threads : ph[j] \in 0..NPhases
  BY DEF Team, TeamTypes
<1>3. ASSUME NEW j \in Threads, NEW k \in Threads
      PROVE  myJob[j] = myJob[k] /\ layer[j] = layer[k] /\ myGo[j] = myGo[k] /\ ph[j] = ph[k]
  <2>1. PartOf(j) = PartOf(k)
    BY DEF Team, InStep
  <2>2. KindOf(j) = KindOf(k) /\ myJob[j] = myJob[k] /\ layer[j] = layer[k] /\ myGo[j] = myGo[k]
    BY <1>1, <2>1
  <2>3. ph[j] = ph[k]
    BY <1>1, <1>2, <2>2 DEF NPhases
  <2>. QED BY <2>2, <2>3
<1>. QED BY <1>1, <1>3

\* It lets them through: they are at the same place again.
LEMMA PassBarrier ==
  ASSUME Team, TeamTypes', Barrier', Entries',
         \A j \in Threads : Past(j) /\ ~Released(j) /\ Past(j)' /\ Released(j)',
         \A j \in Threads : ~Away(j) /\ ~Away(j)' /\ pc[j] \in InBarrier /\ pc'[j] \in InBarrier,
         UNCHANGED <<myJob, myGo, layer, ph, leadVars, goSeq, goVerdict>>
  PROVE  Team'
<1>1. \A j \in Threads : /\ goSeq = myGo[j]
                         /\ ph[j] # 0 => goVerdict # 0
                         /\ ph[j] \in 1..NPhases-1 => missing
  BY SamePlace
<1>2. \A j, k \in Threads : /\ myJob[j] = myJob[k] /\ layer[j] = layer[k]
                            /\ myGo[j] = myGo[k] /\ ph[j] = ph[k]
  BY SamePlace
<1>3. InStep'
  <2> SUFFICES ASSUME NEW j \in Threads, NEW k \in Threads PROVE PartOf(j)' = PartOf(k)'
    BY DEF InStep
  <2>1. /\ MoreLayers(j)' <=> MoreLayers(k)'
        /\ myJob'[j] = myJob'[k] /\ layer'[j] = layer'[k] /\ myGo'[j] = myGo'[k] /\ ph'[j] = ph'[k]
    BY <1>2 DEF MoreLayers
  <2>2. (Onward(j)' <=> Onward(k)') /\ (JobOver(j)' <=> JobOver(k)')
    BY <2>1 DEF Onward, JobOver
  <2>. QED BY <2>1, <2>2 DEF PartOf, JobOf, LayerOf, KindOf, GoOf
<1>4. Settled'
  <2> SUFFICES ASSUME NEW j \in Threads PROVE SettledFor(j)'
    BY DEF Settled
  <2>1. pc'[j] # "decided"
    BY DEF InBarrier
  <2>2. Decided(j)' => GoOf(j)' = myGo[j]
    BY <2>1 DEF Decided, GoOf
  <2>. QED BY <1>1, <2>2 DEF SettledFor, Decided, leadVars
<1>5. Counted'
  <2>1. goSeq = myGo[Leader] /\ myGo[Leader] \in Nat
    BY <1>1, LeaderIsThread DEF Team, TeamTypes
  <2>2. pc[Leader] \in InBarrier /\ pc'[Leader] \in InBarrier /\ ~Away(Leader)'
    BY LeaderIsThread
  <2>3. ToCount' <=> Onward(Leader)'
    BY <2>2 DEF ToCount, InBarrier
  <2>4. goVerdict = verdict
    BY <2>2 DEF Team, Counted, InBarrier
  <2>. QED BY <2>1, <2>2, <2>3, <2>4 DEF Counted, GoOf, leadVars
<1>. QED BY <1>3, <1>4, <1>5 DEF Team

\* The flip of the phase, and the barrier of a team of one.
LEMMA FlipPasses ==
  ASSUME Team, NEW i \in Threads, Flip(i) \/ (NThreads = 1 /\ ReadPhase(i))
  PROVE  /\ pc' = [pc EXCEPT ![i] = "through"] /\ pc'[i] = "through"
         /\ \A j \in Threads \ {i} : pc'[j] = pc[j] /\ pc[j] = "spin" /\ saved'[j] # barPhase'
         /\ UNCHANGED <<owner, jobs, nPosted, nDone, myJob, myGo, layer, ph, leadVars, goSeq,
                        goVerdict, barCount>>
         /\ barPhase' \in 0..1 /\ saved' \in [Threads -> 0..1] /\ barCount = 0
         /\ \A j \in Threads : /\ Past(j) /\ ~Released(j) /\ Past(j)' /\ Released(j)'
                               /\ ~Away(j) /\ ~Away(j)'
                               /\ pc[j] \in InBarrier /\ pc'[j] \in InBarrier
<1>1. /\ pc \in [Threads -> Places] /\ saved \in [Threads -> 0..1] /\ barPhase \in 0..1
      /\ barCount \in Nat
  BY DEF Team, TeamTypes
<1>2. pc[i] \in InBarrier /\ pc' = [pc EXCEPT ![i] = "through"]
  BY DEF Flip, ReadPhase, Goto, InBarrier
<1>3. pc'[i] = "through" /\ \A j \in Threads \ {i} : pc'[j] = pc[j]
  BY <1>1, <1>2
<1>4. UNCHANGED <<owner, jobs, nPosted, nDone, myJob, myGo, layer, ph, leadVars, goSeq, goVerdict,
                  barCount>>
  BY DEF Flip, ReadPhase, ownerVars, serveVars, goVars
<1>5. /\ barPhase' \in 0..1 /\ saved' \in [Threads -> 0..1]
      /\ ~Released(i)
      /\ \A j \in Threads \ {i} : pc[j] = "spin" /\ ~Released(j) /\ saved'[j] # barPhase'
      /\ barCount = 0
  <2>1. CASE Flip(i)
    <3>1. pc[i] = "flip" /\ barPhase' = 1 - barPhase /\ saved' = saved
      BY <2>1 DEF Flip
    <3>2. \A j \in Threads \ {i} : pc[j] = "spin" /\ saved[j] = barPhase
      BY <3>1 DEF Team, Barrier, Waiting
    <3>3. barCount = 0
      BY <3>1 DEF Team, Barrier
    <3>4. barPhase' \in 0..1 /\ barPhase' # barPhase
      BY <1>1, <3>1
    <3>. QED BY <1>1, <3>1, <3>2, <3>3, <3>4 DEF Released
  <2>2. CASE NThreads = 1 /\ ReadPhase(i)
    <3>1. Threads \ {i} = {}
      BY <2>2 DEF Threads
    <3>2. pc[i] = "barrier" /\ saved' = [saved EXCEPT ![i] = barPhase] /\ UNCHANGED barPhase
      BY <2>2 DEF ReadPhase
    <3>3. Waiting = {}
      BY <3>1, <3>2 DEF Waiting
    <3>4. barCount = 0
      BY <3>1, <3>2, <3>3, FS_EmptySet DEF Team, Barrier
    <3>. QED BY <1>1, <3>1, <3>2, <3>4 DEF Released
  <2>. QED BY <2>1, <2>2
<1>6. ASSUME NEW j \in Threads
      PROVE  ~Away(j) /\ ~Away(j)' /\ pc[j] \in InBarrier /\ pc'[j] \in InBarrier
  BY <1>2, <1>3, <1>5 DEF Away, InBarrier
<1>7. ASSUME NEW j \in Threads PROVE Past(j) /\ ~Released(j) /\ Past(j)' /\ Released(j)'
  BY <1>3, <1>5, <1>6 DEF Past, Released
<1>. QED BY <1>2, <1>3, <1>4, <1>5, <1>6, <1>7

LEMMA FlipInStep ==
  ASSUME Team, NEW i \in Threads, Flip(i) \/ (NThreads = 1 /\ ReadPhase(i))
  PROVE  Team'
<1>1. /\ pc' = [pc EXCEPT ![i] = "through"] /\ pc'[i] = "through"
      /\ \A j \in Threads \ {i} : pc'[j] = pc[j] /\ pc[j] = "spin" /\ saved'[j] # barPhase'
      /\ UNCHANGED <<owner, jobs, nPosted, nDone, myJob, myGo, layer, ph, leadVars, goSeq,
                     goVerdict, barCount>>
      /\ barPhase' \in 0..1 /\ saved' \in [Threads -> 0..1] /\ barCount = 0
  BY FlipPasses
<1>2. \A j \in Threads : /\ Past(j) /\ ~Released(j) /\ Past(j)' /\ Released(j)'
                         /\ ~Away(j) /\ ~Away(j)'
                         /\ pc[j] \in InBarrier /\ pc'[j] \in InBarrier
  BY FlipPasses
<1>3. TeamTypes'
  <2>1. pc' \in [Threads -> Places]
    BY <1>1 DEF Places, InBarrier, Team, TeamTypes
  <2>2. \A j \in Threads : /\ j = Leader => pc'[j] \notin Following
                           /\ j # Leader => pc'[j] \notin Leading
                           /\ pc'[j] = "work" => ph[j] # 0
    BY <1>1 DEF Team, TeamTypes, Following, Leading
  <2>. QED BY <1>1, <2>1, <2>2 DEF Team, TeamTypes
<1>4. Barrier'
  <2>1. Waiting' = {}
    BY <1>1 DEF Waiting
  <2>. QED BY <1>1, <2>1, FS_EmptySet DEF Barrier
<1>5. Entries'
  <2>1. myJob[i] < nPosted
    BY <1>2 DEF Team, Entries
  <2>. QED BY <1>1, <2>1, SameEntries
<1>. QED BY <1>1, <1>2, <1>3, <1>4, <1>5, PassBarrier

\* serve() and worker() after the barrier
LEMMA GoesOnInStep ==
  ASSUME Team, NEW i \in Threads, NextPhase(i) \/ EndLayer(i) \/ EndJob(i)
  PROVE  Team'
<1>1. /\ pc \in [Threads -> Places] /\ ph \in [Threads -> 0..NPhases] /\ layer \in [Threads -> Nat]
      /\ myGo \in [Threads -> Nat] /\ myJob \in [Threads -> Nat] /\ goSeq \in Nat
      /\ nDone \in Nat /\ nPosted \in Nat
  BY DEF Team, TeamTypes
<1>2. pc[i] = "through" /\ Released(i) /\ Past(i) /\ ~Away(i)
  BY DEF NextPhase, EndLayer, EndJob, Released, Past, Away, InBarrier
<1>3. UNCHANGED <<owner, jobs, nPosted, leadVars, goVars, barVars>>
  BY DEF NextPhase, EndLayer, EndJob, ownerVars, serveVars
<1>4. SettledFor(i)
  BY DEF Team, Settled
<1>5. CASE NextPhase(i)
  <2>1. /\ ph[i] \in 1..NPhases-1 /\ ph' = [ph EXCEPT ![i] = @ + 1]
        /\ pc' = [pc EXCEPT ![i] = "work"] /\ UNCHANGED <<nDone, myJob, myGo, layer>>
    BY <1>5 DEF NextPhase, Goto
  <2>2. /\ pc'[i] = "work" /\ ph'[i] = ph[i] + 1 /\ ph[i] + 1 \in 2..NPhases
        /\ \A j \in Threads \ {i} : pc'[j] = pc[j] /\ ph'[j] = ph[j]
    BY <1>1, <2>1 DEF NPhases
  <2>3. Alone(i)
    BY <1>3, <2>1, <2>2 DEF Alone, barVars, leadVars, goVars
  <2>4. TeamTypes'
    <3>1. pc' \in [Threads -> Places] /\ ph' \in [Threads -> 0..NPhases]
      BY <1>1, <2>1, <2>2 DEF Places, NPhases
    <3>2. ph'[i] # 0
      BY <2>2
    <3>3. \A j \in Threads : /\ j = Leader => pc'[j] \notin Following
                             /\ j # Leader => pc'[j] \notin Leading
                             /\ pc'[j] = "work" => ph'[j] # 0
      BY <2>2, <3>2 DEF Team, TeamTypes, Following, Leading
    <3>. QED BY <1>3, <2>1, <3>1, <3>3 DEF Team, TeamTypes, barVars, goVars
  <2>5. Barrier'
    BY <1>2, <1>3, <2>1, AwayFromBarrier DEF Waiting, Places, barVars
  <2>6. Entries'
    <3>1. myJob[i] < nPosted
      BY <1>2 DEF Team, Entries
    <3>. QED BY <1>3, <2>1, <2>2, <3>1, SameEntries
  <2>7. Past(i)' /\ ~Away(i)' /\ ~Released(i)'
    BY <2>2 DEF Past, Away, Released
  <2>8. ~Onward(i) /\ ~Onward(i)' /\ ~JobOver(i) /\ ~JobOver(i)'
    BY <2>1, <2>7 DEF Onward, JobOver, NPhases
  <2>9. goSeq = GoOf(i) /\ goVerdict # 0 /\ missing
    BY <1>2, <1>4, <2>1, <2>8 DEF SettledFor, Decided, NPhases
  <2>10. KindOf(i) = ph[i] + 1 /\ KindOf(i)' = ph[i] + 1
    BY <1>2, <1>3, <2>2, <2>7, <2>8, <2>9 DEF KindOf, leadVars, goVars
  <2>11. PartOf(i)' = PartOf(i) /\ GoOf(i)' = GoOf(i)
    BY <1>2, <2>1, <2>7, <2>8, <2>10 DEF PartOf, JobOf, LayerOf, GoOf
  <2>12. SettledFor(i)'
    BY <1>3, <2>9, <2>11 DEF SettledFor, leadVars, goVars
  <2>13. i = Leader => ~ToCount /\ ~ToCount' /\ pc[i] # "verdict" /\ pc'[i] # "verdict"
    BY <1>2, <2>2, <2>7, <2>8 DEF ToCount
  <2>. QED BY <1>3, <2>3, <2>4, <2>5, <2>6, <2>11, <2>12, <2>13, StaysInStep DEF leadVars, goVars
<1>6. CASE EndLayer(i)
  <2>1. ph[i] = NPhases /\ Layers(i) = Rings[myJob[i]] /\ UNCHANGED <<nDone, myJob>>
    <3>1. ph[i] = NPhases /\ UNCHANGED <<nDone, myJob>>
      BY <1>6 DEF EndLayer
    <3>. QED BY <1>2, <3>1, EntryOfJob DEF Layers, JobOver, NPhases
  <2>2. ~JobOver(i) /\ (Onward(i) <=> MoreLayers(i))
    BY <1>2, <2>1 DEF JobOver, Onward, NPhases
  <2>3. Entries' /\ Barrier'
    <3>1. PICK there \in {"ring", "go", "barrier"} : pc' = [pc EXCEPT ![i] = there]
      BY <1>6 DEF EndLayer, EnterLayer, Goto
    <3>2. \A j \in Threads \ {i} : pc'[j] = pc[j]
      BY <1>1, <3>1
    <3>3. myJob[i] < nPosted
      BY <1>2 DEF Team, Entries
    <3>4. Entries'
      BY <1>3, <2>1, <3>2, <3>3, SameEntries
    <3>5. Barrier'
      BY <1>2, <1>3, <3>1, AwayFromBarrier DEF Waiting, Places, InBarrier, barVars
    <3>. QED BY <3>4, <3>5
  <2>4. CASE MoreLayers(i)
    <3>1. /\ layer' = [layer EXCEPT ![i] = layer[i] + 1] /\ myGo' = [myGo EXCEPT ![i] = @ + 1]
          /\ pc' = [pc EXCEPT ![i] = IF i = Leader THEN "ring" ELSE "go"] /\ ph' = ph
      BY <1>6, <2>1, <2>4 DEF EndLayer, EnterLayer, Goto, MoreLayers
    <3>2. /\ pc'[i] = IF i = Leader THEN "ring" ELSE "go"
          /\ layer'[i] = layer[i] + 1 /\ myGo'[i] = myGo[i] + 1
          /\ \A j \in Threads \ {i} : pc'[j] = pc[j] /\ layer'[j] = layer[j] /\ myGo'[j] = myGo[j]
      BY <1>1, <3>1
    <3>3. Alone(i)
      BY <1>3, <2>1, <3>1, <3>2 DEF Alone, barVars, leadVars, goVars
    <3>4. TeamTypes'
      <4>1. /\ pc' \in [Threads -> Places] /\ layer' \in [Threads -> Nat] /\ myGo' \in [Threads -> Nat]
        <5>1. layer[i] + 1 \in Nat /\ myGo[i] + 1 \in Nat
          BY <1>1
        <5>. QED BY <1>1, <3>1, <5>1 DEF Places
      <4>2. \A j \in Threads : /\ j = Leader => pc'[j] \notin Following
                               /\ j # Leader => pc'[j] \notin Leading
                               /\ pc'[j] = "work" => ph[j] # 0
        BY <3>2 DEF Team, TeamTypes, Following, Leading
      <4>. QED BY <1>3, <2>1, <3>1, <4>1, <4>2 DEF Team, TeamTypes, barVars, goVars
    <3>5. ~Past(i)' /\ ~Away(i)' /\ ~Released(i)'
      BY <3>2 DEF Past, Away, Released, InBarrier
    <3>6. ~Onward(i)' /\ ~JobOver(i)' /\ Onward(i)
      BY <2>2, <2>4, <3>5 DEF Onward, JobOver
    <3>7. PartOf(i)' = PartOf(i)
      BY <1>2, <2>1, <2>2, <3>2, <3>5, <3>6 DEF PartOf, JobOf, LayerOf, KindOf, GoOf
    <3>8. SettledFor(i)'
      BY <3>2, <3>5 DEF SettledFor, Decided
    <3>9. i = Leader => ToCount /\ ToCount' /\ pc[i] # "verdict" /\ pc'[i] # "verdict"
      BY <1>2, <3>2, <3>6 DEF ToCount
    <3>. QED BY <1>3, <2>3, <3>3, <3>4, <3>7, <3>8, <3>9, StaysInStep DEF leadVars, goVars
  <2>5. CASE ~MoreLayers(i)
    <3>1. /\ ph' = [ph EXCEPT ![i] = 0] /\ pc' = [pc EXCEPT ![i] = "barrier"]
          /\ UNCHANGED <<layer, myGo>>
      BY <1>6, <2>1, <2>5 DEF EndLayer, EnterLayer, Goto, MoreLayers
    <3>2. /\ pc'[i] = "barrier" /\ ph'[i] = 0
          /\ \A j \in Threads \ {i} : pc'[j] = pc[j] /\ ph'[j] = ph[j]
      BY <1>1, <3>1
    <3>3. Alone(i)
      BY <1>3, <2>1, <3>1, <3>2 DEF Alone, barVars, leadVars, goVars
    <3>4. TeamTypes'
      <4>1. pc' \in [Threads -> Places] /\ ph' \in [Threads -> 0..NPhases]
        BY <1>1, <3>1 DEF Places, InBarrier, NPhases
      <4>2. \A j \in Threads : /\ j = Leader => pc'[j] \notin Following
                               /\ j # Leader => pc'[j] \notin Leading
                               /\ pc'[j] = "work" => ph'[j] # 0
        BY <3>2 DEF Team, TeamTypes, Following, Leading
      <4>. QED BY <1>3, <2>1, <3>1, <4>1, <4>2 DEF Team, TeamTypes, barVars, goVars
    <3>5. Past(i)' /\ ~Away(i)' /\ ~Released(i)'
      BY <3>2 DEF Past, Away, Released, InBarrier
    <3>6. ~Onward(i)' /\ ~JobOver(i)' /\ ~Onward(i)
      BY <2>2, <2>5, <3>5 DEF Onward, JobOver
    <3>7. goSeq = GoOf(i) /\ goVerdict # 0
      BY <1>2, <1>4, <2>1, <3>6 DEF SettledFor, Decided, NPhases
    <3>8. KindOf(i) = 5 /\ KindOf(i)' = 5
      BY <1>2, <1>3, <2>1, <3>2, <3>5, <3>6, <3>7 DEF KindOf, goVars, NPhases
    <3>9. PartOf(i)' = PartOf(i) /\ GoOf(i)' = GoOf(i)
      BY <1>2, <2>1, <2>2, <3>1, <3>5, <3>6, <3>8 DEF PartOf, JobOf, LayerOf, GoOf
    <3>10. SettledFor(i)'
      BY <1>3, <3>2, <3>7, <3>9 DEF SettledFor, goVars
    <3>11. i = Leader => ~ToCount /\ ~ToCount' /\ pc[i] # "verdict" /\ pc'[i] # "verdict"
      BY <1>2, <3>2, <3>5, <3>6 DEF ToCount
    <3>. QED BY <1>3, <2>3, <3>3, <3>4, <3>9, <3>10, <3>11, StaysInStep DEF leadVars, goVars
  <2>. QED BY <2>4, <2>5
<1>7. CASE EndJob(i)
  <2>1. /\ ph[i] = 0 /\ myJob' = [myJob EXCEPT ![i] = @ + 1] /\ pc' = [pc EXCEPT ![i] = "job"]
        /\ nDone' = (IF i = Leader THEN myJob[i] + 1 ELSE nDone) /\ UNCHANGED <<myGo, layer, ph>>
    BY <1>7 DEF EndJob, Goto
  <2>2. /\ pc'[i] = "job" /\ myJob'[i] = myJob[i] + 1
        /\ \A j \in Threads \ {i} : pc'[j] = pc[j] /\ myJob'[j] = myJob[j]
    BY <1>1, <2>1
  <2>3. Alone(i)
    BY <1>3, <2>1, <2>2 DEF Alone, barVars, leadVars, goVars
  <2>4. TeamTypes'
    <3>1. pc' \in [Threads -> Places] /\ myJob' \in [Threads -> Nat] /\ nDone' \in Nat
      <4>1. myJob[i] + 1 \in Nat
        BY <1>1
      <4>. QED BY <1>1, <2>1, <4>1 DEF Places
    <3>2. \A j \in Threads : /\ j = Leader => pc'[j] \notin Following
                             /\ j # Leader => pc'[j] \notin Leading
                             /\ pc'[j] = "work" => ph[j] # 0
      BY <2>2 DEF Team, TeamTypes, Following, Leading
    <3>. QED BY <1>3, <2>1, <3>1, <3>2 DEF Team, TeamTypes, barVars, goVars
  <2>5. Barrier'
    BY <1>2, <1>3, <2>1, AwayFromBarrier DEF Waiting, Places, barVars
  <2>6. Away(i)' /\ ~Past(i)' /\ ~Released(i)'
    BY <2>2 DEF Past, Away, Released, InBarrier
  <2>7. JobOver(i) /\ Onward(i) /\ ~JobOver(i)' /\ ~Onward(i)'
    BY <1>2, <2>1, <2>6 DEF JobOver, Onward
  <2>8. Entries'
    <3>1. nDone = myJob[Leader] /\ nDone <= nPosted /\ nPosted - nDone <= JobCap /\ myJob[i] < nPosted
      BY <1>2 DEF Team, Entries
    <3>2. nDone' = myJob'[Leader] /\ nDone <= nDone' /\ nDone' <= nPosted
      BY <1>1, <2>1, <2>2, <3>1, LeaderIsThread
    <3>3. nDone' \in Nat /\ JobCap \in Nat
      BY <2>4, DoorbellAssumption DEF TeamTypes
    <3>4. nPosted' - nDone' <= JobCap /\ nDone' <= nPosted'
      BY <1>1, <1>3, <3>1, <3>2, <3>3
    <3>5. \A j \in Threads : ~Away(j)' => myJob'[j] < nPosted'
      BY <1>3, <2>2, <2>6 DEF Team, Entries, Away
    <3>6. \A x \in nDone'..nPosted'-1 : jobs'[x % JobCap] = x
      <4>1. nDone'..nPosted-1 \subseteq nDone..nPosted-1
        BY <1>1, <3>2, <3>3
      <4>. QED BY <1>3, <4>1 DEF Team, Entries
    <3>7. owner' = "post" => jobs'[nPosted' % JobCap] = nPosted' /\ nPosted' - nDone' < JobCap
      <4>1. owner = "post" => jobs[nPosted % JobCap] = nPosted /\ nPosted - nDone < JobCap
        BY DEF Team, Entries
      <4>2. nPosted - nDone < JobCap => nPosted - nDone' < JobCap
        BY <1>1, <3>2, <3>3
      <4>. QED BY <1>3, <4>1, <4>2
    <3>. QED BY <3>2, <3>3, <3>4, <3>5, <3>6, <3>7, <1>3 DEF Entries
  <2>9. PartOf(i)' = PartOf(i)
    BY <1>2, <2>1, <2>2, <2>6, <2>7 DEF PartOf, JobOf, LayerOf, KindOf, GoOf
  <2>10. SettledFor(i)'
    BY <2>2, <2>6 DEF SettledFor, Decided
  <2>11. i = Leader => ToCount /\ ToCount' /\ pc[i] # "verdict" /\ pc'[i] # "verdict"
    BY <1>2, <2>2, <2>6, <2>7 DEF ToCount
  <2>. QED BY <1>3, <2>3, <2>4, <2>5, <2>8, <2>9, <2>10, <2>11, StaysInStep DEF leadVars, goVars
<1>. QED BY <1>5, <1>6, <1>7

\* The owner fills the entry of a job that is over for all, and posts it.
LEMMA OwnerInStep == Team /\ (Owner \/ Quit) => Team'
<1> SUFFICES ASSUME Team, Owner \/ Quit PROVE Team'
  OBVIOUS
<1>1. UNCHANGED teamVars
  BY DEF Owner, Quit, Begin, PostJob, Launch, AbortPending, AllAborted, Stop, Joined
<1>2. UNCHANGED <<nDone, pc, myJob, myGo, layer, ph, missing, verdict, goSeq, goVerdict,
                  barCount, barPhase, saved>>
  BY <1>1 DEF teamVars, serveVars, leadVars, goVars, barVars
<1>3. Barrier'
  <2>1. Waiting' = Waiting
    BY <1>2 DEF Waiting
  <2>. QED BY <1>2, <2>1 DEF Team, Barrier
<1>4. ASSUME NEW j \in Threads
      PROVE  /\ PartOf(j)' = PartOf(j) /\ GoOf(j)' = GoOf(j)
             /\ Decided(j)' <=> Decided(j)
             /\ Past(j)' <=> Past(j)
             /\ Onward(j)' <=> Onward(j)
             /\ Away(j)' <=> Away(j)
  <2>1. Alone(j)
    BY <1>2 DEF Alone
  <2>2. /\ Released(j)' <=> Released(j)
        /\ MoreLayers(j)' <=> MoreLayers(j)
        /\ Away(j)' <=> Away(j)
        /\ Past(j)' <=> Past(j)
    BY <1>2 DEF Released, MoreLayers, Away, Past
  <2>3. /\ JobOver(j)' <=> JobOver(j)
        /\ Onward(j)' <=> Onward(j)
    BY <1>2, <2>2 DEF JobOver, Onward
  <2>. QED BY <1>2, <2>2, <2>3 DEF PartOf, JobOf, LayerOf, KindOf, GoOf, Decided
<1>5. InStep' /\ Settled' /\ Counted'
  <2>1. InStep'
    BY <1>4 DEF InStep, Team
  <2>2. Settled'
    BY <1>2, <1>4 DEF Settled, SettledFor, Team
  <2>3. Counted'
    BY <1>2, <1>4, LeaderIsThread DEF Counted, ToCount, Team
  <2>. QED BY <2>1, <2>2, <2>3
<1>6. TeamTypes' /\ Entries'
  <2>1. /\ nPosted \in Nat /\ nDone \in Nat /\ JobCap \in Nat \ {0} /\ jobs \in [0..JobCap-1 -> Int]
        /\ nPosted % JobCap \in 0..JobCap-1
    BY DoorbellAssumption DEF Team, TeamTypes
  <2>2. CASE Begin
    <3>1. /\ jobs' = [jobs EXCEPT ![nPosted % JobCap] = nPosted] /\ nPosted' = nPosted
          /\ nPosted - nDone < JobCap
      BY <2>2 DEF Begin, Room
    <3>2. jobs' \in [0..JobCap-1 -> Int] /\ jobs'[nPosted % JobCap] = nPosted
      BY <2>1, <3>1
    <3>3. ASSUME NEW x \in nDone..nPosted-1 PROVE jobs'[x % JobCap] = x
      <4>1. x \in Nat /\ x < nPosted /\ nPosted - x < JobCap
        BY <2>1, <3>1
      <4>2. (x % JobCap) # (nPosted % JobCap)
        BY <2>1, <4>1, OwnEntry
      <4>3. jobs[x % JobCap] = x
        BY DEF Team, Entries
      <4>4. x % JobCap \in 0..JobCap-1
        BY <2>1, <4>1
      <4>. QED BY <2>1, <3>1, <4>2, <4>3, <4>4
    <3>4. TeamTypes'
      BY <1>2, <3>1, <3>2 DEF Team, TeamTypes
    <3>5. Entries'
      BY <1>2, <1>4, <3>1, <3>2, <3>3 DEF Team, Entries
    <3>. QED BY <3>4, <3>5
  <2>3. CASE PostJob
    <3>1. owner = "post" /\ owner' = "launch" /\ nPosted' = nPosted + 1 /\ jobs' = jobs
      BY <2>3 DEF PostJob
    <3>2. TeamTypes'
      BY <1>2, <2>1, <3>1 DEF Team, TeamTypes
    <3>3. jobs[nPosted % JobCap] = nPosted /\ nPosted - nDone < JobCap /\ nDone <= nPosted
      BY <3>1 DEF Team, Entries
    <3>4. nPosted' - nDone <= JobCap /\ nDone <= nPosted'
      BY <2>1, <3>1, <3>3
    <3>5. ASSUME NEW x \in nDone..nPosted'-1 PROVE jobs[x % JobCap] = x
      <4>1. x \in nDone..nPosted-1 \/ x = nPosted
        BY <2>1, <3>1
      <4>. QED BY <3>3, <4>1 DEF Team, Entries
    <3>6. ASSUME NEW j \in Threads, ~Away(j) PROVE myJob[j] < nPosted'
      <4>1. myJob[j] < nPosted /\ myJob[j] \in Int
        BY <3>6 DEF Team, TeamTypes, Entries
      <4>. QED BY <2>1, <3>1, <4>1
    <3>7. Entries'
      BY <1>2, <1>4, <3>1, <3>3, <3>4, <3>5, <3>6 DEF Team, Entries
    <3>. QED BY <3>2, <3>7
  <2>4. CASE ~Begin /\ ~PostJob
    <3>1. UNCHANGED <<jobs, nPosted>> /\ owner' # "post"
      BY <2>4 DEF Owner, Quit, Launch, AbortPending, AllAborted, Stop, Joined
    <3>2. TeamTypes'
      BY <1>2, <3>1 DEF Team, TeamTypes
    <3>3. Entries'
      BY <1>2, <1>4, <3>1 DEF Team, Entries
    <3>. QED BY <3>2, <3>3
  <2>. QED BY <2>2, <2>3, <2>4
<1>. QED BY <1>3, <1>5, <1>6 DEF Team

\* The device, and steps of nothing, leave the team and the owner as they are.
LEMMA ElsewhereInStep ==
  ASSUME Team, UNCHANGED <<ownerVars, teamVars>>
  PROVE  Team'
<1>1. UNCHANGED <<owner, jobs, nPosted, nDone, pc, myJob, myGo, layer, ph, missing, verdict, goSeq,
                  goVerdict, barCount, barPhase, saved>>
  BY DEF ownerVars, teamVars, serveVars, leadVars, goVars, barVars
<1>2. Waiting' = Waiting /\ (ToCount' <=> ToCount) /\ GoOf(Leader)' = GoOf(Leader)
  BY <1>1 DEF Waiting, ToCount, GoOf, Away, Onward, Released, MoreLayers
<1>3. ASSUME NEW j \in Threads
      PROVE  PartOf(j)' = PartOf(j) /\ (SettledFor(j)' <=> SettledFor(j)) /\ (Away(j)' <=> Away(j))
  <2>1. /\ Released(j)' <=> Released(j)
        /\ MoreLayers(j)' <=> MoreLayers(j)
        /\ Away(j)' <=> Away(j)
        /\ Past(j)' <=> Past(j)
    BY <1>1 DEF Released, MoreLayers, Away, Past
  <2>2. /\ JobOver(j)' <=> JobOver(j)
        /\ Onward(j)' <=> Onward(j)
    BY <1>1, <2>1 DEF JobOver, Onward
  <2>. QED BY <1>1, <2>1, <2>2 DEF PartOf, JobOf, LayerOf, KindOf, GoOf, SettledFor, Decided
<1>4. TeamTypes' /\ Barrier' /\ Counted' /\ Entries'
  BY <1>1, <1>2, <1>3 DEF Team, TeamTypes, Barrier, Counted, Entries
<1>5. InStep' /\ Settled'
  BY <1>3 DEF Team, InStep, Settled
<1>. QED BY <1>4, <1>5 DEF Team

LEMMA StepTeam == Team /\ [Next]_vars => Team'
<1> SUFFICES ASSUME Team, [Next]_vars PROVE Team'
  OBVIOUS
<1>1. CASE Owner \/ Quit
  BY <1>1, OwnerInStep
<1>2. CASE Device
  BY <1>2, ElsewhereInStep DEF Device, GraphDone, RingData, RingWord, Join
<1>3. CASE Lead
  BY <1>3, LeadInStep
<1>4. ASSUME NEW i \in Threads, Worker(i) \/ Park(i) PROVE Team'
  <2>1. NThreads = 1 \/ NThreads > 1
    BY DoorbellAssumption
  <2>. QED BY <1>4, <2>1, WaitsInStep, WorksInStep, BarrierInStep, FlipInStep, GoesOnInStep DEF Worker
<1>5. CASE UNCHANGED vars
  BY <1>5, ElsewhereInStep DEF vars, teamVars
<1>. QED BY <1>1, <1>2, <1>3, <1>4, <1>5 DEF Next

THEOREM TeamInStep == Spec => []Team
<1>. QED BY InitTeam, StepTeam, PTL DEF Spec

(***************************************************************************)
(* A job's entry of the ring is not reused while a thread is in the job:   *)
(* begin() looks at n_done, which the leader counts after the barrier that *)
(* ends the job for all (the comment in worker()).                         *)
(***************************************************************************)
THEOREM EntriesAreKept == Spec => []EntryKept
<1>1. Team => EntryKept
  <2> SUFFICES ASSUME Team, NEW i \in Threads, Inside(i) PROVE Entry(i) = myJob[i]
    BY DEF EntryKept
  <2>1. ~Away(i) /\ ~JobOver(i)
    BY DEF Inside, Away, JobOver, Released, InBarrier
  <2>. QED BY <2>1, EntryOfJob
<1>. QED BY <1>1, TeamInStep, PTL

(***************************************************************************)
(* The decision a thread acts on is the one of its own layer: the leader   *)
(* publishes the next one when all have passed the barrier at the end of   *)
(* this layer (the comment in wait_go()).                                  *)
(***************************************************************************)
THEOREM TheyDecideAsOne == Spec => []DecideAsOne
<1>1. Team => DecideAsOne
  <2> SUFFICES ASSUME Team, NEW i \in Threads, pc[i] = "decided"
               PROVE  goSeq = myGo[i] /\ goVerdict = verdict
    BY DEF DecideAsOne
  <2>1. Decided(i) /\ GoOf(i) = myGo[i]
    BY DEF Decided, GoOf, Away, Onward, Released
  <2>2. goSeq = myGo[i]
    BY <2>1 DEF Team, Settled, SettledFor
  <2>3. pc[Leader] # "verdict"
    BY <2>1, NotYetCounted DEF ToCount
  <2>. QED BY <2>2, <2>3 DEF Team, Counted
<1>. QED BY <1>1, TeamInStep, PTL

-----------------------------------------------------------------------------
(* A join adds the shares of its own graph's request, for any number of    *)
(* threads: DONE says no more than every share, a share no more than the   *)
(* request that is in the slot, and at the join this is the graph's own.   *)

InJob(i)   == ~Away(i) /\ ~JobOver(i)
OwnSlot(i) == Rings[myJob[i]][layer[i]]

MailTypes ==
  /\ request \in [Slots -> Int] /\ ring \in [Slots -> Int] /\ done \in [Slots -> Int]
  /\ partial \in [Slots -> [Threads -> Int]]
  /\ stream \in Seq([job : Jobs, ops : Int]) /\ op \in Nat /\ (stream = <<>> => op % 3 = 0)
  /\ nPosted <= MaxJobs /\ (owner = "post" => nPosted < MaxJobs) /\ (owner = "launch" => nPosted > 0)
  /\ \A i \in Threads : InJob(i) => layer[i] \in 1..Len(Rings[myJob[i]])

\* The graphs ring in the order of their jobs.
Graphs ==
  /\ \A n \in DOMAIN stream : /\ stream[n].job < nPosted
                              /\ \A s \in Slots : request[s] <= stream[n].job
  /\ \A m, n \in DOMAIN stream : m <= n => stream[m].job <= stream[n].job
  /\ \A s \in Slots : request[s] < nPosted
  /\ \A k \in Jobs, s \in Slots, o \in {1, 2} : Running(k, s, o) => request[s] = k

Shares ==
  \A s \in Slots :
    /\ ring[s] <= request[s] + 1 /\ done[s] <= myJob[Leader] + 1
    /\ \A i \in Threads : done[s] <= partial[s][i] + 1 /\ partial[s][i] <= request[s]

\* The leader decided to serve: the request is there.
Serving == IF ToCount THEN (pc[Leader] = "verdict" /\ verdict # 0) \/ (pc[Leader] = "seq" /\ goVerdict # 0)
           ELSE goVerdict # 0
Asked == Serving => request[OwnSlot(Leader)] >= myJob[Leader]

\* What is written when a thread is at the barrier that ends a layer, and past it.
AllWritten == \A j \in Threads : partial[OwnSlot(Leader)][j] >= myJob[Leader]
WrittenBy(i) ==
  /\ pc[i] = "work" => missing
  /\ pc[i] \in InBarrier /\ ~Released(i) /\ ph[i] = NPhases =>
       IF missing THEN partial[OwnSlot(i)][i] >= myJob[i] ELSE i = Leader => AllWritten
Written ==
  /\ \A i \in Threads : WrittenBy(i)
  /\ Released(Leader) /\ ph[Leader] = NPhases => AllWritten

Mail == MailTypes /\ Graphs /\ Shares /\ Asked /\ Written

LEMMA InitMail == Init => Mail
<1> SUFFICES ASSUME Init PROVE Mail
  OBVIOUS
<1> USE DoorbellAssumption, LeaderIsThread DEF Init, None
<1>1. pc[Leader] = "job" /\ \A i \in Threads : Away(i) /\ ~InJob(i) /\ ~Released(i) /\ pc[i] \notin InBarrier
  BY DEF Away, InJob, Released, InBarrier
<1>2. MailTypes
  BY <1>1 DEF MailTypes
<1>3. Graphs
  BY DEF Graphs, Running
<1>4. Shares
  BY DEF Shares
<1>5. Asked
  BY <1>1 DEF Asked, Serving, ToCount
<1>6. Written
  BY <1>1 DEF Written, WrittenBy
<1>. QED BY <1>2, <1>3, <1>4, <1>5, <1>6 DEF Mail

\* A thread that is in a job works on the job's own slots.
LEMMA OwnLayer ==
  ASSUME Team, Mail, NEW i \in Threads, InJob(i)
  PROVE  /\ myJob[i] \in Jobs /\ Entry(i) = myJob[i]
         /\ OwnSlot(i) \in Slots /\ SlotOf(i) = OwnSlot(i)
<1>1. Entry(i) = myJob[i]
  BY EntryOfJob DEF InJob
<1>2. myJob[i] \in Nat /\ myJob[i] < nPosted /\ nPosted <= MaxJobs /\ nPosted \in Nat /\ MaxJobs \in Nat
  BY DoorbellAssumption DEF Team, TeamTypes, Entries, InJob, Mail, MailTypes
<1>3. myJob[i] \in Jobs
  BY <1>2 DEF Jobs
<1>4. Rings[myJob[i]] \in Seq(Slots)
  BY <1>3, DoorbellAssumption DEF Jobs
<1>5. layer[i] \in 1..Len(Rings[myJob[i]])
  BY DEF Mail, MailTypes
<1>6. OwnSlot(i) \in Slots
  BY <1>4, <1>5 DEF OwnSlot
<1>. QED BY <1>1, <1>3, <1>6 DEF SlotOf, Layers, OwnSlot

\* A thread that decided is in the leader's layer.
LEMMA WithLeader ==
  ASSUME Team, NEW i \in Threads, Decided(i)
  PROVE  /\ ~ToCount /\ InJob(i) /\ InJob(Leader)
         /\ myJob[i] = myJob[Leader] /\ layer[i] = layer[Leader] /\ OwnSlot(i) = OwnSlot(Leader)
<1>1. ~ToCount
  BY NotYetCounted
<1>2. ~Away(Leader) /\ ~Onward(Leader) /\ ~JobOver(Leader)
  BY <1>1 DEF ToCount, Onward, JobOver
<1>3. ~Away(i) /\ ~Onward(i) /\ ~JobOver(i)
  BY DEF Decided, Away, Past, Onward, JobOver, Released, InBarrier
<1>4. PartOf(i) = PartOf(Leader)
  BY LeaderIsThread DEF Team, InStep
<1>5. myJob[i] = myJob[Leader] /\ layer[i] = layer[Leader]
  BY <1>2, <1>3, <1>4 DEF PartOf, JobOf, LayerOf
<1>. QED BY <1>1, <1>2, <1>3, <1>5 DEF InJob, OwnSlot

\* A thread that waits at the barrier at the end of a layer
LEMMA AtEnd ==
  ASSUME Team, Mail, NEW j \in Threads, pc[j] \in InBarrier, ph[j] = NPhases
  PROVE  InJob(j) /\ OwnSlot(j) \in Slots
<1>1. InJob(j)
  BY DEF InJob, Away, JobOver, InBarrier, NPhases
<1>. QED BY <1>1, OwnLayer

\* What the others have written stays, while no share gets older.
LEMMA OthersWritten ==
  ASSUME Team, Mail, NEW i \in Threads, Alone(i), NEW j \in Threads \ {i},
         partial' \in [Slots -> [Threads -> Int]],
         \A s \in Slots, k \in Threads : partial'[s][k] >= partial[s][k]
  PROVE  /\ WrittenBy(j)'
         /\ j = Leader /\ Released(Leader)' /\ ph'[Leader] = NPhases => AllWritten'
<1>1. /\ Released(j)' <=> Released(j)
      /\ pc'[j] = pc[j] /\ ph'[j] = ph[j] /\ myJob'[j] = myJob[j]
      /\ OwnSlot(j)' = OwnSlot(j) /\ missing' = missing
  BY OthersStay DEF Alone, OwnSlot
<1>2. myJob[j] \in Int /\ partial \in [Slots -> [Threads -> Int]]
  BY DEF Team, TeamTypes, Mail, MailTypes
<1>3. pc[j] \in InBarrier /\ ph[j] = NPhases => OwnSlot(j) \in Slots
  BY AtEnd
<1>4. WrittenBy(j) /\ (j = Leader /\ Released(j) /\ ph[j] = NPhases => AllWritten)
  BY DEF Mail, Written
<1>5. j = Leader /\ pc[j] \in InBarrier /\ ph[j] = NPhases /\ AllWritten => AllWritten'
  <2> SUFFICES ASSUME j = Leader, pc[j] \in InBarrier, ph[j] = NPhases, AllWritten, NEW k \in Threads
               PROVE  partial'[OwnSlot(j)'][k] >= myJob'[j]
    BY DEF AllWritten
  <2>1. partial[OwnSlot(j)][k] >= myJob[j]
    BY DEF AllWritten
  <2>2. OwnSlot(j) \in Slots
    BY <1>3
  <2>3. partial[OwnSlot(j)][k] \in Int /\ partial'[OwnSlot(j)][k] \in Int
        /\ partial'[OwnSlot(j)][k] >= partial[OwnSlot(j)][k]
    BY <1>2, <2>2
  <2>4. partial'[OwnSlot(j)][k] >= myJob[j]
    BY <1>2, <2>1, <2>3
  <2>. QED BY <1>1, <2>4
<1>6. WrittenBy(j)'
  <2>0. pc'[j] = "work" => missing'
    BY <1>1, <1>4 DEF WrittenBy
  <2> SUFFICES ASSUME pc[j] \in InBarrier, ~Released(j), ph[j] = NPhases
               PROVE  IF missing THEN partial'[OwnSlot(j)][j] >= myJob[j]
                      ELSE j = Leader => AllWritten'
    BY <1>1, <2>0 DEF WrittenBy
  <2>1. CASE missing
    <3>1. partial[OwnSlot(j)][j] >= myJob[j]
      BY <1>4, <2>1 DEF WrittenBy
    <3>2. partial[OwnSlot(j)][j] \in Int /\ partial'[OwnSlot(j)][j] \in Int
          /\ partial'[OwnSlot(j)][j] >= partial[OwnSlot(j)][j]
      BY <1>2, <1>3
    <3>. QED BY <1>2, <2>1, <3>1, <3>2
  <2>2. CASE ~missing
    BY <1>4, <1>5, <2>2 DEF WrittenBy
  <2>. QED BY <2>1, <2>2
<1>7. Released(j) => pc[j] \in InBarrier
  BY DEF Released, InBarrier
<1>. QED BY <1>1, <1>4, <1>5, <1>6, <1>7

\* The steps of one thread, but for the shares.
LEMMA MailStays ==
  ASSUME Team, Mail, NEW i \in Threads, Alone(i),
         UNCHANGED <<request, stream, op, owner, nPosted, verdict>>,
         ring' \in [Slots -> Int], done' \in [Slots -> Int], partial' \in [Slots -> [Threads -> Int]],
         InJob(i)' => layer'[i] \in 1..Len(Rings[myJob'[i]]),
         i = Leader => Asked', Shares', Written'
  PROVE  Mail'
<1>1. MailTypes'
  <2>1. \A j \in Threads \ {i} : (InJob(j)' <=> InJob(j)) /\ layer'[j] = layer[j] /\ myJob'[j] = myJob[j]
    BY OthersStay DEF InJob, Alone
  <2>. QED BY <2>1 DEF Mail, MailTypes
<1>2. Graphs'
  <2>1. Graphs
    BY DEF Mail
  <2>2. \A k, s, o : Running(k, s, o)' <=> Running(k, s, o)
    BY DEF Running
  <2>. QED BY <2>1, <2>2 DEF Graphs
<1>3. Asked'
  <2>1. CASE i = Leader
    BY <2>1
  <2>2. CASE i # Leader
    <3>1. /\ (Away(Leader)' <=> Away(Leader)) /\ (Onward(Leader)' <=> Onward(Leader))
          /\ pc'[Leader] = pc[Leader] /\ myJob'[Leader] = myJob[Leader] /\ layer'[Leader] = layer[Leader]
          /\ goVerdict' = goVerdict
      BY <2>2, OthersStay, LeaderIsThread DEF Alone
    <3>2. (ToCount' <=> ToCount) /\ OwnSlot(Leader)' = OwnSlot(Leader)
      BY <3>1 DEF ToCount, OwnSlot
    <3>3. Serving' <=> Serving
      BY <3>1, <3>2 DEF Serving
    <3>. QED BY <3>1, <3>2, <3>3 DEF Mail, Asked
  <2>. QED BY <2>1, <2>2
<1>. QED BY <1>1, <1>2, <1>3 DEF Mail

\* The steps of one thread that write no share.
LEMMA QuietMail ==
  ASSUME Team, Mail, NEW i \in Threads, Alone(i),
         UNCHANGED <<request, ring, done, partial, stream, op, owner, nPosted, verdict>>,
         InJob(i)' => layer'[i] \in 1..Len(Rings[myJob'[i]]),
         WrittenBy(i)',
         i = Leader => /\ Asked' /\ myJob'[Leader] \in Nat /\ myJob'[Leader] >= myJob[Leader]
                       /\ Released(Leader)' /\ ph'[Leader] = NPhases => AllWritten'
  PROVE  Mail'
<1>1. /\ ring \in [Slots -> Int] /\ done \in [Slots -> Int] /\ partial \in [Slots -> [Threads -> Int]]
      /\ myJob[Leader] \in Nat
  BY LeaderIsThread DEF Mail, MailTypes, Team, TeamTypes
<1>2. \A s \in Slots, k \in Threads : partial'[s][k] >= partial[s][k]
  BY <1>1
<1>3. Shares'
  <2>1. myJob'[Leader] \in Nat /\ myJob'[Leader] >= myJob[Leader]
    BY <1>1, LeaderIsThread DEF Alone
  <2>2. \A s \in Slots : done[s] <= myJob[Leader] + 1 /\ done[s] \in Int
    BY <1>1 DEF Mail, Shares
  <2>3. \A s \in Slots : done[s] <= myJob'[Leader] + 1
    BY <1>1, <2>1, <2>2
  <2>. QED BY <2>3 DEF Mail, Shares
<1>4. Written'
  <2>1. \A j \in Threads : WrittenBy(j)'
    BY <1>1, <1>2, OthersWritten
  <2>2. Released(Leader)' /\ ph'[Leader] = NPhases => AllWritten'
    BY <1>1, <1>2, OthersWritten, LeaderIsThread
  <2>. QED BY <2>1, <2>2 DEF Written
<1>. QED BY <1>1, <1>3, <1>4, MailStays

LEMMA WaitsMail ==
  ASSUME Team, Mail, NEW i \in Threads,
         \/ TakeJob(i) \/ Exit(i) \/ SeeGo(i) \/ CountParked(i) \/ WaitGo(i) \/ Unpark(i)
         \/ Wakeup(i) \/ Park(i)
  PROVE  Mail'
<1>1. PICK there \in {"ring", "go", "exited", "decided", "predicate", "parked", "count"} :
        /\ pc' = [pc EXCEPT ![i] = there]
        /\ pc[i] = "job" => there \in {"exited", IF i = Leader THEN "ring" ELSE "go"}
        /\ TakeJob(i) => there # "exited"
        /\ pc[i] # "job" => there # "exited"
  BY DEF TakeJob, EnterLayer, Exit, SeeGo, CountParked, WaitGo, Unpark, Wakeup, Park, Goto
<1>2. pc[i] \in {"job", "go", "count", "predicate", "parked"}
  BY DEF TakeJob, Exit, SeeGo, CountParked, WaitGo, Unpark, Wakeup, Park
<1>3. UNCHANGED <<owner, jobs, nPosted, nDone, myJob, ph, verdict, missing, goSeq, goVerdict,
                  barCount, barPhase, saved, request, ring, done, partial, stream, op>>
  BY DEF TakeJob, EnterLayer, Exit, SeeGo, CountParked, WaitGo, Unpark, Wakeup, Park,
         ownerVars, deviceVars, mailVars, serveVars, leadVars, goVars, barVars
<1>4. \/ UNCHANGED <<layer, myGo>> /\ (pc[i] = "job" => there = "exited")
      \/ TakeJob(i) /\ layer' = [layer EXCEPT ![i] = 1] /\ myGo' = [myGo EXCEPT ![i] = @ + 1]
  <2>1. CASE TakeJob(i)
    BY <2>1 DEF TakeJob, EnterLayer
  <2>2. CASE ~TakeJob(i)
    <3>1. UNCHANGED <<layer, myGo>>
      BY <2>2 DEF Exit, SeeGo, CountParked, WaitGo, Unpark, Wakeup, Park, serveVars
    <3>2. pc[i] = "job" => Exit(i)
      BY <2>2 DEF SeeGo, CountParked, WaitGo, Unpark, Wakeup, Park
    <3>3. Exit(i) => pc' = [pc EXCEPT ![i] = "exited"]
      BY DEF Exit, Goto
    <3>4. pc[i] = "job" => there = "exited"
      BY <1>1, <3>2, <3>3 DEF Team, TeamTypes
    <3>. QED BY <3>1, <3>4
  <2>. QED BY <2>1, <2>2
<1>5. /\ pc \in [Threads -> Places] /\ myGo \in [Threads -> Nat] /\ layer \in [Threads -> Nat] /\ myJob \in [Threads -> Nat]
      /\ nPosted \in Nat
  BY DEF Team, TeamTypes
<1>6. pc'[i] = there
  BY <1>1, <1>5
<1>7. Alone(i)
  BY <1>1, <1>3, <1>4, <1>5 DEF Alone
<1>8. ~Released(i) /\ ~Released(i)' /\ pc'[i] \notin InBarrier
  BY <1>2, <1>6 DEF Released, InBarrier
<1>9. ASSUME InJob(i)' PROVE layer'[i] \in 1..Len(Rings[myJob'[i]])
  <2>1. there # "exited"
    BY <1>6, <1>9 DEF InJob, Away
  <2>2. CASE TakeJob(i)
    <3>1. layer'[i] = 1
      BY <1>4, <1>5, <2>1, <2>2 DEF TakeJob
    <3>2. myJob[i] < nPosted /\ nPosted <= MaxJobs /\ MaxJobs \in Nat
      BY <2>2, <1>5, DoorbellAssumption DEF TakeJob, Mail, MailTypes
    <3>3. myJob[i] \in 0..MaxJobs-1
      BY <1>5, <3>2
    <3>4. Rings[myJob[i]] \in Seq(Slots) \ {<<>>}
      BY <3>3, DoorbellAssumption
    <3>. QED BY <1>3, <3>1, <3>4
  <2>3. CASE ~TakeJob(i)
    <3>1. pc[i] # "job" /\ layer' = layer
      BY <1>4, <2>1, <2>3
    <3>2. InJob(i)
      BY <1>2, <1>8, <3>1 DEF InJob, Away, JobOver
    <3>. QED BY <1>3, <3>1, <3>2 DEF Mail, MailTypes
  <2>. QED BY <2>2, <2>3
<1>10. WrittenBy(i)'
  BY <1>6, <1>8 DEF WrittenBy
<1>11. ASSUME i = Leader
       PROVE  /\ Asked' /\ myJob'[Leader] \in Nat /\ myJob'[Leader] >= myJob[Leader]
              /\ Released(Leader)' /\ ph'[Leader] = NPhases => AllWritten'
  <2>1. pc[i] = "job"
    BY <1>2, <1>11 DEF Team, TeamTypes, Following
  <2>2. pc'[Leader] \in {"exited", "ring"}
    BY <1>1, <1>6, <1>11, <2>1
  <2>3. ~Serving'
    BY <2>2 DEF Serving, ToCount, Away
  <2>. QED BY <1>3, <1>5, <1>8, <1>11, <2>3 DEF Asked
<1>. QED BY <1>3, <1>7, <1>9, <1>10, <1>11, QuietMail

\* What the leader does up to the count: nobody has written a share of this layer.
LEMMA LeadMailToCount ==
  ASSUME Team, Mail, NEW there \in {"ring", "abort?", "verdict", "seq", "look"},
         pc[Leader] \in {"ring", "abort?", "verdict", "seq"},
         pc' = [pc EXCEPT ![Leader] = there],
         UNCHANGED <<owner, nPosted, myJob, layer, ph, barVars, request, ring, done, partial, stream, op>>,
         Asked'
  PROVE  Mail'
<1>1. pc'[Leader] = there /\ \A j \in Threads \ {Leader} : pc'[j] = pc[j]
  BY LeaderIsThread DEF Team, TeamTypes
<1>2. \A j \in Threads : ~Decided(j)
  BY NotYetCounted DEF ToCount
<1>3. ASSUME NEW j \in Threads
      PROVE  /\ InJob(j)' <=> InJob(j)
             /\ Released(j)' <=> Released(j)
             /\ pc'[j] \in InBarrier <=> pc[j] \in InBarrier
  <2>1. CASE j = Leader
    BY <1>1, <2>1 DEF InJob, Away, JobOver, Released, InBarrier
  <2>2. CASE j # Leader
    BY <1>1, <2>2 DEF InJob, Away, JobOver, Released, barVars
  <2>. QED BY <2>1, <2>2
<1>4. Written'
  <2>1. ASSUME NEW j \in Threads, pc'[j] \in InBarrier, ~Released(j)' PROVE FALSE
    <3>1. Past(j) /\ ~Released(j)
      BY <1>3, <2>1 DEF Past
    <3>2. Decided(j)
      BY <3>1 DEF Decided, Onward
    <3>. QED BY <1>2, <3>2
  <2>2. ~Released(Leader)'
    BY <1>1 DEF Released
  <2>3. ASSUME NEW j \in Threads, pc'[j] = "work" PROVE FALSE
    <3>1. pc[j] = "work"
      BY <1>1, <2>3
    <3>2. Decided(j)
      BY <3>1 DEF Decided, Past, Onward, Released
    <3>. QED BY <1>2, <3>2
  <2>. QED BY <2>1, <2>2, <2>3 DEF Written, WrittenBy
<1>5. MailTypes'
  BY <1>3 DEF Mail, MailTypes
<1>6. Graphs' /\ Shares'
  <2>1. \A k, s, o : Running(k, s, o)' <=> Running(k, s, o)
    BY DEF Running
  <2>2. Graphs /\ Shares
    BY DEF Mail
  <2>. QED BY <2>1, <2>2 DEF Graphs, Shares
<1>. QED BY <1>4, <1>5, <1>6 DEF Mail

LEMMA LeadMail == Team /\ Mail /\ Lead => Mail'
<1> SUFFICES ASSUME Team, Mail, Lead PROVE Mail'
  OBVIOUS
<1>1. UNCHANGED <<owner, nPosted, myJob, layer, ph, barVars, request, ring, done, partial, stream, op>>
  BY DEF Lead, SeeRing, NoRing, LookAbort, Publish, CountGo, LookParked, NotifyGo,
         ownerVars, deviceVars, mailVars, serveVars
<1>2. OwnSlot(Leader)' = OwnSlot(Leader)
  BY <1>1 DEF OwnSlot
<1>3. Asked
  BY DEF Mail
<1>4. Leader \in Threads /\ pc \in [Threads -> Places]
  BY LeaderIsThread DEF Team, TeamTypes
<1>5. CASE SeeRing
  <2>1. pc[Leader] = "ring" /\ pc' = [pc EXCEPT ![Leader] = "verdict"]
        /\ ring[SlotOf(Leader)] = Step(Entry(Leader))
    BY <1>5 DEF SeeRing, Goto
  <2>2. InJob(Leader)
    BY <2>1 DEF InJob, Away, JobOver, Released
  <2>3. OwnSlot(Leader) \in Slots /\ ring[OwnSlot(Leader)] = myJob[Leader] + 1 /\ myJob[Leader] \in Nat
    BY <1>4, <2>1, <2>2, OwnLayer DEF Step, Team, TeamTypes
  <2>4. ring[OwnSlot(Leader)] <= request[OwnSlot(Leader)] + 1 /\ request[OwnSlot(Leader)] \in Int
    BY <2>3 DEF Mail, Shares, MailTypes
  <2>5. request[OwnSlot(Leader)] >= myJob[Leader]
    BY <2>3, <2>4
  <2>6. Asked'
    BY <1>1, <1>2, <2>5 DEF Asked
  <2>. QED BY <1>1, <2>1, <2>6, LeadMailToCount
<1>6. CASE NoRing
  <2>1. pc[Leader] = "ring" /\ pc' = [pc EXCEPT ![Leader] = "abort?"]
    BY <1>6 DEF NoRing, Goto
  <2>2. pc'[Leader] = "abort?"
    BY <1>4, <2>1
  <2>3. Asked'
    BY <2>2 DEF Asked, Serving, ToCount
  <2>. QED BY <1>1, <2>1, <2>3, LeadMailToCount
<1>7. CASE LookAbort
  <2>1. PICK there \in {"verdict", "ring"} : /\ pc[Leader] = "abort?" /\ pc' = [pc EXCEPT ![Leader] = there]
                                             /\ there = "verdict" => verdict' = 0
    BY <1>7 DEF LookAbort, Goto
  <2>2. pc'[Leader] = there
    BY <1>4, <2>1
  <2>3. Asked'
    BY <2>1, <2>2 DEF Asked, Serving, ToCount
  <2>. QED BY <1>1, <2>1, <2>3, LeadMailToCount
<1>8. CASE Publish
  <2>1. pc[Leader] = "verdict" /\ pc' = [pc EXCEPT ![Leader] = "seq"] /\ goVerdict' = verdict
    BY <1>8 DEF Publish, Goto
  <2>2. pc'[Leader] = "seq"
    BY <1>4, <2>1
  <2>3. Serving' => Serving
    BY <2>1, <2>2 DEF Serving, ToCount
  <2>4. Asked'
    BY <1>1, <1>2, <1>3, <2>3 DEF Asked
  <2>. QED BY <1>1, <2>1, <2>4, LeadMailToCount
<1>9. CASE CountGo
  <2>1. pc[Leader] = "seq" /\ pc' = [pc EXCEPT ![Leader] = "look"] /\ goVerdict' = goVerdict
    BY <1>9 DEF CountGo, Goto
  <2>2. pc'[Leader] = "look"
    BY <1>4, <2>1
  <2>3. Serving' => Serving
    BY <2>1, <2>2 DEF Serving, ToCount
  <2>4. Asked'
    BY <1>1, <1>2, <1>3, <2>3 DEF Asked
  <2>. QED BY <1>1, <2>1, <2>4, LeadMailToCount
<1>10. CASE LookParked \/ NotifyGo
  <2>1. PICK there \in {"notify", "decided"} : pc' = [pc EXCEPT ![Leader] = there]
    BY <1>10 DEF LookParked, NotifyGo, Goto
  <2>2. pc[Leader] \in {"look", "notify"} /\ UNCHANGED <<verdict, missing, goVerdict, barPhase, saved, myGo>>
    BY <1>10 DEF LookParked, NotifyGo, leadVars, goVars, barVars, serveVars
  <2>3. pc'[Leader] = there /\ \A j \in Threads \ {Leader} : pc'[j] = pc[j]
    BY <1>4, <2>1
  <2>4. Alone(Leader)
    BY <1>1, <2>2, <2>3 DEF Alone
  <2>5. /\ ~Released(Leader) /\ ~Released(Leader)' /\ ~Away(Leader) /\ ~Away(Leader)'
        /\ pc'[Leader] \notin InBarrier
    BY <2>2, <2>3 DEF Released, Away, InBarrier
  <2>6. ~ToCount /\ ~ToCount' /\ InJob(Leader)
    BY <2>2, <2>3, <2>5 DEF ToCount, Onward, InJob, JobOver
  <2>7. Asked'
    BY <1>1, <1>2, <1>3, <2>2, <2>6 DEF Asked, Serving
  <2>8. WrittenBy(Leader)' /\ layer'[Leader] \in 1..Len(Rings[myJob'[Leader]])
    BY <1>1, <1>4, <2>3, <2>5, <2>6 DEF WrittenBy, Mail, MailTypes
  <2>9. myJob'[Leader] \in Nat /\ myJob'[Leader] >= myJob[Leader]
    BY <1>1, <1>4 DEF Team, TeamTypes
  <2>. QED BY <1>1, <1>4, <2>2, <2>4, <2>5, <2>7, <2>8, <2>9, QuietMail
<1>. QED BY <1>5, <1>6, <1>7, <1>8, <1>9, <1>10 DEF Lead

\* barrier(), but for the flip: the shares that were written stay so.
LEMMA BarrierMail ==
  ASSUME Team, Mail, NEW i \in Threads,
         (NThreads > 1 /\ ReadPhase(i)) \/ Arrive(i) \/ Reset(i) \/ Spin(i)
  PROVE  Mail'
<1>1. PICK there \in InBarrier : pc' = [pc EXCEPT ![i] = there] /\ there # "barrier"
                                 /\ (there = "through" => Spin(i))
  <2>1. CASE NThreads > 1 /\ ReadPhase(i)
    <3>1. NThreads # 1
      BY <2>1
    <3>. QED BY <2>1, <3>1 DEF ReadPhase, Goto, InBarrier
  <2>2. CASE Arrive(i)
    BY <2>2 DEF Arrive, Goto, InBarrier
  <2>3. CASE Reset(i)
    BY <2>3 DEF Reset, Goto, InBarrier
  <2>4. CASE Spin(i)
    BY <2>4 DEF Spin, Goto, InBarrier
  <2>. QED BY <2>1, <2>2, <2>3, <2>4
<1>2. UNCHANGED <<owner, nPosted, myJob, myGo, layer, ph, missing, verdict, goVerdict, barPhase,
                  request, ring, done, partial, stream, op>>
  BY DEF ReadPhase, Arrive, Reset, Spin, ownerVars, deviceVars, mailVars, serveVars, leadVars, goVars,
         barVars
<1>3. /\ pc \in [Threads -> Places] /\ saved \in [Threads -> 0..1] /\ barPhase \in 0..1
      /\ myJob \in [Threads -> Nat]
  BY DEF Team, TeamTypes
<1>4. pc[i] \in InBarrier /\ pc'[i] = there /\ \A j \in Threads \ {i} : pc'[j] = pc[j]
  BY <1>1, <1>3 DEF ReadPhase, Arrive, Reset, Spin, InBarrier
<1>5. /\ Released(i)' <=> Released(i)
      /\ \A j \in Threads \ {i} : saved'[j] = saved[j]
  <2>1. CASE ReadPhase(i)
    BY <1>1, <1>2, <1>3, <1>4, <2>1 DEF ReadPhase, Spin, Released
  <2>2. CASE Arrive(i)
    <3>1. saved[i] = barPhase
      BY <2>2 DEF Arrive, Team, Barrier
    <3>. QED BY <1>1, <1>2, <1>4, <2>2, <3>1 DEF Arrive, Spin, Released
  <2>3. CASE Reset(i)
    <3>1. pc' = [pc EXCEPT ![i] = "flip"] /\ pc[i] = "reset" /\ saved' = saved
      BY <2>3 DEF Reset, Goto
    <3>. QED BY <1>3, <3>1 DEF Released
  <2>4. CASE Spin(i)
    <3>1. pc' = [pc EXCEPT ![i] = "through"] /\ pc[i] = "spin" /\ saved' = saved /\ saved[i] # barPhase
      BY <2>4 DEF Spin, Goto, barVars
    <3>. QED BY <1>3, <3>1 DEF Released
  <2>. QED BY <2>1, <2>2, <2>3, <2>4
<1>6. Alone(i)
  BY <1>2, <1>4, <1>5 DEF Alone
<1>7. (JobOver(i)' <=> JobOver(i)) /\ (Onward(i)' <=> Onward(i)) /\ ~Away(i) /\ ~Away(i)'
  BY <1>2, <1>4, <1>5 DEF JobOver, Onward, MoreLayers, Away, InBarrier
<1>8. InJob(i)' => layer'[i] \in 1..Len(Rings[myJob'[i]])
  BY <1>2, <1>7 DEF InJob, Mail, MailTypes
<1>9. AllWritten' <=> AllWritten
  BY <1>2 DEF AllWritten, OwnSlot
<1>10. WrittenBy(i)'
  <2>1. WrittenBy(i)
    BY DEF Mail, Written
  <2>. QED BY <1>2, <1>4, <1>5, <1>9, <2>1 DEF WrittenBy, OwnSlot, InBarrier
<1>11. ASSUME i = Leader
       PROVE  /\ Asked' /\ myJob'[Leader] \in Nat /\ myJob'[Leader] >= myJob[Leader]
              /\ Released(Leader)' /\ ph'[Leader] = NPhases => AllWritten'
  <2>1. ToCount' <=> ToCount
    BY <1>4, <1>7, <1>11 DEF ToCount, InBarrier
  <2>2. Serving' <=> Serving
    BY <1>2, <1>4, <1>11, <2>1 DEF Serving, InBarrier
  <2>3. Asked'
    BY <1>2, <2>2 DEF Mail, Asked, OwnSlot
  <2>4. myJob'[Leader] \in Nat /\ myJob'[Leader] >= myJob[Leader]
    BY <1>2, <1>3, LeaderIsThread
  <2>5. Released(Leader)' /\ ph'[Leader] = NPhases => AllWritten'
    BY <1>2, <1>5, <1>9, <1>11 DEF Mail, Written
  <2>. QED BY <2>3, <2>4, <2>5
<1>. QED BY <1>2, <1>6, <1>8, <1>10, <1>11, QuietMail

\* The barrier at the end of a layer: when it lets the leader through, all is written.
LEMMA FlipMail ==
  ASSUME Team, Mail, NEW i \in Threads, Flip(i) \/ (NThreads = 1 /\ ReadPhase(i))
  PROVE  Mail'
<1>1. \A j \in Threads : /\ Past(j) /\ ~Released(j) /\ Past(j)' /\ Released(j)'
                         /\ ~Away(j) /\ ~Away(j)'
                         /\ pc[j] \in InBarrier /\ pc'[j] \in InBarrier
  BY FlipPasses
<1>2. UNCHANGED <<owner, nPosted, myJob, layer, ph, missing, verdict, goVerdict, request, ring, done,
                  partial, stream, op>>
  BY DEF Flip, ReadPhase, ownerVars, deviceVars, mailVars, serveVars, leadVars, goVars
<1>3. MailTypes'
  <2>1. \A j \in Threads : InJob(j)
    BY <1>1 DEF InJob, JobOver
  <2>. QED BY <1>2, <2>1 DEF Mail, MailTypes
<1>4. Graphs' /\ Shares'
  <2>1. \A k, s, o : Running(k, s, o)' <=> Running(k, s, o)
    BY <1>2 DEF Running
  <2>2. Graphs /\ Shares
    BY DEF Mail
  <2>. QED BY <1>2, <2>1, <2>2 DEF Graphs, Shares
<1>5. Asked'
  <2>1. pc[Leader] \in InBarrier /\ pc'[Leader] \in InBarrier /\ ~Onward(Leader) /\ ~Away(Leader)
    BY <1>1, LeaderIsThread DEF Onward
  <2>2. Serving' => Serving
    BY <1>2, <2>1 DEF Serving, ToCount, InBarrier
  <2>. QED BY <1>2, <2>2 DEF Mail, Asked, OwnSlot
<1>6. Written'
  <2>1. \A j \in Threads : WrittenBy(j)'
    BY <1>1 DEF WrittenBy, InBarrier
  <2>2. ASSUME ph[Leader] = NPhases PROVE AllWritten
    <3>1. \A j \in Threads : ph[j] = NPhases /\ OwnSlot(j) = OwnSlot(Leader) /\ myJob[j] = myJob[Leader]
      BY <1>1, <2>2, SamePlace, LeaderIsThread DEF OwnSlot
    <3>2. \A j \in Threads : WrittenBy(j)
      BY DEF Mail, Written
    <3>3. CASE missing
      BY <1>1, <3>1, <3>2, <3>3 DEF WrittenBy, AllWritten
    <3>4. CASE ~missing
      BY <1>1, <3>1, <3>2, <3>4, LeaderIsThread DEF WrittenBy
    <3>. QED BY <3>3, <3>4
  <2>. QED BY <1>2, <2>1, <2>2 DEF Written, AllWritten, OwnSlot
<1>. QED BY <1>3, <1>4, <1>5, <1>6 DEF Mail

\* After the barrier: DONE is set when all is written.
LEMMA GoesOnMail ==
  ASSUME Team, Mail, NEW i \in Threads, NextPhase(i) \/ EndLayer(i) \/ EndJob(i)
  PROVE  Mail'
<1>1. /\ pc \in [Threads -> Places] /\ ph \in [Threads -> 0..NPhases] /\ layer \in [Threads -> Nat]
      /\ myGo \in [Threads -> Nat] /\ myJob \in [Threads -> Nat]
  BY DEF Team, TeamTypes
<1>2. pc[i] = "through" /\ Released(i) /\ Past(i) /\ ~Away(i)
  BY DEF NextPhase, EndLayer, EndJob, Released, Past, Away, InBarrier
<1>3. UNCHANGED <<owner, nPosted, verdict, missing, goVerdict, barPhase, saved, request, ring,
                  partial, stream, op>>
  BY DEF NextPhase, EndLayer, EndJob, ownerVars, deviceVars, mailVars, leadVars, goVars, barVars
<1>4. PICK there \in {"work", "ring", "go", "barrier", "job"} :
        /\ pc' = [pc EXCEPT ![i] = there]
        /\ NextPhase(i) => there = "work"
        /\ EndJob(i) => there = "job"
        /\ EndLayer(i) => \/ there = "barrier" /\ ph' = [ph EXCEPT ![i] = 0] /\ UNCHANGED <<layer, myGo>>
                             /\ ~(layer[i] < Len(Layers(i)))
                          \/ there \in {"ring", "go"} /\ (i = Leader => there = "ring") /\ UNCHANGED ph
                             /\ layer' = [layer EXCEPT ![i] = layer[i] + 1]
                             /\ myGo' = [myGo EXCEPT ![i] = @ + 1]
                             /\ layer[i] < Len(Layers(i))
  <2>1. CASE NextPhase(i)
    BY <2>1 DEF NextPhase, EndLayer, EndJob, Goto, NPhases
  <2>2. CASE EndLayer(i)
    <3>1. ~NextPhase(i) /\ ~EndJob(i)
      BY <2>2 DEF NextPhase, EndLayer, EndJob, NPhases
    <3>. QED BY <2>2, <3>1 DEF EndLayer, EnterLayer, Goto
  <2>3. CASE EndJob(i)
    BY <2>3 DEF NextPhase, EndLayer, EndJob, Goto, NPhases
  <2>. QED BY <2>1, <2>2, <2>3
<1>5. pc'[i] = there /\ \A j \in Threads \ {i} : pc'[j] = pc[j]
  BY <1>1, <1>4
<1>6. \A j \in Threads \ {i} : /\ ph'[j] = ph[j] /\ layer'[j] = layer[j] /\ myGo'[j] = myGo[j]
                               /\ myJob'[j] = myJob[j]
  <2>1. CASE NextPhase(i)
    BY <1>1, <2>1 DEF NextPhase
  <2>2. CASE EndLayer(i)
    BY <1>1, <1>4, <2>2 DEF EndLayer
  <2>3. CASE EndJob(i)
    BY <1>1, <2>3 DEF EndJob
  <2>. QED BY <2>1, <2>2, <2>3
<1>7. Alone(i)
  BY <1>3, <1>5, <1>6 DEF Alone
<1>8. ~Released(i)' /\ (pc'[i] \in InBarrier => EndLayer(i) /\ ph'[i] # NPhases)
  <2>1. ~Released(i)'
    BY <1>5 DEF Released
  <2>2. pc'[i] \in InBarrier => there = "barrier"
    BY <1>5 DEF InBarrier
  <2>3. there = "barrier" => EndLayer(i) /\ ph'[i] = 0
    BY <1>1, <1>4
  <2>. QED BY <2>1, <2>2, <2>3 DEF NPhases
<1>9. WrittenBy(i)' /\ ~Released(i)'
  <2>1. ASSUME NextPhase(i) PROVE missing
    <3>1. ph[i] \in 1..NPhases-1 /\ SettledFor(i)
      BY <2>1 DEF NextPhase, Team, Settled
    <3>. QED BY <1>2, <3>1 DEF SettledFor, Onward, NPhases
  <2>2. pc'[i] = "work" => NextPhase(i)
    BY <1>4, <1>5
  <2>. QED BY <1>3, <1>8, <2>1, <2>2 DEF WrittenBy
<1>10. /\ EndLayer(i) => InJob(i) /\ Layers(i) = Rings[myJob[i]] /\ SlotOf(i) = OwnSlot(i)
                         /\ OwnSlot(i) \in Slots /\ Entry(i) = myJob[i]
       /\ NextPhase(i) => InJob(i)
  <2>1. EndLayer(i) \/ NextPhase(i) => InJob(i)
    BY <1>2 DEF EndLayer, NextPhase, InJob, JobOver, NPhases
  <2>. QED BY <2>1, OwnLayer DEF Layers
<1>11. ASSUME InJob(i)' PROVE layer'[i] \in 1..Len(Rings[myJob'[i]])
  <2>1. CASE NextPhase(i)
    BY <1>10, <2>1 DEF NextPhase, Mail, MailTypes
  <2>2. CASE EndLayer(i)
    <3>1. layer[i] \in 1..Len(Layers(i)) /\ myJob' = myJob
      BY <1>10, <2>2 DEF EndLayer, Mail, MailTypes
    <3>2. Rings[myJob[i]] \in Seq(Slots)
      <4>1. myJob[i] \in Jobs
        BY <1>10, <2>2, OwnLayer
      <4>. QED BY <4>1, DoorbellAssumption DEF Jobs
    <3>3. layer'[i] = layer[i] \/ (layer'[i] = layer[i] + 1 /\ layer[i] < Len(Layers(i)))
      BY <1>1, <1>4, <2>2
    <3>4. Len(Layers(i)) \in Nat
      BY <1>10, <2>2, <3>2
    <3>5. layer'[i] \in 1..Len(Layers(i))
      BY <3>1, <3>3, <3>4
    <3>. QED BY <1>10, <2>2, <3>1, <3>5
  <2>3. CASE EndJob(i)
    BY <1>4, <1>5, <1>11, <2>3 DEF InJob, Away
  <2>. QED BY <2>1, <2>2, <2>3
<1>12. ASSUME i = Leader PROVE Asked'
  <2>1. CASE NextPhase(i)
    <3>1. ph[i] \in 1..NPhases-1 /\ UNCHANGED <<myJob, layer>>
      BY <2>1 DEF NextPhase
    <3>2. ~ToCount
      BY <1>2, <1>12, <3>1 DEF ToCount, Onward, NPhases
    <3>3. Serving' => Serving
      BY <1>3, <1>4, <1>5, <1>12, <2>1, <3>2 DEF Serving
    <3>. QED BY <1>3, <3>1, <3>3 DEF Mail, Asked, OwnSlot
  <2>2. CASE EndLayer(i)
    <3>1. CASE there = "barrier"
      <4>1. UNCHANGED <<layer, myJob>> /\ ~MoreLayers(i) /\ ph[i] = NPhases
        BY <1>4, <1>10, <2>2, <3>1 DEF EndLayer, MoreLayers
      <4>2. ~ToCount
        BY <1>2, <1>12, <4>1 DEF ToCount, Onward, NPhases
      <4>3. Serving' => Serving
        BY <1>3, <1>5, <1>12, <3>1, <4>2 DEF Serving
      <4>. QED BY <1>3, <4>1, <4>3 DEF Mail, Asked, OwnSlot
    <3>2. CASE there # "barrier"
      <4>1. pc'[Leader] = "ring"
        BY <1>4, <1>5, <1>12, <2>2, <3>2
      <4>. QED BY <4>1 DEF Asked, Serving, ToCount
    <3>. QED BY <3>1, <3>2
  <2>3. CASE EndJob(i)
    <3>1. pc'[Leader] = "job"
      BY <1>4, <1>5, <1>12, <2>3
    <3>. QED BY <3>1 DEF Asked, Serving, ToCount, Away
  <2>. QED BY <2>1, <2>2, <2>3
<1>13. myJob'[Leader] \in Nat /\ myJob'[Leader] >= myJob[Leader]
  <2>1. myJob' = myJob \/ myJob' = [myJob EXCEPT ![i] = @ + 1]
    BY DEF NextPhase, EndLayer, EndJob
  <2>. QED BY <1>1, <2>1, LeaderIsThread
<1>14. CASE EndLayer(i) /\ i = Leader
  <2>1. done' = [done EXCEPT ![OwnSlot(Leader)] = myJob[Leader] + 1] /\ myJob' = myJob /\ ph[i] = NPhases
    BY <1>10, <1>14 DEF EndLayer, Step
  <2>2. /\ done \in [Slots -> Int] /\ ring \in [Slots -> Int] /\ partial \in [Slots -> [Threads -> Int]]
        /\ myJob[Leader] + 1 \in Int
    BY <1>1, LeaderIsThread DEF Mail, MailTypes
  <2>3. AllWritten
    BY <1>2, <1>14, <2>1 DEF Mail, Written
  <2>4. Shares'
    <3> SUFFICES ASSUME NEW s \in Slots
                 PROVE  done'[s] <= myJob[Leader] + 1 /\ \A k \in Threads : done'[s] <= partial[s][k] + 1
      BY <1>3, <2>1 DEF Mail, Shares
    <3>1. CASE s = OwnSlot(Leader)
      <4>1. done'[s] = myJob[Leader] + 1
        BY <2>1, <2>2, <3>1
      <4>2. \A k \in Threads : partial[s][k] \in Int /\ partial[s][k] >= myJob[Leader]
        BY <2>2, <2>3, <3>1 DEF AllWritten
      <4>3. myJob[Leader] \in Int
        BY <1>1, LeaderIsThread
      <4>. QED BY <4>1, <4>2, <4>3
    <3>2. CASE s # OwnSlot(Leader)
      BY <2>1, <2>2, <3>2 DEF Mail, Shares
    <3>. QED BY <3>1, <3>2
  <2>5. Written'
    <3>1. \A s \in Slots, k \in Threads : partial'[s][k] >= partial[s][k]
      BY <1>3, <2>2
    <3>2. \A j \in Threads : WrittenBy(j)'
      BY <1>3, <1>7, <1>9, <2>2, <3>1, OthersWritten
    <3>. QED BY <1>9, <1>14, <3>2 DEF Written
  <2>6. done' \in [Slots -> Int]
    BY <2>1, <2>2
  <2>. QED BY <1>3, <1>7, <1>11, <1>12, <1>14, <2>2, <2>4, <2>5, <2>6, MailStays
<1>15. CASE ~(EndLayer(i) /\ i = Leader)
  <2>1. UNCHANGED done
    BY <1>15 DEF NextPhase, EndLayer, EndJob, mailVars
  <2>. QED BY <1>3, <1>7, <1>9, <1>11, <1>12, <1>13, <2>1, QuietMail
<1>. QED BY <1>14, <1>15

\* The shares: each of the request that is in the slot.
LEMMA WorksMail ==
  ASSUME Team, Mail, NEW i \in Threads, Decide(i) \/ Work(i)
  PROVE  Mail'
<1>1. PICK there \in {"barrier", "work"}, p \in 0..NPhases :
        /\ pc' = [pc EXCEPT ![i] = there] /\ ph' = [ph EXCEPT ![i] = p]
        /\ Work(i) => there = "barrier" /\ p = ph[i]
        /\ Decide(i) => \/ p = 0 /\ there = "barrier" /\ UNCHANGED partial
                        \/ goVerdict # 0 /\ missing /\ p = 1 /\ UNCHANGED partial
                        \/ goVerdict # 0 /\ ~missing /\ p = NPhases /\ there = "barrier"
  <2>1. CASE Decide(i)
    BY <2>1 DEF Decide, Work, Goto, NPhases
  <2>2. CASE Work(i)
    <3>1. ph' = [ph EXCEPT ![i] = ph[i]] /\ ph[i] \in 0..NPhases
      BY <2>2 DEF Work, serveVars, Team, TeamTypes
    <3>. QED BY <2>2, <3>1 DEF Decide, Work, Goto
  <2>. QED BY <2>1, <2>2
<1>2. pc[i] \in {"decided", "work"} /\ (pc[i] = "work" <=> Work(i)) /\ (pc[i] = "decided" <=> Decide(i))
  BY DEF Decide, Work
<1>3. UNCHANGED <<owner, nPosted, myJob, myGo, layer, verdict, missing, goVerdict, barPhase, saved,
                  request, ring, done, stream, op>>
  BY DEF Decide, Work, ownerVars, deviceVars, serveVars, leadVars, goVars, barVars
<1>4. /\ pc \in [Threads -> Places] /\ ph \in [Threads -> 0..NPhases] /\ myJob \in [Threads -> Nat]
      /\ ring \in [Slots -> Int] /\ done \in [Slots -> Int] /\ request \in [Slots -> Int]
      /\ partial \in [Slots -> [Threads -> Int]]
  BY DEF Team, TeamTypes, Mail, MailTypes
<1>5. /\ pc'[i] = there /\ ph'[i] = p
      /\ \A j \in Threads \ {i} : pc'[j] = pc[j] /\ ph'[j] = ph[j]
  BY <1>1, <1>4
<1>6. Alone(i)
  BY <1>3, <1>5 DEF Alone
<1>7. Decided(i)
  BY <1>2 DEF Decided, Past, Onward, Released
<1>8. /\ ~ToCount /\ InJob(i) /\ InJob(Leader)
      /\ myJob[i] = myJob[Leader] /\ layer[i] = layer[Leader] /\ OwnSlot(i) = OwnSlot(Leader)
  BY <1>7, WithLeader
<1>9. OwnSlot(i) \in Slots /\ SlotOf(i) = OwnSlot(i)
  BY <1>8, OwnLayer
<1>10. OwnSlot(i)' = OwnSlot(i) /\ OwnSlot(Leader)' = OwnSlot(Leader)
  BY <1>3 DEF OwnSlot
<1>11. ~Released(i)'
  BY <1>5 DEF Released
<1>12. InJob(i)' => layer'[i] \in 1..Len(Rings[myJob'[i]])
  BY <1>3, <1>8 DEF Mail, MailTypes
<1>13. goVerdict # 0 => request[OwnSlot(i)] >= myJob[i]
  BY <1>8 DEF Mail, Asked, Serving
<1>14. ASSUME i = Leader PROVE Asked'
  <2>1. ~ToCount'
    BY <1>5, <1>11, <1>14 DEF ToCount, Away, Onward
  <2>2. Serving' => Serving
    BY <1>3, <1>8, <2>1 DEF Serving
  <2>. QED BY <1>3, <1>10, <2>2 DEF Mail, Asked
<1>15. Work(i) => missing /\ goVerdict # 0
  <2>1. ASSUME Work(i) PROVE missing /\ goVerdict # 0
    <3>1. WrittenBy(i) /\ SettledFor(i) /\ ph[i] # 0
      BY <1>2, <2>1 DEF Mail, Written, Team, Settled, TeamTypes
    <3>. QED BY <1>2, <2>1, <3>1 DEF WrittenBy, SettledFor, Past, Onward, Released
  <2>. QED BY <2>1
<1>16. CASE Decide(i) /\ ~missing /\ p = NPhases /\ i = Leader
  <2>1. partial' = [partial EXCEPT ![OwnSlot(i)] = [j \in Threads |-> myJob[i]]] /\ goVerdict # 0
    <3>1. goVerdict # 0 /\ ph' # [ph EXCEPT ![i] = 0]
      BY <1>1, <1>4, <1>16 DEF NPhases
    <3>. QED BY <1>9, <1>16, <3>1 DEF Decide
  <2>2. partial' \in [Slots -> [Threads -> Int]]
    <3>1. [j \in Threads |-> myJob[i]] \in [Threads -> Int]
      BY <1>4
    <3>. QED BY <1>4, <2>1, <3>1
  <2>3. Shares'
    <3> SUFFICES ASSUME NEW s \in Slots, NEW k \in Threads
                 PROVE  done[s] <= partial'[s][k] + 1 /\ partial'[s][k] <= request[s]
      BY <1>3 DEF Mail, Shares
    <3>1. CASE s = OwnSlot(i)
      <4>1. partial'[s][k] = myJob[i]
        BY <1>4, <2>1, <3>1
      <4>2. done[s] <= myJob[i] + 1
        BY <1>8 DEF Mail, Shares
      <4>. QED BY <1>13, <2>1, <3>1, <4>1, <4>2
    <3>2. CASE s # OwnSlot(i)
      <4>1. partial'[s] = partial[s]
        BY <1>4, <2>1, <3>2
      <4>. QED BY <4>1 DEF Mail, Shares
    <3>. QED BY <3>1, <3>2
  <2>4. AllWritten'
    <3>1. \A k \in Threads : partial'[OwnSlot(i)][k] = myJob[i]
      BY <1>4, <1>9, <2>1
    <3>. QED BY <1>3, <1>4, <1>8, <1>10, <3>1 DEF AllWritten
  <2>5. Written'
    <3>1. \A j \in Threads \ {i} : WrittenBy(j)'
      <4> SUFFICES ASSUME NEW j \in Threads \ {i} PROVE WrittenBy(j)'
        OBVIOUS
      <4>1. WrittenBy(j) /\ pc'[j] = pc[j] /\ missing' = missing
        BY <1>3, <1>5 DEF Mail, Written
      <4>. QED BY <1>16, <4>1 DEF WrittenBy
    <3>2. WrittenBy(i)'
      BY <1>3, <1>5, <1>1, <1>16, <2>4 DEF WrittenBy, NPhases
    <3>. QED BY <1>11, <1>16, <3>1, <3>2 DEF Written
  <2>. QED BY <1>3, <1>4, <1>6, <1>12, <1>14, <2>2, <2>3, <2>5, MailStays
<1>17. CASE Work(i) /\ ph[i] = NPhases
  <2>1. partial' = [partial EXCEPT ![OwnSlot(i)][i] = request[OwnSlot(i)]]
    BY <1>9, <1>17 DEF Work
  <2>2. partial' \in [Slots -> [Threads -> Int]]
    <3>1. request[OwnSlot(i)] \in Int
      BY <1>4, <1>9
    <3>. QED BY <1>4, <2>1, <3>1
  <2>3. ASSUME NEW s \in Slots, NEW k \in Threads
        PROVE  /\ partial'[s][k] \in {partial[s][k], request[s]} /\ partial[s][k] <= request[s]
               /\ partial'[s][k] >= partial[s][k] /\ partial'[s][k] <= request[s]
    <3>1. partial[s][k] <= request[s] /\ partial[s][k] \in Int /\ request[s] \in Int
      BY <1>4 DEF Mail, Shares
    <3>2. partial'[s][k] \in {partial[s][k], request[s]}
      <4>1. CASE s = OwnSlot(i) /\ k = i
        BY <1>4, <2>1, <4>1
      <4>2. CASE ~(s = OwnSlot(i) /\ k = i)
        BY <1>4, <2>1, <4>2
      <4>. QED BY <4>1, <4>2
    <3>. QED BY <3>1, <3>2
  <2>4. Shares'
    <3> SUFFICES ASSUME NEW s \in Slots, NEW k \in Threads
                 PROVE  done[s] <= partial'[s][k] + 1 /\ partial'[s][k] <= request[s]
      BY <1>3 DEF Mail, Shares
    <3>1. done[s] <= partial[s][k] + 1
      BY DEF Mail, Shares
    <3>2. partial'[s][k] \in Int /\ partial[s][k] \in Int /\ done[s] \in Int
      BY <1>4, <2>2
    <3>. QED BY <2>3, <3>1, <3>2
  <2>5. Written'
    <3>1. \A j \in Threads \ {i} : WrittenBy(j)'
      BY <1>6, <2>2, <2>3, OthersWritten
    <3>2. WrittenBy(i)'
      <4>1. partial'[OwnSlot(i)][i] = request[OwnSlot(i)]
        BY <1>4, <1>9, <2>1
      <4>2. partial'[OwnSlot(i)'][i] >= myJob'[i]
        BY <1>3, <1>10, <1>13, <1>15, <1>17, <4>1
      <4>3. missing'
        BY <1>3, <1>15, <1>17
      <4>. QED BY <4>2, <4>3 DEF WrittenBy
    <3>3. Released(Leader)' /\ ph'[Leader] = NPhases => AllWritten'
      BY <1>6, <1>11, <2>2, <2>3, OthersWritten, LeaderIsThread
    <3>. QED BY <3>1, <3>2, <3>3 DEF Written
  <2>. QED BY <1>3, <1>4, <1>6, <1>12, <1>14, <2>2, <2>4, <2>5, MailStays
<1>18. CASE /\ ~(Decide(i) /\ ~missing /\ p = NPhases /\ i = Leader)
            /\ ~(Work(i) /\ ph[i] = NPhases)
  <2>1. UNCHANGED partial
    <3>1. CASE Work(i)
      BY <1>18, <3>1 DEF Work
    <3>2. CASE Decide(i)
      BY <1>1, <1>18, <3>2 DEF Decide
    <3>. QED BY <3>1, <3>2
  <2>2. WrittenBy(i)'
    <3>1. there = "work" => missing
      BY <1>1, <1>2
    <3>2. there = "barrier" /\ p = NPhases => ~missing /\ i # Leader
      BY <1>1, <1>2, <1>18 DEF NPhases
    <3>. QED BY <1>3, <1>5, <3>1, <3>2 DEF WrittenBy, InBarrier
  <2>3. i = Leader => myJob'[Leader] \in Nat /\ myJob'[Leader] >= myJob[Leader] /\ ~Released(Leader)'
    BY <1>3, <1>4, <1>11
  <2>. QED BY <1>3, <1>6, <1>12, <1>14, <2>1, <2>2, <2>3, QuietMail
<1>. QED BY <1>16, <1>17, <1>18

-----------------------------------------------------------------------------
\* The owner and the device leave the team's part of it alone.
LEMMA TeamMail ==
  ASSUME Team, Mail, UNCHANGED teamVars,
         \A s \in Slots : request'[s] >= request[s] /\ ring'[s] <= request'[s] + 1,
         request' \in [Slots -> Int]
  PROVE  Shares' /\ Written' /\ Asked' /\ \A i \in Threads : InJob(i)' <=> InJob(i)
<1>1. UNCHANGED <<nDone, done, partial, pc, myJob, myGo, layer, ph, missing, verdict, goSeq, goVerdict,
                  barCount, barPhase, saved>>
  BY DEF teamVars, mailVars, serveVars, leadVars, goVars, barVars
<1>2. ASSUME NEW i \in Threads
      PROVE  /\ InJob(i)' <=> InJob(i)
             /\ Released(i)' <=> Released(i)
             /\ OwnSlot(i)' = OwnSlot(i)
             /\ Away(i)' <=> Away(i)
             /\ Onward(i)' <=> Onward(i)
  BY <1>1 DEF InJob, JobOver, Released, OwnSlot, Away, Onward, MoreLayers
<1>3. Shares'
  <2> SUFFICES ASSUME NEW s \in Slots, NEW k \in Threads PROVE partial[s][k] <= request'[s]
    BY <1>1 DEF Mail, Shares
  <2>1. partial[s][k] \in Int /\ request[s] \in Int /\ request'[s] \in Int /\ partial[s][k] <= request[s]
    BY DEF Mail, MailTypes, Shares
  <2>. QED BY <2>1
<1>4. Written'
  <2>1. AllWritten' <=> AllWritten
    BY <1>1, <1>2, LeaderIsThread DEF AllWritten
  <2>2. \A i \in Threads : WrittenBy(i)' <=> WrittenBy(i)
    BY <1>1, <1>2, <2>1 DEF WrittenBy
  <2>. QED BY <1>1, <1>2, <2>1, <2>2, LeaderIsThread DEF Mail, Written
<1>5. Asked'
  <2>1. Serving' <=> Serving
    BY <1>1, <1>2, LeaderIsThread DEF Serving, ToCount
  <2>2. ASSUME Serving PROVE request'[OwnSlot(Leader)] >= myJob[Leader]
    <3>1. InJob(Leader)
      BY <2>2 DEF Serving, ToCount, InJob, Away, Onward, JobOver, Released
    <3>2. OwnSlot(Leader) \in Slots /\ myJob[Leader] \in Int
      BY <3>1, OwnLayer, LeaderIsThread DEF Team, TeamTypes
    <3>3. request[OwnSlot(Leader)] >= myJob[Leader]
      BY <2>2 DEF Mail, Asked
    <3>4. request[OwnSlot(Leader)] \in Int /\ request'[OwnSlot(Leader)] \in Int
      BY <3>2 DEF Mail, MailTypes
    <3>. QED BY <3>2, <3>3, <3>4
  <2>. QED BY <1>1, <1>2, <2>1, <2>2, LeaderIsThread DEF Asked
<1>. QED BY <1>2, <1>3, <1>4, <1>5

LEMMA ElementsAreGraphs ==
  ASSUME NEW st \in Seq([job : Jobs, ops : Int]), NEW m \in DOMAIN st
  PROVE  st[m].job \in Jobs
<1> DEFINE G == [job : Jobs, ops : Int]
<1>1. \A g \in G : g.job \in Jobs
  OBVIOUS
<1>2. st \in Seq(G)
  OBVIOUS
<1> HIDE DEF G
<1>3. st[m] \in G
  BY <1>2
<1>. QED BY <1>1, <1>3

\* The owner adds the graph of the latest job to the stream.
LEMMA OwnerMail == Team /\ Mail /\ (Owner \/ Quit) => Mail'
<1> SUFFICES ASSUME Team, Mail, Owner \/ Quit PROVE Mail'
  OBVIOUS
<1>1. UNCHANGED teamVars /\ UNCHANGED <<op, request, ring>>
  BY DEF Owner, Quit, Begin, PostJob, Launch, AbortPending, AllAborted, Stop, Joined, deviceVars
<1>2. /\ request \in [Slots -> Int] /\ ring \in [Slots -> Int] /\ done \in [Slots -> Int]
      /\ partial \in [Slots -> [Threads -> Int]]
      /\ stream \in Seq([job : Jobs, ops : Int]) /\ op \in Nat /\ nPosted \in Nat /\ MaxJobs \in Nat
      /\ nPosted <= MaxJobs
  BY DoorbellAssumption DEF Mail, MailTypes, Team, TeamTypes
<1>3. Shares' /\ Written' /\ Asked' /\ \A i \in Threads : InJob(i)' <=> InJob(i)
  <2>1. \A s \in Slots : request'[s] >= request[s] /\ ring'[s] <= request'[s] + 1
    BY <1>1, <1>2 DEF Mail, Shares
  <2>. QED BY <1>1, <1>2, <2>1, TeamMail
<1>4. /\ done' = done /\ partial' = partial /\ layer' = layer /\ myJob' = myJob
  BY <1>1 DEF teamVars, mailVars, serveVars
<1>5. \A i \in Threads : InJob(i)' => layer'[i] \in 1..Len(Rings[myJob'[i]])
  BY <1>3, <1>4 DEF Mail, MailTypes
<1>6. CASE Launch
  <2>1. PICK n \in Int : stream' = Append(stream, [job |-> nPosted - 1, ops |-> n])
    BY <1>6 DEF Launch
  <2>2. owner = "launch" /\ owner' \in {"idle", "failed"} /\ nPosted' = nPosted
    BY <1>6 DEF Launch
  <2>3. nPosted > 0
    BY <2>2 DEF Mail, MailTypes
  <2>4. nPosted - 1 \in Jobs
    BY <1>2, <2>3 DEF Jobs
  <2>5. [job |-> nPosted - 1, ops |-> n] \in [job : Jobs, ops : Int]
    BY <2>4
  <2>6. stream' \in Seq([job : Jobs, ops : Int])
    BY <1>2, <2>1, <2>5
  <2>7. MailTypes'
    <3>1. stream' # <<>>
      BY <1>2, <2>1
    <3>. QED BY <1>1, <1>2, <1>4, <1>5, <2>2, <2>6, <3>1 DEF MailTypes
  <2>8. /\ Len(stream') = Len(stream) + 1 /\ stream'[Len(stream) + 1].job = nPosted - 1
        /\ \A m \in DOMAIN stream : stream'[m] = stream[m]
        /\ \A m \in DOMAIN stream' : m \in DOMAIN stream \/ m = Len(stream) + 1
        /\ \A m \in DOMAIN stream : m \in Int /\ m <= Len(stream)
        /\ Len(stream) \in Nat
        /\ \A m \in DOMAIN stream : stream[m].job \in Int
    <3>1. Jobs \subseteq Int
      BY DEF Jobs
    <3>2. \A m \in DOMAIN stream : stream[m].job \in Int
      BY <1>2, <3>1, ElementsAreGraphs
    <3>3. /\ Len(stream') = Len(stream) + 1 /\ stream'[Len(stream) + 1] = [job |-> nPosted - 1, ops |-> n]
          /\ \A m \in DOMAIN stream : stream'[m] = stream[m]
      BY <1>2, <2>1, <2>5
    <3>4. /\ DOMAIN stream = 1..Len(stream) /\ DOMAIN stream' = 1..Len(stream') /\ Len(stream) \in Nat
      BY <1>2, <2>6
    <3>. QED BY <3>2, <3>3, <3>4
  <2>9. Graphs
    BY DEF Mail
  <2>10. \A m \in DOMAIN stream' : /\ stream'[m].job < nPosted
                                   /\ \A s \in Slots : request[s] <= stream'[m].job
    <3> SUFFICES ASSUME NEW m \in DOMAIN stream', NEW s \in Slots
                 PROVE  stream'[m].job < nPosted /\ request[s] <= stream'[m].job
      BY <1>2, <2>8, <2>9 DEF Graphs
    <3>1. CASE m \in DOMAIN stream
      BY <2>8, <2>9, <3>1 DEF Graphs
    <3>2. CASE m = Len(stream) + 1
      <4>1. request[s] < nPosted /\ request[s] \in Int
        BY <1>2, <2>9 DEF Graphs
      <4>. QED BY <1>2, <2>8, <3>2, <4>1
    <3>. QED BY <2>8, <3>1, <3>2
  <2>11. \A l, m \in DOMAIN stream' : l <= m => stream'[l].job <= stream'[m].job
    <3> SUFFICES ASSUME NEW l \in DOMAIN stream', NEW m \in DOMAIN stream', l <= m
                 PROVE  stream'[l].job <= stream'[m].job
      OBVIOUS
    <3>1. CASE m \in DOMAIN stream
      <4>1. l \in DOMAIN stream
        BY <2>8, <3>1
      <4>. QED BY <2>8, <2>9, <3>1, <4>1 DEF Graphs
    <3>2. CASE m = Len(stream) + 1
      <4>1. CASE l \in DOMAIN stream
        <5>1. stream'[l].job = stream[l].job /\ stream[l].job < nPosted /\ stream[l].job \in Int
          BY <2>8, <2>9, <4>1 DEF Graphs
        <5>. QED BY <1>2, <2>8, <3>2, <5>1
      <4>2. CASE l = Len(stream) + 1
        BY <1>2, <2>8, <3>2, <4>2
      <4>. QED BY <2>8, <4>1, <4>2
    <3>. QED BY <2>8, <3>1, <3>2
  <2>12. ASSUME NEW k \in Jobs, NEW s \in Slots, NEW o \in {1, 2}, Running(k, s, o)' PROVE request[s] = k
    <3>1. CASE stream # <<>>
      <4>1. 1 \in DOMAIN stream
        BY <1>2, <3>1
      <4>2. stream'[1] = stream[1]
        BY <2>8, <4>1
      <4>3. Running(k, s, o)
        BY <1>1, <2>12, <3>1, <4>2 DEF Running
      <4>. QED BY <2>9, <4>3 DEF Graphs
    <3>2. CASE stream = <<>>
      <4>1. stream'[1].job = nPosted - 1
        BY <2>8, <3>2
      <4>2. op % 3 = 0
        BY <3>2 DEF Mail, MailTypes
      <4>. QED BY <1>1, <2>12, <4>2 DEF Running
    <3>. QED BY <3>1, <3>2
  <2>13. Graphs'
    BY <1>1, <2>2, <2>9, <2>10, <2>11, <2>12 DEF Graphs
  <2>. QED BY <1>3, <2>7, <2>13 DEF Mail
<1>7. CASE ~Launch
  <2>1. stream' = stream
    BY <1>7 DEF Owner, Quit, Begin, PostJob, AbortPending, AllAborted, Stop, Joined, deviceVars
  <2>2. /\ nPosted' \in Nat /\ nPosted <= nPosted' /\ nPosted' <= MaxJobs
        /\ owner' = "post" => nPosted' < MaxJobs
        /\ owner' = "launch" => nPosted' > 0
    <3>1. CASE Begin
      BY <1>2, <3>1 DEF Begin
    <3>2. CASE PostJob
      <4>1. nPosted < MaxJobs /\ nPosted' = nPosted + 1 /\ owner' = "launch"
        BY <3>2 DEF PostJob, Mail, MailTypes
      <4>. QED BY <1>2, <4>1
    <3>3. CASE ~Begin /\ ~PostJob
      <4>1. nPosted' = nPosted /\ owner' \notin {"post", "launch"}
        BY <1>7, <3>3 DEF Owner, Quit, AbortPending, AllAborted, Stop, Joined
      <4>. QED BY <1>2, <4>1
    <3>. QED BY <3>1, <3>2, <3>3
  <2>3. MailTypes'
    <3>1. stream = <<>> => op % 3 = 0
      BY DEF Mail, MailTypes
    <3>. QED BY <1>1, <1>2, <1>4, <1>5, <2>1, <2>2, <3>1 DEF MailTypes
  <2>4. Graphs'
    <3>1. Graphs
      BY DEF Mail
    <3>2. \A k, s, o : Running(k, s, o)' <=> Running(k, s, o)
      BY <1>1, <2>1 DEF Running
    <3>3. Jobs \subseteq Int
      BY DEF Jobs
    <3>4. \A m \in DOMAIN stream : stream[m].job \in Int /\ stream[m].job < nPosted
      BY <1>2, <3>1, <3>3, ElementsAreGraphs DEF Graphs
    <3>5. \A m \in DOMAIN stream : stream[m].job < nPosted'
      BY <1>2, <2>2, <3>4
    <3>6. \A s \in Slots : request[s] < nPosted'
      <4>1. \A s \in Slots : request[s] \in Int /\ request[s] < nPosted
        BY <1>2, <3>1 DEF Graphs
      <4>. QED BY <1>2, <2>2, <4>1
    <3>. QED BY <1>1, <2>1, <3>1, <3>2, <3>5, <3>6 DEF Graphs
  <2>. QED BY <1>3, <2>3, <2>4 DEF Mail
<1>. QED BY <1>6, <1>7

\* The device: a request is of the graph that runs, and no older than the one before.
LEMMA DeviceMail == Team /\ Mail /\ Device => Mail'
<1> SUFFICES ASSUME Team, Mail, Device PROVE Mail'
  OBVIOUS
<1>1. UNCHANGED teamVars /\ UNCHANGED ownerVars
  BY DEF Device, GraphDone, RingData, RingWord, Join
<1>2. /\ request \in [Slots -> Int] /\ ring \in [Slots -> Int]
      /\ stream \in Seq([job : Jobs, ops : Int]) /\ op \in Nat
      /\ Jobs \subseteq Int /\ nPosted \in Nat
  BY DEF Mail, MailTypes, Jobs, Team, TeamTypes
<1>3. /\ done' = done /\ partial' = partial /\ layer' = layer /\ myJob' = myJob
      /\ owner' = owner /\ nPosted' = nPosted
  BY <1>1 DEF teamVars, mailVars, serveVars, ownerVars
<1>4. Graphs /\ Shares
  BY DEF Mail
<1>5. ASSUME /\ \A s \in Slots : request'[s] >= request[s] /\ ring'[s] <= request'[s] + 1
             /\ request' \in [Slots -> Int] /\ ring' \in [Slots -> Int]
             /\ stream' \in Seq([job : Jobs, ops : Int]) /\ op' \in Nat
             /\ stream' = <<>> => op' % 3 = 0
             /\ Graphs'
      PROVE  Mail'
  <2>1. Shares' /\ Written' /\ Asked' /\ \A i \in Threads : InJob(i)' <=> InJob(i)
    BY <1>1, <1>5, TeamMail
  <2>2. MailTypes'
    BY <1>3, <1>5, <2>1 DEF Mail, MailTypes
  <2>. QED BY <1>5, <2>1, <2>2 DEF Mail
<1>6. CASE GraphDone
  <2>1. stream # <<>> /\ stream' = Tail(stream) /\ op' = 0 /\ request' = request /\ ring' = ring
    BY <1>6 DEF GraphDone
  <2>2. stream' \in Seq([job : Jobs, ops : Int])
    BY <1>2, <2>1
  <2>3. \A n \in DOMAIN stream' : n + 1 \in DOMAIN stream /\ stream'[n] = stream[n + 1] /\ n \in Int
    BY <1>2, <2>1
  <2>4. ASSUME NEW m \in DOMAIN stream', NEW n \in DOMAIN stream', m <= n
        PROVE  stream'[m].job <= stream'[n].job
    <3>1. m + 1 <= n + 1
      BY <2>3, <2>4
    <3>. QED BY <1>4, <2>3, <3>1 DEF Graphs
  <2>5. \A k \in Jobs, s \in Slots, o \in {1, 2} : ~Running(k, s, o)'
    BY <2>1 DEF Running
  <2>6. Graphs'
    BY <1>3, <1>4, <2>1, <2>3, <2>4, <2>5 DEF Graphs
  <2>. QED BY <1>2, <1>4, <1>5, <2>1, <2>2, <2>6 DEF Shares
<1>7. ASSUME NEW k \in Jobs, NEW s \in Slots, RingData(k, s) \/ RingWord(k, s) \/ Join(k, s)
      PROVE  Mail'
  <2>1. PICK o \in {0, 1, 2} : /\ Running(k, s, o)
                               /\ RingData(k, s) => o = 0
                               /\ RingWord(k, s) => o = 1
                               /\ Join(k, s) => o = 2
    BY <1>7 DEF RingData, RingWord, Join, Running
  <2>2. stream' = stream /\ op' = op + 1 /\ stream # <<>> /\ stream[1].job = k /\ 1 \in DOMAIN stream
    BY <1>2, <1>7 DEF RingData, RingWord, Join, NextOp, Running
  <2>3. op % 3 = o
    BY <2>1 DEF Running
  <2>4. \A t \in Slots : request[t] <= k /\ request[t] \in Int
    BY <1>2, <1>4, <2>2 DEF Graphs
  <2>5. ASSUME NEW t \in Slots
        PROVE request'[t] >= request[t] /\ request'[t] \in {request[t], k}
    <3>1. CASE RingData(k, s)
      <4>1. request'[t] \in {request[t], k}
        BY <1>2, <3>1 DEF RingData
      <4>. QED BY <1>2, <2>4, <4>1
    <3>2. CASE ~RingData(k, s)
      <4>1. request' = request
        BY <1>7, <3>2 DEF RingWord, Join
      <4>. QED BY <2>4, <4>1
    <3>. QED BY <3>1, <3>2
  <2>6. request' \in [Slots -> Int] /\ ring' \in [Slots -> Int]
    BY <1>2, <1>7 DEF RingData, RingWord, Join, Step
  <2>7. ASSUME NEW t \in Slots PROVE ring'[t] <= request'[t] + 1
    <3>1. ring[t] <= request[t] + 1 /\ ring[t] \in Int /\ request[t] \in Int /\ request'[t] \in Int
      BY <1>2, <1>4, <2>6 DEF Shares
    <3>2. CASE ring'[t] = ring[t]
      BY <2>5, <3>1, <3>2
    <3>3. CASE ring'[t] # ring[t]
      <4>1. RingWord(k, s)
        BY <1>7, <3>3 DEF RingData, Join
      <4>2. t = s /\ ring'[t] = k + 1 /\ request' = request
        BY <1>2, <3>3, <4>1 DEF RingWord, Step
      <4>3. request[s] = k
        BY <1>4, <2>1, <4>1 DEF Graphs
      <4>. QED BY <1>2, <4>2, <4>3
    <3>. QED BY <3>2, <3>3
  <2>8. ASSUME NEW l \in Jobs, NEW t \in Slots, NEW q \in {1, 2}, Running(l, t, q)' PROVE request'[t] = l
    <3>1. (op + 1) % 3 = q /\ l = k
      BY <2>2, <2>8 DEF Running
    <3>2. q = o + 1 /\ o \in {0, 1} /\ (op + 1) \div 3 = op \div 3
      BY <1>2, <2>3, <3>1
    <3>3. t = s
      BY <2>1, <2>2, <2>8, <3>1, <3>2 DEF Running
    <3>4. CASE RingData(k, s)
      BY <1>2, <3>1, <3>3, <3>4 DEF RingData
    <3>5. CASE ~RingData(k, s)
      <4>1. RingWord(k, s) \/ Join(k, s)
        BY <1>7, <3>5
      <4>2. o \in {1, 2} /\ request' = request
        BY <2>1, <4>1 DEF RingWord, Join
      <4>. QED BY <1>4, <2>1, <3>1, <3>3, <4>2 DEF Graphs
    <3>. QED BY <3>4, <3>5
  <2>9. ASSUME NEW n \in DOMAIN stream, NEW t \in Slots PROVE request'[t] <= stream[n].job
    <3>1. k <= stream[n].job
      <4>1. 1 <= n
        BY <1>2
      <4>. QED BY <1>4, <2>2, <4>1 DEF Graphs
    <3>2. request[t] <= stream[n].job
      BY <1>4 DEF Graphs
    <3>. QED BY <2>5, <3>1, <3>2
  <2>10. ASSUME NEW t \in Slots PROVE request'[t] < nPosted
    <3>1. k < nPosted /\ request[t] < nPosted
      BY <1>4, <2>2 DEF Graphs
    <3>. QED BY <2>5, <3>1
  <2>11. Graphs'
    BY <1>3, <1>4, <2>2, <2>8, <2>9, <2>10 DEF Graphs
  <2>. QED BY <1>2, <1>5, <2>2, <2>5, <2>6, <2>7, <2>11
<1>. QED BY <1>6, <1>7 DEF Device

LEMMA StepMail == Team /\ Mail /\ [Next]_vars => Mail'
<1> SUFFICES ASSUME Team, Mail, [Next]_vars PROVE Mail'
  OBVIOUS
<1>1. CASE Owner \/ Quit
  BY <1>1, OwnerMail
<1>2. CASE Device
  BY <1>2, DeviceMail
<1>3. CASE Lead
  BY <1>3, LeadMail
<1>4. ASSUME NEW i \in Threads, Worker(i) \/ Park(i) PROVE Mail'
  <2>1. NThreads = 1 \/ NThreads > 1
    BY DoorbellAssumption
  <2>. QED BY <1>4, <2>1, WaitsMail, WorksMail, BarrierMail, FlipMail, GoesOnMail DEF Worker
<1>5. CASE UNCHANGED vars
  <2>1. UNCHANGED teamVars /\ UNCHANGED ownerVars /\ UNCHANGED deviceVars
    BY <1>5 DEF vars, teamVars
  <2>2. Shares' /\ Written' /\ Asked' /\ \A i \in Threads : InJob(i)' <=> InJob(i)
    <3>1. /\ \A s \in Slots : request'[s] >= request[s] /\ ring'[s] <= request'[s] + 1
          /\ request' \in [Slots -> Int]
      BY <2>1 DEF deviceVars, Mail, MailTypes, Shares
    <3>. QED BY <2>1, <3>1, TeamMail
  <2>3. MailTypes'
    BY <2>1, <2>2 DEF Mail, MailTypes, teamVars, ownerVars, deviceVars, mailVars, serveVars
  <2>4. Graphs'
    <3>1. Graphs
      BY DEF Mail
    <3>2. \A k, s, o : Running(k, s, o)' <=> Running(k, s, o)
      BY <2>1 DEF Running, deviceVars
    <3>. QED BY <2>1, <3>1, <3>2 DEF Graphs, deviceVars, ownerVars
  <2>. QED BY <2>2, <2>3, <2>4 DEF Mail
<1>. QED BY <1>1, <1>2, <1>3, <1>4, <1>5 DEF Next

(***************************************************************************)
(* The join that a graph passes adds shares of this graph's own request    *)
(* only: neither a late DONE of an earlier graph nor a share still missing *)
(* lets it through (join_kernel waits for the step's number; the barriers  *)
(* of serve()).                                                            *)
(***************************************************************************)
THEOREM JoinsAreOwn == Spec => []JoinsItsOwn
<1>1. Mail => JoinsItsOwn
  <2> SUFFICES ASSUME Mail, NEW k \in Jobs, NEW s \in Slots, Running(k, s, 2), done[s] = Step(k),
                      NEW i \in Threads
               PROVE  partial[s][i] = k
    BY DEF JoinsItsOwn
  <2>1. request[s] = k
    BY DEF Mail, Graphs
  <2>2. k + 1 <= partial[s][i] + 1 /\ partial[s][i] <= k
    BY <2>1 DEF Mail, Shares, Step
  <2>3. partial[s][i] \in Int /\ k \in Int
    BY DEF Mail, MailTypes, Jobs
  <2>. QED BY <2>2, <2>3
<1>2. Team /\ Mail /\ [Next]_vars => Mail'
  BY StepMail
<1>. QED BY <1>1, <1>2, InitMail, TeamInStep, PTL DEF Spec
=============================================================================
