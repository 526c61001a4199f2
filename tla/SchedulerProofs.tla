-------------------------- MODULE SchedulerProofs --------------------------
(***************************************************************************)
(* The backend scheduler, for any number of devices, copies of the inputs, *)
(* graphs, weights and slots of the ring.                                  *)
(***************************************************************************)
EXTENDS Scheduler, SequenceTheorems, TLAPS

\* The first element of a queue leaves it.
LEMMA Leaves ==
  ASSUME NEW S, NEW s \in Seq(S), s # <<>>
  PROVE  /\ Head(s) \in S /\ Head(s) = s[1] /\ 1 \in DOMAIN s
         /\ Tail(s) \in Seq(S) /\ Len(Tail(s)) = Len(s) - 1 /\ Len(s) \in Nat \ {0}
         /\ \A i \in DOMAIN Tail(s) : i \in Nat \ {0} /\ i + 1 \in DOMAIN s /\ Tail(s)[i] = s[i+1]
         /\ \A i \in DOMAIN s : i = 1 \/ (i - 1 \in DOMAIN Tail(s) /\ s[i] = Tail(s)[i-1])
  BY HeadTailProperties

\* Two elements are put at the end of a queue.
LEMMA Enters2 ==
  ASSUME NEW S, NEW s \in Seq(S), NEW x \in S, NEW y \in S
  PROVE  LET t == s \o <<x, y>> IN
         /\ t \in Seq(S) /\ Len(t) = Len(s) + 2 /\ Len(s) \in Nat
         /\ DOMAIN s = 1..Len(s) /\ DOMAIN t = 1..Len(s) + 2
         /\ \A i \in DOMAIN s : t[i] = s[i]
         /\ t[Len(s) + 1] = x /\ t[Len(s) + 2] = y
<1>1. <<x, y>> \in Seq(S) /\ Len(<<x, y>>) = 2 /\ <<x, y>>[1] = x /\ <<x, y>>[2] = y
  OBVIOUS
<1>. QED BY <1>1, ConcatProperties

\* One element is put at the end of a queue.
LEMMA Enters ==
  ASSUME NEW S, NEW s \in Seq(S), NEW x \in S
  PROVE  LET t == Append(s, x) IN
         /\ t \in Seq(S) /\ Len(t) = Len(s) + 1 /\ Len(s) \in Nat
         /\ DOMAIN s = 1..Len(s) /\ DOMAIN t = 1..Len(s) + 1
         /\ \A i \in DOMAIN s : t[i] = s[i]
         /\ t[Len(s) + 1] = x
  OBVIOUS

-----------------------------------------------------------------------------
(* The ring of streamed weights: its inductive invariant                   *)

Working == worker \in {"taken", "await", "copy", "copied"}
\* The jobs that were asked for and not posted: in the queue, or with the worker.
Outstanding == {q[i] : i \in DOMAIN q} \cup (IF Working THEN {job} ELSE {})

\* The host is where its variables say.
HostInv ==
  /\ host \in {"grow", "prime", "compute"} => entries # <<>>
  /\ host \in {"prime", "compute"} => slotSize > 0
  /\ host = "compute" => entry <= Len(entries) /\ Len(enSeq) = Len(entries)
  /\ stop <=> host \in {"join", "freed"}
  /\ worker = "ended" => stop /\ q = <<>>
  /\ host = "freed" => worker = "ended"
  /\ in_flight = IF Working THEN 1 ELSE 0

\* Jobs are taken in the order in which they were asked for, and belong to the ring.
JobsInv ==
  /\ \A i, j \in DOMAIN q : i < j => q[i].seq < q[j].seq
  /\ Working => \A i \in DOMAIN q : job.seq < q[i].seq
  /\ \A j \in Outstanding : j.seq <= seq /\ j.ring = ring /\ slotSize > 0
  /\ \A k \in Slots : done_seq[k] <= seq

\* The weights that were asked for: those of this split and the NSlots - 1 after it.
Asked(e) == e \in entry..Len(entries) /\ e < entry + NSlots
\* The last job of a slot is the one of the weight asked for; when its number is posted the
\* weight is there, and nobody writes the slot.
AskedInv ==
  host = "compute" => \A e \in DOMAIN entries : Asked(e) =>
    /\ enSeq[e] <= seq
    /\ \A j \in Outstanding :
         /\ j.slot = SlotOf(e) => j.seq <= enSeq[e]
         /\ j.seq = enSeq[e] => j.slot = SlotOf(e) /\ j.src = entries[e]
    /\ \/ done_seq[SlotOf(e)] < enSeq[e]
       \/ mem[SlotOf(e)] = entries[e] /\ \A j \in Outstanding : j.slot # SlotOf(e)

\* A job waits for the last reader of its slot, unless there was none.
WaitsInv ==
  /\ \A j \in Outstanding : ~j.wait => ~free_recorded[j.slot]
  /\ worker = "await" => need = IF job.wait THEN freeRecorded[job.slot] ELSE 0
  /\ worker = "copied" => mem[job.slot] = job.src

\* A split is followed by the event that its slot is free; the events of a slot are in order.
FreesInv ==
  /\ \A k \in Slots : freeReached[k] <= freeRecorded[k]
  /\ \A i \in DOMAIN compute :
       /\ free_recorded[compute[i].slot]
       /\ compute[i].op = "mul" =>
            i + 1 \in DOMAIN compute /\ compute[i+1].op = "free" /\ compute[i+1].slot = compute[i].slot
       /\ compute[i].op = "free" =>
            freeReached[compute[i].slot] < compute[i].nth /\ compute[i].nth <= freeRecorded[compute[i].slot]
  /\ \A i, j \in DOMAIN compute :
       i < j /\ compute[i].op = "free" /\ compute[j].op = "free" /\ compute[i].slot = compute[j].slot =>
         compute[i].nth < compute[j].nth

\* What a queued split reads is there, and nobody writes it.
ReadsInv ==
  /\ busy => compute # <<>> /\ Head(compute).op = "mul"
  /\ \A i \in DOMAIN compute : compute[i].op = "mul" =>
       /\ mem[compute[i].slot] = compute[i].src
       /\ worker \in {"copy", "copied"} => job.slot # compute[i].slot

PrefillInv ==
  PrefillTypeOK /\ HostInv /\ JobsInv /\ AskedInv /\ WaitsInv /\ FreesInv /\ ReadsInv

Op == [op : {"mul", "free"}, src : Weights \cup {None}, slot : Slots, nth : Nat]

LEMMA PrefillStarts == PrefillInit => PrefillInv
<1> SUFFICES ASSUME PrefillInit PROVE PrefillInv
  OBVIOUS
<1> USE PrefillAssumption DEF PrefillInit
<1>1. PrefillTypeOK
  <2>1. job \in JobType
    BY DEF NoJob, JobType, Slots
  <2>2. <<>> \in Seq(Weights) /\ <<>> \in Seq(Nat) /\ <<>> \in Seq(JobType) /\ <<>> \in Seq(Op)
    OBVIOUS
  <2>3. /\ done_seq \in [Slots -> Int] /\ free_recorded \in [Slots -> BOOLEAN]
        /\ freeRecorded \in [Slots -> Nat] /\ freeReached \in [Slots -> Nat]
        /\ mem \in [Slots -> Weights \cup {None, HalfWritten}]
    OBVIOUS
  <2>4. entries \in Seq(Weights) /\ enSeq \in Seq(Nat) /\ q \in Seq(JobType) /\ compute \in Seq(Op)
    BY <2>2
  <2>5. /\ host \in {"idle", "grow", "prime", "compute", "join", "freed"} /\ graphs \in 0..MaxStreamed
        /\ entry \in Nat \ {0} /\ in_flight \in Nat /\ seq \in Nat /\ slotSize \in Nat /\ ring \in Nat
        /\ worker \in {"wait", "taken", "await", "copy", "copied", "ended"} /\ need \in Nat
    OBVIOUS
  <2>6. stop \in BOOLEAN /\ failed \in BOOLEAN /\ busy \in BOOLEAN
    OBVIOUS
  <2> HIDE DEF PrefillInit
  <2>. QED BY <2>1, <2>3, <2>4, <2>5, <2>6 DEF PrefillTypeOK, Op
<1>2. Outstanding = {}
  BY DEF Outstanding, Working
<1>3. HostInv /\ JobsInv /\ AskedInv /\ WaitsInv /\ FreesInv /\ ReadsInv
  BY <1>2 DEF HostInv, JobsInv, AskedInv, WaitsInv, FreesInv, ReadsInv, Working
<1>. QED BY <1>1, <1>3 DEF PrefillInv

-----------------------------------------------------------------------------
(* Types                                                                   *)

LEMMA SlotOfIsSlot == ASSUME NEW e \in Nat \ {0} PROVE SlotOf(e) \in Slots
  BY PrefillAssumption DEF SlotOf, Slots

LEMMA JobIsJob ==
  ASSUME PrefillTypeOK, NEW e \in DOMAIN entries, NEW n \in Nat
  PROVE  Job(e, n) \in JobType
<1>1. SlotOf(e) \in Slots /\ entries[e] \in Weights
  BY SlotOfIsSlot DEF PrefillTypeOK
<1>2. free_recorded[SlotOf(e)] \in BOOLEAN /\ ring \in Nat
  BY <1>1 DEF PrefillTypeOK
<1>. QED BY <1>1, <1>2 DEF Job, JobType, WaitFree

LEMMA HostTypes ==
  ASSUME PrefillTypeOK, HostInv, (\E g \in Graphs : Prepare(g)) \/ FreeRing \/ HostGoesOn
  PROVE  PrefillTypeOK'
<1> USE PrefillAssumption DEF prefillHostVars, queueVars, ringVars, workVars, streamVars
<1>1. ASSUME NEW g \in Graphs, Prepare(g) PROVE PrefillTypeOK'
  BY <1>1 DEF Prepare, PrefillTypeOK
<1>2. CASE FreeRing
  BY <1>2 DEF FreeRing, PrefillTypeOK
<1>3. CASE Grow
  <2>1. slotSize' \in Nat /\ ring' \in Nat /\ failed' \in BOOLEAN /\ host' \in {"prime", "idle"}
    <3>1. ASSUME NEW e \in DOMAIN entries, slotSize' = Size[entries[e]] PROVE slotSize' \in Nat
      <4>1. entries[e] \in Weights
        BY DEF PrefillTypeOK
      <4>. QED BY <3>1, <4>1
    <3>2. ring \in Nat /\ failed \in BOOLEAN
      BY DEF PrefillTypeOK
    <3>3. \/ (\E e \in DOMAIN entries : slotSize' = Size[entries[e]]) /\ ring' = ring + 1
             /\ host' = "prime" /\ failed' = failed
          \/ slotSize' = 0 /\ failed' = TRUE /\ host' = "idle" /\ ring' = ring
      BY <1>3 DEF Grow
    <3>4. failed' \in BOOLEAN
      BY <3>2, <3>3
    <3>5. slotSize' \in Nat /\ ring' \in Nat /\ host' \in {"prime", "idle"}
      BY <3>1, <3>2, <3>3
    <3>. QED BY <3>4, <3>5
  <2>2. UNCHANGED <<graphs, entries, entry, enSeq, q, stop, in_flight, seq, workVars, compute, busy>>
    BY <1>3 DEF Grow
  <2>3. /\ mem' = [k \in Slots |-> None]
        /\ freeRecorded' = [k \in Slots |-> 0] /\ freeReached' = [k \in Slots |-> 0]
        /\ done_seq' = [k \in Slots |-> -1] /\ free_recorded' = [k \in Slots |-> FALSE]
    BY <1>3 DEF Grow
  <2>. QED BY <2>1, <2>2, <2>3 DEF PrefillTypeOK
<1>4. CASE Prime
  <2> DEFINE n == IF Len(entries) < NSlots THEN Len(entries) ELSE NSlots
             new == [e \in 1..n |-> Job(e, seq + e)]
  <2>1. n \in Nat /\ 1..n \subseteq DOMAIN entries
    BY DEF PrefillTypeOK
  <2>2. new \in Seq(JobType)
    <3>1. \A e \in 1..n : Job(e, seq + e) \in JobType
      <4>1. \A e \in 1..n : seq + e \in Nat
        BY <2>1 DEF PrefillTypeOK
      <4>. QED BY <2>1, <4>1, JobIsJob
    <3>. QED BY <2>1, <3>1
  <2>3. q' = q \o new /\ enSeq' = [e \in DOMAIN entries |-> IF e <= n THEN seq + e ELSE 0] /\ seq' = seq + n
    BY <1>4 DEF Prime
  <2>4. q' \in Seq(JobType) /\ seq' \in Nat /\ enSeq' \in Seq(Nat)
    <3> HIDE DEF n, new
    <3>1. DOMAIN entries = 1..Len(entries) /\ Len(entries) \in Nat
      BY DEF PrefillTypeOK
    <3>. QED BY <2>1, <2>2, <2>3, <3>1 DEF PrefillTypeOK
  <2>. QED BY <1>4, <2>4 DEF Prime, PrefillTypeOK
<1>5. CASE ComputeStreamed
  <2> DEFINE k == SlotOf(entry)
             n == freeRecorded[k] + 1
             next == entry + NSlots
  <2>1. entry \in DOMAIN entries /\ k \in Slots /\ n \in Nat
    <3>1. entry \in DOMAIN entries
      BY <1>5 DEF ComputeStreamed, HostInv, PrefillTypeOK
    <3>2. k \in Slots
      BY SlotOfIsSlot DEF PrefillTypeOK
    <3>. QED BY <3>1, <3>2 DEF PrefillTypeOK
  <2>2. compute' \in Seq(Op)
    <3>1. /\ [op |-> "mul", src |-> entries[entry], slot |-> k, nth |-> 0] \in Op
          /\ [op |-> "free", src |-> None, slot |-> k, nth |-> n] \in Op
      BY <2>1 DEF Op, PrefillTypeOK
    <3>2. compute' = compute \o <<[op |-> "mul", src |-> entries[entry], slot |-> k, nth |-> 0],
                                  [op |-> "free", src |-> None, slot |-> k, nth |-> n]>>
      BY <1>5 DEF ComputeStreamed
    <3> HIDE DEF k, n
    <3>. QED BY <3>1, <3>2 DEF PrefillTypeOK, Op
  <2>3. q' \in Seq(JobType) /\ enSeq' \in Seq(Nat) /\ seq' \in Nat
    <3>1. CASE next <= Len(entries)
      <4>1. next \in DOMAIN entries
        BY <2>1, <3>1 DEF PrefillTypeOK
      <4>2. Job(next, seq + 1) \in JobType
        BY <4>1, JobIsJob DEF PrefillTypeOK
      <4>3. [Job(next, seq + 1) EXCEPT !.wait = TRUE] \in JobType
        BY <4>2 DEF JobType
      <4>4. q' = Append(q, [Job(next, seq + 1) EXCEPT !.wait = TRUE])
            /\ enSeq' = [enSeq EXCEPT ![next] = seq + 1] /\ seq' = seq + 1
        BY <1>5, <3>1 DEF ComputeStreamed, JobSeq
      <4>5. q \in Seq(JobType) /\ seq \in Nat /\ enSeq \in Seq(Nat)
        BY DEF PrefillTypeOK
      <4>6. enSeq' \in Seq(Nat)
        <5>1. next \in 1..Len(enSeq)
          BY <1>5, <4>1, <4>5 DEF ComputeStreamed, HostInv, PrefillTypeOK
        <5>. QED BY <4>4, <4>5, <5>1, ExceptSeq
      <4>. QED BY <4>3, <4>4, <4>5, <4>6, Enters
    <3>2. CASE ~(next <= Len(entries))
      BY <1>5, <3>2 DEF ComputeStreamed, PrefillTypeOK
    <3>. QED BY <3>1, <3>2
  <2>4. freeRecorded' \in [Slots -> Nat] /\ free_recorded' \in [Slots -> BOOLEAN]
    BY <1>5, <2>1 DEF ComputeStreamed, PrefillTypeOK
  <2>5. entry' \in Nat \ {0} /\ host' \in {"compute", "idle"}
    BY <1>5 DEF ComputeStreamed, PrefillTypeOK
  <2>6. UNCHANGED <<graphs, entries, stop, in_flight, done_seq, ringVars, workVars, busy, freeReached, mem>>
    BY <1>5 DEF ComputeStreamed
  <2>. QED BY <2>2, <2>3, <2>4, <2>5, <2>6 DEF PrefillTypeOK, Op
<1>6. CASE ComputeFails
  BY <1>6 DEF ComputeFails, PrefillTypeOK
<1>7. CASE Release
  BY <1>7 DEF Release, PrefillTypeOK
<1>. QED BY <1>1, <1>2, <1>3, <1>4, <1>5, <1>6, <1>7 DEF HostGoesOn

LEMMA WorkTypes ==
  ASSUME PrefillTypeOK, HostInv, Worker \/ Device PROVE PrefillTypeOK'
<1> USE PrefillAssumption DEF prefillHostVars, queueVars, ringVars, workVars, streamVars
<1>1. CASE Take
  BY <1>1 DEF Take, PrefillTypeOK
<1>2. CASE EndWorker
  BY <1>2 DEF EndWorker, PrefillTypeOK
<1>3. CASE AwaitFree
  <2>1. need' \in Nat
    BY <1>3 DEF AwaitFree, PrefillTypeOK, JobType
  <2>. QED BY <1>3, <2>1 DEF AwaitFree, PrefillTypeOK
<1>4. CASE BeginSlotCopy
  BY <1>4 DEF BeginSlotCopy, PrefillTypeOK
<1>5. CASE EndSlotCopy
  <2>1. mem' \in [Slots -> Weights \cup {None, HalfWritten}]
    BY <1>5 DEF EndSlotCopy, PrefillTypeOK, JobType
  <2>. QED BY <1>5, <2>1 DEF EndSlotCopy, PrefillTypeOK
<1>6. CASE Post
  <2>1. done_seq' \in [Slots -> Int] /\ in_flight' \in Nat
    BY <1>6 DEF Post, PrefillTypeOK, JobType, HostInv, Working
  <2>. QED BY <1>6, <2>1 DEF Post, PrefillTypeOK
<1>7. CASE BeginMul
  BY <1>7 DEF BeginMul, PrefillTypeOK
<1>8. CASE EndMul
  <2>1. compute' \in Seq(Op)
    BY <1>8, Leaves DEF EndMul, ComputeIs, PrefillTypeOK, Op
  <2>. QED BY <1>8, <2>1 DEF EndMul, PrefillTypeOK, Op
<1>9. CASE ReachFree
  <2>1. compute' \in Seq(Op)
    BY <1>9, Leaves DEF ReachFree, ComputeIs, PrefillTypeOK, Op
  <2>2. freeReached' \in [Slots -> Nat]
    <3>1. Head(compute) \in Op
      BY <1>9, Leaves DEF ReachFree, ComputeIs, PrefillTypeOK, Op
    <3>. QED BY <1>9, <3>1 DEF ReachFree, PrefillTypeOK, Op
  <2>. QED BY <1>9, <2>1, <2>2 DEF ReachFree, PrefillTypeOK, Op
<1>. QED BY <1>1, <1>2, <1>3, <1>4, <1>5, <1>6, <1>7, <1>8, <1>9 DEF Worker, Device

-----------------------------------------------------------------------------
(* The steps of the ring                                                   *)

\* A multiple of c between -c and c is 0.
LEMMA SmallMultiple ==
  ASSUME NEW c \in Nat \ {0}, NEW n \in Int, c * n < c, c * n > -c
  PROVE  n = 0
<1>1. CASE n >= 1
  <2>1. c * n >= c
    BY <1>1
  <2>. QED BY <2>1
<1>2. CASE n <= -1
  <2>1. c * n <= -c
    BY <1>2
  <2>. QED BY <2>1
<1>. QED BY <1>1, <1>2

LEMMA Division ==
  ASSUME NEW x \in Nat
  PROVE  /\ x = NSlots * (x \div NSlots) + (x % NSlots) /\ (x \div NSlots) \in Int
         /\ x % NSlots \in 0..NSlots-1
  BY PrefillAssumption

\* The slots of the weights asked for are different; the weight NSlots later has the same one.
LEMMA SlotsDiffer ==
  ASSUME NEW d \in Nat \ {0}, NEW e \in Nat \ {0}, d < e, e - d < NSlots
  PROVE  SlotOf(d) # SlotOf(e)
<1> SUFFICES ASSUME SlotOf(d) = SlotOf(e) PROVE FALSE
  OBVIOUS
<1>1. NSlots \in Nat \ {0} /\ d - 1 \in Nat /\ e - 1 \in Nat
  BY PrefillAssumption
<1>2. PICK a \in Int : d - 1 = NSlots * a + SlotOf(d)
  BY <1>1, Division DEF SlotOf
<1>3. PICK b \in Int : e - 1 = NSlots * b + SlotOf(e)
  BY <1>1, Division DEF SlotOf
<1>4. SlotOf(d) \in Int
  BY <1>1, Division DEF SlotOf
<1>5. NSlots * (b - a) = NSlots * b - NSlots * a
  BY <1>1
<1>6. NSlots * (b - a) = e - d
  BY <1>1, <1>2, <1>3, <1>4, <1>5
<1>7. b - a = 0
  BY <1>1, <1>6, SmallMultiple
<1>. QED BY <1>1, <1>6, <1>7

LEMMA SlotComesAgain ==
  ASSUME NEW e \in Nat \ {0} PROVE SlotOf(e + NSlots) = SlotOf(e)
<1>1. NSlots \in Nat \ {0} /\ e - 1 \in Nat /\ e - 1 + NSlots \in Nat
  BY PrefillAssumption
<1>2. PICK a \in Int : e - 1 = NSlots * a + SlotOf(e)
  BY <1>1, Division DEF SlotOf
<1>3. SlotOf(e + NSlots) = (e - 1 + NSlots) % NSlots
  <2>1. SlotOf(e + NSlots) = ((e + NSlots) - 1) % NSlots
    BY Zenon DEF SlotOf
  <2>2. (e + NSlots) - 1 = e - 1 + NSlots
    BY <1>1
  <2>. QED BY <2>1, <2>2, Zenon
<1>4. PICK b \in Int : e - 1 + NSlots = NSlots * b + SlotOf(e + NSlots)
  BY <1>1, <1>3, Division
<1>5. SlotOf(e) \in 0..NSlots-1 /\ SlotOf(e + NSlots) \in 0..NSlots-1
  BY <1>1, <1>3, Division DEF SlotOf
<1> DEFINE p == NSlots * a
           r == NSlots * b
<1>6. NSlots * (a + 1 - b) = p + NSlots - r /\ p \in Int /\ r \in Int
  BY <1>1
<1>7. p + NSlots - r = SlotOf(e + NSlots) - SlotOf(e)
  <2>1. e - 1 = p + SlotOf(e) /\ e - 1 + NSlots = r + SlotOf(e + NSlots)
    BY <1>2, <1>4
  <2> HIDE DEF p, r
  <2>. QED BY <1>1, <1>5, <1>6, <2>1
<1> HIDE DEF p, r
<1>8. a + 1 - b = 0
  BY <1>1, <1>5, <1>6, <1>7, SmallMultiple
<1>. QED BY <1>1, <1>5, <1>6, <1>7, <1>8

LEMMA JobIs ==
  ASSUME NEW e, NEW n
  PROVE  /\ Job(e, n).seq = n /\ Job(e, n).slot = SlotOf(e) /\ Job(e, n).src = entries[e]
         /\ Job(e, n).wait = free_recorded[SlotOf(e)] /\ Job(e, n).ring = ring
  BY DEF Job, WaitFree

\* The operations of the stream, and the numbers of the jobs asked for.
LEMMA OpsAre ==
  ASSUME PrefillTypeOK, NEW i \in DOMAIN compute
  PROVE  compute[i] \in Op /\ compute[i].slot \in Slots /\ compute[i].nth \in Nat
<1>1. compute \in Seq(Op)
  BY DEF PrefillTypeOK, Op
<1>2. compute[i] \in Op
  BY <1>1
<1>. QED BY <1>2 DEF Op

LEMMA NumbersAre ==
  ASSUME PrefillTypeOK, HostInv, host = "compute", NEW e \in DOMAIN entries
  PROVE  enSeq[e] \in Nat
<1>1. Len(enSeq) = Len(entries)
  BY DEF HostInv
<1>2. enSeq \in Seq(Nat) /\ entries \in Seq(Weights)
  BY DEF PrefillTypeOK
<1>3. e \in DOMAIN enSeq
  BY <1>1, <1>2
<1>. QED BY <1>2, <1>3

\* Outstanding jobs are jobs.
LEMMA OutstandingJobs == ASSUME PrefillTypeOK PROVE Outstanding \subseteq JobType
  BY DEF PrefillTypeOK, Outstanding

\* A step that leaves the queue and the worker alone, and of the ring's memory and events.
LEMMA HostStays ==
  ASSUME PrefillInv, PrefillTypeOK', UNCHANGED <<q, worker, job, seq, ring, done_seq, free_recorded,
           need, freeRecorded, mem, compute, busy, freeReached>>,
         HostInv', slotSize' = slotSize \/ Outstanding = {},
         host' # "compute" \/ UNCHANGED <<host, entries, entry, enSeq>>
  PROVE  PrefillInv'
<1>1. Outstanding' = Outstanding
  BY DEF Outstanding, Working
<1>2. JobsInv'
  BY <1>1 DEF PrefillInv, JobsInv, Working
<1>3. AskedInv'
  BY <1>1 DEF PrefillInv, AskedInv, Asked, SlotOf
<1>4. WaitsInv'
  BY <1>1 DEF PrefillInv, WaitsInv
<1>5. FreesInv'
  BY DEF PrefillInv, FreesInv
<1>6. ReadsInv'
  BY DEF PrefillInv, ReadsInv
<1>. QED BY <1>2, <1>3, <1>4, <1>5, <1>6 DEF PrefillInv

\* The host begins and gives up graphs, and ends.
LEMMA HostMoves ==
  ASSUME PrefillInv, PrefillTypeOK', (\E g \in Graphs : Prepare(g)) \/ ComputeFails \/ FreeRing \/ Release
  PROVE  PrefillInv'
<1> USE PrefillAssumption DEF prefillHostVars, queueVars, ringVars, workVars, streamVars
<1>1. ASSUME NEW g \in Graphs, Prepare(g) PROVE PrefillInv'
  <2>1. g # <<>> /\ g \in Seq(Weights) /\ Len(g) \in Nat \ {0}
    OBVIOUS
  <2>2. host' = "prime" => slotSize > 0
    <3>1. g[1] \in Weights /\ 1 \in DOMAIN g
      BY <2>1
    <3>2. Size[g[1]] \in Nat \ {0}
      BY <3>1
    <3>3. slotSize \in Nat
      BY DEF PrefillInv, PrefillTypeOK
    <3>. QED BY <1>1, <3>1, <3>2, <3>3 DEF Prepare, Fits
  <2>3. HostInv'
    BY <1>1, <2>1, <2>2 DEF Prepare, PrefillInv, HostInv, Working
  <2>. QED BY <1>1, <2>3, HostStays DEF Prepare
<1>2. CASE ComputeFails
  <2>1. HostInv'
    BY <1>2 DEF ComputeFails, PrefillInv, HostInv, Working
  <2>. QED BY <1>2, <2>1, HostStays DEF ComputeFails
<1>3. CASE FreeRing
  <2>1. HostInv'
    BY <1>3 DEF FreeRing, PrefillInv, HostInv, Working
  <2>. QED BY <1>3, <2>1, HostStays DEF FreeRing
<1>4. CASE Release
  <2>1. HostInv'
    BY <1>4 DEF Release, PrefillInv, HostInv, Working
  <2>2. Outstanding = {}
    BY <1>4 DEF Release, PrefillInv, HostInv, Outstanding, Working
  <2>. QED BY <1>4, <2>1, <2>2, HostStays DEF Release
<1>. QED BY <1>1, <1>2, <1>3, <1>4

\* The ring is made anew when no job is on its way.
LEMMA GrowKeeps == ASSUME PrefillInv, PrefillTypeOK', Grow PROVE PrefillInv'
<1> USE PrefillAssumption DEF workVars
<1>1. Outstanding = {} /\ Outstanding' = {} /\ ~Working'
  <2>1. ~Working /\ q = <<>>
    BY DEF Grow, Quiet, PrefillInv, HostInv
  <2>2. q' = <<>> /\ ~Working'
    BY <2>1 DEF Grow, Working
  <2>. QED BY <2>1, <2>2 DEF Outstanding
<1>2. HostInv'
  <2>1. host' = "prime" => slotSize' > 0
    <3>1. \A e \in DOMAIN entries : Size[entries[e]] \in Nat \ {0}
      BY DEF PrefillInv, PrefillTypeOK
    <3>. QED BY <3>1 DEF Grow
  <2>2. host' \in {"prime", "idle"} /\ UNCHANGED <<entries, enSeq, stop, q, worker, in_flight>>
    BY DEF Grow
  <2>3. entries # <<>> /\ ~stop /\ worker # "ended" /\ (in_flight = IF Working THEN 1 ELSE 0)
    BY DEF Grow, PrefillInv, HostInv
  <2>. QED BY <2>1, <2>2, <2>3 DEF HostInv, Working
<1>3. JobsInv'
  <2>1. \A k \in Slots : done_seq'[k] = -1
    BY DEF Grow
  <2>2. q' = <<>> /\ seq' \in Nat
    BY DEF Grow, Quiet, PrefillTypeOK
  <2>. QED BY <1>1, <2>1, <2>2 DEF JobsInv
<1>4. AskedInv'
  BY DEF Grow, AskedInv
<1>5. WaitsInv'
  BY <1>1 DEF WaitsInv, Working
<1>6. FreesInv' /\ ReadsInv'
  BY DEF Grow, FreesInv, ReadsInv, PrefillInv
<1>. QED BY <1>2, <1>3, <1>4, <1>5, <1>6 DEF PrefillInv

\* The first weights of a graph are asked for, one for each slot.
LEMMA PrimeKeeps == ASSUME PrefillInv, PrefillTypeOK', Prime PROVE PrefillInv'
<1> USE PrefillAssumption DEF workVars, ringVars, streamVars
<1> DEFINE n == IF Len(entries) < NSlots THEN Len(entries) ELSE NSlots
           new == [e \in 1..n |-> Job(e, seq + e)]
<1>1. /\ n \in Nat /\ 1..n \subseteq DOMAIN entries /\ n <= NSlots
      /\ DOMAIN entries = 1..Len(entries) /\ Len(entries) \in Nat /\ seq \in Nat
  BY DEF PrefillInv, PrefillTypeOK
<1>2. /\ q' = q \o new /\ seq' = seq + n /\ host' = "compute" /\ entry' = 1
      /\ enSeq' = [e \in DOMAIN entries |-> IF e <= n THEN seq + e ELSE 0]
      /\ UNCHANGED <<graphs, entries, stop, in_flight, done_seq, free_recorded, ringVars, workVars,
                     streamVars, mem>>
  BY DEF Prime
<1>3. \A e \in 1..n :
        LET j == Job(e, seq + e) IN
        /\ j.seq = seq + e /\ j.slot = SlotOf(e) /\ j.src = entries[e]
        /\ j.wait = free_recorded[SlotOf(e)] /\ j.ring = ring
  BY JobIs
<1>4. new \in Seq(JobType) /\ Len(new) = n /\ \A e \in 1..n : new[e] = Job(e, seq + e)
  <2>1. \A e \in 1..n : e \in DOMAIN entries /\ seq + e \in Nat
    BY <1>1
  <2>2. \A e \in 1..n : Job(e, seq + e) \in JobType
    BY <2>1, JobIsJob DEF PrefillInv
  <2>. QED BY <1>1, <2>2
<1> HIDE DEF n, new
<1>5. q \in Seq(JobType) /\ Len(q) \in Nat /\ DOMAIN q = 1..Len(q)
  BY DEF PrefillInv, PrefillTypeOK
<1>6. /\ Len(q') = Len(q) + n /\ DOMAIN q' = 1..Len(q) + n
      /\ \A i \in DOMAIN q : q'[i] = q[i]
      /\ \A e \in 1..n : q'[Len(q) + e] = Job(e, seq + e)
  <2>1. /\ Len(q') = Len(q) + n
        /\ \A i \in 1..Len(q) + n : q'[i] = IF i <= Len(q) THEN q[i] ELSE new[i - Len(q)]
    <3>1. new \in Seq(JobType) /\ Len(new) = n
      BY <1>4
    <3>2. /\ Len(q \o new) = Len(q) + Len(new)
          /\ \A i \in 1..Len(q) + Len(new) : (q \o new)[i] = IF i <= Len(q) THEN q[i] ELSE new[i - Len(q)]
      BY <1>5, <3>1, ConcatProperties
    <3>3. q' = q \o new
      BY <1>2
    <3>. QED BY <3>1, <3>2, <3>3
  <2>2. q' \in Seq(JobType)
    BY <1>2, <1>4, <1>5
  <2>3. \A e \in 1..n : Len(q) + e \in 1..Len(q) + n /\ ~(Len(q) + e <= Len(q)) /\ Len(q) + e - Len(q) = e
    BY <1>1, <1>5
  <2>4. DOMAIN q' = 1..Len(q) + n
    BY <2>1, <2>2
  <2>5. \A i \in DOMAIN q : i \in 1..Len(q) + n /\ i <= Len(q)
    BY <1>1, <1>5
  <2>6. \A i \in DOMAIN q : q'[i] = q[i]
    BY <2>1, <2>5
  <2>7. \A e \in 1..n : q'[Len(q) + e] = new[e]
    BY <2>1, <2>3
  <2>8. \A e \in 1..n : q'[Len(q) + e] = Job(e, seq + e)
    BY <1>4, <2>7
  <2>. QED BY <2>1, <2>4, <2>6, <2>8
<1>7. \A i \in DOMAIN q' : i \in DOMAIN q \/ (i - Len(q) \in 1..n /\ q'[i] = Job(i - Len(q), seq + (i - Len(q))))
  <2> SUFFICES ASSUME NEW i \in 1..Len(q) + n, i \notin DOMAIN q
               PROVE  i - Len(q) \in 1..n /\ q'[i] = Job(i - Len(q), seq + (i - Len(q)))
    BY <1>6
  <2>1. i - Len(q) \in 1..n
    BY <1>1, <1>5
  <2>2. i = Len(q) + (i - Len(q))
    BY <1>1, <1>5
  <2>. QED BY <1>6, <2>1, <2>2
<1>8. \A j \in Outstanding' : j \in Outstanding \/ \E e \in 1..n : j = Job(e, seq + e)
  BY <1>2, <1>5, <1>6, <1>7 DEF Outstanding, Working
<1>9. HostInv'
  <2>1. entries # <<>> /\ slotSize > 0 /\ ~stop /\ worker # "ended"
        /\ in_flight = (IF Working THEN 1 ELSE 0)
    BY DEF Prime, PrefillInv, HostInv
  <2>2. Len(enSeq') = Len(entries)
    BY <1>1, <1>2
  <2>3. 1 <= Len(entries)
    BY <1>1, <2>1 DEF PrefillInv, PrefillTypeOK
  <2>. QED BY <1>2, <2>1, <2>2, <2>3 DEF HostInv, Working
<1>10. JobsInv'
  <2>1. \A e \in 1..n : Job(e, seq + e).seq = seq + e /\ Job(e, seq + e).ring = ring
    BY <1>3
  <2>2. \A j \in Outstanding : j.seq <= seq /\ j.seq \in Nat /\ j.ring = ring /\ slotSize > 0
    BY OutstandingJobs DEF PrefillInv, JobsInv, JobType
  <2>3. \A i \in DOMAIN q : q[i] \in Outstanding
    BY DEF Outstanding
  <2>4. \A i, j \in DOMAIN q' : i < j => q'[i].seq < q'[j].seq
    <3> SUFFICES ASSUME NEW i \in DOMAIN q', NEW j \in DOMAIN q', i < j PROVE q'[i].seq < q'[j].seq
      OBVIOUS
    <3>1. CASE j \in DOMAIN q
      <4>1. i \in DOMAIN q
        BY <1>5, <1>6, <3>1
      <4>. QED BY <1>6, <3>1, <4>1 DEF PrefillInv, JobsInv
    <3>2. CASE i \in DOMAIN q /\ j \notin DOMAIN q
      <4>1. q'[i].seq <= seq /\ q'[i].seq \in Nat
        BY <1>6, <2>2, <2>3, <3>2
      <4>2. j - Len(q) \in 1..n /\ q'[j].seq = seq + (j - Len(q))
        BY <1>7, <2>1, <3>2
      <4>. QED BY <1>1, <4>1, <4>2
    <3>3. CASE i \notin DOMAIN q /\ j \notin DOMAIN q
      <4>1. q'[i].seq = seq + (i - Len(q)) /\ q'[j].seq = seq + (j - Len(q))
        BY <1>7, <2>1, <3>3
      <4>. QED BY <1>1, <1>5, <1>6, <4>1
    <3>. QED BY <3>1, <3>2, <3>3
  <2>5. Working' => \A i \in DOMAIN q' : job'.seq < q'[i].seq
    <3> SUFFICES ASSUME Working', NEW i \in DOMAIN q' PROVE job'.seq < q'[i].seq
      OBVIOUS
    <3>1. Working /\ job' = job /\ job \in Outstanding
      BY <1>2 DEF Working, workVars, Outstanding
    <3>2. CASE i \in DOMAIN q
      BY <1>6, <3>1, <3>2 DEF PrefillInv, JobsInv
    <3>3. CASE i \notin DOMAIN q
      <4>1. i - Len(q) \in 1..n /\ q'[i].seq = seq + (i - Len(q))
        BY <1>7, <2>1, <3>3
      <4>. QED BY <1>1, <2>2, <3>1, <4>1
    <3>. QED BY <3>2, <3>3
  <2>6. \A j \in Outstanding' : j.seq <= seq' /\ j.ring = ring' /\ slotSize' > 0
    <3>1. slotSize > 0
      BY DEF Prime, PrefillInv, HostInv
    <3>. QED BY <1>1, <1>2, <1>8, <2>1, <2>2, <3>1
  <2>7. \A k \in Slots : done_seq'[k] <= seq'
    <3>1. \A k \in Slots : done_seq[k] <= seq /\ done_seq[k] \in Int
      BY DEF PrefillInv, JobsInv, PrefillTypeOK
    <3>. QED BY <1>1, <1>2, <3>1
  <2>. QED BY <2>4, <2>5, <2>6, <2>7 DEF JobsInv
<1>11. AskedInv'
  <2> SUFFICES ASSUME NEW e \in DOMAIN entries', Asked(e)'
               PROVE  /\ enSeq'[e] <= seq'
                      /\ \A j \in Outstanding' :
                           /\ j.slot = SlotOf(e) => j.seq <= enSeq'[e]
                           /\ j.seq = enSeq'[e] => j.slot = SlotOf(e) /\ j.src = entries'[e]
                      /\ done_seq'[SlotOf(e)] < enSeq'[e]
    BY DEF AskedInv, SlotOf
  <2>1. e \in 1..n /\ enSeq'[e] = seq + e /\ entries' = entries
    BY <1>1, <1>2 DEF Asked, n
  <2>2. \A j \in Outstanding : j.seq <= seq /\ j.seq \in Nat
    BY OutstandingJobs DEF PrefillInv, JobsInv, JobType
  <2>3. ASSUME NEW d \in 1..n
        PROVE  /\ Job(d, seq + d).slot = SlotOf(e) => d = e
               /\ Job(d, seq + d).seq = seq + d /\ Job(d, seq + d).src = entries[d]
               /\ Job(d, seq + d).slot = SlotOf(d)
    <3>1. /\ Job(d, seq + d).seq = seq + d /\ Job(d, seq + d).src = entries[d]
          /\ Job(d, seq + d).slot = SlotOf(d)
      BY <1>3
    <3>2. SlotOf(d) = SlotOf(e) => d = e
      BY <1>1, <2>1, SlotsDiffer
    <3>. QED BY <3>1, <3>2
  <2>4. ASSUME NEW j \in Outstanding'
        PROVE  /\ j.slot = SlotOf(e) => j.seq <= enSeq'[e]
               /\ j.seq = enSeq'[e] => j.slot = SlotOf(e) /\ j.src = entries'[e]
    <3>1. CASE j \in Outstanding
      BY <1>1, <2>1, <2>2, <3>1
    <3>2. ASSUME NEW d \in 1..n, j = Job(d, seq + d)
          PROVE  /\ j.slot = SlotOf(e) => j.seq <= enSeq'[e]
                 /\ j.seq = enSeq'[e] => j.slot = SlotOf(e) /\ j.src = entries'[e]
      BY <1>1, <2>1, <2>3, <3>2
    <3>. QED BY <1>8, <3>1, <3>2
  <2>5. done_seq'[SlotOf(e)] < enSeq'[e]
    <3>1. SlotOf(e) \in Slots
      BY <2>1, SlotOfIsSlot
    <3>2. done_seq[SlotOf(e)] <= seq /\ done_seq[SlotOf(e)] \in Int
      BY <3>1 DEF PrefillInv, JobsInv, PrefillTypeOK
    <3>. QED BY <1>1, <1>2, <2>1, <3>2
  <2>6. enSeq'[e] <= seq'
    BY <1>1, <1>2, <2>1
  <2>. QED BY <2>4, <2>5, <2>6
<1>12. WaitsInv'
  <2>1. \A j \in Outstanding' : ~j.wait => ~free_recorded[j.slot]
    <3>1. \A j \in Outstanding : ~j.wait => ~free_recorded[j.slot]
      BY DEF PrefillInv, WaitsInv
    <3>2. \A e \in 1..n : Job(e, seq + e).wait = free_recorded[Job(e, seq + e).slot]
      BY <1>3
    <3>. QED BY <1>8, <3>1, <3>2
  <2>. QED BY <1>2, <2>1 DEF PrefillInv, WaitsInv
<1>13. FreesInv' /\ ReadsInv'
  BY <1>2 DEF PrefillInv, FreesInv, ReadsInv
<1>. QED BY <1>9, <1>10, <1>11, <1>12, <1>13 DEF PrefillInv

\* When the number of a weight's job is posted, the weight is there and its slot is left alone.
LEMMA WeightIsThere ==
  ASSUME PrefillInv, host = "compute", Arrived
  PROVE  /\ entry \in DOMAIN entries /\ entry \in 1..Len(entries) /\ SlotOf(entry) \in Slots
         /\ mem[SlotOf(entry)] = entries[entry]
         /\ \A j \in Outstanding : j.slot # SlotOf(entry)
<1> USE PrefillAssumption
<1>1. entry \in 1..Len(entries) /\ Len(entries) \in Nat /\ DOMAIN entries = 1..Len(entries)
  BY DEF PrefillInv, HostInv, PrefillTypeOK
<1>2. SlotOf(entry) \in Slots /\ Asked(entry)
  BY <1>1, SlotOfIsSlot DEF Asked
<1>3. enSeq[entry] \in Nat /\ done_seq[SlotOf(entry)] \in Int
  BY <1>1, <1>2 DEF PrefillInv, HostInv, PrefillTypeOK
<1>. QED BY <1>1, <1>2, <1>3 DEF PrefillInv, AskedInv, Arrived

\* A split is queued, and the weight NSlots later asked for.
LEMMA ComputeAsks ==
  ASSUME PrefillInv, PrefillTypeOK', ComputeStreamed
  PROVE  /\ JobsInv' /\ AskedInv' /\ WaitsInv' /\ HostInv'
         /\ worker \in {"copy", "copied"} => job.slot # SlotOf(entry)
<1> USE PrefillAssumption DEF workVars, ringVars
<1> DEFINE k == SlotOf(entry)
           next == entry + NSlots
           new == [Job(next, seq + 1) EXCEPT !.wait = TRUE]
<1>1. /\ entry \in DOMAIN entries /\ entry \in 1..Len(entries) /\ k \in Slots
      /\ \A j \in Outstanding : j.slot # k
  BY WeightIsThere DEF ComputeStreamed
<1>2. /\ Len(entries) \in Nat /\ DOMAIN entries = 1..Len(entries) /\ entry \in Nat \ {0} /\ seq \in Nat
      /\ NSlots \in Nat \ {0} /\ next \in Nat \ {0}
      /\ q \in Seq(JobType) /\ Len(q) \in Nat /\ DOMAIN q = 1..Len(q)
      /\ enSeq \in Seq(Nat) /\ DOMAIN enSeq = 1..Len(entries)
  BY DEF PrefillInv, PrefillTypeOK, HostInv, ComputeStreamed
<1>3. /\ UNCHANGED <<entries, stop, in_flight, done_seq, slotSize, ring, worker, job, need, mem>>
      /\ freeRecorded' = [freeRecorded EXCEPT ![k] = freeRecorded[k] + 1]
      /\ free_recorded' = [free_recorded EXCEPT ![k] = TRUE]
      /\ entry' = (IF entry < Len(entries) THEN entry + 1 ELSE 1)
      /\ host' = (IF entry < Len(entries) THEN "compute" ELSE "idle")
  BY DEF ComputeStreamed
<1>4. \/ /\ next <= Len(entries)
         /\ q' = Append(q, new) /\ enSeq' = [enSeq EXCEPT ![next] = seq + 1] /\ seq' = seq + 1
      \/ next > Len(entries) /\ UNCHANGED <<q, enSeq, seq>>
  BY <1>2 DEF ComputeStreamed, JobSeq
<1>5. /\ new.seq = seq + 1 /\ new.slot = k /\ new.src = entries[next] /\ new.wait = TRUE /\ new.ring = ring
  BY <1>2, SlotComesAgain DEF Job
<1>6. next <= Len(entries) => new \in JobType
  <2> SUFFICES ASSUME next <= Len(entries) PROVE new \in JobType
    OBVIOUS
  <2>1. Job(next, seq + 1) \in JobType
    BY <1>2, JobIsJob DEF PrefillInv
  <2>. QED BY <2>1 DEF JobType
<1> HIDE DEF new
<1>7. next <= Len(entries) =>
        /\ DOMAIN q' = 1..Len(q) + 1 /\ q'[Len(q) + 1] = new
        /\ \A i \in DOMAIN q : q'[i] = q[i]
  BY <1>2, <1>4, <1>6, Enters
<1>8. \A j \in Outstanding' : j \in Outstanding \/ (next <= Len(entries) /\ j = new)
  <2>1. CASE next <= Len(entries)
    <3>1. \A i \in DOMAIN q' : (i \in DOMAIN q /\ q'[i] = q[i]) \/ q'[i] = new
      BY <1>2, <1>7, <2>1
    <3>. QED BY <1>3, <2>1, <3>1 DEF Outstanding, Working
  <2>2. CASE next > Len(entries)
    <3>1. UNCHANGED <<q, worker, job>>
      BY <1>2, <1>3, <1>4, <2>2
    <3>. QED BY <3>1 DEF Outstanding, Working
  <2>. QED BY <1>2, <2>1, <2>2
<1>9. \A j \in Outstanding : j.seq <= seq /\ j.seq \in Nat /\ j.ring = ring /\ slotSize > 0
  BY OutstandingJobs DEF PrefillInv, JobsInv, JobType
<1>10. JobsInv'
  <2>1. CASE next <= Len(entries)
    <3>1. \A i \in DOMAIN q : q[i] \in Outstanding
      BY DEF Outstanding
    <3>2. \A i, j \in DOMAIN q' : i < j => q'[i].seq < q'[j].seq
      <4> SUFFICES ASSUME NEW i \in DOMAIN q', NEW j \in DOMAIN q', i < j PROVE q'[i].seq < q'[j].seq
        OBVIOUS
      <4>1. i \in DOMAIN q /\ q'[i] = q[i] /\ q[i].seq <= seq /\ q[i].seq \in Nat
        BY <1>2, <1>7, <1>9, <2>1, <3>1
      <4>2. CASE j \in DOMAIN q
        BY <1>7, <2>1, <4>1, <4>2 DEF PrefillInv, JobsInv
      <4>3. CASE j = Len(q) + 1
        BY <1>2, <1>5, <1>7, <2>1, <4>1, <4>3
      <4>. QED BY <1>2, <1>7, <2>1, <4>2, <4>3
    <3>3. Working' => \A i \in DOMAIN q' : job'.seq < q'[i].seq
      <4> SUFFICES ASSUME Working', NEW i \in DOMAIN q' PROVE job'.seq < q'[i].seq
        OBVIOUS
      <4>1. Working /\ job' = job /\ job \in Outstanding
        BY <1>3 DEF Working, Outstanding
      <4>2. CASE i \in DOMAIN q
        BY <1>7, <2>1, <4>1, <4>2 DEF PrefillInv, JobsInv
      <4>3. CASE i = Len(q) + 1
        BY <1>2, <1>5, <1>7, <1>9, <2>1, <4>1, <4>3
      <4>. QED BY <1>2, <1>7, <2>1, <4>2, <4>3
    <3>4. seq' = seq + 1
      BY <1>2, <1>4, <2>1
    <3>5. \A j \in Outstanding' : j.seq <= seq' /\ j.ring = ring' /\ slotSize' > 0
      <4>1. slotSize > 0
        BY DEF ComputeStreamed, PrefillInv, HostInv
      <4>. QED BY <1>2, <1>3, <1>5, <1>8, <1>9, <3>4, <4>1
    <3>6. \A x \in Slots : done_seq'[x] <= seq'
      <4>1. \A x \in Slots : done_seq[x] <= seq /\ done_seq[x] \in Int
        BY DEF PrefillInv, JobsInv, PrefillTypeOK
      <4>. QED BY <1>2, <1>3, <3>4, <4>1
    <3>. QED BY <3>2, <3>3, <3>5, <3>6 DEF JobsInv
  <2>2. CASE next > Len(entries)
    <3>1. UNCHANGED <<q, seq>>
      BY <1>2, <1>4, <2>2
    <3>2. Outstanding' = Outstanding /\ Working' = Working
      BY <1>3, <3>1 DEF Outstanding, Working
    <3>. QED BY <1>3, <3>1, <3>2 DEF PrefillInv, JobsInv
  <2>. QED BY <1>2, <2>1, <2>2
<1>11. HostInv'
  <2>1. Len(enSeq') = Len(entries)
    <3>1. Len(enSeq) = Len(entries)
      BY DEF ComputeStreamed, PrefillInv, HostInv
    <3>2. next <= Len(entries) => next \in 1..Len(enSeq) /\ seq + 1 \in Nat
      BY <1>2, <3>1
    <3>. QED BY <1>2, <1>4, <3>1, <3>2, ExceptSeq
  <2>2. host' = "compute" => entry' <= Len(entries)
    BY <1>2, <1>3
  <2>3. entries # <<>> /\ slotSize > 0 /\ ~stop /\ worker # "ended"
        /\ in_flight = (IF Working THEN 1 ELSE 0)
    BY DEF ComputeStreamed, PrefillInv, HostInv
  <2>. QED BY <1>3, <2>1, <2>2, <2>3 DEF HostInv, Working
<1>12. AskedInv'
  <2> SUFFICES ASSUME host' = "compute", NEW e \in DOMAIN entries', Asked(e)'
               PROVE  /\ enSeq'[e] <= seq'
                      /\ \A j \in Outstanding' :
                           /\ j.slot = SlotOf(e) => j.seq <= enSeq'[e]
                           /\ j.seq = enSeq'[e] => j.slot = SlotOf(e) /\ j.src = entries'[e]
                      /\ \/ done_seq'[SlotOf(e)] < enSeq'[e]
                         \/ mem'[SlotOf(e)] = entries'[e] /\ \A j \in Outstanding' : j.slot # SlotOf(e)
    BY DEF AskedInv, SlotOf
  <2>1. entry' = entry + 1 /\ e \in entry+1..Len(entries) /\ e < entry + 1 + NSlots
    BY <1>2, <1>3 DEF Asked
  <2>2. CASE e = next
    <3>1. next <= Len(entries) /\ enSeq'[e] = seq + 1
      BY <1>2, <1>4, <2>1, <2>2
    <3>2. SlotOf(e) = k
      BY <1>2, <2>2, SlotComesAgain
    <3>0. enSeq'[e] <= seq'
      BY <1>2, <1>4, <3>1
    <3>3. \A j \in Outstanding' :
            /\ j.slot = SlotOf(e) => j.seq <= enSeq'[e]
            /\ j.seq = enSeq'[e] => j.slot = SlotOf(e) /\ j.src = entries'[e]
      BY <1>2, <1>3, <1>5, <1>8, <1>9, <2>2, <3>1, <3>2
    <3>4. done_seq'[SlotOf(e)] < enSeq'[e]
      <4>1. done_seq[k] <= seq /\ done_seq[k] \in Int
        BY <1>1 DEF PrefillInv, JobsInv, PrefillTypeOK
      <4>. QED BY <1>2, <1>3, <3>1, <3>2, <4>1
    <3>. QED BY <3>0, <3>3, <3>4
  <2>3. CASE e # next
    <3>1. e \in DOMAIN entries /\ e \in Nat \ {0} /\ entry < e /\ e - entry < NSlots
      <4>1. e \in Int /\ entry < e /\ e <= Len(entries) /\ e < entry + 1 + NSlots /\ e # entry + NSlots
        BY <1>2, <2>1, <2>3
      <4>2. entry \in Int /\ NSlots \in Int /\ entry >= 1 /\ Len(entries) \in Int
        BY <1>2
      <4>3. e \in 1..Len(entries) /\ e >= 1
        BY <4>1, <4>2
      <4>4. e - entry < NSlots
        BY <4>1, <4>2
      <4>. QED BY <1>2, <4>1, <4>3, <4>4
    <3>2. Asked(e)
      BY <1>2, <3>1, <2>1 DEF Asked
    <3>3. SlotOf(e) # k
      BY <1>2, <3>1, SlotsDiffer
    <3>4. enSeq'[e] = enSeq[e]
      <4>1. CASE next <= Len(entries)
        <5>1. next \in 1..Len(enSeq) /\ Len(enSeq) = Len(entries) /\ seq + 1 \in Nat /\ e \in 1..Len(enSeq)
          BY <1>2, <3>1, <4>1 DEF ComputeStreamed, PrefillInv, HostInv
        <5>2. enSeq' = [enSeq EXCEPT ![next] = seq + 1]
          BY <1>2, <1>4, <4>1
        <5> HIDE DEF next
        <5>. QED BY <1>2, <2>3, <5>1, <5>2, ExceptSeq
      <4>2. CASE next > Len(entries)
        BY <1>2, <1>4, <4>2
      <4>. QED BY <1>2, <4>1, <4>2
    <3>5. /\ enSeq[e] <= seq /\ enSeq[e] \in Nat
          /\ \A j \in Outstanding :
                /\ j.slot = SlotOf(e) => j.seq <= enSeq[e]
                /\ j.seq = enSeq[e] => j.slot = SlotOf(e) /\ j.src = entries[e]
          /\ \/ done_seq[SlotOf(e)] < enSeq[e]
             \/ mem[SlotOf(e)] = entries[e] /\ \A j \in Outstanding : j.slot # SlotOf(e)
      <4>1. host = "compute"
        BY DEF ComputeStreamed
      <4>2. enSeq[e] \in Nat
        BY <1>2, <3>1
      <4>. QED BY <3>1, <3>2, <4>1, <4>2 DEF PrefillInv, AskedInv
    <3>6. new.slot # SlotOf(e)
      BY <1>5, <3>3
    <3>7. seq' \in {seq, seq + 1} /\ mem' = mem /\ entries' = entries /\ done_seq' = done_seq
      BY <1>2, <1>3, <1>4
    <3>8. new.seq # enSeq[e]
      BY <1>2, <1>5, <3>5
    <3>. QED BY <1>2, <1>8, <3>4, <3>5, <3>6, <3>7, <3>8
  <2>. QED BY <2>2, <2>3
<1>13. WaitsInv'
  <2>1. \A j \in Outstanding : j.slot \in Slots
    BY OutstandingJobs DEF PrefillInv, JobType
  <2>2. \A j \in Outstanding : free_recorded'[j.slot] = free_recorded[j.slot]
    BY <1>1, <1>3, <2>1 DEF PrefillInv, PrefillTypeOK
  <2>3. worker = "await" => freeRecorded'[job.slot] = freeRecorded[job.slot]
    BY <1>1, <1>3, <2>1 DEF PrefillInv, PrefillTypeOK, Outstanding, Working
  <2>. QED BY <1>3, <1>5, <1>8, <2>2, <2>3 DEF PrefillInv, WaitsInv
<1>14. worker \in {"copy", "copied"} => job.slot # k
  BY <1>1 DEF Outstanding, Working
<1>. QED BY <1>10, <1>11, <1>12, <1>13, <1>14

\* The split and its event are the last of the stream; nobody writes the slot it reads.
LEMMA ComputeKeeps == ASSUME PrefillInv, PrefillTypeOK', ComputeStreamed PROVE PrefillInv'
<1> USE PrefillAssumption DEF workVars, ringVars
<1> DEFINE k == SlotOf(entry)
           n == freeRecorded[k] + 1
           mul == [op |-> "mul", src |-> entries[entry], slot |-> k, nth |-> 0]
           free == [op |-> "free", src |-> None, slot |-> k, nth |-> n]
<1>1. k \in Slots /\ entries[entry] \in Weights /\ mem[k] = entries[entry]
  BY WeightIsThere DEF ComputeStreamed, PrefillInv, PrefillTypeOK
<1>2. /\ compute' = compute \o <<mul, free>>
      /\ freeRecorded' = [freeRecorded EXCEPT ![k] = n] /\ free_recorded' = [free_recorded EXCEPT ![k] = TRUE]
      /\ UNCHANGED <<busy, freeReached, mem, worker, job>>
  BY DEF ComputeStreamed
<1>3. /\ freeRecorded \in [Slots -> Nat] /\ freeReached \in [Slots -> Nat]
      /\ free_recorded \in [Slots -> BOOLEAN] /\ compute \in Seq(Op)
  BY DEF PrefillInv, PrefillTypeOK, Op
<1>4. n \in Nat
  BY <1>1, <1>3
<1>5. mul \in Op /\ free \in Op
  BY <1>1, <1>4 DEF Op
<1>6. /\ mul.op = "mul" /\ mul.src = entries[entry] /\ mul.slot = k
      /\ free.op = "free" /\ free.slot = k /\ free.nth = n
  OBVIOUS
<1> HIDE DEF mul, free
<1> DEFINE l == Len(compute)
<1>7. /\ l \in Nat /\ DOMAIN compute = 1..l /\ DOMAIN compute' = 1..l+2
      /\ \A i \in DOMAIN compute : compute'[i] = compute[i]
      /\ compute'[l+1] = mul /\ compute'[l+2] = free
  BY <1>2, <1>3, <1>5, Enters2
<1>8. \A i \in DOMAIN compute : compute[i].slot \in Slots /\ compute[i].nth \in Nat
  BY OpsAre DEF PrefillInv
<1> HIDE DEF l
<1>9. \A i \in DOMAIN compute' : i \in DOMAIN compute \/ i = l + 1 \/ i = l + 2
  BY <1>7
<1>10. \A x \in Slots : freeReached'[x] <= freeRecorded'[x] /\ freeRecorded[x] <= freeRecorded'[x]
  BY <1>2, <1>3 DEF PrefillInv, FreesInv
<1>11. \A x \in Slots : free_recorded[x] => free_recorded'[x]
  BY <1>2, <1>3
<1>12. FreesInv'
  <2>1. ASSUME NEW i \in DOMAIN compute'
        PROVE  /\ free_recorded'[compute'[i].slot]
               /\ compute'[i].op = "mul" =>
                    i + 1 \in DOMAIN compute' /\ compute'[i+1].op = "free" /\ compute'[i+1].slot = compute'[i].slot
               /\ compute'[i].op = "free" =>
                    /\ freeReached'[compute'[i].slot] < compute'[i].nth
                    /\ compute'[i].nth <= freeRecorded'[compute'[i].slot]
    <3>1. CASE i \in DOMAIN compute
      <4>1. compute'[i] = compute[i] /\ compute[i].slot \in Slots /\ compute[i].nth \in Nat
        BY <1>7, <1>8, <3>1
      <4>2. /\ free_recorded[compute[i].slot]
            /\ compute[i].op = "mul" =>
                 i + 1 \in DOMAIN compute /\ compute[i+1].op = "free" /\ compute[i+1].slot = compute[i].slot
            /\ compute[i].op = "free" =>
                 freeReached[compute[i].slot] < compute[i].nth /\ compute[i].nth <= freeRecorded[compute[i].slot]
        BY <3>1 DEF PrefillInv, FreesInv
      <4>3. compute[i].op = "mul" => i + 1 \in DOMAIN compute' /\ compute'[i+1] = compute[i+1]
        BY <1>7, <4>2
      <4>4. freeRecorded[compute[i].slot] \in Nat /\ freeRecorded'[compute[i].slot] \in Nat
        BY <1>1, <1>2, <1>3, <1>4, <4>1
      <4>. QED BY <1>2, <1>10, <1>11, <4>1, <4>2, <4>3, <4>4
    <3>2. CASE i = l + 1
      <4>1. i + 1 = l + 2 /\ i + 1 \in DOMAIN compute'
        BY <1>7, <3>2
      <4>2. free_recorded'[k]
        BY <1>1, <1>2, <1>3
      <4>. QED BY <1>6, <1>7, <3>2, <4>1, <4>2
    <3>3. CASE i = l + 2
      <4>1. free_recorded'[k] /\ freeRecorded'[k] = n /\ freeReached'[k] <= freeRecorded[k]
        BY <1>1, <1>2, <1>3 DEF PrefillInv, FreesInv
      <4>. QED BY <1>1, <1>2, <1>3, <1>6, <1>7, <3>3, <4>1
    <3>. QED BY <1>9, <3>1, <3>2, <3>3
  <2>2. ASSUME NEW i \in DOMAIN compute', NEW j \in DOMAIN compute', i < j,
               compute'[i].op = "free", compute'[j].op = "free", compute'[i].slot = compute'[j].slot
        PROVE  compute'[i].nth < compute'[j].nth
    <3>1. i \in DOMAIN compute /\ compute'[i] = compute[i]
      BY <1>6, <1>7, <2>2
    <3>2. CASE j \in DOMAIN compute
      BY <1>7, <2>2, <3>1, <3>2 DEF PrefillInv, FreesInv
    <3>3. CASE j \notin DOMAIN compute
      <4>1. compute'[j] = free
        BY <1>6, <1>7, <1>9, <2>2, <3>3
      <4>2. compute[i].slot = k /\ compute[i].nth <= freeRecorded[k] /\ compute[i].nth \in Nat
        BY <1>6, <1>8, <2>2, <3>1, <4>1 DEF PrefillInv, FreesInv
      <4>. QED BY <1>1, <1>3, <1>6, <3>1, <4>1, <4>2
    <3>. QED BY <3>2, <3>3
  <2>. QED BY <1>10, <2>1, <2>2 DEF FreesInv
<1>13. ReadsInv'
  <2>1. worker \in {"copy", "copied"} => job.slot # k
    BY ComputeAsks
  <2>2. busy' => compute' # <<>> /\ Head(compute').op = "mul"
    <3> SUFFICES ASSUME busy PROVE compute' # <<>> /\ Head(compute').op = "mul"
      BY <1>2
    <3>1. compute # <<>> /\ Head(compute).op = "mul"
      BY DEF PrefillInv, ReadsInv
    <3>2. 1 \in DOMAIN compute /\ Head(compute) = compute[1]
      BY <1>3, <3>1, Leaves
    <3>3. compute' \in Seq(Op) /\ compute'[1] = compute[1] /\ compute' # <<>>
      BY <1>2, <1>3, <1>5, <1>7, <3>2, Enters2
    <3>. QED BY <3>1, <3>2, <3>3, Leaves
  <2>3. ASSUME NEW i \in DOMAIN compute', compute'[i].op = "mul"
        PROVE  /\ mem'[compute'[i].slot] = compute'[i].src
               /\ worker' \in {"copy", "copied"} => job'.slot # compute'[i].slot
    <3>1. CASE i \in DOMAIN compute
      BY <1>2, <1>7, <2>3, <3>1 DEF PrefillInv, ReadsInv
    <3>2. CASE i = l + 1
      BY <1>1, <1>2, <1>6, <1>7, <2>1, <3>2
    <3>. QED BY <1>6, <1>7, <1>9, <2>3, <3>1, <3>2
  <2>. QED BY <2>2, <2>3 DEF ReadsInv
<1>. QED BY <1>12, <1>13, ComputeAsks DEF PrefillInv

\* The worker takes a job and asks for the event it waits for; the jobs outstanding stay.
LEMMA WorkerMoves ==
  ASSUME PrefillInv, PrefillTypeOK', Take \/ EndWorker \/ AwaitFree
  PROVE  PrefillInv'
<1> USE PrefillAssumption DEF prefillHostVars, queueVars, ringVars, workVars, streamVars
<1>1. Outstanding' = Outstanding
  <2>1. CASE Take
    <3>1. /\ q \in Seq(JobType) /\ q # <<>> /\ q' = Tail(q) /\ job' = Head(q) /\ worker' = "taken" /\ worker = "wait"
      BY <2>1 DEF Take, PrefillInv, PrefillTypeOK
    <3>2. /\ job' = q[1] /\ 1 \in DOMAIN q
          /\ \A i \in DOMAIN q' : i + 1 \in DOMAIN q /\ q'[i] = q[i+1]
          /\ \A i \in DOMAIN q : i = 1 \/ (i - 1 \in DOMAIN q' /\ q[i] = q'[i-1])
      BY <3>1, Leaves
    <3>3. Outstanding = {q[i] : i \in DOMAIN q} /\ Outstanding' = {q'[i] : i \in DOMAIN q'} \cup {job'}
      BY <3>1 DEF Outstanding, Working
    <3>4. \A x \in Outstanding : x \in Outstanding'
      BY <3>2, <3>3
    <3>5. \A x \in Outstanding' : x \in Outstanding
      BY <3>2, <3>3
    <3>. QED BY <3>4, <3>5
  <2>2. CASE EndWorker
    BY <2>2 DEF EndWorker, Outstanding, Working
  <2>3. CASE AwaitFree
    BY <2>3 DEF AwaitFree, Outstanding, Working
  <2>. QED BY <2>1, <2>2, <2>3
<1>2. /\ UNCHANGED <<host, graphs, entries, entry, enSeq, stop, seq, done_seq, free_recorded, slotSize, ring,
                    compute, busy, freeRecorded, freeReached, mem>>
  BY DEF Take, EndWorker, AwaitFree
<1>3. HostInv'
  BY <1>2 DEF Take, EndWorker, AwaitFree, PrefillInv, HostInv, Working
<1>4. JobsInv'
  <2>1. CASE Take
    <3>1. /\ q \in Seq(JobType) /\ q # <<>> /\ q' = Tail(q) /\ job' = Head(q)
      BY <2>1 DEF Take, PrefillInv, PrefillTypeOK
    <3>2. \A i \in DOMAIN q' : i \in Nat \ {0} /\ i + 1 \in DOMAIN q /\ q'[i] = q[i+1]
      BY <3>1, Leaves
    <3>3. job' = q[1] /\ 1 \in DOMAIN q
      BY <3>1, Leaves
    <3>4. \A i, j \in DOMAIN q : i < j => q[i].seq < q[j].seq
      BY DEF PrefillInv, JobsInv
    <3>5. \A i, j \in DOMAIN q' : i < j => q'[i].seq < q'[j].seq
      BY <3>2, <3>4
    <3>6. \A i \in DOMAIN q' : job'.seq < q'[i].seq
      BY <3>2, <3>3, <3>4
    <3>. QED BY <1>1, <1>2, <3>5, <3>6 DEF PrefillInv, JobsInv
  <2>2. CASE EndWorker \/ AwaitFree
    <3>1. UNCHANGED <<q, job>> /\ (Working' => Working)
      BY <2>2 DEF EndWorker, AwaitFree, Working
    <3>. QED BY <1>1, <1>2, <3>1 DEF PrefillInv, JobsInv
  <2>. QED BY <2>1, <2>2
<1>5. AskedInv'
  BY <1>1, <1>2 DEF PrefillInv, AskedInv, Asked, SlotOf
<1>6. WaitsInv'
  <2>1. worker' = "await" => need' = IF job'.wait THEN freeRecorded'[job'.slot] ELSE 0
    BY <1>2 DEF Take, EndWorker, AwaitFree
  <2>2. worker' # "copied"
    BY DEF Take, EndWorker, AwaitFree
  <2>. QED BY <1>1, <1>2, <2>1, <2>2 DEF PrefillInv, WaitsInv
<1>7. FreesInv'
  BY <1>2 DEF PrefillInv, FreesInv
<1>8. ReadsInv'
  <2>1. worker' \notin {"copy", "copied"}
    BY DEF Take, EndWorker, AwaitFree
  <2>. QED BY <1>2, <2>1 DEF PrefillInv, ReadsInv
<1>. QED BY <1>3, <1>4, <1>5, <1>6, <1>7, <1>8 DEF PrefillInv

\* When the event a job waits for is reached, no split that reads its slot is queued.
LEMMA NobodyReads ==
  ASSUME PrefillInv, BeginSlotCopy, NEW i \in DOMAIN compute, compute[i].op = "mul"
  PROVE  compute[i].slot # job.slot
<1> SUFFICES ASSUME compute[i].slot = job.slot PROVE FALSE
  OBVIOUS
<1> DEFINE k == job.slot
<1>1. job \in Outstanding /\ k \in Slots
  BY DEF BeginSlotCopy, Outstanding, Working, PrefillInv, PrefillTypeOK, JobType
<1>2. free_recorded[k]
  BY DEF PrefillInv, FreesInv
<1>3. job.wait /\ need = freeRecorded[k]
  BY <1>1, <1>2 DEF PrefillInv, WaitsInv, BeginSlotCopy
<1>4. /\ i + 1 \in DOMAIN compute /\ compute[i+1].op = "free" /\ compute[i+1].slot = k
  BY DEF PrefillInv, FreesInv
<1>5. freeReached[k] < compute[i+1].nth /\ compute[i+1].nth <= freeRecorded[k]
  BY <1>4 DEF PrefillInv, FreesInv
<1>6. compute[i+1].nth \in Nat /\ freeReached[k] \in Nat /\ freeRecorded[k] \in Nat
  BY <1>1, <1>4, OpsAre DEF PrefillInv, PrefillTypeOK
<1>. QED BY <1>3, <1>5, <1>6 DEF BeginSlotCopy

\* The worker copies: its slot is read by no split, and no weight that was posted is in it.
LEMMA WorkerCopies ==
  ASSUME PrefillInv, PrefillTypeOK', BeginSlotCopy \/ EndSlotCopy
  PROVE  PrefillInv'
<1> USE PrefillAssumption DEF prefillHostVars, queueVars, ringVars, workVars, streamVars
<1>1. /\ UNCHANGED <<host, graphs, entries, entry, enSeq, q, stop, in_flight, seq, done_seq, free_recorded,
                    slotSize, ring, failed, job, need, compute, busy, freeRecorded, freeReached>>
      /\ Working /\ Working' /\ worker' \in {"copy", "copied"} /\ host \notin {"freed"}
  BY DEF BeginSlotCopy, EndSlotCopy, Working, PrefillInv, HostInv
<1>2. PICK w : mem' = [mem EXCEPT ![job.slot] = w]
  BY DEF BeginSlotCopy, EndSlotCopy
<1>3. Outstanding' = Outstanding /\ job \in Outstanding
  BY <1>1 DEF Outstanding
<1>4. job.slot \in Slots /\ DOMAIN mem = Slots
  BY DEF PrefillInv, PrefillTypeOK, JobType
<1>5. HostInv' /\ JobsInv' /\ FreesInv'
  BY <1>1, <1>3 DEF PrefillInv, HostInv, JobsInv, FreesInv, Working
<1>6. AskedInv'
  <2>1. \A e \in DOMAIN entries : SlotOf(e) # job.slot => mem'[SlotOf(e)] = mem[SlotOf(e)]
    BY <1>2, <1>4
  <2>. QED BY <1>1, <1>3, <2>1 DEF PrefillInv, AskedInv, Asked, SlotOf
<1>7. WaitsInv'
  <2>1. worker' = "copied" => mem'[job.slot] = job.src
    BY <1>4 DEF BeginSlotCopy, EndSlotCopy
  <2>. QED BY <1>1, <1>3, <2>1 DEF PrefillInv, WaitsInv
<1>8. ReadsInv'
  <2>1. ASSUME NEW i \in DOMAIN compute, compute[i].op = "mul" PROVE compute[i].slot # job.slot
    BY <2>1, NobodyReads DEF EndSlotCopy, PrefillInv, ReadsInv
  <2>2. \A i \in DOMAIN compute : compute[i].op = "mul" => mem'[compute[i].slot] = mem[compute[i].slot]
    BY <1>2, <2>1
  <2>. QED BY <1>1, <2>1, <2>2 DEF PrefillInv, ReadsInv
<1>. QED BY <1>5, <1>6, <1>7, <1>8 DEF PrefillInv

\* The job is posted: it was the last of its slot, or a later one is outstanding.
LEMMA PostKeeps == ASSUME PrefillInv, PrefillTypeOK', Post PROVE PrefillInv'
<1> USE PrefillAssumption DEF prefillHostVars, ringVars, streamVars
<1>1. /\ UNCHANGED <<host, graphs, entries, entry, enSeq, q, stop, seq, free_recorded,
                    slotSize, ring, failed, job, need, compute, busy, freeRecorded, freeReached, mem>>
      /\ Working /\ ~Working' /\ worker = "copied" /\ worker' = "wait" /\ in_flight' = in_flight - 1
      /\ done_seq' = [done_seq EXCEPT ![job.slot] = job.seq]
  BY DEF Post, Working
<1>2. /\ job \in Outstanding /\ Outstanding' \subseteq Outstanding
      /\ Outstanding' = {q[i] : i \in DOMAIN q}
  BY <1>1 DEF Outstanding
<1>3. job.slot \in Slots /\ job.seq \in Nat /\ job.seq <= seq /\ done_seq \in [Slots -> Int]
  BY <1>2 DEF PrefillInv, PrefillTypeOK, JobType, JobsInv
<1>4. \A j \in Outstanding' : job.seq < j.seq /\ j.seq \in Nat
  <2>1. \A i \in DOMAIN q : job.seq < q[i].seq
    BY <1>1 DEF PrefillInv, JobsInv
  <2>2. \A j \in Outstanding : j.seq \in Nat
    BY OutstandingJobs DEF PrefillInv, JobType
  <2>. QED BY <1>2, <2>1, <2>2
<1>5. HostInv'
  BY <1>1 DEF PrefillInv, HostInv
<1>6. JobsInv'
  BY <1>1, <1>2, <1>3 DEF PrefillInv, JobsInv
<1>7. AskedInv'
  <2> SUFFICES ASSUME host = "compute", NEW e \in DOMAIN entries, Asked(e)
               PROVE  \/ done_seq'[SlotOf(e)] < enSeq[e]
                      \/ mem[SlotOf(e)] = entries[e] /\ \A j \in Outstanding' : j.slot # SlotOf(e)
    BY <1>1, <1>2 DEF PrefillInv, AskedInv, Asked, SlotOf
  <2>1. /\ \A j \in Outstanding :
              /\ j.slot = SlotOf(e) => j.seq <= enSeq[e]
              /\ j.seq = enSeq[e] => j.slot = SlotOf(e) /\ j.src = entries[e]
        /\ \/ done_seq[SlotOf(e)] < enSeq[e]
           \/ mem[SlotOf(e)] = entries[e] /\ \A j \in Outstanding : j.slot # SlotOf(e)
    BY DEF PrefillInv, AskedInv
  <2>2. CASE job.slot # SlotOf(e)
    BY <1>1, <1>2, <1>3, <2>1, <2>2
  <2>3. CASE job.slot = SlotOf(e) /\ job.seq < enSeq[e]
    BY <1>1, <1>3, <2>3
  <2>4. CASE job.slot = SlotOf(e) /\ job.seq >= enSeq[e]
    <3>1. enSeq[e] \in Nat
      BY NumbersAre DEF PrefillInv
    <3>2. job.seq = enSeq[e] /\ job.src = entries[e]
      BY <1>2, <1>3, <2>1, <2>4, <3>1
    <3>3. mem[SlotOf(e)] = entries[e]
      BY <1>1, <2>4, <3>2 DEF PrefillInv, WaitsInv
    <3>4. \A j \in Outstanding' : j.slot # SlotOf(e)
      BY <1>2, <1>4, <2>1, <3>1, <3>2
    <3>. QED BY <3>3, <3>4
  <2>5. enSeq[e] \in Nat
    BY NumbersAre DEF PrefillInv
  <2>. QED BY <1>3, <2>2, <2>3, <2>4, <2>5
<1>8. WaitsInv' /\ FreesInv' /\ ReadsInv'
  BY <1>1, <1>2 DEF PrefillInv, WaitsInv, FreesInv, ReadsInv
<1>. QED BY <1>5, <1>6, <1>7, <1>8 DEF PrefillInv

\* The device takes what is first in the stream.
LEMMA DeviceKeeps == ASSUME PrefillInv, PrefillTypeOK', Device PROVE PrefillInv'
<1> USE PrefillAssumption DEF prefillHostVars, queueVars, ringVars, workVars
<1>1. /\ UNCHANGED <<host, graphs, entries, entry, enSeq, q, stop, in_flight, seq, done_seq, free_recorded,
                    slotSize, ring, failed, worker, job, need, freeRecorded, mem>>
  BY DEF Device, BeginMul, EndMul, ReachFree
<1>2. Outstanding' = Outstanding
  BY <1>1 DEF Outstanding, Working
<1>3. HostInv' /\ JobsInv' /\ AskedInv' /\ WaitsInv'
  BY <1>1, <1>2 DEF PrefillInv, HostInv, JobsInv, AskedInv, Asked, SlotOf, WaitsInv, Working
<1>4. compute \in Seq(Op) /\ compute # <<>>
  BY DEF Device, BeginMul, EndMul, ReachFree, ComputeIs, PrefillInv, PrefillTypeOK, Op
<1>5. CASE BeginMul
  <2>1. UNCHANGED <<compute, freeReached>> /\ Head(compute).op = "mul"
    BY <1>5 DEF BeginMul, ComputeIs
  <2>2. FreesInv' /\ ReadsInv'
    BY <1>1, <1>4, <2>1 DEF PrefillInv, FreesInv, ReadsInv
  <2>. QED BY <1>3, <2>2 DEF PrefillInv
<1>6. CASE EndMul \/ ReachFree
  <2>1. /\ compute' = Tail(compute) /\ ~busy'
        /\ \/ Head(compute).op = "mul" /\ freeReached' = freeReached
           \/ /\ Head(compute).op = "free"
              /\ freeReached' = [freeReached EXCEPT ![Head(compute).slot] = Head(compute).nth]
    BY <1>6 DEF EndMul, ReachFree, ComputeIs, PrefillInv, ReadsInv
  <2>2. /\ Head(compute) = compute[1] /\ 1 \in DOMAIN compute /\ compute[1] \in Op
        /\ \A i \in DOMAIN compute' : i \in Nat \ {0} /\ i + 1 \in DOMAIN compute /\ compute'[i] = compute[i+1]
        /\ \A i \in DOMAIN compute : i = 1 \/ (i - 1 \in DOMAIN compute' /\ compute[i] = compute'[i-1])
    BY <1>4, <2>1, Leaves
  <2>3. \A i \in DOMAIN compute : compute[i].slot \in Slots /\ compute[i].nth \in Nat
    BY OpsAre DEF PrefillInv
  <2>4. freeReached \in [Slots -> Nat] /\ freeRecorded \in [Slots -> Nat]
    BY DEF PrefillInv, PrefillTypeOK
  <2>5. \A k \in Slots : freeReached'[k] <= freeRecorded[k]
    BY <2>1, <2>2, <2>3, <2>4 DEF PrefillInv, FreesInv
  <2>6. ASSUME NEW i \in DOMAIN compute'
        PROVE  /\ free_recorded[compute'[i].slot]
               /\ compute'[i].op = "mul" =>
                    i + 1 \in DOMAIN compute' /\ compute'[i+1].op = "free" /\ compute'[i+1].slot = compute'[i].slot
               /\ compute'[i].op = "free" =>
                    /\ freeReached'[compute'[i].slot] < compute'[i].nth
                    /\ compute'[i].nth <= freeRecorded[compute'[i].slot]
    <3>1. i \in Nat \ {0} /\ i + 1 \in DOMAIN compute /\ compute'[i] = compute[i+1]
      BY <2>2
    <3>2. /\ free_recorded[compute[i+1].slot]
          /\ compute[i+1].op = "mul" =>
               /\ (i + 1) + 1 \in DOMAIN compute /\ compute[(i + 1) + 1].op = "free"
               /\ compute[(i + 1) + 1].slot = compute[i+1].slot
          /\ compute[i+1].op = "free" =>
               /\ freeReached[compute[i+1].slot] < compute[i+1].nth
               /\ compute[i+1].nth <= freeRecorded[compute[i+1].slot]
      BY <3>1 DEF PrefillInv, FreesInv
    <3>3. compute[i+1].op = "mul" =>
            i + 1 \in DOMAIN compute' /\ compute'[i+1].op = "free" /\ compute'[i+1].slot = compute'[i].slot
      <4> SUFFICES ASSUME compute[i+1].op = "mul"
                   PROVE  i + 1 \in DOMAIN compute' /\ compute'[i+1] = compute[(i + 1) + 1]
        BY <3>1, <3>2
      <4>1. (i + 1) + 1 \in DOMAIN compute /\ (i + 1) + 1 # 1 /\ ((i + 1) + 1) - 1 = i + 1
        BY <3>1, <3>2
      <4>. QED BY <2>2, <4>1
    <3>4. compute[i+1].op = "free" => freeReached'[compute[i+1].slot] < compute[i+1].nth
      <4>1. Head(compute).op = "free" /\ compute[i+1].op = "free" /\ Head(compute).slot = compute[i+1].slot =>
              Head(compute).nth < compute[i+1].nth
        <5>1. 1 < i + 1
          BY <3>1
        <5>. QED BY <2>2, <3>1, <5>1 DEF PrefillInv, FreesInv
      <4>. QED BY <2>1, <2>2, <2>3, <2>4, <3>1, <3>2, <4>1
    <3>. QED BY <3>1, <3>2, <3>3, <3>4
  <2>7. ASSUME NEW i \in DOMAIN compute', NEW j \in DOMAIN compute', i < j,
               compute'[i].op = "free", compute'[j].op = "free", compute'[i].slot = compute'[j].slot
        PROVE  compute'[i].nth < compute'[j].nth
    <3>1. /\ i + 1 \in DOMAIN compute /\ j + 1 \in DOMAIN compute /\ i + 1 < j + 1
          /\ compute'[i] = compute[i+1] /\ compute'[j] = compute[j+1]
      BY <2>2, <2>7
    <3>. QED BY <2>7, <3>1 DEF PrefillInv, FreesInv
  <2>8. FreesInv'
    BY <1>1, <2>5, <2>6, <2>7 DEF FreesInv
  <2>9. ReadsInv'
    <3>1. \A i \in DOMAIN compute' : i + 1 \in DOMAIN compute /\ compute'[i] = compute[i+1]
      BY <2>2
    <3>. QED BY <1>1, <2>1, <3>1 DEF PrefillInv, ReadsInv
  <2>. QED BY <1>3, <2>8, <2>9 DEF PrefillInv
<1>. QED BY <1>5, <1>6 DEF Device

LEMMA PrefillStep == PrefillInv /\ PrefillNext => PrefillInv'
<1> SUFFICES ASSUME PrefillInv, PrefillNext PROVE PrefillInv'
  OBVIOUS
<1>1. PrefillTypeOK'
  BY HostTypes, WorkTypes DEF PrefillInv, PrefillNext
<1>. QED BY <1>1, HostMoves, GrowKeeps, PrimeKeeps, ComputeKeeps, WorkerMoves, WorkerCopies, PostKeeps,
            DeviceKeeps DEF PrefillNext, HostGoesOn, Worker

LEMMA PrefillStutters == PrefillInv /\ UNCHANGED prefillVars => PrefillInv'
<1> SUFFICES ASSUME PrefillInv, UNCHANGED prefillVars PROVE PrefillInv'
  OBVIOUS
<1> USE DEF prefillVars, prefillHostVars, queueVars, ringVars, workVars, streamVars, PrefillInv
<1>1. PrefillTypeOK'
  BY DEF PrefillTypeOK
<1>2. HostInv' /\ JobsInv' /\ AskedInv' /\ WaitsInv'
  BY DEF HostInv, JobsInv, AskedInv, Asked, SlotOf, WaitsInv, Outstanding, Working
<1>3. FreesInv' /\ ReadsInv'
  BY DEF FreesInv, ReadsInv
<1>. QED BY <1>1, <1>2, <1>3

LEMMA PrefillInvariant == SchedSpec => []PrefillInv
<1>1. SchedInit => PrefillInv
  BY PrefillStarts DEF SchedInit
<1>2. PrefillInv /\ [SchedNext]_schedVars => PrefillInv'
  BY PrefillStep, PrefillStutters DEF SchedNext, schedVars
<1>. QED BY <1>1, <1>2, PTL DEF SchedSpec

\* A split multiplies with its own weight, whole, from its begin to its end
\* (ggml_backend_sched_compute_splits, pstream_state), for a ring of any number of slots, any
\* weights and graphs, splits that fail and a ring that is made anew.
THEOREM MultipliesItsWeight == SchedSpec => []ReadsItsWeight
<1>1. PrefillInv => ReadsItsWeight
  <2> SUFFICES ASSUME PrefillInv, busy PROVE mem[Head(compute).slot] = Head(compute).src
    BY DEF ReadsItsWeight
  <2>1. compute # <<>> /\ Head(compute).op = "mul" /\ compute \in Seq(Op)
    BY DEF PrefillInv, ReadsInv, PrefillTypeOK, Op
  <2>2. Head(compute) = compute[1] /\ 1 \in DOMAIN compute
    BY <2>1, Leaves
  <2>. QED BY <2>1, <2>2 DEF PrefillInv, ReadsInv
<1>. QED BY <1>1, PrefillInvariant, PTL

\* The worker writes the ring that exists (pstream_prepare drains it first).
THEOREM WritesNoDeadRing == SchedSpec => []WritesLiveRing
<1>1. PrefillInv => WritesLiveRing
  BY DEF PrefillInv, JobsInv, Outstanding, Working, WritesLiveRing
<1>. QED BY <1>1, PrefillInvariant, PTL

-----------------------------------------------------------------------------
(* The pipeline: its inductive invariant                                   *)

Takes(b, k) == \E p \in DOMAIN InputsOf(b) : InputsOf(b)[p] = k
\* The host is at split b, and input k of it is copied, or its copy queued.
Past(b, k) == split = b /\ \E p \in DOMAIN InputsOf(b) : p < input /\ InputsOf(b)[p] = k
IsOp(b, i, o) == i \in DOMAIN stream[b] /\ stream[b][i].op = o
NoneWith(b, c) == \A i \in DOMAIN stream[b] : stream[b][i].op = "compute" => stream[b][i].copy # c

StreamOps ==
  [op : {"compute"}, graph : Nat, copy : Nat] \cup [op : {"copy"}, to : Nat, copy : Nat]
    \cup [op : {"record", "wait"}, event : Nat \X Nat, nth : Nat]

PipeTypes ==
  /\ machine \in Machines /\ graph \in Nat /\ split \in 0..NStages /\ isAlloc \in BOOLEAN
  /\ curCopy \in Copies /\ nextCopy \in Copies /\ input \in Nat \ {0}
  /\ stream \in [Stages -> Seq(StreamOps)] /\ phase \in [Stages -> 0..2]
  /\ recorded \in [Events -> Nat] /\ reached \in [Events -> Nat]
  /\ cpy \in [Stages -> [{"user", "prev"} -> [Copies -> Int]]] /\ out \in [Stages -> Int]

\* The events of a stage are recorded in order, and reached in order; a compute is followed by
\* its event.
EventsInv ==
  /\ \A e \in Events : reached[e] <= recorded[e]
  /\ \A b \in Stages : \A i \in DOMAIN stream[b] :
       /\ stream[b][i].op = "record" =>
            /\ stream[b][i].event \in Events /\ stream[b][i].event[1] = b
            /\ reached[stream[b][i].event] < stream[b][i].nth
            /\ stream[b][i].nth <= recorded[stream[b][i].event]
       /\ stream[b][i].op = "wait" => stream[b][i].event \in Events
       /\ stream[b][i].op = "compute" =>
            /\ stream[b][i].copy \in Copies
            /\ NCopies > 1 => IsOp(b, i + 1, "record") /\ stream[b][i+1].event = <<b, stream[b][i].copy>>
       /\ stream[b][i].op = "copy" =>
            /\ machine.async /\ b < NStages /\ stream[b][i].to = b + 1 /\ stream[b][i].copy \in Copies
  /\ \A b \in Stages : \A i, j \in DOMAIN stream[b] :
       i < j /\ stream[b][i].op = "record" /\ stream[b][j].op = "record"
         /\ stream[b][i].event = stream[b][j].event => stream[b][i].nth < stream[b][j].nth

\* The inputs of the user are there.
UserInv ==
  \A b \in Stages : Takes(b, "user") =>
    /\ \A i \in DOMAIN stream[b] : stream[b][i].op = "compute" =>
         cpy[b]["user"][stream[b][i].copy] = stream[b][i].graph
    /\ Past(b, "user") => cpy[b]["user"][curCopy] = graph

\* Types, events and inputs of the user: on every machine, of every graph.
Frame == PipeTypes /\ EventsInv /\ UserInv

\* What the operation at place j of the stream of b finds as b's output is that of graph g.
Yields(b, j, g) ==
  \/ \E i \in 1..j-1 : /\ stream[b][i].op = "compute" /\ stream[b][i].graph = g
                       /\ \A h \in i+1..j-1 : stream[b][h].op # "compute"
  \/ out[b] = g /\ \A h \in 1..j-1 : stream[b][h].op # "compute"

\* A copy to a stage is queued.
CopyPending(b, c) == b - 1 \in Stages /\ \E j \in DOMAIN stream[b-1] : IsOp(b-1, j, "copy") /\ stream[b-1][j].copy = c

\* A queued copy is followed by an event, for which its destination waits.
AwaitedAt(b, j, w) ==
  /\ IsOp(b, j + 1, "record") /\ stream[b][j+1].event = <<b, 0>>
  /\ IsOp(b + 1, w, "wait") /\ stream[b+1][w].event = <<b, 0>> /\ stream[b+1][w].nth = stream[b][j+1].nth

\* Of the last graph, on every machine: a stage that it is queued at computes it last of all; the
\* activation has been copied for it, and no other copy to its place is queued, or the last of
\* them is the one for it, and awaited before it is computed.  Copies for graphs before it may be
\* queued to the same place, but not behind it.
HostPast(b)    == split = 0 \/ split > b
LatestAt(b, i) == IsOp(b, i, "compute") /\ stream[b][i].graph = graph
LastCopyAt(b, j) ==
  /\ IsOp(b, j, "copy") /\ stream[b][j].copy = curCopy
  /\ \A h \in DOMAIN stream[b] : j < h /\ stream[b][h].op = "copy" => stream[b][h].copy # curCopy
Arrives(b, j, w) ==
  /\ LastCopyAt(b - 1, j) /\ AwaitedAt(b - 1, j, w) /\ Yields(b - 1, j, graph)
  /\ \A i \in DOMAIN stream[b] : LatestAt(b, i) => w < i
HandedOver(b) ==
  \/ cpy[b]["prev"][curCopy] = graph /\ ~CopyPending(b, curCopy)
  \/ \E j \in DOMAIN stream[b-1], w \in DOMAIN stream[b] : Arrives(b, j, w)

GraphsInv ==
  \A b \in Stages : \A i \in DOMAIN stream[b] : stream[b][i].op = "compute" =>
    /\ stream[b][i].graph <= graph
    /\ stream[b][i].graph = graph => HostPast(b) /\ stream[b][i].copy = curCopy
ResultInv ==
  \A b \in Stages :
    /\ HostPast(b) => Yields(b, Len(stream[b]) + 1, graph)
    /\ phase[b] = 2 => HeadIs(b, "compute") /\ (Head(stream[b]).graph = graph => out[b] = graph)
HandedInv ==
  \A b \in Stages : Takes(b, "prev") /\ (HostPast(b) \/ Past(b, "prev")) => HandedOver(b)

LastInv == GraphsInv /\ ResultInv /\ HandedInv

\* Of every graph, where the host waits for a copy before it has it written again.  A copy of
\* the inputs of a stage has one user at a time.
CopiesInv ==
  /\ \A b \in Stages : \A i, j \in DOMAIN stream[b] :
       i # j /\ stream[b][i].op = "compute" /\ stream[b][j].op = "compute" =>
         stream[b][i].copy # stream[b][j].copy
  /\ split > 0 /\ input > 1 => NoneWith(split, curCopy)

\* The activation is there, or its copy is queued.
PrevInv ==
  \A b \in Stages : Takes(b, "prev") =>
    /\ \A i \in DOMAIN stream[b] : stream[b][i].op = "compute" =>
         cpy[b]["prev"][stream[b][i].copy] = stream[b][i].graph \/ CopyPending(b, stream[b][i].copy)
    /\ Past(b, "prev") => cpy[b]["prev"][curCopy] = graph \/ CopyPending(b, curCopy)

\* A queued copy is awaited before its destination computes what it is for, and it finds the
\* output of that graph.
NeededBy(b, j, w) ==
  \/ \E i \in DOMAIN stream[b+1] :
       /\ w < i /\ stream[b+1][i].op = "compute" /\ stream[b+1][i].copy = stream[b][j].copy
       /\ Yields(b, j, stream[b+1][i].graph)
  \/ Past(b + 1, "prev") /\ curCopy = stream[b][j].copy /\ Yields(b, j, graph)
TransferInv ==
  \A b \in Stages :
    /\ \A j \in DOMAIN stream[b] : stream[b][j].op = "copy" =>
         \E w \in DOMAIN stream[b+1] : AwaitedAt(b, j, w) /\ NeededBy(b, j, w)
    /\ \A i, j \in DOMAIN stream[b] :
         i # j /\ stream[b][i].op = "copy" /\ stream[b][j].op = "copy" =>
           stream[b][i].copy # stream[b][j].copy

\* The last graph queued at a stage, and where the stage is.
Queued(b) == IF split = 0 \/ split > b THEN graph ELSE graph - 1
OutInv ==
  \A b \in Stages :
    /\ Yields(b, Len(stream[b]) + 1, Queued(b))
    /\ phase[b] > 0 => stream[b] # <<>> /\ Head(stream[b]).op \in {"compute", "copy"}
    /\ phase[b] = 2 => Head(stream[b]).op = "compute" /\ out[b] = Head(stream[b]).graph

PipeInv == PipeTypes /\ EventsInv /\ UserInv /\ CopiesInv /\ PrevInv /\ TransferInv /\ OutInv

-----------------------------------------------------------------------------
(* Facts about machines, streams and outputs                               *)

LEMMA InputsShape ==
  ASSUME NEW s \in Inputs
  PROVE  /\ DOMAIN s = 1..Len(s) /\ Len(s) \in {1, 2}
         /\ \A p \in DOMAIN s : p \in {1, 2} /\ s[p] \in {"user", "prev"}
         /\ \A p, r \in DOMAIN s : s[p] = s[r] => p = r
<1>1. CASE s = <<"user">> \/ s = <<"prev">>
  BY <1>1
<1>2. CASE s = <<"user", "prev">> \/ s = <<"prev", "user">>
  <2>1. Len(s) = 2 /\ DOMAIN s = 1..2
    BY <1>2
  <2>2. \A p \in 1..2 : p = 1 \/ p = 2
    OBVIOUS
  <2>. QED BY <1>2, <2>1, <2>2
<1>. QED BY <1>1, <1>2 DEF Inputs

LEMMA MachineFacts ==
  ASSUME PipeTypes
  PROVE  /\ machine \in Machine /\ NCopies \in Nat \ {0} /\ machine.async \in BOOLEAN
         /\ \A b \in Stages : InputsOf(b) \in Inputs
         /\ \A b \in Stages : Takes(b, "prev") => b - 1 \in Stages
         /\ NStages \in Nat \ {0}
<1>1. machine \in Machine /\ NStages \in Nat \ {0}
  BY PipelineAssumption DEF PipeTypes
<1>2. NCopies \in Nat \ {0} /\ machine.async \in BOOLEAN /\ \A b \in Stages : InputsOf(b) \in Inputs
  BY <1>1 DEF Machine, NCopies, InputsOf
<1>3. ASSUME NEW b \in Stages, Takes(b, "prev") PROVE b - 1 \in Stages
  <2>1. InputsOf(1) = <<"user">>
    BY PipelineAssumption DEF PipeTypes, InputsOf
  <2>2. b # 1
    BY <1>3, <2>1 DEF Takes
  <2>. QED BY <1>1, <2>2 DEF Stages
<1>. QED BY <1>1, <1>2, <1>3

LEMMA StreamFacts ==
  ASSUME PipeTypes, NEW b \in Stages
  PROVE  /\ stream[b] \in Seq(StreamOps) /\ Len(stream[b]) \in Nat /\ DOMAIN stream[b] = 1..Len(stream[b])
         /\ stream[b] # <<>> => 1 \in DOMAIN stream[b] /\ Head(stream[b]) = stream[b][1]
<1>1. stream[b] \in Seq(StreamOps)
  BY DEF PipeTypes
<1> HIDE DEF StreamOps
<1>. QED BY <1>1, Leaves

\* An operation that is done leaves its stream.
LEMMA Pops ==
  ASSUME PipeTypes, NEW b \in Stages, stream[b] # <<>>, Finish(b)
  PROVE  /\ stream' \in [Stages -> Seq(StreamOps)]
         /\ phase' = [phase EXCEPT ![b] = 0]
         /\ \A d \in Stages : d # b => stream'[d] = stream[d]
         /\ Len(stream[b]) = Len(stream'[b]) + 1
         /\ \A i \in DOMAIN stream'[b] : i \in Nat \ {0} /\ i + 1 \in DOMAIN stream[b] /\ stream'[b][i] = stream[b][i+1]
         /\ \A i \in DOMAIN stream[b] : i # 1 => i - 1 \in DOMAIN stream'[b] /\ stream[b][i] = stream'[b][i-1]
<1>1. stream[b] \in Seq(StreamOps) /\ stream \in [Stages -> Seq(StreamOps)]
  BY DEF PipeTypes
<1>2. stream' = [stream EXCEPT ![b] = Tail(stream[b])] /\ phase' = [phase EXCEPT ![b] = 0]
  BY DEF Finish
<1>3. stream'[b] = Tail(stream[b]) /\ \A d \in Stages : d # b => stream'[d] = stream[d]
  BY <1>1, <1>2
<1>4. Tail(stream[b]) \in Seq(StreamOps) /\ Len(Tail(stream[b])) = Len(stream[b]) - 1 /\ Len(stream[b]) \in Nat \ {0}
  BY <1>1, Leaves
<1>5. stream' \in [Stages -> Seq(StreamOps)]
  BY <1>1, <1>2, <1>4
<1>6. Len(stream[b]) = Len(stream'[b]) + 1
  BY <1>3, <1>4
<1>. QED BY <1>1, <1>2, <1>3, <1>5, <1>6, Leaves

\* Operations are put at the end of a stream.
LEMMA Extended ==
  ASSUME NEW s \in Seq(StreamOps), NEW t \in Seq(StreamOps)
  PROVE  /\ s \o t \in Seq(StreamOps) /\ Len(s \o t) = Len(s) + Len(t)
         /\ DOMAIN (s \o t) = 1..Len(s) + Len(t) /\ DOMAIN s = 1..Len(s) /\ DOMAIN t = 1..Len(t)
         /\ Len(s) \in Nat /\ Len(t) \in Nat
         /\ \A i \in DOMAIN s : i \in DOMAIN (s \o t) /\ (s \o t)[i] = s[i]
         /\ \A i \in DOMAIN t : Len(s) + i \in DOMAIN (s \o t) /\ (s \o t)[Len(s) + i] = t[i]
         /\ \A i \in DOMAIN (s \o t) : i \in DOMAIN s \/ (i - Len(s) \in DOMAIN t /\ (s \o t)[i] = t[i - Len(s)])
<1>1. /\ s \o t \in Seq(StreamOps) /\ Len(s \o t) = Len(s) + Len(t)
      /\ \A i \in 1..Len(s) + Len(t) : (s \o t)[i] = IF i <= Len(s) THEN s[i] ELSE t[i - Len(s)]
  BY ConcatProperties
<1>2. /\ Len(s) \in Nat /\ Len(t) \in Nat /\ DOMAIN s = 1..Len(s) /\ DOMAIN t = 1..Len(t)
      /\ DOMAIN (s \o t) = 1..Len(s) + Len(t)
  BY <1>1
<1>3. \A i \in 1..Len(s) : i \in 1..Len(s) + Len(t) /\ i <= Len(s)
  BY <1>2
<1>4. \A i \in 1..Len(t) : Len(s) + i \in 1..Len(s) + Len(t) /\ ~(Len(s) + i <= Len(s)) /\ Len(s) + i - Len(s) = i
  BY <1>2
<1>5. \A i \in 1..Len(s) + Len(t) : i \in 1..Len(s) \/ (i - Len(s) \in 1..Len(t) /\ ~(i <= Len(s)))
  BY <1>2
<1>. QED BY <1>1, <1>2, <1>3, <1>4, <1>5

\* An output that nothing before place j touches.
LEMMA YieldsStays ==
  ASSUME NEW b \in Stages, NEW j \in Nat \ {0}, NEW g, Yields(b, j, g),
         \A h \in 1..j-1 : stream'[b][h] = stream[b][h],
         out'[b] = out[b] \/ (j > 1 /\ stream[b][1].op = "compute")
  PROVE  Yields(b, j, g)'
<1>1. CASE \E i \in 1..j-1 : /\ stream[b][i].op = "compute" /\ stream[b][i].graph = g
                            /\ \A h \in i+1..j-1 : stream[b][h].op # "compute"
  <2>1. PICK i \in 1..j-1 : /\ stream[b][i].op = "compute" /\ stream[b][i].graph = g
                           /\ \A h \in i+1..j-1 : stream[b][h].op # "compute"
    BY <1>1
  <2>2. \A h \in i+1..j-1 : h \in 1..j-1
    OBVIOUS
  <2>. QED BY <2>1, <2>2 DEF Yields
<1>2. CASE out[b] = g /\ \A h \in 1..j-1 : stream[b][h].op # "compute"
  <2>1. out'[b] = g
    BY <1>2
  <2>. QED BY <1>2, <2>1 DEF Yields
<1>. QED BY <1>1, <1>2 DEF Yields

\* The first operation is done; a compute of that graph leaves its result.
LEMMA YieldsNext ==
  ASSUME NEW b \in Stages, NEW j \in Nat \ {0}, NEW g, Yields(b, j + 1, g),
         \A h \in 1..j-1 : stream'[b][h] = stream[b][h+1],
         IF stream[b][1].op = "compute" THEN stream[b][1].graph = g => out'[b] = g ELSE out'[b] = out[b]
  PROVE  Yields(b, j, g)'
<1>1. (j + 1) - 1 = j
  OBVIOUS
<1>2. CASE \E i \in 1..j : /\ stream[b][i].op = "compute" /\ stream[b][i].graph = g
                          /\ \A h \in i+1..j : stream[b][h].op # "compute"
  <2>1. PICK i \in 1..j : /\ stream[b][i].op = "compute" /\ stream[b][i].graph = g
                         /\ \A h \in i+1..j : stream[b][h].op # "compute"
    BY <1>2
  <2>2. \A h \in i..j-1 : h + 1 \in i+1..j
    OBVIOUS
  <2>3. CASE i = 1
    <3>1. \A h \in 1..j-1 : stream'[b][h].op # "compute"
      BY <2>1, <2>2, <2>3
    <3>. QED BY <2>1, <2>3, <3>1 DEF Yields
  <2>4. CASE i # 1
    <3>1. i - 1 \in 1..j-1 /\ (i - 1) + 1 = i
      BY <2>4
    <3>2. stream'[b][i-1].op = "compute" /\ stream'[b][i-1].graph = g
      BY <2>1, <3>1
    <3>3. \A h \in (i-1)+1..j-1 : stream'[b][h].op # "compute"
      BY <2>1, <2>2, <3>1
    <3>. QED BY <3>1, <3>2, <3>3 DEF Yields
  <2>. QED BY <2>3, <2>4
<1>3. CASE out[b] = g /\ \A h \in 1..j : stream[b][h].op # "compute"
  <2>1. \A h \in 1..j-1 : h + 1 \in 1..j
    OBVIOUS
  <2>2. 1 \in 1..j
    OBVIOUS
  <2>. QED BY <1>3, <2>1, <2>2 DEF Yields
<1>. QED BY <1>1, <1>2, <1>3 DEF Yields

\* Writing a copy of an input leaves the others alone.
LEMMA PutsThere ==
  ASSUME cpy \in [Stages -> [{"user", "prev"} -> [Copies -> Int]]],
         NEW b \in Stages, NEW c \in Copies, NEW k \in {"user", "prev"}, NEW v \in Int,
         cpy' = [cpy EXCEPT ![b][k][c] = v]
  PROVE  /\ cpy' \in [Stages -> [{"user", "prev"} -> [Copies -> Int]]]
         /\ cpy'[b][k][c] = v
         /\ \A d \in Stages, l \in {"user", "prev"}, e \in Copies :
              d # b \/ l # k \/ e # c => cpy'[d][l][e] = cpy[d][l][e]
  OBVIOUS

LEMMA SameMachine ==
  ASSUME machine' = machine
  PROVE  /\ NCopies' = NCopies /\ Copies' = Copies /\ Events' = Events
         /\ \A b \in Stages : InputsOf(b)' = InputsOf(b)
         /\ \A b \in Stages, k \in {"user", "prev"} : Takes(b, k)' = Takes(b, k)
  BY DEF NCopies, Copies, Events, InputsOf, Takes

-----------------------------------------------------------------------------
(* The streams, on every machine                                           *)

\* What an operation of a stream may be.
LEMMA HeadFacts ==
  ASSUME Frame, NEW b \in Stages, stream[b] # <<>>
  PROVE  LET o == Head(stream[b]) IN
         /\ 1 \in DOMAIN stream[b] /\ o = stream[b][1]
         /\ o.op = "record" => /\ o.event \in Events /\ o.event[1] = b /\ o.nth \in Nat
                              /\ reached[o.event] < o.nth /\ o.nth <= recorded[o.event]
         /\ o.op = "wait" => o.event \in Events /\ o.nth \in Nat
         /\ o.op = "compute" => o.copy \in Copies /\ o.graph \in Nat
         /\ o.op = "copy" => o.copy \in Copies /\ o.to = b + 1 /\ o.to \in Stages
<1> DEFINE o == Head(stream[b])
<1>1. 1 \in DOMAIN stream[b] /\ o = stream[b][1] /\ stream[b] \in Seq(StreamOps)
  BY StreamFacts DEF Frame
<1>2. stream[b][1] \in StreamOps
  <2> HIDE DEF StreamOps
  <2>. QED BY <1>1
<1>3. /\ o.op \in {"record", "wait"} => o.nth \in Nat
      /\ o.op = "compute" => o.graph \in Nat
  BY <1>1, <1>2 DEF StreamOps
<1>4. o.op = "copy" => o.to \in Stages
  <2> SUFFICES ASSUME o.op = "copy" PROVE o.to \in Stages
    OBVIOUS
  <2>1. b < NStages /\ o.to = b + 1
    BY <1>1 DEF Frame, EventsInv
  <2>2. NStages \in Nat
    BY MachineFacts DEF Frame
  <2>. QED BY <2>1, <2>2 DEF Stages
<1>. QED BY <1>1, <1>3, <1>4 DEF Frame, EventsInv

\* A stage begins to compute, or is through its first layer.
LEMMA ComputingFacts ==
  ASSUME Frame, NEW b \in Stages, StartCompute(b) \/ FirstLayer(b)
  PROVE  LET o == Head(stream[b]) IN
         /\ UNCHANGED <<machine, graph, split, input, curCopy, nextCopy, isAlloc, stream, recorded, reached, cpy>>
         /\ HeadIs(b, "compute") /\ 1 \in DOMAIN stream[b] /\ o = stream[b][1] /\ o.op = "compute" /\ o.graph \in Nat
         /\ out' \in [Stages -> Int] /\ \A d \in Stages : d # b => out'[d] = out[d] /\ phase'[d] = phase[d]
         /\ phase' \in [Stages -> 0..2] /\ phase'[b] > 0
         /\ phase'[b] = 2 /\ InputsAre(b, o.copy, o.graph) => out'[b] = o.graph
<1> USE DEF hostVars
<1> DEFINE o == Head(stream[b])
<1>1. /\ UNCHANGED <<machine, graph, split, input, curCopy, nextCopy, isAlloc, stream, recorded, reached, cpy>>
      /\ HeadIs(b, "compute") /\ stream[b] # <<>>
  BY DEF StartCompute, FirstLayer, HeadIs
<1>2. 1 \in DOMAIN stream[b] /\ o = stream[b][1] /\ o.op = "compute" /\ o.graph \in Nat
  BY <1>1, HeadFacts DEF HeadIs
<1>3. phase \in [Stages -> 0..2] /\ out \in [Stages -> Int] /\ Torn \in Int
  BY DEF Frame, PipeTypes, Torn
<1>4. CASE StartCompute(b)
  <2>1. out' = [out EXCEPT ![b] = Torn] /\ phase' = [phase EXCEPT ![b] = 1]
    BY <1>4 DEF StartCompute, Start
  <2>. QED BY <1>1, <1>2, <1>3, <2>1
<1>5. CASE FirstLayer(b)
  <2>1. PICK v \in Int : v = ResultOf(b, o, o.graph)
    BY <1>2, <1>3 DEF ResultOf
  <2>2. out' = [out EXCEPT ![b] = v] /\ phase' = [phase EXCEPT ![b] = 2]
    BY <1>5, <2>1 DEF FirstLayer
  <2>3. InputsAre(b, o.copy, o.graph) => v = o.graph
    BY <2>1 DEF ResultOf
  <2>. QED BY <1>1, <1>2, <1>3, <2>2, <2>3
<1>. QED BY <1>4, <1>5

\* A copy begins: until it ends, its destination has nothing whole.
LEMMA StartCopyFacts ==
  ASSUME Frame, NEW b \in Stages, StartCopy(b)
  PROVE  LET o == Head(stream[b]) IN
         /\ UNCHANGED <<machine, graph, split, input, curCopy, nextCopy, isAlloc, stream, recorded, reached, out>>
         /\ o.op = "copy" /\ stream[b] # <<>> /\ 1 \in DOMAIN stream[b] /\ o = stream[b][1]
         /\ o.copy \in Copies /\ o.to = b + 1 /\ o.to \in Stages /\ CopyPending(o.to, o.copy)
         /\ phase[b] = 0 /\ phase' = [phase EXCEPT ![b] = 1]
         /\ \A d \in Stages, c \in Copies : cpy'[d]["user"][c] = cpy[d]["user"][c]
         /\ \A d \in Stages, c \in Copies : d # o.to \/ c # o.copy => cpy'[d]["prev"][c] = cpy[d]["prev"][c]
         /\ cpy' \in [Stages -> [{"user", "prev"} -> [Copies -> Int]]]
<1> USE DEF hostVars
<1> DEFINE o == Head(stream[b])
<1>1. /\ UNCHANGED <<machine, graph, split, input, curCopy, nextCopy, isAlloc, stream, recorded, reached, out>>
      /\ o.op = "copy" /\ stream[b] # <<>> /\ phase[b] = 0
      /\ phase' = [phase EXCEPT ![b] = 1] /\ cpy' = [cpy EXCEPT ![o.to]["prev"][o.copy] = Torn]
  BY DEF StartCopy, HeadIs, Start, Put
<1>2. 1 \in DOMAIN stream[b] /\ o = stream[b][1] /\ o.copy \in Copies /\ o.to = b + 1 /\ o.to \in Stages
  BY <1>1, HeadFacts
<1>3. /\ \A d \in Stages, c \in Copies : cpy'[d]["user"][c] = cpy[d]["user"][c]
      /\ \A d \in Stages, c \in Copies : d # o.to \/ c # o.copy => cpy'[d]["prev"][c] = cpy[d]["prev"][c]
      /\ cpy' \in [Stages -> [{"user", "prev"} -> [Copies -> Int]]]
  <2>1. Torn \in Int
    BY DEF Torn
  <2>2. cpy \in [Stages -> [{"user", "prev"} -> [Copies -> Int]]]
    BY DEF Frame, PipeTypes
  <2>3. cpy' = [cpy EXCEPT ![o.to]["prev"][o.copy] = Torn]
    BY <1>1
  <2> HIDE DEF o
  <2>. QED BY <1>2, <2>1, <2>2, <2>3, PutsThere
<1>4. CopyPending(o.to, o.copy)
  <2>1. o.to - 1 = b
    BY <1>2 DEF Stages
  <2>. QED BY <1>1, <1>2, <2>1 DEF CopyPending, IsOp
<1>. QED BY <1>1, <1>2, <1>3, <1>4

\* What the operation that is done leaves behind: what a copy was made of, an event that is
\* reached; a wait ends when its event is reached.
Done(b) ==
  LET o == Head(stream[b]) IN
  /\ stream[b] # <<>> /\ Finish(b)
  /\ UNCHANGED <<machine, graph, split, input, curCopy, nextCopy, isAlloc, recorded>>
  /\ \E v \in Int : out' = [out EXCEPT ![b] = v]
  /\ o.op # "compute" => out'[b] = out[b]
  /\ IF o.op = "copy" THEN cpy' = [cpy EXCEPT ![o.to]["prev"][o.copy] = out[b]] ELSE cpy' = cpy
  /\ IF o.op = "record" THEN reached' = [reached EXCEPT ![o.event] = o.nth] ELSE reached' = reached
  /\ o.op = "wait" => reached[o.event] >= o.nth
\* A compute of graph g leaves its result.
Delivers(b, g) == Head(stream[b]).op = "compute" /\ Head(stream[b]).graph = g => out'[b] = g

LEMMA DoneTypes ==
  ASSUME Frame, NEW b \in Stages, Done(b)
  PROVE  /\ PipeTypes'
         /\ \A d \in Stages, c \in Copies : cpy'[d]["user"][c] = cpy[d]["user"][c]
         /\ \A d \in Stages, c \in Copies :
              cpy'[d]["prev"][c] = IF Head(stream[b]).op = "copy" /\ d = b + 1 /\ c = Head(stream[b]).copy
                                     THEN out[b] ELSE cpy[d]["prev"][c]
         /\ \A e \in Events : reached'[e] = IF Head(stream[b]).op = "record" /\ e = Head(stream[b]).event
                                            THEN Head(stream[b]).nth ELSE reached[e]
         /\ \A d \in Stages : d # b => out'[d] = out[d] /\ phase'[d] = phase[d]
<1> DEFINE o == Head(stream[b])
<1>1. /\ o.op = "record" => o.event \in Events /\ o.nth \in Nat
      /\ o.op = "copy" => o.copy \in Copies /\ o.to = b + 1 /\ o.to \in Stages
  BY HeadFacts DEF Done
<1>2. /\ stream' \in [Stages -> Seq(StreamOps)] /\ phase' = [phase EXCEPT ![b] = 0]
  BY Pops DEF Frame, Done
<1>3. /\ out \in [Stages -> Int] /\ phase \in [Stages -> 0..2] /\ reached \in [Events -> Nat]
      /\ cpy \in [Stages -> [{"user", "prev"} -> [Copies -> Int]]]
  BY DEF Frame, PipeTypes
<1>4. out' \in [Stages -> Int] /\ \A d \in Stages : d # b => out'[d] = out[d]
  BY <1>3 DEF Done
<1>5. phase' \in [Stages -> 0..2] /\ \A d \in Stages : d # b => phase'[d] = phase[d]
  BY <1>2, <1>3
<1>6. /\ reached' \in [Events -> Nat]
      /\ \A e \in Events : reached'[e] = IF o.op = "record" /\ e = o.event THEN o.nth ELSE reached[e]
  <2>1. CASE o.op = "record"
    <3>1. reached' = [reached EXCEPT ![o.event] = o.nth] /\ o.event \in Events /\ o.nth \in Nat
      BY <1>1, <2>1 DEF Done
    <3> HIDE DEF o
    <3>. QED BY <1>3, <2>1, <3>1
  <2>2. CASE o.op # "record"
    BY <1>3, <2>2 DEF Done
  <2>. QED BY <2>1, <2>2
<1>7. /\ cpy' \in [Stages -> [{"user", "prev"} -> [Copies -> Int]]]
      /\ \A d \in Stages, c \in Copies : cpy'[d]["user"][c] = cpy[d]["user"][c]
      /\ \A d \in Stages, c \in Copies :
           cpy'[d]["prev"][c] = IF o.op = "copy" /\ d = b + 1 /\ c = o.copy THEN out[b] ELSE cpy[d]["prev"][c]
  <2>1. CASE o.op = "copy"
    <3>1. /\ cpy' = [cpy EXCEPT ![o.to]["prev"][o.copy] = out[b]]
          /\ o.to \in Stages /\ o.to = b + 1 /\ o.copy \in Copies
      BY <1>1, <2>1 DEF Done
    <3>2. out[b] \in Int
      BY <1>3
    <3> HIDE DEF o
    <3>3. /\ cpy' \in [Stages -> [{"user", "prev"} -> [Copies -> Int]]]
          /\ cpy'[o.to]["prev"][o.copy] = out[b]
          /\ \A d \in Stages, l \in {"user", "prev"}, e \in Copies :
               d # o.to \/ l # "prev" \/ e # o.copy => cpy'[d][l][e] = cpy[d][l][e]
      BY <1>3, <3>1, <3>2, PutsThere
    <3>. QED BY <2>1, <3>1, <3>3
  <2>2. CASE o.op # "copy"
    BY <1>3, <2>2 DEF Done
  <2>. QED BY <2>1, <2>2
<1>8. UNCHANGED <<machine, graph, split, input, curCopy, nextCopy, isAlloc, recorded>>
  BY DEF Done
<1>9. PipeTypes'
  BY <1>2, <1>4, <1>5, <1>6, <1>7, <1>8, SameMachine DEF Frame, PipeTypes
<1>. QED BY <1>4, <1>5, <1>6, <1>7, <1>9

\* What is left of a stream, at both times.
LEMMA DoneStreams ==
  ASSUME Frame, NEW b \in Stages, Done(b)
  PROVE  /\ 1 \in DOMAIN stream[b] /\ Head(stream[b]) = stream[b][1]
         /\ \A d \in Stages : d # b => stream'[d] = stream[d]
         /\ Len(stream[b]) = Len(stream'[b]) + 1
         /\ \A i \in DOMAIN stream'[b] : i \in Nat \ {0} /\ i + 1 \in DOMAIN stream[b] /\ stream'[b][i] = stream[b][i+1]
         /\ \A i \in DOMAIN stream[b] : i # 1 => i - 1 \in DOMAIN stream'[b] /\ stream[b][i] = stream'[b][i-1]
  BY Pops, StreamFacts DEF Done, Frame

LEMMA DoneEvents ==
  ASSUME Frame, NEW b \in Stages, Done(b) PROVE EventsInv' /\ UserInv'
<1> DEFINE o == Head(stream[b])
<1>1. UNCHANGED <<machine, graph, split, input, curCopy, nextCopy, isAlloc, recorded>>
  BY DEF Done
<1>2. PipeTypes /\ EventsInv /\ UserInv
  BY DEF Frame
<1>3. /\ o.op = "record" => /\ o.event \in Events /\ o.event[1] = b /\ o.nth \in Nat
                           /\ reached[o.event] < o.nth /\ o.nth <= recorded[o.event]
  BY HeadFacts DEF Done
<1>4. \A e \in Events : /\ reached'[e] = IF o.op = "record" /\ e = o.event THEN o.nth ELSE reached[e]
                       /\ reached[e] \in Nat /\ recorded[e] \in Nat
  BY <1>2, DoneTypes DEF PipeTypes
<1> HIDE DEF o
<1>5. \A e \in Events : reached'[e] <= recorded[e]
  BY <1>2, <1>3, <1>4 DEF EventsInv
<1>6. ASSUME NEW d \in Stages, NEW i \in DOMAIN stream'[d]
      PROVE  \E h \in DOMAIN stream[d] :
               /\ stream'[d][i] = stream[d][h]
               /\ h = IF d = b THEN i + 1 ELSE i
  BY DoneStreams
<1>7. ASSUME NEW d \in Stages, NEW i \in DOMAIN stream'[d], stream'[d][i].op = "record"
      PROVE  /\ stream'[d][i].event \in Events /\ stream'[d][i].event[1] = d
             /\ reached'[stream'[d][i].event] < stream'[d][i].nth
             /\ stream'[d][i].nth <= recorded[stream'[d][i].event]
  <2>1. PICK h \in DOMAIN stream[d] : stream'[d][i] = stream[d][h] /\ h = IF d = b THEN i + 1 ELSE i
    BY <1>6
  <2>2. /\ stream[d][h].event \in Events /\ stream[d][h].event[1] = d
        /\ reached[stream[d][h].event] < stream[d][h].nth
        /\ stream[d][h].nth <= recorded[stream[d][h].event]
    BY <1>2, <1>7, <2>1 DEF EventsInv
  <2>3. CASE o.op = "record" /\ stream[d][h].event = o.event
    <3>1. d = b /\ 1 \in DOMAIN stream[b] /\ o = stream[b][1]
      BY <1>3, <2>2, <2>3, DoneStreams DEF o
    <3>2. 1 < h
      BY <2>1, <3>1, DoneStreams
    <3>3. o.nth < stream[d][h].nth
      BY <1>2, <1>7, <2>1, <2>3, <3>1, <3>2 DEF EventsInv
    <3>. QED BY <1>4, <2>1, <2>2, <2>3, <3>3
  <2>4. CASE ~(o.op = "record" /\ stream[d][h].event = o.event)
    <3>1. reached'[stream[d][h].event] = reached[stream[d][h].event]
      BY <1>4, <2>2, <2>4
    <3>. QED BY <2>1, <2>2, <3>1
  <2>. QED BY <2>3, <2>4
<1>8. ASSUME NEW d \in Stages, NEW i \in DOMAIN stream'[d]
      PROVE  /\ stream'[d][i].op = "wait" => stream'[d][i].event \in Events
             /\ stream'[d][i].op = "compute" =>
                  /\ stream'[d][i].copy \in Copies
                  /\ NCopies > 1 => /\ i + 1 \in DOMAIN stream'[d] /\ stream'[d][i+1].op = "record"
                                   /\ stream'[d][i+1].event = <<d, stream'[d][i].copy>>
             /\ stream'[d][i].op = "copy" =>
                  machine.async /\ d < NStages /\ stream'[d][i].to = d + 1 /\ stream'[d][i].copy \in Copies
  <2>1. PICK h \in DOMAIN stream[d] : stream'[d][i] = stream[d][h] /\ h = IF d = b THEN i + 1 ELSE i
    BY <1>6
  <2>2. /\ stream[d][h].op = "wait" => stream[d][h].event \in Events
        /\ stream[d][h].op = "compute" =>
             /\ stream[d][h].copy \in Copies
             /\ NCopies > 1 => /\ h + 1 \in DOMAIN stream[d] /\ stream[d][h+1].op = "record"
                              /\ stream[d][h+1].event = <<d, stream[d][h].copy>>
        /\ stream[d][h].op = "copy" =>
             machine.async /\ d < NStages /\ stream[d][h].to = d + 1 /\ stream[d][h].copy \in Copies
    BY <1>2 DEF EventsInv, IsOp
  <2>3. h + 1 \in DOMAIN stream[d] => i + 1 \in DOMAIN stream'[d] /\ stream'[d][i+1] = stream[d][h+1]
    <3>1. CASE d = b
      <4>1. h = i + 1 /\ i \in Nat \ {0}
        BY <2>1, <3>1, DoneStreams
      <4>2. h + 1 # 1 /\ (h + 1) - 1 = i + 1
        BY <4>1
      <4>. QED BY <3>1, <4>2, DoneStreams
    <3>2. CASE d # b
      BY <2>1, <3>2, DoneStreams
    <3>. QED BY <3>1, <3>2
  <2>. QED BY <2>1, <2>2, <2>3
<1>9. ASSUME NEW d \in Stages, NEW i \in DOMAIN stream'[d], NEW j \in DOMAIN stream'[d]
      PROVE  i < j /\ stream'[d][i].op = "record" /\ stream'[d][j].op = "record"
               /\ stream'[d][i].event = stream'[d][j].event => stream'[d][i].nth < stream'[d][j].nth
  <2>1. PICK h \in DOMAIN stream[d] : stream'[d][i] = stream[d][h] /\ h = IF d = b THEN i + 1 ELSE i
    BY <1>6
  <2>2. PICK l \in DOMAIN stream[d] : stream'[d][j] = stream[d][l] /\ l = IF d = b THEN j + 1 ELSE j
    BY <1>6
  <2>3. i < j => h < l
    BY <2>1, <2>2, DoneStreams
  <2>. QED BY <1>2, <2>1, <2>2, <2>3 DEF EventsInv
<1>10. EventsInv'
  BY <1>1, <1>5, <1>7, <1>8, <1>9, SameMachine DEF EventsInv, IsOp
<1>11. UserInv'
  <2> SUFFICES ASSUME NEW d \in Stages, Takes(d, "user")
               PROVE  /\ \A i \in DOMAIN stream'[d] : stream'[d][i].op = "compute" =>
                           cpy'[d]["user"][stream'[d][i].copy] = stream'[d][i].graph
                      /\ Past(d, "user") => cpy'[d]["user"][curCopy] = graph
    BY <1>1, SameMachine DEF UserInv, Past
  <2>1. \A c \in Copies : cpy'[d]["user"][c] = cpy[d]["user"][c]
    BY DoneTypes
  <2>2. Past(d, "user") => cpy'[d]["user"][curCopy] = graph
    BY <1>2, <2>1 DEF PipeTypes, UserInv
  <2>. QED BY <1>2, <1>6, <1>8, <2>1, <2>2 DEF UserInv
<1>. QED BY <1>10, <1>11

LEMMA DoneYields ==
  ASSUME Frame, NEW b \in Stages, Done(b), NEW d \in Stages,
         NEW i \in DOMAIN stream'[d] \cup {Len(stream'[d]) + 1}, NEW g,
         Delivers(b, g), Yields(d, IF d = b THEN i + 1 ELSE i, g)
  PROVE  Yields(d, i, g)'
<1>1. PipeTypes /\ PipeTypes'
  BY DoneTypes DEF Frame
<1>2. DOMAIN stream'[d] = 1..Len(stream'[d]) /\ Len(stream'[d]) \in Nat
  <2>1. stream'[d] \in Seq(StreamOps)
    BY <1>1 DEF PipeTypes
  <2> HIDE DEF StreamOps
  <2>. QED BY <2>1, Leaves
<1>3. i \in Nat \ {0} /\ \A h \in 1..i-1 : h \in DOMAIN stream'[d]
  BY <1>2
<1>4. CASE d = b
  <2>1. \A h \in 1..i-1 : stream'[b][h] = stream[b][h+1]
    BY <1>3, <1>4, DoneStreams
  <2>2. IF stream[b][1].op = "compute" THEN stream[b][1].graph = g => out'[b] = g ELSE out'[b] = out[b]
    BY DoneStreams DEF Done, Delivers
  <2>3. Yields(b, i + 1, g)
    BY <1>4
  <2>. QED BY <1>3, <1>4, <2>1, <2>2, <2>3, YieldsNext
<1>5. CASE d # b
  <2>1. stream'[d] = stream[d] /\ out'[d] = out[d] /\ Yields(d, i, g)
    BY <1>5, DoneStreams, DoneTypes
  <2>. QED BY <1>3, <2>1, YieldsStays
<1>. QED BY <1>4, <1>5

\* The wait for a queued copy does not end before the copy's record is reached.
LEMMA DoneAwaited ==
  ASSUME Frame, NEW b \in Stages, Done(b), NEW d \in Stages, d + 1 \in Stages,
         NEW h \in DOMAIN stream[d], NEW w \in DOMAIN stream[d+1], AwaitedAt(d, h, w), d = b => h # 1
  PROVE  \E i \in DOMAIN stream'[d], v \in DOMAIN stream'[d+1] :
           /\ stream'[d][i] = stream[d][h] /\ h = IF d = b THEN i + 1 ELSE i
           /\ stream'[d+1][v] = stream[d+1][w] /\ w = IF d + 1 = b THEN v + 1 ELSE v
           /\ AwaitedAt(d, i, v)'
<1> DEFINE o == Head(stream[b])
<1>1. \A e \in Stages : DOMAIN stream[e] = 1..Len(stream[e]) /\ Len(stream[e]) \in Nat
  BY StreamFacts DEF Frame
<1>2. h \in Nat \ {0} /\ w \in Nat \ {0}
  BY <1>1
<1>3. ASSUME NEW e \in Stages, NEW k \in DOMAIN stream[e], e = b => k # 1
      PROVE  \E i \in DOMAIN stream'[e] : stream'[e][i] = stream[e][k] /\ k = IF e = b THEN i + 1 ELSE i
  <2>1. CASE e = b
    <3>1. k - 1 \in DOMAIN stream'[e] /\ stream'[e][k-1] = stream[e][k] /\ k \in Nat /\ (k - 1) + 1 = k
      BY <1>1, <1>3, <2>1, DoneStreams
    <3>. QED BY <2>1, <3>1
  <2>2. CASE e # b
    BY <2>2, DoneStreams
  <2>. QED BY <2>1, <2>2
<1>4. d + 1 = b => w # 1
  <2> SUFFICES ASSUME d + 1 = b, w = 1 PROVE FALSE
    OBVIOUS
  <2>1. /\ h + 1 \in DOMAIN stream[d] /\ stream[d][h+1].op = "record" /\ stream[d][h+1].event = <<d, 0>>
        /\ o.op = "wait" /\ o.event = <<d, 0>> /\ o.nth = stream[d][h+1].nth
    BY DoneStreams DEF AwaitedAt, IsOp
  <2>2. reached[<<d, 0>>] < o.nth
    BY <2>1 DEF Frame, EventsInv
  <2>3. reached[<<d, 0>>] >= o.nth
    BY <2>1 DEF Done
  <2>4. reached[<<d, 0>>] \in Nat /\ o.nth \in Nat
    <3>1. <<d, 0>> \in Events
      BY <2>1 DEF Frame, EventsInv
    <3>2. o.nth \in Nat
      BY <2>1, HeadFacts DEF Done
    <3>. QED BY <3>1, <3>2 DEF Frame, PipeTypes
  <2>. QED BY <2>2, <2>3, <2>4
<1>5. PICK i \in DOMAIN stream'[d] : stream'[d][i] = stream[d][h] /\ h = IF d = b THEN i + 1 ELSE i
  BY <1>3
<1>6. PICK v \in DOMAIN stream'[d+1] : stream'[d+1][v] = stream[d+1][w] /\ w = IF d + 1 = b THEN v + 1 ELSE v
  BY <1>3, <1>4
<1>7. i + 1 \in DOMAIN stream'[d] /\ stream'[d][i+1] = stream[d][h+1]
  <2>1. h + 1 \in DOMAIN stream[d] /\ h + 1 # 1
    BY <1>2 DEF AwaitedAt, IsOp
  <2>2. PICK l \in DOMAIN stream'[d] : stream'[d][l] = stream[d][h+1] /\ h + 1 = IF d = b THEN l + 1 ELSE l
    BY <1>3, <2>1
  <2>3. i \in Int /\ l \in Int
    BY <1>2, <1>5, <2>2, DoneStreams
  <2>4. l = i + 1
    BY <1>2, <1>5, <2>2, <2>3
  <2>. QED BY <2>2, <2>4
<1>8. AwaitedAt(d, i, v)'
  BY <1>6, <1>7 DEF AwaitedAt, IsOp
<1>. QED BY <1>5, <1>6, <1>8

\* The end of a compute, of a copy, an event reached and a wait.
LEMMA EndsAreDone ==
  ASSUME Frame, NEW b \in Stages, EndCompute(b) \/ EndCopy(b) \/ Reach(b) \/ Pass(b)
  PROVE  LET o == Head(stream[b]) IN
         /\ Done(b)
         /\ o.op = "compute" => phase[b] = 2
         /\ o.op = "compute" /\ InputsAre(b, o.copy, o.graph) /\ out[b] = o.graph => out'[b] = o.graph
<1> USE DEF hostVars
<1> DEFINE o == Head(stream[b])
<1>1. out \in [Stages -> Int] /\ out[b] \in Int /\ Torn \in Int
  BY DEF Frame, PipeTypes, Torn
<1>2. CASE EndCompute(b)
  <2>1. PICK v \in Int : v = ResultOf(b, o, out[b])
    BY <1>1 DEF ResultOf
  <2>2. out' = [out EXCEPT ![b] = v]
    BY <1>2, <2>1 DEF EndCompute
  <2>3. InputsAre(b, o.copy, o.graph) => v = out[b]
    BY <2>1 DEF ResultOf
  <2>4. Done(b)
    BY <1>2, <2>2 DEF Done, EndCompute, HeadIs
  <2>. QED BY <1>1, <1>2, <2>2, <2>3, <2>4 DEF EndCompute
<1>3. out' = out => \E v \in Int : out' = [out EXCEPT ![b] = v]
  <2>1. out = [out EXCEPT ![b] = out[b]]
    BY <1>1
  <2>. QED BY <1>1, <2>1, Zenon
<1>4. CASE EndCopy(b)
  BY <1>3, <1>4 DEF Done, EndCopy, HeadIs, Put
<1>5. CASE Reach(b)
  BY <1>3, <1>5 DEF Done, Reach, HeadIs
<1>6. CASE Pass(b)
  BY <1>3, <1>6 DEF Done, Pass, HeadIs
<1>. QED BY <1>2, <1>4, <1>5, <1>6

LEMMA StreamsFrame == ASSUME Frame, NEW b \in Stages, Runs(b) PROVE Frame'
<1> DEFINE o == Head(stream[b])
<1>1. \A d \in Stages : \A i \in DOMAIN stream[d] : stream[d][i].op = "compute" => stream[d][i].copy \in Copies
  BY DEF Frame, EventsInv
<1>2. curCopy \in Copies
  BY DEF Frame, PipeTypes
<1>3. CASE StartCompute(b) \/ FirstLayer(b)
  <2>1. /\ UNCHANGED <<machine, graph, split, input, curCopy, nextCopy, isAlloc, stream, recorded, reached, cpy>>
        /\ out' \in [Stages -> Int] /\ phase' \in [Stages -> 0..2]
    BY <1>3, ComputingFacts
  <2>2. PipeTypes'
    BY <2>1, SameMachine DEF Frame, PipeTypes
  <2>3. EventsInv'
    BY <2>1, SameMachine DEF Frame, EventsInv, IsOp
  <2>4. UserInv'
    BY <2>1, SameMachine DEF Frame, UserInv, Past
  <2>. QED BY <2>2, <2>3, <2>4 DEF Frame
<1>4. CASE StartCopy(b)
  <2>1. /\ UNCHANGED <<machine, graph, split, input, curCopy, nextCopy, isAlloc, stream, recorded, reached, out>>
        /\ phase' = [phase EXCEPT ![b] = 1]
        /\ \A d \in Stages, c \in Copies : cpy'[d]["user"][c] = cpy[d]["user"][c]
        /\ cpy' \in [Stages -> [{"user", "prev"} -> [Copies -> Int]]]
    BY <1>4, StartCopyFacts
  <2>2. phase' \in [Stages -> 0..2]
    BY <2>1 DEF Frame, PipeTypes
  <2>3. PipeTypes'
    BY <2>1, <2>2, SameMachine DEF Frame, PipeTypes
  <2>4. EventsInv'
    BY <2>1, SameMachine DEF Frame, EventsInv, IsOp
  <2>5. UserInv'
    <3> SUFFICES ASSUME NEW d \in Stages, Takes(d, "user")
                 PROVE  /\ \A i \in DOMAIN stream[d] : stream[d][i].op = "compute" =>
                             cpy'[d]["user"][stream[d][i].copy] = stream[d][i].graph
                        /\ Past(d, "user") => cpy'[d]["user"][curCopy] = graph
      BY <2>1, SameMachine DEF UserInv, Past
    <3>. QED BY <1>1, <1>2, <2>1 DEF Frame, UserInv
  <2>. QED BY <2>3, <2>4, <2>5 DEF Frame
<1>5. CASE EndCompute(b) \/ EndCopy(b) \/ Reach(b) \/ Pass(b)
  BY <1>5, EndsAreDone, DoneTypes, DoneEvents DEF Frame
<1>. QED BY <1>3, <1>4, <1>5 DEF Runs

-----------------------------------------------------------------------------
(* The host, on every machine                                              *)

\* What is copied at the place that the host is at.
LEMMA AtInputFacts ==
  ASSUME Frame, NEW k \in {"user", "prev"}, AtInput(k)
  PROVE  /\ split \in Stages /\ Takes(split, k) /\ ~Past(split, k)
         /\ input = 1 => InputsOf(split)[1] = k
<1>1. split \in Stages /\ input \in Nat \ {0}
  BY DEF Frame, PipeTypes, AtInput, Stages
<1>2. /\ DOMAIN InputsOf(split) = 1..Len(InputsOf(split)) /\ Len(InputsOf(split)) \in {1, 2}
      /\ \A p, r \in DOMAIN InputsOf(split) : InputsOf(split)[p] = InputsOf(split)[r] => p = r
  BY <1>1, MachineFacts, InputsShape DEF Frame
<1>3. input \in DOMAIN InputsOf(split) /\ InputsOf(split)[input] = k
  BY <1>1, <1>2 DEF AtInput
<1>4. ~Past(split, k)
  BY <1>1, <1>2, <1>3 DEF Past
<1>. QED BY <1>1, <1>3, <1>4 DEF Takes

\* After it, this input is past, and no other that was not.
LEMMA InputMoves ==
  ASSUME Frame, NEW k \in {"user", "prev"}, AtInput(k), NextInput
  PROVE  /\ \A b \in Stages, l \in {"user", "prev"} : Past(b, l)' <=> Past(b, l) \/ (b = split /\ l = k)
         /\ input' \in Nat \ {0}
         /\ UNCHANGED <<machine, graph, split, curCopy, nextCopy, isAlloc>>
<1>1. split \in Stages /\ input \in Nat \ {0} /\ input' = input + 1
  BY DEF Frame, PipeTypes, AtInput, Stages, NextInput
<1>2. \A b \in Stages : /\ DOMAIN InputsOf(b) = 1..Len(InputsOf(b)) /\ Len(InputsOf(b)) \in {1, 2}
                       /\ \A p, r \in DOMAIN InputsOf(b) : InputsOf(b)[p] = InputsOf(b)[r] => p = r
  BY MachineFacts, InputsShape DEF Frame
<1>3. input \in DOMAIN InputsOf(split) /\ InputsOf(split)[input] = k
  BY <1>1, <1>2 DEF AtInput
<1>4. UNCHANGED <<machine, graph, split, curCopy, nextCopy, isAlloc>>
  BY DEF NextInput
<1>5. \A b \in Stages : InputsOf(b)' = InputsOf(b)
  BY <1>4, SameMachine
<1>6. ASSUME NEW b \in Stages, NEW l \in {"user", "prev"}
      PROVE  Past(b, l)' <=> Past(b, l) \/ (b = split /\ l = k)
  <2>1. Past(b, l)' <=> split = b /\ \E p \in DOMAIN InputsOf(b) : p < input + 1 /\ InputsOf(b)[p] = l
    BY <1>1, <1>4, <1>5 DEF Past
  <2>2. \A p \in DOMAIN InputsOf(b) : p < input + 1 <=> p < input \/ p = input
    BY <1>1, <1>2
  <2>. QED BY <1>3, <2>1, <2>2 DEF Past
<1>. QED BY <1>1, <1>4, <1>6

\* A copy of the inputs is free when no graph that uses it is queued.
LEMMA FreeMeansNone ==
  ASSUME Frame, split \in Stages, Free(split) PROVE NoneWith(split, curCopy)
<1>1. CASE Drained(split)
  BY <1>1 DEF Drained, NoneWith
<1>2. CASE NCopies > 1 /\ Ready(<<split, curCopy>>)
  <2> SUFFICES ASSUME NEW i \in DOMAIN stream[split], stream[split][i].op = "compute",
                      stream[split][i].copy = curCopy
               PROVE  FALSE
    BY DEF NoneWith
  <2>1. /\ i + 1 \in DOMAIN stream[split] /\ stream[split][i+1].op = "record"
        /\ stream[split][i+1].event = <<split, curCopy>>
    BY <1>2 DEF Frame, EventsInv, IsOp
  <2>2. /\ <<split, curCopy>> \in Events
        /\ reached[<<split, curCopy>>] < stream[split][i+1].nth
        /\ stream[split][i+1].nth <= recorded[<<split, curCopy>>]
    BY <2>1 DEF Frame, EventsInv
  <2>3. /\ reached[<<split, curCopy>>] \in Nat /\ recorded[<<split, curCopy>>] \in Nat
        /\ reached[<<split, curCopy>>] = recorded[<<split, curCopy>>]
    BY <1>2, <2>2 DEF Frame, PipeTypes, Ready
  <2>4. stream[split][i+1].nth \in Nat
    <3>1. stream[split][i+1] \in StreamOps
      <4>1. stream[split] \in Seq(StreamOps)
        BY StreamFacts DEF Frame
      <4> HIDE DEF StreamOps
      <4>. QED BY <2>1, <4>1
    <3>. QED BY <2>1, <3>1 DEF StreamOps
  <2>. QED BY <2>2, <2>3, <2>4
<1>. QED BY <1>1, <1>2 DEF Free

\* The host only puts operations at the end of the streams.
Adds ==
  \A b \in Stages :
    /\ stream'[b] \in Seq(StreamOps) /\ Len(stream[b]) <= Len(stream'[b])
    /\ \A i \in DOMAIN stream[b] : stream'[b][i] = stream[b][i]

LEMMA AddsFacts ==
  ASSUME Frame, Adds, NEW b \in Stages
  PROVE  /\ Len(stream[b]) \in Nat /\ Len(stream'[b]) \in Nat /\ Len(stream[b]) <= Len(stream'[b])
         /\ DOMAIN stream[b] = 1..Len(stream[b]) /\ DOMAIN stream'[b] = 1..Len(stream'[b])
         /\ \A i \in DOMAIN stream[b] : i \in DOMAIN stream'[b] /\ stream'[b][i] = stream[b][i]
<1>1. stream[b] \in Seq(StreamOps) /\ stream'[b] \in Seq(StreamOps) /\ Len(stream[b]) <= Len(stream'[b])
  BY StreamFacts DEF Frame, Adds
<1>2. \A i \in DOMAIN stream[b] : stream'[b][i] = stream[b][i]
  BY DEF Adds
<1> HIDE DEF StreamOps
<1>3. /\ Len(stream[b]) \in Nat /\ Len(stream'[b]) \in Nat
      /\ DOMAIN stream[b] = 1..Len(stream[b]) /\ DOMAIN stream'[b] = 1..Len(stream'[b])
  BY <1>1
<1>. QED BY <1>1, <1>2, <1>3

\* t is what is put at the end of one stream.
LEMMA Put1 ==
  ASSUME Frame, NEW b \in Stages, NEW t \in Seq(StreamOps), stream'[b] = stream[b] \o t
  PROVE  /\ stream'[b] \in Seq(StreamOps) /\ Len(stream'[b]) = Len(stream[b]) + Len(t) /\ Len(t) \in Nat
         /\ \A i \in DOMAIN stream[b] : stream'[b][i] = stream[b][i]
         /\ \A i \in 1..Len(t) : stream'[b][Len(stream[b]) + i] = t[i]
<1>1. PICK s \in Seq(StreamOps) : s = stream[b]
  <2>1. stream[b] \in Seq(StreamOps)
    BY DEF Frame, PipeTypes
  <2>. QED BY <2>1
<1>2. stream'[b] = s \o t
  BY <1>1
<1> HIDE DEF StreamOps
<1>. QED BY <1>1, <1>2, Extended

LEMMA AddsEvents ==
  ASSUME Frame, Adds, machine' = machine, reached' = reached,
         \A e \in Events : recorded[e] <= recorded'[e] /\ recorded'[e] \in Nat,
         \A b \in Stages : \A i \in DOMAIN stream'[b] : i > Len(stream[b]) =>
           /\ stream'[b][i].op = "record" =>
                /\ stream'[b][i].event \in Events /\ stream'[b][i].event[1] = b
                /\ recorded[stream'[b][i].event] < stream'[b][i].nth
                /\ stream'[b][i].nth <= recorded'[stream'[b][i].event]
           /\ stream'[b][i].op = "wait" => stream'[b][i].event \in Events
           /\ stream'[b][i].op = "compute" =>
                /\ stream'[b][i].copy \in Copies
                /\ NCopies > 1 => i + 1 \in DOMAIN stream'[b] /\ stream'[b][i+1].op = "record"
                                  /\ stream'[b][i+1].event = <<b, stream'[b][i].copy>>
           /\ stream'[b][i].op = "copy" =>
                /\ machine.async /\ b < NStages /\ stream'[b][i].to = b + 1 /\ stream'[b][i].copy \in Copies,
         \A b \in Stages : \A i, j \in DOMAIN stream'[b] :
           i > Len(stream[b]) /\ j > Len(stream[b]) /\ stream'[b][i].op = "record" /\ stream'[b][j].op = "record" => i = j
  PROVE  EventsInv'
<1>1. EventsInv /\ PipeTypes
  BY DEF Frame
<1>2. \A e \in Events : /\ reached[e] \in Nat /\ recorded[e] \in Nat /\ recorded'[e] \in Nat
                       /\ recorded[e] <= recorded'[e] /\ reached'[e] = reached[e] /\ reached[e] <= recorded[e]
  BY <1>1 DEF PipeTypes, EventsInv
<1>3. \A b \in Stages : \A i \in DOMAIN stream'[b] :
        stream'[b][i].op = "record" => stream'[b][i].nth \in Nat
  <2> SUFFICES ASSUME NEW b \in Stages, NEW i \in DOMAIN stream'[b], stream'[b][i].op = "record"
               PROVE  stream'[b][i].nth \in Nat
    OBVIOUS
  <2>1. stream'[b][i] \in StreamOps
    <3>1. stream'[b] \in Seq(StreamOps)
      BY DEF Adds
    <3> HIDE DEF StreamOps
    <3>. QED BY <3>1
  <2>. QED BY <2>1 DEF StreamOps
<1>5. ASSUME NEW b \in Stages, NEW i \in DOMAIN stream'[b]
      PROVE  /\ stream'[b][i].op = "record" =>
                  /\ stream'[b][i].event \in Events /\ stream'[b][i].event[1] = b
                  /\ reached[stream'[b][i].event] < stream'[b][i].nth
                  /\ stream'[b][i].nth <= recorded'[stream'[b][i].event]
             /\ stream'[b][i].op = "wait" => stream'[b][i].event \in Events
             /\ stream'[b][i].op = "compute" =>
                  /\ stream'[b][i].copy \in Copies
                  /\ NCopies > 1 => i + 1 \in DOMAIN stream'[b] /\ stream'[b][i+1].op = "record"
                                    /\ stream'[b][i+1].event = <<b, stream'[b][i].copy>>
             /\ stream'[b][i].op = "copy" =>
                  machine.async /\ b < NStages /\ stream'[b][i].to = b + 1 /\ stream'[b][i].copy \in Copies
  <2>1. CASE i \in DOMAIN stream[b]
    <3>1. stream'[b][i] = stream[b][i]
      BY <2>1, AddsFacts
    <3>2. i + 1 \in DOMAIN stream[b] => i + 1 \in DOMAIN stream'[b] /\ stream'[b][i+1] = stream[b][i+1]
      BY AddsFacts
    <3>3. ASSUME stream[b][i].op = "record"
          PROVE  /\ stream[b][i].event \in Events /\ stream[b][i].event[1] = b
                 /\ reached[stream[b][i].event] < stream[b][i].nth
                 /\ stream[b][i].nth <= recorded'[stream[b][i].event]
      <4>1. /\ stream[b][i].event \in Events /\ stream[b][i].event[1] = b
            /\ reached[stream[b][i].event] < stream[b][i].nth
            /\ stream[b][i].nth <= recorded[stream[b][i].event]
        BY <1>1, <2>1, <3>3 DEF EventsInv
      <4>2. stream[b][i].nth \in Nat
        BY <1>3, <3>1, <3>3
      <4>. QED BY <1>2, <4>1, <4>2
    <3>4. /\ stream[b][i].op = "wait" => stream[b][i].event \in Events
          /\ stream[b][i].op = "compute" =>
               /\ stream[b][i].copy \in Copies
               /\ NCopies > 1 => i + 1 \in DOMAIN stream[b] /\ stream[b][i+1].op = "record"
                                 /\ stream[b][i+1].event = <<b, stream[b][i].copy>>
          /\ stream[b][i].op = "copy" =>
               machine.async /\ b < NStages /\ stream[b][i].to = b + 1 /\ stream[b][i].copy \in Copies
      BY <1>1, <2>1 DEF EventsInv, IsOp
    <3>. QED BY <3>1, <3>2, <3>3, <3>4
  <2>2. CASE i \notin DOMAIN stream[b]
    <3>1. i > Len(stream[b])
      BY <2>2, AddsFacts
    <3>2. ASSUME stream'[b][i].op = "record" PROVE reached[stream'[b][i].event] < stream'[b][i].nth
      <4>1. stream'[b][i].event \in Events /\ recorded[stream'[b][i].event] < stream'[b][i].nth
        BY <3>1, <3>2
      <4>. QED BY <1>2, <1>3, <3>2, <4>1
    <3>. QED BY <3>1, <3>2
  <2>. QED BY <2>1, <2>2
<1>6. ASSUME NEW b \in Stages, NEW i \in DOMAIN stream'[b], NEW j \in DOMAIN stream'[b], i < j,
             stream'[b][i].op = "record", stream'[b][j].op = "record", stream'[b][i].event = stream'[b][j].event
      PROVE  stream'[b][i].nth < stream'[b][j].nth
  <2>1. CASE j \in DOMAIN stream[b]
    <3>1. i \in DOMAIN stream[b]
      BY <1>6, <2>1, AddsFacts
    <3>2. stream'[b][i] = stream[b][i] /\ stream'[b][j] = stream[b][j]
      BY <2>1, <3>1, AddsFacts
    <3>. QED BY <1>1, <1>6, <2>1, <3>1, <3>2 DEF EventsInv
  <2>2. CASE j \notin DOMAIN stream[b]
    <3>1. j > Len(stream[b])
      BY <2>2, AddsFacts
    <3>2. i \in DOMAIN stream[b]
      <4>1. ~(i > Len(stream[b]))
        BY <1>6, <3>1, AddsFacts
      <4>. QED BY <4>1, AddsFacts
    <3>3. stream'[b][i] = stream[b][i]
      BY <3>2, AddsFacts
    <3>4. stream[b][i].nth <= recorded[stream[b][i].event] /\ stream[b][i].event \in Events
      BY <1>1, <1>6, <3>2, <3>3 DEF EventsInv
    <3>5. recorded[stream'[b][j].event] < stream'[b][j].nth
      BY <1>6, <3>1
    <3>6. stream'[b][i].nth \in Nat /\ stream'[b][j].nth \in Nat /\ recorded[stream[b][i].event] \in Nat
      BY <1>2, <1>3, <1>6, <3>4
    <3>. QED BY <1>6, <3>3, <3>4, <3>5, <3>6
  <2>. QED BY <2>1, <2>2
<1>7. \A e \in Events : reached'[e] <= recorded'[e]
  BY <1>2
<1>. QED BY <1>5, <1>6, <1>7, SameMachine DEF EventsInv, IsOp

LEMMA AddsYields ==
  ASSUME Frame, Adds, out' = out, NEW b \in Stages, NEW j \in 1..Len(stream[b]) + 1, NEW g, Yields(b, j, g)
  PROVE  Yields(b, j, g)'
<1>1. j \in Nat \ {0} /\ \A h \in 1..j-1 : h \in DOMAIN stream[b]
  BY AddsFacts
<1>2. \A h \in 1..j-1 : stream'[b][h] = stream[b][h]
  BY <1>1, AddsFacts
<1>. QED BY <1>1, <1>2, YieldsStays

\* Where no compute is added, the last output stays.
LEMMA AddsLast ==
  ASSUME Frame, Adds, out' = out, NEW b \in Stages, NEW g, Yields(b, Len(stream[b]) + 1, g),
         \A i \in DOMAIN stream'[b] : i > Len(stream[b]) => stream'[b][i].op # "compute"
  PROVE  Yields(b, Len(stream[b]) + 1, g)'
<1> DEFINE n == Len(stream[b])
           m == Len(stream'[b])
<1>1. n \in Nat /\ m \in Nat /\ n <= m /\ DOMAIN stream'[b] = 1..m /\ DOMAIN stream[b] = 1..n
  BY AddsFacts
<1>2. (n + 1) - 1 = n /\ (m + 1) - 1 = m
  BY <1>1
<1>3. \A h \in 1..n : h \in 1..m /\ stream'[b][h] = stream[b][h]
  BY <1>1, AddsFacts
<1>4. \A h \in 1..m : h \in 1..n \/ stream'[b][h].op # "compute"
  BY <1>1
<1> HIDE DEF n, m
<1>5. CASE \E i \in 1..n : /\ stream[b][i].op = "compute" /\ stream[b][i].graph = g
                          /\ \A h \in i+1..n : stream[b][h].op # "compute"
  <2>1. PICK i \in 1..n : /\ stream[b][i].op = "compute" /\ stream[b][i].graph = g
                         /\ \A h \in i+1..n : stream[b][h].op # "compute"
    BY <1>5
  <2>2. \A h \in i+1..m : h \in 1..m /\ (h \in 1..n => h \in i+1..n)
    BY <1>1, <2>1
  <2>3. \A h \in i+1..m : stream'[b][h].op # "compute"
    BY <1>3, <1>4, <2>1, <2>2
  <2>4. \E l \in 1..m : /\ stream'[b][l].op = "compute" /\ stream'[b][l].graph = g
                       /\ \A h \in l+1..m : stream'[b][h].op # "compute"
    BY <1>3, <2>1, <2>3
  <2>. QED BY <1>2, <2>4 DEF Yields, m
<1>6. CASE out[b] = g /\ \A h \in 1..n : stream[b][h].op # "compute"
  <2>1. out'[b] = g /\ \A h \in 1..m : stream'[b][h].op # "compute"
    BY <1>3, <1>4, <1>6
  <2>. QED BY <1>2, <2>1 DEF Yields, m
<1>7. Yields(b, n + 1, g)
  BY DEF n
<1>. QED BY <1>2, <1>5, <1>6, <1>7 DEF Yields

LEMMA WorkOps ==
  ASSUME NEW g \in Nat, NEW c \in Nat, NEW b \in Nat
  PROVE  /\ Compute(g, c) \in StreamOps /\ Compute(g, c).op = "compute"
         /\ Compute(g, c).graph = g /\ Compute(g, c).copy = c
         /\ CopyTo(b, c) \in StreamOps /\ CopyTo(b, c).op = "copy" /\ CopyTo(b, c).to = b /\ CopyTo(b, c).copy = c
<1>1. Compute(g, c) \in StreamOps /\ CopyTo(b, c) \in StreamOps
  BY DEF Compute, CopyTo, StreamOps
<1>. QED BY <1>1 DEF Compute, CopyTo

LEMMA EventOps ==
  ASSUME NEW e \in Nat \X Nat, NEW n \in Nat
  PROVE  /\ Record(e, n) \in StreamOps /\ Record(e, n).op = "record" /\ Record(e, n).event = e /\ Record(e, n).nth = n
         /\ Await(e, n) \in StreamOps /\ Await(e, n).op = "wait" /\ Await(e, n).event = e /\ Await(e, n).nth = n
<1>1. Record(e, n) \in StreamOps
  BY DEF Record, StreamOps
<1>2. Await(e, n) \in StreamOps
  BY DEF Await, StreamOps
<1>. QED BY <1>1, <1>2 DEF Record, Await

LEMMA OneOp ==
  ASSUME NEW o \in StreamOps
  PROVE  <<o>> \in Seq(StreamOps) /\ Len(<<o>>) = 1 /\ <<o>>[1] = o /\ \A i \in 1..Len(<<o>>) : <<o>>[i] = o
<1> HIDE DEF StreamOps
<1>. QED OBVIOUS

LEMMA TwoOps ==
  ASSUME NEW o \in StreamOps, NEW r \in StreamOps
  PROVE  <<o, r>> \in Seq(StreamOps) /\ Len(<<o, r>>) = 2 /\ <<o, r>>[1] = o /\ <<o, r>>[2] = r
<1> HIDE DEF StreamOps
<1>. QED OBVIOUS

\* Where the host is.
LEMMA AtSplit ==
  ASSUME PipeTypes, split \in Stages
  PROVE  /\ split \in Nat \ {0} /\ curCopy \in Nat \ {0} /\ curCopy \in Copies /\ NCopies \in Nat
         /\ <<split, curCopy>> \in Events /\ <<split, curCopy>> \in Nat \X Nat
         /\ recorded[<<split, curCopy>>] \in Nat
<1>1. split \in Nat \ {0} /\ NCopies \in Nat
  BY MachineFacts DEF Stages
<1>2. curCopy \in Copies
  BY DEF PipeTypes
<1>3. curCopy \in Nat \ {0} /\ curCopy \in 0..NCopies
  BY <1>1, <1>2 DEF Copies
<1>4. <<split, curCopy>> \in Events
  BY <1>3 DEF Events
<1>. QED BY <1>1, <1>2, <1>3, <1>4 DEF PipeTypes

LEMMA EventWaits ==
  ASSUME PipeTypes, split \in Stages
  PROVE  /\ EventWait(split) \in Seq(StreamOps)
         /\ \A i \in 1..Len(EventWait(split)) :
              EventWait(split)[i].op = "wait" /\ EventWait(split)[i].event \in Events
<1> DEFINE o == Await(<<split, curCopy>>, recorded[<<split, curCopy>>])
<1>1. o \in StreamOps /\ o.op = "wait" /\ o.event = <<split, curCopy>> /\ <<split, curCopy>> \in Events
  <2>1. PICK e \in Nat \X Nat, n \in Nat :
          e = <<split, curCopy>> /\ n = recorded[<<split, curCopy>>] /\ <<split, curCopy>> \in Events
    BY AtSplit
  <2>2. Await(e, n) \in StreamOps /\ Await(e, n).op = "wait" /\ Await(e, n).event = e
    <3> HIDE DEF StreamOps
    <3>. QED BY <2>1, EventOps
  <2> HIDE DEF StreamOps
  <2>. QED BY <2>1, <2>2
<1>2. EventWait(split) = <<o>> \/ EventWait(split) = <<>>
  BY DEF EventWait
<1> HIDE DEF StreamOps, o
<1>3. <<>> \in Seq(StreamOps) /\ Len(<<>>) = 0
  OBVIOUS
<1>4. CASE EventWait(split) = <<o>>
  BY <1>1, <1>4, OneOp
<1>5. CASE EventWait(split) = <<>>
  BY <1>3, <1>5
<1>. QED BY <1>2, <1>4, <1>5

\* The host adds to the stream of the split that it is at, and to no other.
PutsAtSplit(t) == stream' = [stream EXCEPT ![split] = @ \o t]

LEMMA AddsAtSplit ==
  ASSUME Frame, split \in Stages, NEW t \in Seq(StreamOps), PutsAtSplit(t)
  PROVE  /\ Adds /\ stream' \in [Stages -> Seq(StreamOps)]
         /\ \A b \in Stages : b # split => stream'[b] = stream[b]
         /\ Len(stream'[split]) = Len(stream[split]) + Len(t)
         /\ \A i \in 1..Len(t) : stream'[split][Len(stream[split]) + i] = t[i]
         /\ \A b \in Stages : \A i \in DOMAIN stream'[b] :
              i > Len(stream[b]) => b = split /\ i - Len(stream[b]) \in 1..Len(t) /\ stream'[b][i] = t[i - Len(stream[b])]
<1>1. stream \in [Stages -> Seq(StreamOps)]
  BY DEF Frame, PipeTypes
<1> HIDE DEF StreamOps
<1>2. stream' = [stream EXCEPT ![split] = stream[split] \o t]
  BY DEF PutsAtSplit
<1>3. stream'[split] = stream[split] \o t /\ \A b \in Stages : b # split => stream'[b] = stream[b]
  BY <1>1, <1>2
<1>4. /\ stream'[split] \in Seq(StreamOps) /\ Len(stream'[split]) = Len(stream[split]) + Len(t) /\ Len(t) \in Nat
      /\ \A i \in DOMAIN stream[split] : stream'[split][i] = stream[split][i]
      /\ \A i \in 1..Len(t) : stream'[split][Len(stream[split]) + i] = t[i]
  BY <1>3, Put1
<1>5. \A b \in Stages : stream[b] \in Seq(StreamOps) /\ Len(stream[b]) \in Nat /\ DOMAIN stream[b] = 1..Len(stream[b])
  BY StreamFacts DEF Frame
<1>6. Adds
  <2> SUFFICES ASSUME NEW b \in Stages
               PROVE  /\ stream'[b] \in Seq(StreamOps) /\ Len(stream[b]) <= Len(stream'[b])
                      /\ \A i \in DOMAIN stream[b] : stream'[b][i] = stream[b][i]
    BY DEF Adds
  <2>1. CASE b = split
    <3>1. Len(stream[b]) <= Len(stream'[b])
      BY <1>4, <1>5, <2>1
    <3>. QED BY <1>4, <2>1, <3>1
  <2>2. CASE b # split
    BY <1>3, <1>5, <2>2
  <2>. QED BY <2>1, <2>2
<1>7. stream' \in [Stages -> Seq(StreamOps)]
  <2>1. stream[split] \o t \in Seq(StreamOps)
    BY <1>3, <1>4
  <2>. QED BY <1>1, <1>2, <2>1
<1>8. ASSUME NEW b \in Stages, NEW i \in DOMAIN stream'[b], i > Len(stream[b])
      PROVE  b = split /\ i - Len(stream[b]) \in 1..Len(t) /\ stream'[b][i] = t[i - Len(stream[b])]
  <2>1. b = split
    BY <1>3, <1>5, <1>8
  <2>2. DOMAIN stream'[split] = 1..Len(stream'[split])
    BY <1>4
  <2>3. i - Len(stream[split]) \in 1..Len(t) /\ Len(stream[split]) + (i - Len(stream[split])) = i
    BY <1>4, <1>5, <1>8, <2>1, <2>2
  <2>. QED BY <1>4, <2>1, <2>3
<1>. QED BY <1>3, <1>4, <1>6, <1>7, <1>8

\* An input is copied, or its copy queued; nothing is computed yet.
LEMMA NothingQueued ==
  ASSUME Frame, Adds, NEW k \in {"user", "prev"}, AtInput(k), NextInput,
         \A b \in Stages : \A i \in DOMAIN stream'[b] : i > Len(stream[b]) => stream'[b][i].op # "compute"
  PROVE  /\ \A b \in Stages : \A i \in DOMAIN stream'[b] : stream'[b][i].op = "compute" =>
              i \in DOMAIN stream[b] /\ stream'[b][i] = stream[b][i] /\ stream[b][i].copy \in Copies
         /\ curCopy \in Copies /\ UNCHANGED <<machine, graph, split, curCopy>>
<1>1. ASSUME NEW b \in Stages, NEW i \in DOMAIN stream'[b], stream'[b][i].op = "compute"
      PROVE  i \in DOMAIN stream[b] /\ stream'[b][i] = stream[b][i] /\ stream[b][i].copy \in Copies
  <2>1. i \in DOMAIN stream[b] /\ stream'[b][i] = stream[b][i]
    BY <1>1, AddsFacts
  <2>. QED BY <1>1, <2>1 DEF Frame, EventsInv
<1>. QED BY <1>1, InputMoves DEF Frame, PipeTypes

\* An activation is copied, or its copy queued: the inputs of the user stay.
LEMMA UserStays ==
  ASSUME Frame, Adds, AtInput("prev"), NextInput,
         \A b \in Stages : \A i \in DOMAIN stream'[b] : i > Len(stream[b]) => stream'[b][i].op # "compute",
         \A b \in Stages, c \in Copies : cpy'[b]["user"][c] = cpy[b]["user"][c]
  PROVE  UserInv'
<1>1. \A b \in Stages : Past(b, "user")' <=> Past(b, "user")
  BY InputMoves
<1>2. /\ \A b \in Stages : \A i \in DOMAIN stream'[b] : stream'[b][i].op = "compute" =>
           i \in DOMAIN stream[b] /\ stream'[b][i] = stream[b][i] /\ stream[b][i].copy \in Copies
      /\ curCopy \in Copies /\ UNCHANGED <<machine, graph, split, curCopy>>
  BY NothingQueued
<1> SUFFICES ASSUME NEW d \in Stages, Takes(d, "user")
             PROVE  /\ \A i \in DOMAIN stream'[d] : stream'[d][i].op = "compute" =>
                         cpy'[d]["user"][stream'[d][i].copy] = stream'[d][i].graph
                    /\ Past(d, "user") => cpy'[d]["user"][curCopy] = graph
  BY <1>1, <1>2, SameMachine DEF UserInv
<1>3. ASSUME NEW i \in DOMAIN stream'[d], stream'[d][i].op = "compute"
      PROVE  cpy'[d]["user"][stream'[d][i].copy] = stream'[d][i].graph
  <2>1. i \in DOMAIN stream[d] /\ stream'[d][i] = stream[d][i] /\ stream[d][i].copy \in Copies
    BY <1>2, <1>3
  <2>. QED BY <1>3, <2>1 DEF Frame, UserInv
<1>. QED BY <1>2, <1>3 DEF Frame, UserInv

\* An input of the user is copied: to a place that no graph queued has.
LEMMA CopyUserFacts ==
  ASSUME Frame, CopyUser
  PROVE  /\ split \in Stages /\ NoneWith(split, curCopy) /\ AtInput("user")
         /\ UNCHANGED <<machine, graph, split, curCopy, nextCopy, isAlloc, stream, phase, recorded, reached, out>>
         /\ \A b \in Stages : /\ Past(b, "user")' <=> Past(b, "user") \/ b = split
                              /\ Past(b, "prev")' <=> Past(b, "prev")
         /\ input' \in Nat \ {0} /\ cpy' \in [Stages -> [{"user", "prev"} -> [Copies -> Int]]]
         /\ cpy'[split]["user"][curCopy] = graph
         /\ \A d \in Stages, l \in {"user", "prev"}, e \in Copies :
              d # split \/ l # "user" \/ e # curCopy => cpy'[d][l][e] = cpy[d][l][e]
<1>1. /\ AtInput("user") /\ Free(split) /\ NextInput
      /\ cpy' = [cpy EXCEPT ![split]["user"][curCopy] = graph]
      /\ UNCHANGED <<stream, phase, recorded, reached, out>>
  BY DEF CopyUser, Put
<1>2. split \in Stages
  BY <1>1, AtInputFacts
<1>3. NoneWith(split, curCopy)
  BY <1>1, <1>2, FreeMeansNone
<1>4. /\ \A b \in Stages : /\ Past(b, "user")' <=> Past(b, "user") \/ b = split
                           /\ Past(b, "prev")' <=> Past(b, "prev")
      /\ input' \in Nat \ {0}
      /\ UNCHANGED <<machine, graph, split, curCopy, nextCopy, isAlloc>>
  BY <1>1, InputMoves
<1>5. cpy \in [Stages -> [{"user", "prev"} -> [Copies -> Int]]] /\ curCopy \in Copies /\ graph \in Int
  BY DEF Frame, PipeTypes
<1>6. /\ cpy' \in [Stages -> [{"user", "prev"} -> [Copies -> Int]]]
      /\ cpy'[split]["user"][curCopy] = graph
      /\ \A d \in Stages, l \in {"user", "prev"}, e \in Copies :
           d # split \/ l # "user" \/ e # curCopy => cpy'[d][l][e] = cpy[d][l][e]
  BY <1>1, <1>2, <1>5, PutsThere
<1>. QED BY <1>1, <1>2, <1>3, <1>4, <1>6

LEMMA CopyUserFrame == ASSUME Frame, CopyUser PROVE Frame'
<1>1. /\ NoneWith(split, curCopy) /\ split \in Stages
      /\ UNCHANGED <<machine, graph, split, curCopy, nextCopy, isAlloc, stream, phase, recorded, reached, out>>
      /\ \A b \in Stages : Past(b, "user")' <=> Past(b, "user") \/ b = split
      /\ input' \in Nat \ {0} /\ cpy' \in [Stages -> [{"user", "prev"} -> [Copies -> Int]]]
      /\ cpy'[split]["user"][curCopy] = graph
      /\ \A d \in Stages, e \in Copies : d # split \/ e # curCopy => cpy'[d]["user"][e] = cpy[d]["user"][e]
  BY CopyUserFacts
<1>2. PipeTypes'
  BY <1>1, SameMachine DEF Frame, PipeTypes
<1>3. EventsInv'
  BY <1>1, SameMachine DEF Frame, EventsInv, IsOp
<1>4. \A d \in Stages : \A i \in DOMAIN stream[d] : stream[d][i].op = "compute" => stream[d][i].copy \in Copies
  BY DEF Frame, EventsInv
<1>5. curCopy \in Copies
  BY DEF Frame, PipeTypes
<1>6. UserInv'
  <2> SUFFICES ASSUME NEW d \in Stages, Takes(d, "user")
               PROVE  /\ \A i \in DOMAIN stream[d] : stream[d][i].op = "compute" =>
                           cpy'[d]["user"][stream[d][i].copy] = stream[d][i].graph
                      /\ Past(d, "user")' => cpy'[d]["user"][curCopy] = graph
    BY <1>1, SameMachine DEF UserInv
  <2>1. ASSUME NEW i \in DOMAIN stream[d], stream[d][i].op = "compute"
        PROVE  cpy'[d]["user"][stream[d][i].copy] = stream[d][i].graph
    <3>1. d # split \/ stream[d][i].copy # curCopy
      BY <1>1, <2>1 DEF NoneWith
    <3>. QED BY <1>1, <1>4, <2>1, <3>1 DEF Frame, UserInv
  <2>2. ASSUME Past(d, "user")' PROVE cpy'[d]["user"][curCopy] = graph
    <3>1. CASE d = split
      BY <1>1, <3>1
    <3>2. CASE d # split
      BY <1>1, <1>5, <2>2, <3>2 DEF Frame, UserInv
    <3>. QED BY <3>1, <3>2
  <2>. QED BY <2>1, <2>2
<1>. QED BY <1>2, <1>3, <1>6 DEF Frame

\* An activation is copied by the host, when nothing is left to do for its source.
LEMMA CopySyncFacts ==
  ASSUME Frame, CopySync
  PROVE  /\ AtInput("prev") /\ ~machine.async /\ Drained(split - 1) /\ Free(split) /\ NextInput
         /\ split \in Stages /\ split - 1 \in Stages /\ NoneWith(split, curCopy)
         /\ UNCHANGED <<phase, recorded, reached, out>>
         /\ input' \in Nat \ {0} /\ UNCHANGED <<machine, graph, split, curCopy, nextCopy, isAlloc>>
         /\ Adds /\ stream' \in [Stages -> Seq(StreamOps)]
         /\ \A b \in Stages : \A i \in DOMAIN stream'[b] :
              i > Len(stream[b]) => stream'[b][i].op = "wait" /\ stream'[b][i].event \in Events
         /\ cpy' \in [Stages -> [{"user", "prev"} -> [Copies -> Int]]]
         /\ cpy'[split]["prev"][curCopy] = out[split-1]
         /\ \A d \in Stages, l \in {"user", "prev"}, e \in Copies :
              d # split \/ l # "prev" \/ e # curCopy => cpy'[d][l][e] = cpy[d][l][e]
<1>1. /\ AtInput("prev") /\ ~machine.async /\ Drained(split - 1) /\ Free(split) /\ NextInput
      /\ cpy' = [cpy EXCEPT ![split]["prev"][curCopy] = out[split-1]]
      /\ stream' = [stream EXCEPT ![split] = @ \o EventWait(split)]
      /\ UNCHANGED <<phase, recorded, reached, out>>
  BY DEF CopySync, Put
<1>2. split \in Stages /\ split - 1 \in Stages /\ PipeTypes
  BY <1>1, AtInputFacts, MachineFacts DEF Frame
<1>3. NoneWith(split, curCopy)
  BY <1>1, <1>2, FreeMeansNone
<1>4. input' \in Nat \ {0} /\ UNCHANGED <<machine, graph, split, curCopy, nextCopy, isAlloc>>
  BY <1>1, InputMoves
<1> HIDE DEF StreamOps
<1>5. /\ Adds /\ stream' \in [Stages -> Seq(StreamOps)]
      /\ \A b \in Stages : \A i \in DOMAIN stream'[b] :
           i > Len(stream[b]) => stream'[b][i].op = "wait" /\ stream'[b][i].event \in Events
  <2>1. PICK t \in Seq(StreamOps) : t = EventWait(split)
    BY <1>2, EventWaits
  <2>2. PutsAtSplit(t) /\ \A i \in 1..Len(t) : t[i].op = "wait" /\ t[i].event \in Events
    BY <1>1, <1>2, <2>1, EventWaits DEF PutsAtSplit
  <2>3. /\ Adds /\ stream' \in [Stages -> Seq(StreamOps)]
        /\ \A b \in Stages : \A i \in DOMAIN stream'[b] :
              i > Len(stream[b]) => \E h \in 1..Len(t) : stream'[b][i] = t[h]
    BY <1>2, <2>2, AddsAtSplit
  <2>. QED BY <2>2, <2>3
<1>6. /\ cpy' \in [Stages -> [{"user", "prev"} -> [Copies -> Int]]]
      /\ cpy'[split]["prev"][curCopy] = out[split-1]
      /\ \A d \in Stages, l \in {"user", "prev"}, e \in Copies :
           d # split \/ l # "prev" \/ e # curCopy => cpy'[d][l][e] = cpy[d][l][e]
  <2>1. /\ cpy \in [Stages -> [{"user", "prev"} -> [Copies -> Int]]] /\ curCopy \in Copies
        /\ out[split-1] \in Int
    BY <1>2 DEF PipeTypes
  <2>. QED BY <1>1, <1>2, <2>1, PutsThere
<1>. QED BY <1>1, <1>2, <1>3, <1>4, <1>5, <1>6

LEMMA CopySyncFrame == ASSUME Frame, CopySync PROVE Frame'
<1> HIDE DEF StreamOps
<1>1. /\ AtInput("prev") /\ NextInput /\ UNCHANGED <<phase, recorded, reached, out>>
      /\ input' \in Nat \ {0} /\ UNCHANGED <<machine, graph, split, curCopy, nextCopy, isAlloc>>
      /\ Adds /\ stream' \in [Stages -> Seq(StreamOps)]
      /\ \A b \in Stages : \A i \in DOMAIN stream'[b] :
           i > Len(stream[b]) => stream'[b][i].op = "wait" /\ stream'[b][i].event \in Events
      /\ cpy' \in [Stages -> [{"user", "prev"} -> [Copies -> Int]]]
      /\ \A d \in Stages, e \in Copies : cpy'[d]["user"][e] = cpy[d]["user"][e]
  BY CopySyncFacts
<1>2. PipeTypes'
  BY <1>1, SameMachine DEF Frame, PipeTypes
<1>3. EventsInv'
  <2>1. \A e \in Events : recorded[e] <= recorded'[e] /\ recorded'[e] \in Nat
    BY <1>1 DEF Frame, PipeTypes
  <2>. QED BY <1>1, <2>1, AddsEvents
<1>4. UserInv'
  BY <1>1, UserStays
<1>. QED BY <1>2, <1>3, <1>4 DEF Frame

\* What is put into the two streams when the devices copy.
LEMMA CopyAsyncStreams ==
  ASSUME Frame, CopyAsync, NEW from, from = split - 1, NEW n, n = recorded[<<from, 0>>] + 1
  PROVE  /\ split \in Stages /\ from \in Stages /\ from # split /\ n \in Nat /\ <<from, 0>> \in Events
         /\ stream' \in [Stages -> Seq(StreamOps)]
         /\ \A b \in Stages : b # from /\ b # split => stream'[b] = stream[b]
         /\ Len(stream'[from]) = Len(stream[from]) + 2
         /\ \A i \in DOMAIN stream[from] : stream'[from][i] = stream[from][i]
         /\ stream'[from][Len(stream[from]) + 1] = CopyTo(split, curCopy)
         /\ stream'[from][Len(stream[from]) + 2] = Record(<<from, 0>>, n)
         /\ Len(stream'[split]) >= Len(stream[split]) + 1
         /\ \A i \in DOMAIN stream[split] : stream'[split][i] = stream[split][i]
         /\ stream'[split][Len(stream'[split])] = Await(<<from, 0>>, n)
         /\ \A i \in 1..Len(stream'[split]) : i > Len(stream[split]) =>
              stream'[split][i].op = "wait" /\ stream'[split][i].event \in Events
<1>1. AtInput("prev") /\ split \in Stages /\ split - 1 \in Stages /\ PipeTypes
  BY AtInputFacts, MachineFacts DEF Frame, CopyAsync
<1>2. from \in Stages /\ from # split /\ from \in Nat /\ split \in Nat
  BY <1>1 DEF Stages
<1>3. <<from, 0>> \in Events /\ <<from, 0>> \in Nat \X Nat /\ n \in Nat
  <2>1. 0 \in 0..NCopies
    BY <1>1, MachineFacts
  <2>2. <<from, 0>> \in Events
    BY <1>2, <2>1 DEF Events
  <2>. QED BY <1>1, <1>2, <2>2 DEF PipeTypes
<1>4. PICK x, y, z : x = CopyTo(split, curCopy) /\ y = Record(<<from, 0>>, n) /\ z = Await(<<from, 0>>, n)
  OBVIOUS
<1>5. x \in StreamOps /\ y \in StreamOps /\ z \in StreamOps /\ z.op = "wait" /\ z.event = <<from, 0>>
  <2>1. x \in StreamOps
    BY <1>1, <1>2, <1>4, AtSplit, WorkOps
  <2>2. PICK e \in Nat \X Nat : e = <<from, 0>>
    BY <1>3
  <2>3. y = Record(e, n) /\ z = Await(e, n)
    BY <1>4, <2>2
  <2> HIDE DEF StreamOps
  <2>. QED BY <1>3, <2>1, <2>2, <2>3, EventOps
<1>6. stream' = [stream EXCEPT ![from] = @ \o <<x, y>>, ![split] = @ \o EventWait(split) \o <<z>>]
  BY <1>4 DEF CopyAsync
<1> HIDE DEF StreamOps
<1>7. PICK s \in Seq(StreamOps), r \in Seq(StreamOps), t \in Seq(StreamOps) :
        s = stream[from] /\ r = stream[split] /\ t = EventWait(split)
  BY <1>1, <1>2, EventWaits, StreamFacts
<1>8. stream \in [Stages -> Seq(StreamOps)]
  BY <1>1 DEF PipeTypes
<1>9. /\ stream'[from] = s \o <<x, y>> /\ stream'[split] = (r \o t) \o <<z>>
      /\ \A b \in Stages : b # from /\ b # split => stream'[b] = stream[b]
      /\ DOMAIN stream' = Stages /\ stream' = [b \in Stages |-> stream'[b]]
  BY <1>1, <1>2, <1>6, <1>7, <1>8
<1>10. /\ s \o <<x, y>> \in Seq(StreamOps) /\ Len(s \o <<x, y>>) = Len(s) + 2
       /\ \A i \in DOMAIN s : (s \o <<x, y>>)[i] = s[i]
       /\ (s \o <<x, y>>)[Len(s) + 1] = x /\ (s \o <<x, y>>)[Len(s) + 2] = y
  <2>1. PICK u \in Seq(StreamOps) : u = <<x, y>> /\ Len(u) = 2 /\ u[1] = x /\ u[2] = y
    <3>1. <<x, y>> \in Seq(StreamOps) /\ Len(<<x, y>>) = 2 /\ <<x, y>>[1] = x /\ <<x, y>>[2] = y
      BY <1>5, TwoOps
    <3>. QED BY <3>1, Zenon
  <2>2. 1 \in DOMAIN u /\ 2 \in DOMAIN u
    BY <2>1
  <2>. QED BY <1>7, <2>1, <2>2, Extended
<1>11. /\ r \o t \in Seq(StreamOps) /\ Len(r \o t) = Len(r) + Len(t) /\ Len(r) \in Nat /\ Len(t) \in Nat
       /\ \A i \in DOMAIN r : i \in DOMAIN (r \o t) /\ (r \o t)[i] = r[i]
       /\ \A i \in DOMAIN (r \o t) : i > Len(r) => (r \o t)[i].op = "wait" /\ (r \o t)[i].event \in Events
  <2>1. \A i \in DOMAIN t : t[i].op = "wait" /\ t[i].event \in Events
    <3>1. DOMAIN t = 1..Len(t)
      BY <1>7
    <3>. QED BY <1>1, <1>7, <3>1, EventWaits
  <2>2. /\ r \o t \in Seq(StreamOps) /\ Len(r \o t) = Len(r) + Len(t) /\ Len(r) \in Nat /\ Len(t) \in Nat
        /\ DOMAIN r = 1..Len(r)
        /\ \A i \in DOMAIN r : i \in DOMAIN (r \o t) /\ (r \o t)[i] = r[i]
        /\ \A i \in DOMAIN (r \o t) : i \in DOMAIN r \/ (i - Len(r) \in DOMAIN t /\ (r \o t)[i] = t[i - Len(r)])
    BY <1>7, Extended
  <2>3. \A i \in DOMAIN (r \o t) : i > Len(r) => i \notin DOMAIN r
    BY <2>2
  <2>. QED BY <2>1, <2>2, <2>3
<1>12. PICK u \in Seq(StreamOps) : u = r \o t
  BY <1>11
<1>13. /\ u \o <<z>> \in Seq(StreamOps) /\ Len(u \o <<z>>) = Len(u) + 1 /\ Len(u) \in Nat
       /\ DOMAIN u = 1..Len(u) /\ DOMAIN (u \o <<z>>) = 1..Len(u) + 1
       /\ \A i \in DOMAIN u : (u \o <<z>>)[i] = u[i]
       /\ (u \o <<z>>)[Len(u) + 1] = z
  <2>1. PICK v \in Seq(StreamOps) : v = <<z>> /\ Len(v) = 1 /\ v[1] = z
    BY <1>5, OneOp
  <2>2. 1 \in DOMAIN v
    BY <2>1
  <2>. QED BY <1>12, <2>1, <2>2, Extended
<1>14. stream' \in [Stages -> Seq(StreamOps)]
  BY <1>8, <1>9, <1>10, <1>12, <1>13
<1>15. \A i \in 1..Len(u) + 1 : i > Len(r) => (u \o <<z>>)[i].op = "wait" /\ (u \o <<z>>)[i].event \in Events
  <2> SUFFICES ASSUME NEW i \in 1..Len(u) + 1, i > Len(r)
               PROVE  (u \o <<z>>)[i].op = "wait" /\ (u \o <<z>>)[i].event \in Events
    OBVIOUS
  <2>1. CASE i \in DOMAIN u
    BY <1>11, <1>12, <1>13, <2>1
  <2>2. CASE i \notin DOMAIN u
    <3>1. i = Len(u) + 1
      BY <1>13, <2>2
    <3>. QED BY <1>3, <1>5, <1>13, <3>1
  <2>. QED BY <2>1, <2>2
<1>16. \A i \in DOMAIN r : (u \o <<z>>)[i] = r[i]
  BY <1>11, <1>12, <1>13
<1>17. Len(u) + 1 >= Len(r) + 1 /\ Len(u \o <<z>>) = Len(u) + 1
  BY <1>11, <1>12, <1>13
<1>18. stream'[split] = u \o <<z>>
  BY <1>9, <1>12
<1>19. /\ Len(stream'[from]) = Len(stream[from]) + 2
       /\ \A i \in DOMAIN stream[from] : stream'[from][i] = stream[from][i]
       /\ stream'[from][Len(stream[from]) + 1] = CopyTo(split, curCopy)
       /\ stream'[from][Len(stream[from]) + 2] = Record(<<from, 0>>, n)
  BY <1>4, <1>7, <1>9, <1>10
<1>20. /\ Len(stream'[split]) >= Len(stream[split]) + 1
       /\ \A i \in DOMAIN stream[split] : stream'[split][i] = stream[split][i]
       /\ stream'[split][Len(stream'[split])] = Await(<<from, 0>>, n)
       /\ \A i \in 1..Len(stream'[split]) : i > Len(stream[split]) =>
            stream'[split][i].op = "wait" /\ stream'[split][i].event \in Events
  BY <1>4, <1>7, <1>13, <1>15, <1>16, <1>17, <1>18
<1>. QED BY <1>1, <1>2, <1>3, <1>9, <1>14, <1>19, <1>20

\* The copy and its record are put at the end of the stream of the source, waits at the end of that
\* of the destination.
QueuesCopy(from, n, e) ==
  /\ from = split - 1 /\ n = recorded[<<from, 0>>] + 1 /\ e = <<from, 0>>
  /\ AtInput("prev") /\ machine.async /\ NextInput /\ UNCHANGED <<phase, reached, cpy, out>>
  /\ input' \in Nat \ {0} /\ UNCHANGED <<machine, graph, split, curCopy, nextCopy, isAlloc>>
  /\ split \in Stages /\ from \in Stages /\ from + 1 = split /\ from < NStages /\ curCopy \in Copies
  /\ Adds /\ stream' \in [Stages -> Seq(StreamOps)]
  /\ \A d \in Events : recorded[d] <= recorded'[d] /\ recorded'[d] \in Nat
  /\ recorded' \in [Events -> Nat] /\ e \in Events /\ recorded[e] < n /\ n <= recorded'[e]
  /\ \A b \in Stages : \A i \in DOMAIN stream'[b] : i > Len(stream[b]) =>
       \/ b = split /\ stream'[b][i].op = "wait" /\ stream'[b][i].event \in Events
       \/ b = from /\ i = Len(stream[from]) + 1 /\ stream'[b][i].op = "copy"
            /\ stream'[b][i].to = split /\ stream'[b][i].copy = curCopy
       \/ b = from /\ i = Len(stream[from]) + 2 /\ stream'[b][i].op = "record"
            /\ stream'[b][i].event = e /\ stream'[b][i].nth = n

LEMMA CopyAsyncAdds == ASSUME Frame, CopyAsync PROVE \E from, n, e : QueuesCopy(from, n, e)
<1>1. PICK from, n, e : from = split - 1 /\ n = recorded[<<from, 0>>] + 1 /\ e = <<from, 0>>
  OBVIOUS
<1>2. /\ split \in Stages /\ from \in Stages /\ from # split /\ n \in Nat /\ e \in Events
      /\ stream' \in [Stages -> Seq(StreamOps)]
      /\ \A b \in Stages : b # from /\ b # split => stream'[b] = stream[b]
      /\ Len(stream'[from]) = Len(stream[from]) + 2
      /\ \A i \in DOMAIN stream[from] : stream'[from][i] = stream[from][i]
      /\ stream'[from][Len(stream[from]) + 1] = CopyTo(split, curCopy)
      /\ stream'[from][Len(stream[from]) + 2] = Record(e, n)
      /\ Len(stream'[split]) >= Len(stream[split]) + 1
      /\ \A i \in DOMAIN stream[split] : stream'[split][i] = stream[split][i]
      /\ \A i \in 1..Len(stream'[split]) : i > Len(stream[split]) =>
           stream'[split][i].op = "wait" /\ stream'[split][i].event \in Events
  BY <1>1, CopyAsyncStreams
<1>3. /\ AtInput("prev") /\ machine.async /\ NextInput /\ recorded' = [recorded EXCEPT ![e] = n]
      /\ UNCHANGED <<phase, reached, cpy, out>>
  BY <1>1 DEF CopyAsync
<1>4. input' \in Nat \ {0} /\ UNCHANGED <<machine, graph, split, curCopy, nextCopy, isAlloc>>
  BY <1>3, InputMoves
<1>5. PipeTypes
  BY DEF Frame
<1>6. curCopy \in Copies /\ curCopy \in Nat /\ split \in Nat /\ from + 1 = split /\ from < NStages
  <2>1. from \in Int /\ split \in Nat /\ NStages \in Nat /\ split <= NStages
    BY <1>2, <1>5, MachineFacts DEF Stages
  <2>. QED BY <1>1, <1>2, <1>5, <2>1, AtSplit
<1>7. Adds
  <2> SUFFICES ASSUME NEW b \in Stages
               PROVE  /\ stream'[b] \in Seq(StreamOps) /\ Len(stream[b]) <= Len(stream'[b])
                      /\ \A i \in DOMAIN stream[b] : stream'[b][i] = stream[b][i]
    BY DEF Adds
  <2>1. stream'[b] \in Seq(StreamOps) /\ stream[b] \in Seq(StreamOps)
    BY <1>2, StreamFacts, <1>5
  <2> HIDE DEF StreamOps
  <2>2. Len(stream[b]) \in Nat /\ Len(stream'[b]) \in Nat
    BY <2>1
  <2>3. CASE b = from
    BY <1>2, <2>1, <2>2, <2>3
  <2>4. CASE b = split
    BY <1>2, <2>1, <2>2, <2>4
  <2>5. CASE b # from /\ b # split
    <3>1. stream'[b] = stream[b]
      BY <1>2, <2>5
    <3>. QED BY <2>1, <2>2, <3>1
  <2>. QED BY <2>3, <2>4, <2>5
<1>8. /\ \A d \in Events : recorded[d] <= recorded'[d] /\ recorded'[d] \in Nat
      /\ recorded' \in [Events -> Nat] /\ recorded[e] < n /\ n <= recorded'[e]
  <2>1. recorded \in [Events -> Nat] /\ n = recorded[e] + 1
    BY <1>1, <1>5 DEF PipeTypes
  <2>. QED BY <1>2, <1>3, <2>1
\* what is new
<1>9. ASSUME NEW b \in Stages, NEW i \in DOMAIN stream'[b], i > Len(stream[b])
      PROVE  \/ b = split /\ stream'[b][i].op = "wait" /\ stream'[b][i].event \in Events
             \/ b = from /\ i = Len(stream[from]) + 1 /\ stream'[b][i].op = "copy"
                  /\ stream'[b][i].to = split /\ stream'[b][i].copy = curCopy
             \/ b = from /\ i = Len(stream[from]) + 2 /\ stream'[b][i].op = "record"
                  /\ stream'[b][i].event = e /\ stream'[b][i].nth = n
  <2>1. i \in 1..Len(stream'[b]) /\ Len(stream[b]) \in Nat /\ Len(stream'[b]) \in Nat
    BY <1>7, <1>9, AddsFacts
  <2>2. CASE b = split
    BY <1>2, <1>9, <2>1, <2>2
  <2>3. CASE b = from
    <3>1. i = Len(stream[from]) + 1 \/ i = Len(stream[from]) + 2
      BY <1>2, <1>9, <2>1, <2>3
    <3>. QED BY <1>2, <2>3, <3>1 DEF CopyTo, Record
  <2>4. CASE b # split /\ b # from
    BY <1>2, <1>9, <2>1, <2>4
  <2>. QED BY <2>2, <2>3, <2>4
<1>10. QueuesCopy(from, n, e)
  BY <1>1, <1>2, <1>3, <1>4, <1>6, <1>7, <1>8, <1>9 DEF QueuesCopy
<1>. QED BY <1>10

LEMMA CopyAsyncFrame == ASSUME Frame, CopyAsync PROVE Frame'
<1>0. PICK from, n, e : QueuesCopy(from, n, e)
  BY CopyAsyncAdds
<1>1. e = <<from, 0>>
  BY <1>0 DEF QueuesCopy
<1>2. /\ AtInput("prev") /\ machine.async /\ NextInput /\ UNCHANGED <<phase, reached, cpy, out>>
      /\ input' \in Nat \ {0} /\ UNCHANGED <<machine, graph, split, curCopy, nextCopy, isAlloc>>
      /\ split \in Stages /\ from \in Stages /\ from + 1 = split /\ from < NStages /\ curCopy \in Copies
      /\ Adds /\ stream' \in [Stages -> Seq(StreamOps)]
      /\ \A d \in Events : recorded[d] <= recorded'[d] /\ recorded'[d] \in Nat
      /\ recorded' \in [Events -> Nat] /\ e \in Events /\ recorded[e] < n /\ n <= recorded'[e]
  BY <1>0 DEF QueuesCopy
<1>3. ASSUME NEW b \in Stages, NEW i \in DOMAIN stream'[b], i > Len(stream[b])
      PROVE  \/ b = split /\ stream'[b][i].op = "wait" /\ stream'[b][i].event \in Events
             \/ b = from /\ i = Len(stream[from]) + 1 /\ stream'[b][i].op = "copy"
                  /\ stream'[b][i].to = split /\ stream'[b][i].copy = curCopy
             \/ b = from /\ i = Len(stream[from]) + 2 /\ stream'[b][i].op = "record"
                  /\ stream'[b][i].event = e /\ stream'[b][i].nth = n
  BY <1>0, <1>3 DEF QueuesCopy
<1>4. PipeTypes'
  BY <1>2, SameMachine DEF Frame, PipeTypes
<1>5. UserInv'
  BY <1>2, <1>3, UserStays
<1>6. EventsInv'
  <2>1. e[1] = from
    BY <1>1
  <2>2. ASSUME NEW b \in Stages, NEW i \in DOMAIN stream'[b], i > Len(stream[b])
        PROVE  /\ stream'[b][i].op = "record" =>
                    /\ stream'[b][i].event \in Events /\ stream'[b][i].event[1] = b
                    /\ recorded[stream'[b][i].event] < stream'[b][i].nth
                    /\ stream'[b][i].nth <= recorded'[stream'[b][i].event]
               /\ stream'[b][i].op = "wait" => stream'[b][i].event \in Events
               /\ stream'[b][i].op # "compute"
               /\ stream'[b][i].op = "copy" =>
                    /\ machine.async /\ b < NStages /\ stream'[b][i].to = b + 1 /\ stream'[b][i].copy \in Copies
    <3>1. CASE stream'[b][i].op = "wait" /\ stream'[b][i].event \in Events
      BY <3>1
    <3>2. CASE b = from /\ stream'[b][i].op = "copy" /\ stream'[b][i].to = split /\ stream'[b][i].copy = curCopy
      BY <1>2, <3>2
    <3>3. CASE b = from /\ stream'[b][i].op = "record" /\ stream'[b][i].event = e /\ stream'[b][i].nth = n
      BY <1>2, <2>1, <3>3
    <3>. QED BY <1>3, <2>2, <3>1, <3>2, <3>3
  <2>3. \A b \in Stages : \A i, j \in DOMAIN stream'[b] :
          i > Len(stream[b]) /\ j > Len(stream[b]) /\ stream'[b][i].op = "record" /\ stream'[b][j].op = "record" => i = j
    <3> SUFFICES ASSUME NEW b \in Stages, NEW i \in DOMAIN stream'[b], NEW j \in DOMAIN stream'[b],
                        i > Len(stream[b]), j > Len(stream[b]),
                        stream'[b][i].op = "record", stream'[b][j].op = "record"
                 PROVE  i = j
      OBVIOUS
    <3>1. i = Len(stream[from]) + 2
      BY <1>3
    <3>2. j = Len(stream[from]) + 2
      BY <1>3
    <3>. QED BY <3>1, <3>2
  <2>. QED BY <1>2, <2>2, <2>3, AddsEvents
<1>. QED BY <1>4, <1>5, <1>6 DEF Frame

\* A split that is queued: its inputs are past.
LEMMA QueuedSplit ==
  ASSUME Frame, ComputeSplit, NEW e, e = <<split, curCopy>>, NEW n, n = recorded[e] + 1
  PROVE  /\ split \in Stages /\ input > 1 /\ e \in Events /\ n \in Nat
         /\ \A k \in {"user", "prev"} : Takes(split, k) => Past(split, k)
         /\ Adds /\ stream' \in [Stages -> Seq(StreamOps)]
         /\ \A b \in Stages : b # split => stream'[b] = stream[b]
         /\ Len(stream'[split]) = Len(stream[split]) + (IF NCopies > 1 THEN 2 ELSE 1)
         /\ stream'[split][Len(stream[split]) + 1] = Compute(graph, curCopy)
         /\ NCopies > 1 => stream'[split][Len(stream[split]) + 2] = Record(e, n)
         /\ recorded' = IF NCopies > 1 THEN [recorded EXCEPT ![e] = n] ELSE recorded
<1>1. split \in Stages /\ input > Len(InputsOf(split)) /\ input \in Nat \ {0} /\ PipeTypes
  BY DEF Frame, PipeTypes, ComputeSplit, Stages
<1>2. DOMAIN InputsOf(split) = 1..Len(InputsOf(split)) /\ Len(InputsOf(split)) \in {1, 2}
  BY <1>1, MachineFacts, InputsShape
<1>3. \A k \in {"user", "prev"} : Takes(split, k) => Past(split, k)
  BY <1>1, <1>2 DEF Takes, Past
<1>4. input > 1
  BY <1>1, <1>2
<1>5. e \in Events /\ e \in Nat \X Nat /\ n \in Nat /\ NCopies \in Nat /\ curCopy \in Nat
  BY <1>1, AtSplit
<1>6. PICK x, y : x = Compute(graph, curCopy) /\ y = Record(e, n)
  OBVIOUS
<1>7. x \in StreamOps /\ y \in StreamOps
  <2>1. graph \in Nat /\ split \in Nat
    BY <1>1, AtSplit DEF PipeTypes
  <2>2. x \in StreamOps
    <3> HIDE DEF StreamOps
    <3>. QED BY <1>5, <1>6, <2>1, WorkOps
  <2>3. y \in StreamOps
    <3> HIDE DEF StreamOps
    <3>. QED BY <1>5, <1>6, EventOps
  <2>. QED BY <2>2, <2>3
<1> HIDE DEF StreamOps
<1>8. CASE NCopies > 1
  <2>1. PICK t \in Seq(StreamOps) : t = <<x, y>> /\ Len(t) = 2 /\ t[1] = x /\ t[2] = y
    <3>1. <<x, y>> \in Seq(StreamOps) /\ Len(<<x, y>>) = 2 /\ <<x, y>>[1] = x /\ <<x, y>>[2] = y
      BY <1>7, TwoOps
    <3>. QED BY <3>1, Zenon
  <2>2. PutsAtSplit(t) /\ recorded' = [recorded EXCEPT ![e] = n]
    BY <1>6, <1>8, <2>1 DEF ComputeSplit, PutsAtSplit
  <2>3. /\ Adds /\ stream' \in [Stages -> Seq(StreamOps)]
        /\ \A b \in Stages : b # split => stream'[b] = stream[b]
        /\ Len(stream'[split]) = Len(stream[split]) + Len(t)
        /\ \A i \in 1..Len(t) : stream'[split][Len(stream[split]) + i] = t[i]
    BY <1>1, <2>2, AddsAtSplit
  <2>4. 1 \in 1..Len(t) /\ 2 \in 1..Len(t)
    BY <2>1
  <2>. QED BY <1>1, <1>3, <1>4, <1>5, <1>6, <1>8, <2>1, <2>2, <2>3, <2>4
<1>9. CASE ~(NCopies > 1)
  <2>1. PICK t \in Seq(StreamOps) : t = <<x>> /\ Len(t) = 1 /\ t[1] = x
    BY <1>7, OneOp
  <2>2. stream' = [stream EXCEPT ![split] = Append(stream[split], x)] /\ recorded' = recorded
    BY <1>6, <1>9 DEF ComputeSplit
  <2>3. Append(stream[split], x) = stream[split] \o t
    <3>1. stream[split] \in Seq(StreamOps)
      BY <1>1 DEF PipeTypes
    <3>. QED BY <1>7, <2>1, <3>1, AppendIsConcat
  <2>4. PutsAtSplit(t)
    BY <2>2, <2>3 DEF PutsAtSplit
  <2>5. /\ Adds /\ stream' \in [Stages -> Seq(StreamOps)]
        /\ \A b \in Stages : b # split => stream'[b] = stream[b]
        /\ Len(stream'[split]) = Len(stream[split]) + Len(t)
        /\ \A i \in 1..Len(t) : stream'[split][Len(stream[split]) + i] = t[i]
    BY <1>1, <2>4, AddsAtSplit
  <2>6. 1 \in 1..Len(t)
    BY <2>1
  <2>. QED BY <1>1, <1>3, <1>4, <1>5, <1>6, <1>9, <2>1, <2>2, <2>5, <2>6
<1>. QED BY <1>8, <1>9

\* At the first input of a split, none is past.
LEMMA NothingPast ==
  ASSUME Frame, input' = 1, machine' = machine
  PROVE  \A b \in Stages, k \in {"user", "prev"} : ~Past(b, k)'
<1>1. \A b \in Stages : \A q0 \in DOMAIN InputsOf(b) : ~(q0 < 1)
  BY MachineFacts, InputsShape DEF Frame
<1>. QED BY <1>1, SameMachine DEF Past

\* What is put into the stream of a split, at place p.
QueuesCompute(s, e, n, p) ==
  /\ s = split /\ e = <<split, curCopy>> /\ n = recorded[e] + 1 /\ p = Len(stream[s]) + 1
  /\ s \in Stages /\ s \in Nat \ {0} /\ input > 1 /\ e \in Events /\ n \in Nat
  /\ \A k \in {"user", "prev"} : Takes(s, k) => Past(s, k)
  /\ Adds /\ stream' \in [Stages -> Seq(StreamOps)] /\ \A b \in Stages : b # s => stream'[b] = stream[b]
  /\ input' = 1 /\ UNCHANGED <<machine, graph, curCopy, nextCopy, isAlloc, phase, reached, cpy, out>>
  /\ split = s /\ split' \in 0..NStages /\ split' = (IF s < NStages THEN s + 1 ELSE 0) /\ s <= NStages
  /\ p \in DOMAIN stream'[s] /\ p \in Nat \ {0} /\ stream'[s][p].op = "compute"
  /\ stream'[s][p].graph = graph /\ stream'[s][p].copy = curCopy
  /\ NCopies > 1 => /\ p + 1 \in DOMAIN stream'[s] /\ stream'[s][p+1].op = "record"
                    /\ stream'[s][p+1].event = e /\ stream'[s][p+1].nth = n
  /\ recorded' \in [Events -> Nat] /\ (NCopies > 1 => recorded[e] < n /\ n <= recorded'[e])
  /\ \A d \in Events : recorded[d] <= recorded'[d] /\ recorded'[d] \in Nat
  /\ \A b \in Stages : \A i \in DOMAIN stream'[b] : i > Len(stream[b]) =>
       b = s /\ (i = p \/ (NCopies > 1 /\ i = p + 1))
  /\ \A b \in Stages : \A i \in DOMAIN stream'[b] : stream'[b][i].op = "compute" =>
       (i \in DOMAIN stream[b] /\ stream'[b][i] = stream[b][i]) \/ (b = s /\ i = p)
  /\ \A b \in Stages : \A i \in DOMAIN stream'[b] : stream'[b][i].op # "compute" /\ stream'[b][i].op # "record" =>
       i \in DOMAIN stream[b] /\ stream'[b][i] = stream[b][i]

LEMMA ComputeSplitFacts == ASSUME Frame, ComputeSplit PROVE \E s, e, n, p : QueuesCompute(s, e, n, p)
<1>1. PICK e, n, s : e = <<split, curCopy>> /\ n = recorded[e] + 1 /\ s = split
  OBVIOUS
<1>2. /\ s \in Stages /\ input > 1 /\ e \in Events /\ n \in Nat
      /\ \A k \in {"user", "prev"} : Takes(s, k) => Past(s, k)
      /\ Adds /\ stream' \in [Stages -> Seq(StreamOps)]
      /\ \A b \in Stages : b # s => stream'[b] = stream[b]
      /\ Len(stream'[s]) = Len(stream[s]) + (IF NCopies > 1 THEN 2 ELSE 1)
      /\ stream'[s][Len(stream[s]) + 1] = Compute(graph, curCopy)
      /\ NCopies > 1 => stream'[s][Len(stream[s]) + 2] = Record(e, n)
      /\ recorded' = IF NCopies > 1 THEN [recorded EXCEPT ![e] = n] ELSE recorded
  <2>1. s = split
    BY <1>1
  <2>. QED BY <1>1, <2>1, QueuedSplit
<1>3. /\ split' = (IF split < NStages THEN split + 1 ELSE 0) /\ input' = 1
      /\ UNCHANGED <<machine, graph, curCopy, nextCopy, isAlloc, phase, reached, cpy, out>>
  BY DEF ComputeSplit
<1>4. PipeTypes /\ graph \in Nat /\ curCopy \in Copies /\ NCopies \in Nat \ {0} /\ NStages \in Nat \ {0}
  BY MachineFacts DEF Frame, PipeTypes
<1>5. s \in Nat \ {0} /\ s <= NStages /\ split = s /\ split' \in 0..NStages /\ (split' = 0 \/ split' = s + 1)
  BY <1>1, <1>2, <1>3, <1>4 DEF Stages
<1>6. \A b \in Stages : /\ Len(stream[b]) \in Nat /\ DOMAIN stream[b] = 1..Len(stream[b])
                       /\ Len(stream'[b]) \in Nat /\ DOMAIN stream'[b] = 1..Len(stream'[b])
                       /\ \A i \in DOMAIN stream[b] : i \in DOMAIN stream'[b] /\ stream'[b][i] = stream[b][i]
  BY <1>2, AddsFacts
<1>7. PICK p, l : p = Len(stream[s]) + 1 /\ l = Len(stream'[s])
  OBVIOUS
<1>11. /\ p \in Nat \ {0} /\ l \in Nat /\ DOMAIN stream'[s] = 1..l
       /\ (NCopies > 1 /\ l = p + 1) \/ (~(NCopies > 1) /\ l = p)
  <2>1. Len(stream[s]) \in Nat /\ l \in Nat /\ DOMAIN stream'[s] = 1..l
    BY <1>2, <1>6, <1>7
  <2>2. CASE NCopies > 1
    <3>1. l = Len(stream[s]) + 2
      BY <1>2, <1>7, <2>2
    <3>. QED BY <1>7, <2>1, <2>2, <3>1
  <2>3. CASE ~(NCopies > 1)
    <3>1. l = Len(stream[s]) + 1
      BY <1>2, <1>7, <2>3
    <3>. QED BY <1>7, <2>1, <2>3, <3>1
  <2>. QED BY <2>2, <2>3
<1>12. /\ recorded' \in [Events -> Nat] /\ (NCopies > 1 => recorded[e] < n /\ n <= recorded'[e])
       /\ \A d \in Events : recorded[d] <= recorded'[d] /\ recorded'[d] \in Nat
  <2>1. recorded \in [Events -> Nat] /\ n = recorded[e] + 1
    BY <1>1, <1>4 DEF PipeTypes
  <2>2. CASE NCopies > 1
    <3>1. recorded' = [recorded EXCEPT ![e] = n]
      BY <1>2, <2>2
    <3>. QED BY <1>2, <2>1, <3>1
  <2>3. CASE ~(NCopies > 1)
    <3>1. recorded' = recorded
      BY <1>2, <2>3
    <3>. QED BY <2>1, <2>3, <3>1
  <2>. QED BY <2>2, <2>3
<1>8. /\ p \in DOMAIN stream'[s] /\ p \in Nat \ {0} /\ stream'[s][p].op = "compute"
      /\ stream'[s][p].graph = graph /\ stream'[s][p].copy = curCopy
      /\ NCopies > 1 => /\ p + 1 \in DOMAIN stream'[s] /\ stream'[s][p+1].op = "record"
                        /\ stream'[s][p+1].event = e /\ stream'[s][p+1].nth = n
  <2>1. p \in DOMAIN stream'[s] /\ p \in Nat \ {0} /\ (NCopies > 1 => p + 1 \in DOMAIN stream'[s])
    BY <1>11
  <2>2. Len(stream[s]) + 2 = p + 1
    BY <1>2, <1>6, <1>7
  <2>3. stream'[s][p] = Compute(graph, curCopy) /\ (NCopies > 1 => stream'[s][p+1] = Record(e, n))
    BY <1>2, <1>7, <2>2
  <2>. QED BY <2>1, <2>3 DEF Compute, Record
<1>9. ASSUME NEW b \in Stages, NEW i \in DOMAIN stream'[b], i > Len(stream[b])
      PROVE  b = s /\ (i = p \/ (NCopies > 1 /\ i = p + 1))
  <2>1. b = s
    BY <1>2, <1>6, <1>9
  <2>2. i \in 1..l /\ i > Len(stream[s]) /\ Len(stream[s]) \in Nat
    BY <1>2, <1>6, <1>9, <1>11, <2>1
  <2>3. i \in 1..l /\ i >= p
    BY <1>7, <2>2
  <2>. QED BY <1>11, <2>1, <2>3
<1>10. ASSUME NEW b \in Stages, NEW i \in DOMAIN stream'[b], stream'[b][i].op = "compute"
       PROVE  (i \in DOMAIN stream[b] /\ stream'[b][i] = stream[b][i]) \/ (b = s /\ i = p)
  <2>1. i \in DOMAIN stream[b] \/ i > Len(stream[b])
    BY <1>6
  <2>. QED BY <1>6, <1>8, <1>9, <1>10, <2>1
<1>13. ASSUME NEW b \in Stages, NEW i \in DOMAIN stream'[b], stream'[b][i].op # "compute", stream'[b][i].op # "record"
       PROVE  i \in DOMAIN stream[b] /\ stream'[b][i] = stream[b][i]
  <2>1. i \in DOMAIN stream[b] \/ i > Len(stream[b])
    BY <1>6
  <2>. QED BY <1>6, <1>8, <1>9, <1>13, <2>1
<1>14. QueuesCompute(s, e, n, p)
  BY <1>1, <1>2, <1>3, <1>5, <1>7, <1>8, <1>9, <1>10, <1>12, <1>13 DEF QueuesCompute
<1>. QED BY <1>14

LEMMA ComputeSplitFrame == ASSUME Frame, ComputeSplit PROVE Frame'
<1>0. PICK s, e, n, p : QueuesCompute(s, e, n, p)
  BY ComputeSplitFacts
<1>1. e = <<split, curCopy>> /\ s = split
  BY <1>0 DEF QueuesCompute
<1>2. /\ s \in Stages /\ s \in Nat \ {0} /\ input > 1 /\ e \in Events /\ n \in Nat
      /\ \A k \in {"user", "prev"} : Takes(s, k) => Past(s, k)
      /\ Adds /\ stream' \in [Stages -> Seq(StreamOps)] /\ \A b \in Stages : b # s => stream'[b] = stream[b]
      /\ input' = 1 /\ UNCHANGED <<machine, graph, curCopy, nextCopy, isAlloc, phase, reached, cpy, out>>
      /\ split = s /\ split' \in 0..NStages /\ split' = (IF s < NStages THEN s + 1 ELSE 0) /\ s <= NStages
      /\ p \in DOMAIN stream'[s] /\ p \in Nat \ {0} /\ stream'[s][p].op = "compute"
      /\ stream'[s][p].graph = graph /\ stream'[s][p].copy = curCopy
      /\ NCopies > 1 => /\ p + 1 \in DOMAIN stream'[s] /\ stream'[s][p+1].op = "record"
                        /\ stream'[s][p+1].event = e /\ stream'[s][p+1].nth = n
      /\ recorded' \in [Events -> Nat] /\ (NCopies > 1 => recorded[e] < n /\ n <= recorded'[e])
      /\ \A d \in Events : recorded[d] <= recorded'[d] /\ recorded'[d] \in Nat
      /\ \A b \in Stages : \A i \in DOMAIN stream'[b] : i > Len(stream[b]) =>
           b = s /\ (i = p \/ (NCopies > 1 /\ i = p + 1))
      /\ \A b \in Stages : \A i \in DOMAIN stream'[b] : stream'[b][i].op = "compute" =>
           (i \in DOMAIN stream[b] /\ stream'[b][i] = stream[b][i]) \/ (b = s /\ i = p)
      /\ \A b \in Stages : \A i \in DOMAIN stream'[b] : stream'[b][i].op # "compute" /\ stream'[b][i].op # "record" =>
           i \in DOMAIN stream[b] /\ stream'[b][i] = stream[b][i]
  BY <1>0 DEF QueuesCompute
<1>3. PipeTypes /\ graph \in Nat /\ curCopy \in Copies
  BY DEF Frame, PipeTypes
<1>4. PipeTypes'
  <2>1. recorded' \in [Events -> Nat] /\ stream' \in [Stages -> Seq(StreamOps)] /\ split' \in 0..NStages
    BY <1>2
  <2>2. input' \in Nat \ {0} /\ UNCHANGED <<machine, graph, curCopy, nextCopy, isAlloc, phase, reached, cpy, out>>
    BY <1>2
  <2>. QED BY <1>3, <2>1, <2>2, SameMachine DEF PipeTypes
<1>5. EventsInv'
  <2>1. \A d \in Events : recorded[d] <= recorded'[d] /\ recorded'[d] \in Nat
    BY <1>2
  <2>2. e[1] = s /\ e = <<s, curCopy>> /\ (NCopies > 1 => recorded[e] < n /\ n <= recorded'[e])
    BY <1>1, <1>2
  <2>3. \A b \in Stages : \A i \in DOMAIN stream'[b] : i > Len(stream[b]) =>
           /\ stream'[b][i].op = "record" =>
                /\ stream'[b][i].event \in Events /\ stream'[b][i].event[1] = b
                /\ recorded[stream'[b][i].event] < stream'[b][i].nth
                /\ stream'[b][i].nth <= recorded'[stream'[b][i].event]
           /\ stream'[b][i].op = "wait" => stream'[b][i].event \in Events
           /\ stream'[b][i].op = "compute" =>
                /\ stream'[b][i].copy \in Copies
                /\ NCopies > 1 => i + 1 \in DOMAIN stream'[b] /\ stream'[b][i+1].op = "record"
                                  /\ stream'[b][i+1].event = <<b, stream'[b][i].copy>>
           /\ stream'[b][i].op = "copy" =>
                /\ machine.async /\ b < NStages /\ stream'[b][i].to = b + 1 /\ stream'[b][i].copy \in Copies
    <3> SUFFICES ASSUME NEW b \in Stages, NEW i \in DOMAIN stream'[b], i > Len(stream[b])
                 PROVE  /\ stream'[b][i].op = "record" =>
                             /\ stream'[b][i].event \in Events /\ stream'[b][i].event[1] = b
                             /\ recorded[stream'[b][i].event] < stream'[b][i].nth
                             /\ stream'[b][i].nth <= recorded'[stream'[b][i].event]
                        /\ stream'[b][i].op \in {"record", "compute"}
                        /\ stream'[b][i].op = "compute" =>
                             /\ stream'[b][i].copy \in Copies
                             /\ NCopies > 1 => i + 1 \in DOMAIN stream'[b] /\ stream'[b][i+1].op = "record"
                                               /\ stream'[b][i+1].event = <<b, stream'[b][i].copy>>
      OBVIOUS
    <3>1. b = s
      BY <1>2
    <3>2. CASE i = p
      BY <1>2, <1>3, <2>2, <3>1, <3>2
    <3>3. CASE NCopies > 1 /\ i = p + 1
      BY <1>2, <2>2, <3>1, <3>3
    <3>. QED BY <1>2, <3>2, <3>3
  <2>4. \A b \in Stages : \A i, j \in DOMAIN stream'[b] :
          i > Len(stream[b]) /\ j > Len(stream[b]) /\ stream'[b][i].op = "record" /\ stream'[b][j].op = "record" => i = j
    <3> SUFFICES ASSUME NEW b \in Stages, NEW i \in DOMAIN stream'[b], NEW j \in DOMAIN stream'[b],
                        i > Len(stream[b]), j > Len(stream[b]),
                        stream'[b][i].op = "record", stream'[b][j].op = "record"
                 PROVE  i = j
      OBVIOUS
    <3>1. i = p + 1
      BY <1>2
    <3>2. j = p + 1
      BY <1>2
    <3>. QED BY <3>1, <3>2
  <2>. QED BY <1>2, <2>1, <2>3, <2>4, AddsEvents
\* at the next split, no input is past
<1>6. \A b \in Stages, k \in {"user", "prev"} : ~Past(b, k)'
  BY <1>2, NothingPast
<1>7. UserInv'
  <2> SUFFICES ASSUME NEW d \in Stages, Takes(d, "user"), NEW i \in DOMAIN stream'[d], stream'[d][i].op = "compute"
               PROVE  cpy[d]["user"][stream'[d][i].copy] = stream'[d][i].graph
    BY <1>2, <1>6, SameMachine DEF UserInv
  <2>1. CASE i \in DOMAIN stream[d] /\ stream'[d][i] = stream[d][i]
    BY <2>1 DEF Frame, UserInv
  <2>2. CASE d = s /\ i = p
    BY <1>2, <2>2 DEF Frame, UserInv
  <2>. QED BY <1>2, <2>1, <2>2
<1>. QED BY <1>4, <1>5, <1>7 DEF Frame

\* The host begins a graph, or waits between two.
LEMMA BetweenFrame ==
  ASSUME Frame, Alloc \/ Reset \/ Synchronize \/ Reuse
  PROVE  /\ Frame' /\ Idle /\ UNCHANGED <<machine, stream, phase, recorded, reached, cpy, out>>
         /\ \/ split' = 0 /\ graph' = graph /\ input' = input /\ curCopy' = curCopy
            \/ split' = 1 /\ input' = 1 /\ graph' = graph + 1
         /\ \A b \in Stages, k \in {"user", "prev"} : ~Past(b, k) /\ ~Past(b, k)'
<1>1. PipeTypes /\ NCopies \in Nat \ {0} /\ NStages \in Nat \ {0}
  BY MachineFacts DEF Frame
<1>2. /\ nextCopy \in Nat /\ 1 \in Copies
      /\ (nextCopy % NCopies) + 1 \in Copies
  <2>1. nextCopy \in 1..NCopies
    BY <1>1 DEF PipeTypes, Copies
  <2>2. nextCopy % NCopies \in 0..NCopies-1
    BY <1>1, <2>1
  <2>. QED BY <1>1, <2>1, <2>2 DEF Copies
<1>3. Idle /\ UNCHANGED <<machine, stream, phase, recorded, reached, cpy, out>>
  BY DEF Alloc, Reset, Synchronize, Reuse
<1>4. \/ split' = 0 /\ graph' = graph /\ input' = input /\ curCopy' = curCopy
      \/ split' = 1 /\ input' = 1 /\ graph' = graph + 1
  BY DEF Alloc, Reset, Synchronize, Reuse, Idle
<1>5. curCopy' \in Copies /\ nextCopy' \in Copies
  BY <1>1, <1>2 DEF PipeTypes, Alloc, Reset, Synchronize, Reuse
<1>6. isAlloc' \in BOOLEAN
  BY <1>1 DEF PipeTypes, Alloc, Reset, Synchronize, Reuse
<1>7. split' \in 0..NStages /\ graph' \in Nat /\ input' \in Nat \ {0}
  BY <1>1, <1>4 DEF PipeTypes
<1>8. PipeTypes'
  BY <1>1, <1>3, <1>5, <1>6, <1>7, SameMachine DEF PipeTypes
<1>9. ASSUME NEW b \in Stages, NEW k \in {"user", "prev"} PROVE ~Past(b, k) /\ ~Past(b, k)'
  <2>1. b # 0 /\ split = 0
    BY <1>3 DEF Stages, Idle
  <2>2. CASE split' = 0
    BY <2>1, <2>2 DEF Past
  <2>3. CASE input' = 1
    BY <1>3, <2>1, <2>3, NothingPast DEF Past
  <2>. QED BY <1>4, <2>2, <2>3
<1>10. EventsInv'
  BY <1>3, SameMachine DEF Frame, EventsInv, IsOp
<1>11. UserInv'
  BY <1>3, <1>9, SameMachine DEF Frame, UserInv
<1>. QED BY <1>3, <1>4, <1>8, <1>9, <1>10, <1>11 DEF Frame

LEMMA FrameStep == Frame /\ [Next]_vars => Frame'
<1> SUFFICES ASSUME Frame, [Next]_vars PROVE Frame'
  OBVIOUS
<1>1. CASE \E b \in Stages : Runs(b)
  BY <1>1, StreamsFrame
<1>2. CASE Host
  BY <1>2, BetweenFrame, CopyUserFrame, CopyAsyncFrame, CopySyncFrame, ComputeSplitFrame DEF Host
<1>3. CASE UNCHANGED vars
  <2>1. UNCHANGED <<machine, graph, split, input, curCopy, nextCopy, isAlloc, stream, phase, recorded, reached, cpy, out>>
    BY <1>3 DEF vars, hostVars
  <2>2. PipeTypes'
    BY <2>1, SameMachine DEF Frame, PipeTypes
  <2>3. EventsInv'
    BY <2>1, SameMachine DEF Frame, EventsInv, IsOp
  <2>4. UserInv'
    BY <2>1, SameMachine DEF Frame, UserInv, Past
  <2>. QED BY <2>2, <2>3, <2>4 DEF Frame
<1>. QED BY <1>1, <1>2, <1>3 DEF Next

-----------------------------------------------------------------------------
(* The last graph, on every machine                                        *)

\* A stage that computes the last graph has its inputs: the copy of the activation is awaited
\* before, and nothing is before the head.
LEMMA HeadHasLast ==
  ASSUME Frame, LastInv, NEW b \in Stages, HeadIs(b, "compute"), Head(stream[b]).graph = graph
  PROVE  InputsAre(b, Head(stream[b]).copy, graph)
<1> DEFINE o == Head(stream[b])
<1>1. 1 \in DOMAIN stream[b] /\ o = stream[b][1] /\ o.op = "compute" /\ o.graph = graph
  BY HeadFacts DEF HeadIs
<1>2. HostPast(b) /\ o.copy = curCopy /\ LatestAt(b, 1)
  BY <1>1 DEF LastInv, GraphsInv, LatestAt, IsOp
<1>3. Takes(b, "user") => cpy[b]["user"][curCopy] = graph
  BY <1>1, <1>2 DEF Frame, UserInv
<1>4. ASSUME Takes(b, "prev") PROVE cpy[b]["prev"][curCopy] = graph
  <2>1. HandedOver(b)
    BY <1>2, <1>4 DEF LastInv, HandedInv
  <2>2. \A w \in DOMAIN stream[b] : ~(w < 1)
    BY StreamFacts DEF Frame
  <2>3. \A j \in DOMAIN stream[b-1], w \in DOMAIN stream[b] : ~Arrives(b, j, w)
    BY <1>1, <1>2, <2>2 DEF Arrives
  <2>. QED BY <2>1, <2>3 DEF HandedOver
<1>. QED BY <1>2, <1>3, <1>4 DEF InputsAre, Reads, Takes

LEMMA ComputingLast ==
  ASSUME Frame, LastInv, NEW b \in Stages, StartCompute(b) \/ FirstLayer(b)
  PROVE  LastInv'
<1> DEFINE o == Head(stream[b])
<1>1. /\ UNCHANGED <<machine, graph, split, input, curCopy, nextCopy, isAlloc, stream, recorded, reached, cpy>>
      /\ HeadIs(b, "compute") /\ 1 \in DOMAIN stream[b] /\ o = stream[b][1] /\ o.op = "compute"
      /\ \A d \in Stages : d # b => out'[d] = out[d] /\ phase'[d] = phase[d]
      /\ phase'[b] = 2 /\ InputsAre(b, o.copy, o.graph) => out'[b] = o.graph
  BY ComputingFacts
<1>2. \A d \in Stages : DOMAIN stream[d] = 1..Len(stream[d]) /\ Len(stream[d]) \in Nat
  BY StreamFacts DEF Frame
<1>3. ASSUME NEW d \in Stages, NEW j \in Nat \ {0}, Yields(d, j, graph), d = b => j > 1
      PROVE  Yields(d, j, graph)'
  <2>1. out'[d] = out[d] \/ (j > 1 /\ stream[d][1].op = "compute")
    BY <1>1, <1>3
  <2>2. \A h \in 1..j-1 : stream'[d][h] = stream[d][h]
    BY <1>1
  <2>3. Yields(d, j, graph)
    BY <1>3
  <2>4. graph' = graph
    BY <1>1
  <2>. QED BY <2>1, <2>2, <2>3, <2>4, YieldsStays
<1>4. GraphsInv'
  BY <1>1 DEF LastInv, GraphsInv, HostPast
<1>5. ResultInv'
  <2> SUFFICES ASSUME NEW d \in Stages
               PROVE  /\ HostPast(d) => Yields(d, Len(stream[d]) + 1, graph)'
                      /\ phase'[d] = 2 => HeadIs(d, "compute") /\ (Head(stream[d]).graph = graph => out'[d] = graph)
    BY <1>1 DEF ResultInv, HostPast, HeadIs
  <2>1. ASSUME HostPast(d) PROVE Yields(d, Len(stream[d]) + 1, graph)'
    <3>1. Yields(d, Len(stream[d]) + 1, graph) /\ Len(stream[d]) + 1 \in Nat \ {0}
      BY <1>2, <2>1 DEF LastInv, ResultInv
    <3>2. d = b => Len(stream[d]) + 1 > 1
      BY <1>1, <1>2
    <3>. QED BY <1>1, <1>3, <3>1, <3>2
  <2>2. ASSUME phase'[d] = 2
        PROVE  HeadIs(d, "compute") /\ (Head(stream[d]).graph = graph => out'[d] = graph)
    <3>1. CASE d = b
      BY <1>1, <2>2, <3>1, HeadHasLast
    <3>2. CASE d # b
      BY <1>1, <2>2, <3>2 DEF LastInv, ResultInv
    <3>. QED BY <3>1, <3>2
  <2>. QED BY <2>1, <2>2
<1>6. HandedInv'
  <2> SUFFICES ASSUME NEW d \in Stages, Takes(d, "prev"), HostPast(d) \/ Past(d, "prev") PROVE HandedOver(d)'
    BY <1>1, SameMachine DEF HandedInv, HostPast, Past
  <2>1. HandedOver(d) /\ d - 1 \in Stages
    BY MachineFacts DEF Frame, LastInv, HandedInv
  <2>2. CASE cpy[d]["prev"][curCopy] = graph /\ ~CopyPending(d, curCopy)
    BY <1>1, <2>2 DEF HandedOver, CopyPending, IsOp
  <2>3. CASE \E j \in DOMAIN stream[d-1], w \in DOMAIN stream[d] : Arrives(d, j, w)
    <3>1. PICK j \in DOMAIN stream[d-1], w \in DOMAIN stream[d] : Arrives(d, j, w)
      BY <2>3
    <3>2. j \in Nat \ {0} /\ (d - 1 = b => j > 1)
      BY <1>1, <1>2, <2>1, <3>1 DEF Arrives, LastCopyAt, IsOp
    <3>3. Yields(d - 1, j, graph)'
      BY <1>3, <2>1, <3>1, <3>2 DEF Arrives
    <3>4. Arrives(d, j, w)'
      BY <1>1, <3>1, <3>3 DEF Arrives, LastCopyAt, AwaitedAt, LatestAt, IsOp
    <3>. QED BY <1>1, <3>4 DEF HandedOver
  <2>. QED BY <2>1, <2>2, <2>3 DEF HandedOver
<1>. QED BY <1>4, <1>5, <1>6 DEF LastInv

LEMMA StartCopyLast ==
  ASSUME Frame, LastInv, NEW b \in Stages, StartCopy(b)
  PROVE  LastInv'
<1> DEFINE o == Head(stream[b])
<1>1. /\ UNCHANGED <<machine, graph, split, input, curCopy, nextCopy, isAlloc, stream, recorded, reached, out>>
      /\ o.copy \in Copies /\ o.to \in Stages /\ CopyPending(o.to, o.copy)
      /\ phase' = [phase EXCEPT ![b] = 1]
      /\ \A d \in Stages, c \in Copies : d # o.to \/ c # o.copy => cpy'[d]["prev"][c] = cpy[d]["prev"][c]
  BY StartCopyFacts
<1> HIDE DEF o
<1>2. curCopy \in Copies /\ phase \in [Stages -> 0..2]
  BY DEF Frame, PipeTypes
<1>3. GraphsInv'
  BY <1>1 DEF LastInv, GraphsInv, HostPast
<1>4. ResultInv'
  <2>1. \A d \in Stages : phase'[d] = 2 => phase[d] = 2
    BY <1>1, <1>2
  <2>. QED BY <1>1, <2>1 DEF LastInv, ResultInv, HostPast, HeadIs, Yields
<1>5. HandedInv'
  <2> SUFFICES ASSUME NEW d \in Stages, Takes(d, "prev"), HostPast(d) \/ Past(d, "prev") PROVE HandedOver(d)'
    BY <1>1, SameMachine DEF HandedInv, HostPast, Past
  <2>1. HandedOver(d)
    BY DEF LastInv, HandedInv
  <2>2. CASE cpy[d]["prev"][curCopy] = graph /\ ~CopyPending(d, curCopy)
    <3>1. cpy'[d]["prev"][curCopy] = graph
      BY <1>1, <1>2, <2>2
    <3>. QED BY <1>1, <2>2, <3>1 DEF HandedOver, CopyPending, IsOp
  <2>3. CASE \E j \in DOMAIN stream[d-1], w \in DOMAIN stream[d] : Arrives(d, j, w)
    BY <1>1, <2>3 DEF HandedOver, Arrives, LastCopyAt, AwaitedAt, LatestAt, IsOp, Yields
  <2>. QED BY <2>1, <2>2, <2>3 DEF HandedOver
<1>. QED BY <1>3, <1>4, <1>5 DEF LastInv

\* An operation is done: what is behind it moves up, at both ends of a copy.
LEMMA DoneLast ==
  ASSUME Frame, LastInv, NEW b \in Stages, Done(b), Delivers(b, graph)
  PROVE  LastInv'
<1> DEFINE o == Head(stream[b])
<1>1. UNCHANGED <<machine, graph, split, input, curCopy>>
  BY DEF Done
<1>2. \A d \in Stages : DOMAIN stream[d] = 1..Len(stream[d]) /\ Len(stream[d]) \in Nat
  BY StreamFacts DEF Frame
<1>3. ASSUME NEW d \in Stages, NEW i \in DOMAIN stream'[d]
      PROVE  \E h \in DOMAIN stream[d] : stream'[d][i] = stream[d][h] /\ h = IF d = b THEN i + 1 ELSE i
  BY DoneStreams
<1>4. PipeTypes' /\ curCopy \in Copies /\ phase'[b] = 0
  <2>1. phase' = [phase EXCEPT ![b] = 0] /\ phase \in [Stages -> 0..2]
    BY DEF Done, Finish, Frame, PipeTypes
  <2>. QED BY <2>1, DoneTypes DEF Frame, PipeTypes
<1>5. \A d \in Stages : DOMAIN stream'[d] = 1..Len(stream'[d]) /\ Len(stream'[d]) \in Nat
  <2> SUFFICES ASSUME NEW d \in Stages PROVE DOMAIN stream'[d] = 1..Len(stream'[d]) /\ Len(stream'[d]) \in Nat
    OBVIOUS
  <2>1. stream'[d] \in Seq(StreamOps)
    BY <1>4 DEF PipeTypes
  <2> HIDE DEF StreamOps
  <2>. QED BY <2>1, Leaves
<1>6. GraphsInv'
  <2> SUFFICES ASSUME NEW d \in Stages, NEW i \in DOMAIN stream'[d], stream'[d][i].op = "compute"
               PROVE  /\ stream'[d][i].graph <= graph
                      /\ stream'[d][i].graph = graph => HostPast(d) /\ stream'[d][i].copy = curCopy
    BY <1>1 DEF GraphsInv, HostPast
  <2>. QED BY <1>3 DEF LastInv, GraphsInv
<1>7. ResultInv'
  <2> SUFFICES ASSUME NEW d \in Stages
               PROVE  /\ HostPast(d) => Yields(d, Len(stream[d]) + 1, graph)'
                      /\ phase'[d] = 2 => HeadIs(d, "compute")' /\ (Head(stream'[d]).graph = graph => out'[d] = graph)
    BY <1>1 DEF ResultInv, HostPast
  <2>1. ASSUME HostPast(d) PROVE Yields(d, Len(stream[d]) + 1, graph)'
    <3>1. Yields(d, Len(stream[d]) + 1, graph)
      BY <2>1 DEF LastInv, ResultInv
    <3>2. Len(stream[d]) + 1 = IF d = b THEN (Len(stream'[d]) + 1) + 1 ELSE Len(stream'[d]) + 1
      BY DoneStreams
    <3>3. PICK i \in DOMAIN stream'[d] \cup {Len(stream'[d]) + 1} : i = Len(stream'[d]) + 1
      OBVIOUS
    <3>4. Yields(d, IF d = b THEN i + 1 ELSE i, graph)
      BY <3>1, <3>2, <3>3
    <3>5. PICK g : g = graph
      OBVIOUS
    <3>6. Yields(d, i, g)'
      BY <3>4, <3>5, DoneYields
    <3>. QED BY <1>1, <3>3, <3>5, <3>6
  <2>2. ASSUME phase'[d] = 2
        PROVE  HeadIs(d, "compute")' /\ (Head(stream'[d]).graph = graph => out'[d] = graph)
    <3>1. d # b
      BY <1>4, <2>2
    <3>2. stream'[d] = stream[d] /\ out'[d] = out[d] /\ phase[d] = 2
      BY <2>2, <3>1, DoneStreams, DoneTypes
    <3>. QED BY <3>2 DEF LastInv, ResultInv, HeadIs
  <2>. QED BY <2>1, <2>2
<1>8. HandedInv'
  <2> SUFFICES ASSUME NEW d \in Stages, Takes(d, "prev"), HostPast(d) \/ Past(d, "prev") PROVE HandedOver(d)'
    BY <1>1, SameMachine DEF HandedInv, HostPast, Past
  <2>1. PICK a \in Stages : a = d - 1 /\ a + 1 = d
    <3>1. d - 1 \in Stages /\ (d - 1) + 1 = d
      BY MachineFacts DEF Frame, Stages
    <3>. QED BY <3>1
  <2>2. HandedOver(d)
    BY DEF LastInv, HandedInv
  <2>3. CASE cpy[d]["prev"][curCopy] = graph /\ ~CopyPending(d, curCopy)
    <3>1. ~(o.op = "copy" /\ d = b + 1 /\ curCopy = o.copy)
      <4> SUFFICES ASSUME o.op = "copy", d = b + 1, curCopy = o.copy PROVE FALSE
        OBVIOUS
      <4>1. a = b
        BY <2>1 DEF Stages
      <4>. QED BY <2>1, <2>3, <4>1, DoneStreams DEF CopyPending, IsOp
    <3>2. cpy'[d]["prev"][curCopy] = graph
      BY <1>4, <2>3, <3>1, DoneTypes
    <3>3. ~CopyPending(d, curCopy)'
      BY <1>1, <1>3, <2>1, <2>3 DEF CopyPending, IsOp
    <3>. QED BY <1>1, <3>2, <3>3 DEF HandedOver
  <2>4. CASE \E j \in DOMAIN stream[d-1], w \in DOMAIN stream[d] : Arrives(d, j, w)
    <3>1. PICK j \in DOMAIN stream[a], w \in DOMAIN stream[a+1] : Arrives(d, j, w)
      BY <2>1, <2>4
    <3>2. LastCopyAt(a, j) /\ AwaitedAt(a, j, w) /\ Yields(a, j, graph)
      BY <2>1, <3>1 DEF Arrives
    <3>3. CASE a = b /\ j = 1
      <4>1. o.op = "copy" /\ o.copy = curCopy
        BY <3>2, <3>3, DoneStreams DEF LastCopyAt, IsOp
      <4>2. out[b] = graph
        BY <3>2, <3>3 DEF Yields
      <4>3. cpy'[d]["prev"][curCopy] = graph
        BY <1>4, <2>1, <3>3, <4>1, <4>2, DoneTypes
      <4>4. ASSUME NEW i \in DOMAIN stream'[b], stream'[b][i].op = "copy" PROVE stream'[b][i].copy # curCopy
        <5>1. i + 1 \in DOMAIN stream[b] /\ stream'[b][i] = stream[b][i+1] /\ 1 < i + 1
          BY DoneStreams
        <5>. QED BY <3>2, <3>3, <4>4, <5>1 DEF LastCopyAt
      <4>5. ~CopyPending(d, curCopy)'
        BY <1>1, <2>1, <3>3, <4>4 DEF CopyPending, IsOp
      <4>. QED BY <1>1, <4>3, <4>5 DEF HandedOver
    <3>4. CASE ~(a = b /\ j = 1)
      <4>1. PICK i \in DOMAIN stream'[a], v \in DOMAIN stream'[a+1] :
              /\ stream'[a][i] = stream[a][j] /\ j = IF a = b THEN i + 1 ELSE i
              /\ stream'[a+1][v] = stream[a+1][w] /\ w = IF a + 1 = b THEN v + 1 ELSE v
              /\ AwaitedAt(a, i, v)'
        <5>1. a = b => j # 1
          BY <3>4
        <5>. QED BY <2>1, <3>2, <5>1, DoneAwaited
      <4>2. Yields(a, i, graph)'
        <5>1. PICK g : g = graph
          OBVIOUS
        <5>2. Yields(a, IF a = b THEN i + 1 ELSE i, g)
          BY <3>2, <4>1, <5>1
        <5>3. Yields(a, i, g)'
          BY <5>1, <5>2, DoneYields
        <5>. QED BY <1>1, <5>1, <5>3
      <4>3. LastCopyAt(a, i)'
        <5>1. stream'[a][i].op = "copy" /\ stream'[a][i].copy = curCopy
          BY <3>2, <4>1 DEF LastCopyAt, IsOp
        <5>2. ASSUME NEW h \in DOMAIN stream'[a], i < h, stream'[a][h].op = "copy" PROVE stream'[a][h].copy # curCopy
          <6>1. PICK l \in DOMAIN stream[a] : stream'[a][h] = stream[a][l] /\ l = IF a = b THEN h + 1 ELSE h
            BY <1>3
          <6>2. j < l
            BY <1>5, <4>1, <5>2, <6>1
          <6>. QED BY <3>2, <5>2, <6>1, <6>2 DEF LastCopyAt
        <5>. QED BY <1>1, <5>1, <5>2 DEF LastCopyAt, IsOp
      <4>4. ASSUME NEW x \in DOMAIN stream'[d], LatestAt(d, x)' PROVE v < x
        <5>1. PICK l \in DOMAIN stream[d] : stream'[d][x] = stream[d][l] /\ l = IF d = b THEN x + 1 ELSE x
          BY <1>3
        <5>2. LatestAt(d, l)
          BY <1>1, <4>4, <5>1 DEF LatestAt, IsOp
        <5>3. w < l
          BY <3>1, <5>2 DEF Arrives
        <5>4. v \in Nat /\ x \in Nat
          BY <1>5, <2>1
        <5>. QED BY <2>1, <4>1, <5>1, <5>3, <5>4
      <4>5. Arrives(d, i, v)'
        BY <2>1, <4>1, <4>2, <4>3, <4>4 DEF Arrives
      <4>. QED BY <2>1, <4>5 DEF HandedOver
    <3>. QED BY <3>3, <3>4
  <2>. QED BY <2>2, <2>3, <2>4 DEF HandedOver
<1>. QED BY <1>6, <1>7, <1>8 DEF LastInv

LEMMA StreamsLast == ASSUME Frame, LastInv, NEW b \in Stages, Runs(b) PROVE LastInv'
<1> DEFINE o == Head(stream[b])
<1>1. CASE StartCompute(b) \/ FirstLayer(b)
  BY <1>1, ComputingLast
<1>2. CASE StartCopy(b)
  BY <1>2, StartCopyLast
<1>3. CASE EndCompute(b) \/ EndCopy(b) \/ Reach(b) \/ Pass(b)
  <2>1. /\ Done(b)
        /\ o.op = "compute" => phase[b] = 2
        /\ o.op = "compute" /\ InputsAre(b, o.copy, o.graph) /\ out[b] = o.graph => out'[b] = o.graph
    BY <1>3, EndsAreDone
  <2>2. ASSUME o.op = "compute", o.graph = graph PROVE out'[b] = graph
    <3>1. HeadIs(b, "compute")
      BY <2>1, <2>2 DEF Done, HeadIs
    <3>2. InputsAre(b, o.copy, graph)
      BY <2>2, <3>1, HeadHasLast
    <3>3. out[b] = graph
      BY <2>1, <2>2 DEF LastInv, ResultInv
    <3>. QED BY <2>1, <2>2, <3>2, <3>3
  <2>3. Delivers(b, graph)
    BY <2>2 DEF Delivers
  <2>. QED BY <2>1, <2>3, DoneLast
<1>. QED BY <1>1, <1>2, <1>3 DEF Runs

\* What is put at the end of the streams does not part the last graph from its activation.
LEMMA AddsHanded ==
  ASSUME Frame, Adds, UNCHANGED <<machine, graph, curCopy, out>>,
         NEW d \in Stages, d - 1 \in Stages, HandedOver(d),
         cpy'[d]["prev"][curCopy] = cpy[d]["prev"][curCopy],
         \A i \in DOMAIN stream'[d-1] : i > Len(stream[d-1]) => stream'[d-1][i].op # "copy"
  PROVE  HandedOver(d)'
<1> DEFINE a == d - 1
<1>1. \A b \in Stages :
        /\ DOMAIN stream[b] = 1..Len(stream[b]) /\ DOMAIN stream'[b] = 1..Len(stream'[b])
        /\ Len(stream[b]) \in Nat /\ Len(stream'[b]) \in Nat /\ Len(stream[b]) <= Len(stream'[b])
        /\ \A i \in DOMAIN stream[b] : i \in DOMAIN stream'[b] /\ stream'[b][i] = stream[b][i]
  BY AddsFacts
<1>2. ASSUME NEW i \in DOMAIN stream'[a], stream'[a][i].op = "copy"
      PROVE  i \in DOMAIN stream[a] /\ stream'[a][i] = stream[a][i]
  BY <1>1, <1>2
<1>3. CASE cpy[d]["prev"][curCopy] = graph /\ ~CopyPending(d, curCopy)
  BY <1>2, <1>3 DEF HandedOver, CopyPending, IsOp
<1>4. CASE \E j \in DOMAIN stream[a], w \in DOMAIN stream[d] : Arrives(d, j, w)
  <2>1. PICK j \in DOMAIN stream[a], w \in DOMAIN stream[d] : Arrives(d, j, w)
    BY <1>4
  <2>2. LastCopyAt(a, j) /\ AwaitedAt(a, j, w) /\ Yields(a, j, graph)
    BY <2>1 DEF Arrives
  <2>3. LastCopyAt(a, j)'
    BY <1>1, <1>2, <2>2 DEF LastCopyAt, IsOp
  <2>4. AwaitedAt(a, j, w)'
    <3>1. a + 1 = d /\ a \in Stages
      BY DEF Stages
    <3>2. /\ j + 1 \in DOMAIN stream[a] /\ stream[a][j+1].op = "record" /\ stream[a][j+1].event = <<a, 0>>
          /\ w \in DOMAIN stream[d] /\ stream[d][w].op = "wait" /\ stream[d][w].event = <<a, 0>>
          /\ stream[d][w].nth = stream[a][j+1].nth
      BY <2>2, <3>1 DEF AwaitedAt, IsOp
    <3>3. /\ j + 1 \in DOMAIN stream'[a] /\ stream'[a][j+1] = stream[a][j+1]
          /\ w \in DOMAIN stream'[d] /\ stream'[d][w] = stream[d][w]
      BY <1>1, <3>1, <3>2
    <3> HIDE DEF a
    <3>. QED BY <3>1, <3>2, <3>3 DEF AwaitedAt, IsOp
  <2>5. Yields(a, j, graph)'
    <3>1. j \in 1..Len(stream[a]) + 1
      BY <1>1, <2>1
    <3>2. PICK g : g = graph
      OBVIOUS
    <3>3. Yields(a, j, g)'
      BY <2>2, <3>1, <3>2, AddsYields
    <3>. QED BY <3>2, <3>3
  <2>6. ASSUME NEW x \in DOMAIN stream'[d], LatestAt(d, x)' PROVE w < x
    <3>1. CASE x \in DOMAIN stream[d]
      BY <1>1, <2>1, <2>6, <3>1 DEF Arrives, LatestAt, IsOp
    <3>2. CASE x \notin DOMAIN stream[d]
      BY <1>1, <2>1, <3>2
    <3>. QED BY <3>1, <3>2
  <2>7. Arrives(d, j, w)'
    BY <2>3, <2>4, <2>5, <2>6 DEF Arrives
  <2>8. j \in DOMAIN stream'[a] /\ w \in DOMAIN stream'[d]
    BY <1>1, <2>1
  <2>. QED BY <2>7, <2>8 DEF HandedOver
<1>. QED BY <1>3, <1>4 DEF HandedOver

\* The head of a stream stays.
LEMMA AddsHead ==
  ASSUME Frame, Adds, NEW b \in Stages, stream[b] # <<>>
  PROVE  stream'[b] # <<>> /\ Head(stream'[b]) = Head(stream[b])
<1>1. stream[b] \in Seq(StreamOps) /\ stream'[b] \in Seq(StreamOps)
  BY StreamFacts DEF Frame, Adds
<1> HIDE DEF StreamOps
<1>2. 1 \in DOMAIN stream[b] /\ Head(stream[b]) = stream[b][1]
  BY <1>1, Leaves
<1>3. stream'[b] # <<>> => Head(stream'[b]) = stream'[b][1]
  BY <1>1, Leaves
<1>4. 1 \in DOMAIN stream[b] => stream'[b][1] = stream[b][1] /\ 1 \in DOMAIN stream'[b]
  BY AddsFacts
<1>. QED BY <1>2, <1>3, <1>4

\* The last graph stays the last, and what it is computed from and yields; no split is queued.
LEMMA AddsLatest ==
  ASSUME Frame, LastInv, Adds, AtInput("user") \/ AtInput("prev"), NextInput, UNCHANGED <<phase, out>>,
         \A b \in Stages : \A i \in DOMAIN stream'[b] : i > Len(stream[b]) => stream'[b][i].op # "compute"
  PROVE  GraphsInv' /\ ResultInv'
<1>1. UNCHANGED <<machine, graph, split, curCopy>>
  BY DEF NextInput
<1>2. \A b \in Stages : \A i \in DOMAIN stream'[b] : stream'[b][i].op = "compute" =>
        i \in DOMAIN stream[b] /\ stream'[b][i] = stream[b][i]
  BY NothingQueued
<1>3. GraphsInv'
  BY <1>1, <1>2 DEF LastInv, GraphsInv, HostPast
<1>4. ResultInv'
  <2> SUFFICES ASSUME NEW b \in Stages
               PROVE  /\ HostPast(b) => Yields(b, Len(stream[b]) + 1, graph)'
                      /\ phase[b] = 2 => HeadIs(b, "compute")' /\ (Head(stream'[b]).graph = graph => out[b] = graph)
    BY <1>1 DEF ResultInv, HostPast
  <2>1. ASSUME HostPast(b) PROVE Yields(b, Len(stream[b]) + 1, graph)'
    <3>1. PICK g : g = graph
      OBVIOUS
    <3>2. Yields(b, Len(stream[b]) + 1, g)
      BY <2>1, <3>1 DEF LastInv, ResultInv
    <3>3. Yields(b, Len(stream[b]) + 1, g)'
      BY <3>2, AddsLast
    <3>. QED BY <1>1, <3>1, <3>3
  <2>2. stream[b] # <<>> => stream'[b] # <<>> /\ Head(stream'[b]) = Head(stream[b])
    BY AddsHead
  <2>. QED BY <2>1, <2>2 DEF LastInv, ResultInv, HeadIs
<1>. QED BY <1>3, <1>4

LEMMA CopyUserLast == ASSUME Frame, LastInv, CopyUser PROVE LastInv'
<1>1. /\ AtInput("user")
      /\ UNCHANGED <<machine, graph, split, curCopy, nextCopy, isAlloc, stream, phase, recorded, reached, out>>
      /\ \A b \in Stages : Past(b, "prev")' <=> Past(b, "prev")
      /\ \A d \in Stages, e \in Copies : cpy'[d]["prev"][e] = cpy[d]["prev"][e]
  BY CopyUserFacts
<1>2. curCopy \in Copies
  BY DEF Frame, PipeTypes
<1>3. GraphsInv' /\ ResultInv'
  BY <1>1 DEF LastInv, GraphsInv, ResultInv, HostPast, Yields, HeadIs
<1>4. HandedInv'
  <2> SUFFICES ASSUME NEW d \in Stages, Takes(d, "prev"), HostPast(d) \/ Past(d, "prev") PROVE HandedOver(d)'
    BY <1>1, SameMachine DEF HandedInv, HostPast
  <2>1. HandedOver(d)
    BY DEF LastInv, HandedInv
  <2>2. cpy'[d]["prev"][curCopy] = cpy[d]["prev"][curCopy]
    BY <1>1, <1>2
  <2>. QED BY <1>1, <2>1, <2>2 DEF HandedOver, CopyPending, Arrives, LastCopyAt, AwaitedAt, LatestAt, IsOp, Yields
<1>. QED BY <1>3, <1>4 DEF LastInv

LEMMA CopySyncLast == ASSUME Frame, LastInv, CopySync PROVE LastInv'
<1> HIDE DEF StreamOps
<1>1. /\ AtInput("prev") /\ ~machine.async /\ Drained(split - 1) /\ NextInput
      /\ split \in Stages /\ split - 1 \in Stages
      /\ UNCHANGED <<phase, recorded, reached, out>>
      /\ UNCHANGED <<machine, graph, split, curCopy, nextCopy, isAlloc>>
      /\ Adds
      /\ \A b \in Stages : \A i \in DOMAIN stream'[b] : i > Len(stream[b]) => stream'[b][i].op = "wait"
      /\ cpy'[split]["prev"][curCopy] = out[split-1]
      /\ \A d \in Stages, e \in Copies : d # split \/ e # curCopy => cpy'[d]["prev"][e] = cpy[d]["prev"][e]
  BY CopySyncFacts
<1>2. curCopy \in Copies
  BY DEF Frame, PipeTypes
<1>3. GraphsInv' /\ ResultInv'
  BY <1>1, AddsLatest
\* devices that do not copy on streams have no copies there
<1>4. \A b \in Stages : \A i \in DOMAIN stream'[b] : stream'[b][i].op # "copy"
  <2> SUFFICES ASSUME NEW b \in Stages, NEW i \in DOMAIN stream'[b], stream'[b][i].op = "copy" PROVE FALSE
    OBVIOUS
  <2>1. i \in DOMAIN stream[b] /\ stream'[b][i] = stream[b][i]
    BY <1>1, AddsFacts
  <2>. QED BY <1>1, <2>1 DEF Frame, EventsInv
<1>5. \A d \in Stages : ~CopyPending(d, curCopy)'
  BY <1>4 DEF CopyPending, IsOp
<1>6. out[split-1] = graph
  <2>1. split # 0 /\ split > split - 1
    BY <1>1 DEF Stages
  <2>2. Yields(split - 1, Len(stream[split-1]) + 1, graph)
    BY <1>1, <2>1 DEF LastInv, ResultInv, HostPast
  <2>3. Len(stream[split-1]) = 0
    BY <1>1 DEF Drained
  <2>. QED BY <2>2, <2>3 DEF Yields
<1>7. HandedInv'
  <2> SUFFICES ASSUME NEW d \in Stages, Takes(d, "prev"), HostPast(d) \/ Past(d, "prev")' PROVE HandedOver(d)'
    BY <1>1, SameMachine DEF HandedInv, HostPast
  <2>1. CASE d = split
    BY <1>1, <1>5, <1>6, <2>1 DEF HandedOver
  <2>2. CASE d # split
    <3>1. HostPast(d)
      BY <1>1, <2>2, InputMoves DEF Past
    <3>2. HandedOver(d) /\ d - 1 \in Stages
      BY <3>1, MachineFacts DEF Frame, LastInv, HandedInv
    <3>3. cpy'[d]["prev"][curCopy] = cpy[d]["prev"][curCopy]
      BY <1>1, <1>2, <2>2
    <3>. QED BY <1>1, <1>4, <3>2, <3>3, AddsHanded
  <2>. QED BY <2>1, <2>2
<1>. QED BY <1>3, <1>7 DEF LastInv

\* The copy for the last graph is queued behind all others, and so is the wait for it.
LEMMA CopyAsyncLast == ASSUME Frame, LastInv, CopyAsync PROVE LastInv'
<1>1. PICK from, n, e : QueuesCopy(from, n, e)
  BY CopyAsyncAdds
<1>2. /\ from = split - 1 /\ n = recorded[<<from, 0>>] + 1 /\ e = <<from, 0>>
      /\ AtInput("prev") /\ NextInput /\ UNCHANGED <<phase, cpy, out>>
      /\ UNCHANGED <<machine, graph, split, curCopy>>
      /\ split \in Stages /\ from \in Stages /\ from + 1 = split /\ Adds
  BY <1>1 DEF QueuesCopy
<1>3. ASSUME NEW b \in Stages, NEW i \in DOMAIN stream'[b], i > Len(stream[b])
      PROVE  /\ stream'[b][i].op # "compute"
             /\ stream'[b][i].op = "copy" => b = from /\ i = Len(stream[from]) + 1
  BY <1>1, <1>3 DEF QueuesCopy
<1>4. GraphsInv' /\ ResultInv'
  BY <1>2, <1>3, AddsLatest
<1>5. PICK j, w : j = Len(stream[from]) + 1 /\ w = Len(stream'[split])
  OBVIOUS
<1>6. /\ n \in Nat /\ Len(stream'[from]) = Len(stream[from]) + 2
      /\ stream'[from][j] = CopyTo(split, curCopy)
      /\ stream'[from][Len(stream[from]) + 2] = Record(e, n)
      /\ w >= Len(stream[split]) + 1
      /\ stream'[split][w] = Await(e, n)
  BY <1>2, <1>5, CopyAsyncStreams
<1>7. \A b \in Stages :
        /\ DOMAIN stream[b] = 1..Len(stream[b]) /\ DOMAIN stream'[b] = 1..Len(stream'[b])
        /\ Len(stream[b]) \in Nat /\ Len(stream'[b]) \in Nat /\ Len(stream[b]) <= Len(stream'[b])
        /\ \A i \in DOMAIN stream[b] : i \in DOMAIN stream'[b] /\ stream'[b][i] = stream[b][i]
  BY <1>2, AddsFacts
<1>8. j \in DOMAIN stream'[from] /\ j + 1 \in DOMAIN stream'[from] /\ w \in DOMAIN stream'[split] /\ j + 1 = Len(stream[from]) + 2
  BY <1>2, <1>6, <1>7, <1>5
<1>9. LastCopyAt(from, j)'
  <2>1. stream'[from][j].op = "copy" /\ stream'[from][j].copy = curCopy
    BY <1>6 DEF CopyTo
  <2>2. ASSUME NEW h \in DOMAIN stream'[from], j < h PROVE stream'[from][h].op # "copy"
    <3>1. h > Len(stream[from]) /\ h # j
      BY <1>2, <1>7, <1>5, <2>2
    <3>. QED BY <1>2, <1>3, <1>5, <3>1
  <2>. QED BY <1>2, <1>8, <2>1, <2>2 DEF LastCopyAt, IsOp
<1>10. AwaitedAt(from, j, w)'
  <2>1. stream'[from][j+1].op = "record" /\ stream'[from][j+1].event = e /\ stream'[from][j+1].nth = n
    BY <1>6, <1>8 DEF Record
  <2>2. stream'[split][w].op = "wait" /\ stream'[split][w].event = e /\ stream'[split][w].nth = n
    BY <1>6 DEF Await
  <2>. QED BY <1>2, <1>8, <2>1, <2>2 DEF AwaitedAt, IsOp
<1>11. Yields(from, j, graph)'
  <2>1. split # 0 /\ split > from
    BY <1>2 DEF Stages
  <2>2. PICK g : g = graph
    OBVIOUS
  <2>3. Yields(from, Len(stream[from]) + 1, g)
    BY <1>2, <2>1, <2>2 DEF LastInv, ResultInv, HostPast
  <2>4. j \in 1..Len(stream[from]) + 1 /\ Yields(from, j, g)
    BY <1>2, <1>7, <1>5, <2>3
  <2>5. Yields(from, j, g)'
    BY <1>2, <2>4, AddsYields
  <2>. QED BY <1>2, <2>2, <2>5
<1>12. \A x \in DOMAIN stream'[split] : ~LatestAt(split, x)'
  <2> SUFFICES ASSUME NEW x \in DOMAIN stream'[split], LatestAt(split, x)' PROVE FALSE
    OBVIOUS
  <2>1. stream'[split][x].op = "compute" /\ stream'[split][x].graph = graph
    BY <1>2 DEF LatestAt, IsOp
  <2>2. x \in DOMAIN stream[split] /\ stream'[split][x] = stream[split][x]
    BY <1>2, <1>3, <1>7, <2>1
  <2>3. HostPast(split)
    BY <1>2, <2>1, <2>2 DEF LastInv, GraphsInv
  <2>. QED BY <1>2, <2>3 DEF HostPast, Stages
<1>13. HandedInv'
  <2> SUFFICES ASSUME NEW d \in Stages, Takes(d, "prev"), HostPast(d) \/ Past(d, "prev")' PROVE HandedOver(d)'
    BY <1>2, SameMachine DEF HandedInv, HostPast
  <2>1. CASE d = split
    <3>1. d - 1 = from
      BY <1>2, <2>1
    <3>2. Arrives(d, j, w)'
      BY <1>2, <1>9, <1>10, <1>11, <1>12, <2>1, <3>1 DEF Arrives
    <3>. QED BY <1>8, <2>1, <3>1, <3>2 DEF HandedOver
  <2>2. CASE d # split
    <3>1. HostPast(d)
      BY <1>2, <2>2, InputMoves DEF Past
    <3>2. HandedOver(d) /\ d - 1 \in Stages
      BY <3>1, MachineFacts DEF Frame, LastInv, HandedInv
    <3>3. d - 1 # from
      BY <1>2, <2>2 DEF Stages
    <3>. QED BY <1>2, <1>3, <3>2, <3>3, AddsHanded
  <2>. QED BY <2>1, <2>2
<1>. QED BY <1>4, <1>13 DEF LastInv

\* A split of the last graph is queued: its activation has been handed over before.
LEMMA ComputeSplitLast == ASSUME Frame, LastInv, ComputeSplit PROVE LastInv'
<1>1. PICK s, e, n, p : QueuesCompute(s, e, n, p)
  BY ComputeSplitFacts
<1>2. /\ p = Len(stream[s]) + 1 /\ s \in Stages /\ (Takes(s, "prev") => Past(s, "prev"))
      /\ Adds /\ \A b \in Stages : b # s => stream'[b] = stream[b]
      /\ input' = 1 /\ UNCHANGED <<machine, graph, curCopy, phase, cpy, out>>
      /\ split = s /\ split' = (IF s < NStages THEN s + 1 ELSE 0) /\ s <= NStages
      /\ p \in DOMAIN stream'[s] /\ p \in Nat \ {0} /\ stream'[s][p].op = "compute"
      /\ stream'[s][p].graph = graph /\ stream'[s][p].copy = curCopy
  BY <1>1 DEF QueuesCompute
<1>3. ASSUME NEW b \in Stages, NEW i \in DOMAIN stream'[b]
      PROVE  /\ stream'[b][i].op = "compute" =>
                  (i \in DOMAIN stream[b] /\ stream'[b][i] = stream[b][i]) \/ (b = s /\ i = p)
             /\ stream'[b][i].op = "copy" => i \in DOMAIN stream[b]
  BY <1>1, <1>3 DEF QueuesCompute
<1>4. graph \in Nat /\ NStages \in Nat
  BY MachineFacts DEF Frame, PipeTypes
<1>5. \A d \in Stages : HostPast(d)' <=> HostPast(d) \/ d = s
  BY <1>2, <1>4 DEF HostPast, Stages
<1>6. \A b \in Stages, k \in {"user", "prev"} : ~Past(b, k)'
  BY <1>2, NothingPast
<1>7. \A b \in Stages :
        /\ DOMAIN stream[b] = 1..Len(stream[b]) /\ DOMAIN stream'[b] = 1..Len(stream'[b])
        /\ Len(stream[b]) \in Nat /\ Len(stream'[b]) \in Nat /\ Len(stream[b]) <= Len(stream'[b])
        /\ \A i \in DOMAIN stream[b] : i \in DOMAIN stream'[b] /\ stream'[b][i] = stream[b][i]
  BY <1>2, AddsFacts
<1>8. GraphsInv'
  <2> SUFFICES ASSUME NEW b \in Stages, NEW i \in DOMAIN stream'[b], stream'[b][i].op = "compute"
               PROVE  /\ stream'[b][i].graph <= graph
                      /\ stream'[b][i].graph = graph => HostPast(b)' /\ stream'[b][i].copy = curCopy
    BY <1>2 DEF GraphsInv
  <2>1. CASE i \in DOMAIN stream[b] /\ stream'[b][i] = stream[b][i]
    BY <1>5, <2>1 DEF LastInv, GraphsInv
  <2>2. CASE b = s /\ i = p
    BY <1>2, <1>4, <1>5, <2>2
  <2>. QED BY <1>3, <2>1, <2>2
<1>9. ResultInv'
  <2> SUFFICES ASSUME NEW b \in Stages
               PROVE  /\ HostPast(b)' => Yields(b, Len(stream[b]) + 1, graph)'
                      /\ phase[b] = 2 => HeadIs(b, "compute")' /\ (Head(stream'[b]).graph = graph => out[b] = graph)
    BY <1>2 DEF ResultInv
  <2>1. ASSUME HostPast(b)' PROVE Yields(b, Len(stream[b]) + 1, graph)'
    <3>1. CASE b = s
      <4>1. (Len(stream'[s]) + 1) - 1 = Len(stream'[s]) /\ p \in 1..Len(stream'[s])
        BY <1>2, <1>7
      <4>2. ASSUME NEW h \in p+1..Len(stream'[s]) PROVE stream'[s][h].op # "compute"
        <5>1. h \in DOMAIN stream'[s] /\ h # p /\ h \notin DOMAIN stream[s]
          BY <1>2, <1>7, <4>2
        <5>. QED BY <1>2, <1>3, <5>1
      <4>. QED BY <1>2, <3>1, <4>1, <4>2 DEF Yields
    <3>2. CASE b # s
      <4>1. HostPast(b) /\ stream'[b] = stream[b] /\ out'[b] = out[b] /\ graph' = graph
        BY <1>2, <1>5, <2>1, <3>2
      <4>. QED BY <4>1 DEF LastInv, ResultInv, Yields
    <3>. QED BY <3>1, <3>2
  <2>2. stream[b] # <<>> => stream'[b] # <<>> /\ Head(stream'[b]) = Head(stream[b])
    BY <1>2, AddsHead
  <2>. QED BY <2>1, <2>2 DEF LastInv, ResultInv, HeadIs
<1>10. HandedInv'
  <2> SUFFICES ASSUME NEW d \in Stages, Takes(d, "prev"), HostPast(d) \/ d = s PROVE HandedOver(d)'
    BY <1>2, <1>5, <1>6, SameMachine DEF HandedInv
  <2>1. HandedOver(d) /\ d - 1 \in Stages
    BY <1>2, MachineFacts DEF Frame, LastInv, HandedInv
  <2>2. \A i \in DOMAIN stream'[d-1] : i > Len(stream[d-1]) => stream'[d-1][i].op # "copy"
    BY <1>3, <1>7, <2>1
  <2>. QED BY <1>2, <2>1, <2>2, AddsHanded
<1>. QED BY <1>8, <1>9, <1>10 DEF LastInv

\* A graph that is begun has nothing queued yet; between two graphs nothing changes.
LEMMA BetweenLast == ASSUME Frame, LastInv, Alloc \/ Reset \/ Synchronize \/ Reuse PROVE LastInv'
<1>1. /\ Idle /\ UNCHANGED <<machine, stream, phase, recorded, reached, cpy, out>>
      /\ \A b \in Stages, k \in {"user", "prev"} : ~Past(b, k) /\ ~Past(b, k)'
  BY BetweenFrame
<1>2. CASE split' = 0 /\ graph' = graph /\ input' = input /\ curCopy' = curCopy
  <2>1. split' = split
    BY <1>1, <1>2 DEF Idle
  <2>2. GraphsInv' /\ ResultInv'
    BY <1>1, <1>2, <2>1 DEF LastInv, GraphsInv, ResultInv, HostPast, Yields, HeadIs
  <2>3. HandedInv'
    <3> SUFFICES ASSUME NEW d \in Stages, Takes(d, "prev"), HostPast(d) PROVE HandedOver(d)'
      BY <1>1, <2>1, SameMachine DEF HandedInv, HostPast
    <3>1. HandedOver(d)
      BY DEF LastInv, HandedInv
    <3>. QED BY <1>1, <1>2, <3>1
             DEF HandedOver, CopyPending, Arrives, LastCopyAt, AwaitedAt, LatestAt, IsOp, Yields
  <2>. QED BY <2>2, <2>3 DEF LastInv
<1>3. CASE split' = 1 /\ input' = 1 /\ graph' = graph + 1
  <2>1. \A b \in Stages : ~HostPast(b)'
    BY <1>3 DEF HostPast, Stages
  <2>2. graph \in Nat
    BY DEF Frame, PipeTypes
  <2>3. \A b \in Stages : \A i \in DOMAIN stream[b] : stream[b][i].op = "compute" =>
          stream[b][i].graph \in Nat /\ stream[b][i].graph <= graph
    <3> SUFFICES ASSUME NEW b \in Stages, NEW i \in DOMAIN stream[b], stream[b][i].op = "compute"
                 PROVE  stream[b][i].graph \in Nat
      BY DEF LastInv, GraphsInv
    <3>1. stream[b][i] \in StreamOps
      <4>1. stream[b] \in Seq(StreamOps)
        BY StreamFacts DEF Frame
      <4> HIDE DEF StreamOps
      <4>. QED BY <4>1
    <3>. QED BY <3>1 DEF StreamOps
  <2>4. GraphsInv'
    BY <1>1, <1>3, <2>2, <2>3 DEF GraphsInv
  <2>5. ResultInv'
    <3> SUFFICES ASSUME NEW b \in Stages, phase[b] = 2 PROVE HeadIs(b, "compute") /\ Head(stream[b]).graph # graph + 1
      BY <1>1, <1>3, <2>1 DEF ResultInv, HeadIs
    <3>1. HeadIs(b, "compute")
      BY DEF LastInv, ResultInv
    <3>2. 1 \in DOMAIN stream[b] /\ Head(stream[b]) = stream[b][1]
      BY <3>1, StreamFacts DEF Frame, HeadIs
    <3>. QED BY <2>2, <2>3, <3>1, <3>2 DEF HeadIs
  <2>6. HandedInv'
    BY <1>1, <2>1 DEF HandedInv
  <2>. QED BY <2>4, <2>5, <2>6 DEF LastInv
<1>. QED BY <1>2, <1>3, BetweenFrame

LEMMA LastStep == Frame /\ LastInv /\ [Next]_vars => LastInv'
<1> SUFFICES ASSUME Frame, LastInv, [Next]_vars PROVE LastInv'
  OBVIOUS
<1>1. CASE \E b \in Stages : Runs(b)
  BY <1>1, StreamsLast
<1>2. CASE Host
  BY <1>2, BetweenLast, CopyUserLast, CopyAsyncLast, CopySyncLast, ComputeSplitLast DEF Host
<1>3. CASE UNCHANGED vars
  <2>1. UNCHANGED <<machine, graph, split, input, curCopy, nextCopy, isAlloc, stream, phase, recorded, reached, cpy, out>>
    BY <1>3 DEF vars, hostVars
  <2>2. GraphsInv' /\ ResultInv'
    BY <2>1 DEF LastInv, GraphsInv, ResultInv, HostPast, Yields, HeadIs
  <2>3. HandedInv'
    <3> SUFFICES ASSUME NEW d \in Stages, Takes(d, "prev"), HostPast(d) \/ Past(d, "prev") PROVE HandedOver(d)'
      BY <2>1, SameMachine DEF HandedInv, HostPast, Past
    <3>1. HandedOver(d)
      BY DEF LastInv, HandedInv
    <3>. QED BY <2>1, <3>1 DEF HandedOver, CopyPending, Arrives, LastCopyAt, AwaitedAt, LatestAt, IsOp, Yields
  <2>. QED BY <2>2, <2>3 DEF LastInv
<1>. QED BY <1>1, <1>2, <1>3 DEF Next

-----------------------------------------------------------------------------
(* Every graph, where the host waits: the steps of the streams             *)

\* A stage that begins to compute has the inputs of its graph, whole.
LEMMA HeadHasInputs ==
  ASSUME PipeInv, NEW b \in Stages, HeadIs(b, "compute")
  PROVE  InputsAre(b, Head(stream[b]).copy, Head(stream[b]).graph)
<1>0. Frame
  BY DEF PipeInv, Frame
<1> USE <1>0
<1> DEFINE o == Head(stream[b])
<1>1. 1 \in DOMAIN stream[b] /\ o = stream[b][1] /\ o.op = "compute"
  BY StreamFacts DEF HeadIs, PipeInv
<1>2. Takes(b, "user") => cpy[b]["user"][o.copy] = o.graph
  BY <1>1 DEF PipeInv, UserInv
<1>3. ASSUME Takes(b, "prev") PROVE cpy[b]["prev"][o.copy] = o.graph
  <2>1. SUFFICES ASSUME CopyPending(b, o.copy) PROVE FALSE
    BY <1>1, <1>3 DEF PipeInv, PrevInv
  <2>2. PICK j \in DOMAIN stream[b-1] : stream[b-1][j].op = "copy" /\ stream[b-1][j].copy = o.copy
    BY <2>1 DEF CopyPending, IsOp
  <2>3. b - 1 \in Stages /\ (b - 1) + 1 = b
    BY <1>3, MachineFacts DEF PipeInv, Stages
  <2>4. PICK w \in DOMAIN stream[b] : NeededBy(b - 1, j, w)
    BY <2>2, <2>3 DEF PipeInv, TransferInv
  <2>5. \A i \in DOMAIN stream[b] : stream[b][i].op = "compute" /\ stream[b][i].copy = o.copy => i = 1
    BY <1>1 DEF PipeInv, CopiesInv
  <2>6. ~(w < 1)
    BY <2>4, StreamFacts DEF PipeInv
  <2>7. Past(b, "prev") /\ curCopy = o.copy
    BY <2>2, <2>3, <2>4, <2>5, <2>6 DEF NeededBy
  <2>8. split = b /\ split > 0 /\ input > 1
    <3>1. \A p \in DOMAIN InputsOf(b) : p \in {1, 2}
      BY MachineFacts, InputsShape DEF PipeInv
    <3>2. input \in Nat
      BY DEF PipeInv, PipeTypes
    <3>. QED BY <2>7, <3>1, <3>2 DEF Past, Stages
  <2>. QED BY <1>1, <2>7, <2>8 DEF PipeInv, CopiesInv, NoneWith
<1>4. \A k : Reads(b, k) => Takes(b, k)
  BY DEF Reads, Takes
<1>. QED BY <1>2, <1>3, <1>4 DEF InputsAre

\* A stage begins to compute, or is through its first layer.
LEMMA ComputingKeeps ==
  ASSUME PipeInv, NEW b \in Stages, StartCompute(b) \/ FirstLayer(b)
  PROVE  PipeInv'
<1>0. Frame
  BY DEF PipeInv, Frame
<1> USE <1>0
<1> DEFINE o == Head(stream[b])
<1>1. /\ UNCHANGED <<machine, graph, split, input, curCopy, nextCopy, isAlloc, stream, recorded, reached, cpy>>
      /\ HeadIs(b, "compute") /\ 1 \in DOMAIN stream[b] /\ o = stream[b][1] /\ o.op = "compute"
      /\ \A d \in Stages : d # b => out'[d] = out[d] /\ phase'[d] = phase[d]
      /\ phase'[b] > 0
      /\ phase'[b] = 2 /\ InputsAre(b, o.copy, o.graph) => out'[b] = o.graph
  BY ComputingFacts
<1>2. phase'[b] = 2 => out'[b] = o.graph
  BY <1>1, HeadHasInputs
<1>6. Frame'
  BY StreamsFrame DEF Runs
<1>8. CopiesInv'
  BY <1>1, SameMachine DEF PipeInv, CopiesInv, NoneWith
<1>9. PrevInv'
  BY <1>1, SameMachine DEF PipeInv, PrevInv, Past, CopyPending, IsOp
<1>10. ASSUME NEW d \in Stages, NEW j \in DOMAIN stream[d] \cup {Len(stream[d]) + 1}, NEW g, Yields(d, j, g),
              d = b => j # 1
       PROVE  Yields(d, j, g)'
  <2>1. j \in Nat \ {0}
    BY StreamFacts DEF PipeInv
  <2>2. CASE d = b
    BY <1>1, <1>2, <1>10, <2>1, <2>2, YieldsStays
  <2>3. CASE d # b
    BY <1>1, <1>10, <2>1, <2>3, YieldsStays
  <2>. QED BY <2>2, <2>3
<1>11. TransferInv'
  <2>1. ASSUME NEW d \in Stages, NEW j \in DOMAIN stream[d], stream[d][j].op = "copy"
        PROVE  \E w \in DOMAIN stream[d+1] : AwaitedAt(d, j, w)' /\ NeededBy(d, j, w)'
    <3>1. d = b => j # 1
      BY <1>1, <2>1
    <3>2. PICK w \in DOMAIN stream[d+1] : AwaitedAt(d, j, w) /\ NeededBy(d, j, w)
      BY <2>1 DEF PipeInv, TransferInv
    <3>3. AwaitedAt(d, j, w)'
      BY <1>1, <3>2 DEF AwaitedAt, IsOp
    <3>4. NeededBy(d, j, w)'
      BY <1>1, <1>10, <3>1, <3>2 DEF NeededBy, Past, InputsOf
    <3>. QED BY <3>3, <3>4
  <2>. QED BY <1>1, <2>1 DEF PipeInv, TransferInv
<1>12. OutInv'
  <2>1. \A d \in Stages : Yields(d, Len(stream[d]) + 1, Queued(d))'
    <3> SUFFICES ASSUME NEW d \in Stages PROVE Yields(d, Len(stream[d]) + 1, Queued(d))'
      OBVIOUS
    <3>1. Yields(d, Len(stream[d]) + 1, Queued(d)) /\ Queued(d)' = Queued(d) /\ stream' = stream
      BY <1>1 DEF PipeInv, OutInv, Queued
    <3>2. d = b => Len(stream[d]) + 1 # 1
      BY <1>1, StreamFacts DEF PipeInv
    <3>3. \A j, g : j = Len(stream[d]) + 1 /\ Yields(d, j, g) => Yields(d, j, g)'
      BY <1>10, <3>2
    <3>. QED BY <3>1, <3>3 DEF Yields
  <2>. QED BY <1>1, <1>2, <2>1 DEF PipeInv, OutInv, HeadIs
<1>. QED BY <1>6, <1>8, <1>9, <1>11, <1>12 DEF PipeInv, Frame

\* A copy begins: until it ends, its destination has nothing whole.
LEMMA StartCopyKeeps ==
  ASSUME PipeInv, NEW b \in Stages, StartCopy(b) PROVE PipeInv'
<1>0. Frame
  BY DEF PipeInv, Frame
<1> USE <1>0
<1> DEFINE o == Head(stream[b])
<1>1. /\ UNCHANGED <<machine, graph, split, input, curCopy, nextCopy, isAlloc, stream, recorded, reached, out>>
      /\ o.copy \in Copies /\ o.to \in Stages /\ CopyPending(o.to, o.copy)
      /\ o.op = "copy" /\ stream[b] # <<>>
      /\ phase[b] = 0 /\ phase' = [phase EXCEPT ![b] = 1]
      /\ \A d \in Stages, c \in Copies : d # o.to \/ c # o.copy => cpy'[d]["prev"][c] = cpy[d]["prev"][c]
  BY StartCopyFacts
<1>2. Frame'
  BY StreamsFrame DEF Runs
<1>5. CopiesInv'
  BY <1>1, SameMachine DEF PipeInv, CopiesInv, NoneWith, IsOp
<1>6. \A d \in Stages : \A i \in DOMAIN stream[d] : stream[d][i].op = "compute" => stream[d][i].copy \in Copies
  BY DEF PipeInv, EventsInv
<1>7. curCopy \in Copies
  BY DEF PipeInv, PipeTypes
<1>10. PrevInv'
  <2>1. \A d \in Stages : \A c : CopyPending(d, c)' = CopyPending(d, c)
    BY <1>1 DEF CopyPending, IsOp
  <2> SUFFICES ASSUME NEW d \in Stages, Takes(d, "prev")
               PROVE  /\ \A i \in DOMAIN stream[d] : stream[d][i].op = "compute" =>
                           \/ cpy'[d]["prev"][stream[d][i].copy] = stream[d][i].graph
                           \/ CopyPending(d, stream[d][i].copy)
                      /\ Past(d, "prev") => cpy'[d]["prev"][curCopy] = graph \/ CopyPending(d, curCopy)
    BY <1>1, <2>1, SameMachine DEF PrevInv, Past
  <2>2. \A c \in Copies : cpy'[d]["prev"][c] = cpy[d]["prev"][c] \/ CopyPending(d, c)
    BY <1>1
  <2>3. \A i \in DOMAIN stream[d] : stream[d][i].op = "compute" =>
          \/ cpy'[d]["prev"][stream[d][i].copy] = stream[d][i].graph
          \/ CopyPending(d, stream[d][i].copy)
    BY <1>6, <2>2 DEF PipeInv, PrevInv
  <2>4. Past(d, "prev") => cpy'[d]["prev"][curCopy] = graph \/ CopyPending(d, curCopy)
    BY <1>7, <2>2 DEF PipeInv, PrevInv
  <2>. QED BY <2>3, <2>4
<1>11. TransferInv'
  <2>1. \A d \in Stages : \A j, w : AwaitedAt(d, j, w)' = AwaitedAt(d, j, w)
    BY <1>1 DEF AwaitedAt, IsOp
  <2>2. \A d, j, g : Yields(d, j, g)' = Yields(d, j, g)
    BY <1>1 DEF Yields
  <2>3. \A d : Past(d, "prev")' = Past(d, "prev")
    BY <1>1 DEF Past, InputsOf
  <2>4. \A d \in Stages : \A j, w : NeededBy(d, j, w)' = NeededBy(d, j, w)
    BY <1>1, <2>2, <2>3 DEF NeededBy
  <2>. QED BY <1>1, <2>1, <2>4 DEF PipeInv, TransferInv
<1>12. OutInv'
  <2>1. phase \in [Stages -> 0..2]
    BY DEF PipeInv, PipeTypes
  <2>. QED BY <1>1, <2>1 DEF PipeInv, OutInv, Queued, Yields
<1>. QED BY <1>2, <1>5, <1>10, <1>11, <1>12 DEF PipeInv, Frame

LEMMA DoneCopies ==
  ASSUME PipeInv, NEW b \in Stages, Done(b) PROVE CopiesInv'
<1>0. Frame
  BY DEF PipeInv, Frame
<1> USE <1>0
<1>1. UNCHANGED <<machine, graph, split, input, curCopy, nextCopy, isAlloc, recorded>>
  BY DEF Done
<1>2. PipeTypes /\ CopiesInv
  BY DEF PipeInv
<1>6. ASSUME NEW d \in Stages, NEW i \in DOMAIN stream'[d]
      PROVE  \E h \in DOMAIN stream[d] :
               /\ stream'[d][i] = stream[d][h]
               /\ h = IF d = b THEN i + 1 ELSE i
  BY DoneStreams
<1>9. ASSUME NEW d \in Stages, NEW i \in DOMAIN stream'[d], NEW j \in DOMAIN stream'[d], i # j,
             stream'[d][i].op = "compute", stream'[d][j].op = "compute"
      PROVE  stream'[d][i].copy # stream'[d][j].copy
  <2>1. PICK h \in DOMAIN stream[d] : stream'[d][i] = stream[d][h] /\ h = IF d = b THEN i + 1 ELSE i
    BY <1>6
  <2>2. PICK l \in DOMAIN stream[d] : stream'[d][j] = stream[d][l] /\ l = IF d = b THEN j + 1 ELSE j
    BY <1>6
  <2>3. h # l
    BY <1>9, <2>1, <2>2, DoneStreams
  <2>. QED BY <1>2, <1>9, <2>1, <2>2, <2>3 DEF CopiesInv
<1>10. CopiesInv'
  <2>1. split \in Stages => (input > 1 => NoneWith(split, curCopy)')
    BY <1>1, <1>2, <1>6 DEF CopiesInv, NoneWith, Stages
  <2>2. split > 0 => split \in Stages
    BY <1>2 DEF PipeTypes, Stages
  <2>. QED BY <1>1, <1>9, <2>1, <2>2 DEF CopiesInv, NoneWith
<1>. QED BY <1>10

LEMMA PastMeans ==
  ASSUME PipeInv, NEW b \in Stages, NEW k, Past(b, k)
  PROVE  split = b /\ split > 0 /\ input > 1 /\ NoneWith(b, curCopy)
<1>0. Frame
  BY DEF PipeInv, Frame
<1> USE <1>0
<1>1. \A p \in DOMAIN InputsOf(b) : p \in {1, 2}
  BY MachineFacts, InputsShape DEF PipeInv
<1>2. input \in Nat
  BY DEF PipeInv, PipeTypes
<1>3. split = b /\ split > 0 /\ input > 1
  BY <1>1, <1>2 DEF Past, Stages
<1>. QED BY <1>3 DEF PipeInv, CopiesInv

\* The copy at the head of a stream has the output of the graph that waits for it.
LEMMA DonePrev ==
  ASSUME PipeInv, NEW b \in Stages, Done(b) PROVE PrevInv'
<1>0. Frame
  BY DEF PipeInv, Frame
<1> USE <1>0
<1> DEFINE o == Head(stream[b])
<1>1. UNCHANGED <<machine, graph, split, input, curCopy, nextCopy, isAlloc, recorded>>
  BY DEF Done
<1>2. 1 \in DOMAIN stream[b] /\ o = stream[b][1]
  BY DoneStreams
<1>3. ASSUME NEW d \in Stages, NEW c \in Copies, NEW g,
             cpy[d]["prev"][c] = g \/ CopyPending(d, c),
             o.op = "copy" /\ d = b + 1 /\ c = o.copy => out[b] = g
      PROVE  cpy'[d]["prev"][c] = g \/ CopyPending(d, c)'
  <2>1. cpy'[d]["prev"][c] = IF o.op = "copy" /\ d = b + 1 /\ c = o.copy THEN out[b] ELSE cpy[d]["prev"][c]
    BY DoneTypes
  <2>2. CASE ~(o.op = "copy" /\ d = b + 1 /\ c = o.copy) /\ CopyPending(d, c)
    <3>1. PICK j \in DOMAIN stream[d-1] : stream[d-1][j].op = "copy" /\ stream[d-1][j].copy = c
      BY <2>2 DEF CopyPending, IsOp
    <3>2. d - 1 \in Stages
      BY <2>2 DEF CopyPending
    <3>3. \E i \in DOMAIN stream'[d-1] : stream'[d-1][i] = stream[d-1][j]
      <4>1. CASE d - 1 = b
        <5>1. d = b + 1
          BY <4>1 DEF Stages
        <5>2. j # 1
          BY <1>2, <2>2, <3>1, <4>1, <5>1
        <5>. QED BY <3>1, <4>1, <5>2, DoneStreams
      <4>2. CASE d - 1 # b
        BY <3>1, <3>2, <4>2, DoneStreams
      <4>. QED BY <4>1, <4>2
    <3>. QED BY <3>1, <3>2, <3>3 DEF CopyPending, IsOp
  <2>. QED BY <1>3, <2>1, <2>2
<1>4. ASSUME o.op = "copy"
      PROVE  \/ \E i \in DOMAIN stream[b+1] : /\ stream[b+1][i].op = "compute" /\ stream[b+1][i].copy = o.copy
                                             /\ out[b] = stream[b+1][i].graph
             \/ Past(b + 1, "prev") /\ curCopy = o.copy /\ out[b] = graph
  <2>1. PICK w \in DOMAIN stream[b+1] : NeededBy(b, 1, w)
    BY <1>2, <1>4 DEF PipeInv, TransferInv
  <2>2. \A g : Yields(b, 1, g) => out[b] = g
    BY DEF Yields
  <2>. QED BY <1>2, <2>1, <2>2 DEF NeededBy
<1>5. \A d \in Stages : \A i, j \in DOMAIN stream[d] :
        i # j /\ stream[d][i].op = "compute" /\ stream[d][j].op = "compute" =>
          stream[d][i].copy # stream[d][j].copy
  BY DEF PipeInv, CopiesInv
<1>6. \A d \in Stages : \A i \in DOMAIN stream[d] : stream[d][i].op = "compute" => stream[d][i].copy \in Copies
  BY DEF PipeInv, EventsInv
<1>7. curCopy \in Copies
  BY DEF PipeInv, PipeTypes
<1>8. ASSUME NEW d \in Stages, Takes(d, "prev"), NEW i \in DOMAIN stream'[d], stream'[d][i].op = "compute"
      PROVE  \/ cpy'[d]["prev"][stream'[d][i].copy] = stream'[d][i].graph
             \/ CopyPending(d, stream[d][i].copy)'
  <2>1. PICK h \in DOMAIN stream[d] : stream'[d][i] = stream[d][h]
    BY DoneStreams
  <2>2. /\ stream[d][h].op = "compute" /\ stream[d][h].copy \in Copies
        /\ cpy[d]["prev"][stream[d][h].copy] = stream[d][h].graph \/ CopyPending(d, stream[d][h].copy)
    BY <1>6, <1>8, <2>1 DEF PipeInv, PrevInv
  <2>3. ASSUME o.op = "copy", d = b + 1, stream[d][h].copy = o.copy PROVE out[b] = stream[d][h].graph
    <3>1. ~(Past(d, "prev") /\ curCopy = o.copy)
      BY <2>2, <2>3, PastMeans DEF NoneWith
    <3>2. PICK p \in DOMAIN stream[d] : /\ stream[d][p].op = "compute" /\ stream[d][p].copy = o.copy
                                       /\ out[b] = stream[d][p].graph
      BY <1>4, <2>3, <3>1
    <3>3. p = h
      BY <1>5, <2>2, <2>3, <3>2
    <3>. QED BY <3>2, <3>3
  <2> HIDE DEF o
  <2>4. PICK c, g : c \in Copies /\ c = stream[d][h].copy /\ g = stream[d][h].graph
    BY <2>2
  <2>5. CopyPending(d, stream[d][h].copy) => CopyPending(d, c)
    BY <2>4
  <2>6. cpy'[d]["prev"][c] = g \/ CopyPending(d, c)'
    BY <1>3, <2>2, <2>3, <2>4, <2>5
  <2>7. CopyPending(d, c)' => CopyPending(d, stream[d][i].copy)'
    BY <2>1, <2>4 DEF CopyPending, IsOp
  <2>. QED BY <2>1, <2>4, <2>6, <2>7
<1>9. ASSUME NEW d \in Stages, Takes(d, "prev"), Past(d, "prev")
      PROVE  cpy'[d]["prev"][curCopy] = graph \/ CopyPending(d, curCopy)'
  <2>1. cpy[d]["prev"][curCopy] = graph \/ CopyPending(d, curCopy)
    BY <1>9 DEF PipeInv, PrevInv
  <2>2. ASSUME o.op = "copy", d = b + 1, curCopy = o.copy PROVE out[b] = graph
    BY <1>4, <1>9, <2>2, PastMeans DEF NoneWith
  <2> HIDE DEF o
  <2>4. PICK c, g : c \in Copies /\ c = curCopy /\ g = graph
    BY <1>7
  <2>5. CopyPending(d, curCopy) => CopyPending(d, c)
    BY <2>4
  <2>6. cpy'[d]["prev"][c] = g \/ CopyPending(d, c)'
    BY <1>3, <2>1, <2>2, <2>4, <2>5
  <2>7. CopyPending(d, c)' => CopyPending(d, curCopy)'
    BY <1>1, <2>4 DEF CopyPending, IsOp
  <2>. QED BY <2>4, <2>6, <2>7
<1>10. \A d \in Stages : Takes(d, "prev")' = Takes(d, "prev") /\ Past(d, "prev")' = Past(d, "prev")
  BY <1>1, SameMachine DEF Past
<1> HIDE DEF o
<1>. QED BY <1>1, <1>8, <1>9, <1>10 DEF PrevInv

\* The wait of a queued copy does not end before its record is reached.
LEMMA DoneTransfer ==
  ASSUME PipeInv, NEW b \in Stages, Done(b), \A g : Delivers(b, g) PROVE TransferInv'
<1>0. Frame
  BY DEF PipeInv, Frame
<1> USE <1>0
<1> DEFINE o == Head(stream[b])
<1>1. UNCHANGED <<machine, graph, split, input, curCopy, nextCopy, isAlloc, recorded>>
  BY DEF Done
<1>2. 1 \in DOMAIN stream[b] /\ o = stream[b][1]
  BY DoneStreams
<1>3. ASSUME NEW d \in Stages, NEW i \in DOMAIN stream'[d]
      PROVE  \E h \in DOMAIN stream[d] : stream'[d][i] = stream[d][h] /\ h = IF d = b THEN i + 1 ELSE i
  BY DoneStreams
<1>4. ASSUME NEW d \in Stages, NEW h \in DOMAIN stream[d], d = b => h # 1
      PROVE  \E i \in DOMAIN stream'[d] : stream'[d][i] = stream[d][h] /\ i = IF d = b THEN h - 1 ELSE h
  <2>1. CASE d = b
    <3>1. h - 1 \in DOMAIN stream'[d] /\ stream'[d][h-1] = stream[d][h]
      BY <1>4, <2>1, DoneStreams
    <3>. QED BY <2>1, <3>1
  <2>2. CASE d # b
    BY <2>2, DoneStreams
  <2>. QED BY <2>1, <2>2
<1>5. \A d \in Stages : DOMAIN stream[d] = 1..Len(stream[d]) /\ Len(stream[d]) \in Nat
  BY StreamFacts DEF PipeInv
<1>6. ASSUME NEW d \in Stages, NEW i \in DOMAIN stream'[d], stream'[d][i].op = "copy"
      PROVE  \E w \in DOMAIN stream'[d+1] : AwaitedAt(d, i, w)' /\ NeededBy(d, i, w)'
  <2>1. PICK h \in DOMAIN stream[d] : stream'[d][i] = stream[d][h] /\ h = IF d = b THEN i + 1 ELSE i
    BY <1>3
  <2>2. PICK w \in DOMAIN stream[d+1] : AwaitedAt(d, h, w) /\ NeededBy(d, h, w)
    BY <1>6, <2>1 DEF PipeInv, TransferInv
  <2>3. d + 1 \in Stages
    <3>1. d < NStages /\ NStages \in Nat
      BY <1>6, <2>1, MachineFacts DEF PipeInv, EventsInv
    <3>. QED BY <3>1 DEF Stages
  <2>4. i \in Nat \ {0} /\ h \in Nat \ {0} /\ w \in Nat \ {0}
    BY <1>5, <2>1, <2>2, <2>3, DoneStreams
  <2>5. d + 1 = b => w # 1
    <3> SUFFICES ASSUME d + 1 = b, w = 1 PROVE FALSE
      OBVIOUS
    <3>1. /\ h + 1 \in DOMAIN stream[d] /\ stream[d][h+1].op = "record" /\ stream[d][h+1].event = <<d, 0>>
          /\ o.op = "wait" /\ o.event = <<d, 0>> /\ o.nth = stream[d][h+1].nth
      BY <1>2, <2>2 DEF AwaitedAt, IsOp
    <3>2. reached[<<d, 0>>] < o.nth
      BY <3>1 DEF PipeInv, EventsInv
    <3>3. reached[<<d, 0>>] >= o.nth
      BY <3>1 DEF Done
    <3>4. reached[<<d, 0>>] \in Nat /\ o.nth \in Nat
      <4>1. <<d, 0>> \in Events
        BY <3>1 DEF PipeInv, EventsInv
      <4>2. o.nth \in Nat
        BY <3>1, HeadFacts DEF Done
      <4>. QED BY <4>1, <4>2 DEF PipeInv, PipeTypes
    <3>. QED BY <3>2, <3>3, <3>4
  <2>6. PICK v \in DOMAIN stream'[d+1] :
          stream'[d+1][v] = stream[d+1][w] /\ v = IF d + 1 = b THEN w - 1 ELSE w
    BY <1>4, <2>2, <2>3, <2>5
  <2>7. i + 1 \in DOMAIN stream'[d] /\ stream'[d][i+1] = stream[d][h+1]
    <3>1. h + 1 \in DOMAIN stream[d] /\ h + 1 # 1
      BY <2>2, <2>4 DEF AwaitedAt, IsOp
    <3>2. PICK l \in DOMAIN stream'[d] : stream'[d][l] = stream[d][h+1] /\ l = IF d = b THEN (h + 1) - 1 ELSE h + 1
      BY <1>4, <3>1
    <3>3. l = i + 1
      BY <2>1, <2>4, <3>2
    <3>. QED BY <3>2, <3>3
  <2>8. AwaitedAt(d, i, v)'
    BY <2>2, <2>6, <2>7 DEF AwaitedAt, IsOp
  <2>9. ASSUME NEW g, Yields(d, h, g) PROVE Yields(d, i, g)'
    BY <2>1, <2>9, DoneYields
  <2>10. NeededBy(d, i, v)'
    <3>1. ASSUME NEW p \in DOMAIN stream[d+1], w < p, stream[d+1][p].op = "compute",
                 stream[d+1][p].copy = stream[d][h].copy, Yields(d, h, stream[d+1][p].graph)
          PROVE  NeededBy(d, i, v)'
      <4>1. p # 1 /\ p \in Nat
        BY <1>5, <2>3, <2>4, <3>1
      <4>2. PICK l \in DOMAIN stream'[d+1] :
              stream'[d+1][l] = stream[d+1][p] /\ l = IF d + 1 = b THEN p - 1 ELSE p
        BY <1>4, <2>3, <4>1
      <4>3. v < l
        BY <2>4, <2>6, <3>1, <4>1, <4>2
      <4>4. PICK g : g = stream[d+1][p].graph
        OBVIOUS
      <4>5. Yields(d, i, g)'
        BY <2>9, <3>1, <4>4
      <4>6. Yields(d, i, stream[d+1][l].graph)'
        BY <4>2, <4>4, <4>5 DEF Yields
      <4>. QED BY <2>1, <3>1, <4>2, <4>3, <4>6 DEF NeededBy
    <3>2. ASSUME Past(d + 1, "prev"), curCopy = stream[d][h].copy, Yields(d, h, graph)
          PROVE  NeededBy(d, i, v)'
      <4>1. PICK g : g = graph
        OBVIOUS
      <4>2. Yields(d, i, g)'
        BY <2>9, <3>2, <4>1
      <4>3. Yields(d, i, graph)'
        BY <1>1, <4>1, <4>2 DEF Yields
      <4>4. Past(d + 1, "prev")'
        BY <1>1, <2>3, <3>2, SameMachine DEF Past
      <4>. QED BY <1>1, <2>1, <3>2, <4>3, <4>4 DEF NeededBy
    <3>. QED BY <2>2, <3>1, <3>2 DEF NeededBy
  <2>. QED BY <2>8, <2>10
<1>7. ASSUME NEW d \in Stages, NEW i \in DOMAIN stream'[d], NEW j \in DOMAIN stream'[d],
             i # j, stream'[d][i].op = "copy", stream'[d][j].op = "copy"
      PROVE  stream'[d][i].copy # stream'[d][j].copy
  <2>1. PICK h \in DOMAIN stream[d] : stream'[d][i] = stream[d][h] /\ h = IF d = b THEN i + 1 ELSE i
    BY <1>3
  <2>2. PICK l \in DOMAIN stream[d] : stream'[d][j] = stream[d][l] /\ l = IF d = b THEN j + 1 ELSE j
    BY <1>3
  <2>3. h # l
    BY <1>7, <2>1, <2>2, DoneStreams
  <2>. QED BY <1>7, <2>1, <2>2, <2>3 DEF PipeInv, TransferInv
<1> HIDE DEF o
<1>. QED BY <1>6, <1>7 DEF TransferInv

LEMMA DoneOut ==
  ASSUME PipeInv, NEW b \in Stages, Done(b), \A g : Delivers(b, g) PROVE OutInv'
<1>0. Frame
  BY DEF PipeInv, Frame
<1> USE <1>0
<1>1. UNCHANGED <<machine, graph, split, input, curCopy, nextCopy, isAlloc, recorded>>
  BY DEF Done
<1>2. ASSUME NEW d \in Stages PROVE Yields(d, Len(stream[d]) + 1, Queued(d))'
  <2>1. PICK g : g = Queued(d)
    OBVIOUS
  <2>2. Yields(d, Len(stream[d]) + 1, g) /\ g = Queued(d)'
    BY <1>1, <2>1 DEF PipeInv, OutInv, Queued
  <2>3. Len(stream[d]) + 1 = IF d = b THEN (Len(stream'[d]) + 1) + 1 ELSE Len(stream'[d]) + 1
    BY DoneStreams, StreamFacts DEF PipeInv
  <2>4. PICK i : i = Len(stream'[d]) + 1
    OBVIOUS
  <2>5. Yields(d, i, g)'
    BY <2>2, <2>3, <2>4, DoneYields
  <2>. QED BY <2>2, <2>4, <2>5 DEF Yields
<1>3. phase'[b] = 0 /\ \A d \in Stages : d # b => phase'[d] = phase[d] /\ out'[d] = out[d] /\ stream'[d] = stream[d]
  <2>1. phase' = [phase EXCEPT ![b] = 0] /\ phase \in [Stages -> 0..2]
    BY Pops DEF PipeInv, PipeTypes, Done
  <2>. QED BY <2>1, DoneTypes, DoneStreams
<1>4. ASSUME NEW d \in Stages
      PROVE  /\ phase'[d] > 0 => stream'[d] # <<>> /\ Head(stream'[d]).op \in {"compute", "copy"}
             /\ phase'[d] = 2 => Head(stream'[d]).op = "compute" /\ out'[d] = Head(stream'[d]).graph
  BY <1>3 DEF PipeInv, OutInv
<1>. QED BY <1>2, <1>4 DEF OutInv

\* What a stage does keeps the invariant.
LEMMA StreamsKeep == ASSUME PipeInv, NEW b \in Stages, Runs(b) PROVE PipeInv'
<1>0. Frame
  BY DEF PipeInv, Frame
<1> USE <1>0
<1> DEFINE o == Head(stream[b])
<1>1. CASE StartCompute(b) \/ FirstLayer(b)
  BY <1>1, ComputingKeeps
<1>2. CASE StartCopy(b)
  BY <1>2, StartCopyKeeps
<1>3. CASE EndCompute(b) \/ EndCopy(b) \/ Reach(b) \/ Pass(b)
  <2>1. /\ Done(b)
        /\ o.op = "compute" => phase[b] = 2
        /\ o.op = "compute" /\ InputsAre(b, o.copy, o.graph) /\ out[b] = o.graph => out'[b] = o.graph
    BY <1>3, EndsAreDone
  <2>2. ASSUME o.op = "compute" PROVE out'[b] = o.graph
    <3>1. HeadIs(b, "compute")
      BY <2>1, <2>2 DEF Done, HeadIs
    <3>2. InputsAre(b, o.copy, o.graph)
      BY <3>1, HeadHasInputs
    <3>3. out[b] = o.graph
      BY <2>1, <2>2 DEF PipeInv, OutInv
    <3>. QED BY <2>1, <2>2, <3>2, <3>3
  <2>3. \A g : Delivers(b, g)
    BY <2>2 DEF Delivers
  <2>4. Frame'
    BY StreamsFrame
  <2>. QED BY <2>1, <2>3, <2>4, DoneCopies, DonePrev, DoneTransfer, DoneOut DEF PipeInv, Frame
<1>. QED BY <1>1, <1>2, <1>3 DEF Runs

-----------------------------------------------------------------------------
(* Every graph, where the host waits: the steps of the host                *)

\* The host begins a graph, or waits between two.
LEMMA BetweenKeeps ==
  ASSUME PipeInv, Alloc \/ Reset \/ Synchronize \/ Reuse PROVE PipeInv'
<1>0. Frame
  BY DEF PipeInv, Frame
<1> USE <1>0
<1>1. graph \in Nat /\ \A b \in Stages : b \in Nat /\ b >= 1
  BY MachineFacts DEF PipeInv, PipeTypes, Stages
<1>2. /\ Frame' /\ Idle /\ UNCHANGED <<machine, stream, phase, recorded, reached, cpy, out>>
      /\ (split' = 0 /\ graph' = graph) \/ (split' = 1 /\ input' = 1 /\ graph' = graph + 1)
      /\ \A b \in Stages, k \in {"user", "prev"} : ~Past(b, k) /\ ~Past(b, k)'
  BY BetweenFrame
<1>5. CopiesInv'
  BY <1>2 DEF PipeInv, CopiesInv
<1>7. PrevInv'
  BY <1>2, SameMachine DEF PipeInv, PrevInv, CopyPending, IsOp
<1>8. TransferInv'
  <2>1. ASSUME NEW b \in Stages, NEW j \in DOMAIN stream[b], stream[b][j].op = "copy"
        PROVE  \E w \in DOMAIN stream[b+1] : AwaitedAt(b, j, w)' /\ NeededBy(b, j, w)'
    <3>1. PICK w \in DOMAIN stream[b+1] : AwaitedAt(b, j, w) /\ NeededBy(b, j, w)
      BY <2>1 DEF PipeInv, TransferInv
    <3>2. b + 1 \in Stages
      <4>1. b < NStages /\ NStages \in Nat
        BY <2>1, MachineFacts DEF PipeInv, EventsInv
      <4>. QED BY <4>1 DEF Stages
    <3>3. NeededBy(b, j, w)'
      BY <1>2, <3>1, <3>2 DEF NeededBy, Yields
    <3>. QED BY <1>2, <3>1, <3>3 DEF AwaitedAt, IsOp
  <2>. QED BY <1>2, <2>1 DEF PipeInv, TransferInv
<1>9. OutInv'
  <2>1. \A b \in Stages : Queued(b)' = Queued(b)
    BY <1>1, <1>2 DEF Queued, Idle
  <2>. QED BY <1>2, <2>1 DEF PipeInv, OutInv, Yields
<1>. QED BY <1>2, <1>5, <1>7, <1>8, <1>9 DEF PipeInv, Frame

LEMMA CopyUserKeeps == ASSUME PipeInv, CopyUser PROVE PipeInv'
<1>0. Frame
  BY DEF PipeInv, Frame
<1> USE <1>0
<1>1. /\ split \in Stages /\ NoneWith(split, curCopy)
      /\ UNCHANGED <<machine, graph, split, curCopy, nextCopy, isAlloc, stream, phase, recorded, reached, out>>
      /\ \A b \in Stages : Past(b, "prev")' <=> Past(b, "prev")
      /\ \A d \in Stages, e \in Copies : cpy'[d]["prev"][e] = cpy[d]["prev"][e]
  BY CopyUserFacts
<1>6. Frame'
  BY CopyUserFrame
<1>8. CopiesInv'
  BY <1>1 DEF PipeInv, CopiesInv, NoneWith
<1>9. \A d \in Stages : \A i \in DOMAIN stream[d] : stream[d][i].op = "compute" => stream[d][i].copy \in Copies
  BY DEF PipeInv, EventsInv
<1>10. curCopy \in Copies
  BY DEF PipeInv, PipeTypes
<1>12. PrevInv'
  <2> SUFFICES ASSUME NEW d \in Stages, Takes(d, "prev")
               PROVE  /\ \A i \in DOMAIN stream[d] : stream[d][i].op = "compute" =>
                           \/ cpy'[d]["prev"][stream[d][i].copy] = stream[d][i].graph
                           \/ CopyPending(d, stream[d][i].copy)
                      /\ Past(d, "prev") => cpy'[d]["prev"][curCopy] = graph \/ CopyPending(d, curCopy)
    BY <1>1, SameMachine DEF PrevInv, CopyPending, IsOp
  <2>1. \A c \in Copies : cpy'[d]["prev"][c] = cpy[d]["prev"][c]
    BY <1>1
  <2>. QED BY <1>9, <1>10, <2>1 DEF PipeInv, PrevInv
<1>13. TransferInv'
  <2>1. ASSUME NEW b \in Stages, NEW j \in DOMAIN stream[b], stream[b][j].op = "copy"
        PROVE  \E w \in DOMAIN stream[b+1] : AwaitedAt(b, j, w)' /\ NeededBy(b, j, w)'
    <3>1. PICK w \in DOMAIN stream[b+1] : AwaitedAt(b, j, w) /\ NeededBy(b, j, w)
      BY <2>1 DEF PipeInv, TransferInv
    <3>2. b + 1 \in Stages
      <4>1. b < NStages /\ NStages \in Nat
        BY <2>1, MachineFacts DEF PipeInv, EventsInv
      <4>. QED BY <4>1 DEF Stages
    <3>3. Past(b + 1, "prev")' <=> Past(b + 1, "prev")
      BY <1>1, <3>2
    <3>4. NeededBy(b, j, w)'
      BY <1>1, <3>1, <3>3 DEF NeededBy, Yields
    <3>. QED BY <1>1, <3>1, <3>4 DEF AwaitedAt, IsOp
  <2>. QED BY <1>1, <2>1 DEF PipeInv, TransferInv
<1>14. OutInv'
  BY <1>1 DEF PipeInv, OutInv, Queued, Yields
<1>. QED BY <1>6, <1>8, <1>12, <1>13, <1>14 DEF PipeInv, Frame

LEMMA AddsOut ==
  ASSUME PipeInv, Adds, UNCHANGED <<phase, out>>,
         \A b \in Stages : Yields(b, Len(stream[b]) + 1, Queued(b))'
  PROVE  OutInv'
<1>0. Frame
  BY DEF PipeInv, Frame
<1> USE <1>0
<1> SUFFICES ASSUME NEW b \in Stages
             PROVE  /\ phase[b] > 0 => stream'[b] # <<>> /\ Head(stream'[b]).op \in {"compute", "copy"}
                    /\ phase[b] = 2 => Head(stream'[b]).op = "compute" /\ out[b] = Head(stream'[b]).graph
  BY DEF OutInv
<1>1. /\ phase[b] > 0 => stream[b] # <<>> /\ Head(stream[b]).op \in {"compute", "copy"}
      /\ phase[b] = 2 => Head(stream[b]).op = "compute" /\ out[b] = Head(stream[b]).graph
  BY DEF PipeInv, OutInv
<1>2. stream[b] # <<>> => stream'[b] # <<>> /\ Head(stream'[b]) = Head(stream[b])
  BY AddsHead
<1>3. phase[b] = 2 => phase[b] > 0
  BY DEF PipeInv, PipeTypes
<1>. QED BY <1>1, <1>2, <1>3

\* An activation is copied, or its copy queued.
LEMMA CopyPrevKeeps ==
  ASSUME PipeInv, Adds, AtInput("prev"), NextInput, NoneWith(split, curCopy), UNCHANGED <<phase, out>>,
         \A b \in Stages : \A i \in DOMAIN stream'[b] : i > Len(stream[b]) => stream'[b][i].op # "compute",
         \A b \in Stages, c \in Copies :
           b # split \/ c # curCopy => cpy'[b]["prev"][c] = cpy[b]["prev"][c],
         cpy'[split]["prev"][curCopy] = graph \/ CopyPending(split, curCopy)'
  PROVE  CopiesInv' /\ PrevInv' /\ OutInv'
<1>0. Frame
  BY DEF PipeInv, Frame
<1> USE <1>0
<1>1. /\ \A b \in Stages : Past(b, "prev")' <=> Past(b, "prev") \/ b = split
      /\ UNCHANGED <<machine, graph, split, curCopy>>
  BY InputMoves
<1>2. split \in Stages /\ curCopy \in Copies
  BY AtInputFacts DEF PipeInv, PipeTypes
<1>3. ASSUME NEW b \in Stages, NEW i \in DOMAIN stream'[b], stream'[b][i].op = "compute"
      PROVE  /\ i \in DOMAIN stream[b] /\ stream'[b][i] = stream[b][i] /\ stream[b][i].copy \in Copies
             /\ b # split \/ stream[b][i].copy # curCopy
  <2>1. i \in DOMAIN stream[b] /\ stream'[b][i] = stream[b][i]
    BY <1>3, AddsFacts
  <2>. QED BY <1>3, <2>1 DEF PipeInv, EventsInv, NoneWith
<1>4. CopiesInv'
  <2>1. NoneWith(split, curCopy)'
    BY <1>1, <1>2, <1>3 DEF NoneWith
  <2>2. ASSUME NEW b \in Stages, NEW i \in DOMAIN stream'[b], NEW j \in DOMAIN stream'[b], i # j,
               stream'[b][i].op = "compute", stream'[b][j].op = "compute"
        PROVE  stream'[b][i].copy # stream'[b][j].copy
    <3>1. i \in DOMAIN stream[b] /\ stream'[b][i] = stream[b][i]
      BY <1>3, <2>2
    <3>2. j \in DOMAIN stream[b] /\ stream'[b][j] = stream[b][j]
      BY <1>3, <2>2
    <3>. QED BY <2>2, <3>1, <3>2 DEF PipeInv, CopiesInv
  <2>. QED BY <2>1, <2>2 DEF CopiesInv
<1>6. ASSUME NEW d \in Stages, NEW c, CopyPending(d, c) PROVE CopyPending(d, c)'
  <2>1. PICK j \in DOMAIN stream[d-1] : stream[d-1][j].op = "copy" /\ stream[d-1][j].copy = c
    BY <1>6 DEF CopyPending, IsOp
  <2>2. d - 1 \in Stages
    BY <1>6 DEF CopyPending
  <2>3. j \in DOMAIN stream'[d-1] /\ stream'[d-1][j] = stream[d-1][j]
    BY <2>1, <2>2, AddsFacts
  <2>. QED BY <2>1, <2>2, <2>3 DEF CopyPending, IsOp
<1>7. PrevInv'
  <2>1. ASSUME NEW d \in Stages, Takes(d, "prev"), NEW i \in DOMAIN stream'[d], stream'[d][i].op = "compute"
        PROVE  \/ cpy'[d]["prev"][stream'[d][i].copy] = stream'[d][i].graph
               \/ CopyPending(d, stream[d][i].copy)'
    <3>1. /\ i \in DOMAIN stream[d] /\ stream'[d][i] = stream[d][i] /\ stream[d][i].copy \in Copies
          /\ d # split \/ stream[d][i].copy # curCopy
      BY <1>3, <2>1
    <3>2. cpy'[d]["prev"][stream[d][i].copy] = cpy[d]["prev"][stream[d][i].copy]
      BY <3>1
    <3>3. cpy[d]["prev"][stream[d][i].copy] = stream[d][i].graph \/ CopyPending(d, stream[d][i].copy)
      BY <2>1, <3>1 DEF PipeInv, PrevInv
    <3>4. PICK c : c = stream[d][i].copy
      OBVIOUS
    <3>5. CopyPending(d, stream[d][i].copy) => CopyPending(d, c)'
      BY <1>6, <3>4
    <3>6. CopyPending(d, c)' => CopyPending(d, stream[d][i].copy)'
      BY <3>1, <3>4 DEF CopyPending, IsOp
    <3>. QED BY <3>1, <3>2, <3>3, <3>5, <3>6
  <2>2. ASSUME NEW d \in Stages, Takes(d, "prev"), Past(d, "prev")'
        PROVE  cpy'[d]["prev"][curCopy] = graph \/ CopyPending(d, curCopy)'
    <3>1. CASE d = split
      BY <1>1, <3>1
    <3>2. CASE d # split
      <4>1. cpy[d]["prev"][curCopy] = graph \/ CopyPending(d, curCopy)
        BY <1>1, <2>2, <3>2 DEF PipeInv, PrevInv
      <4>2. PICK c : c = curCopy
        OBVIOUS
      <4>3. CopyPending(d, curCopy) => CopyPending(d, c)'
        BY <1>6, <4>2
      <4>4. CopyPending(d, c)' => CopyPending(d, curCopy)'
        BY <1>1, <4>2 DEF CopyPending, IsOp
      <4>. QED BY <1>2, <3>2, <4>1, <4>3, <4>4
    <3>. QED BY <3>1, <3>2
  <2>. QED BY <1>1, <2>1, <2>2, SameMachine DEF PrevInv
<1>8. OutInv'
  <2>1. ASSUME NEW b \in Stages PROVE Yields(b, Len(stream[b]) + 1, Queued(b))'
    <3>1. PICK g : g = Queued(b)
      OBVIOUS
    <3>2. Yields(b, Len(stream[b]) + 1, g) /\ g = Queued(b)'
      BY <1>1, <3>1 DEF PipeInv, OutInv, Queued
    <3>3. Yields(b, Len(stream[b]) + 1, g)'
      BY <3>2, AddsLast
    <3>. QED BY <3>2, <3>3 DEF Yields
  <2>. QED BY <2>1, AddsOut
<1>. QED BY <1>4, <1>7, <1>8

LEMMA CopySyncKeeps == ASSUME PipeInv, CopySync PROVE PipeInv'
<1>0. Frame
  BY DEF PipeInv, Frame
<1> USE <1>0
<1>1. /\ AtInput("prev") /\ ~machine.async /\ Drained(split - 1) /\ NextInput
      /\ split \in Stages /\ split - 1 \in Stages /\ NoneWith(split, curCopy) /\ UNCHANGED <<phase, out>>
      /\ Adds /\ UNCHANGED <<machine, graph, split, curCopy>>
      /\ \A b \in Stages : \A i \in DOMAIN stream'[b] : i > Len(stream[b]) => stream'[b][i].op = "wait"
      /\ cpy'[split]["prev"][curCopy] = out[split-1]
      /\ \A d \in Stages, e \in Copies :
           d # split \/ e # curCopy => cpy'[d]["prev"][e] = cpy[d]["prev"][e]
  BY CopySyncFacts
<1>2. Frame'
  BY CopySyncFrame
<1>6. out[split-1] = graph
  <2>1. stream[split-1] = <<>> /\ Queued(split - 1) = graph
    BY <1>1 DEF Drained, Queued, Stages
  <2>2. Yields(split - 1, Len(stream[split-1]) + 1, graph)
    BY <1>1, <2>1 DEF PipeInv, OutInv
  <2>3. \A g : Yields(split - 1, Len(stream[split-1]) + 1, g) => out[split-1] = g
    <3>1. Len(stream[split-1]) + 1 = 1
      BY <2>1
    <3>. QED BY <3>1 DEF Yields
  <2>. QED BY <2>2, <2>3
<1>10. CopiesInv' /\ PrevInv' /\ OutInv'
  BY <1>1, <1>6, CopyPrevKeeps
<1>11. TransferInv'
  <2>1. \A b \in Stages : \A i \in DOMAIN stream'[b] : stream'[b][i].op # "copy"
    BY <1>1, <1>2 DEF Frame, EventsInv
  <2>. QED BY <2>1 DEF TransferInv
<1>. QED BY <1>2, <1>10, <1>11 DEF PipeInv, Frame

\* Where the host waits for a copy before it has it written, no graph queued has it.
LEMMA NoneBeforeCopy ==
  ASSUME PipeInv, HostWaits, CopyAsync PROVE NoneWith(split, curCopy)
<1>0. Frame
  BY DEF PipeInv, Frame
<1> USE <1>0
<1>1. /\ AtInput("prev") /\ machine.async /\ (NCopies = 1 => Drained(split)) /\ split \in Stages
      /\ input = 1 => InputsOf(split)[1] = "prev"
  BY AtInputFacts DEF CopyAsync
<1>2. NCopies \in Nat \ {0} /\ input \in Nat \ {0}
  BY MachineFacts DEF PipeInv, PipeTypes
<1>3. CASE NCopies = 1
  BY <1>1, <1>3 DEF Drained, NoneWith
<1>4. CASE NCopies # 1
  <2>1. InputsOf(split)[1] = "user"
    BY <1>1, <1>2, <1>4 DEF HostWaits
  <2>2. input > 1
    BY <1>1, <1>2, <2>1
  <2>. QED BY <1>1, <2>2 DEF PipeInv, CopiesInv, AtInput
<1>. QED BY <1>3, <1>4

LEMMA CopyAsyncTransfer ==
  ASSUME PipeInv, HostWaits, CopyAsync, Adds PROVE TransferInv'
<1>0. Frame
  BY DEF PipeInv, Frame
<1> USE <1>0
<1>1. PICK from, n : from = split - 1 /\ n = recorded[<<from, 0>>] + 1
  OBVIOUS
<1>2. /\ split \in Stages /\ from \in Stages /\ from # split
      /\ \A b \in Stages : b # from /\ b # split => stream'[b] = stream[b]
      /\ Len(stream'[from]) = Len(stream[from]) + 2
      /\ stream'[from][Len(stream[from]) + 1] = CopyTo(split, curCopy)
      /\ stream'[from][Len(stream[from]) + 2] = Record(<<from, 0>>, n)
      /\ Len(stream'[split]) >= Len(stream[split]) + 1
      /\ stream'[split][Len(stream'[split])] = Await(<<from, 0>>, n)
      /\ \A i \in 1..Len(stream'[split]) : i > Len(stream[split]) => stream'[split][i].op = "wait"
  BY <1>1, CopyAsyncStreams
<1>3. /\ \A b \in Stages : Past(b, "prev")' <=> Past(b, "prev") \/ b = split
      /\ UNCHANGED <<machine, graph, split, curCopy, out>> /\ AtInput("prev")
  BY InputMoves DEF CopyAsync
<1>4. NoneWith(split, curCopy) /\ ~Past(split, "prev")
  BY <1>3, NoneBeforeCopy, AtInputFacts
<1>5. \A b \in Stages : /\ Len(stream[b]) \in Nat /\ DOMAIN stream[b] = 1..Len(stream[b])
                       /\ Len(stream'[b]) \in Nat /\ DOMAIN stream'[b] = 1..Len(stream'[b])
                       /\ \A i \in DOMAIN stream[b] : i \in DOMAIN stream'[b] /\ stream'[b][i] = stream[b][i]
  BY AddsFacts
<1> DEFINE p == Len(stream[from]) + 1
           l == Len(stream'[split])
<1>6. /\ p \in DOMAIN stream'[from] /\ p + 1 \in DOMAIN stream'[from] /\ l \in DOMAIN stream'[split]
      /\ stream'[from][p].op = "copy" /\ stream'[from][p].copy = curCopy
      /\ stream'[from][p+1].op = "record" /\ stream'[from][p+1].event = <<from, 0>> /\ stream'[from][p+1].nth = n
      /\ stream'[split][l].op = "wait" /\ stream'[split][l].event = <<from, 0>> /\ stream'[split][l].nth = n
  <2>1. p \in DOMAIN stream'[from] /\ p + 1 \in DOMAIN stream'[from] /\ p + 1 = Len(stream[from]) + 2
    BY <1>2, <1>5
  <2>2. l \in DOMAIN stream'[split]
    BY <1>2, <1>5
  <2>. QED BY <1>2, <2>1, <2>2 DEF CopyTo, Record, Await
\* no copy to it is queued
<1>7. ASSUME NEW j \in DOMAIN stream[from], stream[from][j].op = "copy" PROVE stream[from][j].copy # curCopy
  <2>1. from + 1 = split
    BY <1>1, <1>2 DEF Stages
  <2>2. PICK w \in DOMAIN stream[split] : NeededBy(from, j, w)
    BY <1>2, <1>7, <2>1 DEF PipeInv, TransferInv
  <2>. QED BY <1>4, <2>1, <2>2 DEF NeededBy, NoneWith
<1>8. ASSUME NEW b \in Stages, NEW j \in DOMAIN stream[b], stream[b][j].op = "copy"
      PROVE  \E w \in DOMAIN stream'[b+1] : AwaitedAt(b, j, w)' /\ NeededBy(b, j, w)'
  <2>1. PICK w \in DOMAIN stream[b+1] : AwaitedAt(b, j, w) /\ NeededBy(b, j, w)
    BY <1>8 DEF PipeInv, TransferInv
  <2>2. b + 1 \in Stages
    <3>1. b < NStages /\ NStages \in Nat
      BY <1>8, MachineFacts DEF PipeInv, EventsInv
    <3>. QED BY <3>1 DEF Stages
  <2>3. w \in DOMAIN stream'[b+1] /\ stream'[b+1][w] = stream[b+1][w]
    BY <1>5, <2>1, <2>2
  <2>4. AwaitedAt(b, j, w)'
    <3>1. j + 1 \in DOMAIN stream'[b] /\ stream'[b][j+1] = stream[b][j+1]
      BY <1>5, <2>1 DEF AwaitedAt, IsOp
    <3>. QED BY <2>1, <2>3, <3>1 DEF AwaitedAt, IsOp
  <2>5. j \in 1..Len(stream[b]) + 1 /\ stream'[b][j] = stream[b][j]
    BY <1>5, <1>8
  <2>6. ASSUME NEW g, Yields(b, j, g) PROVE Yields(b, j, g)'
    BY <1>3, <2>5, <2>6, AddsYields
  <2>7. ASSUME NEW i \in DOMAIN stream[b+1], w < i, stream[b+1][i].op = "compute",
               stream[b+1][i].copy = stream[b][j].copy, Yields(b, j, stream[b+1][i].graph)
        PROVE  NeededBy(b, j, w)'
    <3>1. i \in DOMAIN stream'[b+1] /\ stream'[b+1][i] = stream[b+1][i]
      BY <1>5, <2>2
    <3>2. PICK g : g = stream[b+1][i].graph
      OBVIOUS
    <3>3. Yields(b, j, g)'
      BY <2>6, <2>7, <3>2
    <3>4. Yields(b, j, stream[b+1][i].graph)'
      BY <3>1, <3>2, <3>3 DEF Yields
    <3>. QED BY <2>5, <2>7, <3>1, <3>4 DEF NeededBy
  <2>8. ASSUME Past(b + 1, "prev"), curCopy = stream[b][j].copy, Yields(b, j, graph)
        PROVE  NeededBy(b, j, w)'
    <3>1. PICK g : g = graph
      OBVIOUS
    <3>2. Yields(b, j, g)'
      BY <2>6, <2>8, <3>1
    <3>3. Yields(b, j, graph)'
      BY <1>3, <3>1, <3>2 DEF Yields
    <3>4. Past(b + 1, "prev")'
      BY <1>3, <2>2, <2>8
    <3>. QED BY <1>3, <2>5, <2>8, <3>3, <3>4 DEF NeededBy
  <2>. QED BY <2>1, <2>3, <2>4, <2>7, <2>8 DEF NeededBy
\* the new one
<1>9. ASSUME NEW h, NEW m, h = p, m = l PROVE AwaitedAt(from, h, m)' /\ NeededBy(from, h, m)'
  <2>1. from + 1 = split /\ split > from
    BY <1>1, <1>2 DEF Stages
  <2>2. AwaitedAt(from, h, m)'
    BY <1>6, <1>9, <2>1 DEF AwaitedAt, IsOp
  <2>3. PICK g : g = graph
    OBVIOUS
  <2>4. Yields(from, h, g)
    BY <1>2, <1>9, <2>1, <2>3 DEF PipeInv, OutInv, Queued
  <2>5. Yields(from, h, g)'
    BY <1>2, <1>3, <1>5, <1>9, <2>4, AddsYields
  <2>6. Yields(from, h, graph)'
    BY <1>3, <2>3, <2>5 DEF Yields
  <2>7. Past(from + 1, "prev")'
    BY <1>2, <1>3, <2>1
  <2>8. NeededBy(from, h, m)'
    BY <1>3, <1>6, <1>9, <2>6, <2>7 DEF NeededBy
  <2>. QED BY <2>2, <2>8
<1>10. ASSUME NEW b \in Stages, NEW j \in DOMAIN stream'[b], stream'[b][j].op = "copy"
       PROVE  (j \in DOMAIN stream[b] /\ stream[b][j] = stream'[b][j]) \/ (b = from /\ j = p)
  <2>1. CASE j \in DOMAIN stream[b]
    BY <1>5, <2>1
  <2>2. CASE j \notin DOMAIN stream[b] /\ b = from
    <3>1. j = p \/ j = p + 1
      BY <1>2, <1>5, <2>2
    <3>. QED BY <1>6, <1>10, <2>2, <3>1
  <2>3. CASE j \notin DOMAIN stream[b] /\ b = split
    <3>1. j \in 1..Len(stream'[split]) /\ j > Len(stream[split])
      BY <1>5, <2>3
    <3>. QED BY <1>2, <1>10, <2>3, <3>1
  <2>. QED BY <1>2, <2>1, <2>2, <2>3
<1>11. ASSUME NEW b \in Stages, NEW j \in DOMAIN stream'[b], stream'[b][j].op = "copy"
       PROVE  \E w \in DOMAIN stream'[b+1] : AwaitedAt(b, j, w)' /\ NeededBy(b, j, w)'
  <2>1. CASE j \in DOMAIN stream[b] /\ stream[b][j] = stream'[b][j]
    BY <1>8, <1>11, <2>1
  <2>2. CASE b = from /\ j = p
    <3>1. PICK m : m = l
      OBVIOUS
    <3>2. AwaitedAt(b, j, m)' /\ NeededBy(b, j, m)'
      BY <1>9, <2>2, <3>1
    <3>3. from + 1 = split
      BY <1>1, <1>2 DEF Stages
    <3>. QED BY <1>6, <2>2, <3>1, <3>2, <3>3
  <2>. QED BY <1>10, <1>11, <2>1, <2>2
<1>12. ASSUME NEW b \in Stages, NEW i \in DOMAIN stream'[b], NEW j \in DOMAIN stream'[b], i # j,
              stream'[b][i].op = "copy", stream'[b][j].op = "copy"
       PROVE  stream'[b][i].copy # stream'[b][j].copy
  <2>1. (i \in DOMAIN stream[b] /\ stream[b][i] = stream'[b][i]) \/ (b = from /\ i = p)
    BY <1>10, <1>12
  <2>2. (j \in DOMAIN stream[b] /\ stream[b][j] = stream'[b][j]) \/ (b = from /\ j = p)
    BY <1>10, <1>12
  <2>3. CASE i \in DOMAIN stream[b] /\ stream[b][i] = stream'[b][i] /\ j \in DOMAIN stream[b] /\ stream[b][j] = stream'[b][j]
    BY <1>12, <2>3 DEF PipeInv, TransferInv
  <2>4. CASE b = from /\ i = p /\ j \in DOMAIN stream[b] /\ stream[b][j] = stream'[b][j]
    BY <1>6, <1>7, <1>12, <2>4
  <2>5. CASE b = from /\ j = p /\ i \in DOMAIN stream[b] /\ stream[b][i] = stream'[b][i]
    BY <1>6, <1>7, <1>12, <2>5
  <2>. QED BY <1>12, <2>1, <2>2, <2>3, <2>4, <2>5
<1>. QED BY <1>11, <1>12 DEF TransferInv

LEMMA CopyAsyncKeeps == ASSUME PipeInv, HostWaits, CopyAsync PROVE PipeInv'
<1>0. Frame
  BY DEF PipeInv, Frame
<1> USE <1>0
<1>1. PICK from, n, e : QueuesCopy(from, n, e)
  BY CopyAsyncAdds
<1>2. /\ from = split - 1 /\ AtInput("prev") /\ NextInput /\ UNCHANGED <<phase, cpy, out, split, curCopy>>
      /\ split \in Stages /\ from \in Stages /\ Adds
      /\ \A b \in Stages : \A i \in DOMAIN stream'[b] : i > Len(stream[b]) => stream'[b][i].op # "compute"
  BY <1>1 DEF QueuesCopy
<1>3. Frame'
  BY CopyAsyncFrame
<1>4. CopiesInv' /\ PrevInv' /\ OutInv'
  <2>1. CopyPending(split, curCopy)'
    <3>1. PICK m : m = recorded[<<from, 0>>] + 1
      OBVIOUS
    <3>2. /\ Len(stream'[from]) = Len(stream[from]) + 2
          /\ stream'[from][Len(stream[from]) + 1] = CopyTo(split, curCopy)
      BY <1>2, <3>1, CopyAsyncStreams
    <3>3. Len(stream[from]) + 1 \in DOMAIN stream'[from]
      BY <1>2, <3>2, AddsFacts
    <3>. QED BY <1>2, <3>2, <3>3 DEF CopyPending, IsOp, CopyTo
  <2>2. NoneWith(split, curCopy)
    BY NoneBeforeCopy
  <2>3. \A b \in Stages, c \in Copies : cpy'[b]["prev"][c] = cpy[b]["prev"][c]
    BY <1>2
  <2>. QED BY <1>2, <2>1, <2>2, <2>3, CopyPrevKeeps
<1>5. TransferInv'
  BY <1>2, CopyAsyncTransfer
<1>. QED BY <1>3, <1>4, <1>5 DEF PipeInv, Frame

LEMMA ComputeSplitKeeps == ASSUME PipeInv, ComputeSplit PROVE PipeInv'
<1>0. Frame
  BY DEF PipeInv, Frame
<1> USE <1>0
<1>1. PICK s, e, n, p : QueuesCompute(s, e, n, p)
  BY ComputeSplitFacts
<1>8. /\ s \in Stages /\ s \in Nat \ {0} /\ input > 1 /\ e \in Events /\ n \in Nat
      /\ \A k \in {"user", "prev"} : Takes(s, k) => Past(s, k)
      /\ Adds /\ stream' \in [Stages -> Seq(StreamOps)] /\ \A b \in Stages : b # s => stream'[b] = stream[b]
      /\ input' = 1 /\ UNCHANGED <<machine, graph, curCopy, nextCopy, isAlloc, phase, reached, cpy, out>>
      /\ split = s /\ split' \in 0..NStages /\ split' = (IF s < NStages THEN s + 1 ELSE 0) /\ s <= NStages
      /\ p \in DOMAIN stream'[s] /\ p \in Nat \ {0} /\ stream'[s][p].op = "compute"
      /\ stream'[s][p].graph = graph /\ stream'[s][p].copy = curCopy
      /\ NCopies > 1 => /\ p + 1 \in DOMAIN stream'[s] /\ stream'[s][p+1].op = "record"
                        /\ stream'[s][p+1].event = e /\ stream'[s][p+1].nth = n
      /\ recorded' \in [Events -> Nat] /\ (NCopies > 1 => recorded[e] < n /\ n <= recorded'[e])
      /\ \A d \in Events : recorded[d] <= recorded'[d] /\ recorded'[d] \in Nat
      /\ \A b \in Stages : \A i \in DOMAIN stream'[b] : i > Len(stream[b]) =>
           b = s /\ (i = p \/ (NCopies > 1 /\ i = p + 1))
      /\ \A b \in Stages : \A i \in DOMAIN stream'[b] : stream'[b][i].op = "compute" =>
           (i \in DOMAIN stream[b] /\ stream'[b][i] = stream[b][i]) \/ (b = s /\ i = p)
      /\ \A b \in Stages : \A i \in DOMAIN stream'[b] : stream'[b][i].op # "compute" /\ stream'[b][i].op # "record" =>
           i \in DOMAIN stream[b] /\ stream'[b][i] = stream[b][i]
  BY <1>1 DEF QueuesCompute
<1>2. p = Len(stream[s]) + 1 /\ NoneWith(s, curCopy)
  <2>1. p = Len(stream[s]) + 1
    BY <1>1 DEF QueuesCompute
  <2>. QED BY <1>8, <2>1 DEF PipeInv, CopiesInv
<1>3. Frame'
  BY ComputeSplitFrame
<1>4. NStages \in Nat \ {0}
  BY MachineFacts DEF PipeInv
<1>6. \A b \in Stages : /\ Len(stream[b]) \in Nat /\ DOMAIN stream[b] = 1..Len(stream[b])
                       /\ Len(stream'[b]) \in Nat /\ DOMAIN stream'[b] = 1..Len(stream'[b])
                       /\ \A i \in DOMAIN stream[b] : i \in DOMAIN stream'[b] /\ stream'[b][i] = stream[b][i]
  BY <1>8, AddsFacts
<1>14. \A b \in Stages, k \in {"user", "prev"} : ~Past(b, k)'
  BY <1>8, NothingPast
<1>13. CopiesInv'
  <2>1. ASSUME NEW b \in Stages, NEW i \in DOMAIN stream'[b], NEW j \in DOMAIN stream'[b], i # j,
               stream'[b][i].op = "compute", stream'[b][j].op = "compute"
        PROVE  stream'[b][i].copy # stream'[b][j].copy
    <3>1. (i \in DOMAIN stream[b] /\ stream'[b][i] = stream[b][i]) \/ (b = s /\ i = p)
      BY <1>8, <2>1
    <3>2. (j \in DOMAIN stream[b] /\ stream'[b][j] = stream[b][j]) \/ (b = s /\ j = p)
      BY <1>8, <2>1
    <3>3. CASE i \in DOMAIN stream[b] /\ stream'[b][i] = stream[b][i] /\ j \in DOMAIN stream[b] /\ stream'[b][j] = stream[b][j]
      BY <2>1, <3>3 DEF PipeInv, CopiesInv
    <3>4. CASE i \in DOMAIN stream[b] /\ stream'[b][i] = stream[b][i] /\ b = s /\ j = p
      BY <1>2, <1>8, <2>1, <3>4 DEF NoneWith
    <3>5. CASE j \in DOMAIN stream[b] /\ stream'[b][j] = stream[b][j] /\ b = s /\ i = p
      BY <1>2, <1>8, <2>1, <3>5 DEF NoneWith
    <3>. QED BY <2>1, <3>1, <3>2, <3>3, <3>4, <3>5
  <2>. QED BY <1>8, <2>1 DEF CopiesInv
<1>16. ASSUME NEW d \in Stages, NEW c, CopyPending(d, c) PROVE CopyPending(d, c)'
  <2>1. PICK j \in DOMAIN stream[d-1] : stream[d-1][j].op = "copy" /\ stream[d-1][j].copy = c
    BY <1>16 DEF CopyPending, IsOp
  <2>2. d - 1 \in Stages
    BY <1>16 DEF CopyPending
  <2>3. j \in DOMAIN stream'[d-1] /\ stream'[d-1][j] = stream[d-1][j]
    BY <1>6, <2>1, <2>2
  <2>. QED BY <2>1, <2>2, <2>3 DEF CopyPending, IsOp
<1>17. PrevInv'
  <2>1. ASSUME NEW d \in Stages, Takes(d, "prev"), NEW i \in DOMAIN stream'[d], stream'[d][i].op = "compute",
               NEW c, c = stream'[d][i].copy
        PROVE  cpy[d]["prev"][c] = stream'[d][i].graph \/ CopyPending(d, c)'
    <3>1. cpy[d]["prev"][c] = stream'[d][i].graph \/ CopyPending(d, c)
      <4>1. CASE i \in DOMAIN stream[d] /\ stream'[d][i] = stream[d][i]
        BY <2>1, <4>1 DEF PipeInv, PrevInv
      <4>2. CASE d = s /\ i = p
        BY <1>2, <1>8, <2>1, <4>2 DEF PipeInv, PrevInv
      <4>. QED BY <1>8, <2>1, <4>1, <4>2
    <3>. QED BY <1>16, <3>1
  <2>2. \A d \in Stages : \A i, c : c = stream'[d][i].copy /\ CopyPending(d, c)' => CopyPending(d, stream[d][i].copy)'
    BY DEF CopyPending
  <2>. QED BY <1>8, <1>14, <2>1, <2>2, SameMachine DEF PrevInv
<1>18. ASSUME NEW b \in Stages, NEW j \in DOMAIN stream'[b], stream'[b][j].op = "copy"
       PROVE  j \in DOMAIN stream[b] /\ stream[b][j] = stream'[b][j]
  BY <1>8, <1>18
<1>19. ASSUME NEW b \in Stages, NEW j \in DOMAIN stream[b], stream[b][j].op = "copy"
       PROVE  \E w \in DOMAIN stream'[b+1] : AwaitedAt(b, j, w)' /\ NeededBy(b, j, w)'
  <2>1. PICK w \in DOMAIN stream[b+1] : AwaitedAt(b, j, w) /\ NeededBy(b, j, w)
    BY <1>19 DEF PipeInv, TransferInv
  <2>2. b + 1 \in Stages
    <3>1. b < NStages /\ NStages \in Nat
      BY <1>4, <1>19 DEF PipeInv, EventsInv
    <3>. QED BY <3>1 DEF Stages
  <2>3. w \in DOMAIN stream'[b+1] /\ stream'[b+1][w] = stream[b+1][w]
    BY <1>6, <2>1, <2>2
  <2>4. AwaitedAt(b, j, w)'
    <3>1. j + 1 \in DOMAIN stream'[b] /\ stream'[b][j+1] = stream[b][j+1]
      BY <1>6, <2>1 DEF AwaitedAt, IsOp
    <3>. QED BY <2>1, <2>3, <3>1 DEF AwaitedAt, IsOp
  <2>5. j \in 1..Len(stream[b]) + 1 /\ stream'[b][j] = stream[b][j]
    BY <1>6, <1>19
  <2>6. ASSUME NEW g, Yields(b, j, g) PROVE Yields(b, j, g)'
    BY <1>2, <1>8, <2>5, <2>6, AddsYields
  <2>7. ASSUME NEW i \in DOMAIN stream'[b+1], w < i, stream'[b+1][i].op = "compute",
               stream'[b+1][i].copy = stream[b][j].copy, Yields(b, j, stream'[b+1][i].graph)
        PROVE  NeededBy(b, j, w)'
    <3>1. PICK g : g = stream'[b+1][i].graph
      OBVIOUS
    <3>2. Yields(b, j, g)'
      BY <2>6, <2>7, <3>1
    <3>3. Yields(b, j, stream[b+1][i].graph)'
      BY <3>1, <3>2 DEF Yields
    <3>. QED BY <2>5, <2>7, <3>3 DEF NeededBy
  <2>8. ASSUME Past(b + 1, "prev"), curCopy = stream[b][j].copy, Yields(b, j, graph)
        PROVE  NeededBy(b, j, w)'
    <3>1. b + 1 = s
      BY <1>8, <2>8 DEF Past
    <3>2. w < p
      <4>1. w \in DOMAIN stream[s] /\ s \in Stages
        BY <1>8, <2>1, <3>1
      <4>2. w \in 1..Len(stream[s]) /\ Len(stream[s]) \in Nat
        BY <1>6, <4>1
      <4>. QED BY <1>2, <4>2
    <3>. QED BY <1>8, <2>7, <2>8, <3>1, <3>2
  <2>9. ASSUME NEW i \in DOMAIN stream[b+1], w < i, stream[b+1][i].op = "compute",
               stream[b+1][i].copy = stream[b][j].copy, Yields(b, j, stream[b+1][i].graph)
        PROVE  NeededBy(b, j, w)'
    <3>1. i \in DOMAIN stream'[b+1] /\ stream'[b+1][i] = stream[b+1][i]
      BY <1>6, <2>2
    <3>. QED BY <2>7, <2>9, <3>1
  <2>. QED BY <2>1, <2>3, <2>4, <2>8, <2>9 DEF NeededBy
<1>20. TransferInv'
  <2>1. ASSUME NEW b \in Stages, NEW i \in DOMAIN stream'[b], NEW j \in DOMAIN stream'[b], i # j,
               stream'[b][i].op = "copy", stream'[b][j].op = "copy"
        PROVE  stream'[b][i].copy # stream'[b][j].copy
    <3>1. i \in DOMAIN stream[b] /\ stream[b][i] = stream'[b][i]
      BY <1>18, <2>1
    <3>2. j \in DOMAIN stream[b] /\ stream[b][j] = stream'[b][j]
      BY <1>18, <2>1
    <3>. QED BY <2>1, <3>1, <3>2 DEF PipeInv, TransferInv
  <2>2. ASSUME NEW b \in Stages, NEW j \in DOMAIN stream'[b], stream'[b][j].op = "copy"
        PROVE  \E w \in DOMAIN stream'[b+1] : AwaitedAt(b, j, w)' /\ NeededBy(b, j, w)'
    BY <1>18, <1>19, <2>2
  <2>. QED BY <2>1, <2>2 DEF TransferInv
<1>21. OutInv'
  <2>1. ASSUME NEW b \in Stages, b # s PROVE Yields(b, Len(stream[b]) + 1, Queued(b))'
    <3>1. Queued(b)' = Queued(b)
      BY <1>4, <1>8, <2>1 DEF Queued, Stages
    <3>2. stream'[b] = stream[b] /\ out' = out /\ Yields(b, Len(stream[b]) + 1, Queued(b))
      BY <1>2, <1>8, <2>1 DEF PipeInv, OutInv
    <3>. QED BY <3>1, <3>2 DEF Yields
  <2>2. Yields(s, Len(stream[s]) + 1, Queued(s))'
    <3>1. Queued(s)' = graph
      BY <1>4, <1>8 DEF Queued
    <3>2. (Len(stream'[s]) + 1) - 1 = Len(stream'[s]) /\ p \in 1..Len(stream'[s])
      BY <1>2, <1>6, <1>8
    <3>3. \A h \in p+1..Len(stream'[s]) : stream'[s][h].op # "compute"
      <4> SUFFICES ASSUME NEW h \in p+1..Len(stream'[s]) PROVE stream'[s][h].op # "compute"
        OBVIOUS
      <4>1. h \in DOMAIN stream'[s] /\ h > Len(stream[s]) /\ h # p
        BY <1>2, <1>6, <1>8
      <4>. QED BY <1>8, <4>1
    <3>. QED BY <1>8, <3>1, <3>2, <3>3 DEF Yields
  <2>. QED BY <1>2, <1>8, <2>1, <2>2, AddsOut
<1>. QED BY <1>3, <1>13, <1>17, <1>20, <1>21 DEF PipeInv, Frame

LEMMA PipeStep == PipeInv /\ HostWaits /\ Next => PipeInv'
<1>1. CASE \E b \in Stages : Runs(b)
  BY <1>1, StreamsKeep
<1>2. CASE Host
  BY <1>2, BetweenKeeps, CopyUserKeeps, CopyAsyncKeeps, CopySyncKeeps, ComputeSplitKeeps DEF Host
<1>. QED BY <1>1, <1>2 DEF Next

-----------------------------------------------------------------------------
(* The pipeline: what it promises                                          *)

LEMMA PipeStutters == PipeInv /\ UNCHANGED vars => PipeInv'
<1> SUFFICES ASSUME PipeInv, UNCHANGED vars PROVE PipeInv'
  OBVIOUS
<1>0. Frame
  BY DEF PipeInv, Frame
<1> USE <1>0
<1>1. UNCHANGED <<machine, graph, split, input, curCopy, nextCopy, isAlloc, stream, phase, recorded, reached, cpy, out>>
  BY DEF vars, hostVars
<1>2. Frame' /\ CopiesInv'
  <2>1. Frame'
    BY FrameStep
  <2>3. CopiesInv'
    BY <1>1, SameMachine DEF PipeInv, CopiesInv, NoneWith
  <2>. QED BY <2>1, <2>3
<1>3. \A b \in Stages, k \in {"user", "prev"} : Past(b, k)' = Past(b, k)
  BY <1>1, SameMachine DEF Past
<1>4. PrevInv'
  BY <1>1, <1>3, SameMachine DEF PipeInv, PrevInv, CopyPending, IsOp
<1>5. \A b, j, g : Yields(b, j, g)' = Yields(b, j, g)
  BY <1>1 DEF Yields
<1>6. \A b \in Stages : \A j, w : NeededBy(b, j, w)' = NeededBy(b, j, w) /\ AwaitedAt(b, j, w)' = AwaitedAt(b, j, w)
  BY <1>1, <1>5, SameMachine DEF NeededBy, AwaitedAt, IsOp, Past, InputsOf
<1>7. TransferInv'
  BY <1>1, <1>6 DEF PipeInv, TransferInv
<1>8. OutInv'
  BY <1>1 DEF PipeInv, OutInv, Queued, Yields
<1>. QED BY <1>2, <1>4, <1>7, <1>8 DEF PipeInv, Frame

LEMMA PipeStarts == Init => Frame /\ LastInv /\ PipeInv
<1> SUFFICES ASSUME Init PROVE Frame /\ LastInv /\ PipeInv
  OBVIOUS
<1>1. machine \in Machine /\ NStages \in Nat \ {0} /\ NCopies \in Nat \ {0}
  BY PipelineAssumption DEF Init, Machine, NCopies
<1>2. PipeTypes
  <2>1. 1 \in Copies /\ 0 \in 0..NStages
    BY <1>1 DEF Copies
  <2>2. stream \in [Stages -> Seq(StreamOps)] /\ phase \in [Stages -> 0..2]
    <3> HIDE DEF StreamOps
    <3>. QED BY DEF Init
  <2>3. recorded \in [Events -> Nat] /\ reached \in [Events -> Nat] /\ out \in [Stages -> Int]
    BY DEF Init
  <2>4. cpy \in [Stages -> [{"user", "prev"} -> [Copies -> Int]]]
    BY DEF Init
  <2>5. /\ machine \in Machines /\ graph \in Nat /\ split \in 0..NStages
        /\ curCopy \in Copies /\ nextCopy \in Copies /\ input \in Nat \ {0}
    BY <2>1 DEF Init
  <2>6. isAlloc \in BOOLEAN
    BY DEF Init
  <2>. QED BY <2>2, <2>3, <2>4, <2>5, <2>6 DEF PipeTypes
<1>3. \A b \in Stages : stream[b] = <<>> /\ DOMAIN stream[b] = {} /\ Len(stream[b]) + 1 = 1 /\ out[b] = 0 /\ phase[b] = 0
  BY DEF Init
<1>4. split = 0 /\ graph = 0
  BY DEF Init
<1>5. EventsInv
  BY <1>3 DEF Init, EventsInv
<1>6. \A b \in Stages, k \in {"user", "prev"} : ~Past(b, k)
  BY <1>4 DEF Past, Stages
<1>7. CopiesInv /\ UserInv /\ PrevInv /\ TransferInv
  BY <1>3, <1>4, <1>6 DEF CopiesInv, UserInv, PrevInv, TransferInv
<1>8. OutInv
  <2>1. \A b \in Stages : Yields(b, 1, 0) /\ Queued(b) = 0
    BY <1>3, <1>4 DEF Yields, Queued
  <2>. QED BY <1>3, <2>1 DEF OutInv
<1>9. LastInv
  <2>1. \A b \in Stages : Yields(b, 1, 0)
    BY <1>3 DEF Yields
  <2>2. \A b \in Stages : cpy[b]["prev"][curCopy] = 0
    <3>1. curCopy = 1 /\ 1 \in Copies
      BY <1>1 DEF Init, Copies
    <3>. QED BY <3>1 DEF Init
  <2>3. \A b \in Stages : ~CopyPending(b, curCopy)
    BY <1>3 DEF CopyPending, IsOp
  <2>. QED BY <1>3, <1>4, <2>1, <2>2, <2>3 DEF LastInv, GraphsInv, ResultInv, HandedInv, HandedOver
<1>. QED BY <1>2, <1>5, <1>7, <1>8, <1>9 DEF PipeInv, Frame

\* How the model is run does not change.
LEMMA MachineStays == [Next]_vars => machine' = machine /\ (HostWaits' <=> HostWaits)
<1> SUFFICES ASSUME [Next]_vars PROVE machine' = machine /\ (HostWaits' <=> HostWaits)
  OBVIOUS
<1>1. (\E b \in Stages : Runs(b)) => machine' = machine
  BY DEF Runs, StartCompute, FirstLayer, EndCompute, StartCopy, EndCopy, Reach, Pass, hostVars
<1>2. Host => machine' = machine
  BY DEF Host, Alloc, Reset, Synchronize, Reuse, CopyUser, CopyAsync, CopySync, ComputeSplit, NextInput
<1>3. UNCHANGED vars => machine' = machine
  BY DEF vars, hostVars
<1>4. machine' = machine
  BY <1>1, <1>2, <1>3 DEF Next
<1>. QED BY <1>4, SameMachine DEF HostWaits

\* What holds on every machine, and what holds where the host waits.
PipeHolds == Frame /\ LastInv /\ (HostWaits => PipeInv)

LEMMA PipeInvariant == SchedSpec => []PipeHolds
<1>1. SchedInit => PipeHolds
  BY PipeStarts DEF SchedInit, PipeHolds
<1>2. PipeHolds /\ [Next]_vars => PipeHolds'
  <2> SUFFICES ASSUME PipeHolds, [Next]_vars PROVE PipeHolds'
    OBVIOUS
  <2>1. Frame' /\ LastInv'
    BY FrameStep, LastStep DEF PipeHolds
  <2>2. HostWaits' => PipeInv'
    BY MachineStays, PipeStep, PipeStutters DEF PipeHolds
  <2>. QED BY <2>1, <2>2 DEF PipeHolds
<1>3. PipeHolds /\ [SchedNext]_schedVars => PipeHolds'
  BY <1>2 DEF SchedNext, schedVars
<1>. QED BY <1>1, <1>3, PTL DEF SchedSpec

\* A stage computes a graph from that graph's own inputs, whole, for as long as it reads them.  Of
\* the copies of the user's inputs in ggml_backend_sched_compute_splits, no graph takes one that
\* another still reads, on any number of stages and graphs and any machine.  Of the copies of the
\* activation: where the host waits for their event, or copies them itself; elsewhere the last
\* graph queued has its own, whatever the graphs before it find.
THEOREM StagesReadTheirOwn == SchedSpec => []OwnInputs
<1>1. PipeHolds => OwnInputs
  <2> SUFFICES ASSUME PipeHolds, NEW b \in Stages, NEW k \in {"user", "prev"}, HeadIs(b, "compute"), Reads(b, k),
                      k = "user" \/ HostWaits \/ Head(stream[b]).graph = graph
               PROVE  cpy[b][k][Head(stream[b]).copy] = Head(stream[b]).graph
    BY DEF OwnInputs
  <2>1. Frame /\ LastInv /\ (HostWaits => PipeInv)
    BY DEF PipeHolds
  <2>2. CASE k = "user"
    <3>1. 1 \in DOMAIN stream[b] /\ Head(stream[b]) = stream[b][1] /\ stream[b][1].op = "compute"
      BY <2>1, HeadFacts DEF HeadIs
    <3>2. Takes(b, "user")
      BY <2>2 DEF Reads, Takes
    <3>. QED BY <2>1, <2>2, <3>1, <3>2 DEF Frame, UserInv
  <2>3. CASE HostWaits
    BY <2>1, <2>3, HeadHasInputs DEF InputsAre
  <2>4. CASE Head(stream[b]).graph = graph
    BY <2>1, <2>4, HeadHasLast DEF InputsAre
  <2>. QED BY <2>2, <2>3, <2>4
<1>. QED BY <1>1, PipeInvariant, PTL

\* When the host has queued a graph and all streams are through, every stage has computed that
\* graph: what ggml_backend_sched_synchronize, and llama_synchronize with it, promise.  On every
\* machine: a copy for an earlier graph may be written late, but not behind the last one.
THEOREM SynchronizedIsDone == SchedSpec => []DrainedIsDone
<1>1. PipeHolds => DrainedIsDone
  <2> SUFFICES ASSUME PipeHolds, Idle, AllDrained, NEW b \in Stages PROVE out[b] = graph
    BY DEF DrainedIsDone
  <2>1. stream[b] = <<>> /\ HostPast(b)
    BY DEF AllDrained, Drained, HostPast, Idle
  <2>2. Len(stream[b]) + 1 = 1
    BY <2>1
  <2>3. Yields(b, 1, graph)
    BY <2>1, <2>2 DEF PipeHolds, LastInv, ResultInv
  <2>. QED BY <2>3 DEF Yields
<1>. QED BY <1>1, PipeInvariant, PTL
=============================================================================
