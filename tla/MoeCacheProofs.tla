--------------------------- MODULE MoeCacheProofs ---------------------------
(***************************************************************************)
(* TLAPS proofs about MoeCache: typing, and the inductive invariant behind *)
(* the safety of the tables, for any number of layers, slots and experts.  *)
(***************************************************************************)
EXTENDS MoeCache, FiniteSetTheorems, TLAPS

-----------------------------------------------------------------------------
(* Operators of the replacement policy.                                    *)

\* A recency rank is a natural number.
LEMMA RankType ==
  ASSUME NEW used \in SUBSET Slots, NEW p, NEW s \in Slots
  PROVE  Rank(p, used, s) \in Nat
<1>1. IsFiniteSet(Slots)
  BY FS_Interval, SizeAssumption DEF Slots
<1>2. \A T : T \subseteq Slots => Cardinality(T) \in Nat
  BY <1>1, FS_Subset, FS_CardinalityType
<1>3. /\ (Slots \ used) \subseteq Slots
      /\ {t \in used : t < s} \subseteq Slots
      /\ {t \in Slots \ used : p[t] < p[s]} \subseteq Slots
  OBVIOUS
<1>4. /\ Cardinality(Slots \ used) \in Nat
      /\ Cardinality({t \in used : t < s}) \in Nat
      /\ Cardinality({t \in Slots \ used : p[t] < p[s]}) \in Nat
  BY <1>2, <1>3
<1>. QED BY <1>4 DEF Rank

\* The observations add a natural number of hits to a slot.
LEMMA HitsOnType ==
  ASSUME TypeOK, NEW l \in Layers, NEW s \in Slots
  PROVE  HitsOn(l, s) \in Nat
<1>1. CASE \E e \in Experts : expertSlot[l][e] = s
  <2>1. (CHOOSE e \in Experts : expertSlot[l][e] = s) \in Experts
    BY <1>1
  <2>. QED BY <1>1, <2>1 DEF HitsOn, TypeOK
<1>2. CASE ~\E e \in Experts : expertSlot[l][e] = s
  BY <1>2 DEF HitsOn
<1>. QED BY <1>1, <1>2

\* A saturating counter stays a natural number.
LEMMA CappedType ==
  ASSUME NEW n \in Nat, NEW cap \in Nat
  PROVE  Capped(n, cap) \in Nat
BY DEF Capped

-----------------------------------------------------------------------------
(* Typing.                                                                 *)

LEMMA InitType == Init => TypeOK
<1> SUFFICES ASSUME Init PROVE TypeOK
  OBVIOUS
<1> DEFINE es == [e \in Experts |-> IF \E s \in Slots : <<e, s>> \in StaticFill
                               THEN CHOOSE s \in Slots : <<e, s>> \in StaticFill
                               ELSE Skip]
           se == [s \in Slots |-> IF \E e \in Experts : <<e, s>> \in StaticFill
                             THEN CHOOSE e \in Experts : <<e, s>> \in StaticFill
                             ELSE NoExpert]
<1>1. es \in [Experts -> Slots \cup {Skip}]
  OBVIOUS
<1>2. se \in [Slots -> Experts \cup {NoExpert}]
  OBVIOUS
<1>3. /\ slotExpert = [l \in Layers |-> se] /\ content = [l \in Layers |-> se]
      /\ expertSlot = [l \in Layers |-> es] /\ gpuTable = [l \in Layers |-> es]
      /\ cpuTable = [l \in Layers |-> CpuTableOf(es)]
  BY DEF Init, GpuTableOf
<1>4. CpuTableOf(es) \in SUBSET Experts
  BY DEF CpuTableOf
<1>5. 1 \in Layers /\ 0 \in 0..AgeEvery-1
  BY SizeAssumption, PolicyAssumption DEF Layers
<1> HIDE DEF es, se
<1>6. /\ slotExpert \in [Layers -> [Slots -> Experts \cup {NoExpert}]]
      /\ content \in [Layers -> [Slots -> Experts \cup {NoExpert, Torn}]]
      /\ expertSlot \in [Layers -> [Experts -> Slots \cup {Skip}]]
      /\ gpuTable \in [Layers -> [Experts -> Slots \cup {Skip}]]
      /\ cpuTable \in [Layers -> SUBSET Experts]
  BY <1>1, <1>2, <1>3, <1>4
<1>7. pos \in [Layers -> [Slots -> Nat]]
  BY SizeAssumption DEF Init, Slots
<1>. QED BY <1>5, <1>6, <1>7 DEF Init, TypeOK, Job

LEMMA NextType == TypeOK /\ [Next]_vars => TypeOK'
<1> SUFFICES ASSUME TypeOK, [Next]_vars PROVE TypeOK'
  OBVIOUS
<1> USE SizeAssumption
<1>1. CASE BeginStep
  <2>1. (clock + 1) % AgeEvery \in 0..AgeEvery-1
    BY PolicyAssumption DEF TypeOK
  <2>. QED BY <1>1, <2>1 DEF BeginStep, TypeOK, residency, tables, loop, worker
<1>2. ASSUME NEW j \in finished, Publish(j) PROVE TypeOK'
  <2>1. j \in Job
    BY DEF TypeOK
  <2>2. j.layer \in Layers /\ j.expert \in Experts /\ j.slot \in Slots
    BY <2>1 DEF Job
  <2>3. /\ slotExpert' \in [Layers -> [Slots -> Experts \cup {NoExpert}]]
        /\ expertSlot' \in [Layers -> [Experts -> Slots \cup {Skip}]]
        /\ inFlight' \in [Layers -> SUBSET Slots]
        /\ pending'  \in [Layers -> SUBSET Experts]
    BY <1>2, <2>2 DEF Publish, Settle, TypeOK
  <2>4. /\ hits' \in [Layers -> [Slots -> Nat]]
        /\ missCount' \in [Layers -> [Experts -> Nat]]
        /\ fresh' \in [Layers -> SUBSET Slots]
        /\ dirty' \subseteq Layers
    BY <1>2, <2>2 DEF Publish, TypeOK
  <2>. QED BY <1>2, <2>3, <2>4 DEF Publish, TypeOK, tables, loop, worker
<1>3. CASE Consume
  <2>1. \A l \in Layers, s \in Slots : HitsOn(l, s) \in Nat
    BY HitsOnType
  <2>2. \A l \in Layers : UsedNow(l) \in SUBSET Slots
    BY DEF UsedNow, TypeOK
  <2>3. pos' \in [Layers -> [Slots -> Nat]]
    BY <1>3, <2>2, RankType DEF Consume
  <2>4. ASSUME NEW l \in Layers, NEW s \in Slots
        PROVE  LET h == Capped(hits[l][s] + HitsOn(l, s), HitCap)
               IN  h \in Nat /\ h \div 2 \in Nat
    <3>1. hits[l][s] + HitsOn(l, s) \in Nat
      BY <2>1 DEF TypeOK
    <3>2. Capped(hits[l][s] + HitsOn(l, s), HitCap) \in Nat
      BY <3>1, CappedType, PolicyAssumption
    <3>. QED BY <3>2
  <2>5. hits' \in [Layers -> [Slots -> Nat]]
    BY <1>3, <2>4 DEF Consume
  <2>6. missCount' \in [Layers -> [Experts -> Nat]]
    BY <1>3, CappedType, PolicyAssumption DEF Consume, TypeOK
  <2>7. /\ cand' \in [Layers -> SUBSET Experts] /\ fresh' \in [Layers -> SUBSET Slots]
        /\ obs' \in [Layers -> [Experts -> Nat]]
        /\ round' \in Nat /\ li' \in Layers /\ bytes' \in Nat
    BY <1>3, <2>2 DEF Consume, Candidates, Layers
  <2>. QED BY <1>3, <2>3, <2>5, <2>6, <2>7 DEF Consume, TypeOK, residency, tables, worker
<1>a. NextLayer => round' \in Nat /\ li' \in Layers
  BY DEF NextLayer, TypeOK, Layers
<1>b. bytes + Slab[li] \in Nat
  BY BudgetAssumption DEF TypeOK
<1>c. 1 \in Layers
  BY DEF Layers
<1>4. CASE BreakRound
  BY <1>4, <1>c DEF BreakRound, TypeOK, residency, policy, tables, worker
<1>5. CASE NoCandidate
  BY <1>5, <1>a DEF NoCandidate, TypeOK, residency, policy, tables, worker
<1>d. ASSUME NEW e \in Experts, NEW s \in Slots, Admit(e, s),
             slotExpert' \in [Layers -> [Slots -> Experts \cup {NoExpert}]],
             expertSlot' \in [Layers -> [Experts -> Slots \cup {Skip}]],
             dirty' \subseteq Layers
      PROVE  TypeOK'
  <2>1. /\ inFlight' \in [Layers -> SUBSET Slots] /\ pending' \in [Layers -> SUBSET Experts]
        /\ cand' \in [Layers -> SUBSET Experts]
    BY <1>d DEF Admit, TypeOK
  <2>2. scheduled' \subseteq Job
    BY <1>d DEF Admit, TypeOK, Job
  <2>. QED BY <1>a, <1>b, <1>d, <2>1, <2>2 DEF Admit, TypeOK, policy, tables, worker
<1>6. ASSUME NEW e \in Experts, NEW s \in Slots, AdmitFree(e, s) PROVE TypeOK'
  BY <1>6, <1>d DEF AdmitFree, TypeOK
<1>7. ASSUME NEW e \in Experts, NEW s \in Slots, AdmitEvicting(e, s) PROVE TypeOK'
  <2>1. /\ slotExpert' \in [Layers -> [Slots -> Experts \cup {NoExpert}]]
        /\ expertSlot' \in [Layers -> [Experts -> Slots \cup {Skip}]]
        /\ dirty' \subseteq Layers
    BY <1>7 DEF AdmitEvicting, MarkDirty, TypeOK
  <2>. QED BY <1>7, <1>d, <2>1 DEF AdmitEvicting
<1>8. ASSUME NEW e \in Experts, PassOver(e) PROVE TypeOK'
  BY <1>8 DEF PassOver, TypeOK, residency, policy, tables, worker
<1>9. ASSUME NEW e \in Experts, NothingEvictable(e) PROVE TypeOK'
  BY <1>9, <1>a DEF NothingEvictable, TypeOK, residency, policy, tables, worker
<1>10. CASE Flush
  <2>1. /\ gpuTable' \in [Layers -> [Experts -> Slots \cup {Skip}]]
        /\ cpuTable' \in [Layers -> SUBSET Experts]
    BY <1>10 DEF Flush, GpuTableOf, CpuTableOf, TypeOK
  <2>. QED BY <1>10, <2>1 DEF Flush, TypeOK, Layers, residency, policy, worker
<1>11. CASE HandOff
  BY <1>11 DEF HandOff, Queue, TypeOK, residency, policy, tables, loop, worker
<1>12. CASE StartGraph
  BY <1>12 DEF StartGraph, TypeOK, residency, policy, tables, loop, worker
<1>13. CASE FailGraph
  BY <1>13 DEF FailGraph, TypeOK, residency, policy, tables, loop, worker
<1>14. ASSUME NEW r \in [Layers -> Routings], EndGraph(r) PROVE TypeOK'
  <2>1. \A l \in Layers : [e \in Experts |-> obs[l][e] + r[l][e]] \in [Experts -> Nat]
    BY RoutingAssumption DEF TypeOK
  <2>2. obs' \in [Layers -> [Experts -> Nat]]
    BY <1>14, <2>1 DEF EndGraph, TypeOK
  <2>. QED BY <1>14, <2>2 DEF EndGraph, TypeOK, residency, tables, loop, worker
<1>15. CASE WorkerTake
  BY <1>15 DEF WorkerTake, TypeOK, residency, policy, tables, loop
<1>16. ASSUME NEW j \in toCopy, WorkerCopy(j) PROVE TypeOK'
  <2>1. j.layer \in Layers /\ j.slot \in Slots
    BY DEF TypeOK, Job
  <2>2. content' \in [Layers -> [Slots -> Experts \cup {NoExpert, Torn}]]
    BY <1>16, <2>1 DEF WorkerCopy, TypeOK
  <2>. QED BY <1>16, <2>2 DEF WorkerCopy, TypeOK, residency, policy, tables, loop
<1>17. CASE WorkerSync
  <2>1. ASSUME NEW l \in Layers, NEW s \in Slots, \E j \in batch : j.layer = l /\ j.slot = s
        PROVE  (CHOOSE j \in batch : j.layer = l /\ j.slot = s).expert \in Experts
    <3>1. (CHOOSE j \in batch : j.layer = l /\ j.slot = s) \in batch
      BY <2>1
    <3>. QED BY <3>1 DEF TypeOK, Job
  <2>2. content' \in [Layers -> [Slots -> Experts \cup {NoExpert, Torn}]]
    BY <1>17, <2>1 DEF WorkerSync, TypeOK
  <2>3. /\ wpc' = "post"
        /\ UNCHANGED <<phase, residency, policy, tables, finished, fresh, dirty, loop,
                       scheduled, todo, done, stop, batch, toCopy>>
    BY <1>17 DEF WorkerSync
  <2>. QED BY <2>2, <2>3 DEF TypeOK, residency, policy, tables, loop
<1>18. CASE WorkerPost
  BY <1>18 DEF WorkerPost, CopiesLanded, TypeOK, residency, policy, tables, loop
<1>19. CASE WorkerExit
  BY <1>19 DEF WorkerExit, TypeOK, residency, policy, tables, loop
<1>20. CASE RaiseStop
  BY <1>20 DEF RaiseStop, TypeOK, residency, policy, tables, loop, worker
<1>21. CASE FreePools
  BY <1>21 DEF FreePools, TypeOK, residency, policy, tables, loop, worker
<1>22. CASE UNCHANGED vars
  BY <1>22 DEF vars, TypeOK, residency, policy, tables, loop, worker
<1>. QED
  BY <1>1, <1>2, <1>3, <1>4, <1>5, <1>6, <1>7, <1>8, <1>9, <1>10, <1>11, <1>12, <1>13,
     <1>14, <1>15, <1>16, <1>17, <1>18, <1>19, <1>20, <1>21, <1>22
  DEF Next, Step, Graph, Worker, Freed

\* Every reachable state is well typed, whatever the sizes of the pools.
THEOREM TypeCorrect == Spec => []TypeOK
BY InitType, NextType, PTL DEF Spec

-----------------------------------------------------------------------------
(* The inductive invariant.                                                *)

LEMMA InitInvariant == Init => IInv
<1> SUFFICES ASSUME Init PROVE IInv
  OBVIOUS
<1> DEFINE es == [e \in Experts |-> IF \E s \in Slots : <<e, s>> \in StaticFill
                               THEN CHOOSE s \in Slots : <<e, s>> \in StaticFill
                               ELSE Skip]
           se == [s \in Slots |-> IF \E e \in Experts : <<e, s>> \in StaticFill
                             THEN CHOOSE e \in Experts : <<e, s>> \in StaticFill
                             ELSE NoExpert]
<1>1. /\ slotExpert = [l \in Layers |-> se] /\ content = [l \in Layers |-> se]
      /\ expertSlot = [l \in Layers |-> es]
      /\ gpuTable = [l \in Layers |-> GpuTableOf(es)]
      /\ cpuTable = [l \in Layers |-> CpuTableOf(es)]
  BY DEF Init
<1>2. \A s \in Slots, e \in Experts : se[s] = e <=> es[e] = s
  <2> SUFFICES ASSUME NEW s \in Slots, NEW e \in Experts
               PROVE  se[s] = e <=> es[e] = s
    OBVIOUS
  <2>1. Skip \notin Slots
    BY DEF Skip, Slots
  <2>2. ASSUME NEW a \in Experts, NEW b \in Experts, NEW t \in Slots,
               <<a, t>> \in StaticFill, <<b, t>> \in StaticFill
        PROVE  a = b
    <3>1. <<a, t>>[2] = <<b, t>>[2] => <<a, t>>[1] = <<b, t>>[1]
      BY <2>2, FillAssumption
    <3>. QED BY <3>1
  <2>3. ASSUME NEW a \in Experts, NEW t \in Slots, NEW u \in Slots,
               <<a, t>> \in StaticFill, <<a, u>> \in StaticFill
        PROVE  t = u
    <3>1. <<a, t>>[1] = <<a, u>>[1] => <<a, t>>[2] = <<a, u>>[2]
      BY <2>3, FillAssumption
    <3>. QED BY <3>1
  <2>4. se[s] = e <=> <<e, s>> \in StaticFill
    BY <2>2, NoExpertAssumption
  <2>5. es[e] = s <=> <<e, s>> \in StaticFill
    BY <2>1, <2>3
  <2>. QED BY <2>4, <2>5
<1> HIDE DEF es, se
<1>3. Residency
  BY <1>1, <1>2 DEF Residency
<1>4. Marked /\ JobsDistinct /\ Stages
  BY DEF Init, Marked, JobsDistinct, Stages, Jobs
<1>5. Contents
  BY <1>1 DEF Init, Contents
<1>6. Tables
  BY <1>1 DEF Init, Tables
<1>. QED BY <1>3, <1>4, <1>5, <1>6 DEF IInv

\* No job, no slot and no table moves: what is left of the decode thread's own
\* bookkeeping cannot disturb the invariant.
LEMMA Bystander ==
  ASSUME IInv,
         UNCHANGED <<slotExpert, expertSlot, inFlight, pending, tables, content,
                     finished, dirty, scheduled, todo, done, batch, toCopy>>,
         \A l \in Layers : cand'[l] \subseteq cand[l],
         wpc' = "post" => wpc = "post",
         Stages'
  PROVE  IInv'
<1>1. Jobs' = Jobs
  BY DEF Jobs
<1>2. Residency' /\ Marked' /\ JobsDistinct'
  BY <1>1 DEF IInv, Residency, Marked, JobsDistinct
<1>3. Tables'
  BY DEF IInv, Tables, tables, GpuTableOf, CpuTableOf
<1>4. Contents'
  BY DEF IInv, Contents
<1>. QED BY <1>2, <1>3, <1>4 DEF IInv

\* A published upload: the slot leaves flight and becomes resident.
LEMMA PublishInvariant ==
  ASSUME TypeOK, IInv, NEW j \in finished, Publish(j)
  PROVE  IInv'
<1> DEFINE l0 == j.layer
           e0 == j.expert
           s0 == j.slot
<1>1. j \in Job /\ l0 \in Layers /\ e0 \in Experts /\ s0 \in Slots
  BY DEF TypeOK, Job
<1>2. j \in Jobs /\ Jobs' = Jobs \ {j}
  BY DEF Jobs, Publish, worker, IInv, JobsDistinct
<1>3. /\ s0 \in inFlight[l0] /\ e0 \in pending[l0]
      /\ slotExpert[l0][s0] = NoExpert /\ expertSlot[l0][e0] = Skip
  BY <1>1, <1>2 DEF IInv, Marked
<1>4. \A k \in Jobs : k # j => k.layer # l0 \/ (k.slot # s0 /\ k.expert # e0)
  BY <1>2 DEF IInv, JobsDistinct
<1>5. /\ slotExpert' = [slotExpert EXCEPT ![l0][s0] = e0]
      /\ expertSlot' = [expertSlot EXCEPT ![l0] =
                          [e \in Experts |-> IF e = e0 THEN s0 ELSE expertSlot[l0][e]]]
  <2>1. \A e \in Experts : e # slotExpert[l0][s0]
    BY <1>3, NoExpertAssumption
  <2>. QED BY <1>1, <2>1 DEF Publish, TypeOK
<1>6. /\ inFlight' = [inFlight EXCEPT ![l0] = @ \ {s0}]
      /\ pending' = [pending EXCEPT ![l0] = @ \ {e0}]
      /\ dirty' = dirty \cup {l0}
      /\ finished' = finished \ {j}
      /\ UNCHANGED <<phase, gpuTable, cpuTable, content, cand, scheduled, todo,
                     done, wpc, batch, toCopy>>
  BY DEF Publish, Settle, tables, loop, worker
<1>7. \A l \in Layers : cand[l] = {}
  BY DEF Publish, IInv, Stages
<1> HIDE DEF l0, e0, s0
<1>8. Residency'
  <2>1. \A e \in Experts : expertSlot[l0][e] # s0
    BY <1>1, <1>3, NoExpertAssumption DEF IInv, Residency
  <2>2. \A s \in Slots : slotExpert[l0][s] # e0
    <3>1. Skip \notin Slots
      BY DEF Skip, Slots
    <3>. QED BY <1>1, <1>3, <3>1 DEF IInv, Residency
  <2>. QED BY <1>1, <1>5, <2>1, <2>2 DEF IInv, Residency, TypeOK
<1>9. Marked'
  <2>1. ASSUME NEW l \in Layers, NEW s \in Slots
        PROVE  s \in inFlight'[l] <=> \E k \in Jobs' : k.layer = l /\ k.slot = s
    <3>1. s \in inFlight[l] <=> \E k \in Jobs : k.layer = l /\ k.slot = s
      BY DEF IInv, Marked
    <3>2. s \in inFlight'[l] <=> s \in inFlight[l] /\ ~(l = l0 /\ s = s0)
      BY <1>1, <1>6 DEF TypeOK
    <3>. QED BY <1>2, <1>4, <3>1, <3>2 DEF l0, s0
  <2>2. ASSUME NEW l \in Layers, NEW e \in Experts
        PROVE  e \in pending'[l] <=> \E k \in Jobs' : k.layer = l /\ k.expert = e
    <3>1. e \in pending[l] <=> \E k \in Jobs : k.layer = l /\ k.expert = e
      BY DEF IInv, Marked
    <3>2. e \in pending'[l] <=> e \in pending[l] /\ ~(l = l0 /\ e = e0)
      BY <1>1, <1>6 DEF TypeOK
    <3>. QED BY <1>2, <1>4, <3>1, <3>2 DEF l0, e0
  <2>3. \A l \in Layers : \A s \in inFlight'[l] : slotExpert'[l][s] = NoExpert
    BY <1>1, <1>5, <1>6 DEF IInv, Marked, TypeOK
  <2>4. \A l \in Layers : \A e \in pending'[l] : expertSlot'[l][e] = Skip
    BY <1>1, <1>5, <1>6 DEF IInv, Marked, TypeOK
  <2>. QED BY <1>6, <1>7, <2>1, <2>2, <2>3, <2>4 DEF Marked
<1>10. JobsDistinct'
  BY <1>2, <1>6 DEF IInv, JobsDistinct
<1>11. Contents'
  <2>1. content[l0][s0] = e0
    BY DEF IInv, Contents, l0, s0, e0
  <2>. QED BY <1>1, <1>5, <1>6, <2>1 DEF IInv, Contents, TypeOK
<1>12. Tables'
  BY <1>1, <1>5, <1>6 DEF IInv, Tables, GpuTableOf, CpuTableOf, TypeOK
<1>13. Stages'
  BY <1>6 DEF IInv, Stages, Publish
<1>. QED BY <1>8, <1>9, <1>10, <1>11, <1>12, <1>13 DEF IInv

\* An admission after the victim, if there was one, has left its slot.
LEMMA AdmitInvariant ==
  ASSUME TypeOK, IInv, NEW e0 \in Experts, NEW s0 \in Slots, phase = "sched",
         e0 \in cand[li], s0 \notin inFlight[li],
         Admit(e0, s0),
         slotExpert' = [slotExpert EXCEPT ![li][s0] = NoExpert],
         expertSlot' = [expertSlot EXCEPT ![li] =
                          [x \in Experts |-> IF x = slotExpert[li][s0] THEN Skip
                                             ELSE expertSlot[li][x]]],
         dirty' \in SUBSET Layers, dirty \subseteq dirty',
         slotExpert[li][s0] # NoExpert => li \in dirty'
  PROVE  IInv'
<1> DEFINE j0 == [layer |-> li, expert |-> e0, slot |-> s0]
<1>1. li \in Layers /\ j0 \in Job /\ j0.layer = li /\ j0.expert = e0 /\ j0.slot = s0
  BY DEF TypeOK, Job
<1>2. /\ scheduled' = scheduled \cup {j0}
      /\ inFlight' = [inFlight EXCEPT ![li] = @ \cup {s0}]
      /\ pending'  = [pending  EXCEPT ![li] = @ \cup {e0}]
      /\ cand' = [cand EXCEPT ![li] = @ \ {e0}]
      /\ UNCHANGED <<phase, gpuTable, cpuTable, content, finished, todo, done,
                     wpc, batch, toCopy>>
  BY DEF Admit, tables, worker
<1>3. Jobs' = Jobs \cup {j0}
  BY <1>2 DEF Jobs
<1>4. expertSlot[li][e0] = Skip /\ e0 \notin pending[li]
  BY <1>1 DEF IInv, Marked
<1>5. \A k \in Jobs : k.layer = li => k.slot # s0 /\ k.expert # e0
  BY <1>1, <1>4 DEF IInv, Marked
<1> HIDE DEF j0
<1>6. j0 \notin Jobs
  BY <1>1, <1>5
<1>7. Residency'
  <2>1. ASSUME NEW l \in Layers, l # li, NEW s \in Slots, NEW e \in Experts
        PROVE  slotExpert'[l][s] = e <=> expertSlot'[l][e] = s
    BY <1>1, <2>1 DEF IInv, Residency, TypeOK
  <2>2. ASSUME NEW s \in Slots, NEW e \in Experts
        PROVE  slotExpert'[li][s] = e <=> expertSlot'[li][e] = s
    <3>1. Skip \notin Slots
      BY DEF Skip, Slots
    <3>2. slotExpert[li][s] = e <=> expertSlot[li][e] = s
      BY <1>1 DEF IInv, Residency
    <3>3. slotExpert[li][s0] = e <=> expertSlot[li][e] = s0
      BY <1>1 DEF IInv, Residency
    <3>4. expertSlot'[li][e] = IF e = slotExpert[li][s0] THEN Skip ELSE expertSlot[li][e]
      BY <1>1 DEF TypeOK
    <3>5. slotExpert'[li][s] = IF s = s0 THEN NoExpert ELSE slotExpert[li][s]
      BY <1>1 DEF TypeOK
    <3>. QED BY <3>1, <3>2, <3>3, <3>4, <3>5, NoExpertAssumption
  <2>. QED BY <2>1, <2>2 DEF Residency
<1>8. Marked'
  <2>1. ASSUME NEW l \in Layers, NEW s \in Slots
        PROVE  s \in inFlight'[l] <=> \E k \in Jobs' : k.layer = l /\ k.slot = s
    <3>1. s \in inFlight[l] <=> \E k \in Jobs : k.layer = l /\ k.slot = s
      BY DEF IInv, Marked
    <3>2. s \in inFlight'[l] <=> s \in inFlight[l] \/ (l = li /\ s = s0)
      BY <1>1, <1>2 DEF TypeOK
    <3>. QED BY <1>1, <1>3, <3>1, <3>2
  <2>2. ASSUME NEW l \in Layers, NEW e \in Experts
        PROVE  e \in pending'[l] <=> \E k \in Jobs' : k.layer = l /\ k.expert = e
    <3>1. e \in pending[l] <=> \E k \in Jobs : k.layer = l /\ k.expert = e
      BY DEF IInv, Marked
    <3>2. e \in pending'[l] <=> e \in pending[l] \/ (l = li /\ e = e0)
      BY <1>1, <1>2 DEF TypeOK
    <3>. QED BY <1>1, <1>3, <3>1, <3>2
  <2>3. \A l \in Layers : \A s \in inFlight'[l] : slotExpert'[l][s] = NoExpert
    BY <1>1, <1>2 DEF IInv, Marked, TypeOK
  <2>4. \A l \in Layers : \A e \in pending'[l] \cup cand'[l] : expertSlot'[l][e] = Skip
    BY <1>1, <1>2, <1>4 DEF IInv, Marked, TypeOK
  <2>5. \A l \in Layers : pending'[l] \cap cand'[l] = {}
    BY <1>1, <1>2 DEF IInv, Marked, TypeOK
  <2>. QED BY <2>1, <2>2, <2>3, <2>4, <2>5 DEF Marked
<1>9. JobsDistinct'
  <2>1. \A j, k \in Jobs' : j.layer = k.layer /\ (j.slot = k.slot \/ j.expert = k.expert) => j = k
    BY <1>1, <1>3, <1>5 DEF IInv, JobsDistinct
  <2>2. j0 \notin finished \cup todo \cup batch \cup done
    BY <1>6 DEF Jobs
  <2>. QED BY <1>2, <2>1, <2>2 DEF IInv, JobsDistinct
<1>10. Contents'
  BY <1>1, <1>2, NoExpertAssumption DEF IInv, Contents, TypeOK
<1>11. Tables'
  <2>1. ASSUME NEW l \in Layers \ dirty' PROVE expertSlot'[l] = expertSlot[l]
    <3>1. CASE l # li
      BY <1>1, <3>1 DEF TypeOK
    <3>2. CASE l = li
      <4>1. slotExpert[li][s0] = NoExpert
        BY <3>2, <2>1
      <4>2. \A x \in Experts : x # slotExpert[li][s0]
        BY <4>1, NoExpertAssumption
      <4>3. expertSlot'[li] = [x \in Experts |-> expertSlot[li][x]]
        BY <1>1, <4>2 DEF TypeOK
      <4>. QED BY <1>1, <3>2, <4>3 DEF TypeOK
    <3>. QED BY <3>1, <3>2
  <2>. QED BY <1>2, <2>1 DEF IInv, Tables, GpuTableOf, CpuTableOf
<1>12. Stages'
  BY <1>1, <1>2 DEF IInv, Stages, TypeOK
<1>. QED BY <1>7, <1>8, <1>9, <1>10, <1>11, <1>12 DEF IInv

\* The tables are written, then the copies handed over.
LEMMA FlushInvariant ==
  ASSUME TypeOK, IInv, Flush
  PROVE  IInv'
<1>1. /\ Jobs' = Jobs
      /\ \A l \in Layers : cand'[l] = {}
      /\ dirty' = {} /\ phase' = "handoff" /\ phase = "sched"
      /\ UNCHANGED <<slotExpert, expertSlot, inFlight, pending, content, finished,
                     scheduled, todo, done, wpc, batch, toCopy>>
  BY DEF Flush, Jobs, residency, worker
<1>2. Residency' /\ Marked' /\ JobsDistinct' /\ Contents'
  BY <1>1 DEF IInv, Residency, Marked, JobsDistinct, Contents
<1>3. \A l \in Layers : /\ gpuTable'[l] = GpuTableOf(expertSlot[l])
                        /\ cpuTable'[l] = CpuTableOf(expertSlot[l])
  BY DEF Flush, IInv, Tables
<1>4. ASSUME NEW j \in finished' \cup todo' \cup batch' \cup done', NEW e \in Experts
      PROVE  gpuTable'[j.layer][e] # j.slot
  <2>1. j \in Jobs /\ j.layer \in Layers /\ j.slot \in Slots
    BY <1>1 DEF Jobs, TypeOK, Job
  <2>2. slotExpert[j.layer][j.slot] = NoExpert
    BY <2>1 DEF IInv, Marked
  <2>3. expertSlot[j.layer][e] # j.slot
    BY <2>1, <2>2, NoExpertAssumption DEF IInv, Residency
  <2>. QED BY <1>3, <2>1, <2>3 DEF GpuTableOf
<1>5. Tables'
  BY <1>1, <1>3, <1>4 DEF Tables, GpuTableOf, CpuTableOf
<1>6. Stages'
  BY <1>1 DEF IInv, Stages
<1>. QED BY <1>2, <1>5, <1>6 DEF IInv

LEMMA HandOffInvariant ==
  ASSUME TypeOK, IInv, HandOff
  PROVE  IInv'
<1>1. /\ Jobs' = Jobs /\ todo' = todo \cup scheduled /\ scheduled' = {}
      /\ phase = "handoff" /\ phase' = "ready"
      /\ UNCHANGED <<slotExpert, expertSlot, inFlight, pending, gpuTable, cpuTable,
                     content, finished, cand, dirty, done, wpc, batch, toCopy>>
  BY DEF HandOff, Queue, Jobs, residency, tables, loop, worker
<1>2. Residency' /\ Marked' /\ JobsDistinct' /\ Contents' /\ Stages'
  BY <1>1 DEF IInv, Residency, Marked, JobsDistinct, Contents, Stages
<1>3. ASSUME NEW j \in scheduled, NEW e \in Experts
      PROVE  gpuTable[j.layer][e] # j.slot
  <2>1. j \in Jobs /\ j.layer \in Layers /\ j.slot \in Slots
    BY DEF Jobs, TypeOK, Job
  <2>2. slotExpert[j.layer][j.slot] = NoExpert
    BY <2>1 DEF IInv, Marked
  <2>3. expertSlot[j.layer][e] # j.slot
    BY <2>1, <2>2, NoExpertAssumption DEF IInv, Residency
  <2>4. gpuTable[j.layer] = expertSlot[j.layer]
    BY <1>1, <2>1 DEF IInv, Stages, Tables, GpuTableOf
  <2>. QED BY <2>3, <2>4
<1>4. Tables'
  BY <1>1, <1>3 DEF IInv, Tables, GpuTableOf, CpuTableOf
<1>. QED BY <1>2, <1>4 DEF IInv

\* The worker moves jobs along and writes only slots of its batch.
LEMMA WorkerInvariant ==
  ASSUME TypeOK, IInv, Worker
  PROVE  IInv'
<1>1. CASE WorkerTake
  <2>1. /\ Jobs' = Jobs /\ batch = {} /\ batch' = todo /\ toCopy' = todo /\ todo' = {}
        /\ wpc = "wait" /\ wpc' = "copy"
        /\ UNCHANGED <<phase, slotExpert, expertSlot, inFlight, pending, gpuTable, cpuTable,
                       content, finished, cand, dirty, scheduled, done>>
    BY <1>1 DEF WorkerTake, Jobs, IInv, Stages, residency, tables, loop
  <2>2. Residency' /\ Marked' /\ JobsDistinct' /\ Contents' /\ Tables'
    BY <2>1 DEF IInv, Residency, Marked, JobsDistinct, Contents, Tables,
                GpuTableOf, CpuTableOf
  <2>3. Stages'
    BY <1>1, <2>1 DEF IInv, Stages
  <2>. QED BY <2>2, <2>3 DEF IInv
<1>2. ASSUME NEW j \in toCopy, WorkerCopy(j) PROVE IInv'
  <2>1. /\ Jobs' = Jobs /\ wpc = "copy"
        /\ content' = [content EXCEPT ![j.layer][j.slot] = Torn]
        /\ toCopy' = toCopy \ {j}
        /\ UNCHANGED <<phase, slotExpert, expertSlot, inFlight, pending, gpuTable, cpuTable,
                       finished, cand, dirty, scheduled, todo, done, wpc, batch>>
    BY <1>2 DEF WorkerCopy, Jobs, residency, tables, loop
  <2>2. j \in batch /\ j \in Jobs /\ j \in Job
    BY DEF IInv, Stages, Jobs, TypeOK
  <2>3. j.layer \in Layers /\ j.slot \in Slots
    BY <2>2 DEF Job
  <2>4. slotExpert[j.layer][j.slot] = NoExpert
    BY <2>2, <2>3 DEF IInv, Marked
  <2>5. \A k \in done \cup finished : k.layer # j.layer \/ k.slot # j.slot
    BY <2>2 DEF IInv, JobsDistinct, Jobs
  <2>6. \A k \in done \cup finished : k.layer \in Layers /\ k.slot \in Slots
    BY DEF TypeOK, Job
  <2>7. Residency' /\ Marked' /\ JobsDistinct' /\ Tables'
    BY <2>1 DEF IInv, Residency, Marked, JobsDistinct, Tables, GpuTableOf, CpuTableOf
  <2>8. Contents'
    <3>1. \A l \in Layers, s \in Slots :
            content'[l][s] = IF l = j.layer /\ s = j.slot THEN Torn ELSE content[l][s]
      BY <2>1, <2>3 DEF TypeOK
    <3>. QED BY <2>1, <2>3, <2>4, <2>5, <2>6, <3>1, NoExpertAssumption
         DEF IInv, Contents
  <2>9. Stages'
    BY <1>2, <2>1 DEF IInv, Stages
  <2>. QED BY <2>7, <2>8, <2>9 DEF IInv
<1>3. CASE WorkerSync
  <2>1. /\ Jobs' = Jobs /\ wpc = "copy" /\ wpc' = "post" /\ toCopy = {}
        /\ UNCHANGED <<phase, slotExpert, expertSlot, inFlight, pending, gpuTable, cpuTable,
                       finished, cand, dirty, scheduled, todo, done, batch, toCopy>>
    BY <1>3 DEF WorkerSync, Jobs, residency, tables, loop
  <2>2. Residency' /\ Marked' /\ JobsDistinct' /\ Tables' /\ Stages'
    BY <2>1 DEF IInv, Residency, Marked, JobsDistinct, Tables, Stages,
                GpuTableOf, CpuTableOf
  <2>3. ASSUME NEW l \in Layers, NEW s \in Slots,
               ~\E j \in batch : j.layer = l /\ j.slot = s
        PROVE  content'[l][s] = content[l][s]
    BY <1>3, <2>3 DEF WorkerSync
  <2>4. ASSUME NEW j \in batch
        PROVE  content'[j.layer][j.slot] = j.expert
    <3>1. j.layer \in Layers /\ j.slot \in Slots
      BY DEF TypeOK, Job
    <3> DEFINE k == CHOOSE x \in batch : x.layer = j.layer /\ x.slot = j.slot
    <3>2. k \in batch /\ k.layer = j.layer /\ k.slot = j.slot
      OBVIOUS
    <3>3. k = j
      BY <3>2 DEF IInv, JobsDistinct, Jobs
    <3>4. content'[j.layer][j.slot] = k.expert
      BY <1>3, <3>1 DEF WorkerSync
    <3>. QED BY <3>3, <3>4
  <2>5. \A l \in Layers, s \in Slots :
          slotExpert[l][s] \in Experts => ~\E j \in batch : j.layer = l /\ j.slot = s
    BY NoExpertAssumption DEF IInv, Marked, Jobs
  <2>6. \A j \in done \cup finished, k \in batch : j.layer # k.layer \/ j.slot # k.slot
    BY DEF IInv, JobsDistinct, Jobs
  <2>7. \A j \in done \cup finished : j.layer \in Layers /\ j.slot \in Slots
    BY DEF TypeOK, Job
  <2>8. Contents'
    BY <2>1, <2>3, <2>4, <2>5, <2>6, <2>7 DEF IInv, Contents
  <2>. QED BY <2>2, <2>8 DEF IInv
<1>4. CASE WorkerPost
  <2>1. /\ Jobs' = Jobs /\ wpc = "post" /\ wpc' = "wait"
        /\ done' = done \cup batch /\ batch' = {}
        /\ UNCHANGED <<phase, slotExpert, expertSlot, inFlight, pending, gpuTable, cpuTable,
                       content, finished, cand, dirty, scheduled, todo, toCopy>>
    BY <1>4 DEF WorkerPost, CopiesLanded, Jobs, residency, tables, loop
  <2>2. Residency' /\ Marked' /\ JobsDistinct' /\ Tables'
    BY <2>1 DEF IInv, Residency, Marked, JobsDistinct, Tables, GpuTableOf, CpuTableOf
  <2>3. Contents' /\ Stages'
    BY <2>1 DEF IInv, Contents, Stages
  <2>. QED BY <2>2, <2>3 DEF IInv
<1>5. CASE WorkerExit
  <2>1. Stages'
    BY <1>5 DEF WorkerExit, IInv, Stages, loop
  <2>. QED BY <1>5, <2>1, Bystander DEF WorkerExit, residency, loop
<1>. QED BY <1>1, <1>2, <1>3, <1>4, <1>5 DEF Worker

LEMMA NextInvariant == TypeOK /\ IInv /\ [Next]_vars => IInv'
<1> SUFFICES ASSUME TypeOK, IInv, [Next]_vars PROVE IInv'
  OBVIOUS
<1>1. CASE BeginStep
  <2>1. /\ Jobs' = Jobs /\ phase' = "publish" /\ phase \in {"idle", "ready"}
        /\ finished = {} /\ finished' = done /\ done' = {}
        /\ UNCHANGED <<slotExpert, expertSlot, inFlight, pending, gpuTable, cpuTable,
                       content, cand, dirty, scheduled, todo, wpc, batch, toCopy>>
    BY <1>1 DEF BeginStep, Jobs, IInv, Stages, residency, tables, loop, worker
  <2>2. Residency' /\ Marked' /\ JobsDistinct' /\ Contents' /\ Tables' /\ Stages'
    BY <2>1 DEF IInv, Residency, Marked, JobsDistinct, Contents, Tables, Stages,
                GpuTableOf, CpuTableOf
  <2>. QED BY <2>2 DEF IInv
<1>2. ASSUME NEW j \in finished, Publish(j) PROVE IInv'
  BY <1>2, PublishInvariant
<1>3. CASE Consume
  <2>1. /\ Jobs' = Jobs /\ phase = "publish" /\ phase' = "sched" /\ finished = {}
        /\ UNCHANGED <<slotExpert, expertSlot, inFlight, pending, gpuTable, cpuTable,
                       content, finished, dirty, scheduled, todo, done, wpc, batch, toCopy>>
    BY <1>3 DEF Consume, Jobs, residency, tables, worker
  <2>2. \A l \in Layers : \A e \in cand'[l] : expertSlot[l][e] = Skip /\ e \notin pending[l]
    BY <1>3 DEF Consume, Candidates
  <2>3. Residency' /\ JobsDistinct' /\ Contents' /\ Tables' /\ Stages'
    BY <2>1 DEF IInv, Residency, JobsDistinct, Contents, Tables, Stages,
                GpuTableOf, CpuTableOf
  <2>4. Marked'
    BY <2>1, <2>2 DEF IInv, Marked
  <2>. QED BY <2>3, <2>4 DEF IInv
<1>4. CASE BreakRound
  <2>1. Stages'
    BY <1>4 DEF BreakRound, InLoop, IInv, Stages, worker
  <2>. QED BY <1>4, <2>1, Bystander DEF BreakRound, residency, worker
<1>5. CASE NoCandidate
  <2>1. Stages'
    BY <1>5 DEF NoCandidate, InLoop, IInv, Stages, worker
  <2>. QED BY <1>5, <2>1, Bystander DEF NoCandidate, residency, worker
<1>6. ASSUME NEW e \in Experts, NEW s \in Slots, AdmitFree(e, s) PROVE IInv'
  <2>1. /\ phase = "sched" /\ e \in cand[li] /\ s \notin inFlight[li]
        /\ slotExpert[li][s] = NoExpert /\ Admit(e, s)
        /\ UNCHANGED <<slotExpert, expertSlot, dirty>>
    BY <1>6 DEF AdmitFree, InLoop, MostWanted, FreeSlots
  <2>2. li \in Layers
    BY DEF TypeOK
  <2>3. slotExpert' = [slotExpert EXCEPT ![li][s] = NoExpert]
    BY <2>1, <2>2 DEF TypeOK
  <2>4. expertSlot' = [expertSlot EXCEPT ![li] =
                         [x \in Experts |-> IF x = slotExpert[li][s] THEN Skip
                                            ELSE expertSlot[li][x]]]
    <3>1. \A x \in Experts : x # slotExpert[li][s]
      BY <2>1, NoExpertAssumption
    <3>2. [x \in Experts |-> IF x = slotExpert[li][s] THEN Skip ELSE expertSlot[li][x]]
            = expertSlot[li]
      BY <2>2, <3>1 DEF TypeOK
    <3>. QED BY <2>1, <2>2, <3>2 DEF TypeOK
  <2>5. dirty' \in SUBSET Layers /\ dirty \subseteq dirty'
    BY <2>1 DEF TypeOK
  <2>. QED BY <2>1, <2>3, <2>4, <2>5, AdmitInvariant
<1>7. ASSUME NEW e \in Experts, NEW s \in Slots, AdmitEvicting(e, s) PROVE IInv'
  <2>1. /\ phase = "sched" /\ e \in cand[li] /\ Admit(e, s) /\ li \in Layers
        /\ slotExpert' = [slotExpert EXCEPT ![li][s] = NoExpert]
        /\ dirty' = dirty \cup {li}
    BY <1>7 DEF AdmitEvicting, InLoop, MostWanted, MarkDirty, TypeOK
  <2>2. s \notin inFlight[li]
    BY <1>7 DEF AdmitEvicting, IsVictim, Evictable, ColdSlots
  <2>3. expertSlot' = [expertSlot EXCEPT ![li] =
                         [x \in Experts |-> IF x = slotExpert[li][s] THEN Skip
                                            ELSE expertSlot[li][x]]]
    BY <1>7, <2>1 DEF AdmitEvicting, TypeOK
  <2>4. dirty' \in SUBSET Layers /\ dirty \subseteq dirty' /\ li \in dirty'
    BY <2>1 DEF TypeOK
  <2>. QED BY <2>1, <2>2, <2>3, <2>4, AdmitInvariant
<1>8. ASSUME NEW e \in Experts, PassOver(e) PROVE IInv'
  <2>1. \A l \in Layers : cand'[l] \subseteq cand[l]
    BY <1>8 DEF PassOver, TypeOK
  <2>2. Stages'
    BY <1>8 DEF PassOver, InLoop, IInv, Stages, worker
  <2>. QED BY <1>8, <2>1, <2>2, Bystander DEF PassOver, residency, worker
<1>9. ASSUME NEW e \in Experts, NothingEvictable(e) PROVE IInv'
  <2>1. \A l \in Layers : cand'[l] \subseteq cand[l]
    BY <1>9 DEF NothingEvictable, TypeOK
  <2>2. Stages'
    BY <1>9 DEF NothingEvictable, InLoop, IInv, Stages, worker
  <2>. QED BY <1>9, <2>1, <2>2, Bystander DEF NothingEvictable, residency, worker
<1>10. CASE Flush
  BY <1>10, FlushInvariant
<1>11. CASE HandOff
  BY <1>11, HandOffInvariant
<1>12. CASE StartGraph
  <2>1. Stages'
    BY <1>12 DEF StartGraph, IInv, Stages, loop, worker
  <2>. QED BY <1>12, <2>1, Bystander DEF StartGraph, residency, loop, worker
<1>13. CASE FailGraph
  <2>1. Stages'
    BY <1>13 DEF FailGraph, IInv, Stages, loop, worker
  <2>. QED BY <1>13, <2>1, Bystander DEF FailGraph, residency, loop, worker
<1>14. ASSUME NEW r \in [Layers -> Routings], EndGraph(r) PROVE IInv'
  <2>1. /\ phase = "graph" /\ phase' = "ready"
        /\ UNCHANGED <<residency, tables, content, finished, dirty, loop, scheduled,
                       todo, done, worker>>
    BY <1>14 DEF EndGraph
  <2>2. Stages'
    BY <2>1 DEF IInv, Stages, loop, worker
  <2>. QED BY <2>1, <2>2, Bystander DEF residency, loop, worker
<1>15. CASE Worker
  BY <1>15, WorkerInvariant
<1>16. CASE RaiseStop
  <2>1. Stages'
    BY <1>16 DEF RaiseStop, IInv, Stages, loop, worker
  <2>. QED BY <1>16, <2>1, Bystander DEF RaiseStop, residency, loop, worker
<1>17. CASE FreePools
  <2>1. Stages'
    BY <1>17 DEF FreePools, Joined, IInv, Stages, loop, worker
  <2>. QED BY <1>17, <2>1, Bystander DEF FreePools, residency, loop, worker
<1>18. CASE UNCHANGED vars
  <2>1. Stages'
    BY <1>18 DEF vars, IInv, Stages, loop, worker
  <2>. QED BY <1>18, <2>1, Bystander DEF vars, residency, loop, worker
<1>. QED
  BY <1>1, <1>2, <1>3, <1>4, <1>5, <1>6, <1>7, <1>8, <1>9, <1>10, <1>11, <1>12, <1>13,
     <1>14, <1>15, <1>16, <1>17, <1>18
  DEF Next, Step, Graph, Freed

\* Residency, jobs, slot memory and tables stay consistent in every reachable
\* state of a cache of any size.
THEOREM InvariantHolds == Spec => []IInv
<1>1. Init => TypeOK /\ IInv
  BY InitType, InitInvariant
<1>2. (TypeOK /\ IInv) /\ [Next]_vars => (TypeOK /\ IInv)'
  BY NextType, NextInvariant
<1>. QED BY <1>1, <1>2, PTL DEF Spec

-----------------------------------------------------------------------------
(* What the invariant gives.                                               *)

\* A graph finds every expert the tables promise it, whole and where the table
\* says; the host chain computes exactly the others.
THEOREM GraphSafe == Spec => []GraphReadsItsExperts
<1>1. ASSUME TypeOK, IInv PROVE GraphReadsItsExperts
  <2> SUFFICES ASSUME phase = "graph", NEW l \in Layers, NEW e \in Experts
               PROVE  IF e \in cpuTable[l] THEN gpuTable[l][e] = Skip
                      ELSE /\ gpuTable[l][e] \in Slots
                           /\ content[l][gpuTable[l][e]] = e
    BY DEF GraphReadsItsExperts
  <2>1. dirty = {}
    BY <1>1 DEF IInv, Stages
  <2>2. /\ gpuTable[l] = expertSlot[l]
        /\ cpuTable[l] = {x \in Experts : expertSlot[l][x] = Skip}
    BY <1>1, <2>1 DEF IInv, Tables, GpuTableOf, CpuTableOf
  <2>3. CASE e \in cpuTable[l]
    BY <2>2, <2>3
  <2>4. CASE e \notin cpuTable[l]
    <3>1. expertSlot[l][e] \in Slots
      BY <1>1, <2>2, <2>4 DEF TypeOK
    <3>2. slotExpert[l][expertSlot[l][e]] = e
      BY <1>1, <3>1 DEF IInv, Residency
    <3>3. content[l][expertSlot[l][e]] = e
      BY <1>1, <3>1, <3>2 DEF IInv, Contents
    <3>. QED BY <2>2, <2>4, <3>1, <3>3
  <2>. QED BY <2>3, <2>4
<1>. QED BY <1>1, TypeCorrect, InvariantHolds, PTL

\* The worker never writes a slot that a table still refers to.
THEOREM WorkerSafe == Spec => []WorkerWritesUnreferenced
<1>1. IInv => WorkerWritesUnreferenced
  BY DEF IInv, Tables, WorkerWritesUnreferenced
<1>. QED BY <1>1, InvariantHolds, PTL

\* Slots in flight and pending experts are exactly those of the known jobs.
THEOREM FlightAccounted == Spec => []InFlightAccounted
<1>1. ASSUME TypeOK, IInv PROVE InFlightAccounted
  <2>1. \A j \in Jobs : j \in Job
    BY <1>1 DEF Jobs, TypeOK
  <2>2. ASSUME NEW l \in Layers
        PROVE  /\ inFlight[l] = {j.slot   : j \in {k \in Jobs : k.layer = l}}
               /\ pending[l]  = {j.expert : j \in {k \in Jobs : k.layer = l}}
    <3>1. inFlight[l] \subseteq Slots /\ pending[l] \subseteq Experts
      BY <1>1 DEF TypeOK
    <3>2. inFlight[l] = {j.slot : j \in {k \in Jobs : k.layer = l}}
      BY <1>1, <2>1, <3>1 DEF IInv, Marked, Job
    <3>3. pending[l] = {j.expert : j \in {k \in Jobs : k.layer = l}}
      BY <1>1, <2>1, <3>1 DEF IInv, Marked, Job
    <3>. QED BY <3>2, <3>3
  <2>. QED BY <2>2 DEF InFlightAccounted
<1>. QED BY <1>1, TypeCorrect, InvariantHolds, PTL

\* No expert is in two slots of a layer, resident or on its way.
THEOREM OneSlotPerExpert == Spec => []ExpertInOneSlot
<1>1. ASSUME TypeOK, IInv PROVE ExpertInOneSlot
  <2> SUFFICES ASSUME NEW l \in Layers, NEW e \in Experts
               PROVE  Cardinality({s \in Slots : slotExpert[l][s] = e}
                        \cup {j.slot : j \in {k \in Jobs : k.layer = l /\ k.expert = e}}) <= 1
    BY DEF ExpertInOneSlot
  <2> DEFINE resident == {s \in Slots : slotExpert[l][s] = e}
             coming   == {j.slot : j \in {k \in Jobs : k.layer = l /\ k.expert = e}}
  <2>1. \A s, t \in resident : s = t
    BY <1>1 DEF IInv, Residency
  <2>2. \A s, t \in coming : s = t
    BY <1>1 DEF IInv, JobsDistinct
  <2>3. resident = {} \/ coming = {}
    <3>1. Skip \notin Slots
      BY DEF Skip, Slots
    <3>2. ASSUME NEW s \in resident, NEW t \in coming PROVE FALSE
      <4>1. expertSlot[l][e] = s
        BY <1>1 DEF IInv, Residency
      <4>2. e \in pending[l]
        BY <1>1 DEF IInv, Marked
      <4>3. expertSlot[l][e] = Skip
        BY <1>1, <4>2 DEF IInv, Marked
      <4>. QED BY <3>1, <4>1, <4>3
    <3>. QED BY <3>2
  <2>4. \A s, t \in resident \cup coming : s = t
    BY <2>1, <2>2, <2>3
  <2>5. Cardinality(resident \cup coming) <= 1
    <3> HIDE DEF resident, coming
    <3>1. CASE resident \cup coming = {}
      <4>1. Cardinality(resident \cup coming) = 0
        BY <3>1, FS_EmptySet
      <4>. QED BY <4>1
    <3>2. CASE resident \cup coming # {}
      <4>1. PICK s \in resident \cup coming : TRUE
        BY <3>2
      <4>2. resident \cup coming = {s}
        BY <2>4, <4>1
      <4>3. Cardinality(resident \cup coming) = 1
        BY <4>2, FS_Singleton
      <4>. QED BY <4>3
    <3>. QED BY <3>1, <3>2
  <2>. QED BY <2>5
<1>. QED BY <1>1, TypeCorrect, InvariantHolds, PTL

\* When the pools are freed the worker has left its loop and copies nothing.
THEOREM FreedQuietly == Spec => []NoCopyAfterFree
<1>1. IInv => NoCopyAfterFree
  BY DEF IInv, Stages, NoCopyAfterFree
<1>. QED BY <1>1, InvariantHolds, PTL

\* A slot that the last graphs used survives the step that follows them.
THEOREM UsedSlotsStay == Spec => EvictsNoSlotInUse
<1> DEFINE Kept == \A l \in Layers, s \in Slots :
              (phase = "sched" /\ slotExpert[l][s] \in Experts /\ slotExpert'[l][s] = NoExpert)
                => s \notin fresh[l]
<1>1. ASSUME TypeOK, [Next]_vars PROVE Kept
  <2> SUFFICES ASSUME NEW l \in Layers, NEW s \in Slots, phase = "sched",
                      slotExpert[l][s] \in Experts, slotExpert'[l][s] = NoExpert
               PROVE  s \notin fresh[l]
    OBVIOUS
  <2>1. ~UNCHANGED slotExpert
    BY NoExpertAssumption
  <2>2. PICK e \in Experts, v \in Slots : AdmitEvicting(e, v)
    <3>1. \A j \in finished : ~Publish(j)
      BY DEF Publish
    <3>2. ~BeginStep /\ ~Consume /\ ~FreePools /\ ~Freed
      BY DEF BeginStep, Consume, FreePools, Joined, Freed
    <3>3. ~Flush /\ ~HandOff /\ ~BreakRound /\ ~NoCandidate
      BY <2>1 DEF Flush, HandOff, BreakRound, NoCandidate, residency
    <3>4. \A e \in Experts : ~PassOver(e) /\ ~NothingEvictable(e)
      BY <2>1 DEF PassOver, NothingEvictable, residency
    <3>5. \A e \in Experts, t \in Slots : ~AdmitFree(e, t)
      BY <2>1 DEF AdmitFree
    <3>6. ~Graph
      BY DEF Graph, StartGraph, FailGraph, EndGraph
    <3>7. ~Worker
      BY <2>1 DEF Worker, WorkerTake, WorkerCopy, WorkerSync, WorkerPost, WorkerExit, residency
    <3>8. ~RaiseStop /\ ~UNCHANGED vars
      BY <2>1 DEF RaiseStop, vars, residency
    <3>. QED BY <1>1, <3>1, <3>2, <3>3, <3>4, <3>5, <3>6, <3>7, <3>8 DEF Next, Step
  <2>3. v \notin fresh[li]
    BY <2>2 DEF AdmitEvicting, IsVictim, ColdSlots, Evictable
  <2>4. l = li /\ s = v
    BY <1>1, <2>2, NoExpertAssumption DEF AdmitEvicting, TypeOK
  <2>. QED BY <2>3, <2>4
<1>. QED BY <1>1, TypeCorrect, PTL DEF Spec, EvictsNoSlotInUse
=============================================================================
