------------------------------ MODULE SsdProofs ------------------------------
(* Proofs about the two tiers of the SSD expert streaming, SsdStream and     *)
(* SsdPool, for any tensors, experts, sizes, budgets, slots, nodes and uses. *)
EXTENDS SsdStream, SsdPool, SequenceTheorems, FiniteSetTheorems, TLAPS

-----------------------------------------------------------------------------
(* The lists of an LRU: what the operations of LruLists keep, which elements *)
(* are in the lists, and that each is in one place only.                     *)

\* A set that holds every element of a sequence.
LEMMA InSet ==
  ASSUME NEW S, NEW s \in Seq(S), NEW T, \A i \in 1..Len(s) : s[i] \in T
  PROVE  ToSet(s) \subseteq T
  BY DEF ToSet

\* splice and erase by iterator take the one element they point at.
LEMMA WithoutElements ==
  ASSUME NEW S, NEW s \in Seq(S), IsInjective(s), NEW x \in ToSet(s)
  PROVE  /\ Without(s, x) \in Seq(S) /\ IsInjective(Without(s, x))
         /\ ToSet(Without(s, x)) = ToSet(s) \ {x}
<1> DEFINE k == Where(s, x)
           w == Without(s, x)
<1>1. k \in 1..Len(s) /\ s[k] = x
  BY DEF Where, ToSet
<1>2. \A j \in 1..Len(s) : s[j] \in S
  OBVIOUS
<1>3. w \in Seq(S) /\ Len(w) = Len(s) - 1 /\ DOMAIN w = 1..Len(s)-1
  <2>1. \A j \in 1..Len(s)-1 : s[IF j < k THEN j ELSE j + 1] \in S
    BY <1>1, <1>2
  <2>2. Len(s) - 1 \in Nat
    BY <1>1
  <2> HIDE DEF k
  <2> QED
    BY <2>1, <2>2 DEF Without, k
<1>4. \A j \in 1..Len(s)-1 : w[j] = s[IF j < k THEN j ELSE j + 1]
  BY DEF Without
<1>5. IsInjective(w)
  <2> HIDE DEF k, w
  <2> SUFFICES ASSUME NEW i \in 1..Len(s)-1, NEW j \in 1..Len(s)-1, w[i] = w[j] PROVE i = j
    BY <1>3 DEF IsInjective
  <2> DEFINE f(l) == IF l < k THEN l ELSE l + 1
  <2>1. f(i) \in 1..Len(s) /\ f(j) \in 1..Len(s) /\ s[f(i)] = s[f(j)]
    BY <1>1, <1>4
  <2>2. f(i) = f(j)
    <3> HIDE DEF f
    <3> QED
      BY <2>1 DEF IsInjective
  <2> QED
    BY <1>1, <2>2
<1>6. ToSet(w) \subseteq ToSet(s) \ {x}
  <2> SUFFICES ASSUME NEW j \in 1..Len(s)-1 PROVE w[j] \in ToSet(s) \ {x}
    BY <1>3 DEF ToSet
  <2>1. w[j] = s[IF j < k THEN j ELSE j + 1] /\ (IF j < k THEN j ELSE j + 1) \in 1..Len(s) \ {k}
    BY <1>1, <1>4
  <2>2. PICK m \in 1..Len(s) \ {k} : w[j] = s[m]
    BY <2>1
  <2> HIDE DEF k, w
  <2>3. s[m] # s[k]
    BY <1>1, <2>2 DEF IsInjective
  <2> QED
    BY <1>1, <2>2, <2>3 DEF ToSet
<1>7. ToSet(s) \ {x} \subseteq ToSet(w)
  <2> SUFFICES ASSUME NEW i \in 1..Len(s), i # k PROVE s[i] \in ToSet(w)
    BY <1>1 DEF ToSet
  <2>1. CASE i < k
    BY <1>1, <1>3, <1>4, <2>1 DEF ToSet
  <2>2. CASE i > k
    <3>1. i - 1 \in 1..Len(s)-1 /\ ~(i - 1 < k) /\ (i - 1) + 1 = i
      BY <1>1, <2>2
    <3>2. w[i - 1] = s[i]
      BY <1>4, <3>1
    <3> QED
      BY <1>3, <3>1, <3>2 DEF ToSet
  <2> QED
    BY <1>1, <2>1, <2>2
<1> QED
  BY <1>3, <1>5, <1>6, <1>7

\* Two lists with nothing in common are chained.
LEMMA ChainElements ==
  ASSUME NEW S, NEW s \in Seq(S), NEW t \in Seq(S)
  PROVE  /\ s \o t \in Seq(S) /\ ToSet(s \o t) = ToSet(s) \cup ToSet(t)
         /\ Apart(s, t) => IsInjective(s \o t)
<1>1. /\ s \o t \in Seq(S) /\ DOMAIN (s \o t) = 1..Len(s) + Len(t)
      /\ \A i \in 1..Len(s) + Len(t) : (s \o t)[i] = IF i <= Len(s) THEN s[i] ELSE t[i - Len(s)]
  BY ConcatProperties
<1>2. \A i \in 1..Len(s) : (s \o t)[i] = s[i]
  BY <1>1
<1>3. \A i \in 1..Len(t) : Len(s) + i \in DOMAIN (s \o t) /\ (s \o t)[Len(s) + i] = t[i]
  BY <1>1
<1>4. ToSet(s) \subseteq ToSet(s \o t) /\ ToSet(t) \subseteq ToSet(s \o t)
  <2>1. \A i \in 1..Len(s) : s[i] \in ToSet(s \o t)
    BY <1>1, <1>2 DEF ToSet
  <2>2. \A i \in 1..Len(t) : t[i] \in ToSet(s \o t)
    BY <1>3 DEF ToSet
  <2> QED
    BY <2>1, <2>2, InSet
<1>5. ToSet(s \o t) \subseteq ToSet(s) \cup ToSet(t)
  BY <1>1 DEF ToSet
<1>6. ASSUME Apart(s, t), NEW i \in 1..Len(s) + Len(t), NEW j \in 1..Len(s) + Len(t),
             (s \o t)[i] = (s \o t)[j]
      PROVE  i = j
  <2>1. CASE i <= Len(s) /\ j <= Len(s)
    BY <1>1, <1>6, <2>1 DEF Apart, IsInjective
  <2>2. CASE i > Len(s) /\ j > Len(s)
    <3>1. i - Len(s) \in 1..Len(t) /\ j - Len(s) \in 1..Len(t) /\ t[i - Len(s)] = t[j - Len(s)]
      BY <1>1, <1>6, <2>2
    <3> QED
      BY <1>6, <2>2, <3>1 DEF Apart, IsInjective
  <2>3. CASE i <= Len(s) /\ j > Len(s)
    <3>1. (s \o t)[i] \in ToSet(s) /\ (s \o t)[j] \in ToSet(t)
      <4>1. i \in 1..Len(s) /\ (s \o t)[i] = s[i]
        BY <1>1, <2>3
      <4>2. j - Len(s) \in 1..Len(t) /\ (s \o t)[j] = t[j - Len(s)]
        BY <1>1, <2>3
      <4> QED
        BY <4>1, <4>2 DEF ToSet
    <3> QED
      BY <1>6, <3>1 DEF Apart
  <2>4. CASE i > Len(s) /\ j <= Len(s)
    <3>1. (s \o t)[j] \in ToSet(s) /\ (s \o t)[i] \in ToSet(t)
      <4>1. j \in 1..Len(s) /\ (s \o t)[j] = s[j]
        BY <1>1, <2>4
      <4>2. i - Len(s) \in 1..Len(t) /\ (s \o t)[i] = t[i - Len(s)]
        BY <1>1, <2>4
      <4> QED
        BY <4>1, <4>2 DEF ToSet
    <3> QED
      BY <1>6, <3>1 DEF Apart
  <2> QED
    BY <2>1, <2>2, <2>3, <2>4
<1> QED
  BY <1>1, <1>4, <1>5, <1>6 DEF IsInjective

\* push_front.
LEMMA ConsElements ==
  ASSUME NEW S, NEW s \in Seq(S), NEW x \in S
  PROVE  /\ Cons(x, s) \in Seq(S) /\ ToSet(Cons(x, s)) = ToSet(s) \cup {x}
         /\ Len(Cons(x, s)) = Len(s) + 1
         /\ IsInjective(s) /\ x \notin ToSet(s) => IsInjective(Cons(x, s))
<1>1. <<x>> \in Seq(S) /\ ToSet(<<x>>) = {x} /\ IsInjective(<<x>>) /\ Len(<<x>>) = 1
  BY DEF ToSet, IsInjective
<1>2. IsInjective(s) /\ x \notin ToSet(s) => Apart(<<x>>, s)
  BY <1>1 DEF Apart
<1>3. Len(<<x>> \o s) = 1 + Len(s)
  BY <1>1, ConcatProperties
<1>4. /\ <<x>> \o s \in Seq(S) /\ ToSet(<<x>> \o s) = {x} \cup ToSet(s)
      /\ Apart(<<x>>, s) => IsInjective(<<x>> \o s)
  <2> DEFINE o == <<x>>
  <2>1. o \in Seq(S) /\ ToSet(o) = {x}
    BY <1>1
  <2> HIDE DEF o
  <2>2. /\ o \o s \in Seq(S) /\ ToSet(o \o s) = {x} \cup ToSet(s)
        /\ Apart(o, s) => IsInjective(o \o s)
    BY <2>1, ChainElements
  <2> QED
    BY <2>2 DEF o
<1> QED
  BY <1>1, <1>2, <1>3, <1>4 DEF Cons

\* A list is cut in two: what is kept of it, and what is demoted.
LEMMA CutElements ==
  ASSUME NEW S, NEW s \in Seq(S), IsInjective(s), NEW n \in 0..Len(s)
  PROVE  LET a == SubSeq(s, 1, n)  b == SubSeq(s, n + 1, Len(s))
         IN  /\ a \in Seq(S) /\ b \in Seq(S) /\ Apart(a, b)
             /\ ToSet(a) \cup ToSet(b) = ToSet(s)
<1> DEFINE a == SubSeq(s, 1, n)
           b == SubSeq(s, n + 1, Len(s))
<1>1. a \in Seq(S) /\ DOMAIN a = 1..n /\ \A i \in 1..n : a[i] = s[i]
  BY SubSeqProperties
<1>2. b \in Seq(S) /\ DOMAIN b = 1..Len(s)-n /\ \A i \in 1..Len(s)-n : b[i] = s[n + i]
  BY SubSeqProperties
<1>3. IsInjective(a) /\ IsInjective(b)
  BY <1>1, <1>2 DEF IsInjective
<1>4. ToSet(a) \cap ToSet(b) = {}
  BY <1>1, <1>2 DEF IsInjective, ToSet
<1>5. ToSet(a) \cup ToSet(b) \subseteq ToSet(s)
  BY <1>1, <1>2 DEF ToSet
<1>6. ASSUME NEW i \in 1..Len(s) PROVE s[i] \in ToSet(a) \cup ToSet(b)
  <2>1. CASE i <= n
    BY <1>1, <2>1 DEF ToSet
  <2>2. CASE i > n
    <3>1. i - n \in 1..Len(s)-n /\ b[i - n] = s[i]
      BY <1>2, <2>2
    <3> QED
      BY <1>2, <3>1 DEF ToSet
  <2> QED
    BY <2>1, <2>2
<1> HIDE DEF a, b
<1>7. ToSet(s) \subseteq ToSet(a) \cup ToSet(b)
  BY <1>6, InSet
<1>8. a \in Seq(S) /\ b \in Seq(S) /\ Apart(a, b) /\ ToSet(a) \cup ToSet(b) = ToSet(s)
  BY <1>1, <1>2, <1>3, <1>4, <1>5, <1>7 DEF Apart
<1> QED
  BY <1>8 DEF a, b

\* pop_back.
LEMMA FrontElements ==
  ASSUME NEW S, NEW s \in Seq(S), IsInjective(s), s # <<>>
  PROVE  /\ Front(s) \in Seq(S) /\ IsInjective(Front(s))
         /\ Last(s) \in ToSet(s) /\ Last(s) \in S /\ ToSet(Front(s)) = ToSet(s) \ {Last(s)}
<1>1. Len(s) \in Nat \ {0}
  BY EmptySeq
<1>2. Last(s) \in ToSet(s) /\ Last(s) \in S
  BY <1>1 DEF Last, ToSet
<1> DEFINE f == Front(s)
<1>3. f \in Seq(S) /\ DOMAIN f = 1..Len(s)-1 /\ \A i \in 1..Len(s)-1 : f[i] = s[i]
  BY <1>1, SubSeqProperties DEF Front
<1> HIDE DEF f
<1>4. IsInjective(f)
  BY <1>1, <1>3 DEF IsInjective
<1>5. ToSet(f) = ToSet(s) \ {Last(s)}
  <2>1. \A i \in 1..Len(s)-1 : s[i] # s[Len(s)]
    BY <1>1 DEF IsInjective
  <2> QED
    BY <1>1, <1>3, <2>1 DEF ToSet, Last
<1> QED
  BY <1>2, <1>3, <1>4, <1>5 DEF f

\* The reads of a batch enter the list one by one: the last is the first.
LEMMA ReverseElements ==
  ASSUME NEW S, NEW s \in Seq(S)
  PROVE  /\ Reverse(s) \in Seq(S) /\ ToSet(Reverse(s)) = ToSet(s)
         /\ IsInjective(s) => IsInjective(Reverse(s))
<1> DEFINE r == Reverse(s)
<1>1. r \in Seq(S) /\ DOMAIN r = 1..Len(s) /\ \A i \in 1..Len(s) : r[i] = s[(Len(s) - i) + 1]
  <2>1. \A i \in 1..Len(s) : (Len(s) - i) + 1 \in 1..Len(s)
    OBVIOUS
  <2> QED
    BY <2>1 DEF Reverse
<1> HIDE DEF r
<1>2. ToSet(r) \subseteq ToSet(s)
  BY <1>1 DEF ToSet
<1>3. ToSet(s) \subseteq ToSet(r)
  <2> SUFFICES ASSUME NEW i \in 1..Len(s) PROVE s[i] \in ToSet(r)
    BY DEF ToSet
  <2>1. (Len(s) - i) + 1 \in 1..Len(s) /\ r[(Len(s) - i) + 1] = s[i]
    BY <1>1
  <2> QED
    BY <1>1, <2>1 DEF ToSet
<1>4. IsInjective(s) => IsInjective(r)
  BY <1>1 DEF IsInjective
<1> QED
  BY <1>1, <1>2, <1>3, <1>4 DEF r

-----------------------------------------------------------------------------
(* The operations of a segmented LRU                                       *)

\* A hit that leaves its list only reorders it.
LEMMA ToFrontElements ==
  ASSUME NEW S, NEW s \in Seq(S), IsInjective(s), NEW x \in ToSet(s)
  PROVE  /\ ToFront(s, x) \in Seq(S) /\ IsInjective(ToFront(s, x))
         /\ ToSet(ToFront(s, x)) = ToSet(s)
<1>1. x \in S
  BY DEF ToSet
<1>2. PICK w \in Seq(S) : w = Without(s, x) /\ IsInjective(w) /\ ToSet(w) = ToSet(s) \ {x}
  BY WithoutElements
<1>3. Cons(x, w) \in Seq(S) /\ ToSet(Cons(x, w)) = ToSet(w) \cup {x}
  BY <1>1, ConsElements
<1>4. x \notin ToSet(w) /\ ToSet(w) \cup {x} = ToSet(s)
  BY <1>2
<1>5. IsInjective(Cons(x, w))
  BY <1>1, <1>2, <1>4, ConsElements
<1> QED
  BY <1>2, <1>3, <1>4, <1>5 DEF ToFront

\* A promotion, with whatever it demotes, moves elements between the lists and loses none.
LEMMA PromotionKeepsElements ==
  ASSUME NEW S, NEW p \in Seq(S), NEW q \in Seq(S), Apart(p, q), NEW x \in ToSet(p),
         NEW n \in 0..Len(Cons(x, q))
  PROVE  LET q2 == Kept(Cons(x, q), n)  p2 == Demoted(Cons(x, q), n, Without(p, x))
         IN  /\ p2 \in Seq(S) /\ q2 \in Seq(S) /\ Apart(p2, q2)
             /\ ToSet(p2) \cup ToSet(q2) = ToSet(p) \cup ToSet(q)
<1> DEFINE seg == Cons(x, q)
           a == SubSeq(seg, 1, n)
           b == SubSeq(seg, n + 1, Len(seg))
           w == Without(p, x)
<1>1. x \in S /\ x \notin ToSet(q) /\ IsInjective(p) /\ IsInjective(q)
  BY DEF Apart, ToSet
<1>2. seg \in Seq(S) /\ IsInjective(seg) /\ ToSet(seg) = ToSet(q) \cup {x}
  BY <1>1, ConsElements
<1>3. w \in Seq(S) /\ IsInjective(w) /\ ToSet(w) = ToSet(p) \ {x}
  BY <1>1, WithoutElements
<1> HIDE DEF seg, w
<1>4. n \in 0..Len(seg)
  BY DEF seg
<1>5. a \in Seq(S) /\ b \in Seq(S) /\ Apart(a, b) /\ ToSet(a) \cup ToSet(b) = ToSet(seg)
  BY <1>2, <1>4, CutElements
<1> HIDE DEF a, b
<1>6. Apart(b, w)
  BY <1>2, <1>3, <1>5 DEF Apart
<1>7. b \o w \in Seq(S) /\ IsInjective(b \o w) /\ ToSet(b \o w) = ToSet(b) \cup ToSet(w)
  BY <1>3, <1>5, <1>6, ChainElements
<1>8. ToSet(b \o w) \cap ToSet(a) = {} /\ ToSet(b \o w) \cup ToSet(a) = ToSet(p) \cup ToSet(q)
  BY <1>2, <1>3, <1>5, <1>7 DEF Apart
<1>9. Apart(b \o w, a)
  BY <1>5, <1>7, <1>8 DEF Apart
<1> QED
  BY <1>5, <1>7, <1>8, <1>9 DEF Kept, Demoted, a, b, w, seg

-----------------------------------------------------------------------------
(* The host tier: SsdStream                                                  *)

Shaped ==
  /\ page \in [Slices -> {"none", "part", "whole"}]
  /\ owner = [pc |-> owner.pc, used |-> owner.used, todo |-> owner.todo,
              touched |-> owner.touched, deferred |-> owner.deferred]
  /\ worker = [pc |-> worker.pc, batch |-> worker.batch, reads |-> worker.reads, ok |-> worker.ok]

\* The inductive invariant.  What is filling is what the worker is at, and no slice of
\* it has a node.
Listed ==
  /\ probation \in Seq(Slices) /\ protectd \in Seq(Slices) /\ Apart(probation, protectd)
  /\ worker.reads \in Seq(Slices) /\ IsInjective(worker.reads)
  /\ filling = ToSet(worker.reads) /\ Nodes \cap filling = {}
\* Without a model there is neither a node nor a worker.
Registered ==
  /\ owner.pc = "none" => Nodes = {} /\ worker.pc = "off"
  /\ owner.pc # "none" => registry = Tensors
  /\ worker.pc \in {"off", "idle", "lock"} => worker.reads = <<>>
\* What a pass has touched stays pinned until its node is computed.
Held ==
  /\ owner.touched \subseteq Nodes \cap pinned
  /\ owner.pc \in {"none", "idle", "freeing", "join"} => owner.touched = {}
  /\ owner.pc \notin {"touch", "wait"} => owner.deferred = {}
Whole ==
  /\ \A x \in Nodes \ owner.deferred : page[x] = "whole"
  /\ worker.pc = "land" /\ worker.ok => \A x \in ToSet(worker.reads) : page[x] = "whole"
StreamInv == Shaped /\ Listed /\ Registered /\ Held /\ Whole

-----------------------------------------------------------------------------
\* The victim leaves its list; it is no slice of the pass.
LEMMA EvictTakesOne ==
  ASSUME Listed, EvictOne
  PROVE  \E v \in Nodes \ pinned :
           /\ probation' \in Seq(Slices) /\ protectd' \in Seq(Slices)
           /\ Apart(probation', protectd') /\ Nodes' = Nodes \ {v}
           /\ page' = [page EXCEPT ![v] = "none"]
<1>1. CASE /\ Evictable(probation) /\ probation' = Front(probation) /\ UNCHANGED protectd
           /\ page' = [page EXCEPT ![Last(probation)] = "none"]
  <2>1. /\ Front(probation) \in Seq(Slices) /\ IsInjective(Front(probation))
        /\ Last(probation) \in ToSet(probation)
        /\ ToSet(Front(probation)) = ToSet(probation) \ {Last(probation)}
    BY <1>1, FrontElements DEF Evictable, Listed, Apart
  <2> QED
    BY <1>1, <2>1 DEF Evictable, Listed, Apart, Nodes
<1>2. CASE /\ Evictable(protectd) /\ protectd' = Front(protectd) /\ UNCHANGED probation
           /\ page' = [page EXCEPT ![Last(protectd)] = "none"]
  <2>1. /\ Front(protectd) \in Seq(Slices) /\ IsInjective(Front(protectd))
        /\ Last(protectd) \in ToSet(protectd)
        /\ ToSet(Front(protectd)) = ToSet(protectd) \ {Last(protectd)}
    BY <1>2, FrontElements DEF Evictable, Listed, Apart
  <2> QED
    BY <1>2, <2>1 DEF Evictable, Listed, Apart, Nodes
<1> QED
  BY <1>1, <1>2 DEF EvictOne

LEMMA RoomKeeps ==
  ASSUME StreamInv, EvictOne, UNCHANGED <<pinned, filling, owner, worker, registry>>
  PROVE  StreamInv'
<1>1. PICK v \in Nodes \ pinned :
        /\ probation' \in Seq(Slices) /\ protectd' \in Seq(Slices)
        /\ Apart(probation', protectd') /\ Nodes' = Nodes \ {v}
        /\ page' = [page EXCEPT ![v] = "none"]
  BY EvictTakesOne DEF StreamInv
<1>2. Nodes \subseteq Slices
  BY DEF StreamInv, Listed, Nodes, ToSet
<1>3. Shaped' /\ Listed' /\ Registered' /\ Held'
  BY <1>1, <1>2 DEF StreamInv, Shaped, Listed, Registered, Held
<1>4. Whole'
  BY <1>1, <1>2 DEF StreamInv, Shaped, Listed, Whole
<1> QED
  BY <1>3, <1>4 DEF StreamInv

\* A hit reorders the lists and pins its slice.
LEMMA HitKeeps ==
  ASSUME StreamInv, NEW x \in Slices, Hit(x)
  PROVE  StreamInv'
<1>1. /\ x \in Nodes /\ owner.pc = "touch" /\ pinned' = pinned \cup {x}
      /\ UNCHANGED <<filling, page, worker, registry>> /\ owner' = Touched(x, FALSE)
  BY DEF Hit, Touching, model
<1>2. /\ probation' \in Seq(Slices) /\ protectd' \in Seq(Slices) /\ Apart(probation', protectd')
      /\ Nodes' = Nodes
  <2>1. /\ probation \in Seq(Slices) /\ protectd \in Seq(Slices) /\ Apart(probation, protectd)
        /\ IsInjective(probation) /\ IsInjective(protectd)
    BY DEF StreamInv, Listed, Apart
  <2>2. CASE x \in ToSet(protectd) /\ protectd' = ToFront(protectd, x) /\ UNCHANGED probation
    <3>1. /\ ToFront(protectd, x) \in Seq(Slices) /\ IsInjective(ToFront(protectd, x))
          /\ ToSet(ToFront(protectd, x)) = ToSet(protectd)
      BY <2>1, <2>2, ToFrontElements
    <3> QED
      BY <2>1, <2>2, <3>1 DEF Apart, Nodes
  <2>3. CASE x \in ToSet(probation) /\ probation' = ToFront(probation, x) /\ UNCHANGED protectd
    <3>1. /\ ToFront(probation, x) \in Seq(Slices) /\ IsInjective(ToFront(probation, x))
          /\ ToSet(ToFront(probation, x)) = ToSet(probation)
      BY <2>1, <2>3, ToFrontElements
    <3> QED
      BY <2>1, <2>3, <3>1 DEF Apart, Nodes
  <2>4. CASE x \in ToSet(probation) /\ Promote(x)
    <3>1. PICK n \in 0..Len(Cons(x, protectd)) :
            /\ protectd' = Kept(Cons(x, protectd), n)
            /\ probation' = Demoted(Cons(x, protectd), n, Without(probation, x))
      BY <2>4 DEF Promote
    <3> QED
      BY <2>1, <2>4, <3>1, PromotionKeepsElements DEF Nodes
  <2> QED
    BY <2>2, <2>3, <2>4 DEF Hit
<1>3. /\ owner' = [pc |-> owner'.pc, used |-> owner'.used, todo |-> owner'.todo,
                   touched |-> owner'.touched, deferred |-> owner'.deferred]
      /\ owner'.pc = "touch" /\ owner'.touched = owner.touched \cup {x}
      /\ owner'.deferred = owner.deferred
  BY <1>1 DEF Touched, StreamInv, Shaped
<1>4. Shaped' /\ Listed' /\ Registered' /\ Held' /\ Whole'
  BY <1>1, <1>2, <1>3 DEF StreamInv, Shaped, Listed, Registered, Held, Whole
<1> QED
  BY <1>4 DEF StreamInv

\* A miss is of no node and of nothing the worker reads.
LEMMA InsertKeeps ==
  ASSUME StreamInv, NEW x \in Slices, Insert(x)
  PROVE  StreamInv'
<1>1. /\ x \notin Nodes \cup filling /\ owner.pc = "touch" /\ pinned' = pinned \cup {x}
      /\ UNCHANGED <<protectd, filling, worker, registry>> /\ owner' = Touched(x, Deferring)
      /\ page' = [page EXCEPT ![x] = IF Deferring THEN "part" ELSE "whole"]
      /\ probation' = Cons(x, probation)
  BY DEF Insert, Missing, Touching, model
<1>2. /\ probation' \in Seq(Slices) /\ Apart(probation', protectd') /\ Nodes' = Nodes \cup {x}
  <2>1. /\ Cons(x, probation) \in Seq(Slices) /\ IsInjective(Cons(x, probation))
        /\ ToSet(Cons(x, probation)) = ToSet(probation) \cup {x}
    BY <1>1, ConsElements DEF StreamInv, Listed, Apart, Nodes
  <2> QED
    BY <1>1, <2>1 DEF StreamInv, Listed, Apart, Nodes
<1>3. /\ owner' = [pc |-> owner'.pc, used |-> owner'.used, todo |-> owner'.todo,
                   touched |-> owner'.touched, deferred |-> owner'.deferred]
      /\ owner'.pc = "touch" /\ owner'.touched = owner.touched \cup {x}
      /\ owner'.deferred = IF Deferring THEN owner.deferred \cup {x} ELSE owner.deferred
  BY <1>1 DEF Touched, StreamInv, Shaped
<1>4. Nodes \subseteq Slices /\ filling \subseteq Slices
  BY DEF StreamInv, Listed, Nodes, ToSet
<1>5. Shaped' /\ Listed' /\ Registered' /\ Held'
  BY <1>1, <1>2, <1>3 DEF StreamInv, Shaped, Listed, Registered, Held
<1>6. Whole'
  BY <1>1, <1>2, <1>3, <1>4 DEF StreamInv, Shaped, Listed, Whole
<1> QED
  BY <1>5, <1>6 DEF StreamInv

LEMMA EndPassKeeps ==
  ASSUME StreamInv, EndPass
  PROVE  StreamInv'
<1>1. /\ owner.pc = "touch" /\ UNCHANGED <<probation, protectd, pinned, filling, registry>>
      /\ page' = [x \in Slices |-> IF x \in owner.deferred THEN "whole" ELSE page[x]]
      /\ owner' = [owner EXCEPT !.pc = "compute", !.used = <<>>, !.deferred = {}]
  BY DEF EndPass, lru, model
<1>2. /\ worker' = [worker EXCEPT !.pc = worker'.pc]
      /\ worker'.pc = worker.pc \/ (worker.pc = "off" /\ worker'.pc = "idle")
  BY DEF EndPass, Observe, StreamInv, Shaped
<1>3. /\ worker' = [pc |-> worker'.pc, batch |-> worker'.batch, reads |-> worker'.reads, ok |-> worker'.ok]
      /\ worker'.reads = worker.reads /\ worker'.ok = worker.ok
  BY <1>2 DEF StreamInv, Shaped
<1>4. /\ owner' = [pc |-> owner'.pc, used |-> owner'.used, todo |-> owner'.todo,
                   touched |-> owner'.touched, deferred |-> owner'.deferred]
      /\ owner'.pc = "compute" /\ owner'.touched = owner.touched /\ owner'.deferred = {}
  BY <1>1 DEF StreamInv, Shaped
<1>5. Nodes' = Nodes /\ Nodes \subseteq Slices /\ filling \subseteq Slices
  BY <1>1 DEF StreamInv, Listed, Nodes, ToSet
<1>6. Shaped'
  BY <1>1, <1>3, <1>4 DEF StreamInv, Shaped
<1>7. Listed' /\ Registered' /\ Held'
  BY <1>1, <1>2, <1>3, <1>4, <1>5 DEF StreamInv, Listed, Registered, Held
<1>8. Whole'
  BY <1>1, <1>2, <1>3, <1>4, <1>5 DEF StreamInv, Listed, Whole
<1> QED
  BY <1>6, <1>7, <1>8 DEF StreamInv

\* The worker's reads become nodes, which none of them was.
LEMMA LandKeeps ==
  ASSUME StreamInv, Land
  PROVE  StreamInv'
<1>1. /\ UNCHANGED <<protectd, pinned, page, owner, registry>> /\ filling' = {}
      /\ worker.pc = "land"
      /\ \/ worker.ok /\ probation' = Reverse(worker.reads) \o probation
         \/ ~worker.ok /\ UNCHANGED probation
  BY DEF Land, model, StreamInv, Listed
<1>2. worker' = [pc |-> "idle", batch |-> <<>>, reads |-> <<>>, ok |-> TRUE]
  BY DEF Land, NoWork
<1>3. /\ probation' \in Seq(Slices) /\ Apart(probation', protectd')
      /\ Nodes \subseteq Nodes' /\ Nodes' \subseteq Nodes \cup filling
      /\ ~worker.ok => Nodes' = Nodes
  <2>1. CASE worker.ok /\ probation' = Reverse(worker.reads) \o probation
    <3>1. PICK r \in Seq(Slices) : r = Reverse(worker.reads) /\ ToSet(r) = filling /\ IsInjective(r)
      BY ReverseElements DEF StreamInv, Listed
    <3>2. Apart(r, probation) /\ probation \in Seq(Slices)
      BY <3>1 DEF StreamInv, Listed, Apart, Nodes
    <3>3. /\ r \o probation \in Seq(Slices) /\ ToSet(r \o probation) = filling \cup ToSet(probation)
          /\ IsInjective(r \o probation)
      BY <3>1, <3>2, ChainElements
    <3> QED
      BY <1>1, <2>1, <3>1, <3>3 DEF StreamInv, Listed, Apart, Nodes
  <2>2. CASE ~worker.ok /\ UNCHANGED probation
    BY <1>1, <2>2 DEF StreamInv, Listed, Nodes
  <2> QED
    BY <1>1, <2>1, <2>2
<1>4. <<>> \in Seq(Slices) /\ ToSet(<<>>) = {} /\ IsInjective(<<>>)
  BY DEF ToSet, IsInjective
<1>5. Shaped'
  BY <1>1, <1>2 DEF StreamInv, Shaped
<1>6. Listed'
  BY <1>1, <1>2, <1>3, <1>4 DEF StreamInv, Listed
<1>7. Registered' /\ Held'
  BY <1>1, <1>2, <1>3 DEF StreamInv, Registered, Held
<1>8. Whole'
  BY <1>1, <1>2, <1>3 DEF StreamInv, Whole, Listed
<1> QED
  BY <1>5, <1>6, <1>7, <1>8 DEF StreamInv

LEMMA ReserveKeeps ==
  ASSUME StreamInv, NEW x \in Slices, Reserve(x)
  PROVE  StreamInv'
<1>1. /\ x \notin Nodes \cup filling /\ worker.pc = "place"
      /\ UNCHANGED <<probation, protectd, pinned, owner, registry>>
      /\ filling' = filling \cup {x} /\ page' = [page EXCEPT ![x] = "part"]
      /\ worker' = [worker EXCEPT !.batch = Tail(@), !.reads = Append(@, x)]
  BY DEF Reserve, Placing, Wanted, model
<1>2. /\ worker' = [pc |-> worker'.pc, batch |-> worker'.batch, reads |-> worker'.reads, ok |-> worker'.ok]
      /\ worker'.reads = Append(worker.reads, x) /\ worker'.pc = "place"
  BY <1>1 DEF StreamInv, Shaped
<1>3. /\ Append(worker.reads, x) \in Seq(Slices) /\ IsInjective(Append(worker.reads, x))
      /\ ToSet(Append(worker.reads, x)) = filling \cup {x}
  <2>1. /\ worker.reads \in Seq(Slices) /\ IsInjective(worker.reads)
        /\ x \notin ToSet(worker.reads) /\ filling = ToSet(worker.reads)
    BY <1>1 DEF StreamInv, Listed
  <2>2. /\ <<x>> \in Seq(Slices) /\ ToSet(<<x>>) = {x} /\ IsInjective(<<x>>)
        /\ Append(worker.reads, x) = worker.reads \o <<x>>
    BY <2>1 DEF ToSet, IsInjective
  <2>3. Apart(worker.reads, <<x>>)
    BY <2>1, <2>2 DEF Apart
  <2>4. PICK s \in Seq(Slices) : s = worker.reads /\ Apart(s, <<x>>) /\ ToSet(s) = filling
    BY <2>1, <2>3
  <2>5. /\ s \o <<x>> \in Seq(Slices) /\ ToSet(s \o <<x>>) = ToSet(s) \cup ToSet(<<x>>)
        /\ IsInjective(s \o <<x>>)
    BY <2>2, <2>4, ChainElements
  <2> QED
    BY <2>2, <2>4, <2>5
<1>4. Nodes' = Nodes /\ Nodes \subseteq Slices
  BY <1>1 DEF StreamInv, Listed, Nodes, ToSet
<1>5. Shaped' /\ Listed' /\ Registered' /\ Held'
  BY <1>1, <1>2, <1>3, <1>4 DEF StreamInv, Shaped, Listed, Registered, Held
<1>6. Whole'
  BY <1>1, <1>2, <1>4 DEF StreamInv, Shaped, Whole
<1> QED
  BY <1>5, <1>6 DEF StreamInv

LEMMA ReadKeeps ==
  ASSUME StreamInv, NEW ok \in BOOLEAN, ReadBatch(ok)
  PROVE  StreamInv'
<1>1. /\ worker.pc = "read" /\ UNCHANGED <<probation, protectd, pinned, filling, owner, registry>>
      /\ page' = [x \in Slices |-> IF ok /\ x \in ToSet(worker.reads) THEN "whole" ELSE page[x]]
      /\ worker' = [worker EXCEPT !.pc = "land", !.ok = ok]
  BY DEF ReadBatch, lru, model
<1>2. /\ worker' = [pc |-> worker'.pc, batch |-> worker'.batch, reads |-> worker'.reads, ok |-> worker'.ok]
      /\ worker'.reads = worker.reads /\ worker'.pc = "land" /\ worker'.ok = ok
  BY <1>1 DEF StreamInv, Shaped
<1>3. Nodes' = Nodes /\ Nodes \subseteq Slices /\ filling \subseteq Slices
  BY <1>1 DEF StreamInv, Listed, Nodes, ToSet
<1>4. Shaped' /\ Listed' /\ Registered' /\ Held'
  BY <1>1, <1>2, <1>3 DEF StreamInv, Shaped, Listed, Registered, Held
<1>5. Whole'
  BY <1>1, <1>2, <1>3 DEF StreamInv, Listed, Whole
<1> QED
  BY <1>4, <1>5 DEF StreamInv

-----------------------------------------------------------------------------
LEMMA InitStream == Init => StreamInv
<1> SUFFICES ASSUME Init PROVE StreamInv
  OBVIOUS
<1>1. <<>> \in Seq(Slices) /\ ToSet(<<>>) = {} /\ IsInjective(<<>>)
  BY DEF ToSet, IsInjective
<1> QED
  BY <1>1 DEF Init, NoPass, NoWork, StreamInv, Shaped, Listed, Registered, Held, Whole, Nodes, Apart

\* The steps of the owner that leave the lists alone.
LEMMA OwnerKeeps ==
  ASSUME StreamInv,
         \/ Load \/ OtherNode \/ Woken \/ Compute
         \/ \E used, todo : StartPass(used, todo)
         \/ \E x \in Slices : WaitForFill(x)
         \/ \E a \in Arenas : FreeArena(a)
  PROVE  StreamInv'
<1>1. UNCHANGED <<probation, protectd, filling>> /\ Nodes' = Nodes
  BY DEF Load, OtherNode, Woken, Compute, StartPass, WaitForFill, FreeArena, lru, Nodes
<1>2. UNCHANGED worker
  BY DEF Load, OtherNode, Woken, Compute, StartPass, WaitForFill, FreeArena
<1>3. Listed'
  BY <1>1, <1>2 DEF StreamInv, Listed
<1>4. Shaped'
  BY <1>2 DEF StreamInv, Shaped, Load, OtherNode, Woken, Compute, StartPass, WaitForFill,
              FreeArena, NoPass
<1>5. Registered'
  BY <1>1, <1>2 DEF StreamInv, Shaped, Registered, Load, OtherNode, Woken, Compute, StartPass,
                    WaitForFill, Touching, FreeArena, NoPass, model
<1>6. Held'
  BY <1>1, <1>2 DEF StreamInv, Shaped, Held, Load, OtherNode, Woken, Compute, StartPass,
                    WaitForFill, Touching, FreeArena, NoPass
<1>7. Whole'
  <2>1. CASE Load
    BY <1>1, <1>2, <2>1 DEF StreamInv, Shaped, Registered, Whole, Load
  <2>2. CASE ~Load
    BY <1>1, <1>2, <2>2 DEF StreamInv, Shaped, Held, Whole, OtherNode, Woken, Compute, StartPass,
                            WaitForFill, Touching, FreeArena, NoPass
  <2> QED
    BY <2>1, <2>2
<1> QED
  BY <1>3, <1>4, <1>5, <1>6, <1>7 DEF StreamInv

LEMMA ResetKeeps ==
  ASSUME StreamInv, Reset
  PROVE  StreamInv'
<1>1. <<>> \in Seq(Slices) /\ ToSet(<<>>) = {} /\ IsInjective(<<>>)
  BY DEF ToSet, IsInjective
<1>2. Nodes' = {} /\ Apart(probation', protectd')
  BY <1>1 DEF Reset, Nodes, Apart
<1> QED
  BY <1>1, <1>2 DEF Reset, StreamInv, Shaped, Listed, Registered, Held, Whole

\* The steps of the worker that leave the lists alone.
LEMMA WorkerKeeps ==
  ASSUME StreamInv, TakeBatch \/ WorkerStops \/ LockBatch \/ UnlockBatch \/ \E x \in Slices : Skip(x)
  PROVE  StreamInv'
<1>1. UNCHANGED <<probation, protectd, pinned, filling, page, owner, registry>> /\ Nodes' = Nodes
  BY DEF TakeBatch, WorkerStops, LockBatch, UnlockBatch, Skip, lru, model, Nodes
<1>2. /\ worker' = [pc |-> worker'.pc, batch |-> worker'.batch, reads |-> worker'.reads, ok |-> worker'.ok]
      /\ worker'.reads = worker.reads /\ worker'.pc # "land"
      /\ worker.pc \in {"off", "idle", "lock", "place"} /\ worker.pc # "off"
      /\ worker'.pc \in {"off", "idle", "lock"} => worker.pc \in {"off", "idle", "lock"}
  <2>1. /\ worker = [pc |-> worker.pc, batch |-> worker.batch, reads |-> worker.reads, ok |-> worker.ok]
        /\ worker.pc = "idle" => worker.reads = <<>>
    BY DEF StreamInv, Shaped, Registered
  <2>2. CASE WorkerStops
    BY <2>1, <2>2 DEF WorkerStops, NoWork
  <2>3. CASE TakeBatch
    BY <2>1, <2>3 DEF TakeBatch
  <2>4. CASE LockBatch \/ UnlockBatch
    BY <2>1, <2>4 DEF LockBatch, UnlockBatch
  <2>5. CASE \E x \in Slices : Skip(x)
    BY <2>1, <2>5 DEF Skip, Placing
  <2> QED
    BY <2>2, <2>3, <2>4, <2>5
<1> QED
  BY <1>1, <1>2 DEF StreamInv, Shaped, Listed, Registered, Held, Whole

LEMMA StreamStep == StreamInv /\ [Next]_vars => StreamInv'
<1> SUFFICES ASSUME StreamInv, [Next]_vars PROVE StreamInv'
  OBVIOUS
<1>1. CASE Load \/ OtherNode \/ Woken \/ Compute \/ \E a \in Arenas : FreeArena(a)
  BY <1>1, OwnerKeeps
<1>2. CASE BeginPass
  <2>1. \E used, todo : StartPass(used, todo)
    BY <1>2 DEF BeginPass
  <2> QED
    BY <2>1, OwnerKeeps
<1>3. ASSUME NEW x \in Slices, WaitForFill(x) PROVE StreamInv'
  BY <1>3, OwnerKeeps
<1>4. ASSUME NEW x \in Slices, MakeRoom(x) \/ PlaceRoom(x) PROVE StreamInv'
  BY <1>4, RoomKeeps DEF MakeRoom, PlaceRoom, model
<1>5. ASSUME NEW x \in Slices, Hit(x) PROVE StreamInv'
  BY <1>5, HitKeeps
<1>6. ASSUME NEW x \in Slices, Insert(x) PROVE StreamInv'
  BY <1>6, InsertKeeps
<1>7. CASE EndPass
  BY <1>7, EndPassKeeps
<1>8. CASE Reset
  BY <1>8, ResetKeeps
<1>9. CASE TakeBatch \/ WorkerStops \/ LockBatch \/ UnlockBatch \/ \E x \in Slices : Skip(x)
  BY <1>9, WorkerKeeps
<1>10. ASSUME NEW x \in Slices, Reserve(x) PROVE StreamInv'
  BY <1>10, ReserveKeeps
<1>11. ASSUME NEW ok \in BOOLEAN, ReadBatch(ok) PROVE StreamInv'
  BY <1>11, ReadKeeps
<1>12. CASE Land
  BY <1>12, LandKeeps
<1>13. CASE UNCHANGED vars
  BY <1>13 DEF vars, lru, model, StreamInv, Shaped, Listed, Registered, Held, Whole, Nodes
<1> QED
  BY <1>1, <1>2, <1>3, <1>4, <1>5, <1>6, <1>7, <1>8, <1>9, <1>10, <1>11, <1>12, <1>13
     DEF Next, Pass, TouchOne, Worker

LEMMA StreamInvariant == Spec => []StreamInv
  BY InitStream, StreamStep, PTL DEF Spec

\* A slice has one node at most, and none while the worker reads it (ssd_touch, the
\* worker's insertion), whatever the sizes and the predictions.
THEOREM OneNodeEach == Spec => []OneNode
<1>1. StreamInv => OneNode
  BY DEF StreamInv, Listed, Apart, OneNode
<1> QED
  BY <1>1, StreamInvariant, PTL

\* A node is computed from slices that are whole in the arena (eval_cb, gpu_bind,
\* prefill_experts against the worker's evictions).
THEOREM ComputesFromWhole == Spec => []ServesWhole
<1>1. StreamInv => ServesWhole
  BY DEF StreamInv, Held, Whole, ServesWhole
<1> QED
  BY <1>1, StreamInvariant, PTL

\* Nothing of an unloaded model survives into the state of the next (ssd_stream_reset).
THEOREM NothingSurvives == Spec => []NoGhost
<1>1. StreamInv => NoGhost
  <2> SUFFICES ASSUME StreamInv, NEW x \in Nodes \cup filling PROVE x[1] \in registry
    BY DEF NoGhost
  <2>1. x \in Slices
    BY DEF StreamInv, Listed, Nodes, ToSet
  <2>2. owner.pc # "none"
    BY DEF StreamInv, Listed, Registered, ToSet
  <2> QED
    BY <2>1, <2>2 DEF StreamInv, Registered, Slices
<1> QED
  BY <1>1, StreamInvariant, PTL

-----------------------------------------------------------------------------
(* The slots of the GPU: SsdPool                                             *)

\* The types that the proofs need; the list of what a bind has to touch is not one.
PoolTyped ==
  /\ slotMode \in PoolModes /\ slotProbation \in Seq(Keys) /\ slotProtectd \in Seq(Keys)
  /\ freelist \in Seq(Slots) /\ IsInjective(freelist)
  /\ slotOf \in [DOMAIN slotOf -> Slots]
  /\ content \in [Slots -> Keys \cup {None}]
  /\ job.pc \in {"idle", "touch", "run"}
  /\ job = [pc |-> job.pc, node |-> job.node, todo |-> job.todo, map |-> job.map, fill |-> job.fill]
  /\ job.todo \in Seq(Keys) /\ job.fill \in [Slots -> Keys \cup {None}]

\* The inductive invariant: a key of the lists has a slot of its own, and the slot will
\* hold it once the copies of the bind at work are made.
Placed ==
  /\ Apart(slotProbation, slotProtectd)
  /\ DOMAIN slotOf = ToSet(slotProbation) \cup ToSet(slotProtectd)
  /\ IsInjective(slotOf) /\ {slotOf[x] : x \in DOMAIN slotOf} \cap ToSet(freelist) = {}
Filled ==
  /\ \A x \in DOMAIN slotOf :
       (IF job.fill[slotOf[x]] = None THEN content[slotOf[x]] ELSE job.fill[slotOf[x]]) = x
  /\ job.pc # "touch" => job.fill = NoFill
PoolInv == PoolTyped /\ Placed /\ Filled

\* The head of what is left to touch is a slice, and so is the rest.
LEMMA TodoShrinks ==
  ASSUME PoolTyped, job.todo # <<>>
  PROVE  Head(job.todo) \in Keys /\ Tail(job.todo) \in Seq(Keys)
  BY HeadTailProperties, EmptySeq DEF PoolTyped

\* The index after x was given the slot s and the victims lost theirs.
Given(x, s, victims) ==
  /\ slotOf' \in [DOMAIN slotOf' -> Slots]
  /\ DOMAIN slotOf' = (DOMAIN slotOf \ victims) \cup {x}
  /\ IsInjective(slotOf')
  /\ {slotOf'[y] : y \in DOMAIN slotOf'} \subseteq {slotOf[y] : y \in DOMAIN slotOf} \cup {s}
  /\ Filled'

\* A slot that no key has is given to a key that has none.
LEMMA AssignPlaces ==
  ASSUME PoolInv, NEW x \in Keys, x \notin DOMAIN slotOf, NEW s \in Slots,
         NEW victims \in SUBSET DOMAIN slotOf,
         \A y \in DOMAIN slotOf \ victims : slotOf[y] # s,
         slotOf' = Assigned(x, s, victims), job'.fill = [job.fill EXCEPT ![s] = x],
         job'.pc = "touch", UNCHANGED content
  PROVE  Given(x, s, victims)
<1>1. DOMAIN slotOf' = (DOMAIN slotOf \ victims) \cup {x}
  BY DEF Assigned
<1>2. slotOf'[x] = s /\ \A y \in DOMAIN slotOf \ victims : slotOf'[y] = slotOf[y]
  BY DEF Assigned
<1>3. \A y \in DOMAIN slotOf : slotOf[y] \in Slots
  BY DEF PoolInv, PoolTyped
<1>4. slotOf' \in [DOMAIN slotOf' -> Slots]
  BY <1>1, <1>2, <1>3 DEF Assigned
<1>5. IsInjective(slotOf')
  BY <1>1, <1>2 DEF IsInjective, PoolInv, Placed
<1>6. {slotOf'[y] : y \in DOMAIN slotOf'} \subseteq {slotOf[y] : y \in DOMAIN slotOf} \cup {s}
  BY <1>1, <1>2
<1>7. Filled'
  <2>1. x # None /\ job'.fill[s] = x
    BY NoneAssumption DEF PoolInv, PoolTyped
  <2>2. \A y \in DOMAIN slotOf \ victims : job'.fill[slotOf[y]] = job.fill[slotOf[y]]
    BY <1>3 DEF PoolInv, PoolTyped
  <2> QED
    BY <1>1, <1>2, <2>1, <2>2 DEF Filled, PoolInv
<1> QED
  BY <1>1, <1>4, <1>5, <1>6, <1>7 DEF Given

\* A hit moves the key within the lists; its slot holds it, or will.
LEMMA SlotHitKeeps ==
  ASSUME PoolInv, NEW x \in Keys, SlotHit(x)
  PROVE  PoolInv'
<1>1. /\ x \in ToSet(slotProbation) \cup ToSet(slotProtectd)
      /\ UNCHANGED <<slotOf, freelist, slotMode, content>> /\ job.todo # <<>>
      /\ job' = [job EXCEPT !.todo = Tail(@), !.map = Mapped(x, slotOf[x])]
  BY DEF SlotHit, PoolInv, Placed, TouchingSlot
<1>2. /\ slotProbation' \in Seq(Keys) /\ slotProtectd' \in Seq(Keys) /\ Apart(slotProbation', slotProtectd')
      /\ ToSet(slotProbation') \cup ToSet(slotProtectd') = ToSet(slotProbation) \cup ToSet(slotProtectd)
  <2> USE DEF PoolInv, PoolTyped, Placed
  <2>1. CASE x \in ToSet(slotProtectd) /\ slotProtectd' = ToFront(slotProtectd, x) /\ UNCHANGED slotProbation
    BY <2>1, ToFrontElements DEF Apart
  <2>2. CASE x \notin ToSet(slotProtectd) /\ slotProbation' = ToFront(slotProbation, x) /\ UNCHANGED slotProtectd
    BY <1>1, <2>2, ToFrontElements DEF Apart
  <2>3. CASE /\ x \notin ToSet(slotProtectd)
             /\ \E n \in 0..Len(Cons(x, slotProtectd)) :
                  /\ slotProtectd' = Kept(Cons(x, slotProtectd), n)
                  /\ slotProbation' = Demoted(Cons(x, slotProtectd), n, Without(slotProbation, x))
    BY <1>1, <2>3, PromotionKeepsElements
  <2>4. ASSUME x \notin ToSet(slotProtectd), slotMode.slru
        PROVE  LET seg == Cons(x, slotProtectd)
                   n == IF Len(seg) > slotMode.cap THEN slotMode.cap ELSE Len(seg)
               IN  n \in 0..Len(seg)
    <3>1. slotMode.cap \in 0..K
      BY KAssumption
    <3>2. Len(Cons(x, slotProtectd)) \in Nat
      BY ConsElements
    <3> QED
      BY <3>1, <3>2, KAssumption
  <2> QED
    BY <2>1, <2>2, <2>3, <2>4 DEF SlotHit
<1>3. PoolTyped'
  BY <1>1, <1>2, TodoShrinks DEF PoolInv, PoolTyped
<1>4. Placed'
  BY <1>1, <1>2 DEF PoolInv, Placed
<1>5. Filled'
  BY <1>1 DEF PoolInv, PoolTyped, Filled
<1> QED
  BY <1>3, <1>4, <1>5 DEF PoolInv

\* A miss that gives x the slot s, which no other key has any more.
LEMMA MissTyped ==
  ASSUME PoolInv, NEW x \in Keys, NEW s \in Slots, Missed(x, s), TouchingSlot(x)
  PROVE  /\ job' = [pc |-> job'.pc, node |-> job'.node, todo |-> job'.todo, map |-> job'.map,
                    fill |-> job'.fill]
         /\ job'.pc = "touch" /\ job'.todo \in Seq(Keys)
         /\ job'.fill = [job.fill EXCEPT ![s] = x] /\ job'.fill \in [Slots -> Keys \cup {None}]
  BY TodoShrinks DEF PoolInv, PoolTyped, Missed, TouchingSlot

LEMMA TakeFreeKeeps ==
  ASSUME PoolInv, NEW x \in Keys, TakeFree(x)
  PROVE  PoolInv'
<1> DEFINE s == Last(freelist)
<1>1. /\ TouchingSlot(x) /\ x \notin DOMAIN slotOf /\ freelist # <<>>
      /\ freelist' = Front(freelist) /\ slotOf' = Assigned(x, s, {}) /\ Missed(x, s)
      /\ slotProbation' = Cons(x, slotProbation) /\ UNCHANGED <<slotProtectd, slotMode, content>>
  BY DEF TakeFree, MissingSlot
<1>2. /\ s \in Slots /\ s \in ToSet(freelist) /\ freelist' \in Seq(Slots)
      /\ IsInjective(freelist') /\ ToSet(freelist') = ToSet(freelist) \ {s}
  BY <1>1, FrontElements DEF PoolInv, PoolTyped
<1> HIDE DEF s
<1>3. /\ job' = [pc |-> job'.pc, node |-> job'.node, todo |-> job'.todo, map |-> job'.map,
                 fill |-> job'.fill]
      /\ job'.pc = "touch" /\ job'.todo \in Seq(Keys)
      /\ job'.fill = [job.fill EXCEPT ![s] = x] /\ job'.fill \in [Slots -> Keys \cup {None}]
  BY <1>1, <1>2, MissTyped
<1>4. /\ slotOf' \in [DOMAIN slotOf' -> Slots] /\ DOMAIN slotOf' = DOMAIN slotOf \cup {x}
      /\ IsInjective(slotOf') /\ Filled'
      /\ {slotOf'[y] : y \in DOMAIN slotOf'} \subseteq {slotOf[y] : y \in DOMAIN slotOf} \cup {s}
  <2>1. \A y \in DOMAIN slotOf : slotOf[y] # s
    BY <1>2 DEF PoolInv, Placed
  <2>2. Given(x, s, {})
    BY <1>1, <1>2, <1>3, <2>1, AssignPlaces
  <2> QED
    BY <2>2 DEF Given
<1>5. /\ slotProbation' \in Seq(Keys) /\ Apart(slotProbation', slotProtectd')
      /\ ToSet(slotProbation') \cup ToSet(slotProtectd') = DOMAIN slotOf \cup {x}
  <2>1. /\ Cons(x, slotProbation) \in Seq(Keys) /\ IsInjective(Cons(x, slotProbation))
        /\ ToSet(Cons(x, slotProbation)) = ToSet(slotProbation) \cup {x}
    BY <1>1, ConsElements DEF PoolInv, PoolTyped, Placed, Apart
  <2> QED
    BY <1>1, <2>1 DEF PoolInv, Placed, Apart
<1>6. PoolTyped'
  BY <1>1, <1>2, <1>3, <1>4, <1>5 DEF PoolInv, PoolTyped
<1>7. Placed'
  <2>1. {slotOf'[y] : y \in DOMAIN slotOf'} \cap ToSet(freelist') = {}
    BY <1>2, <1>4 DEF PoolInv, Placed
  <2> QED
    BY <1>4, <1>5, <2>1 DEF Placed
<1> QED
  BY <1>4, <1>6, <1>7 DEF PoolInv

\* The victim is the tail of one of the lists: its slot is nobody's then.
LEMMA EvictFromKeeps ==
  ASSUME PoolInv, NEW x \in Keys, NEW seg \in {slotProbation, slotProtectd}, seg # <<>>,
         MissingSlot(x), EvictFrom(x, seg), freelist = <<>>,
         UNCHANGED <<freelist, slotMode, content>>,
         slotProbation' \in Seq(Keys), slotProtectd' \in Seq(Keys), Apart(slotProbation', slotProtectd'),
         ToSet(slotProbation') \cup ToSet(slotProtectd')
           = ((ToSet(slotProbation) \cup ToSet(slotProtectd)) \ {Last(seg)}) \cup {x}
  PROVE  PoolInv'
<1> DEFINE v == Last(seg)
           s == slotOf[v]
<1>1. v \in DOMAIN slotOf
  BY FrontElements DEF PoolInv, PoolTyped, Placed, Apart
<1>2. s \in Slots
  BY <1>1 DEF PoolInv, PoolTyped
<1>3. slotOf' = Assigned(x, s, {v}) /\ Missed(x, s) /\ TouchingSlot(x) /\ x \notin DOMAIN slotOf
  BY DEF EvictFrom, MissingSlot
<1> HIDE DEF s, v
<1>4. \A y \in DOMAIN slotOf \ {v} : slotOf[y] # s
  BY <1>1 DEF PoolInv, Placed, IsInjective, s
<1>5. /\ job' = [pc |-> job'.pc, node |-> job'.node, todo |-> job'.todo, map |-> job'.map,
                 fill |-> job'.fill]
      /\ job'.pc = "touch" /\ job'.todo \in Seq(Keys)
      /\ job'.fill = [job.fill EXCEPT ![s] = x] /\ job'.fill \in [Slots -> Keys \cup {None}]
  BY <1>2, <1>3, MissTyped
<1>6. /\ slotOf' \in [DOMAIN slotOf' -> Slots] /\ DOMAIN slotOf' = (DOMAIN slotOf \ {v}) \cup {x}
      /\ IsInjective(slotOf') /\ Filled'
  <2>1. Given(x, s, {v})
    BY <1>1, <1>2, <1>3, <1>4, <1>5, AssignPlaces
  <2> QED
    BY <2>1 DEF Given
<1>7. PoolTyped'
  BY <1>5, <1>6 DEF PoolInv, PoolTyped
<1>8. Placed'
  <2>1. ToSet(freelist') = {}
    BY DEF ToSet
  <2>2. DOMAIN slotOf' = ToSet(slotProbation') \cup ToSet(slotProtectd')
    BY <1>6 DEF PoolInv, Placed, v
  <2> QED
    BY <1>6, <2>1, <2>2 DEF Placed
<1> QED
  BY <1>6, <1>7, <1>8 DEF PoolInv

LEMMA EvictKeeps ==
  ASSUME PoolInv, NEW x \in Keys, Evict(x)
  PROVE  PoolInv'
<1>1. /\ MissingSlot(x) /\ freelist = <<>> /\ UNCHANGED <<freelist, slotMode, content>>
      /\ x \notin ToSet(slotProbation) \cup ToSet(slotProtectd)
      /\ slotProbation \in Seq(Keys) /\ slotProtectd \in Seq(Keys)
      /\ IsInjective(slotProbation) /\ IsInjective(slotProtectd) /\ Apart(slotProbation, slotProtectd)
  BY DEF Evict, MissingSlot, PoolInv, PoolTyped, Placed, Apart
<1>2. CASE /\ slotProbation # <<>> /\ EvictFrom(x, slotProbation)
           /\ slotProbation' = Cons(x, Front(slotProbation)) /\ UNCHANGED slotProtectd
  <2>1. PICK f \in Seq(Keys) : /\ f = Front(slotProbation) /\ IsInjective(f)
                               /\ Last(slotProbation) \in ToSet(slotProbation)
                               /\ ToSet(f) = ToSet(slotProbation) \ {Last(slotProbation)}
    BY <1>1, <1>2, FrontElements
  <2>2. Cons(x, f) \in Seq(Keys) /\ ToSet(Cons(x, f)) = ToSet(f) \cup {x}
    BY ConsElements
  <2>5. IsInjective(Cons(x, f))
    <3>1. x \notin ToSet(f)
      BY <1>1, <2>1
    <3> QED
      BY <2>1, <3>1, ConsElements
  <2>3. Last(slotProbation) \notin ToSet(slotProtectd)
    BY <2>1 DEF PoolInv, Placed, Apart
  <2>4. /\ Apart(slotProbation', slotProtectd')
        /\ ToSet(slotProbation') \cup ToSet(slotProtectd')
              = ((ToSet(slotProbation) \cup ToSet(slotProtectd)) \ {Last(slotProbation)}) \cup {x}
    BY <1>1, <1>2, <2>1, <2>2, <2>3, <2>5 DEF Apart
  <2> QED
    BY <1>1, <1>2, <2>1, <2>2, <2>4, EvictFromKeeps
<1>3. CASE /\ slotProbation = <<>> /\ slotProtectd # <<>> /\ EvictFrom(x, slotProtectd)
           /\ slotProbation' = <<x>> /\ slotProtectd' = Front(slotProtectd)
  <2>1. PICK f \in Seq(Keys) : /\ f = Front(slotProtectd) /\ IsInjective(f)
                               /\ Last(slotProtectd) \in ToSet(slotProtectd)
                               /\ ToSet(f) = ToSet(slotProtectd) \ {Last(slotProtectd)}
    BY <1>1, <1>3, FrontElements
  <2>2. <<x>> \in Seq(Keys) /\ ToSet(<<x>>) = {x} /\ IsInjective(<<x>>) /\ ToSet(slotProbation) = {}
    BY <1>3 DEF ToSet, IsInjective
  <2>3. /\ Apart(slotProbation', slotProtectd')
        /\ ToSet(slotProbation') \cup ToSet(slotProtectd')
              = ((ToSet(slotProbation) \cup ToSet(slotProtectd)) \ {Last(slotProtectd)}) \cup {x}
    BY <1>1, <1>3, <2>1, <2>2 DEF Apart
  <2> QED
    BY <1>1, <1>3, <2>1, <2>2, <2>3, EvictFromKeeps
<1> QED
  BY <1>2, <1>3 DEF Evict

LEMMA FillKeeps ==
  ASSUME PoolInv, Fill
  PROVE  PoolInv'
<1>1. /\ job' = [job EXCEPT !.pc = "run", !.fill = NoFill] /\ UNCHANGED pool
      /\ content' = [s \in Slots |-> IF job.fill[s] = None THEN content[s] ELSE job.fill[s]]
  BY DEF Fill
<1>2. NoFill \in [Slots -> Keys \cup {None}]
  BY DEF NoFill
<1>3. PoolTyped'
  BY <1>1, <1>2 DEF PoolInv, PoolTyped, pool
<1>4. Filled'
  <2>1. job'.fill = NoFill
    BY <1>1 DEF PoolInv, PoolTyped
  <2>2. \A x \in DOMAIN slotOf : slotOf[x] \in Slots
    BY DEF PoolInv, PoolTyped
  <2>3. \A x \in DOMAIN slotOf : content'[slotOf[x]] = x /\ job'.fill[slotOf[x]] = None
    BY <1>1, <2>1, <2>2 DEF NoFill, PoolInv, Filled
  <2> QED
    BY <1>1, <2>1, <2>3 DEF Filled, pool
<1> QED
  BY <1>1, <1>3, <1>4 DEF PoolInv, Placed, pool

LEMMA BindKeeps ==
  ASSUME PoolInv, NEW n \in GpuNodes, NEW used \in Uses, Bind(n, used)
  PROVE  PoolInv'
<1>1. job' = [NoJob EXCEPT !.pc = "touch", !.node = n, !.todo = used] /\ UNCHANGED <<pool, content>>
  BY DEF Bind
<1>2. NoFill \in [Slots -> Keys \cup {None}] /\ used \in Seq(Keys) /\ job.fill = NoFill
  BY UsesAssumption DEF NoFill, Bind, PoolInv, Filled
<1>3. job' = [pc |-> "touch", node |-> n, todo |-> used, map |-> NoMap, fill |-> NoFill]
  BY <1>1 DEF NoJob
<1>4. /\ job'.pc = "touch" /\ job'.todo = used /\ job'.fill = NoFill
      /\ job' = [pc |-> job'.pc, node |-> job'.node, todo |-> job'.todo, map |-> job'.map,
                 fill |-> job'.fill]
  BY <1>3
<1>5. PoolTyped'
  BY <1>1, <1>2, <1>4 DEF PoolInv, PoolTyped, pool
<1>6. Filled'
  BY <1>1, <1>2, <1>4 DEF PoolInv, Filled, pool
<1> QED
  BY <1>1, <1>5, <1>6 DEF PoolInv, Placed, pool

LEMMA RunKeeps ==
  ASSUME PoolInv, Run
  PROVE  PoolInv'
<1>1. job' = NoJob /\ UNCHANGED <<pool, content>> /\ job.fill = NoFill
  BY DEF Run, PoolInv, Filled
<1>2. NoFill \in [Slots -> Keys \cup {None}] /\ <<>> \in Seq(Keys)
  BY DEF NoFill
<1>3. PoolTyped'
  BY <1>1, <1>2 DEF PoolInv, PoolTyped, pool, NoJob
<1>4. Filled'
  <2>1. job'.fill = job.fill
    BY <1>1 DEF NoJob
  <2> QED
    BY <1>1, <2>1 DEF PoolInv, Filled, pool
<1> QED
  BY <1>1, <1>3, <1>4 DEF PoolInv, Placed, pool

\* gpu_slot_pool::init: every slot is free, once.
LEMMA AllFree ==
  LET f == [i \in 1..K |-> K - i] IN f \in Seq(Slots) /\ IsInjective(f)
<1>1. \A i \in 1..K : K - i \in Slots
  BY KAssumption DEF Slots
<1> QED
  BY <1>1, KAssumption DEF IsInjective

LEMMA NothingIndexed ==
  /\ DOMAIN NoMap = {} /\ NoMap \in [DOMAIN NoMap -> Slots] /\ IsInjective(NoMap)
  /\ Apart(<<>>, <<>>) /\ ToSet(<<>>) = {} /\ NoFill \in [Slots -> Keys \cup {None}]
<1>1. DOMAIN NoMap = {} /\ NoMap \in [DOMAIN NoMap -> Slots] /\ IsInjective(NoMap)
  BY DEF NoMap, IsInjective
<1> QED
  BY <1>1 DEF NoFill, Apart, ToSet, IsInjective

LEMMA InitPool == PoolInit => PoolInv
<1> SUFFICES ASSUME PoolInit PROVE PoolInv
  OBVIOUS
<1>1. PoolTyped
  BY AllFree, NothingIndexed DEF PoolInit, PoolTyped, NoJob
<1>2. Placed /\ Filled
  BY NothingIndexed DEF PoolInit, Placed, Filled, NoJob
<1> QED
  BY <1>1, <1>2 DEF PoolInv

LEMMA PoolResetKeeps ==
  ASSUME PoolInv, PoolReset
  PROVE  PoolInv'
<1>1. PoolTyped'
  BY AllFree, NothingIndexed DEF PoolReset, PoolInv, PoolTyped
<1>2. Placed' /\ Filled'
  BY NothingIndexed DEF PoolReset, PoolInv, Placed, Filled
<1> QED
  BY <1>1, <1>2 DEF PoolInv

LEMMA PoolStep == PoolInv /\ [PoolNext]_poolVars => PoolInv'
<1> SUFFICES ASSUME PoolInv, [PoolNext]_poolVars PROVE PoolInv'
  OBVIOUS
<1>1. CASE Rebuild
  BY <1>1 DEF Rebuild, PoolInv, PoolTyped, Placed, Filled, pool
<1>2. CASE Fill
  BY <1>2, FillKeeps
<1>3. CASE Run
  BY <1>3, RunKeeps
<1>4. ASSUME NEW n \in GpuNodes, NEW used \in Uses, Bind(n, used) PROVE PoolInv'
  BY <1>4, BindKeeps
<1>5. ASSUME NEW x \in Keys, SlotHit(x) PROVE PoolInv'
  BY <1>5, SlotHitKeeps
<1>6. ASSUME NEW x \in Keys, TakeFree(x) PROVE PoolInv'
  BY <1>6, TakeFreeKeeps
<1>7. ASSUME NEW x \in Keys, Evict(x) PROVE PoolInv'
  BY <1>7, EvictKeeps
<1>8. CASE PoolReset
  BY <1>8, PoolResetKeeps
<1>9. CASE UNCHANGED poolVars
  BY <1>9 DEF poolVars, PoolInv, PoolTyped, Placed, Filled, pool
<1> QED
  BY <1>1, <1>2, <1>3, <1>4, <1>5, <1>6, <1>7, <1>8, <1>9 DEF PoolNext

\* Between binds every slot holds the slice its key says, whatever was promoted, demoted
\* and evicted: a hit needs no copy (gpu_slot_pool::touch, gpu_bind).
THEOREM SlotsHoldTheirKeys == PoolSpec => []PoolHolds
<1>1. PoolInv => PoolHolds
  BY DEF PoolInv, Placed, Filled, NoFill, PoolHolds, PoolTyped
<1> QED
  BY <1>1, InitPool, PoolStep, PTL DEF PoolSpec

-----------------------------------------------------------------------------
(* The ids of a node                                                       *)

\* The invariant behind IdsAreFresh: a node points at the tensor of its router, or at its
\* slot ids, and then the tensor kept for it is the router's.
Wired ==
  /\ graph \in [GpuNodes -> Ids] /\ src \in [GpuNodes -> Ids \cup {SlotIds}]
  /\ orig \in [GpuNodes -> Ids \cup {None}]
  /\ \A n \in GpuNodes : src[n] = graph[n] \/ (src[n] = SlotIds /\ orig[n] = graph[n])
  /\ job.pc # "idle" => job.node \in GpuNodes /\ orig[job.node] = graph[job.node]

LEMMA BindWires ==
  ASSUME Wired, NEW n \in GpuNodes, NEW used \in Uses, Bind(n, used)
  PROVE  Wired'
<1>1. OrigIds(n) = graph[n]
  BY NoneAssumption DEF Wired, OrigIds
<1>2. orig' = [orig EXCEPT ![n] = graph[n]] /\ UNCHANGED <<graph, src>>
  BY <1>1 DEF Bind
<1>3. job'.node = n
  BY DEF Bind, NoJob
<1> QED
  BY <1>2, <1>3 DEF Wired

LEMMA WiredStep == PoolInv /\ Wired /\ [PoolNext]_poolVars => Wired'
<1> SUFFICES ASSUME PoolInv, Wired, [PoolNext]_poolVars PROVE Wired'
  OBVIOUS
<1>1. CASE Rebuild
  BY <1>1 DEF Rebuild, Wired
<1>2. CASE Fill
  <2>1. /\ job.pc = "touch" /\ job'.node = job.node /\ src' = [src EXCEPT ![job.node] = SlotIds]
        /\ UNCHANGED <<graph, orig>>
    BY <1>2 DEF Fill, PoolInv, PoolTyped
  <2> QED
    BY <2>1 DEF Wired
<1>3. CASE Run
  BY <1>3 DEF Run, Wired, wiring, NoJob
<1>4. ASSUME NEW n \in GpuNodes, NEW used \in Uses, Bind(n, used) PROVE Wired'
  BY <1>4, BindWires
<1>5. ASSUME NEW x \in Keys, SlotHit(x) \/ TakeFree(x) \/ Evict(x) PROVE Wired'
  <2>1. job.pc = "touch" /\ job'.node = job.node /\ UNCHANGED wiring
    BY <1>5 DEF SlotHit, TakeFree, Evict, EvictFrom, MissingSlot, Missed, TouchingSlot, PoolInv, PoolTyped
  <2> QED
    BY <2>1 DEF Wired, wiring
<1>6. CASE PoolReset
  BY <1>6 DEF PoolReset, Wired
<1>7. CASE UNCHANGED poolVars
  BY <1>7 DEF poolVars, Wired, wiring
<1> QED
  BY <1>1, <1>2, <1>3, <1>4, <1>5, <1>6, <1>7 DEF PoolNext

\* A node that is bound reads the selection of the router of its own graph, however often
\* graphs are rebuilt at the same addresses (ggml_ssd_stream_gpu_orig_ids).
THEOREM NeverStaleIds == PoolSpec => []IdsAreFresh
<1>1. PoolInit => Wired
  BY DEF PoolInit, Wired, NoJob
<1>2. Wired => IdsAreFresh
  BY DEF Wired, IdsAreFresh
<1> QED
  BY <1>1, <1>2, InitPool, PoolStep, WiredStep, PTL DEF PoolSpec
-----------------------------------------------------------------------------
(* What a bind has given out                                               *)

\* Those of M are among the first d of a list.
Within(s, M, d) == \A i \in 1..Len(s) : s[i] \in M => i <= d

\* No slot is lost, and the protected segment stays within its cap.
AllSlots == ToSet(freelist) \cup {slotOf[x] : x \in DOMAIN slotOf} = Slots
Capped == Len(slotProtectd) <= slotMode.cap
\* The keys that the bind has touched are among the first of probation, as many as were
\* touched, and those to come are others.
BindTouches ==
  /\ IsInjective(job.todo) /\ ToSet(job.todo) \cap DOMAIN job.map = {}
  /\ Within(slotProbation, DOMAIN job.map, Cardinality(DOMAIN job.map))
\* A key whose bind touches few enough still has the slot that it was given.
StillHas ==
  Cardinality(DOMAIN job.map) <= K - slotMode.cap =>
    \A x \in DOMAIN job.map : x \in DOMAIN slotOf /\ slotOf[x] = job.map[x]
Serving ==
  /\ AllSlots /\ Capped
  /\ job.pc = "touch" => BindTouches
  /\ job.pc # "idle" => IsFiniteSet(DOMAIN job.map) /\ StillHas

\* A list has no more elements than places.
LEMMA ListSize ==
  ASSUME NEW S, NEW s \in Seq(S)
  PROVE  IsFiniteSet(ToSet(s)) /\ Cardinality(ToSet(s)) <= Len(s)
<1>1. IsFiniteSet(1..Len(s)) /\ Cardinality(1..Len(s)) = Len(s)
  <2>1. Len(s) \in Nat /\ 1 \in Int
    OBVIOUS
  <2> DEFINE n == Len(s)
  <2> HIDE DEF n
  <2>2. n \in Int /\ n \in Nat
    BY <2>1 DEF n
  <2>3. IsFiniteSet(1..n) /\ Cardinality(1..n) = IF 1 > n THEN 0 ELSE n - 1 + 1
    BY <2>1, <2>2, FS_Interval
  <2>4. IsFiniteSet(1..n) /\ Cardinality(1..n) = n
    BY <2>2, <2>3
  <2> QED
    BY <2>4 DEF n
<1>2. s \in [1..Len(s) -> ToSet(s)] /\ \A y \in ToSet(s) : \E i \in 1..Len(s) : s[i] = y
  BY DEF ToSet
<1>3. s \in Surjection(1..Len(s), ToSet(s))
  BY <1>2 DEF Surjection
<1> QED
  BY <1>1, <1>3, FS_Surjection

\* Where an element was taken out, the others come no later.
LEMMA WithoutWithin ==
  ASSUME NEW S, NEW s \in Seq(S), IsInjective(s), NEW x \in ToSet(s), NEW M, NEW d \in Nat,
         Within(s, M, d)
  PROVE  Len(Without(s, x)) = Len(s) - 1 /\ Within(Without(s, x), M \cup {x}, d)
<1> DEFINE k == Where(s, x)
           w == Without(s, x)
<1>1. k \in 1..Len(s) /\ s[k] = x
  BY DEF Where, ToSet
<1>2. DOMAIN w = 1..Len(s)-1 /\ w \in Seq(S)
  BY WithoutElements DEF Without
<1>3. Len(w) = Len(s) - 1
  BY <1>1, <1>2
<1>4. x \notin ToSet(w)
  BY WithoutElements
<1>5. ASSUME NEW i \in 1..Len(s)-1, w[i] \in M \cup {x} PROVE i <= d
  <2>1. w[i] \in M
    BY <1>2, <1>4, <1>5 DEF ToSet
  <2>2. w[i] = s[IF i < k THEN i ELSE i + 1]
    BY DEF Without
  <2> HIDE DEF w, k
  <2>3. CASE i < k
    BY <1>1, <2>1, <2>2, <2>3 DEF Within
  <2>4. CASE ~(i < k)
    <3>1. i + 1 \in 1..Len(s) /\ s[i + 1] \in M
      BY <2>1, <2>2, <2>4
    <3> QED
      BY <3>1 DEF Within
  <2> QED
    BY <2>3, <2>4
<1> HIDE DEF w
<1>6. Within(w, M \cup {x}, d)
  BY <1>3, <1>5 DEF Within
<1> QED
  BY <1>3, <1>6 DEF w

\* One element more at the front: the others come one place later.
LEMMA ChainWithin ==
  ASSUME NEW S, NEW t \in Seq(S), Len(t) <= 1, NEW s \in Seq(S), NEW M, NEW d \in Nat,
         Within(s, M, d)
  PROVE  Within(t \o s, M, d + 1) /\ Len(t \o s) = Len(t) + Len(s)
<1>1. /\ Len(t \o s) = Len(t) + Len(s)
      /\ \A i \in 1..Len(t) + Len(s) : (t \o s)[i] = IF i <= Len(t) THEN t[i] ELSE s[i - Len(t)]
  BY ConcatProperties
<1>2. Len(t) \in Nat /\ Len(s) \in Nat
  OBVIOUS
<1>3. ASSUME NEW i \in 1..Len(t) + Len(s), (t \o s)[i] \in M PROVE i <= d + 1
  <2>1. CASE i <= Len(t)
    BY <1>2, <2>1
  <2>2. CASE i > Len(t)
    <3>1. i - Len(t) \in 1..Len(s) /\ s[i - Len(t)] \in M
      BY <1>1, <1>2, <1>3, <2>2
    <3>2. i - Len(t) <= d
      BY <3>1 DEF Within
    <3> QED
      BY <1>2, <3>1, <3>2
  <2> QED
    BY <1>2, <2>1, <2>2
<1> QED
  BY <1>1, <1>3 DEF Within

\* The same of push_front.
LEMMA ConsWithin ==
  ASSUME NEW S, NEW x \in S, NEW s \in Seq(S), NEW M, NEW d \in Nat, Within(s, M, d)
  PROVE  Within(Cons(x, s), M, d + 1)
<1> DEFINE t == <<x>>
<1>1. t \in Seq(S) /\ Len(t) <= 1
  OBVIOUS
<1> HIDE DEF t
<1>2. Within(t \o s, M, d + 1)
  BY <1>1, ChainWithin, Zenon
<1> QED
  BY <1>2 DEF t, Cons

\* What is left to touch has each key once.
LEMMA TailElements ==
  ASSUME NEW S, NEW s \in Seq(S), s # <<>>, IsInjective(s)
  PROVE  /\ IsInjective(Tail(s)) /\ Head(s) \in ToSet(s)
         /\ ToSet(Tail(s)) \subseteq ToSet(s) \ {Head(s)}
<1>1. Len(s) \in Nat \ {0}
  BY EmptySeq
<1> DEFINE r == Tail(s)
<1>2. r \in Seq(S) /\ Len(r) = Len(s) - 1 /\ \A i \in 1..Len(s)-1 : r[i] = s[i + 1]
  BY <1>1, HeadTailProperties
<1>3. Head(s) = s[1]
  BY <1>1
<1> HIDE DEF r
<1>4. \A i \in 1..Len(s)-1 : r[i] = s[i + 1] /\ i + 1 \in 1..Len(s) /\ i + 1 # 1
  BY <1>1, <1>2
<1>5. IsInjective(r)
  <2> SUFFICES ASSUME NEW i \in 1..Len(s)-1, NEW j \in 1..Len(s)-1, r[i] = r[j] PROVE i = j
    BY <1>2 DEF IsInjective
  <2>1. i + 1 = j + 1
    BY <1>4 DEF IsInjective
  <2> QED
    BY <2>1
<1>6. \A i \in 1..Len(s)-1 : r[i] \in ToSet(s) \ {s[1]}
  BY <1>1, <1>4 DEF IsInjective, ToSet
<1>7. ToSet(r) \subseteq ToSet(s) \ {s[1]}
  BY <1>2, <1>6 DEF ToSet
<1> QED
  BY <1>1, <1>3, <1>5, <1>7 DEF r, ToSet

\* When no slot is free, probation has all those that the protected segment may not have.
LEMMA FullPool ==
  ASSUME PoolInv, AllSlots, Capped, freelist = <<>>
  PROVE  Len(slotProbation) >= K - slotMode.cap
<1> DEFINE p == ToSet(slotProbation)
           q == ToSet(slotProtectd)
<1>1. IsFiniteSet(p) /\ Cardinality(p) <= Len(slotProbation)
  BY ListSize DEF PoolInv, PoolTyped
<1>2. IsFiniteSet(q) /\ Cardinality(q) <= Len(slotProtectd)
  BY ListSize DEF PoolInv, PoolTyped
<1> HIDE DEF p, q
<1>3. IsFiniteSet(p \cup q) /\ Cardinality(p \cup q) <= Cardinality(p) + Cardinality(q)
  <2>1. /\ IsFiniteSet(p \cap q) /\ IsFiniteSet(p \cup q)
        /\ Cardinality(p \cup q) = Cardinality(p) + Cardinality(q) - Cardinality(p \cap q)
    BY <1>1, <1>2, FS_Union, FS_Intersection
  <2>2. Cardinality(p) \in Nat /\ Cardinality(q) \in Nat /\ Cardinality(p \cap q) \in Nat
    BY <1>1, <1>2, <2>1, FS_CardinalityType
  <2> QED
    BY <2>1, <2>2
<1>4. DOMAIN slotOf = p \cup q
  BY DEF PoolInv, Placed, p, q
<1>5. slotOf \in Surjection(DOMAIN slotOf, Slots)
  <2>1. ToSet(freelist) = {}
    BY DEF ToSet
  <2>2. {slotOf[x] : x \in DOMAIN slotOf} = Slots
    BY <2>1 DEF AllSlots
  <2> QED
    BY <2>2 DEF Surjection, PoolInv, PoolTyped
<1>6. Cardinality(Slots) <= Cardinality(p \cup q)
  BY <1>3, <1>4, <1>5, FS_Surjection
<1>7. Cardinality(Slots) = K
  <2>1. K \in Nat \ {0} /\ 0 \in Int /\ K - 1 \in Int
    BY KAssumption
  <2>2. Cardinality(0..K-1) = IF 0 > K - 1 THEN 0 ELSE (K - 1) - 0 + 1
    BY <2>1, FS_Interval
  <2> QED
    BY <2>1, <2>2 DEF Slots
<1>8. /\ Cardinality(p) \in Nat /\ Cardinality(q) \in Nat /\ Cardinality(p \cup q) \in Nat
      /\ Len(slotProbation) \in Nat /\ Len(slotProtectd) \in Nat /\ slotMode.cap \in 0..K
  BY <1>1, <1>2, <1>3, FS_CardinalityType, KAssumption DEF PoolInv, PoolTyped
<1> QED
  BY <1>1, <1>2, <1>3, <1>6, <1>7, <1>8, KAssumption DEF Capped

\* A touch that gave x the slot s, took none from a key touched before while they are few,
\* and put at most one key at the front of probation.
LEMMA TouchServes ==
  ASSUME PoolInv, Serving, NEW x \in Keys, TouchingSlot(x), NEW s,
         job'.map = Mapped(x, s), job'.todo = Tail(job.todo), job'.pc = "touch",
         UNCHANGED slotMode, AllSlots', Capped', x \in DOMAIN slotOf', slotOf'[x] = s,
         Cardinality(DOMAIN job.map) < K - slotMode.cap =>
           \A y \in DOMAIN job.map \cap DOMAIN slotOf : y \in DOMAIN slotOf' /\ slotOf'[y] = slotOf[y],
         Within(slotProbation', DOMAIN job.map \cup {x}, Cardinality(DOMAIN job.map) + 1)
  PROVE  Serving'
<1>1. BindTouches /\ StillHas /\ IsFiniteSet(DOMAIN job.map)
  BY DEF Serving, TouchingSlot
<1>2. /\ x \in ToSet(job.todo) /\ IsInjective(Tail(job.todo))
      /\ ToSet(Tail(job.todo)) \subseteq ToSet(job.todo) \ {x}
  BY <1>1, TailElements DEF PoolInv, PoolTyped, TouchingSlot, BindTouches
<1>3. x \notin DOMAIN job.map /\ DOMAIN job'.map = DOMAIN job.map \cup {x}
  BY <1>1, <1>2 DEF BindTouches, Mapped
<1>4. IsFiniteSet(DOMAIN job'.map) /\ Cardinality(DOMAIN job'.map) = Cardinality(DOMAIN job.map) + 1
  BY <1>1, <1>3, FS_AddElement
<1>5. BindTouches'
  <2>1. IsInjective(job'.todo) /\ ToSet(job'.todo) \cap DOMAIN job'.map = {}
    BY <1>1, <1>2, <1>3 DEF BindTouches
  <2> QED
    BY <1>3, <1>4, <2>1 DEF BindTouches
<1>6. StillHas'
  <2> SUFFICES ASSUME Cardinality(DOMAIN job'.map) <= K - slotMode.cap, NEW y \in DOMAIN job'.map
               PROVE  y \in DOMAIN slotOf' /\ slotOf'[y] = job'.map[y]
    BY DEF StillHas
  <2>1. CASE y = x
    BY <1>3, <2>1 DEF Mapped
  <2>2. CASE y # x
    <3>1. Cardinality(DOMAIN job.map) \in Nat /\ slotMode.cap \in 0..K
      BY <1>1, FS_CardinalityType, KAssumption DEF PoolInv, PoolTyped
    <3>2. Cardinality(DOMAIN job.map) < K - slotMode.cap
      BY <1>4, <3>1, KAssumption
    <3>3. Cardinality(DOMAIN job.map) <= K - slotMode.cap
      BY <3>1, <3>2, KAssumption
    <3>4. y \in DOMAIN job.map /\ job'.map[y] = job.map[y]
      BY <1>3, <2>2 DEF Mapped
    <3>5. y \in DOMAIN slotOf /\ slotOf[y] = job.map[y]
      BY <1>1, <3>3, <3>4 DEF StillHas
    <3> QED
      BY <3>2, <3>4, <3>5
  <2> QED
    BY <2>1, <2>2
<1> QED
  BY <1>4, <1>5, <1>6 DEF Serving

\* A bind knows at each touch how many keys it touched, and where they are.
LEMMA TouchedSoFar ==
  ASSUME PoolInv, Serving, NEW x \in Keys, TouchingSlot(x)
  PROVE  /\ Cardinality(DOMAIN job.map) \in Nat /\ slotMode.cap \in Nat
         /\ Within(slotProbation, DOMAIN job.map, Cardinality(DOMAIN job.map))
  BY FS_CardinalityType, KAssumption DEF Serving, TouchingSlot, BindTouches, PoolInv, PoolTyped

\* A hit promotes the key: at most one other is demoted to the front of probation.
LEMMA PromotionWithin ==
  ASSUME NEW S, NEW p \in Seq(S), NEW q \in Seq(S), Apart(p, q), NEW x \in ToSet(p),
         NEW cap \in Nat, Len(q) <= cap, NEW M, NEW d \in Nat, Within(p, M, d)
  PROVE  LET seg == Cons(x, q)
             n == IF Len(seg) > cap THEN cap ELSE Len(seg)
         IN  /\ Len(Kept(seg, n)) <= cap
             /\ Within(Demoted(seg, n, Without(p, x)), M \cup {x}, d + 1)
<1> DEFINE seg == Cons(x, q)
           n == IF Len(seg) > cap THEN cap ELSE Len(seg)
           w == Without(p, x)
           t == SubSeq(seg, n + 1, Len(seg))
<1>1. x \in S /\ IsInjective(p)
  BY DEF Apart, ToSet
<1>2. seg \in Seq(S) /\ Len(seg) = Len(q) + 1
  BY <1>1, ConsElements
<1>3. w \in Seq(S) /\ Within(w, M \cup {x}, d)
  BY <1>1, WithoutElements, WithoutWithin
<1> HIDE DEF seg, w
<1>4. n \in 0..Len(seg) /\ n <= cap /\ Len(seg) - n <= 1
  BY <1>2
<1> HIDE DEF n
<1>5. Len(SubSeq(seg, 1, n)) = n
  BY <1>2, <1>4, SubSeqProperties
<1>6. t \in Seq(S) /\ Len(t) <= 1
  BY <1>2, <1>4, SubSeqProperties
<1> HIDE DEF t
<1>7. Within(t \o w, M \cup {x}, d + 1)
  BY <1>3, <1>6, ChainWithin, Zenon
<1> QED
  BY <1>4, <1>5, <1>7 DEF Kept, Demoted, t, n, w, seg

LEMMA SlotHitServes ==
  ASSUME PoolInv, Serving, NEW x \in Keys, SlotHit(x)
  PROVE  Serving'
<1> DEFINE M == DOMAIN job.map
           d == Cardinality(DOMAIN job.map)
<1>1. /\ TouchingSlot(x) /\ x \in DOMAIN slotOf /\ UNCHANGED <<slotOf, freelist, slotMode>>
      /\ job'.map = Mapped(x, slotOf[x]) /\ job'.todo = Tail(job.todo) /\ job'.pc = "touch"
  BY DEF SlotHit, TouchingSlot, PoolInv, PoolTyped
<1>2. d \in Nat /\ slotMode.cap \in Nat /\ Within(slotProbation, M, d)
  BY <1>1, TouchedSoFar
<1>3. /\ slotProbation \in Seq(Keys) /\ slotProtectd \in Seq(Keys) /\ Apart(slotProbation, slotProtectd)
      /\ x \in ToSet(slotProbation) \cup ToSet(slotProtectd) /\ Len(slotProtectd) <= slotMode.cap
  BY <1>1 DEF PoolInv, PoolTyped, Placed, Serving, Capped
<1> HIDE DEF M, d
<1>4. Len(slotProtectd') <= slotMode.cap /\ Within(slotProbation', M \cup {x}, d + 1)
  <2>1. CASE x \in ToSet(slotProtectd) /\ slotProtectd' = ToFront(slotProtectd, x) /\ UNCHANGED slotProbation
    <3>1. Len(Without(slotProtectd, x)) = Len(slotProtectd) - 1
      <4>1. Within(slotProtectd, {}, 0)
        BY DEF Within
      <4> QED
        BY <1>3, <2>1, <4>1, WithoutWithin DEF Apart
    <3>2. Len(slotProtectd') = Len(slotProtectd)
      <4>1. Without(slotProtectd, x) \in Seq(Keys)
        BY <1>3, <2>1, WithoutElements DEF Apart
      <4> QED
        BY <1>3, <2>1, <3>1, <4>1, ConsElements DEF ToFront
    <3>3. x \notin ToSet(slotProbation)
      BY <1>3, <2>1 DEF Apart
    <3>4. Within(slotProbation, M \cup {x}, d + 1)
      BY <1>2, <1>3, <3>3 DEF Within, ToSet
    <3> QED
      BY <1>3, <2>1, <3>2, <3>4
  <2>2. CASE /\ x \notin ToSet(slotProtectd)
             /\ LET seg == Cons(x, slotProtectd)
                    n == IF Len(seg) > slotMode.cap THEN slotMode.cap ELSE Len(seg)
                IN  /\ slotProtectd' = Kept(seg, n)
                    /\ slotProbation' = Demoted(seg, n, Without(slotProbation, x))
    BY <1>2, <1>3, <2>2, PromotionWithin
  <2>3. CASE x \notin ToSet(slotProtectd) /\ slotProbation' = ToFront(slotProbation, x) /\ UNCHANGED slotProtectd
    <3>1. x \in ToSet(slotProbation) /\ IsInjective(slotProbation)
      BY <1>3, <2>3 DEF Apart
    <3>2. Without(slotProbation, x) \in Seq(Keys) /\ Within(Without(slotProbation, x), M \cup {x}, d)
      BY <1>2, <1>3, <3>1, WithoutElements, WithoutWithin
    <3>3. Within(Cons(x, Without(slotProbation, x)), M \cup {x}, d + 1)
      BY <1>2, <3>2, ConsWithin
    <3> QED
      BY <1>3, <2>3, <3>3 DEF ToFront
  <2> QED
    BY <2>1, <2>2, <2>3 DEF SlotHit
<1>5. AllSlots' /\ Capped'
  BY <1>1, <1>4 DEF Serving, AllSlots, Capped
<1>6. Within(slotProbation', DOMAIN job.map \cup {x}, Cardinality(DOMAIN job.map) + 1)
  BY <1>4 DEF M, d
<1>7. \A y \in DOMAIN job.map \cap DOMAIN slotOf : y \in DOMAIN slotOf' /\ slotOf'[y] = slotOf[y]
  BY <1>1
<1>8. x \in DOMAIN slotOf' /\ slotOf'[x] = slotOf[x]
  BY <1>1
<1> QED
  BY <1>1, <1>5, <1>6, <1>7, <1>8, TouchServes

\* After a miss the key is the first of probation, and those before it come later by one.
LEMMA MissServes ==
  ASSUME PoolInv, Serving, NEW x \in Keys, MissingSlot(x), NEW s, NEW victims, Missed(x, s),
         slotOf' = Assigned(x, s, victims), UNCHANGED slotMode, AllSlots', Capped',
         NEW p \in Seq(Keys), slotProbation' = Cons(x, p), Len(p) <= Len(slotProbation),
         \A i \in 1..Len(p) : p[i] = slotProbation[i],
         x \notin ToSet(slotProbation),
         Cardinality(DOMAIN job.map) < K - slotMode.cap => DOMAIN job.map \cap victims = {}
  PROVE  Serving'
<1>1. /\ TouchingSlot(x) /\ x \notin DOMAIN slotOf
      /\ job'.map = Mapped(x, s) /\ job'.todo = Tail(job.todo) /\ job'.pc = "touch"
  BY DEF MissingSlot, Missed, TouchingSlot, PoolInv, PoolTyped
<1>2. Cardinality(DOMAIN job.map) \in Nat /\ Within(slotProbation, DOMAIN job.map, Cardinality(DOMAIN job.map))
  BY <1>1, TouchedSoFar
<1>3. Within(p, DOMAIN job.map \cup {x}, Cardinality(DOMAIN job.map))
  <2> SUFFICES ASSUME NEW i \in 1..Len(p), p[i] \in DOMAIN job.map \cup {x}
               PROVE  i <= Cardinality(DOMAIN job.map)
    BY DEF Within
  <2>1. i \in 1..Len(slotProbation) /\ p[i] = slotProbation[i]
    BY DEF PoolInv, PoolTyped
  <2>2. slotProbation[i] \in DOMAIN job.map
    BY <2>1 DEF ToSet
  <2> QED
    BY <1>2, <2>1, <2>2 DEF Within
<1>4. Within(slotProbation', DOMAIN job.map \cup {x}, Cardinality(DOMAIN job.map) + 1)
  BY <1>2, <1>3, ConsWithin
<1>5. x \in DOMAIN slotOf' /\ slotOf'[x] = s
  BY DEF Assigned
<1>6. Cardinality(DOMAIN job.map) < K - slotMode.cap =>
        \A y \in DOMAIN job.map \cap DOMAIN slotOf : y \in DOMAIN slotOf' /\ slotOf'[y] = slotOf[y]
  BY <1>1 DEF Assigned
<1> QED
  BY <1>1, <1>4, <1>5, <1>6, TouchServes

LEMMA TakeFreeServes ==
  ASSUME PoolInv, Serving, NEW x \in Keys, TakeFree(x)
  PROVE  Serving'
<1> DEFINE s == Last(freelist)
<1>1. /\ MissingSlot(x) /\ freelist # <<>> /\ freelist' = Front(freelist) /\ Missed(x, s)
      /\ slotOf' = Assigned(x, s, {}) /\ slotProbation' = Cons(x, slotProbation)
      /\ x \notin DOMAIN slotOf /\ UNCHANGED <<slotProtectd, slotMode>>
  BY DEF TakeFree, MissingSlot
<1>2. /\ s \in Slots /\ s \in ToSet(freelist) /\ ToSet(freelist') = ToSet(freelist) \ {s}
      /\ freelist \in Seq(Slots)
  BY <1>1, FrontElements DEF PoolInv, PoolTyped
<1> HIDE DEF s
<1>3. /\ slotProbation \in Seq(Keys) /\ x \notin ToSet(slotProbation)
  BY <1>1 DEF PoolInv, PoolTyped, Placed
<1>4. AllSlots'
  <2>1. /\ DOMAIN slotOf' = DOMAIN slotOf \cup {x} /\ slotOf'[x] = s
        /\ \A y \in DOMAIN slotOf : slotOf'[y] = slotOf[y]
    BY <1>1 DEF Assigned
  <2>2. {slotOf'[y] : y \in DOMAIN slotOf'} = {slotOf[y] : y \in DOMAIN slotOf} \cup {s}
    BY <2>1
  <2> QED
    BY <1>2, <2>2 DEF Serving, AllSlots, Slots
<1>5. Capped'
  BY <1>1 DEF Serving, Capped
<1>6. Len(slotProbation) <= Len(slotProbation)
  BY <1>3
<1> QED
  BY <1>1, <1>3, <1>4, <1>5, <1>6, MissServes

\* pop_back leaves the others where they were.
LEMMA FrontPlaces ==
  ASSUME NEW S, NEW s \in Seq(S), Len(s) \in Nat \ {0}
  PROVE  /\ Front(s) \in Seq(S) /\ Len(Front(s)) = Len(s) - 1
         /\ \A i \in 1..Len(Front(s)) : Front(s)[i] = s[i]
<1> DEFINE f == SubSeq(s, 1, Len(s) - 1)
<1>1. f \in Seq(S) /\ DOMAIN f = 1..Len(s)-1 /\ \A i \in 1..Len(s)-1 : f[i] = s[i]
  BY SubSeqProperties
<1>2. Len(s) - 1 \in Nat
  OBVIOUS
<1> HIDE DEF f
<1>3. Len(f) = Len(s) - 1
  BY <1>1, <1>2, LenProperties
<1>4. f \in Seq(S) /\ Len(f) = Len(s) - 1 /\ \A i \in 1..Len(f) : f[i] = s[i]
  BY <1>1, <1>3
<1> QED
  BY <1>4 DEF Front, f

\* The victim's slot goes to the key: none is lost.
LEMMA EvictKeepsSlots ==
  ASSUME PoolInv, Serving, NEW x \in Keys, x \notin DOMAIN slotOf, NEW v \in DOMAIN slotOf,
         slotOf' = Assigned(x, slotOf[v], {v}), UNCHANGED freelist
  PROVE  AllSlots'
<1>1. /\ DOMAIN slotOf' = (DOMAIN slotOf \ {v}) \cup {x} /\ slotOf'[x] = slotOf[v]
      /\ \A y \in DOMAIN slotOf \ {v} : slotOf'[y] = slotOf[y]
  BY DEF Assigned
<1>2. {slotOf'[y] : y \in DOMAIN slotOf'} = {slotOf[y] : y \in DOMAIN slotOf}
  BY <1>1
<1> QED
  BY <1>2 DEF Serving, AllSlots, Slots

\* While a bind has touched few keys, the tail of probation is none of them.
LEMMA EvictServes ==
  ASSUME PoolInv, Serving, NEW x \in Keys, Evict(x)
  PROVE  Serving'
<1>1. /\ MissingSlot(x) /\ TouchingSlot(x) /\ x \notin DOMAIN slotOf /\ freelist = <<>>
      /\ UNCHANGED <<freelist, slotMode>>
  BY DEF Evict, MissingSlot
<1>2. /\ slotProbation \in Seq(Keys) /\ slotProtectd \in Seq(Keys) /\ x \notin ToSet(slotProbation)
      /\ IsInjective(slotProbation) /\ IsInjective(slotProtectd)
      /\ DOMAIN slotOf = ToSet(slotProbation) \cup ToSet(slotProtectd)
  BY <1>1 DEF PoolInv, PoolTyped, Placed, Apart
<1>3. /\ Cardinality(DOMAIN job.map) \in Nat /\ slotMode.cap \in Nat
      /\ Within(slotProbation, DOMAIN job.map, Cardinality(DOMAIN job.map))
  BY <1>1, TouchedSoFar
<1>4. Len(slotProbation) >= K - slotMode.cap /\ Capped
  BY <1>1, FullPool DEF Serving
<1>5. CASE /\ slotProbation # <<>> /\ EvictFrom(x, slotProbation)
           /\ slotProbation' = Cons(x, Front(slotProbation)) /\ UNCHANGED slotProtectd
  <2> DEFINE v == Last(slotProbation)
             p == Front(slotProbation)
  <2>1. Len(slotProbation) \in Nat \ {0}
    BY <1>2, <1>5, EmptySeq
  <2>2. v \in DOMAIN slotOf
    BY <1>2, <1>5, FrontElements
  <2>3. /\ p \in Seq(Keys) /\ Len(p) = Len(slotProbation) - 1
        /\ \A i \in 1..Len(p) : p[i] = slotProbation[i]
    BY <1>2, <2>1, FrontPlaces
  <2>4. v = slotProbation[Len(slotProbation)]
    BY DEF Last
  <2>5. slotOf' = Assigned(x, slotOf[v], {v}) /\ Missed(x, slotOf[v])
    BY <1>5 DEF EvictFrom
  <2> HIDE DEF v, p
  <2>6. Cardinality(DOMAIN job.map) < K - slotMode.cap => DOMAIN job.map \cap {v} = {}
    <3> SUFFICES ASSUME Cardinality(DOMAIN job.map) < K - slotMode.cap, v \in DOMAIN job.map PROVE FALSE
      OBVIOUS
    <3>1. Len(slotProbation) <= Cardinality(DOMAIN job.map)
      BY <1>3, <2>1, <2>4 DEF Within
    <3> QED
      BY <1>3, <1>4, <2>1, <3>1, KAssumption
  <2>7. AllSlots'
    BY <1>1, <2>2, <2>5, EvictKeepsSlots
  <2>8. Capped'
    BY <1>1, <1>4, <1>5 DEF Capped
  <2>9. slotProbation' = Cons(x, p) /\ Len(p) <= Len(slotProbation)
    BY <1>5, <2>1, <2>3 DEF p
  <2> QED
    BY <1>1, <1>2, <2>3, <2>5, <2>6, <2>7, <2>8, <2>9, MissServes
<1>6. CASE /\ slotProbation = <<>> /\ slotProtectd # <<>> /\ EvictFrom(x, slotProtectd)
           /\ slotProbation' = <<x>> /\ slotProtectd' = Front(slotProtectd)
  <2> DEFINE v == Last(slotProtectd)
             p == Front(slotProtectd)
  <2>1. Len(slotProtectd) \in Nat \ {0}
    BY <1>2, <1>6, EmptySeq
  <2>2. v \in DOMAIN slotOf
    BY <1>2, <1>6, FrontElements
  <2>3. Len(p) = Len(slotProtectd) - 1
    BY <1>2, <2>1, FrontPlaces
  <2>5. slotOf' = Assigned(x, slotOf[v], {v}) /\ Missed(x, slotOf[v])
    BY <1>6 DEF EvictFrom
  <2> HIDE DEF v, p
  <2>6. ~(Cardinality(DOMAIN job.map) < K - slotMode.cap)
    <3>1. Len(slotProbation) = 0
      BY <1>6
    <3> QED
      BY <1>3, <1>4, <3>1, KAssumption
  <2>7. AllSlots'
    BY <1>1, <2>2, <2>5, EvictKeepsSlots
  <2>8. Capped'
    <3>1. Len(slotProtectd') <= slotMode.cap
      BY <1>3, <1>4, <1>6, <2>1, <2>3 DEF Capped, p
    <3> QED
      BY <1>1, <3>1 DEF Capped
  <2>9. /\ <<>> \in Seq(Keys) /\ slotProbation' = Cons(x, <<>>) /\ Len(<<>>) <= Len(slotProbation)
        /\ \A i \in 1..Len(<<>>) : <<>>[i] = slotProbation[i]
    BY <1>6 DEF Cons
  <2> QED
    BY <1>1, <1>2, <2>5, <2>6, <2>7, <2>8, <2>9, MissServes
<1> QED
  BY <1>5, <1>6 DEF Evict

\* gpu_slot_pool::init: no slot is missing.
LEMMA EverySlotFree ==
  LET f == [i \in 1..K |-> K - i]
  IN  ToSet(f) \cup {NoMap[x] : x \in DOMAIN NoMap} = Slots
<1> DEFINE f == [i \in 1..K |-> K - i]
<1>1. \A s \in 0..K-1 : K - s \in 1..K /\ f[K - s] = s
  BY KAssumption
<1>2. \A i \in 1..K : f[i] \in 0..K-1
  BY KAssumption
<1>3. ToSet(f) = Slots
  <2>1. DOMAIN f = 1..K
    OBVIOUS
  <2> HIDE DEF f
  <2> QED
    BY <1>1, <1>2, <2>1 DEF ToSet, Slots
<1> QED
  BY <1>3 DEF NoMap

LEMMA InitServing == PoolInit => Serving
<1> SUFFICES ASSUME PoolInit PROVE Serving
  OBVIOUS
<1>1. freelist = [i \in 1..K |-> K - i] /\ slotOf = NoMap /\ slotProtectd = <<>> /\ job.pc = "idle"
      /\ slotMode \in PoolModes
  BY DEF PoolInit, NoJob
<1>2. AllSlots
  BY <1>1, EverySlotFree DEF AllSlots
<1>3. Capped
  BY <1>1, KAssumption DEF Capped
<1> QED
  BY <1>1, <1>2, <1>3 DEF Serving

LEMMA ServingStep == PoolInv /\ Serving /\ [PoolNext]_poolVars => Serving'
<1> SUFFICES ASSUME PoolInv, Serving, [PoolNext]_poolVars PROVE Serving'
  OBVIOUS
<1> USE DEF Serving
<1>1. CASE Rebuild
  BY <1>1 DEF Rebuild, pool, AllSlots, Capped
<1>2. CASE Fill
  <2>1. /\ job.pc = "touch" /\ job'.pc = "run" /\ job'.map = job.map /\ UNCHANGED pool
    BY <1>2 DEF Fill, PoolInv, PoolTyped
  <2> QED
    BY <2>1 DEF AllSlots, Capped, StillHas, pool
<1>3. CASE Run
  <2>1. job'.pc = "idle" /\ UNCHANGED pool
    BY <1>3 DEF Run, NoJob
  <2> QED
    BY <2>1 DEF AllSlots, Capped, pool
<1>4. ASSUME NEW n \in GpuNodes, NEW used \in Uses, Bind(n, used) PROVE Serving'
  <2>1. job'.pc = "touch" /\ job'.map = NoMap /\ job'.todo = used /\ UNCHANGED pool
    BY <1>4 DEF Bind, NoJob
  <2>2. DOMAIN NoMap = {} /\ IsFiniteSet({}) /\ IsInjective(used)
    BY FS_EmptySet, UsesAssumption DEF NoMap
  <2> QED
    BY <2>1, <2>2 DEF AllSlots, Capped, BindTouches, StillHas, Within, pool
<1>5. ASSUME NEW x \in Keys, SlotHit(x) PROVE Serving'
  BY <1>5, SlotHitServes
<1>6. ASSUME NEW x \in Keys, TakeFree(x) PROVE Serving'
  BY <1>6, TakeFreeServes
<1>7. ASSUME NEW x \in Keys, Evict(x) PROVE Serving'
  BY <1>7, EvictServes
<1>8. CASE PoolReset
  <2>1. /\ freelist' = [i \in 1..K |-> K - i] /\ slotOf' = NoMap /\ slotProtectd' = <<>>
        /\ job' = job /\ job.pc = "idle" /\ slotMode' = slotMode /\ slotMode \in PoolModes
    BY <1>8 DEF PoolReset, PoolInv, PoolTyped
  <2>2. AllSlots'
    BY <2>1, EverySlotFree DEF AllSlots
  <2>3. Capped'
    BY <2>1, KAssumption DEF Capped
  <2> QED
    BY <2>1, <2>2, <2>3
<1>9. CASE UNCHANGED poolVars
  BY <1>9 DEF poolVars, pool, AllSlots, Capped, BindTouches, StillHas
<1> QED
  BY <1>1, <1>2, <1>3, <1>4, <1>5, <1>6, <1>7, <1>8, <1>9 DEF PoolNext

\* A node that uses no more experts than the slots outside the protected segment multiplies
\* with the experts it chose, though nothing pins a slot: each of them is still among the
\* first of probation, or protected, when another is evicted (gpu_slot_pool::touch, gpu_bind).
THEOREM FewAreServed == PoolSpec => []SlotsServe
<1>1. PoolInv /\ Serving => SlotsServe
  <2> SUFFICES ASSUME PoolInv, Serving, job.pc = "run", NEW x \in DOMAIN job.map,
                      Cardinality(DOMAIN job.map) <= K - slotMode.cap
               PROVE  content[job.map[x]] = x
    BY DEF SlotsServe
  <2>1. x \in DOMAIN slotOf /\ slotOf[x] = job.map[x]
    BY DEF Serving, StillHas
  <2>2. content[slotOf[x]] = x
    BY <2>1 DEF PoolInv, PoolTyped, Filled, NoFill
  <2> QED
    BY <2>1, <2>2
<1> QED
  BY <1>1, InitPool, InitServing, PoolStep, ServingStep, PTL DEF PoolSpec
=============================================================================
