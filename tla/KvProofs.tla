------------------------------ MODULE KvProofs ------------------------------
(***************************************************************************)
(* Proofs about KvCache, for any number of sequences, cells and streams,   *)
(* any batches, with and without a sliding window.                         *)
(*                                                                         *)
(* The data: the K of a cell, with the copies and shifts still owed, are   *)
(* those of its token at its position.  The operations on sequences take   *)
(* sequences away from cells, or move a cell and its owed shift alike;     *)
(* update pays what is owed.                                               *)
(*                                                                         *)
(* The slots: a batch is split into ubatches, each is placed on trial on   *)
(* what the ones before it left, and all are put back before the first is  *)
(* computed.  Metadata are ordered by what is left of their cells          *)
(* (Within).  What was put back lies within the cells, and the cells lie   *)
(* within what the next ubatch was placed on; where its slot was taken the *)
(* two sides agree, so that placing it again loses no more than the trial  *)
(* did.  That holds from ubatch to ubatch (Course).                        *)
(*                                                                         *)
(* The text: the split brings a sequence its next positions, in order;     *)
(* hence no gap where there was none, and what a sequence still sees past  *)
(* its new tokens is masked nowhere and stays.                             *)
(***************************************************************************)
EXTENDS KvCache, SequenceTheorems, FiniteSetTheorems, TLAPS

-----------------------------------------------------------------------------
(* Numbers, folds and copies                                               *)

\* A set of numbers has a least one.
LEMMA Least ==
  ASSUME NEW T, T \subseteq Nat, T # {}
  PROVE  \E n \in T : \A m \in T : n <= m
<1>1. PICK x \in T : \A y \in T : ~ (<<y, x>> \in OpToRel(<, Nat))
  BY NatLessThanWellFounded, WFMin
<1>2. \A y \in T : <<y, x>> \in Nat \X Nat
  OBVIOUS
<1>3. \A y \in T : ~ (y < x)
  BY <1>1, <1>2 DEF OpToRel
<1> QED
  BY <1>3

\* What holds of 0 and of the next number below N holds up to N.
LEMMA Upward ==
  ASSUME NEW N \in Nat, NEW T, 0 \in T, \A k \in 0..N-1 : k \in T => k + 1 \in T
  PROVE  0..N \subseteq T
<1> DEFINE U == (0..N) \ T
<1> SUFFICES ASSUME U # {} PROVE FALSE
  OBVIOUS
<1>1. PICK k \in U : \A m \in U : k <= m
  <2>1. U \subseteq Nat
    OBVIOUS
  <2> HIDE DEF U
  <2> QED BY <2>1, Least
<1>2. k # 0 /\ k - 1 \in 0..N-1
  OBVIOUS
<1>3. k - 1 \in T
  BY <1>1, <1>2
<1> QED
  BY <1>1, <1>2, <1>3

\* Min of the community modules, by its definition.
LEMMA MinOfNat ==
  ASSUME NEW S, S \subseteq Nat, S # {}
  PROVE  Min(S) \in S /\ \A y \in S : Min(S) <= y
<1>1. PICK x \in S : \A y \in S : x <= y
  BY Least
<1> QED
  BY <1>1 DEF Min

\* Max of the community modules, by its definition, for a bounded set.
LEMMA MaxOfBounded ==
  ASSUME NEW S, S \subseteq Int, S # {}, NEW N \in Int, \A x \in S : x <= N
  PROVE  Max(S) \in S /\ \A y \in S : Max(S) >= y
<1> DEFINE U == {N - x : x \in S}
<1>0. \A x \in S : x \in Int /\ N - x \in Nat
  OBVIOUS
<1>1. U \subseteq Nat /\ U # {}
  BY <1>0
<1>2. \E n \in U : \A m \in U : n <= m
  <2> HIDE DEF U
  <2> QED BY <1>1, Least
<1>3. PICK n \in U : \A m \in U : n <= m
  BY <1>2
<1>4. PICK x \in S : n = N - x
  BY <1>3
<1>5. ASSUME NEW y \in S PROVE x >= y
  <2>1. N - y \in U
    OBVIOUS
  <2>2. n <= N - y
    BY <1>3, <2>1
  <2> QED
    BY <1>4, <2>2
<1> HIDE DEF U
<1> QED
  BY <1>5 DEF Max

\* The folds take the elements of 1..k from the last.
LEMMA MaxOfPrefix ==
  ASSUME NEW k \in Nat \ {0}
  PROVE  Max(1..k) = k
<1>1. k \in 1..k /\ \A y \in 1..k : k >= y
  OBVIOUS
<1>2. \A x \in 1..k : (\A y \in 1..k : x >= y) => x = k
  OBVIOUS
<1> QED
  BY <1>1, <1>2 DEF Max

\* The largest element of a part of 1..N.
LEMMA MaxInPrefix ==
  ASSUME NEW N \in Nat, NEW s \in SUBSET (1..N), s # {}
  PROVE  Max(s) \in 1..N
<1>1. s \subseteq Int /\ \A x \in s : x <= N
  OBVIOUS
<1>2. Max(s) \in s
  <2>1. N \in Int
    OBVIOUS
  <2> QED BY <1>1, <2>1, MaxOfBounded
<1> QED
  BY <1>2

\* InOrder lists the numbers of a set, each once, in ascending order (the ring of
\* find_slot, the indices that split_equal collects).
LEMMA InOrderFacts ==
  ASSUME NEW S, S \subseteq Nat, IsFiniteSet(S)
  PROVE  /\ Cardinality(S) \in Nat
         /\ DOMAIN InOrder(S) = 1..Cardinality(S) /\ InOrder(S) \in Seq(S) /\ Len(InOrder(S)) = Cardinality(S)
         /\ \A k \in 1..Cardinality(S) : /\ InOrder(S)[k] \in S
                                         /\ Cardinality({y \in S : y < InOrder(S)[k]}) = k - 1
         /\ \A x \in S : \E k \in 1..Cardinality(S) : InOrder(S)[k] = x
         /\ \A j, k \in 1..Cardinality(S) : j < k => InOrder(S)[j] < InOrder(S)[k]
<1> DEFINE n == Cardinality(S)
           B(x) == {y \in S : y < x}
           r == [x \in S |-> Cardinality(B(x))]
<1>1. n \in Nat
  BY FS_CardinalityType
<1>2. \A x \in S : IsFiniteSet(B(x)) /\ Cardinality(B(x)) \in Nat
  <2> TAKE x \in S
  <2>1. B(x) \in SUBSET S
    OBVIOUS
  <2> HIDE DEF B
  <2> QED
    BY <2>1, FS_Subset, FS_CardinalityType
<1>3. \A x, z \in S : x < z => Cardinality(B(x)) < Cardinality(B(z))
  <2> TAKE x, z \in S
  <2> HAVE x < z
  <2>0. \A y \in S : y \in Nat
    OBVIOUS
  <2>a. \A y \in B(x) : y \in B(z)
    <3> TAKE y \in B(x)
    <3>1. x \in Nat /\ y \in Nat /\ z \in Nat /\ y < x /\ y \in S
      BY <2>0
    <3> QED BY <3>1
  <2>1. B(x) \in SUBSET B(z) /\ x \in B(z) /\ x \notin B(x)
    <3>1. x \in Nat /\ ~(x < x)
      BY <2>0
    <3>2. B(x) \in SUBSET B(z)
      <4> HIDE DEF B
      <4> QED BY <2>a
    <3> QED BY <3>1, <3>2
  <2> HIDE DEF B
  <2>2. Cardinality(B(x)) <= Cardinality(B(z)) /\ Cardinality(B(x)) # Cardinality(B(z))
    BY <1>2, <2>1, FS_Subset
  <2> QED
    BY <1>2, <2>2
<1>4. \A x \in S : Cardinality(B(x)) < n
  <2> TAKE x \in S
  <2>1. B(x) \in SUBSET S /\ x \notin B(x)
    OBVIOUS
  <2> HIDE DEF B
  <2>2. Cardinality(B(x)) <= n /\ Cardinality(B(x)) # n
    BY <2>1, FS_Subset
  <2> QED
    BY <1>1, <1>2, <2>2
<1>5. r \in [S -> 0..n-1]
  <2> HIDE DEF B, n
  <2> QED BY <1>1, <1>2, <1>4
<1>6. r \in Injection(S, 0..n-1)
  <2>1. \A x, z \in S : r[x] = r[z] => x = z
    <3> TAKE x, z \in S
    <3>1. x \in Nat /\ z \in Nat
      OBVIOUS
    <3>2. r[x] = Cardinality(B(x)) /\ r[z] = Cardinality(B(z))
      OBVIOUS
    <3>3. x < z \/ z < x \/ x = z
      BY <3>1
    <3>4. Cardinality(B(x)) \in Nat /\ Cardinality(B(z)) \in Nat
      BY <1>2
    <3>5. CASE x < z
      <4>1. Cardinality(B(x)) < Cardinality(B(z))
        BY <1>3, <3>5
      <4> HIDE DEF B, r
      <4> QED BY <3>2, <3>4, <4>1
    <3>6. CASE z < x
      <4>1. Cardinality(B(z)) < Cardinality(B(x))
        BY <1>3, <3>6
      <4> HIDE DEF B, r
      <4> QED BY <3>2, <3>4, <4>1
    <3> QED BY <3>3, <3>5, <3>6
  <2> HIDE DEF r
  <2> QED BY <1>5, <2>1 DEF Injection, IsInjective
<1>7. r \in Surjection(S, 0..n-1)
  <2>1. IsFiniteSet(0..n-1) /\ Cardinality(0..n-1) = n
    <3>1. 0 \in Int /\ n - 1 \in Int
      BY <1>1
    <3>2. IsFiniteSet(0..n-1) /\ Cardinality(0..n-1) = IF 0 > n - 1 THEN 0 ELSE (n - 1) - 0 + 1
      BY <3>1, FS_Interval
    <3> HIDE DEF n
    <3> QED BY <1>1, <3>2
  <2> HIDE DEF r
  <2> QED BY <1>6, <2>1, FS_Injection
<1>8. \A k \in 1..n : \E x \in S : Cardinality(B(x)) = k - 1
  <2> TAKE k \in 1..n
  <2>1. k - 1 \in 0..n-1
    BY <1>1
  <2>2. \E x \in S : r[x] = k - 1
    <3> HIDE DEF r, n
    <3> QED BY <1>7, <2>1 DEF Surjection
  <2> QED BY <2>2
<1>9. \A k \in 1..n : InOrder(S)[k] \in S /\ Cardinality(B(InOrder(S)[k])) = k - 1
  <2> TAKE k \in 1..n
  <2>1. InOrder(S)[k] = CHOOSE x \in S : Cardinality(B(x)) = k - 1
    BY DEF InOrder
  <2>2. \E x \in S : Cardinality(B(x)) = k - 1
    BY <1>8
  <2> HIDE DEF B, n
  <2> QED BY <2>1, <2>2
<1>10. DOMAIN InOrder(S) = 1..n
  BY DEF InOrder
<1>11. InOrder(S) \in Seq(S) /\ Len(InOrder(S)) = n
  <2> DEFINE s == InOrder(S)
  <2>1. s = [k \in 1..n |-> s[k]]
    BY DEF InOrder
  <2>2. \A k \in 1..n : s[k] \in S
    BY <1>9
  <2> HIDE DEF n, s
  <2>3. s \in [1..n -> S]
    BY <2>1, <2>2
  <2>4. s \in Seq(S)
    BY <1>1, <2>3, SeqDef
  <2>5. Len(s) \in Nat /\ 1..Len(s) = 1..n
    BY <2>3, <2>4
  <2>6. Len(s) = n
    BY <1>1, <2>5
  <2> QED BY <2>4, <2>6 DEF s
<1>12. \A j, k \in 1..n : j < k => InOrder(S)[j] < InOrder(S)[k]
  <2> TAKE j, k \in 1..n
  <2> HAVE j < k
  <2> DEFINE x == InOrder(S)[j]
             z == InOrder(S)[k]
  <2>1. x \in S /\ z \in S /\ x \in Nat /\ z \in Nat /\ Cardinality(B(x)) = j - 1 /\ Cardinality(B(z)) = k - 1
    BY <1>9
  <2>2. j - 1 < k - 1 /\ j \in Int /\ k \in Int
    BY <1>1
  <2> HIDE DEF x, z, B
  <2>3. x # z
    BY <2>1, <2>2
  <2>4. ~(z < x)
    BY <1>3, <2>1, <2>2
  <2> SUFFICES x < z
    BY DEF x, z
  <2> QED BY <2>1, <2>3, <2>4
<1>13. \A x \in S : \E k \in 1..n : InOrder(S)[k] = x
  <2> TAKE x \in S
  <2> DEFINE k == Cardinality(B(x)) + 1
  <2>1. k \in 1..n
    <3> HIDE DEF B, n
    <3> QED BY <1>1, <1>2, <1>4
  <2>2. Cardinality(B(InOrder(S)[k])) = Cardinality(B(x)) /\ InOrder(S)[k] \in S
    <3>1. Cardinality(B(x)) \in Nat /\ Cardinality(B(x)) + 1 - 1 = Cardinality(B(x))
      <4> HIDE DEF B
      <4> QED BY <1>2
    <3> HIDE DEF B, n
    <3> QED BY <1>9, <2>1, <3>1
  <2> HIDE DEF B, k, n
  <2>3. \A a, z \in S : a \in Nat /\ z \in Nat /\ (Cardinality(B(a)) = Cardinality(B(z)) => a = z)
    BY <1>2, <1>3
  <2>4. InOrder(S)[k] = x
    BY <2>2, <2>3
  <2> QED BY <2>1, <2>4
<1> QED
  BY <1>1, <1>9, <1>10, <1>11, <1>12, <1>13

\* iter of MapThenFoldSet for the numbers up to N, with the step g[k] at number k.
FoldOf(it, V, b, N, g) ==
  /\ it \in [SUBSET (1..N) -> V]
  /\ \A s \in SUBSET (1..N) : it[s] = IF s = {} THEN b ELSE g[Max(s)][it[s \ {Max(s)}]]

\* The function that a fold iterates exists.
LEMMA FoldExists ==
  ASSUME NEW V, NEW b \in V, NEW N \in Nat, NEW g, g \in [1..N -> [V -> V]]
  PROVE  \E it : FoldOf(it, V, b, N, g)
<1> DEFINE P(k) == \E f \in [SUBSET (1..k) -> V] :
                     \A s \in SUBSET (1..k) :
                       f[s] = IF s = {} THEN b ELSE g[Max(s)][f[s \ {Max(s)}]]
           T == {k \in 0..N : P(k)}
<1>0. P(0)
  <2> DEFINE f == [s \in SUBSET (1..0) |-> b]
  <2>1. f \in [SUBSET (1..0) -> V] /\ \A s \in SUBSET (1..0) : s = {} /\ f[s] = b
    OBVIOUS
  <2> HIDE DEF f
  <2> QED
    BY <2>1
<1>1. ASSUME NEW k \in 0..N-1, P(k) PROVE P(k+1)
  <2>1. PICK f \in [SUBSET (1..k) -> V] :
               \A s \in SUBSET (1..k) :
                 f[s] = IF s = {} THEN b ELSE g[Max(s)][f[s \ {Max(s)}]]
    BY <1>1
  <2> DEFINE h == [s \in SUBSET (1..k+1) |->
                     IF k + 1 \in s THEN g[k+1][f[s \ {k+1}]] ELSE f[s]]
  <2>2. g[k+1] \in [V -> V]
    OBVIOUS
  <2>3. \A s \in SUBSET (1..k+1) : s \ {k+1} \in SUBSET (1..k) /\ (k + 1 \notin s => s \in SUBSET (1..k))
    OBVIOUS
  <2>4. \A s \in SUBSET (1..k) : f[s] \in V
    OBVIOUS
  <2>5. h \in [SUBSET (1..k+1) -> V]
    BY <2>2, <2>3, <2>4
  <2>6. ASSUME NEW s \in SUBSET (1..k+1) PROVE h[s] = IF s = {} THEN b ELSE g[Max(s)][h[s \ {Max(s)}]]
    <3>1. CASE k + 1 \in s
      <4>1. Max(s) = k + 1
        <5>1. \A y \in s : k + 1 >= y
          OBVIOUS
        <5>2. \A x \in s : (\A y \in s : x >= y) => x = k + 1
          BY <3>1
        <5> QED
          BY <3>1, <5>1, <5>2 DEF Max
      <4>2. s \ {k+1} \in SUBSET (1..k+1) /\ k + 1 \notin s \ {k+1}
        OBVIOUS
      <4> QED
        BY <3>1, <4>1, <4>2
    <3>2. CASE k + 1 \notin s
      <4>1. s \in SUBSET (1..k) /\ h[s] = f[s]
        BY <2>3, <3>2
      <4>2. s \ {Max(s)} \in SUBSET (1..k+1) /\ k + 1 \notin s \ {Max(s)}
        BY <3>2
      <4>3. h[s \ {Max(s)}] = f[s \ {Max(s)}]
        BY <4>2
      <4> HIDE DEF h
      <4> QED
        BY <2>1, <4>1, <4>3
    <3> QED BY <3>1, <3>2
  <2> HIDE DEF h
  <2> QED
    BY <2>5, <2>6
<1>2. 0 \in T /\ \A k \in 0..N-1 : k \in T => k + 1 \in T
  <2> HIDE DEF P
  <2> QED BY <1>0, <1>1
<1>3. 0..N \subseteq T
  <2> HIDE DEF T
  <2> QED BY <1>2, Upward
<1>4. N \in T
  <2> HIDE DEF T
  <2> QED BY <1>3
<1>5. P(N)
  BY <1>4
<1> QED
  BY <1>5 DEF FoldOf

\* A stream copy, and the data after each of the copies of a list.
CopyStep(v, c) == [v EXCEPT ![c[2]] = v[c[1]]]
CopyChain(f, kd, cs, N) == f[0] = kd /\ \A k \in 1..N : f[k] = CopyStep(f[k-1], cs[k])

\* update makes the copies one after the other, each of what the ones before it left.
LEMMA CopiedSteps ==
  ASSUME NEW V, NEW kd \in V, NEW N \in Nat, NEW cs, DOMAIN cs = 1..N,
         \A v \in V, k \in 1..N : CopyStep(v, cs[k]) \in V
  PROVE  \E f : CopyChain(f, kd, cs, N) /\ f[N] = Copied(kd, cs)
<1> DEFINE g == [k \in 1..N |-> [v \in V |-> CopyStep(v, cs[k])]]
           Step(v, k) == CopyStep(v, cs[k])
           E(it) == [s \in SUBSET (1..N) |-> IF s = {} THEN kd ELSE Step(it[s \ {Max(s)}], Max(s))]
           I == CHOOSE it : it = E(it)
           f == [k \in 0..N |-> I[1..k]]
<1>1. Copied(kd, cs) = I[1..N]
  BY DEF Copied, FoldLeft, MapThenFoldSet, CopyStep
<1>2. g \in [1..N -> [V -> V]] /\ \A k \in 1..N, v \in V : g[k][v] = Step(v, k)
  OBVIOUS
<1>3. \E it : it = E(it)
  <2>1. PICK it : FoldOf(it, V, kd, N, g)
    <3> HIDE DEF g, Step
    <3> QED BY <1>2, FoldExists
  <2>2. \A s \in SUBSET (1..N) : it[s] = IF s = {} THEN kd ELSE Step(it[s \ {Max(s)}], Max(s))
    <3> HIDE DEF g, Step
    <3> QED BY <1>2, <2>1, MaxInPrefix DEF FoldOf
  <2>3. it = E(it)
    <3> HIDE DEF g, Step
    <3> QED BY <2>1, <2>2 DEF FoldOf
  <2> QED BY <2>3
<1>4. I = E(I)
  <2> HIDE DEF E
  <2> QED BY <1>3
<1>5. I[{}] = kd
  BY <1>4
<1>6. ASSUME NEW k \in 1..N PROVE I[1..k] = Step(I[1..k-1], k)
  <2>0. k \in Nat \ {0} /\ 1..k \in SUBSET (1..N) /\ k \in 1..k /\ (1..k) \ {k} = 1..k-1
    OBVIOUS
  <2>1. 1..k \in SUBSET (1..N) /\ 1..k # {} /\ (1..k) \ {k} = 1..k-1 /\ Max(1..k) = k
    BY <2>0, MaxOfPrefix
  <2>2. I[1..k] = E(I)[1..k]
    BY <1>4
  <2>3. E(I)[1..k] = Step(I[(1..k) \ {Max(1..k)}], Max(1..k))
    <3> HIDE DEF I, Step
    <3> QED BY <2>1
  <2> HIDE DEF I, E, Step
  <2> QED
    BY <2>1, <2>2, <2>3
<1>7. f[0] = kd /\ f[N] = Copied(kd, cs)
  <2>1. 1..0 = {}
    OBVIOUS
  <2> HIDE DEF I
  <2> QED BY <1>1, <1>5, <2>1
<1>8. \A k \in 1..N : f[k] = Step(f[k-1], k)
  <2> HIDE DEF I, Step
  <2> QED BY <1>6
<1> HIDE DEF f
<1> QED
  BY <1>7, <1>8 DEF CopyChain

\* No copies change nothing.
LEMMA CopiedNone ==
  ASSUME NEW kd
  PROVE  Copied(kd, <<>>) = kd
<1> DEFINE V == {kd}
           cs == <<>>
<1>1. kd \in V /\ 0 \in Nat /\ DOMAIN cs = 1..0
  OBVIOUS
<1>2. \A v \in V, k \in 1..0 : CopyStep(v, cs[k]) \in V
  OBVIOUS
<1> HIDE DEF V
<1>3. PICK f : CopyChain(f, kd, cs, 0) /\ f[0] = Copied(kd, cs)
  <2> HIDE DEF cs
  <2> QED BY <1>1, <1>2, CopiedSteps
<1> QED
  BY <1>3 DEF CopyChain

GoesOn(S, R, kd, cs, a, b) ==
  /\ Copied(kd, cs) \in [S -> R]
  /\ Copied(kd, Append(cs, <<a, b>>)) = CopyStep(Copied(kd, cs), <<a, b>>)
\* One more copy is made of what the copies before it left.
LEMMA CopiedOneMore ==
  ASSUME NEW S, NEW R, NEW kd \in [S -> R], NEW cs \in Seq(S \X S), NEW a \in S, NEW b \in S
  PROVE  GoesOn(S, R, kd, cs, a, b)
<1> DEFINE V == [S -> R]
           ds == Append(cs, <<a, b>>)
           N == Len(cs)
<1>1. \A v \in V, c \in S \X S : CopyStep(v, c) \in V
  BY DEF CopyStep
<1>2. /\ N \in Nat /\ N + 1 \in Nat /\ DOMAIN cs = 1..N /\ DOMAIN ds = 1..N+1
      /\ \A k \in 1..N : cs[k] \in S \X S /\ ds[k] = cs[k]
      /\ ds[N+1] = <<a, b>> /\ \A k \in 1..N+1 : ds[k] \in S \X S
  OBVIOUS
<1>3. PICK f : CopyChain(f, kd, cs, N) /\ f[N] = Copied(kd, cs)
  <2>1. \A v \in V, k \in 1..N : CopyStep(v, cs[k]) \in V
    BY <1>1, <1>2
  <2>2. kd \in V
    OBVIOUS
  <2> DEFINE M == N
             es == cs
  <2>3. M \in Nat /\ DOMAIN es = 1..M /\ \A v \in V, k \in 1..M : CopyStep(v, es[k]) \in V
    BY <1>2, <2>1
  <2> HIDE DEF V, M, es
  <2>4. \E f : CopyChain(f, kd, es, M) /\ f[M] = Copied(kd, es)
    BY <2>2, <2>3, CopiedSteps
  <2> QED BY <2>4 DEF M, es
<1>4. PICK h : CopyChain(h, kd, ds, N+1) /\ h[N+1] = Copied(kd, ds)
  <2>1. \A v \in V, k \in 1..N+1 : CopyStep(v, ds[k]) \in V
    BY <1>1, <1>2
  <2>2. kd \in V
    OBVIOUS
  <2> DEFINE M == N + 1
  <2>3. M \in Nat /\ DOMAIN ds = 1..M /\ \A v \in V, k \in 1..M : CopyStep(v, ds[k]) \in V
    BY <1>2, <2>1
  <2> HIDE DEF V, ds, M
  <2>4. \E h : CopyChain(h, kd, ds, M) /\ h[M] = Copied(kd, ds)
    BY <2>2, <2>3, CopiedSteps
  <2> QED BY <2>4 DEF M
<1> DEFINE T == {k \in 0..N : f[k] \in V /\ h[k] = f[k]}
<1>5. 0 \in T /\ \A k \in 0..N-1 : k \in T => k + 1 \in T
  <2>1. 0 \in T
    BY <1>2, <1>3, <1>4 DEF CopyChain
  <2>2. ASSUME NEW k \in 0..N-1, k \in T PROVE k + 1 \in T
    <3>1. k + 1 \in 1..N /\ k + 1 \in 1..N+1 /\ (k + 1) - 1 = k
      BY <1>2
    <3> HIDE DEF V
    <3>2. f[k+1] = CopyStep(f[k], cs[k+1]) /\ h[k+1] = CopyStep(h[k], ds[k+1]) /\ ds[k+1] = cs[k+1]
      BY <1>2, <1>3, <1>4, <3>1 DEF CopyChain
    <3> QED BY <1>1, <1>2, <2>2, <3>1, <3>2
  <2> QED BY <2>1, <2>2
<1>6. N \in T
  <2> HIDE DEF T
  <2>1. 0..N \subseteq T
    BY <1>2, <1>5, Upward
  <2> QED BY <1>2, <2>1
<1>7. h[N+1] = CopyStep(h[N], ds[N+1])
  <2>1. N + 1 \in 1..N+1 /\ (N + 1) - 1 = N
    BY <1>2
  <2> HIDE DEF ds, N
  <2> QED BY <1>4, <2>1 DEF CopyChain
<1>8. h[N] = Copied(kd, cs) /\ Copied(kd, cs) \in V
  BY <1>3, <1>6
<1>9. Copied(kd, ds) = CopyStep(Copied(kd, cs), <<a, b>>)
  <2> HIDE DEF N, ds
  <2> QED BY <1>2, <1>4, <1>7, <1>8
<1> QED
  BY <1>8, <1>9 DEF GoesOn

-----------------------------------------------------------------------------
(* Cells: their types, and one cell being what is left of another *)

CellSet == {EmptyCell} \cup [pos : 0..MaxPos-1, seqs : (SUBSET Seqs) \ {{}}, tok : Toks,
                             shift : Int, mark : {"none", "divided", "torn"}]
Grid(S) == [Streams -> [Idx -> S]]
DataSet == [tok : Toks \cup {NoTok}, rope : Int]
Tables == Grid(CellSet)

\* A cell some sequences were taken from: it is empty or as it was.
Within(c, d) ==
  \/ c = EmptyCell
  \/ /\ c.seqs # {} /\ c.seqs \subseteq d.seqs
     /\ c.pos = d.pos /\ c.tok = d.tok /\ c.shift = d.shift /\ c.mark = d.mark
AllWithin(cs, ds) == \A st \in Streams, i \in Idx : Within(cs[st][i], ds[st][i])

\* There is one stream for all sequences, or one for each (seq_to_stream).
LEMMA StreamsFacts ==
  ASSUME conf \in Configs
  PROVE  /\ Streams \subseteq Nat /\ 0 \in Streams /\ Streams # {}
         /\ \A s \in Seqs : conf.stream[s] \in Streams
         /\ conf.swa \in Nat
         /\ Cardinality(Streams) = 1 => Streams = {0}
         /\ Cardinality(Streams) # 1 => /\ Streams = Seqs
                                        /\ \A s \in Seqs : conf.stream[s] = s
<1>1. Seqs \subseteq Nat /\ 0 \in Seqs
  BY SeqsAssumption
<1>2. conf.swa \in Nat
  BY ConfigAssumption
<1>3. \A s \in Seqs : conf.stream[s] \in Streams
  BY DEF Streams
<1>4. CASE conf.stream = [s \in Seqs |-> 0]
  <2>1. Streams = {0}
    BY <1>1, <1>4 DEF Streams
  <2>2. Cardinality(Streams) = 1
    BY <2>1, FS_Singleton
  <2> QED
    BY <1>1, <1>2, <1>3, <2>1, <2>2
<1>5. CASE conf.stream = [s \in Seqs |-> s]
  <2>1. Streams = Seqs /\ \A s \in Seqs : conf.stream[s] = s
    BY <1>5 DEF Streams
  <2>2. PICK n \in Seqs : Seqs = 0..n
    BY SeqsAssumption
  <2>3. IsFiniteSet(Streams)
    <3>1. 0 \in Int /\ n \in Int
      BY <1>1
    <3>2. IsFiniteSet(0..n)
      BY <3>1, FS_Interval
    <3> QED BY <2>1, <2>2, <3>2
  <2>4. Cardinality(Streams) = 1 => Streams = {0}
    BY <1>1, <2>1, <2>3, FS_Singleton
  <2> QED
    BY <1>1, <1>2, <1>3, <2>1, <2>4
<1> QED
  BY <1>4, <1>5, ConfigAssumption

\* The cells of a stream.
LEMMA IdxFacts == 0 \in Idx /\ Idx # {} /\ Idx \subseteq Nat /\ Idx = 0..Size-1 /\ Size \in Nat \ {0}
  BY SizeAssumption DEF Idx

\* What a cell is made of; it is empty when it has no sequence.
LEMMA CellFacts ==
  ASSUME NEW c \in CellSet
  PROVE  /\ c.seqs \subseteq Seqs /\ c.pos \in -1..MaxPos-1 /\ c.pos \in Int /\ c.shift \in Int
         /\ c.tok \in Toks \cup {NoTok} /\ c.mark \in {"none", "divided", "torn"}
         /\ c.seqs = {} <=> c = EmptyCell
         /\ c.pos = -1 <=> c = EmptyCell
         /\ c # EmptyCell => c.pos \in 0..MaxPos-1
         /\ c = [pos |-> c.pos, seqs |-> c.seqs, tok |-> c.tok, shift |-> c.shift, mark |-> c.mark]
<1>1. CASE c = EmptyCell
  BY <1>1, BoundAssumption DEF EmptyCell
<1>2. CASE c # EmptyCell
  <2>1. c \in [pos : 0..MaxPos-1, seqs : (SUBSET Seqs) \ {{}}, tok : Toks,
               shift : Int, mark : {"none", "divided", "torn"}]
    BY <1>2 DEF CellSet
  <2> QED
    BY <2>1, <1>2, BoundAssumption DEF EmptyCell
<1> QED
  BY <1>1, <1>2

\* A cell with other sequences, position, shift or mark is a cell.
LEMMA MakeCell ==
  ASSUME NEW p \in 0..MaxPos-1, NEW S \in SUBSET Seqs, S # {}, NEW t \in Toks, NEW h \in Int,
         NEW m \in {"none", "divided", "torn"}
  PROVE  [pos |-> p, seqs |-> S, tok |-> t, shift |-> h, mark |-> m] \in CellSet
  BY DEF CellSet

\* A cell that is not empty has a position, a token and a sequence.
LEMMA FullCell ==
  ASSUME NEW c \in CellSet, c # EmptyCell
  PROVE  /\ c.pos \in 0..MaxPos-1 /\ c.seqs \in SUBSET Seqs /\ c.seqs # {} /\ c.tok \in Toks
         /\ c.shift \in Int /\ c.mark \in {"none", "divided", "torn"}
  BY DEF CellSet

\* reset leaves a cell.
LEMMA EmptyIsCell == EmptyCell \in CellSet
  BY DEF CellSet

\* Within is a partial order on cells.
LEMMA WithinSelf ==
  ASSUME NEW c \in CellSet
  PROVE  Within(c, c)
  BY CellFacts DEF Within

\* Within is transitive.
LEMMA WithinTrans ==
  ASSUME NEW c \in CellSet, NEW d \in CellSet, NEW e \in CellSet, Within(c, d), Within(d, e)
  PROVE  Within(c, e)
<1>1. CASE d = EmptyCell
  BY <1>1, CellFacts DEF Within, EmptyCell
<1> QED
  BY <1>1 DEF Within

\* Within is antisymmetric.
LEMMA WithinBoth ==
  ASSUME NEW c \in CellSet, NEW d \in CellSet, Within(c, d), Within(d, c)
  PROVE  c = d
<1>1. CASE c = EmptyCell
  <2>1. d.seqs \subseteq {}
    BY <1>1 DEF Within, EmptyCell
  <2> QED BY <1>1, <2>1, CellFacts
<1>2. CASE d = EmptyCell
  <2>1. c.seqs \subseteq {}
    BY <1>2 DEF Within, EmptyCell
  <2> QED BY <1>2, <2>1, CellFacts
<1>3. CASE c # EmptyCell /\ d # EmptyCell
  <2>1. c.seqs = d.seqs /\ c.pos = d.pos /\ c.tok = d.tok /\ c.shift = d.shift /\ c.mark = d.mark
    BY <1>3 DEF Within
  <2> QED
    BY <2>1, CellFacts
<1> QED
  BY <1>1, <1>2, <1>3

\* A sequence of a cell finds in a larger one what it had.
LEMMA WithinHas ==
  ASSUME NEW c \in CellSet, NEW d \in CellSet, Within(c, d)
  PROVE  /\ c.seqs \subseteq d.seqs
         /\ \A s \in c.seqs : c.pos = d.pos /\ c.tok = d.tok /\ c.shift = d.shift /\ c.mark = d.mark
         /\ c # EmptyCell => c.pos = d.pos /\ c.tok = d.tok /\ c.shift = d.shift /\ c.mark = d.mark
  BY DEF Within, EmptyCell

\* llama_kv_cells::seq_rm
LEMMA CellWithoutFacts ==
  ASSUME NEW c \in CellSet, NEW S
  PROVE  /\ CellWithout(c, S) \in CellSet /\ Within(CellWithout(c, S), c)
         /\ CellWithout(c, S).seqs = c.seqs \ S
         /\ S \cap c.seqs = {} => CellWithout(c, S) = c
<1>1. CASE c.seqs \subseteq S
  <2>1. CellWithout(c, S) = EmptyCell
    BY <1>1 DEF CellWithout
  <2>2. S \cap c.seqs = {} => c = EmptyCell
    BY <1>1, CellFacts
  <2> QED
    BY <1>1, <2>1, <2>2, EmptyIsCell DEF Within, EmptyCell
<1>2. CASE ~(c.seqs \subseteq S)
  <2>1. c # EmptyCell
    BY <1>2 DEF EmptyCell
  <2>2. CellWithout(c, S) = [pos |-> c.pos, seqs |-> c.seqs \ S, tok |-> c.tok,
                             shift |-> c.shift, mark |-> c.mark]
    <3>1. c \in [pos : 0..MaxPos-1, seqs : (SUBSET Seqs) \ {{}}, tok : Toks,
                 shift : Int, mark : {"none", "divided", "torn"}]
      BY <2>1 DEF CellSet
    <3> QED BY <1>2, <3>1 DEF CellWithout
  <2>3. c.seqs \ S # {} /\ c.seqs \ S \in SUBSET Seqs
    BY <1>2, CellFacts
  <2>4. CellWithout(c, S) \in CellSet
    <3>1. c.pos \in 0..MaxPos-1 /\ c.tok \in Toks /\ c.shift \in Int /\ c.mark \in {"none", "divided", "torn"}
      BY <2>1, FullCell
    <3>2. [pos |-> c.pos, seqs |-> c.seqs \ S, tok |-> c.tok, shift |-> c.shift, mark |-> c.mark] \in CellSet
      BY <2>3, <3>1 DEF CellSet
    <3> QED BY <2>2, <3>2
  <2>5. S \cap c.seqs = {} => CellWithout(c, S) = c
    <3>1. S \cap c.seqs = {} => c.seqs \ S = c.seqs
      OBVIOUS
    <3> QED BY <2>2, <3>1, CellFacts
  <2> QED
    BY <2>2, <2>3, <2>4, <2>5 DEF Within
<1> QED
  BY <1>1, <1>2

-----------------------------------------------------------------------------
(* The operations on sequences *)

Typed ==
  /\ conf \in Configs /\ cells \in Tables /\ heads \in [Streams -> 0..Size]
  /\ kdata \in Grid(DataSet) /\ copies \in Seq(Streams \X Streams)
  /\ ret \in {"edited", "running", "decoded", "no slot", "failed"}
  /\ whole \subseteq Seqs /\ calls \in 0..MaxCalls

\* The K data of a cell are of its token and rotated to its position.
Follows(c, k) == c.pos # -1 /\ c.mark = "none" => k.tok = c.tok /\ k.rope + c.shift = c.pos
Data == Copied(kdata, copies)

\* DataFollows, cell by cell.
LEMMA FollowsEach ==
  DataFollows <=> \A st \in Streams, i \in Idx : Follows(cells[st][i], Data[st][i])
  BY DEF DataFollows, Follows, Data

\* What is left of a cell agrees with the data the cell agreed with.
LEMMA FollowsWithin ==
  ASSUME NEW c \in CellSet, NEW d \in CellSet, NEW k, Within(c, d), Follows(d, k)
  PROVE  Follows(c, k)
<1>1. CASE c = EmptyCell
  BY <1>1 DEF Follows, EmptyCell
<1>2. CASE c # EmptyCell
  <2>1. c.pos = d.pos /\ c.tok = d.tok /\ c.shift = d.shift /\ c.mark = d.mark
    BY <1>2, WithinHas
  <2> QED BY <2>1 DEF Follows
<1> QED BY <1>1, <1>2

\* An empty cell has no data to agree with.
LEMMA EmptyFollows ==
  ASSUME NEW k
  PROVE  Follows(EmptyCell, k)
  BY DEF Follows, EmptyCell

\* A call of the interface that edits the metadata.
LEMMA CallTyped ==
  ASSUME Typed, Call, cells' \in Tables, heads' \in [Streams -> 0..Size], UNCHANGED kdata,
         copies' \in Seq(Streams \X Streams)
  PROVE  Typed' /\ todo' = <<>> /\ todo = <<>> /\ ret' = "edited"
<1>1. calls' \in 0..MaxCalls
  <2>1. calls \in 0..MaxCalls /\ calls < MaxCalls /\ calls' = calls + 1
    BY DEF Call, Typed
  <2>2. MaxCalls \in Nat
    BY BoundAssumption
  <2> QED BY <2>1, <2>2
<1> QED
  BY <1>1 DEF Call, Typed, Tables, Grid, Streams

\* The head stays in the ring.
LEMMA HeadAfterTyped ==
  ASSUME NEW h \in 0..Size, NEW old, NEW new
  PROVE  HeadAfter(h, old, new) \in 0..Size
<1>1. Used(old) \ Used(new) # {} => Min(Used(old) \ Used(new)) \in Idx
  <2> DEFINE U == Used(old) \ Used(new)
  <2>1. U \subseteq Idx /\ U \subseteq Nat
    BY IdxFacts DEF Used
  <2> HIDE DEF U
  <2>2. U # {} => Min(U) \in Idx
    BY <2>1, MinOfNat
  <2> QED BY <2>2 DEF U
<1>2. Idx \subseteq 0..Size
  BY IdxFacts DEF Idx
<1> QED
  BY <1>1, <1>2 DEF HeadAfter

\* Metadata that lose sequences of cells, over the same data.
LEMMA LosingFollows ==
  ASSUME Typed, Typed', DataFollows, AllWithin(cells', cells), UNCHANGED <<conf, kdata, copies>>
  PROVE  DataFollows'
<1>1. Data' = Data /\ Streams' = Streams
  BY DEF Data, Streams
<1>2. ASSUME NEW st \in Streams, NEW i \in Idx PROVE Follows(cells'[st][i], Data[st][i])
  <2>1. cells[st][i] \in CellSet /\ cells'[st][i] \in CellSet
    BY <1>1 DEF Typed, Tables, Grid
  <2>2. Follows(cells[st][i], Data[st][i]) /\ Within(cells'[st][i], cells[st][i])
    BY FollowsEach DEF AllWithin
  <2> QED BY <2>1, <2>2, FollowsWithin
<1>3. \A st \in Streams', i \in Idx' : Follows(cells'[st][i], Data'[st][i])
  BY <1>1, <1>2 DEF Idx
<1> QED
  BY <1>3 DEF DataFollows, Follows, Data

\* One row changes.
LEMMA RowChanges ==
  ASSUME NEW cs \in Tables, NEW st \in Streams, NEW row \in [Idx -> CellSet]
  PROVE  /\ [cs EXCEPT ![st] = row] \in Tables
         /\ \A i \in Idx : [cs EXCEPT ![st] = row][st][i] = row[i]
         /\ \A t \in Streams \ {st} : [cs EXCEPT ![st] = row][t] = cs[t]
         /\ (\A i \in Idx : Within(row[i], cs[st][i])) => AllWithin([cs EXCEPT ![st] = row], cs)
<1>1. \A t \in Streams, i \in Idx : cs[t][i] \in CellSet /\ Within(cs[t][i], cs[t][i])
  BY WithinSelf DEF Tables, Grid
<1>2. cs \in [Streams -> [Idx -> CellSet]]
  BY DEF Tables, Grid
<1> QED
  BY <1>1, <1>2 DEF Tables, Grid, AllWithin

\* seq_rm takes sequences and positions away, and no data.
LEMMA SeqRmFollows ==
  ASSUME Typed, DataFollows, NEW s \in Seqs, NEW p0, NEW p1, SeqRm(s, p0, p1)
  PROVE  Typed' /\ DataFollows'
<1> DEFINE st == conf.stream[s]
           row == Without(cells[st], s, p0, p1)
<1>1. st \in Streams
  BY StreamsFacts DEF Typed
<1>2. \A i \in Idx : cells[st][i] \in CellSet
  BY <1>1 DEF Typed, Tables, Grid
<1>3. row \in [Idx -> CellSet] /\ \A i \in Idx : Within(row[i], cells[st][i])
  BY <1>2, CellWithoutFacts, WithinSelf DEF Without
<1>4. /\ Call /\ UNCHANGED <<kdata, copies>> /\ cells' = [cells EXCEPT ![st] = row]
      /\ heads' = [heads EXCEPT ![st] = HeadAfter(heads[st], cells[st], row)]
  BY DEF SeqRm
<1> HIDE DEF st, row
<1>5. cells' \in Tables /\ AllWithin(cells', cells)
  BY <1>1, <1>3, <1>4, RowChanges DEF Typed
<1>6. heads' \in [Streams -> 0..Size]
  BY <1>1, <1>4, HeadAfterTyped DEF Typed
<1>7. Typed' /\ UNCHANGED <<conf, kdata, copies>>
  BY <1>4, <1>5, <1>6, CallTyped DEF Typed, Call
<1> QED
  BY <1>5, <1>7, LosingFollows

\* seq_rm of every sequence.
LEMMA AnyRmFollows ==
  ASSUME Typed, DataFollows, NEW p0, NEW p1, AnyRm(p0, p1)
  PROVE  Typed' /\ DataFollows'
<1> DEFINE rows == [st \in Streams |-> [i \in Idx |->
                      IF cells[st][i].pos \in p0..p1-1 THEN EmptyCell ELSE cells[st][i]]]
<1>2. \A st \in Streams, i \in Idx : cells[st][i] \in CellSet
  BY DEF Typed, Tables, Grid
<1>3. rows \in Tables /\ AllWithin(rows, cells)
  BY <1>2, EmptyIsCell, WithinSelf DEF Tables, Grid, AllWithin, Within
<1>4. /\ Call /\ UNCHANGED <<kdata, copies>> /\ cells' = rows
      /\ heads' = [st \in Streams |-> HeadAfter(heads[st], cells[st], rows[st])]
  BY DEF AnyRm
<1> HIDE DEF rows
<1>6. heads' \in [Streams -> 0..Size]
  BY <1>4, HeadAfterTyped DEF Typed
<1>7. Typed' /\ UNCHANGED <<conf, kdata, copies>>
  BY <1>3, <1>4, <1>6, CallTyped DEF Typed, Call
<1> QED
  BY <1>3, <1>4, <1>7, LosingFollows

\* clear empties the cells of every stream.
LEMMA ClearFollows ==
  ASSUME Typed, DataFollows, Clear
  PROVE  Typed' /\ DataFollows'
<1>1. cells' \in Tables /\ heads' \in [Streams -> 0..Size]
  BY EmptyIsCell, IdxFacts DEF Clear, Tables, Grid
<1>2. AllWithin(cells', cells)
  BY DEF Clear, AllWithin, Within
<1>3. Call /\ UNCHANGED <<kdata, copies>>
  BY DEF Clear
<1>4. Typed' /\ UNCHANGED <<conf, kdata, copies>>
  BY <1>1, <1>3, CallTyped DEF Typed, Call
<1> QED
  BY <1>2, <1>4, LosingFollows

\* seq_keep takes the other sequences away.
LEMMA SeqKeepFollows ==
  ASSUME Typed, DataFollows, NEW s \in Seqs, SeqKeep(s)
  PROVE  Typed' /\ DataFollows'
<1> DEFINE st == conf.stream[s]
           row == [i \in Idx |-> IF s \in cells[st][i].seqs
                                 THEN [cells[st][i] EXCEPT !.seqs = {s}] ELSE EmptyCell]
<1>1. st \in Streams
  BY StreamsFacts DEF Typed
<1>2. \A i \in Idx : cells[st][i] \in CellSet
  BY <1>1 DEF Typed, Tables, Grid
<1>3. ASSUME NEW i \in Idx, s \in cells[st][i].seqs
      PROVE  [cells[st][i] EXCEPT !.seqs = {s}] \in CellSet /\ Within([cells[st][i] EXCEPT !.seqs = {s}], cells[st][i])
  <2> DEFINE c == cells[st][i]
  <2>1. c \in [pos : 0..MaxPos-1, seqs : (SUBSET Seqs) \ {{}}, tok : Toks,
               shift : Int, mark : {"none", "divided", "torn"}]
    BY <1>2, <1>3 DEF CellSet, EmptyCell
  <2> HIDE DEF c
  <2> QED BY <1>3, <2>1 DEF CellSet, Within, c
<1>4. row \in [Idx -> CellSet] /\ \A i \in Idx : Within(row[i], cells[st][i])
  BY <1>3, EmptyIsCell DEF Within
<1>5. /\ Call /\ UNCHANGED <<kdata, copies>> /\ cells' = [cells EXCEPT ![st] = row]
      /\ heads' = [heads EXCEPT ![st] = HeadAfter(heads[st], cells[st], row)]
  BY DEF SeqKeep
<1> HIDE DEF st, row
<1>6. cells' \in Tables /\ AllWithin(cells', cells)
  BY <1>1, <1>4, <1>5, RowChanges DEF Typed
<1>7. heads' \in [Streams -> 0..Size]
  BY <1>1, <1>5, HeadAfterTyped DEF Typed
<1>8. Typed' /\ UNCHANGED <<conf, kdata, copies>>
  BY <1>5, <1>6, <1>7, CallTyped DEF Typed, Call
<1> QED
  BY <1>6, <1>8, LosingFollows

\* Metadata of which one row changes, over the same data.
LEMMA RowFollows ==
  ASSUME DataFollows, UNCHANGED <<conf, kdata, copies>>, NEW st \in Streams,
         \A i \in Idx : Follows(cells'[st][i], Data[st][i]), \A t \in Streams \ {st} : cells'[t] = cells[t]
  PROVE  DataFollows'
<1>1. Data' = Data /\ Streams' = Streams /\ Idx' = Idx
  BY DEF Data, Streams, Idx
<1>2. ASSUME NEW t \in Streams, NEW i \in Idx PROVE Follows(cells'[t][i], Data[t][i])
  <2>1. CASE t = st
    BY <2>1
  <2>2. CASE t # st
    BY <2>2, FollowsEach
  <2> QED BY <2>1, <2>2
<1>3. \A t \in Streams', i \in Idx' : Follows(cells'[t][i], Data'[t][i])
  BY <1>1, <1>2
<1> QED
  BY <1>3 DEF DataFollows, Follows, Data

\* The data an update would leave.
LEMMA DataTyped ==
  ASSUME Typed
  PROVE  Data \in Grid(DataSet)
<1> DEFINE S == Streams
           R == [Idx -> DataSet]
<1>1. kdata \in [S -> R] /\ copies \in Seq(S \X S) /\ 0 \in S
  BY StreamsFacts DEF Typed, Grid
<1> HIDE DEF S, R
<1>2. Copied(kdata, copies) \in [S -> R]
  BY <1>1, CopiedOneMore DEF GoesOn
<1> QED
  BY <1>2 DEF S, R, Data, Grid

\* seq_cp in one stream adds a sequence to cells that stay what they are.
LEMMA SeqCpSharedFollows ==
  ASSUME Typed, DataFollows, NEW src \in Seqs, NEW dst \in Seqs, NEW p1, SeqCpShared(src, dst, p1)
  PROVE  Typed' /\ DataFollows'
<1> DEFINE st == conf.stream[src]
           hit(c) == src \in c.seqs /\ c.pos < p1
           row == [i \in Idx |-> IF hit(cells[st][i]) THEN With(cells[st][i], dst)
                                 ELSE cells[st][i]]
<1>1. st \in Streams
  BY StreamsFacts DEF Typed
<1>2. \A i \in Idx : cells[st][i] \in CellSet
  BY <1>1 DEF Typed, Tables, Grid
<1>3. ASSUME NEW i \in Idx, src \in cells[st][i].seqs, NEW k, Follows(cells[st][i], k)
      PROVE  /\ With(cells[st][i], dst) \in CellSet
             /\ Follows(With(cells[st][i], dst), k)
  <2> DEFINE c == cells[st][i]
  <2>1. c \in [pos : 0..MaxPos-1, seqs : (SUBSET Seqs) \ {{}}, tok : Toks,
               shift : Int, mark : {"none", "divided", "torn"}]
    BY <1>2, <1>3 DEF CellSet, EmptyCell
  <2>2. Follows(c, k)
    BY <1>3
  <2> HIDE DEF c
  <2>3. With(c, dst) \in CellSet
    BY <2>1 DEF CellSet, With
  <2>4. Follows(With(c, dst), k)
    BY <2>1, <2>2 DEF Follows, With
  <2> QED BY <2>3, <2>4 DEF c
<1>4. \A i \in Idx : Follows(cells[st][i], Data[st][i])
  BY <1>1, FollowsEach
<1>5. row \in [Idx -> CellSet] /\ \A i \in Idx : Follows(row[i], Data[st][i])
  BY <1>2, <1>3, <1>4
<1>6. /\ Call /\ UNCHANGED <<kdata, copies, heads>> /\ cells' = [cells EXCEPT ![st] = row]
  <2>3. cells' = [cells EXCEPT ![st] = row]
    BY DEF SeqCpShared
  <2> QED BY <2>3 DEF SeqCpShared
<1> HIDE DEF st, row
<1>7. /\ cells' \in Tables /\ \A i \in Idx : cells'[st][i] = row[i]
      /\ \A t \in Streams \ {st} : cells'[t] = cells[t]
  <2>1. cells \in [Streams -> [Idx -> CellSet]] /\ row \in [Idx -> CellSet]
    BY <1>5 DEF Typed, Tables, Grid
  <2> QED BY <1>1, <1>6, <2>1 DEF Tables, Grid
<1>8. Typed' /\ UNCHANGED <<conf, kdata, copies>>
  BY <1>6, <1>7, CallTyped DEF Typed, Call
<1>9. \A i \in Idx : Follows(cells'[st][i], Data[st][i])
  BY <1>5, <1>7
<1> QED
  BY <1>1, <1>7, <1>8, <1>9, RowFollows

\* seq_div marks the cells it divides: their shift is no longer that of one token.
LEMMA SeqDivFollows ==
  ASSUME Typed, DataFollows, NEW s \in Seqs, NEW p0, NEW p1, SeqDiv(s, p0, p1, 2)
  PROVE  Typed' /\ DataFollows'
<1> DEFINE st == conf.stream[s]
           row == [i \in Idx |-> IF s \in cells[st][i].seqs /\ cells[st][i].pos \in p0..p1-1
                                 THEN Divided(cells[st][i], 2) ELSE cells[st][i]]
<1>1. st \in Streams
  BY StreamsFacts DEF Typed
<1>2. \A i \in Idx : cells[st][i] \in CellSet
  BY <1>1 DEF Typed, Tables, Grid
<1>3. ASSUME NEW i \in Idx, s \in cells[st][i].seqs, NEW k, Follows(cells[st][i], k)
      PROVE  Divided(cells[st][i], 2) \in CellSet /\ Follows(Divided(cells[st][i], 2), k)
  <2> DEFINE c == cells[st][i]
  <2>1. c \in [pos : 0..MaxPos-1, seqs : (SUBSET Seqs) \ {{}}, tok : Toks,
               shift : Int, mark : {"none", "divided", "torn"}]
    BY <1>2, <1>3 DEF CellSet, EmptyCell
  <2>2. Follows(c, k)
    BY <1>3
  <2> HIDE DEF c
  <2>3. /\ c.pos \in 0..MaxPos-1 /\ c.shift \in Int /\ c.seqs \in (SUBSET Seqs) \ {{}} /\ c.tok \in Toks
        /\ c.mark \in {"none", "divided", "torn"}
    BY <2>1
  <2>4. MaxPos \in Nat
    BY BoundAssumption
  <2>5. c.pos \div 2 \in 0..MaxPos-1 /\ c.shift + (c.pos - c.pos \div 2) \in Int
    BY <2>3, <2>4
  <2>6. Divided(c, 2) = [pos |-> c.pos \div 2, seqs |-> c.seqs, tok |-> c.tok,
                         shift |-> c.shift + (c.pos - c.pos \div 2),
                         mark |-> IF c.pos = c.pos \div 2 THEN c.mark ELSE "divided"]
    <3> DEFINE h == c.pos \div 2
    <3>1. Divided(c, 2) = [c EXCEPT !.pos = h, !.shift = c.shift + (c.pos - h),
                           !.mark = IF c.pos = h THEN c.mark ELSE "divided"]
      BY <2>1 DEF Divided
    <3> HIDE DEF h
    <3>2. Divided(c, 2) = [pos |-> h, seqs |-> c.seqs, tok |-> c.tok, shift |-> c.shift + (c.pos - h),
                           mark |-> IF c.pos = h THEN c.mark ELSE "divided"]
      BY <2>1, <3>1
    <3> QED BY <3>2 DEF h
  <2>7. Divided(c, 2) \in CellSet
    <3> DEFINE h == c.pos \div 2
               g == c.shift + (c.pos - c.pos \div 2)
               m == IF c.pos = c.pos \div 2 THEN c.mark ELSE "divided"
    <3>1. h \in 0..MaxPos-1 /\ g \in Int /\ m \in {"none", "divided", "torn"}
      BY <2>3, <2>5
    <3>2. Divided(c, 2) = [pos |-> h, seqs |-> c.seqs, tok |-> c.tok, shift |-> g, mark |-> m]
      BY <2>6
    <3> HIDE DEF h, g, m
    <3> QED BY <2>3, <3>1, <3>2 DEF CellSet
  <2>8. Follows(Divided(c, 2), k)
    <3>1. CASE c.pos = c.pos \div 2
      <4>1. Divided(c, 2).pos = c.pos /\ Divided(c, 2).mark = c.mark /\ Divided(c, 2).tok = c.tok
        BY <2>6, <3>1
      <4>2. Divided(c, 2).shift = c.shift
        <5>1. Divided(c, 2).shift = c.shift + (c.pos - c.pos)
          BY <2>6, <3>1
        <5> QED BY <5>1, <2>3
      <4> QED BY <2>2, <4>1, <4>2 DEF Follows
    <3>2. CASE c.pos # c.pos \div 2
      BY <2>6, <3>2 DEF Follows
    <3> QED BY <3>1, <3>2
  <2> QED BY <2>7, <2>8 DEF c
<1>4. \A i \in Idx : Follows(cells[st][i], Data[st][i])
  BY <1>1, FollowsEach
<1>5. row \in [Idx -> CellSet] /\ \A i \in Idx : Follows(row[i], Data[st][i])
  BY <1>2, <1>3, <1>4
<1>6. /\ Call /\ UNCHANGED <<kdata, copies, heads>> /\ cells' = [cells EXCEPT ![st] = row]
  <2>1. cells' = [cells EXCEPT ![st] = [i \in Idx |->
                    IF s \in @[i].seqs /\ @[i].pos \in p0..p1-1 THEN Divided(@[i], 2) ELSE @[i]]]
    BY DEF SeqDiv
  <2>2. cells \in [Streams -> [Idx -> CellSet]]
    BY DEF Typed, Tables, Grid
  <2>3. cells' = [cells EXCEPT ![st] = row]
    BY <1>1, <2>1, <2>2
  <2> QED BY <2>3 DEF SeqDiv
<1> HIDE DEF st, row
<1>7. /\ cells' \in Tables /\ \A i \in Idx : cells'[st][i] = row[i]
      /\ \A t \in Streams \ {st} : cells'[t] = cells[t]
  <2>1. cells \in [Streams -> [Idx -> CellSet]] /\ row \in [Idx -> CellSet]
    BY <1>5 DEF Typed, Tables, Grid
  <2> QED BY <1>1, <1>6, <2>1 DEF Tables, Grid
<1>8. Typed' /\ UNCHANGED <<conf, kdata, copies>>
  BY <1>6, <1>7, CallTyped DEF Typed, Call
<1>9. \A i \in Idx : Follows(cells'[st][i], Data[st][i])
  BY <1>5, <1>7
<1> QED
  BY <1>1, <1>7, <1>8, <1>9, RowFollows

\* seq_add moves a cell and its pending shift by the same distance.
LEMMA SeqAddFollows ==
  ASSUME Typed, DataFollows, NEW s \in Seqs, NEW p0, NEW p1, NEW d \in Deltas, SeqAdd(s, p0, p1, d)
  PROVE  Typed' /\ DataFollows'
<1> DEFINE st == conf.stream[s]
           row == [i \in Idx |-> IF s \in cells[st][i].seqs /\ cells[st][i].pos \in p0..p1-1
                                 THEN Moved(cells[st][i], d) ELSE cells[st][i]]
           freed == Used(cells[st]) \ Used(row)
<1>1. st \in Streams
  BY StreamsFacts DEF Typed
<1>2. \A i \in Idx : cells[st][i] \in CellSet
  BY <1>1 DEF Typed, Tables, Grid
<1>3. ASSUME NEW i \in Idx, s \in cells[st][i].seqs, NEW k, k.rope \in Int, Follows(cells[st][i], k),
             Moved(cells[st][i], d).pos < MaxPos
      PROVE  Moved(cells[st][i], d) \in CellSet /\ Follows(Moved(cells[st][i], d), k)
  <2> DEFINE c == cells[st][i]
  <2>1. c \in [pos : 0..MaxPos-1, seqs : (SUBSET Seqs) \ {{}}, tok : Toks,
               shift : Int, mark : {"none", "divided", "torn"}]
    BY <1>2, <1>3 DEF CellSet, EmptyCell
  <2>2. Follows(c, k) /\ Moved(c, d).pos < MaxPos /\ k.rope \in Int
    BY <1>3
  <2> HIDE DEF c
  <2>3. /\ c.pos \in 0..MaxPos-1 /\ c.shift \in Int /\ c.seqs \in (SUBSET Seqs) \ {{}} /\ c.tok \in Toks
        /\ c.mark \in {"none", "divided", "torn"}
    BY <2>1
  <2>4. MaxPos \in Nat /\ d \in Int
    BY BoundAssumption, InputAssumption
  <2>5. CASE c.pos + d < 0
    <3>1. Moved(c, d) = EmptyCell
      BY <2>5 DEF Moved
    <3> QED BY <3>1, EmptyIsCell, EmptyFollows DEF c
  <2>6. CASE ~(c.pos + d < 0)
    <3>1. Moved(c, d) = [pos |-> c.pos + d, seqs |-> c.seqs, tok |-> c.tok, shift |-> c.shift + d,
                         mark |-> c.mark]
      BY <2>1, <2>6 DEF Moved
    <3>2. c.pos + d \in 0..MaxPos-1 /\ c.shift + d \in Int
      <4>1. c.pos + d < MaxPos
        BY <2>2, <3>1
      <4> QED BY <2>3, <2>4, <2>6, <4>1
    <3>3. Moved(c, d) \in CellSet
      BY <2>3, <3>1, <3>2 DEF CellSet
    <3>4. ASSUME c.pos # -1, c.mark = "none", k.rope + c.shift = c.pos
          PROVE  k.rope + (c.shift + d) = c.pos + d
      BY <2>2, <2>3, <2>4, <3>4
    <3>5. Follows(Moved(c, d), k)
      BY <2>2, <2>3, <3>1, <3>4 DEF Follows
    <3> QED BY <3>3, <3>5 DEF c
  <2> QED BY <2>5, <2>6
<1>4. \A i \in Idx : Follows(cells[st][i], Data[st][i]) /\ Data[st][i].rope \in Int
  BY <1>1, FollowsEach, DataTyped DEF Grid, DataSet
<1>5. row \in [Idx -> CellSet] /\ \A i \in Idx : Follows(row[i], Data[st][i])
  <2>1. \A i \in Idx : row[i].pos < MaxPos
    BY DEF SeqAdd
  <2> QED BY <1>2, <1>3, <1>4, <2>1
<1>6. /\ Call /\ UNCHANGED <<kdata, copies>> /\ cells' = [cells EXCEPT ![st] = row]
      /\ heads' = [heads EXCEPT ![st] = IF freed # {} THEN Min(freed) ELSE 0]
  BY DEF SeqAdd
<1>7. freed \subseteq Idx /\ (freed # {} => Min(freed) \in 0..Size) /\ 0 \in 0..Size
  <2>1. freed \subseteq Idx /\ Idx \subseteq Nat /\ Idx \subseteq 0..Size /\ 0 \in 0..Size
    BY IdxFacts DEF Used
  <2> HIDE DEF freed
  <2> QED BY <2>1, MinOfNat
<1> HIDE DEF st, row, freed
<1>8. /\ cells' \in Tables /\ \A i \in Idx : cells'[st][i] = row[i]
      /\ \A t \in Streams \ {st} : cells'[t] = cells[t]
  <2>1. cells \in [Streams -> [Idx -> CellSet]] /\ row \in [Idx -> CellSet]
    BY <1>5 DEF Typed, Tables, Grid
  <2> QED BY <1>1, <1>6, <2>1 DEF Tables, Grid
<1>9. heads' \in [Streams -> 0..Size]
  BY <1>1, <1>6, <1>7 DEF Typed
<1>10. Typed' /\ UNCHANGED <<conf, kdata, copies>>
  BY <1>6, <1>8, <1>9, CallTyped DEF Typed, Call
<1>11. \A i \in Idx : Follows(cells'[st][i], Data[st][i])
  BY <1>5, <1>8
<1> QED
  BY <1>1, <1>8, <1>10, <1>11, RowFollows

\* Between streams the metadata and the data that are to follow are those of the source.
LEMMA SeqCpStreamFollows ==
  ASSUME Typed, DataFollows, NEW src \in Seqs, NEW dst \in Seqs, SeqCpStream(src, dst)
  PROVE  Typed' /\ DataFollows'
<1> DEFINE st == conf.stream[src]
           dt == conf.stream[dst]
           row == [i \in Idx |-> IF src \in cells[st][i].seqs THEN [cells[st][i] EXCEPT !.seqs = {dst}]
                                 ELSE EmptyCell]
<1>1. st \in Streams /\ dt \in Streams
  BY StreamsFacts DEF Typed
<1>2. \A i \in Idx : cells[st][i] \in CellSet
  BY <1>1 DEF Typed, Tables, Grid
<1>3. ASSUME NEW i \in Idx, src \in cells[st][i].seqs, NEW k, Follows(cells[st][i], k)
      PROVE  /\ [cells[st][i] EXCEPT !.seqs = {dst}] \in CellSet
             /\ Follows([cells[st][i] EXCEPT !.seqs = {dst}], k)
  <2> DEFINE c == cells[st][i]
  <2>1. c \in [pos : 0..MaxPos-1, seqs : (SUBSET Seqs) \ {{}}, tok : Toks,
               shift : Int, mark : {"none", "divided", "torn"}]
    BY <1>2, <1>3 DEF CellSet, EmptyCell
  <2>2. Follows(c, k)
    BY <1>3
  <2> HIDE DEF c
  <2>3. [c EXCEPT !.seqs = {dst}] \in CellSet
    BY <2>1 DEF CellSet
  <2>4. Follows([c EXCEPT !.seqs = {dst}], k)
    BY <2>1, <2>2 DEF Follows
  <2> QED BY <2>3, <2>4 DEF c
<1>4. \A i \in Idx : Follows(cells[st][i], Data[st][i])
  BY <1>1, FollowsEach
<1>5. row \in [Idx -> CellSet] /\ \A i \in Idx : Follows(row[i], Data[st][i])
  BY <1>2, <1>3, <1>4, EmptyIsCell, EmptyFollows
<1>6. /\ Call /\ kdata' = kdata /\ cells' = [cells EXCEPT ![dt] = row]
      /\ heads' = [heads EXCEPT ![dt] = heads[st]] /\ copies' = Append(copies, <<st, dt>>)
  BY DEF SeqCpStream
<1> HIDE DEF st, dt, row
<1>7. /\ cells' \in Tables /\ \A i \in Idx : cells'[dt][i] = row[i]
      /\ \A t \in Streams \ {dt} : cells'[t] = cells[t]
  <2>1. cells \in [Streams -> [Idx -> CellSet]] /\ row \in [Idx -> CellSet]
    BY <1>5 DEF Typed, Tables, Grid
  <2> QED BY <1>1, <1>6, <2>1 DEF Tables, Grid
<1>8. heads' \in [Streams -> 0..Size] /\ copies' \in Seq(Streams \X Streams)
  <2>1. copies \in Seq(Streams \X Streams) /\ <<st, dt>> \in Streams \X Streams
    BY <1>1 DEF Typed
  <2>2. copies' \in Seq(Streams \X Streams)
    BY <1>6, <2>1
  <2> QED BY <1>1, <1>6, <2>2 DEF Typed
<1>9. Typed' /\ conf' = conf
  <2>1. Call /\ UNCHANGED kdata
    BY <1>6
  <2> QED BY <1>7, <1>8, <2>1, CallTyped DEF Call
<1>10. Data' = [Data EXCEPT ![dt] = Data[st]] /\ Data \in [Streams -> [Idx -> DataSet]]
  <2> DEFINE S == Streams
             R == [Idx -> DataSet]
  <2>1. kdata \in [S -> R] /\ copies \in Seq(S \X S) /\ st \in S /\ dt \in S
    BY <1>1 DEF Typed, Grid
  <2> HIDE DEF S, R
  <2>2. /\ Copied(kdata, copies) \in [S -> R]
        /\ Copied(kdata, Append(copies, <<st, dt>>)) = CopyStep(Copied(kdata, copies), <<st, dt>>)
    <3>1. GoesOn(S, R, kdata, copies, st, dt)
      BY <2>1, CopiedOneMore
    <3> QED BY <3>1 DEF GoesOn
  <2>3. Data' = Copied(kdata, Append(copies, <<st, dt>>))
    BY <1>6 DEF Data
  <2> QED BY <2>2, <2>3 DEF S, R, Data, CopyStep
<1>11. Streams' = Streams /\ Idx' = Idx
  BY <1>9 DEF Streams, Idx
<1>12. ASSUME NEW t \in Streams, NEW i \in Idx PROVE Follows(cells'[t][i], Data'[t][i])
  <2>1. CASE t = dt
    <3>1. Data'[t] = Data[st] /\ cells'[t][i] = row[i]
      BY <1>1, <1>7, <1>10, <2>1
    <3> QED BY <1>5, <3>1
  <2>2. CASE t # dt
    <3>1. Data'[t] = Data[t] /\ cells'[t] = cells[t]
      BY <1>1, <1>7, <1>10, <2>2
    <3> QED BY <3>1, FollowsEach
  <2> QED BY <2>1, <2>2
<1>13. \A t \in Streams', i \in Idx' : Follows(cells'[t][i], Data'[t][i])
  BY <1>11, <1>12
<1> QED
  BY <1>9, <1>13 DEF DataFollows, Follows, Data

-----------------------------------------------------------------------------
(* An ubatch and its slot *)

Tokens == [seqs : (SUBSET Seqs) \ {{}}, tok : Toks, pos : 0..MaxPos-1]
\* The parts of an ubatch are of different streams, and its tokens of sequences there.
PartOK(parts, k) ==
  /\ parts[k].strm \in Streams /\ k - 1 \in Streams /\ parts[k].toks \in Seq(Tokens)
  /\ \A j \in DOMAIN parts[k].toks : \A s \in parts[k].toks[j].seqs : conf.stream[s] = parts[k].strm
Ubatch(parts) ==
  /\ \A k \in DOMAIN parts : PartOK(parts, k)
  /\ \A j, k \in DOMAIN parts : parts[j].strm = parts[k].strm => j = k
\* A cell of its own for every token.
IdxsOK(toks, idxs) ==
  /\ idxs \in [DOMAIN toks -> Idx] /\ toks # <<>>
  /\ \A i, j \in DOMAIN toks : idxs[i] = idxs[j] => i = j
SlotOK(parts, slot) ==
  DOMAIN slot = DOMAIN parts /\ \A k \in DOMAIN parts : IdxsOK(parts[k].toks, slot[k])
Usable(cs, parts, slot) ==
  \A st \in Streams, i \in Idx : Taken(parts, slot, st, i) => CanUse(cs, cs[st][i])

\* The token that a taken cell is for, and the cell it becomes.
TokenAt(parts, slot, st, i) ==
  LET k == PartOf(parts, st)
  IN parts[k].toks[CHOOSE j \in DOMAIN slot[k] : slot[k][j] = i]
CellPut(cs, parts, slot, st, i) ==
  IF Taken(parts, slot, st, i) THEN NewCell(TokenAt(parts, slot, st, i)) ELSE cs[st][i]
\* Sequence s loses a cell of the stream at position p or above.
Loses(cs, parts, slot, st, s, p) ==
  \E y \in Idx : Taken(parts, slot, st, y) /\ s \in cs[st][y].seqs /\ p <= cs[st][y].pos

\* An ubatch has one part in each stream.
LEMMA PartFacts ==
  ASSUME NEW parts, Ubatch(parts)
  PROVE  /\ \A k \in DOMAIN parts : Parted(parts, parts[k].strm) /\ PartOf(parts, parts[k].strm) = k
         /\ \A st : Parted(parts, st) => /\ PartOf(parts, st) \in DOMAIN parts
                                         /\ parts[PartOf(parts, st)].strm = st
<1>1. \A st : Parted(parts, st) => /\ PartOf(parts, st) \in DOMAIN parts
                                   /\ parts[PartOf(parts, st)].strm = st
  BY DEF Parted, PartOf
<1>2. \A k \in DOMAIN parts : Parted(parts, parts[k].strm)
  BY DEF Parted
<1> QED
  BY <1>1, <1>2 DEF Ubatch

\* A taken cell has a token of the part in its stream.
LEMMA TakenFacts ==
  ASSUME NEW parts, NEW slot, Ubatch(parts), SlotOK(parts, slot), NEW st, NEW i, Taken(parts, slot, st, i)
  PROVE  /\ i \in Idx /\ st \in Streams
         /\ TokenAt(parts, slot, st, i) \in Tokens /\ TokenAt(parts, slot, st, i) \in TokensOf(parts)
         /\ \A s \in TokenAt(parts, slot, st, i).seqs : conf.stream[s] = st
<1> DEFINE k == PartOf(parts, st)
           T == parts[k].toks
           I == slot[k]
           j == CHOOSE n \in DOMAIN I : I[n] = i
<1>1. k \in DOMAIN parts /\ parts[k].strm = st /\ i \in ToSet(I)
  BY PartFacts DEF Taken
<1>2. IdxsOK(T, I) /\ PartOK(parts, k)
  BY <1>1 DEF SlotOK, Ubatch
<1>3. j \in DOMAIN I /\ I[j] = i
  <2>1. \E n \in DOMAIN I : I[n] = i
    BY <1>1 DEF ToSet
  <2> HIDE DEF I
  <2> QED BY <2>1
<1>4. TokenAt(parts, slot, st, i) = T[j]
  BY DEF TokenAt
<1>5. T \in Seq(Tokens) /\ \A n \in DOMAIN T : \A s \in T[n].seqs : conf.stream[s] = st
  BY <1>1, <1>2 DEF PartOK
<1>6. st \in Streams
  BY <1>1, <1>2 DEF PartOK
<1>7. T[j] \in TokensOf(parts)
  <2>1. j \in DOMAIN T
    BY <1>2, <1>3 DEF IdxsOK
  <2>2. T[j] \in ToSet(T)
    BY <2>1 DEF ToSet
  <2> QED BY <1>1, <2>2 DEF TokensOf
<1> HIDE DEF T, I, j, k
<1>8. j \in DOMAIN T /\ I[j] \in Idx
  BY <1>2, <1>3 DEF IdxsOK
<1> QED
  BY <1>3, <1>4, <1>5, <1>6, <1>7, <1>8

\* Every token has a cell, which is for it.
LEMMA TokenTakes ==
  ASSUME NEW parts, NEW slot, Ubatch(parts), SlotOK(parts, slot), NEW t \in TokensOf(parts)
  PROVE  \E st \in Streams, i \in Idx : Taken(parts, slot, st, i) /\ TokenAt(parts, slot, st, i) = t
<1>1. PICK k \in DOMAIN parts : t \in ToSet(parts[k].toks)
  BY DEF TokensOf
<1>2. PICK j \in DOMAIN parts[k].toks : parts[k].toks[j] = t
  BY <1>1 DEF ToSet
<1> DEFINE st == parts[k].strm
           i == slot[k][j]
           I == slot[k]
<1>3. IdxsOK(parts[k].toks, I) /\ PartOK(parts, k)
  BY DEF SlotOK, Ubatch
<1>4. Parted(parts, st) /\ PartOf(parts, st) = k
  BY PartFacts
<1>5. j \in DOMAIN I /\ i \in Idx /\ st \in Streams
  BY <1>3 DEF IdxsOK, PartOK
<1>6. i \in ToSet(I)
  BY <1>5 DEF ToSet
<1>7. Taken(parts, slot, st, i)
  BY <1>4, <1>6 DEF Taken
<1>8. (CHOOSE n \in DOMAIN I : I[n] = i) = j
  <2>1. \A n \in DOMAIN I : I[n] = I[j] => n = j
    BY <1>3, <1>5 DEF IdxsOK
  <2> HIDE DEF I
  <2> QED BY <1>5, <2>1 DEF I
<1>9. TokenAt(parts, slot, st, i) = t
  <2>1. TokenAt(parts, slot, st, i) = parts[k].toks[CHOOSE n \in DOMAIN I : I[n] = i]
    BY <1>4 DEF TokenAt
  <2> HIDE DEF I
  <2> QED BY <1>2, <1>8, <2>1
<1> QED
  BY <1>5, <1>7, <1>9

\* The cell of a token.
LEMMA NewCellFacts ==
  ASSUME NEW t \in Tokens
  PROVE  /\ NewCell(t) \in CellSet /\ NewCell(t).pos = t.pos /\ NewCell(t).seqs = t.seqs
         /\ NewCell(t).tok = t.tok /\ NewCell(t).shift = 0 /\ NewCell(t).mark = "none"
<1>1. t.pos \in 0..MaxPos-1 /\ t.seqs \in (SUBSET Seqs) \ {{}} /\ t.tok \in Toks
  BY DEF Tokens
<1>2. 0 \in Int /\ "none" \in {"none", "divided", "torn"}
  OBVIOUS
<1>3. NewCell(t) \in CellSet
  BY <1>1, <1>2 DEF NewCell, CellSet
<1> QED
  BY <1>3 DEF NewCell

\* A slot's cells are put and purged: a sequence stays in a cell unless it loses one at the
\* cell's position or above.
LEMMA AfterFacts ==
  ASSUME NEW cs \in Tables, NEW parts, NEW slot, Ubatch(parts), SlotOK(parts, slot),
         NEW st \in Streams, NEW i \in Idx
  PROVE  /\ CellPut(cs, parts, slot, st, i) \in CellSet
         /\ CellsAfter(cs, parts, slot)[st][i] \in CellSet
         /\ Within(CellsAfter(cs, parts, slot)[st][i], CellPut(cs, parts, slot, st, i))
         /\ CellsAfter(cs, parts, slot)[st][i].seqs =
              {s \in CellPut(cs, parts, slot, st, i).seqs :
                 ~ Loses(cs, parts, slot, st, s, CellPut(cs, parts, slot, st, i).pos)}
<1> DEFINE b == CellPut(cs, parts, slot, st, i)
           r == CellsAfter(cs, parts, slot)[st][i]
           k == PartOf(parts, st)
<1>1. \A y \in Idx : cs[st][y] \in CellSet
  BY DEF Tables, Grid
<1>2. b \in CellSet
  BY <1>1, TakenFacts, NewCellFacts DEF CellPut
<1>3. CASE ~ Parted(parts, st)
  <2>1. b = cs[st][i] /\ r = cs[st][i]
    BY <1>3 DEF CellPut, Taken, CellsAfter
  <2>2. \A s, p : ~ Loses(cs, parts, slot, st, s, p)
    BY <1>3 DEF Loses, Taken
  <2>3. Within(r, b)
    BY <1>2, <2>1, WithinSelf
  <2> HIDE DEF b, r
  <2>4. r.seqs = {s \in b.seqs : ~ Loses(cs, parts, slot, st, s, b.pos)}
    BY <2>1, <2>2
  <2> QED BY <1>2, <2>1, <2>3, <2>4 DEF b, r
<1>4. CASE Parted(parts, st)
  <2> DEFINE I == slot[k]
             row == Put(cs[st], I, parts[k].toks)
             G == Gone(b, cs[st], I)
  <2>1. r = Purge(row, cs[st], I)[i]
    BY <1>4 DEF CellsAfter
  <2>2. \A y \in Idx : Taken(parts, slot, st, y) <=> y \in ToSet(I)
    BY <1>4 DEF Taken
  <2>3. row[i] = b
    <3>1. CASE i \in ToSet(I)
      <4>1. Taken(parts, slot, st, i)
        BY <2>2, <3>1
      <4>2. TokenAt(parts, slot, st, i) \in Tokens
        BY <4>1, TakenFacts
      <4>4. row[i] = NewCell(TokenAt(parts, slot, st, i))
        BY <3>1 DEF Put, TokenAt
      <4>5. b = NewCell(TokenAt(parts, slot, st, i))
        BY <4>1 DEF CellPut
      <4> QED BY <4>4, <4>5
    <3>2. CASE i \notin ToSet(I)
      BY <2>2, <3>2 DEF Put, CellPut
    <3> QED BY <3>1, <3>2
  <2>4. r = IF G = {} THEN b ELSE CellWithout(b, G)
    <3> HIDE DEF row, b
    <3>1. r = IF Gone(row[i], cs[st], I) = {} THEN row[i] ELSE CellWithout(row[i], Gone(row[i], cs[st], I))
      BY <2>1 DEF Purge
    <3> QED BY <2>3, <3>1
  <2>5. G \subseteq b.seqs /\ \A s \in b.seqs : s \in G <=> Loses(cs, parts, slot, st, s, b.pos)
    <3>1. ASSUME NEW s \in b.seqs PROVE s \in G <=> Loses(cs, parts, slot, st, s, b.pos)
      <4>1. s \in G <=> \E p \in Lost(cs[st], I, s) : b.pos <= p
        <5> HIDE DEF b
        <5> QED BY <3>1 DEF Gone
      <4>2. \A y : y \in ToSet(I) => y \in Idx
        <5>1. \A y : y \in ToSet(I) => Taken(parts, slot, st, y)
          BY <1>4 DEF Taken
        <5> QED BY <5>1, TakenFacts
      <4>3. (\E p \in Lost(cs[st], I, s) : b.pos <= p) <=>
              \E y \in Idx : y \in ToSet(I) /\ s \in cs[st][y].seqs /\ b.pos <= cs[st][y].pos
        <5> HIDE DEF b, I
        <5> QED BY <4>2 DEF Lost
      <4>4. Loses(cs, parts, slot, st, s, b.pos) <=>
              \E y \in Idx : y \in ToSet(I) /\ s \in cs[st][y].seqs /\ b.pos <= cs[st][y].pos
        <5> HIDE DEF b, I
        <5> QED BY <2>2 DEF Loses
      <4> HIDE DEF b, I, G
      <4> QED BY <4>1, <4>3, <4>4
    <3>2. G \subseteq b.seqs
      <4> HIDE DEF b
      <4> QED BY DEF Gone
    <3> HIDE DEF b, G
    <3> QED BY <3>1, <3>2
  <2> HIDE DEF b, r, G
  <2>6. r \in CellSet /\ Within(r, b) /\ r.seqs = b.seqs \ G
    <3>1. CASE G = {}
      BY <1>2, <2>4, <3>1, WithinSelf
    <3>2. CASE G # {}
      BY <1>2, <2>4, <3>2, CellWithoutFacts
    <3> QED BY <3>1, <3>2
  <2>7. r.seqs = {s \in b.seqs : ~ Loses(cs, parts, slot, st, s, b.pos)}
    BY <2>5, <2>6
  <2> QED BY <1>2, <2>6, <2>7 DEF b, r
<1> QED
  BY <1>3, <1>4

\* apply_ubatch leaves cells.
LEMMA AfterTyped ==
  ASSUME NEW cs \in Tables, NEW parts, NEW slot, Ubatch(parts), SlotOK(parts, slot)
  PROVE  CellsAfter(cs, parts, slot) \in Tables
<1> DEFINE ds == CellsAfter(cs, parts, slot)
<1>1. \A st \in Streams, i \in Idx : ds[st][i] \in CellSet
  BY AfterFacts
<1>2. \A st \in Streams : cs[st] = [i \in Idx |-> cs[st][i]]
  BY DEF Tables, Grid
<1>3. \A st \in Streams : ds[st] = [i \in Idx |-> ds[st][i]]
  BY <1>2 DEF CellsAfter, Purge
<1>4. ds = [st \in Streams |-> ds[st]]
  BY DEF CellsAfter
<1> HIDE DEF ds
<1>5. \A st \in Streams : ds[st] \in [Idx -> CellSet]
  BY <1>1, <1>3
<1>6. ds \in Tables
  BY <1>4, <1>5 DEF Tables, Grid
<1> QED
  BY <1>6 DEF ds

\* The ring, without the modulus.
LEMMA Around ==
  ASSUME NEW N \in Nat \ {0}, NEW f \in 0..N, NEW x \in 0..N-1
  PROVE  (f + x) % N = IF f + x < N THEN f + x ELSE f + x - N
<1> DEFINE a == f + x
           q == a \div N
           r == a % N
<1>1. a \in Int /\ 0 <= a /\ a < 2 * N
  OBVIOUS
<1>2. q \in Int /\ r \in 0..N-1 /\ a = N * q + r
  OBVIOUS
<1> HIDE DEF a, q, r
<1>3. q = 0 \/ q = 1
  <2>1. ~ (q >= 2)
    <3> SUFFICES ASSUME q >= 2 PROVE FALSE
      OBVIOUS
    <3>1. N * q >= N * 2
      BY <1>2
    <3> QED BY <1>1, <1>2, <3>1
  <2>2. ~ (q <= -1)
    <3> SUFFICES ASSUME q <= -1 PROVE FALSE
      OBVIOUS
    <3>1. N * q <= N * (-1)
      BY <1>2
    <3> QED BY <1>1, <1>2, <3>1
  <2> QED BY <1>2, <2>1, <2>2
<1>4. r = IF a < N THEN a ELSE a - N
  <2>1. CASE q = 0
    <3>1. a = r
      BY <1>2, <2>1
    <3> QED BY <1>2, <3>1
  <2>2. CASE q = 1
    <3>1. a = N + r
      BY <1>2, <2>2
    <3> QED BY <1>2, <3>1
  <2> QED BY <1>3, <2>1, <2>2
<1> QED
  BY <1>4 DEF a, r

\* Different distances from the head are different cells.
LEMMA AroundDiffers ==
  ASSUME NEW N \in Nat \ {0}, NEW f \in 0..N, NEW x \in 0..N-1, NEW y \in 0..N-1, (f + x) % N = (f + y) % N
  PROVE  x = y
<1>1. /\ (f + x) % N = IF f + x < N THEN f + x ELSE f + x - N
      /\ (f + y) % N = IF f + y < N THEN f + y ELSE f + y - N
  BY Around
<1>2. (IF f + x < N THEN f + x ELSE f + x - N) = IF f + y < N THEN f + y ELSE f + y - N
  BY <1>1
<1> QED
  BY <1>2

MSet == [cells : Tables, heads : [Streams -> 0..Size]]
\* find_slot: different cells of the stream that may be taken, or none.
IdxsFound(cs, st, n, r) ==
  \/ r = <<>>
  \/ /\ r \in [1..n -> Idx] /\ \A i, j \in 1..n : r[i] = r[j] => i = j
     /\ \A j \in 1..n : CanUse(cs, cs[st][r[j]])

\* find_slot finds that many different cells which may be used, or none.
LEMMA FindIdxsFacts ==
  ASSUME NEW m \in MSet, NEW st \in Streams, NEW n \in Nat
  PROVE  IdxsFound(m.cells, st, n, FindIdxs(m, st, n))
<1> DEFINE cs == m.cells
           row == cs[st]
           from == IF m.heads[st] > Cardinality(Used(row)) + 2 * n THEN 0 ELSE m.heads[st]
           free == {k \in 0..Size-1 : CanUse(cs, row[(from + k) % Size])}
           At(x) == (from + x) % Size
           r == [j \in 1..n |-> At(InOrder(free)[j])]
<1>1. from \in 0..Size
  <2>1. m.heads[st] \in 0..Size /\ 0 \in 0..Size
    BY IdxFacts DEF MSet
  <2> QED BY <2>1
<1>2. FindIdxs(m, st, n) = IF Cardinality(free) >= n THEN r ELSE <<>>
  BY DEF FindIdxs
<1>3. \A x \in 0..Size-1 : At(x) \in Idx
  <2> HIDE DEF from
  <2> TAKE x \in 0..Size-1
  <2>1. Size \in Nat \ {0} /\ from \in 0..Size
    BY <1>1, SizeAssumption
  <2>2. At(x) = IF from + x < Size THEN from + x ELSE from + x - Size
    BY <2>1, Around
  <2> HIDE DEF At
  <2>3. At(x) \in 0..Size-1
    BY <2>1, <2>2
  <2> QED BY <2>3, IdxFacts
<1>4. \A x, y \in 0..Size-1 : At(x) = At(y) => x = y
  <2> HIDE DEF from
  <2> QED BY <1>1, SizeAssumption, AroundDiffers
<1>5. free \subseteq 0..Size-1 /\ free \subseteq Nat /\ IsFiniteSet(free)
  <2>1. 0 \in Int /\ Size - 1 \in Int
    BY SizeAssumption
  <2>2. IsFiniteSet(0..Size-1)
    BY <2>1, FS_Interval
  <2>3. free \in SUBSET (0..Size-1) /\ 0..Size-1 \subseteq Nat
    BY SizeAssumption
  <2> HIDE DEF free
  <2> QED BY <2>2, <2>3, FS_Subset
<1>6. CASE Cardinality(free) >= n
  <2> DEFINE c == Cardinality(free)
             q == InOrder(free)
  <2>1. /\ c \in Nat /\ \A j \in 1..c : q[j] \in free
        /\ \A i, j \in 1..c : i < j => q[i] < q[j]
    <3> HIDE DEF free
    <3> QED BY <1>5, InOrderFacts
  <2>2. \A j \in 1..n : j \in 1..c
    <3> HIDE DEF free
    <3> QED BY <1>6, <2>1
  <2>3. \A j \in 1..n : q[j] \in free /\ q[j] \in 0..Size-1 /\ q[j] \in Int
    <3> HIDE DEF free, q
    <3>1. \A x \in free : x \in 0..Size-1 /\ x \in Int
      BY <1>5, SizeAssumption
    <3> QED BY <2>1, <2>2, <3>1
  <2>4. \A i, j \in 1..n : q[i] = q[j] => i = j
    <3> TAKE i, j \in 1..n
    <3> HIDE DEF free, q
    <3>1. i \in Int /\ j \in Int /\ i \in 1..c /\ j \in 1..c /\ q[i] \in Int /\ q[j] \in Int
      BY <2>2, <2>3
    <3>2. (i < j => q[i] < q[j]) /\ (j < i => q[j] < q[i])
      BY <2>1, <3>1
    <3> QED BY <3>1, <3>2
  <2>5. \A j \in 1..n : CanUse(cs, row[At(q[j])])
    BY <2>3
  <2> HIDE DEF free, q, At
  <2>6. r \in [1..n -> Idx]
    BY <1>3, <2>3 DEF q
  <2>7. \A j \in 1..n : r[j] = At(q[j])
    BY DEF q
  <2> HIDE DEF r
  <2>8. \A i, j \in 1..n : r[i] = r[j] => i = j
    BY <1>4, <2>3, <2>4, <2>7
  <2>9. \A j \in 1..n : CanUse(cs, row[r[j]])
    BY <2>5, <2>7
  <2>10. FindIdxs(m, st, n) = r
    BY <1>2, <1>6
  <2> QED BY <2>6, <2>8, <2>9, <2>10 DEF IdxsFound
<1>7. CASE ~ (Cardinality(free) >= n)
  <2> HIDE DEF free, r
  <2> QED BY <1>2, <1>7 DEF IdxsFound
<1> QED
  BY <1>6, <1>7

\* A slot that is found has a cell for every token, each of which may be taken.
LEMMA FindSlotFacts ==
  ASSUME NEW m \in MSet, NEW parts, Ubatch(parts), ~ Empty(FindSlot(m, parts))
  PROVE  SlotOK(parts, FindSlot(m, parts)) /\ Usable(m.cells, parts, FindSlot(m, parts))
<1> DEFINE slot == FindSlot(m, parts)
           cs == m.cells
<1>1. DOMAIN slot = DOMAIN parts
  BY DEF FindSlot
<1>2. ASSUME NEW k \in DOMAIN parts
      PROVE  /\ IdxsOK(parts[k].toks, slot[k])
             /\ \A i \in ToSet(slot[k]) : CanUse(cs, cs[parts[k].strm][i])
  <2> DEFINE T == parts[k].toks
             st == parts[k].strm
             r == slot[k]
  <2>1. T \in Seq(Tokens) /\ st \in Streams
    BY DEF Ubatch, PartOK
  <2>2. r = FindIdxs(m, st, Len(T))
    BY DEF FindSlot
  <2>3. r # <<>>
    BY <1>1 DEF Empty
  <2> HIDE DEF T, st, r, cs
  <2>4. Len(T) \in Nat /\ DOMAIN T = 1..Len(T)
    BY <2>1
  <2>5. IdxsFound(m.cells, st, Len(T), r)
    BY <2>1, <2>2, <2>4, FindIdxsFacts
  <2>6. /\ r \in [DOMAIN T -> Idx] /\ \A i, j \in DOMAIN T : r[i] = r[j] => i = j
        /\ \A j \in DOMAIN T : CanUse(cs, cs[st][r[j]])
    BY <2>3, <2>4, <2>5 DEF IdxsFound, cs
  <2>7. T # <<>>
    <3> SUFFICES ASSUME T = <<>> PROVE FALSE
      OBVIOUS
    <3>1. DOMAIN T = {}
      OBVIOUS
    <3>2. DOMAIN r = {} /\ r = [x \in {} |-> r[x]]
      BY <2>6, <3>1
    <3>3. r = <<>>
      BY <3>2
    <3> QED BY <2>3, <3>3
  <2>8. \A i \in ToSet(r) : CanUse(cs, cs[st][i])
    BY <2>6 DEF ToSet
  <2>9. IdxsOK(T, r)
    BY <2>6, <2>7 DEF IdxsOK
  <2> QED BY <2>8, <2>9 DEF T, st, r
<1>3. ASSUME NEW st \in Streams, NEW i \in Idx, Taken(parts, slot, st, i) PROVE CanUse(cs, cs[st][i])
  <2>1. PartOf(parts, st) \in DOMAIN parts /\ parts[PartOf(parts, st)].strm = st
    BY <1>3, PartFacts DEF Taken
  <2>2. i \in ToSet(slot[PartOf(parts, st)])
    BY <1>3 DEF Taken
  <2> HIDE DEF slot, cs
  <2> QED BY <1>2, <2>1, <2>2
<1>4. SlotOK(parts, slot)
  <2> HIDE DEF slot
  <2> QED BY <1>1, <1>2 DEF SlotOK
<1>5. Usable(cs, parts, slot)
  BY <1>3 DEF Usable
<1> QED
  BY <1>4, <1>5

\* apply_ubatch keeps the types: a head is moved behind the last cell taken.
LEMMA ApplyTyped ==
  ASSUME NEW m \in MSet, NEW parts, NEW slot, Ubatch(parts), SlotOK(parts, slot)
  PROVE  ApplyUbatch(m, parts, slot) \in MSet
<1>1. CellsAfter(m.cells, parts, slot) \in Tables
  BY AfterTyped DEF MSet
<1> DEFINE hs == [st \in Streams |-> IF Parted(parts, st) THEN Last(slot[PartOf(parts, st)]) + 1
                                     ELSE m.heads[st]]
<1>2. ASSUME NEW st \in Streams PROVE hs[st] \in 0..Size
  <2>1. CASE Parted(parts, st)
    <3> DEFINE k == PartOf(parts, st)
               r == slot[k]
               T == parts[k].toks
    <3>1. IdxsOK(T, r) /\ T \in Seq(Tokens)
      BY <2>1, PartFacts DEF SlotOK, Ubatch, PartOK
    <3> HIDE DEF r, T
    <3>2. Len(T) \in Nat /\ DOMAIN T = 1..Len(T) /\ Len(T) # 0
      BY <3>1 DEF IdxsOK
    <3>3. r \in [1..Len(T) -> Idx] /\ Len(T) \in 1..Len(T)
      BY <3>1, <3>2 DEF IdxsOK
    <3>4. r \in Seq(Idx) /\ Len(r) = Len(T)
      <4>1. r \in Seq(Idx)
        BY <3>2, <3>3, SeqDef
      <4>2. Len(r) \in Nat /\ 1..Len(r) = 1..Len(T)
        BY <3>3, <4>1
      <4> QED BY <3>2, <4>1, <4>2
    <3>5. Last(r) \in Idx
      BY <3>3, <3>4 DEF Last
    <3>6. Last(r) + 1 \in 0..Size
      BY <3>5, IdxFacts
    <3> QED BY <2>1, <3>6 DEF r
  <2>2. CASE ~ Parted(parts, st)
    BY <2>2 DEF MSet
  <2> QED BY <2>1, <2>2
<1>3. hs \in [Streams -> 0..Size]
  BY <1>2
<1> HIDE DEF hs
<1>4. [cells |-> CellsAfter(m.cells, parts, slot), heads |-> hs] \in MSet
  BY <1>1, <1>3 DEF MSet
<1> QED
  BY <1>4 DEF ApplyUbatch, hs

-----------------------------------------------------------------------------
(* The trial of a batch *)

TrialStart(m) == [ok |-> TRUE, m |-> m, states |-> <<>>]
TrialStep(t, parts) ==
  LET slot == FindSlot(t.m, parts)
  IN IF ~t.ok \/ Empty(slot) THEN [ok |-> FALSE, m |-> t.m, states |-> t.states]
     ELSE [ok |-> TRUE, m |-> ApplyUbatch(t.m, parts, slot),
           states |-> Append(t.states, [parts |-> parts, slot |-> slot, m |-> t.m])]
TrialChain(f, m, ubs, N) == f[0] = TrialStart(m) /\ \A k \in 1..N : f[k] = TrialStep(f[k-1], ubs[k])

\* A trial is the chain of its steps (the loop of prepare over the ubatches).
LEMMA TrialSteps ==
  ASSUME NEW V, NEW m, TrialStart(m) \in V, NEW N \in Nat, NEW ubs, DOMAIN ubs = 1..N,
         \A v \in V, k \in 1..N : TrialStep(v, ubs[k]) \in V
  PROVE  \E f : TrialChain(f, m, ubs, N) /\ f[N] = Trial(m, ubs)
<1> DEFINE kd == TrialStart(m)
           g == [k \in 1..N |-> [v \in V |-> TrialStep(v, ubs[k])]]
           Step(v, k) == TrialStep(v, ubs[k])
           E(it) == [s \in SUBSET (1..N) |-> IF s = {} THEN kd ELSE Step(it[s \ {Max(s)}], Max(s))]
           I == CHOOSE it : it = E(it)
           f == [k \in 0..N |-> I[1..k]]
<1>1. Trial(m, ubs) = I[1..N]
  BY DEF Trial, FoldLeft, MapThenFoldSet, TrialStep, TrialStart
<1>2. g \in [1..N -> [V -> V]] /\ \A k \in 1..N, v \in V : g[k][v] = Step(v, k)
  OBVIOUS
<1>3. \E it : it = E(it)
  <2>1. PICK it : FoldOf(it, V, kd, N, g)
    <3> HIDE DEF g, Step
    <3> QED BY <1>2, FoldExists
  <2>2. \A s \in SUBSET (1..N) : it[s] = IF s = {} THEN kd ELSE Step(it[s \ {Max(s)}], Max(s))
    <3> HIDE DEF g, Step, kd
    <3> QED BY <1>2, <2>1, MaxInPrefix DEF FoldOf
  <2>3. it = E(it)
    <3> HIDE DEF g, Step, kd
    <3> QED BY <2>1, <2>2 DEF FoldOf
  <2> QED BY <2>3
<1>4. I = E(I)
  <2> HIDE DEF E
  <2> QED BY <1>3
<1>5. I[{}] = kd
  BY <1>4
<1>6. ASSUME NEW k \in 1..N PROVE I[1..k] = Step(I[1..k-1], k)
  <2>0. k \in Nat \ {0} /\ 1..k \in SUBSET (1..N) /\ k \in 1..k /\ (1..k) \ {k} = 1..k-1
    OBVIOUS
  <2>1. 1..k \in SUBSET (1..N) /\ 1..k # {} /\ (1..k) \ {k} = 1..k-1 /\ Max(1..k) = k
    BY <2>0, MaxOfPrefix
  <2>2. I[1..k] = E(I)[1..k]
    BY <1>4
  <2>3. E(I)[1..k] = Step(I[(1..k) \ {Max(1..k)}], Max(1..k))
    <3> HIDE DEF I, Step, kd
    <3> QED BY <2>1
  <2> HIDE DEF I, E, Step
  <2> QED
    BY <2>1, <2>2, <2>3
<1>7. f[0] = kd /\ f[N] = Trial(m, ubs)
  <2>1. 1..0 = {}
    OBVIOUS
  <2> HIDE DEF I, kd
  <2> QED BY <1>1, <1>5, <2>1
<1>8. \A k \in 1..N : f[k] = Step(f[k-1], k)
  <2> HIDE DEF I, Step
  <2> QED BY <1>6
<1> HIDE DEF f
<1> QED
  BY <1>7, <1>8 DEF TrialChain

\* The metadata before the k-th placed ubatch, and after the last.
MetaAt(t, k) == IF k \in 1..Len(t.states) THEN t.states[k].m ELSE t.m
PlacedAt(t, ubs, k) ==
  LET e == t.states[k]
  IN /\ e.parts = ubs[k] /\ e.m \in MSet /\ SlotOK(e.parts, e.slot) /\ Usable(e.m.cells, e.parts, e.slot)
     /\ MetaAt(t, k+1) = ApplyUbatch(e.m, e.parts, e.slot)
\* A trial that placed some ubatches, the first ones of the list.
Tried(t, m, ubs, n) ==
  /\ t.m \in MSet /\ n \in Nat
  /\ DOMAIN t.states = 1..n /\ Len(t.states) = n /\ t.states \in Seq({t.states[k] : k \in 1..n})
  /\ MetaAt(t, 1) = m
  /\ \A k \in 1..n : PlacedAt(t, ubs, k)

\* Nothing is tried yet.
LEMMA TriedStart ==
  ASSUME NEW m \in MSet, NEW ubs
  PROVE  Tried(TrialStart(m), m, ubs, 0)
<1> DEFINE t == TrialStart(m)
<1>1. t.ok = TRUE /\ t.m = m /\ t.states = <<>>
  BY DEF TrialStart
<1> HIDE DEF t
<1>2. DOMAIN t.states = 1..0 /\ Len(t.states) = 0 /\ t.states \in Seq({t.states[k] : k \in 1..0})
  BY <1>1
<1>3. MetaAt(t, 1) = m
  BY <1>1, <1>2 DEF MetaAt
<1>4. \A k \in 1..0 : PlacedAt(t, ubs, k)
  OBVIOUS
<1>5. Tried(t, m, ubs, 0)
  BY <1>1, <1>2, <1>3, <1>4 DEF Tried
<1> QED
  BY <1>5 DEF t

\* An ubatch that finds a slot is placed on what the ones before it left.
LEMMA TriedStep ==
  ASSUME NEW t, NEW m, NEW ubs, NEW n \in Nat, Tried(t, m, ubs, n), t.ok, Ubatch(ubs[n+1]),
         ~ Empty(FindSlot(t.m, ubs[n+1]))
  PROVE  Tried(TrialStep(t, ubs[n+1]), m, ubs, n + 1)
<1> DEFINE u == TrialStep(t, ubs[n+1])
           parts == ubs[n+1]
           slot == FindSlot(t.m, parts)
           e == [parts |-> parts, slot |-> slot, m |-> t.m]
<1>1. u = [ok |-> TRUE, m |-> ApplyUbatch(t.m, parts, slot), states |-> Append(t.states, e)]
  BY DEF TrialStep
<1>2. t.m \in MSet /\ SlotOK(parts, slot) /\ Usable(t.m.cells, parts, slot)
  <2>1. t.m \in MSet
    BY DEF Tried
  <2> HIDE DEF slot
  <2> QED BY <2>1, FindSlotFacts DEF slot
<1>3. ApplyUbatch(t.m, parts, slot) \in MSet
  <2> HIDE DEF slot, parts
  <2>1. Ubatch(parts)
    BY DEF parts
  <2> QED BY <1>2, <2>1, ApplyTyped
<1>4. u.ok = TRUE /\ u.m = ApplyUbatch(t.m, parts, slot) /\ u.states = Append(t.states, e)
  <2> HIDE DEF slot, parts, e, u
  <2> QED BY <1>1
<1>5. /\ e.parts = parts /\ e.slot = slot /\ e.m = t.m
  OBVIOUS
<1> HIDE DEF u, slot, e
<1>6. /\ u.states \in Seq({t.states[k] : k \in 1..n} \cup {e})
      /\ DOMAIN u.states = 1..n+1 /\ Len(u.states) = n + 1 /\ u.states[n+1] = e
      /\ \A k \in 1..n : u.states[k] = t.states[k]
  <2>1. t.states \in Seq({t.states[k] : k \in 1..n}) /\ Len(t.states) = n
    BY DEF Tried
  <2> DEFINE q == t.states
             S == {q[k] : k \in 1..n} \cup {e}
  <2>2. q \in Seq(S) /\ Len(q) = n /\ e \in S
    BY <2>1
  <2> HIDE DEF q, S
  <2>3. /\ Append(q, e) \in Seq(S)
        /\ DOMAIN Append(q, e) = 1..n+1 /\ Len(Append(q, e)) = n + 1 /\ Append(q, e)[n+1] = e
        /\ \A k \in 1..n : Append(q, e)[k] = q[k]
    BY <2>2
  <2> QED BY <1>4, <2>3 DEF q, S
<1>7. u.states \in Seq({u.states[k] : k \in 1..n+1})
  <2>1. {u.states[k] : k \in 1..n+1} = {t.states[k] : k \in 1..n} \cup {e}
    <3>1. \A k \in 1..n+1 : k \in 1..n \/ k = n + 1
      OBVIOUS
    <3>2. n + 1 \in 1..n+1 /\ \A k \in 1..n : k \in 1..n+1
      OBVIOUS
    <3> QED BY <1>6, <3>1, <3>2
  <2> QED BY <1>6, <2>1
<1>8. \A k \in 1..n+1 : MetaAt(u, k) = MetaAt(t, k)
  <2> TAKE k \in 1..n+1
  <2>1. CASE k = n + 1
    <3>1. MetaAt(u, k) = e.m
      BY <1>6, <2>1 DEF MetaAt
    <3>2. MetaAt(t, k) = t.m
      BY <2>1 DEF MetaAt, Tried
    <3> QED BY <1>5, <3>1, <3>2
  <2>2. CASE k \in 1..n
    BY <1>6, <2>2 DEF MetaAt, Tried
  <2> QED BY <2>1, <2>2
<1>9. MetaAt(u, n+2) = u.m
  BY <1>6 DEF MetaAt
<1>10. ASSUME NEW k \in 1..n PROVE PlacedAt(u, ubs, k)
  <2>1. PlacedAt(t, ubs, k) /\ u.states[k] = t.states[k] /\ k + 1 \in 1..n+1
    BY <1>6 DEF Tried
  <2>2. MetaAt(u, k+1) = MetaAt(t, k+1)
    BY <1>8, <2>1
  <2> QED BY <2>1, <2>2 DEF PlacedAt
<1>11. PlacedAt(u, ubs, n+1)
  <2>1. (n + 1) + 1 = n + 2
    OBVIOUS
  <2> QED BY <1>2, <1>4, <1>5, <1>6, <1>9, <2>1 DEF PlacedAt
<1>12. \A k \in 1..n+1 : PlacedAt(u, ubs, k)
  <2>1. \A k \in 1..n+1 : k \in 1..n \/ k = n + 1
    OBVIOUS
  <2> QED BY <1>10, <1>11, <2>1
<1>13. MetaAt(u, 1) = m
  <2>1. 1 \in 1..n+1
    OBVIOUS
  <2> QED BY <1>8, <2>1 DEF Tried
<1>14. u.m \in MSet /\ n + 1 \in Nat
  BY <1>3, <1>4
<1> QED
  BY <1>6, <1>7, <1>12, <1>13, <1>14 DEF Tried, u

Ubatches(ubs, N) == \A k \in 1..N : Ubatch(ubs[k])
Slots(ubs, N) == {FindSlot(x, ubs[k]) : x \in MSet, k \in 1..N}
StateSet(ubs, N) == [parts : {ubs[k] : k \in 1..N}, slot : Slots(ubs, N), m : MSet]
TrialSet(ubs, N) == [ok : BOOLEAN, m : MSet, states : Seq(StateSet(ubs, N))]

Stops(t, u) == u.m = t.m /\ u.states = t.states /\ ~ u.ok

\* A step of a trial places its ubatch or leaves what there is.
LEMMA TrialStepTyped ==
  ASSUME NEW ubs, NEW N \in Nat, Ubatches(ubs, N), NEW t \in TrialSet(ubs, N), NEW k \in 1..N
  PROVE  /\ TrialStep(t, ubs[k]) \in TrialSet(ubs, N)
         /\ (t.ok /\ ~ Empty(FindSlot(t.m, ubs[k]))) \/ Stops(t, TrialStep(t, ubs[k]))
<1> DEFINE parts == ubs[k]
           slot == FindSlot(t.m, parts)
           e == [parts |-> parts, slot |-> slot, m |-> t.m]
           u == TrialStep(t, parts)
           S == StateSet(ubs, N)
<1>1. t.m \in MSet /\ Ubatch(parts) /\ t.states \in Seq(S) /\ t \in [ok : BOOLEAN, m : MSet, states : Seq(S)]
  BY DEF TrialSet, Ubatches
<1>2. CASE ~ t.ok \/ Empty(slot)
  <2> DEFINE a == t.m
             b == t.states
  <2>3. u = [ok |-> FALSE, m |-> a, states |-> b]
    BY <1>2 DEF TrialStep
  <2> HIDE DEF u
  <2>4. a \in MSet /\ b \in Seq(S)
    BY <1>1
  <2> HIDE DEF a, b, S
  <2>5. u \in [ok : BOOLEAN, m : MSet, states : Seq(S)] /\ u.m = a /\ u.states = b /\ ~ u.ok
    BY <2>3, <2>4
  <2> QED BY <2>5 DEF S, u, a, b, TrialSet, Stops
<1>3. CASE t.ok /\ ~ Empty(slot)
  <2>1. u = [ok |-> TRUE, m |-> ApplyUbatch(t.m, parts, slot), states |-> Append(t.states, e)]
    BY <1>3 DEF TrialStep
  <2>2. SlotOK(parts, slot)
    <3> HIDE DEF parts
    <3> QED BY <1>1, <1>3, FindSlotFacts
  <2>3. slot \in Slots(ubs, N)
    BY <1>1 DEF Slots
  <2>4. e \in S
    <3>1. parts \in {ubs[n] : n \in 1..N}
      OBVIOUS
    <3> HIDE DEF slot, parts
    <3> QED BY <1>1, <2>3, <3>1 DEF StateSet
  <2> HIDE DEF slot, e, S, u, parts
  <2>5. ApplyUbatch(t.m, parts, slot) \in MSet
    BY <1>1, <2>2, ApplyTyped
  <2>6. Append(t.states, e) \in Seq(S)
    BY <1>1, <2>4
  <2> DEFINE a == ApplyUbatch(t.m, parts, slot)
             b == Append(t.states, e)
  <2>7. u = [ok |-> TRUE, m |-> a, states |-> b]
    BY <2>1
  <2> HIDE DEF a, b
  <2>8. u \in [ok : BOOLEAN, m : MSet, states : Seq(S)]
    BY <2>5, <2>6, <2>7 DEF a, b
  <2> QED BY <1>3, <2>8 DEF S, u, parts, slot, TrialSet
<1> QED
  BY <1>2, <1>3

\* A trial that stops keeps what it has placed.
LEMMA TriedStops ==
  ASSUME NEW t, NEW u, NEW m, NEW ubs, NEW n, Tried(t, m, ubs, n), u.m = t.m, u.states = t.states
  PROVE  Tried(u, m, ubs, n)
<1>1. \A k : MetaAt(u, k) = MetaAt(t, k)
  BY DEF MetaAt
<1>2. \A k \in 1..n : PlacedAt(u, ubs, k)
  BY <1>1 DEF PlacedAt, Tried
<1> QED
  BY <1>1, <1>2 DEF Tried

\* A trial places the first ubatches of a batch, one after the other.
LEMMA TrialFacts ==
  ASSUME NEW m \in MSet, NEW ubs, NEW N \in Nat, DOMAIN ubs = 1..N, Ubatches(ubs, N)
  PROVE  \E n \in 0..N : Tried(Trial(m, ubs), m, ubs, n)
<1> DEFINE V == TrialSet(ubs, N)
<1>1. TrialStart(m) \in V
  <2>1. <<>> \in Seq(StateSet(ubs, N))
    OBVIOUS
  <2> QED BY <2>1 DEF TrialStart, TrialSet
<1>2. \A v \in V, k \in 1..N : TrialStep(v, ubs[k]) \in V
  BY TrialStepTyped
<1>3. PICK f : TrialChain(f, m, ubs, N) /\ f[N] = Trial(m, ubs)
  <2> HIDE DEF V
  <2> QED BY <1>1, <1>2, TrialSteps
<1> DEFINE T == {k \in 0..N : f[k] \in V /\ \E n \in 0..k : Tried(f[k], m, ubs, n) /\ (f[k].ok => n = k)}
<1>4. 0 \in T
  <2>1. Tried(f[0], m, ubs, 0) /\ f[0] \in V
    BY <1>1, <1>3, TriedStart DEF TrialChain
  <2> QED BY <2>1
<1>5. ASSUME NEW k \in 0..N-1, k \in T PROVE k + 1 \in T
  <2> DEFINE t == f[k]
             u == f[k+1]
             parts == ubs[k+1]
  <2>1. k + 1 \in 1..N /\ (k + 1) - 1 = k /\ k + 1 \in 0..N /\ k \in Nat
    OBVIOUS
  <2>2. u = TrialStep(t, parts)
    BY <1>3, <2>1 DEF TrialChain
  <2>3. t \in V /\ Ubatch(parts)
    BY <1>5, <2>1 DEF Ubatches
  <2>4. u \in V
    BY <1>2, <2>1, <2>2, <2>3
  <2>5. PICK n \in 0..k : Tried(t, m, ubs, n) /\ (t.ok => n = k)
    BY <1>5
  <2>a. (t.ok /\ ~ Empty(FindSlot(t.m, parts))) \/ Stops(t, u)
    <3>1. (t.ok /\ ~ Empty(FindSlot(t.m, ubs[k+1]))) \/ Stops(t, TrialStep(t, ubs[k+1]))
      <4> HIDE DEF t
      <4> QED BY <2>1, <2>3, TrialStepTyped
    <3> QED BY <2>2, <3>1
  <2>6. CASE Stops(t, u)
    <3>1. u.m = t.m /\ u.states = t.states /\ ~ u.ok
      BY <2>6 DEF Stops
    <3> HIDE DEF t, u, V
    <3>2. Tried(u, m, ubs, n)
      BY <2>5, <3>1, TriedStops
    <3>3. n \in 0..k+1
      BY <2>1
    <3> QED BY <2>1, <2>4, <3>1, <3>2, <3>3 DEF u
  <2>7. CASE t.ok /\ ~ Empty(FindSlot(t.m, parts))
    <3>1. Tried(TrialStep(t, ubs[k+1]), m, ubs, k + 1)
      <4>1. Tried(t, m, ubs, k) /\ t.ok /\ Ubatch(ubs[k+1]) /\ ~ Empty(FindSlot(t.m, ubs[k+1]))
        BY <2>3, <2>5, <2>7
      <4> HIDE DEF t
      <4> QED BY <2>1, <4>1, TriedStep
    <3>2. k + 1 \in 0..k+1
      BY <2>1
    <3> HIDE DEF t, V
    <3> QED BY <2>1, <2>2, <2>4, <3>1, <3>2
  <2> QED BY <2>a, <2>6, <2>7
<1>6. N \in T
  <2> HIDE DEF T
  <2>1. 0..N \subseteq T
    BY <1>4, <1>5, Upward
  <2> QED BY <2>1
<1> QED
  BY <1>3, <1>6

-----------------------------------------------------------------------------
(* What a trial leaves *)

BackChain(f, b, q, N) == f[0] = b /\ \A k \in 1..N : f[k] = PutBack(f[k-1], q[k])

\* The rollback is the chain of its steps, from the last ubatch to the first.
LEMMA BackSteps ==
  ASSUME NEW V, NEW t, t.m \in V, NEW N \in Nat, NEW q, q = Reverse(t.states), DOMAIN q = 1..N,
         \A v \in V, k \in 1..N : PutBack(v, q[k]) \in V
  PROVE  \E f : BackChain(f, t.m, q, N) /\ f[N] = Restored(t)
<1> DEFINE kd == t.m
           g == [k \in 1..N |-> [v \in V |-> PutBack(v, q[k])]]
           Step(v, k) == PutBack(v, q[k])
           E(it) == [s \in SUBSET (1..N) |-> IF s = {} THEN kd ELSE Step(it[s \ {Max(s)}], Max(s))]
           I == CHOOSE it : it = E(it)
           f == [k \in 0..N |-> I[1..k]]
<1>1. Restored(t) = I[1..N]
  <2>1. Restored(t) = FoldLeft(PutBack, t.m, q)
    BY DEF Restored
  <2> QED BY <2>1 DEF FoldLeft, MapThenFoldSet
<1>2. g \in [1..N -> [V -> V]] /\ \A k \in 1..N, v \in V : g[k][v] = Step(v, k)
  OBVIOUS
<1>3. \E it : it = E(it)
  <2>1. PICK it : FoldOf(it, V, kd, N, g)
    <3> HIDE DEF g, Step
    <3> QED BY <1>2, FoldExists
  <2>2. \A s \in SUBSET (1..N) : it[s] = IF s = {} THEN kd ELSE Step(it[s \ {Max(s)}], Max(s))
    <3> HIDE DEF g, Step, kd
    <3> QED BY <1>2, <2>1, MaxInPrefix DEF FoldOf
  <2>3. it = E(it)
    <3> HIDE DEF g, Step, kd
    <3> QED BY <2>1, <2>2 DEF FoldOf
  <2> QED BY <2>3
<1>4. I = E(I)
  <2> HIDE DEF E
  <2> QED BY <1>3
<1>5. I[{}] = kd
  BY <1>4
<1>6. ASSUME NEW k \in 1..N PROVE I[1..k] = Step(I[1..k-1], k)
  <2>0. k \in Nat \ {0} /\ 1..k \in SUBSET (1..N) /\ k \in 1..k /\ (1..k) \ {k} = 1..k-1
    OBVIOUS
  <2>1. 1..k \in SUBSET (1..N) /\ 1..k # {} /\ (1..k) \ {k} = 1..k-1 /\ Max(1..k) = k
    BY <2>0, MaxOfPrefix
  <2>2. I[1..k] = E(I)[1..k]
    BY <1>4
  <2>3. E(I)[1..k] = Step(I[(1..k) \ {Max(1..k)}], Max(1..k))
    <3> HIDE DEF I, Step, kd
    <3> QED BY <2>1
  <2> HIDE DEF I, E, Step
  <2> QED
    BY <2>1, <2>2, <2>3
<1>7. f[0] = kd /\ f[N] = Restored(t)
  <2>1. 1..0 = {}
    OBVIOUS
  <2> HIDE DEF I, kd
  <2> QED BY <1>1, <1>5, <2>1
<1>8. \A k \in 1..N : f[k] = Step(f[k-1], k)
  <2> HIDE DEF I, Step
  <2> QED BY <1>6
<1> HIDE DEF f
<1> QED
  BY <1>7, <1>8 DEF BackChain

\* The metadata ms[k] before the k-th ubatch of a list is placed, and after the last.
PlacedIn(a, e, b) ==
  /\ Ubatch(e.parts) /\ SlotOK(e.parts, e.slot) /\ Usable(a, e.parts, e.slot)
  /\ b = CellsAfter(a, e.parts, e.slot)
Placed(ms, L, n) ==
  /\ ms \in [1..n+1 -> Tables]
  /\ \A k \in 1..n : PlacedIn(ms[k], L[k], ms[k+1])
\* What remains of them, rs[k], when the ubatches from the k-th on are put back.
BackIn(a, e, b, c) ==
  \A st \in Streams, i \in Idx :
    a[st][i] = IF Taken(e.parts, e.slot, st, i) THEN b[st][i] ELSE c[st][i]
Backed(rs, ms, L, n) ==
  /\ rs \in [1..n+1 -> Tables] /\ rs[n+1] = ms[n+1]
  /\ \A k \in 1..n : BackIn(rs[k], L[k], ms[k], rs[k+1])

\* A step of the rollback puts back the cells of one slot.
LEMMA PutBackFacts ==
  ASSUME NEW v \in MSet, NEW e, Ubatch(e.parts), SlotOK(e.parts, e.slot), e.m \in MSet
  PROVE  PutBack(v, e) \in MSet /\ BackIn(PutBack(v, e).cells, e, e.m.cells, v.cells)
<1> DEFINE cs == [st \in Streams |-> [i \in Idx |->
                    IF Taken(e.parts, e.slot, st, i) THEN e.m.cells[st][i] ELSE v.cells[st][i]]]
           hs == [st \in Streams |-> IF Parted(e.parts, st)
                                     THEN e.m.heads[PartOf(e.parts, st) - 1] ELSE v.heads[st]]
<1>1. PutBack(v, e) = [cells |-> cs, heads |-> hs]
  BY DEF PutBack
<1>2. cs \in Tables
  BY DEF MSet, Tables, Grid
<1>3. ASSUME NEW st \in Streams PROVE hs[st] \in 0..Size
  <2>1. Parted(e.parts, st) => PartOf(e.parts, st) - 1 \in Streams
    BY PartFacts DEF Ubatch, PartOK
  <2>2. \A x \in Streams : e.m.heads[x] \in 0..Size /\ v.heads[x] \in 0..Size
    BY DEF MSet
  <2> QED BY <2>1, <2>2
<1>4. hs \in [Streams -> 0..Size]
  BY <1>3
<1>5. BackIn(cs, e, e.m.cells, v.cells)
  BY DEF BackIn
<1> HIDE DEF cs, hs
<1>6. PutBack(v, e) \in MSet
  BY <1>1, <1>2, <1>4 DEF MSet
<1> QED
  BY <1>1, <1>5, <1>6

TrialLeaves(t, m, n, ms, rs) ==
  /\ Placed(ms, t.states, n) /\ Backed(rs, ms, t.states, n)
  /\ ms[1] = m.cells /\ rs[1] = Restored(t).cells /\ Restored(t) \in MSet

\* A trial leaves the metadata that each ubatch was placed on, and those that were put back.
LEMMA RestoredFacts ==
  ASSUME NEW t, NEW m, NEW ubs, NEW N \in Nat, NEW n \in 0..N, Tried(t, m, ubs, n), Ubatches(ubs, N)
  PROVE  \E ms, rs : TrialLeaves(t, m, n, ms, rs)
<1> DEFINE L == t.states
           q == Reverse(L)
           ms == [k \in 1..n+1 |-> MetaAt(t, k).cells]
<1>0. n \in Nat /\ \A k \in 1..n : k \in 1..N
  OBVIOUS
<1>1. Len(L) = n /\ DOMAIN L = 1..n /\ t.m \in MSet
  BY DEF Tried
<1>2. DOMAIN q = 1..n /\ \A k \in 1..n : q[k] = L[n - k + 1]
  BY <1>0, <1>1 DEF Reverse
<1>3. ASSUME NEW k \in 1..n
      PROVE  Ubatch(L[k].parts) /\ SlotOK(L[k].parts, L[k].slot) /\ L[k].m \in MSet
             /\ MetaAt(t, k) = L[k].m /\ PlacedAt(t, ubs, k)
  <2>1. PlacedAt(t, ubs, k)
    BY DEF Tried
  <2>2. MetaAt(t, k) = L[k].m
    BY <1>1 DEF MetaAt
  <2> QED BY <1>0, <2>1, <2>2 DEF PlacedAt, Ubatches
<1>4. MetaAt(t, n+1) = t.m
  BY <1>0, <1>1 DEF MetaAt
<1>5. \A k \in 1..n+1 : MetaAt(t, k) \in MSet /\ ms[k] = MetaAt(t, k).cells /\ ms[k] \in Tables
  <2>1. \A k \in 1..n+1 : k \in 1..n \/ k = n + 1
    BY <1>0
  <2>2. \A k \in 1..n+1 : MetaAt(t, k) \in MSet
    BY <1>1, <1>3, <1>4, <2>1
  <2> QED BY <2>2 DEF MSet
<1>6. ms \in [1..n+1 -> Tables]
  BY <1>5
<1>7. ASSUME NEW k \in 1..n PROVE PlacedIn(ms[k], L[k], ms[k+1])
  <2>1. k \in 1..n+1 /\ k + 1 \in 1..n+1
    BY <1>0
  <2>2. ms[k] = L[k].m.cells /\ ms[k+1] = MetaAt(t, k+1).cells
    BY <1>3, <1>5, <2>1
  <2>3. MetaAt(t, k+1) = ApplyUbatch(L[k].m, L[k].parts, L[k].slot)
    BY <1>3 DEF PlacedAt
  <2>4. ms[k+1] = CellsAfter(L[k].m.cells, L[k].parts, L[k].slot)
    BY <2>2, <2>3 DEF ApplyUbatch
  <2>5. Usable(L[k].m.cells, L[k].parts, L[k].slot)
    BY <1>3 DEF PlacedAt
  <2> HIDE DEF ms, L
  <2> QED BY <1>3, <2>2, <2>4, <2>5 DEF PlacedIn
<1>8. Placed(ms, L, n)
  <2> HIDE DEF ms, L
  <2> QED BY <1>6, <1>7 DEF Placed
<1>9. \A v \in MSet, k \in 1..n : PutBack(v, q[k]) \in MSet
  <2> TAKE v \in MSet, k \in 1..n
  <2>1. n - k + 1 \in 1..n
    BY <1>0
  <2>2. q[k] = L[n - k + 1]
    BY <1>2
  <2> HIDE DEF q, L
  <2> QED BY <1>3, <2>1, <2>2, PutBackFacts
<1>10. PICK f : BackChain(f, t.m, q, n) /\ f[n] = Restored(t)
  <2> HIDE DEF q
  <2>1. q = Reverse(t.states)
    BY DEF q
  <2> DEFINE V == MSet
  <2>2. t.m \in V /\ \A v \in V, k \in 1..n : PutBack(v, q[k]) \in V
    BY <1>1, <1>9
  <2> HIDE DEF V
  <2> QED BY <1>0, <1>2, <2>1, <2>2, BackSteps
<1> DEFINE T == {k \in 0..n : f[k] \in MSet}
           rs == [k \in 1..n+1 |-> f[n+1-k].cells]
<1>11. \A k \in 0..n : f[k] \in MSet
  <2>1. 0 \in T
    BY <1>0, <1>1, <1>10 DEF BackChain
  <2>2. ASSUME NEW k \in 0..n-1, k \in T PROVE k + 1 \in T
    <3>1. k + 1 \in 1..n /\ (k + 1) - 1 = k /\ k + 1 \in 0..n
      BY <1>0
    <3>2. f[k+1] = PutBack(f[k], q[k+1])
      BY <1>10, <3>1 DEF BackChain
    <3>3. f[k] \in MSet
      BY <2>2
    <3> HIDE DEF q
    <3> QED BY <1>9, <3>1, <3>2, <3>3
  <2> HIDE DEF T
  <2>3. 0..n \subseteq T
    BY <1>0, <2>1, <2>2, Upward
  <2> QED BY <2>3 DEF T
<1>12. rs \in [1..n+1 -> Tables]
  <2>1. \A k \in 1..n+1 : n + 1 - k \in 0..n
    BY <1>0
  <2>2. \A k \in 1..n+1 : f[n+1-k].cells \in Tables
    BY <1>11, <2>1 DEF MSet
  <2> QED BY <2>2
<1>13. rs[n+1] = ms[n+1]
  <2>1. n + 1 \in 1..n+1 /\ n + 1 - (n + 1) = 0
    BY <1>0
  <2>2. rs[n+1] = f[0].cells
    BY <2>1
  <2>3. f[0] = t.m
    BY <1>10 DEF BackChain
  <2> HIDE DEF rs, ms
  <2> QED BY <1>4, <1>5, <2>1, <2>2, <2>3
<1>14. ASSUME NEW k \in 1..n PROVE BackIn(rs[k], L[k], ms[k], rs[k+1])
  <2> DEFINE j == n + 1 - k
  <2>1. j \in 1..n /\ j - 1 = n + 1 - (k + 1) /\ j - 1 \in 0..n /\ n - j + 1 = k /\ k \in 1..n+1 /\ k + 1 \in 1..n+1
    BY <1>0
  <2>2. rs[k] = f[j].cells /\ rs[k+1] = f[j-1].cells
    BY <2>1
  <2> HIDE DEF j, q, L, rs
  <2>3. f[j] = PutBack(f[j-1], L[k])
    <3>1. f[j] = PutBack(f[j-1], q[j])
      BY <1>10, <2>1 DEF BackChain
    <3> QED BY <1>2, <2>1, <3>1
  <2>4. f[j-1] \in MSet
    BY <1>11, <2>1
  <2>5. BackIn(f[j].cells, L[k], L[k].m.cells, f[j-1].cells)
    BY <1>3, <2>3, <2>4, PutBackFacts
  <2>6. ms[k] = L[k].m.cells
    <3> HIDE DEF ms
    <3> QED BY <1>3, <1>5, <2>1
  <2> HIDE DEF ms
  <2> QED BY <2>2, <2>5, <2>6
<1>15. Backed(rs, ms, L, n)
  <2> HIDE DEF rs, ms, L
  <2> QED BY <1>12, <1>13, <1>14 DEF Backed
<1>16. ms[1] = m.cells
  <2>1. 1 \in 1..n+1 /\ MetaAt(t, 1) = m
    BY <1>0 DEF Tried
  <2> HIDE DEF ms
  <2> QED BY <1>5, <2>1
<1>17. rs[1] = Restored(t).cells /\ Restored(t) \in MSet
  <2>1. 1 \in 1..n+1 /\ n + 1 - 1 = n /\ n \in 0..n
    BY <1>0
  <2>2. rs[1] = f[n].cells
    BY <2>1
  <2> HIDE DEF rs
  <2> QED BY <1>10, <1>11, <2>1, <2>2
<1> HIDE DEF ms, rs
<1> QED
  BY <1>8, <1>15, <1>16, <1>17 DEF TrialLeaves

-----------------------------------------------------------------------------
(* What is put back lies within what was placed, and so do the ubatches placed on it *)

\* A cell of a table.
LEMMA AllWithinFacts ==
  ASSUME NEW cs \in Tables, NEW ds \in Tables, NEW st \in Streams, NEW i \in Idx
  PROVE  /\ cs[st][i] \in CellSet /\ ds[st][i] \in CellSet
         /\ AllWithin(cs, ds) => Within(cs[st][i], ds[st][i])
  BY DEF Tables, Grid, AllWithin

\* A cell that was not taken only loses sequences.
LEMMA AfterWithin ==
  ASSUME NEW cs \in Tables, NEW parts, NEW slot, Ubatch(parts), SlotOK(parts, slot),
         NEW st \in Streams, NEW i \in Idx, ~ Taken(parts, slot, st, i)
  PROVE  Within(CellsAfter(cs, parts, slot)[st][i], cs[st][i])
<1>1. CellPut(cs, parts, slot, st, i) = cs[st][i]
  BY DEF CellPut
<1> QED
  BY <1>1, AfterFacts

\* One ubatch put back: what lay within the placed metadata lies within those before it.
LEMMA BackStep ==
  ASSUME NEW a \in Tables, NEW e, NEW b \in Tables, NEW x \in Tables, NEW y \in Tables,
         PlacedIn(a, e, b), BackIn(x, e, a, y), AllWithin(y, b)
  PROVE  AllWithin(x, a)
<1> SUFFICES ASSUME NEW st \in Streams, NEW i \in Idx PROVE Within(x[st][i], a[st][i])
  BY DEF AllWithin
<1>1. a[st][i] \in CellSet /\ b[st][i] \in CellSet /\ x[st][i] \in CellSet /\ y[st][i] \in CellSet
  BY AllWithinFacts
<1>2. CASE Taken(e.parts, e.slot, st, i)
  <2>1. x[st][i] = a[st][i]
    BY <1>2 DEF BackIn
  <2> QED BY <1>1, <2>1, WithinSelf
<1>3. CASE ~ Taken(e.parts, e.slot, st, i)
  <2>1. x[st][i] = y[st][i]
    BY <1>3 DEF BackIn
  <2>2. Within(b[st][i], a[st][i])
    BY <1>3, AfterWithin DEF PlacedIn
  <2>3. Within(y[st][i], b[st][i])
    BY AllWithinFacts
  <2> QED BY <1>1, <2>1, <2>2, <2>3, WithinTrans
<1> QED
  BY <1>2, <1>3

\* The metadata put back lie within those the ubatches were placed on.
LEMMA BackWithin ==
  ASSUME NEW n \in Nat, NEW L, NEW ms, NEW rs, Placed(ms, L, n), Backed(rs, ms, L, n)
  PROVE  \A k \in 1..n+1 : AllWithin(rs[k], ms[k])
<1> DEFINE T == {j \in 0..n : AllWithin(rs[n+1-j], ms[n+1-j])}
<1>1. \A k \in 1..n+1 : ms[k] \in Tables /\ rs[k] \in Tables
  BY DEF Placed, Backed
<1>2. 0 \in T
  <2>1. n + 1 - 0 = n + 1 /\ n + 1 \in 1..n+1 /\ 0 \in 0..n
    OBVIOUS
  <2>2. rs[n+1] = ms[n+1] /\ ms[n+1] \in Tables
    BY <1>1, <2>1 DEF Backed
  <2>3. AllWithin(rs[n+1], ms[n+1])
    <3>1. \A st \in Streams, i \in Idx : ms[n+1][st][i] \in CellSet
      BY <2>2 DEF Tables, Grid
    <3> QED BY <2>2, <3>1, WithinSelf DEF AllWithin
  <2> QED BY <2>1, <2>3
<1>3. ASSUME NEW j \in 0..n-1, j \in T PROVE j + 1 \in T
  <2> DEFINE k == n - j
  <2>1. k \in 1..n /\ k + 1 = n + 1 - j /\ n + 1 - (j + 1) = k /\ k \in 1..n+1 /\ k + 1 \in 1..n+1 /\ j + 1 \in 0..n
    OBVIOUS
  <2> HIDE DEF k
  <2>2. AllWithin(rs[k+1], ms[k+1])
    BY <1>3, <2>1
  <2>3. PlacedIn(ms[k], L[k], ms[k+1]) /\ BackIn(rs[k], L[k], ms[k], rs[k+1])
    BY <2>1 DEF Placed, Backed
  <2>4. AllWithin(rs[k], ms[k])
    BY <1>1, <2>1, <2>2, <2>3, BackStep
  <2> QED BY <2>1, <2>4
<1>4. 0..n \subseteq T
  <2> HIDE DEF T
  <2> QED BY <1>2, <1>3, Upward
<1> SUFFICES ASSUME NEW k \in 1..n+1 PROVE AllWithin(rs[k], ms[k])
  OBVIOUS
<1>5. n + 1 - k \in 0..n /\ n + 1 - (n + 1 - k) = k
  OBVIOUS
<1>6. n + 1 - k \in T
  BY <1>4, <1>5
<1> QED
  BY <1>5, <1>6

\* Cells left of the same cell compare as their sequences do.
LEMMA WithinBySeqs ==
  ASSUME NEW c \in CellSet, NEW d \in CellSet, NEW e \in CellSet, Within(c, e), Within(d, e), c.seqs \subseteq d.seqs
  PROVE  Within(c, d)
<1>1. CASE c = EmptyCell
  BY <1>1 DEF Within
<1>2. CASE c # EmptyCell
  <2>1. c.seqs # {} /\ d # EmptyCell
    BY <1>2, CellFacts
  <2>2. /\ c.pos = e.pos /\ c.tok = e.tok /\ c.shift = e.shift /\ c.mark = e.mark
        /\ d.pos = e.pos /\ d.tok = e.tok /\ d.shift = e.shift /\ d.mark = e.mark
    BY <1>2, <2>1, WithinHas
  <2> QED BY <2>1, <2>2 DEF Within
<1> QED BY <1>1, <1>2

\* The next ubatch of a decode: the cells are between those put back and those the ubatch
\* was placed on, the cells of its slot are as they were then, and applying it leaves
\* cells between those put back and those placed on next.
LEMMA Sandwich ==
  ASSUME NEW a \in Tables, NEW e, NEW b \in Tables, NEW x \in Tables, NEW y \in Tables, NEW cs \in Tables,
         PlacedIn(a, e, b), BackIn(x, e, a, y), AllWithin(y, b), AllWithin(x, cs), AllWithin(cs, a)
  PROVE  /\ \A st \in Streams, i \in Idx : Taken(e.parts, e.slot, st, i) => cs[st][i] = a[st][i]
         /\ CellsAfter(cs, e.parts, e.slot) \in Tables
         /\ AllWithin(y, CellsAfter(cs, e.parts, e.slot))
         /\ AllWithin(CellsAfter(cs, e.parts, e.slot), b)
<1> DEFINE p == e.parts
           s == e.slot
           ds == CellsAfter(cs, p, s)
<1>0. Ubatch(p) /\ SlotOK(p, s) /\ b = CellsAfter(a, p, s)
  BY DEF PlacedIn
<1>1. ASSUME NEW st \in Streams, NEW i \in Idx, Taken(p, s, st, i) PROVE cs[st][i] = a[st][i]
  <2>1. x[st][i] = a[st][i]
    BY <1>1 DEF BackIn
  <2>2. Within(x[st][i], cs[st][i]) /\ Within(cs[st][i], a[st][i]) /\ cs[st][i] \in CellSet /\ a[st][i] \in CellSet
    BY AllWithinFacts
  <2> QED BY <2>1, <2>2, WithinBoth
<1>2. ds \in Tables
  BY <1>0, AfterTyped
<1>3. \A st \in Streams : \A q, z : Loses(cs, p, s, st, q, z) <=> Loses(a, p, s, st, q, z)
  <2> HIDE DEF p, s
  <2> QED BY <1>1 DEF Loses
<1>4. ASSUME NEW st \in Streams, NEW i \in Idx
      PROVE  Within(ds[st][i], b[st][i]) /\ Within(y[st][i], ds[st][i])
  <2> DEFINE c == CellPut(cs, p, s, st, i)
             d == CellPut(a, p, s, st, i)
             u == ds[st][i]
             v == b[st][i]
             w == y[st][i]
  <2>1. /\ c \in CellSet /\ u \in CellSet /\ Within(u, c)
        /\ u.seqs = {q \in c.seqs : ~ Loses(cs, p, s, st, q, c.pos)}
    <3> HIDE DEF p, s
    <3> QED BY <1>0, AfterFacts
  <2>2. /\ d \in CellSet /\ v \in CellSet /\ Within(v, d)
        /\ v.seqs = {q \in d.seqs : ~ Loses(a, p, s, st, q, d.pos)}
    <3> HIDE DEF p, s
    <3> QED BY <1>0, AfterFacts
  <2>3. w \in CellSet /\ Within(w, v)
    BY AllWithinFacts
  <2>4. Within(c, d)
    <3>1. CASE Taken(p, s, st, i)
      BY <2>1, <3>1, WithinSelf DEF CellPut
    <3>2. CASE ~ Taken(p, s, st, i)
      BY <3>2, AllWithinFacts DEF CellPut
    <3> QED BY <3>1, <3>2
  <2>5. \A q \in w.seqs : q \in c.seqs
    <3>1. CASE Taken(p, s, st, i)
      <4>1. c = d
        BY <3>1 DEF CellPut
      <4> HIDE DEF c, d, v, w, p, s
      <4> QED BY <2>2, <2>3, <4>1, WithinHas
    <3>2. CASE ~ Taken(p, s, st, i)
      <4>1. c = cs[st][i] /\ x[st][i] = w
        BY <3>2 DEF CellPut, BackIn
      <4>2. Within(w, c)
        BY <4>1, AllWithinFacts
      <4> HIDE DEF c, d, v, w, p, s
      <4> QED BY <2>1, <2>3, <4>2, WithinHas
    <3> QED BY <3>1, <3>2
  <2> HIDE DEF c, d, u, v, w, p, s
  <2>6. \A q \in c.seqs : q \in d.seqs /\ c.pos = d.pos
    BY <2>1, <2>2, <2>4, WithinHas
  <2>7. \A q \in u.seqs : q \in v.seqs
    BY <1>3, <2>1, <2>2, <2>6
  <2>8. \A q \in w.seqs : q \in u.seqs
    <3> TAKE q \in w.seqs
    <3>1. q \in v.seqs /\ q \in c.seqs
      BY <2>2, <2>3, <2>5, WithinHas
    <3> QED BY <1>3, <2>1, <2>2, <2>6, <3>1
  <2>9. Within(u, d) /\ Within(w, d)
    BY <2>1, <2>2, <2>3, <2>4, WithinTrans
  <2>10. Within(u, v) /\ Within(w, u)
    BY <2>1, <2>2, <2>3, <2>7, <2>8, <2>9, WithinBySeqs
  <2> QED BY <2>10 DEF u, v, w
<1>5. AllWithin(y, ds) /\ AllWithin(ds, b)
  BY <1>4 DEF AllWithin
<1> QED
  BY <1>1, <1>2, <1>5

-----------------------------------------------------------------------------
(* The positions of a sequence while ubatches are placed *)

Brings(parts, s) == {t.pos : t \in {u \in TokensOf(parts) : s \in u.seqs}}
\* The ubatch brings a sequence its positions from b[s] to below c[s].
BringsFrom(parts, b, c) ==
  \A s \in Seqs : b[s] <= c[s] /\ Brings(parts, s) = b[s]..c[s]-1
Below(cs, b) == \A s \in Seqs : \A p \in PosIn(cs, s) : p < b[s]
Whole(cs, b, s) == \E a \in Int : a <= b[s] /\ PosIn(cs, s) = a..b[s]-1
LosesAt(cs, e, s, p) == Loses(cs, e.parts, e.slot, conf.stream[s], s, p)

\* A position of a sequence is that of one of its cells.
LEMMA InPos ==
  ASSUME NEW cs, NEW s, NEW p
  PROVE  p \in PosIn(cs, s) <=> \E i \in Idx : s \in cs[conf.stream[s]][i].seqs /\ cs[conf.stream[s]][i].pos = p
  BY DEF PosIn

\* The positions of a sequence are numbers below MaxPos.
LEMMA PosTyped ==
  ASSUME conf \in Configs, NEW cs \in Tables, NEW s \in Seqs
  PROVE  /\ conf.stream[s] \in Streams
         /\ \A i \in Idx : cs[conf.stream[s]][i] \in CellSet
         /\ PosIn(cs, s) \subseteq 0..MaxPos-1 /\ PosIn(cs, s) \subseteq Int
<1>1. conf.stream[s] \in Streams
  BY StreamsFacts
<1>2. \A i \in Idx : cs[conf.stream[s]][i] \in CellSet
  BY <1>1 DEF Tables, Grid
<1>3. ASSUME NEW p \in PosIn(cs, s) PROVE p \in 0..MaxPos-1 /\ p \in Int
  <2>1. PICK i \in Idx : s \in cs[conf.stream[s]][i].seqs /\ cs[conf.stream[s]][i].pos = p
    BY InPos
  <2> DEFINE c == cs[conf.stream[s]][i]
  <2>2. c \in CellSet /\ s \in c.seqs /\ c.pos = p
    BY <1>2, <2>1
  <2> HIDE DEF c
  <2>3. c # EmptyCell
    BY <2>2 DEF EmptyCell
  <2>4. p \in 0..MaxPos-1
    BY <2>2, <2>3, CellFacts
  <2> QED BY <2>4, BoundAssumption
<1> QED
  BY <1>1, <1>2, <1>3

\* A sequence keeps the positions above those it loses, and gets those it is brought.
LEMMA PosAfter ==
  ASSUME conf \in Configs, NEW a \in Tables, NEW e, NEW b \in Tables, PlacedIn(a, e, b), NEW s \in Seqs,
         NEW n \in Int, \A p \in PosIn(a, s) : p < n, \A p \in Brings(e.parts, s) : p >= n
  PROVE  PosIn(b, s) = {p \in PosIn(a, s) : ~ LosesAt(a, e, s, p)} \cup Brings(e.parts, s)
<1> DEFINE st == conf.stream[s]
           P == e.parts
           S == e.slot
           c(i) == CellPut(a, P, S, st, i)
<1>1. Ubatch(P) /\ SlotOK(P, S) /\ b = CellsAfter(a, P, S)
  BY DEF PlacedIn
<1>2. st \in Streams /\ \A i \in Idx : a[st][i] \in CellSet
  BY PosTyped
<1>3. \A i \in Idx : /\ c(i) \in CellSet /\ b[st][i] \in CellSet /\ Within(b[st][i], c(i))
                     /\ b[st][i].seqs = {q \in c(i).seqs : ~ Loses(a, P, S, st, q, c(i).pos)}
  <2> HIDE DEF P, S, st
  <2> QED BY <1>1, <1>2, AfterFacts
<1>4. \A i \in Idx : s \in b[st][i].seqs <=> s \in c(i).seqs /\ ~ Loses(a, P, S, st, s, c(i).pos)
  <2> HIDE DEF c, st
  <2> QED BY <1>3
<1>5. \A i \in Idx : s \in b[st][i].seqs => b[st][i].pos = c(i).pos
  <2> HIDE DEF c, st
  <2> QED BY <1>3, WithinHas
<1>6. \A q : LosesAt(a, e, s, q) <=> Loses(a, P, S, st, s, q)
  BY DEF LosesAt
<1>7. ASSUME NEW p \in PosIn(b, s)
      PROVE  (p \in PosIn(a, s) /\ ~ LosesAt(a, e, s, p)) \/ p \in Brings(P, s)
  <2>1. PICK i \in Idx : s \in b[st][i].seqs /\ b[st][i].pos = p
    BY InPos
  <2>2. s \in c(i).seqs /\ ~ Loses(a, P, S, st, s, p) /\ c(i).pos = p
    <3> HIDE DEF c, P, S, st
    <3> QED BY <1>4, <1>5, <2>1
  <2>3. CASE Taken(P, S, st, i)
    <3> DEFINE t == TokenAt(P, S, st, i)
    <3>1. t \in TokensOf(P) /\ t \in Tokens
      <4> HIDE DEF P, S, st
      <4> QED BY <1>1, <2>3, TakenFacts
    <3>2. c(i) = NewCell(t)
      BY <2>3 DEF CellPut
    <3> HIDE DEF t, c, P
    <3>3. s \in t.seqs /\ t.pos = p
      BY <2>2, <3>1, <3>2, NewCellFacts
    <3> QED BY <3>1, <3>3 DEF Brings
  <2>4. CASE ~ Taken(P, S, st, i)
    <3>1. c(i) = a[st][i]
      BY <2>4 DEF CellPut
    <3>2. p \in PosIn(a, s)
      <4> HIDE DEF c
      <4> QED BY <2>2, <3>1, InPos
    <3> QED BY <1>6, <2>2, <3>2
  <2> QED BY <2>3, <2>4
<1>8. ASSUME NEW p \in PosIn(a, s), ~ LosesAt(a, e, s, p)
      PROVE  p \in PosIn(b, s)
  <2>1. PICK i \in Idx : s \in a[st][i].seqs /\ a[st][i].pos = p
    BY InPos
  <2>2. p \in Int /\ p <= p
    BY PosTyped
  <2>3. ~ Taken(P, S, st, i)
    <3> HIDE DEF P, S, st
    <3> QED BY <1>6, <1>8, <2>1, <2>2 DEF Loses
  <2>4. c(i) = a[st][i]
    BY <2>3 DEF CellPut
  <2>5. s \in b[st][i].seqs /\ b[st][i].pos = p
    <3> HIDE DEF c, P, S, st
    <3> QED BY <1>4, <1>5, <1>6, <1>8, <2>1, <2>4
  <2> QED BY <2>5, InPos
<1>9. ASSUME NEW p \in Brings(P, s)
      PROVE  p \in PosIn(b, s)
  <2>1. PICK t \in TokensOf(P) : s \in t.seqs /\ t.pos = p
    <3> HIDE DEF P
    <3> QED BY <1>9 DEF Brings
  <2>2. PICK z \in Streams, i \in Idx : Taken(P, S, z, i) /\ TokenAt(P, S, z, i) = t
    <3> HIDE DEF P, S
    <3> QED BY <1>1, TokenTakes
  <2>3. t \in Tokens /\ st = z
    <3> HIDE DEF P, S
    <3> QED BY <1>1, <2>1, <2>2, TakenFacts
  <2>4. c(i) = NewCell(t)
    BY <2>2, <2>3 DEF CellPut
  <2>5. s \in c(i).seqs /\ c(i).pos = p
    <3> HIDE DEF c
    <3> QED BY <2>1, <2>3, <2>4, NewCellFacts
  <2>6. ~ Loses(a, P, S, st, s, p)
    <3> SUFFICES ASSUME Loses(a, P, S, st, s, p) PROVE FALSE
      OBVIOUS
    <3>1. PICK y \in Idx : s \in a[st][y].seqs /\ p <= a[st][y].pos
      <4> HIDE DEF P, S, st
      <4> QED BY DEF Loses
    <3> DEFINE r == a[st][y].pos
    <3>2. r \in PosIn(a, s)
      BY <3>1, InPos
    <3>3. r \in Int /\ r < n /\ p >= n /\ p <= r
      BY <1>9, <3>1, <3>2, PosTyped
    <3>4. p \in Int
      <4>1. t.pos \in 0..MaxPos-1
        BY <2>3 DEF Tokens
      <4> QED BY <2>1, <4>1, BoundAssumption
    <3> HIDE DEF r
    <3> QED BY <3>3, <3>4
  <2>7. s \in b[st][i].seqs /\ b[st][i].pos = p
    <3> HIDE DEF c, P, S, st
    <3> QED BY <1>4, <1>5, <2>5, <2>6
  <2> QED BY <2>7, InPos
<1> QED
  BY <1>7, <1>8, <1>9

\* The next positions stay above all positions of their sequence.
LEMMA BelowStep ==
  ASSUME conf \in Configs, NEW a \in Tables, NEW e, NEW b \in Tables, PlacedIn(a, e, b),
         NEW p \in [Seqs -> Int], NEW q \in [Seqs -> Int], BringsFrom(e.parts, p, q), Below(a, p)
  PROVE  Below(b, q)
<1> SUFFICES ASSUME NEW s \in Seqs, NEW x \in PosIn(b, s) PROVE x < q[s]
  BY DEF Below
<1>1. p[s] \in Int /\ q[s] \in Int /\ p[s] <= q[s] /\ Brings(e.parts, s) = p[s]..q[s]-1
  BY DEF BringsFrom
<1>2. \A y \in PosIn(a, s) : y < p[s] /\ y \in Int
  BY PosTyped DEF Below
<1>3. PosIn(b, s) = {y \in PosIn(a, s) : ~ LosesAt(a, e, s, y)} \cup Brings(e.parts, s)
  <2>1. \A y \in Brings(e.parts, s) : y >= p[s]
    BY <1>1
  <2> QED BY <1>1, <1>2, <2>1, PosAfter
<1>4. x \in PosIn(a, s) \/ x \in p[s]..q[s]-1
  BY <1>1, <1>3
<1> QED
  BY <1>1, <1>2, <1>4

\* What is lost is the beginning of a sequence, so one without a gap stays so.
LEMMA WholeStep ==
  ASSUME conf \in Configs, NEW a \in Tables, NEW e, NEW b \in Tables, PlacedIn(a, e, b),
         NEW p \in [Seqs -> Int], NEW q \in [Seqs -> Int], BringsFrom(e.parts, p, q), Below(a, p),
         NEW s \in Seqs, Whole(a, p, s)
  PROVE  Whole(b, q, s)
<1> DEFINE m == p[s]
           n == q[s]
           K == {y \in PosIn(a, s) : ~ LosesAt(a, e, s, y)}
           U == {y \in PosIn(a, s) : LosesAt(a, e, s, y)}
<1>1. m \in Int /\ n \in Int /\ m <= n /\ Brings(e.parts, s) = m..n-1
  BY DEF BringsFrom
<1>2. \A y \in PosIn(a, s) : y < m /\ y \in Int
  BY PosTyped DEF Below
<1>3. PosIn(b, s) = K \cup Brings(e.parts, s)
  <2>1. \A y \in Brings(e.parts, s) : y >= m
    BY <1>1
  <2>2. m \in Int /\ \A y \in PosIn(a, s) : y < m
    BY <1>1, <1>2
  <2> HIDE DEF m
  <2> QED BY <2>1, <2>2, PosAfter
<1>4. PICK f \in Int : f <= m /\ PosIn(a, s) = f..m-1
  BY DEF Whole
<1>5. \A y, z \in PosIn(a, s) : y <= z /\ LosesAt(a, e, s, z) => LosesAt(a, e, s, y)
  <2> SUFFICES ASSUME NEW y \in PosIn(a, s), NEW z \in PosIn(a, s), y <= z, LosesAt(a, e, s, z)
               PROVE  LosesAt(a, e, s, y)
    OBVIOUS
  <2>1. PICK w \in Idx : /\ Taken(e.parts, e.slot, conf.stream[s], w)
                         /\ s \in a[conf.stream[s]][w].seqs /\ z <= a[conf.stream[s]][w].pos
    BY DEF LosesAt, Loses
  <2>2. a[conf.stream[s]][w].pos \in PosIn(a, s)
    BY <2>1, InPos
  <2>3. y \in Int /\ z \in Int /\ a[conf.stream[s]][w].pos \in Int
    BY <1>2, <2>2
  <2>4. y <= a[conf.stream[s]][w].pos
    BY <2>1, <2>3
  <2> QED BY <2>1, <2>4 DEF LosesAt, Loses
<1> HIDE DEF m, n
<1>6. \E g \in Int : g <= m /\ K = g..m-1
  <2>1. CASE U = {}
    <3>1. K = f..m-1
      BY <1>4, <2>1
    <3> QED BY <1>4, <3>1
  <2>2. CASE U # {}
    <3> DEFINE N == m - 1
    <3>1. N \in Int /\ U \subseteq Int /\ \A y \in U : y <= N
      BY <1>1, <1>2
    <3> HIDE DEF U, N
    <3>2. Max(U) \in U /\ \A y \in U : Max(U) >= y
      BY <2>2, <3>1, MaxOfBounded
    <3> DEFINE x == Max(U)
    <3>3. x \in U /\ \A y \in U : x >= y
      BY <3>2
    <3> HIDE DEF x
    <3>4. x \in f..m-1 /\ LosesAt(a, e, s, x) /\ x \in PosIn(a, s)
      BY <1>4, <3>3 DEF U
    <3>5. \A y \in f..m-1 : LosesAt(a, e, s, y) <=> y <= x
      <4> TAKE y \in f..m-1
      <4>1. y \in PosIn(a, s) /\ y \in Int /\ x \in Int
        BY <1>4, <3>4
      <4>2. LosesAt(a, e, s, y) => y <= x
        <5>1. LosesAt(a, e, s, y) => y \in U
          BY <4>1 DEF U
        <5> QED BY <3>3, <4>1, <5>1
      <4>3. y <= x => LosesAt(a, e, s, y)
        BY <1>5, <3>4, <4>1
      <4> QED BY <4>2, <4>3
    <3>6. K = {y \in f..m-1 : ~ (y <= x)}
      BY <1>4, <3>5
    <3>7. x + 1 \in Int /\ x + 1 <= m /\ {y \in f..m-1 : ~ (y <= x)} = x+1..m-1
      BY <1>1, <1>4, <3>4
    <3> HIDE DEF K
    <3> QED BY <3>6, <3>7
  <2> QED BY <2>1, <2>2
<1>7. PICK g \in Int : g <= m /\ K = g..m-1
  BY <1>6
<1>8. PosIn(b, s) = g..n-1 /\ g <= n
  <2>1. (g..m-1) \cup (m..n-1) = g..n-1
    BY <1>1, <1>7
  <2> HIDE DEF K
  <2> QED BY <1>1, <1>3, <1>7, <2>1
<1> QED
  BY <1>8 DEF Whole, n

-----------------------------------------------------------------------------
(* What is lost is masked *)

\* seq_pos_max and seq_pos_min are the ends of the positions of a sequence.
LEMMA PosEnds ==
  ASSUME conf \in Configs, NEW cs \in Tables, NEW s \in Seqs
  PROVE  /\ PosMax(cs, s) \in -1..MaxPos-1 /\ PosMax(cs, s) \in Int
         /\ \A p \in PosIn(cs, s) : p <= PosMax(cs, s)
         /\ PosIn(cs, s) # {} => PosMax(cs, s) \in PosIn(cs, s)
         /\ PosIn(cs, s) # {} => PosMin(cs, s) \in PosIn(cs, s) /\ \A p \in PosIn(cs, s) : PosMin(cs, s) <= p
<1> DEFINE S == PosIn(cs, s)
<1>1. S \subseteq 0..MaxPos-1 /\ MaxPos \in Nat
  BY PosTyped, BoundAssumption
<1>2. PosMax(cs, s) = IF S = {} THEN -1 ELSE Max(S)
  BY DEF PosMax
<1>3. PosMin(cs, s) = IF S = {} THEN -1 ELSE Min(S)
  BY DEF PosMin
<1> HIDE DEF S
<1>4. CASE S = {}
  <2>1. PosMax(cs, s) = -1
    BY <1>2, <1>4
  <2> QED BY <1>1, <1>4, <2>1 DEF S
<1>5. CASE S # {}
  <2>1. S \subseteq Int /\ S \subseteq Nat /\ MaxPos \in Int /\ \A x \in S : x <= MaxPos
    BY <1>1
  <2>2. Max(S) \in S /\ \A y \in S : Max(S) >= y
    BY <1>5, <2>1, MaxOfBounded
  <2>3. Min(S) \in S /\ \A y \in S : Min(S) <= y
    BY <1>5, <2>1, MinOfNat
  <2>4. PosMax(cs, s) = Max(S) /\ PosMin(cs, s) = Min(S)
    BY <1>2, <1>3, <1>5
  <2> QED BY <1>1, <2>1, <2>2, <2>3, <2>4 DEF S
<1> QED
  BY <1>4, <1>5

\* A taken cell is masked for what comes behind the sequence it was taken from.
LEMMA TakenMasked ==
  ASSUME conf \in Configs, NEW a \in Tables, NEW e, NEW b, PlacedIn(a, e, b), NEW s \in Seqs, NEW y \in Idx,
         Taken(e.parts, e.slot, conf.stream[s], y), s \in a[conf.stream[s]][y].seqs,
         NEW P \in Int, \A p \in PosIn(a, s) : p < P
  PROVE  Masked(a[conf.stream[s]][y].pos, P)
<1> DEFINE c == a[conf.stream[s]][y]
<1>1. c \in CellSet /\ conf.stream[s] \in Streams
  BY PosTyped
<1>2. CanUse(a, c)
  BY <1>1 DEF PlacedIn, Usable
<1>3. c.pos \in PosIn(a, s)
  BY InPos
<1> HIDE DEF c
<1>4. c.pos # -1 /\ c.pos \in Int
  BY <1>1, CellFacts DEF c, EmptyCell
<1>5. Masked(c.pos, PosMax(a, s) + 1)
  <2>1. s \in c.seqs
    BY DEF c
  <2> QED BY <1>2, <1>4, <2>1 DEF CanUse
<1>6. PosMax(a, s) \in Int /\ PosMax(a, s) < P
  BY <1>3, PosEnds
<1>7. conf.swa \in Nat
  BY StreamsFacts
<1>8. Masked(c.pos, P)
  BY <1>4, <1>5, <1>6, <1>7 DEF Masked
<1> QED
  BY <1>8 DEF c

\* What lies before a masked position is masked (is_masked_swa).
LEMMA MaskedBelow ==
  ASSUME conf \in Configs, NEW p \in Int, NEW q \in Int, NEW P \in Int, p <= q, Masked(q, P)
  PROVE  Masked(p, P)
<1>1. conf.swa \in Nat
  BY StreamsFacts
<1> QED
  BY <1>1 DEF Masked

\* So a cell the sequence still sees from P neither is taken nor loses it.
LEMMA SeenStays ==
  ASSUME conf \in Configs, NEW a \in Tables, NEW e, NEW b, PlacedIn(a, e, b), NEW s \in Seqs, NEW i \in Idx,
         s \in a[conf.stream[s]][i].seqs,
         NEW P \in Int, \A p \in PosIn(a, s) : p < P, ~ Masked(a[conf.stream[s]][i].pos, P)
  PROVE  /\ ~ Taken(e.parts, e.slot, conf.stream[s], i)
         /\ ~ LosesAt(a, e, s, a[conf.stream[s]][i].pos)
<1> DEFINE st == conf.stream[s]
<1>1. ~ Taken(e.parts, e.slot, st, i)
  BY TakenMasked
<1>2. ASSUME LosesAt(a, e, s, a[st][i].pos) PROVE FALSE
  <2>1. PICK y \in Idx : Taken(e.parts, e.slot, st, y) /\ s \in a[st][y].seqs /\ a[st][i].pos <= a[st][y].pos
    BY <1>2 DEF LosesAt, Loses
  <2>2. Masked(a[st][y].pos, P)
    BY <2>1, TakenMasked
  <2>3. a[st][y].pos \in PosIn(a, s) /\ a[st][i].pos \in PosIn(a, s)
    BY <2>1, InPos
  <2>4. a[st][y].pos \in Int /\ a[st][i].pos \in Int
    BY <2>3, PosTyped
  <2>5. Masked(a[st][i].pos, P)
    BY <2>1, <2>2, <2>4, MaskedBelow
  <2> QED BY <2>5
<1> QED
  BY <1>1, <1>2

\* A cell that is not taken and does not lose the sequence has it afterwards.
LEMMA StaysIn ==
  ASSUME conf \in Configs, NEW a \in Tables, NEW e, NEW b \in Tables, PlacedIn(a, e, b), NEW s \in Seqs, NEW i \in Idx,
         s \in a[conf.stream[s]][i].seqs, ~ Taken(e.parts, e.slot, conf.stream[s], i),
         ~ LosesAt(a, e, s, a[conf.stream[s]][i].pos)
  PROVE  /\ s \in b[conf.stream[s]][i].seqs /\ b[conf.stream[s]][i].pos = a[conf.stream[s]][i].pos
         /\ b[conf.stream[s]][i].tok = a[conf.stream[s]][i].tok
<1> DEFINE st == conf.stream[s]
           c == CellPut(a, e.parts, e.slot, st, i)
           d == b[st][i]
<1>1. st \in Streams
  BY PosTyped
<1>2. c = a[st][i]
  BY DEF CellPut
<1>3. c \in CellSet /\ d \in CellSet /\ Within(d, c) /\ d.seqs = {q \in c.seqs : ~ Loses(a, e.parts, e.slot, st, q, c.pos)}
  <2>1. Ubatch(e.parts) /\ SlotOK(e.parts, e.slot) /\ b = CellsAfter(a, e.parts, e.slot)
    BY DEF PlacedIn
  <2> HIDE DEF st
  <2> QED BY <1>1, <2>1, AfterFacts
<1>4. ~ Loses(a, e.parts, e.slot, st, s, c.pos)
  BY <1>2 DEF LosesAt
<1> HIDE DEF c, d
<1>5. s \in d.seqs
  BY <1>2, <1>3, <1>4
<1>6. d.pos = c.pos /\ d.tok = c.tok
  BY <1>3, <1>5, WithinHas
<1> QED
  BY <1>2, <1>5, <1>6 DEF d

\* Every cell of a that s sees from P has it in x too.
Keeps(x, a, s, P) ==
  \A i \in Idx : s \in a[conf.stream[s]][i].seqs /\ ~ Masked(a[conf.stream[s]][i].pos, P)
                   => s \in x[conf.stream[s]][i].seqs

\* Putting one more ubatch back keeps what a sequence sees.
LEMMA KeepsStep ==
  ASSUME conf \in Configs, NEW a \in Tables, NEW e, NEW b \in Tables, NEW x, NEW y,
         PlacedIn(a, e, b), BackIn(x, e, a, y), NEW s \in Seqs, NEW P \in Int, \A p \in PosIn(a, s) : p < P,
         Keeps(y, b, s, P)
  PROVE  Keeps(x, a, s, P)
<1> DEFINE st == conf.stream[s]
<1> SUFFICES ASSUME NEW i \in Idx, s \in a[st][i].seqs, ~ Masked(a[st][i].pos, P)
             PROVE  s \in x[st][i].seqs
  BY DEF Keeps
<1>1. ~ Taken(e.parts, e.slot, st, i) /\ ~ LosesAt(a, e, s, a[st][i].pos)
  BY SeenStays
<1>2. s \in b[st][i].seqs /\ b[st][i].pos = a[st][i].pos
  BY <1>1, StaysIn
<1>3. s \in y[st][i].seqs
  BY <1>2 DEF Keeps
<1>4. x[st][i] = y[st][i]
  BY <1>1, PosTyped DEF BackIn
<1> QED
  BY <1>3, <1>4

\* The sequence reaches in x as far as in a.
Reaches(x, a, s) ==
  \A i \in Idx : s \in a[conf.stream[s]][i].seqs =>
    \E j \in Idx : s \in x[conf.stream[s]][j].seqs /\ a[conf.stream[s]][i].pos <= x[conf.stream[s]][j].pos

\* Putting an ubatch back without a token of a sequence leaves the sequence its largest position.
LEMMA ReachesStep ==
  ASSUME conf \in Configs, NEW a \in Tables, NEW e, NEW b \in Tables, NEW x, NEW y \in Tables,
         PlacedIn(a, e, b), BackIn(x, e, a, y), AllWithin(y, b), NEW s \in Seqs, Brings(e.parts, s) = {},
         Reaches(y, b, s)
  PROVE  Reaches(x, a, s)
<1> DEFINE st == conf.stream[s]
           P == e.parts
           S == e.slot
<1> SUFFICES ASSUME NEW i \in Idx, s \in a[st][i].seqs
             PROVE  \E j \in Idx : s \in x[st][j].seqs /\ a[st][i].pos <= x[st][j].pos
  BY DEF Reaches
<1>1. st \in Streams /\ \A j \in Idx : a[st][j] \in CellSet /\ a[st][j].pos \in Int
  BY PosTyped, CellFacts
<1>2. CASE Taken(P, S, st, i)
  <2>1. x[st][i] = a[st][i]
    BY <1>1, <1>2 DEF BackIn
  <2>2. a[st][i].pos <= x[st][i].pos
    BY <1>1, <2>1
  <2> QED BY <2>1, <2>2
<1>3. CASE LosesAt(a, e, s, a[st][i].pos)
  <2>1. PICK w \in Idx : Taken(P, S, st, w) /\ s \in a[st][w].seqs /\ a[st][i].pos <= a[st][w].pos
    BY <1>3 DEF LosesAt, Loses
  <2>2. x[st][w] = a[st][w]
    BY <1>1, <2>1 DEF BackIn
  <2> QED BY <2>1, <2>2
<1>4. CASE ~ Taken(P, S, st, i) /\ ~ LosesAt(a, e, s, a[st][i].pos)
  <2>1. s \in b[st][i].seqs /\ b[st][i].pos = a[st][i].pos
    BY <1>4, StaysIn
  <2>2. PICK j \in Idx : s \in y[st][j].seqs /\ b[st][i].pos <= y[st][j].pos
    BY <2>1 DEF Reaches
  <2>3. ~ Taken(P, S, st, j)
    <3> SUFFICES ASSUME Taken(P, S, st, j) PROVE FALSE
      OBVIOUS
    <3> DEFINE t == TokenAt(P, S, st, j)
    <3>1. Ubatch(P) /\ SlotOK(P, S) /\ b = CellsAfter(a, P, S)
      BY DEF PlacedIn
    <3>2. t \in TokensOf(P) /\ t \in Tokens
      <4> HIDE DEF P, S, st
      <4> QED BY <3>1, TakenFacts
    <3>3. CellPut(a, P, S, st, j) = NewCell(t)
      BY DEF CellPut
    <3>4. /\ CellPut(a, P, S, st, j) \in CellSet /\ b[st][j] \in CellSet
          /\ Within(b[st][j], CellPut(a, P, S, st, j))
      <4> HIDE DEF P, S, st
      <4> QED BY <1>1, <3>1, AfterFacts
    <3>5. y[st][j] \in CellSet /\ Within(y[st][j], b[st][j])
      BY <1>1, AllWithinFacts
    <3> HIDE DEF t, P, S, st
    <3>6. s \in b[st][j].seqs
      BY <2>2, <3>4, <3>5, WithinHas
    <3>7. s \in NewCell(t).seqs
      BY <3>3, <3>4, <3>6, WithinHas
    <3>8. t.pos \in Brings(P, s)
      BY <3>2, <3>7, NewCellFacts DEF Brings
    <3> QED BY <3>8 DEF P
  <2>4. x[st][j] = y[st][j]
    BY <1>1, <2>3 DEF BackIn
  <2> QED BY <2>1, <2>2, <2>4
<1> QED
  BY <1>2, <1>3, <1>4

-----------------------------------------------------------------------------
(* The ubatches of a batch, one after the other *)

Advances(bs, L, n) ==
  /\ bs \in [1..n+1 -> [Seqs -> Int]]
  /\ \A k \in 1..n : BringsFrom(L[k].parts, bs[k], bs[k+1])
\* The whole of a trial: what is placed, what is put back, the positions brought.
Course(ms, rs, bs, L, n) ==
  Placed(ms, L, n) /\ Backed(rs, ms, L, n) /\ Advances(bs, L, n) /\ Below(ms[1], bs[1])

\* The next positions lie above those of the metadata, ubatch by ubatch.
LEMMA CourseBelow ==
  ASSUME conf \in Configs, NEW n \in Nat, NEW L, NEW ms, NEW rs, NEW bs, Course(ms, rs, bs, L, n)
  PROVE  \A k \in 1..n+1 : Below(ms[k], bs[k])
<1> DEFINE T == {j \in 0..n : Below(ms[j+1], bs[j+1])}
<1>1. 0 \in T
  BY DEF Course
<1>2. ASSUME NEW j \in 0..n-1, j \in T PROVE j + 1 \in T
  <2>1. j + 1 \in 1..n /\ j + 1 \in 1..n+1 /\ (j + 1) + 1 \in 1..n+1 /\ j + 1 \in 0..n
    OBVIOUS
  <2> DEFINE k == j + 1
  <2>2. Below(ms[k], bs[k])
    BY <1>2
  <2> HIDE DEF k
  <2>3. /\ PlacedIn(ms[k], L[k], ms[k+1]) /\ BringsFrom(L[k].parts, bs[k], bs[k+1])
        /\ ms[k] \in Tables /\ ms[k+1] \in Tables /\ bs[k] \in [Seqs -> Int] /\ bs[k+1] \in [Seqs -> Int]
    BY <2>1 DEF Course, Placed, Advances, k
  <2>4. Below(ms[k+1], bs[k+1])
    BY <2>2, <2>3, BelowStep
  <2> QED BY <2>1, <2>4 DEF k
<1>3. 0..n \subseteq T
  <2> HIDE DEF T
  <2> QED BY <1>1, <1>2, Upward
<1> SUFFICES ASSUME NEW k \in 1..n+1 PROVE Below(ms[k], bs[k])
  OBVIOUS
<1>4. k - 1 \in 0..n /\ (k - 1) + 1 = k
  OBVIOUS
<1>5. k - 1 \in T
  BY <1>3, <1>4
<1> QED
  BY <1>4, <1>5

\* The next positions only grow.
LEMMA AdvancesUp ==
  ASSUME NEW n \in Nat, NEW L, NEW bs, Advances(bs, L, n), NEW s \in Seqs
  PROVE  \A k \in 1..n+1 : bs[1][s] <= bs[k][s] /\ bs[k][s] <= bs[n+1][s]
<1> DEFINE T == {j \in 0..n : bs[1][s] <= bs[j+1][s]}
           U == {j \in 0..n : bs[n+1-j][s] <= bs[n+1][s]}
<1>1. \A k \in 1..n+1 : bs[k][s] \in Int
  BY DEF Advances
<1>2. \A k \in 1..n : bs[k][s] <= bs[k+1][s]
  BY DEF Advances, BringsFrom
<1>3. 0 \in T /\ 0 \in U
  <2>1. n + 1 - 0 = n + 1 /\ n + 1 \in 1..n+1 /\ 1 \in 1..n+1 /\ 0 + 1 = 1 /\ 0 \in 0..n
    OBVIOUS
  <2>2. bs[1][s] <= bs[1][s] /\ bs[n+1][s] <= bs[n+1][s]
    BY <1>1, <2>1
  <2> QED BY <2>1, <2>2
<1>4. ASSUME NEW j \in 0..n-1, j \in T PROVE j + 1 \in T
  <2>1. j + 1 \in 1..n /\ j + 1 \in 1..n+1 /\ (j + 1) + 1 \in 1..n+1 /\ j + 1 \in 0..n /\ 1 \in 1..n+1
    OBVIOUS
  <2> DEFINE k == j + 1
  <2> HIDE DEF k
  <2>2. bs[1][s] <= bs[k][s] /\ bs[k][s] <= bs[k+1][s] /\ bs[k][s] \in Int /\ bs[k+1][s] \in Int /\ bs[1][s] \in Int
    BY <1>1, <1>2, <1>4, <2>1 DEF k
  <2>3. bs[1][s] <= bs[k+1][s]
    BY <2>2
  <2> QED BY <2>1, <2>3 DEF k
<1>5. ASSUME NEW j \in 0..n-1, j \in U PROVE j + 1 \in U
  <2> DEFINE k == n - j
  <2>1. k \in 1..n /\ k + 1 = n + 1 - j /\ n + 1 - (j + 1) = k /\ k \in 1..n+1 /\ k + 1 \in 1..n+1 /\ j + 1 \in 0..n /\ n + 1 \in 1..n+1
    OBVIOUS
  <2> HIDE DEF k
  <2>2. bs[k+1][s] <= bs[n+1][s] /\ bs[k][s] <= bs[k+1][s] /\ bs[k][s] \in Int /\ bs[k+1][s] \in Int /\ bs[n+1][s] \in Int
    BY <1>1, <1>2, <1>5, <2>1
  <2>3. bs[k][s] <= bs[n+1][s]
    BY <2>2
  <2> QED BY <2>1, <2>3
<1>6. 0..n \subseteq T /\ 0..n \subseteq U
  <2> HIDE DEF T, U
  <2>1. 0..n \subseteq T
    BY <1>3, <1>4, Upward
  <2>2. 0..n \subseteq U
    BY <1>3, <1>5, Upward
  <2> QED BY <2>1, <2>2
<1> SUFFICES ASSUME NEW k \in 1..n+1 PROVE bs[1][s] <= bs[k][s] /\ bs[k][s] <= bs[n+1][s]
  OBVIOUS
<1>7. k - 1 \in 0..n /\ (k - 1) + 1 = k /\ n + 1 - k \in 0..n /\ n + 1 - (n + 1 - k) = k
  OBVIOUS
<1>8. k - 1 \in T /\ n + 1 - k \in U
  BY <1>6, <1>7
<1> QED
  BY <1>7, <1>8

\* What a sequence sees from behind all it is brought is there when everything is put back.
LEMMA CourseKeeps ==
  ASSUME conf \in Configs, NEW n \in Nat, NEW L, NEW ms, NEW rs, NEW bs, Course(ms, rs, bs, L, n), NEW s \in Seqs,
         NEW P \in Int, bs[n+1][s] <= P
  PROVE  Keeps(rs[1], ms[1], s, P)
<1> DEFINE T == {j \in 0..n : Keeps(rs[n+1-j], ms[n+1-j], s, P)}
<1>1. \A k \in 1..n+1 : ms[k] \in Tables /\ rs[k] \in Tables /\ bs[k][s] \in Int
  BY DEF Course, Placed, Backed, Advances
<1>2. 0 \in T
  <2>1. n + 1 - 0 = n + 1 /\ n + 1 \in 1..n+1 /\ 0 \in 0..n
    OBVIOUS
  <2>2. rs[n+1] = ms[n+1]
    BY DEF Course, Backed
  <2>3. Keeps(rs[n+1], ms[n+1], s, P)
    BY <2>2 DEF Keeps
  <2> QED BY <2>1, <2>3
<1>3. ASSUME NEW j \in 0..n-1, j \in T PROVE j + 1 \in T
  <2> DEFINE k == n - j
  <2>1. k \in 1..n /\ k + 1 = n + 1 - j /\ n + 1 - (j + 1) = k /\ k \in 1..n+1 /\ k + 1 \in 1..n+1 /\ j + 1 \in 0..n /\ n + 1 \in 1..n+1
    OBVIOUS
  <2> HIDE DEF k
  <2>2. Keeps(rs[k+1], ms[k+1], s, P)
    BY <1>3, <2>1
  <2>3. PlacedIn(ms[k], L[k], ms[k+1]) /\ BackIn(rs[k], L[k], ms[k], rs[k+1])
    BY <2>1 DEF Course, Placed, Backed
  <2>4. \A p \in PosIn(ms[k], s) : p < P
    <3> TAKE p \in PosIn(ms[k], s)
    <3>1. Below(ms[k], bs[k])
      BY <2>1, CourseBelow
    <3>2. p < bs[k][s]
      BY <3>1 DEF Below
    <3>3. bs[k][s] <= bs[n+1][s]
      BY <2>1, AdvancesUp DEF Course
    <3>4. p \in Int /\ bs[k][s] \in Int /\ bs[n+1][s] \in Int
      BY <1>1, <2>1, PosTyped
    <3> QED BY <3>2, <3>3, <3>4
  <2>5. ms[k] \in Tables /\ ms[k+1] \in Tables
    BY <1>1, <2>1
  <2>6. Keeps(rs[k], ms[k], s, P)
    BY <2>2, <2>3, <2>4, <2>5, KeepsStep
  <2> QED BY <2>1, <2>6
<1>4. n \in T
  <2> HIDE DEF T
  <2>1. 0..n \subseteq T
    BY <1>2, <1>3, Upward
  <2> QED BY <2>1
<1>5. n + 1 - n = 1
  OBVIOUS
<1> QED
  BY <1>4, <1>5

\* A sequence that is brought nothing reaches as far as before.
LEMMA CourseReaches ==
  ASSUME conf \in Configs, NEW n \in Nat, NEW L, NEW ms, NEW rs, NEW bs, Course(ms, rs, bs, L, n), NEW s \in Seqs,
         \A k \in 1..n : Brings(L[k].parts, s) = {}
  PROVE  Reaches(rs[1], ms[1], s)
<1> DEFINE T == {j \in 0..n : Reaches(rs[n+1-j], ms[n+1-j], s)}
<1>1. \A k \in 1..n+1 : ms[k] \in Tables /\ rs[k] \in Tables
  BY DEF Course, Placed, Backed
<1>2. 0 \in T
  <2>1. n + 1 - 0 = n + 1 /\ n + 1 \in 1..n+1 /\ 0 \in 0..n
    OBVIOUS
  <2>2. rs[n+1] = ms[n+1] /\ ms[n+1] \in Tables
    BY <1>1, <2>1 DEF Course, Backed
  <2>3. \A i \in Idx : ms[n+1][conf.stream[s]][i].pos \in Int
    BY <2>2, PosTyped, CellFacts
  <2>4. Reaches(rs[n+1], ms[n+1], s)
    BY <2>2, <2>3 DEF Reaches
  <2> QED BY <2>1, <2>4
<1>3. ASSUME NEW j \in 0..n-1, j \in T PROVE j + 1 \in T
  <2> DEFINE k == n - j
  <2>1. k \in 1..n /\ k + 1 = n + 1 - j /\ n + 1 - (j + 1) = k /\ k \in 1..n+1 /\ k + 1 \in 1..n+1 /\ j + 1 \in 0..n
    OBVIOUS
  <2> HIDE DEF k
  <2>2. Reaches(rs[k+1], ms[k+1], s)
    BY <1>3, <2>1
  <2>3. PlacedIn(ms[k], L[k], ms[k+1]) /\ BackIn(rs[k], L[k], ms[k], rs[k+1]) /\ Brings(L[k].parts, s) = {}
    BY <2>1 DEF Course, Placed, Backed
  <2>4. AllWithin(rs[k+1], ms[k+1])
    BY <2>1, BackWithin DEF Course
  <2>5. ms[k] \in Tables /\ ms[k+1] \in Tables /\ rs[k+1] \in Tables
    BY <1>1, <2>1
  <2>6. Reaches(rs[k], ms[k], s)
    BY <2>2, <2>3, <2>4, <2>5, ReachesStep
  <2> QED BY <2>1, <2>6
<1>4. n \in T
  <2> HIDE DEF T
  <2>1. 0..n \subseteq T
    BY <1>2, <1>3, Upward
  <2> QED BY <2>1
<1>5. n + 1 - n = 1
  OBVIOUS
<1> QED
  BY <1>4, <1>5

-----------------------------------------------------------------------------
(* The split of a batch *)

PosOf(rest, s) == {rest[j].pos : j \in {i \in DOMAIN rest : s \in rest[i].seqs}}
\* The tokens left of a batch: for each sequence those from b[s] to below top[s], in order.
InTurn(rest, s) ==
  \A i, j \in DOMAIN rest : i < j /\ s \in rest[i].seqs /\ s \in rest[j].seqs => rest[i].pos < rest[j].pos
Left(rest, b, top) ==
  /\ rest \in Seq(Tokens) /\ b \in [Seqs -> Int] /\ top \in [Seqs -> Int]
  /\ \A s \in Seqs : b[s] <= top[s] /\ PosOf(rest, s) = b[s]..top[s]-1 /\ InTurn(rest, s)
  /\ Cardinality(Streams) # 1 => \A j \in DOMAIN rest : rest[j].seqs = {Id(rest[j])}

\* An ubatch takes the tokens at A; what is left keeps its order.
Earlier(rest, A) ==
  \A s \in Seqs : \A i \in DOMAIN rest, j \in A :
    i < j /\ s \in rest[i].seqs /\ s \in rest[j].seqs => i \in A
Remains(rest, A, q, m) ==
  /\ m \in Nat /\ DOMAIN q = 1..m
  /\ \A j \in 1..m : q[j] \in DOMAIN rest /\ q[j] \notin A
  /\ \A i \in DOMAIN rest : i \notin A => \E j \in 1..m : q[j] = i
  /\ \A i, j \in 1..m : i < j => q[i] < q[j]

Takes(rest, A, q, m, parts, rest2) ==
  /\ A \subseteq DOMAIN rest /\ Earlier(rest, A) /\ Remains(rest, A, q, m)
  /\ \A u : u \in TokensOf(parts) <=> \E j \in A : u = rest[j]
  /\ rest2 = [j \in 1..m |-> rest[q[j]]]

\* What a token of a batch is.
LEMMA TokenFacts ==
  ASSUME NEW t \in Tokens
  PROVE  /\ t.seqs \subseteq Seqs /\ t.seqs # {} /\ t.pos \in 0..MaxPos-1 /\ t.pos \in Int /\ t.tok \in Toks
         /\ Id(t) \in t.seqs /\ Id(t) \in Seqs
<1>1. t.seqs \in SUBSET Seqs /\ t.seqs # {} /\ t.pos \in 0..MaxPos-1 /\ t.tok \in Toks
  BY DEF Tokens
<1>2. t.pos \in Int
  BY <1>1, BoundAssumption
<1>3. t.seqs \subseteq Nat
  BY <1>1, SeqsAssumption
<1>4. Min(t.seqs) \in t.seqs
  BY <1>1, <1>3, MinOfNat
<1> QED
  BY <1>1, <1>2, <1>4 DEF Id

\* One sequence: the ubatch has the first of its positions, the rest the others.
SplitAt(rest, parts, rest2, b, top, s, c) ==
  /\ b <= c /\ c <= top /\ Brings(parts, s) = b..c-1 /\ PosOf(rest2, s) = c..top-1

\* One sequence: the tokens taken are those of its next positions.
LEMMA TakeOne ==
  ASSUME NEW rest \in Seq(Tokens), NEW A, NEW q, NEW m, NEW parts, NEW rest2, Takes(rest, A, q, m, parts, rest2),
         NEW s \in Seqs, NEW b \in Int, NEW top \in Int, b <= top,
         PosOf(rest, s) = b..top-1, InTurn(rest, s)
  PROVE  \E c \in Int : SplitAt(rest, parts, rest2, b, top, s, c)
<1> DEFINE B == Brings(parts, s)
           R == PosOf(rest2, s)
<1>0. /\ A \subseteq DOMAIN rest /\ Earlier(rest, A) /\ Remains(rest, A, q, m)
      /\ \A u : u \in TokensOf(parts) <=> \E j \in A : u = rest[j]
      /\ rest2 = [j \in 1..m |-> rest[q[j]]]
  BY DEF Takes
<1>1. \A i \in DOMAIN rest : rest[i] \in Tokens /\ rest[i].pos \in Int /\ i \in Int
  BY TokenFacts
<1>2. \A p : p \in B <=> \E j \in A : s \in rest[j].seqs /\ rest[j].pos = p
  BY <1>0 DEF Brings
<1>3. \A p : p \in R <=> \E j \in DOMAIN rest : j \notin A /\ s \in rest[j].seqs /\ rest[j].pos = p
  <2>1. DOMAIN rest2 = 1..m /\ \A j \in 1..m : rest2[j] = rest[q[j]]
    BY <1>0
  <2>2. \A p : p \in R <=> \E j \in 1..m : s \in rest2[j].seqs /\ rest2[j].pos = p
    BY <2>1 DEF PosOf
  <2>3. \A p : p \in R <=> \E j \in 1..m : s \in rest[q[j]].seqs /\ rest[q[j]].pos = p
    <3> HIDE DEF R
    <3> QED BY <2>1, <2>2
  <2> HIDE DEF R
  <2> QED BY <1>0, <2>3 DEF Remains
<1>4. \A p : p \in b..top-1 <=> \E j \in DOMAIN rest : s \in rest[j].seqs /\ rest[j].pos = p
  <2>1. \A p : p \in PosOf(rest, s) <=> \E j \in DOMAIN rest : s \in rest[j].seqs /\ rest[j].pos = p
    BY DEF PosOf
  <2> QED BY <2>1
<1> HIDE DEF B, R
<1>5. \A i, j \in DOMAIN rest : s \in rest[i].seqs /\ s \in rest[j].seqs /\ rest[i].pos <= rest[j].pos => i <= j
  <2> TAKE i, j \in DOMAIN rest
  <2> HAVE s \in rest[i].seqs /\ s \in rest[j].seqs /\ rest[i].pos <= rest[j].pos
  <2>1. j < i => rest[j].pos < rest[i].pos
    BY DEF InTurn
  <2>2. i \in Int /\ j \in Int /\ rest[i].pos \in Int /\ rest[j].pos \in Int
    BY <1>1
  <2> QED BY <2>1, <2>2
<1>6. \A i, j \in DOMAIN rest : s \in rest[i].seqs /\ s \in rest[j].seqs /\ rest[i].pos = rest[j].pos => i = j
  <2> TAKE i, j \in DOMAIN rest
  <2> HAVE s \in rest[i].seqs /\ s \in rest[j].seqs /\ rest[i].pos = rest[j].pos
  <2>1. i \in Int /\ j \in Int /\ rest[i].pos \in Int /\ rest[j].pos \in Int
    BY <1>1
  <2>2. rest[i].pos <= rest[j].pos /\ rest[j].pos <= rest[i].pos
    BY <2>1
  <2> QED BY <1>5, <2>1, <2>2
<1>7. B \subseteq b..top-1 /\ R = (b..top-1) \ B
  <2>1. B \subseteq b..top-1
    BY <1>0, <1>2, <1>4
  <2>2. R \subseteq (b..top-1) \ B
    <3> SUFFICES ASSUME NEW p \in R PROVE p \in b..top-1 /\ p \notin B
      OBVIOUS
    <3>1. PICK i \in DOMAIN rest : i \notin A /\ s \in rest[i].seqs /\ rest[i].pos = p
      BY <1>3
    <3> QED BY <1>0, <1>2, <1>4, <1>6, <3>1
  <2>3. (b..top-1) \ B \subseteq R
    BY <1>2, <1>3, <1>4
  <2> QED BY <2>1, <2>2, <2>3
<1>8. \A x, p : p \in B /\ x \in b..top-1 /\ x <= p => x \in B
  <2> SUFFICES ASSUME NEW x, NEW p, p \in B, x \in b..top-1, x <= p PROVE x \in B
    OBVIOUS
  <2>1. PICK j \in A : s \in rest[j].seqs /\ rest[j].pos = p
    BY <1>2
  <2>2. PICK i \in DOMAIN rest : s \in rest[i].seqs /\ rest[i].pos = x
    BY <1>4
  <2>3. i <= j /\ j \in DOMAIN rest
    BY <1>0, <1>5, <2>1, <2>2
  <2>4. i = j \/ i < j
    BY <1>1, <2>3
  <2>5. i \in A
    BY <1>0, <2>1, <2>2, <2>4 DEF Earlier
  <2> QED BY <1>2, <2>2, <2>5
<1>9. CASE B = {}
  <2>1. B = b..b-1 /\ R = b..top-1 /\ b <= b
    BY <1>7, <1>9
  <2>2. SplitAt(rest, parts, rest2, b, top, s, b)
    BY <2>1 DEF SplitAt, B, R
  <2> QED BY <2>2
<1>10. CASE B # {}
  <2> DEFINE x == Max(B)
  <2>1. x \in B /\ \A y \in B : x >= y
    <3>1. B \subseteq Int /\ top \in Int /\ \A y \in B : y <= top
      BY <1>7
    <3> QED BY <1>10, <3>1, MaxOfBounded
  <2> HIDE DEF x
  <2>2. x \in b..top-1 /\ x \in Int /\ x + 1 \in Int /\ (x + 1) - 1 = x
    BY <1>7, <2>1
  <2>3. \A y \in b..top-1 : y \in B <=> y <= x
    BY <1>8, <2>1
  <2>4. B = b..x /\ R = x+1..top-1
    <3>1. B = {y \in b..top-1 : y <= x}
      BY <1>7, <2>3
    <3>2. R = {y \in b..top-1 : ~ (y <= x)}
      BY <1>7, <2>3
    <3>3. {y \in b..top-1 : y <= x} = b..x /\ {y \in b..top-1 : ~ (y <= x)} = x+1..top-1
      BY <2>2
    <3> QED BY <3>1, <3>2, <3>3
  <2>5. b <= x + 1 /\ x + 1 <= top
    BY <2>2
  <2>6. SplitAt(rest, parts, rest2, b, top, s, x + 1)
    BY <2>2, <2>4, <2>5 DEF SplitAt, B, R
  <2> QED BY <2>2, <2>6
<1> QED
  BY <1>9, <1>10

\* An ubatch that takes of every sequence its next tokens, and no other.
LEMMA TakePart ==
  ASSUME NEW rest, NEW b, NEW top, Left(rest, b, top),
         NEW A, NEW q, NEW m, NEW parts, NEW rest2, Takes(rest, A, q, m, parts, rest2)
  PROVE  \E c : BringsFrom(parts, b, c) /\ Left(rest2, c, top)
<1> DEFINE c == [s \in Seqs |-> CHOOSE x \in Int : SplitAt(rest, parts, rest2, b[s], top[s], s, x)]
<1>0. Remains(rest, A, q, m) /\ rest2 = [j \in 1..m |-> rest[q[j]]]
  BY DEF Takes
<1>1. rest \in Seq(Tokens) /\ \A i \in DOMAIN rest : rest[i] \in Tokens
  BY DEF Left
<1>2. \A s \in Seqs : \E x \in Int : SplitAt(rest, parts, rest2, b[s], top[s], s, x)
  <2> TAKE s \in Seqs
  <2>1. b[s] \in Int /\ top[s] \in Int /\ b[s] <= top[s] /\ PosOf(rest, s) = b[s]..top[s]-1 /\ InTurn(rest, s)
    BY DEF Left
  <2> QED BY <1>1, <2>1, TakeOne
<1>3. \A s \in Seqs : c[s] \in Int /\ SplitAt(rest, parts, rest2, b[s], top[s], s, c[s])
  BY <1>2
<1>4. c \in [Seqs -> Int]
  BY <1>3
<1> HIDE DEF c
<1>5. BringsFrom(parts, b, c)
  BY <1>3 DEF BringsFrom, SplitAt
<1>6. DOMAIN rest2 = 1..m /\ m \in Nat /\ \A j \in 1..m : rest2[j] = rest[q[j]] /\ rest2[j] \in Tokens
  BY <1>0, <1>1 DEF Remains
<1>7. rest2 \in Seq(Tokens)
  <2>1. rest2 \in [1..m -> Tokens]
    BY <1>0, <1>6
  <2> QED BY <1>6, <2>1, SeqDef
<1>8. \A s \in Seqs : c[s] <= top[s] /\ PosOf(rest2, s) = c[s]..top[s]-1
  BY <1>3 DEF SplitAt
<1>9. ASSUME NEW s \in Seqs PROVE InTurn(rest2, s)
  <2>1. InTurn(rest, s)
    BY DEF Left
  <2>2. \A i, j \in 1..m : i < j => q[i] < q[j] /\ q[i] \in DOMAIN rest /\ q[j] \in DOMAIN rest
    BY <1>0 DEF Remains
  <2> QED BY <1>6, <2>1, <2>2 DEF InTurn
<1>10. Cardinality(Streams) # 1 => \A j \in DOMAIN rest2 : rest2[j].seqs = {Id(rest2[j])}
  <2>1. \A j \in 1..m : q[j] \in DOMAIN rest
    BY <1>0 DEF Remains
  <2> QED BY <1>6, <2>1 DEF Left
<1>11. Left(rest2, c, top)
  <2>1. top \in [Seqs -> Int]
    BY DEF Left
  <2> QED BY <1>4, <1>7, <1>8, <1>9, <1>10, <2>1 DEF Left
<1> QED
  BY <1>5, <1>11

\* One ubatch is split off: it brings every sequence its next positions, and leaves the rest.
SplitsOff(F, rest, b, top) ==
  /\ Ubatch(F.parts)
  /\ \E c : BringsFrom(F.parts, b, c) /\ Left(F.rest, c, top)

\* split_simple takes the first tokens.
LEMMA FirstSimpleFacts ==
  ASSUME conf \in Configs, Cardinality(Streams) = 1,
         NEW rest, NEW b, NEW top, Left(rest, b, top), rest # <<>>
  PROVE  SplitsOff(FirstSimple(rest), rest, b, top)
<1> DEFINE n == Min({NUbatch, Len(rest)})
           taken == SubSeq(rest, 1, n)
           parts == <<[strm |-> 0, toks |-> taken]>>
           rest2 == SubSeq(rest, n + 1, Len(rest))
           m == Len(rest) - n
           q == [j \in 1..m |-> n + j]
<1>1. rest \in Seq(Tokens) /\ Len(rest) \in Nat \ {0} /\ DOMAIN rest = 1..Len(rest)
  BY DEF Left
<1>2. n \in Nat /\ n <= Len(rest) /\ n # 0
  <2>1. {NUbatch, Len(rest)} \subseteq Nat /\ {NUbatch, Len(rest)} # {}
    BY <1>1, SizeAssumption
  <2>2. n \in {NUbatch, Len(rest)} /\ \A y \in {NUbatch, Len(rest)} : n <= y
    BY <2>1, MinOfNat
  <2> QED BY <2>2, <1>1, SizeAssumption
<1>3. FirstSimple(rest) = [parts |-> parts, rest |-> rest2]
  BY DEF FirstSimple
<1> HIDE DEF n
<1>4. /\ taken \in Seq(Tokens) /\ Len(taken) = n /\ DOMAIN taken = 1..n
      /\ \A j \in 1..n : taken[j] = rest[j]
  BY <1>1, <1>2, SubSeqProperties
<1>5. m \in Nat /\ rest2 = [j \in 1..m |-> rest[q[j]]]
  <2>1. m \in Nat
    BY <1>1, <1>2
  <2>2. rest2 \in Seq(Tokens) /\ Len(rest2) = m /\ \A j \in 1..m : rest2[j] = rest[n + j]
    <3>1. n + 1 \in Int /\ Len(rest) \in Int /\ \A i \in (n+1)..Len(rest) : rest[i] \in Tokens
      BY <1>1, <1>2
    <3>2. /\ rest2 \in Seq(Tokens)
          /\ Len(rest2) = IF n + 1 <= Len(rest) THEN Len(rest) - (n + 1) + 1 ELSE 0
          /\ \A j \in 1..Len(rest) - (n + 1) + 1 : rest2[j] = rest[(n + 1) + j - 1]
      BY <3>1, SubSeqProperties
    <3>3. Len(rest) - (n + 1) + 1 = m /\ \A j \in 1..m : (n + 1) + j - 1 = n + j
      BY <1>1, <1>2
    <3>4. m = 0 \/ n + 1 <= Len(rest)
      <4> DEFINE l == Len(rest)
      <4>1. l \in Nat /\ n \in Nat /\ n <= l
        BY <1>1, <1>2
      <4> HIDE DEF l
      <4>2. l - n = 0 \/ n + 1 <= l
        BY <4>1
      <4> QED BY <4>2 DEF l
    <3> HIDE DEF rest2
    <3>5. Len(rest2) = m
      BY <3>2, <3>3, <3>4
    <3>6. \A j \in 1..m : rest2[j] = rest[(n + 1) + j - 1]
      BY <3>2, <3>3
    <3> HIDE DEF m
    <3>7. \A j \in 1..m : rest2[j] = rest[n + j]
      BY <3>3, <3>6
    <3> QED BY <3>2, <3>5, <3>7
  <2> HIDE DEF rest2, m
  <2>3. rest2 = [j \in 1..m |-> rest2[j]]
    BY <2>1, <2>2
  <2> QED BY <2>1, <2>2, <2>3
<1>6. DOMAIN parts = {1} /\ parts[1].strm = 0 /\ parts[1].toks = taken
  OBVIOUS
<1> HIDE DEF rest2, taken
<1>7. Takes(rest, 1..n, q, m, parts, rest2)
  <2>1. 1..n \subseteq DOMAIN rest
    BY <1>1, <1>2
  <2>2. Earlier(rest, 1..n)
    BY <1>1, <1>2 DEF Earlier
  <2>3. Remains(rest, 1..n, q, m)
    <3>1. \A i \in DOMAIN rest : i \notin 1..n => i - n \in 1..m /\ q[i - n] = i
      BY <1>1, <1>2, <1>5
    <3>2. \A j \in 1..m : q[j] \in DOMAIN rest /\ q[j] \notin 1..n
      BY <1>1, <1>2, <1>5
    <3>3. \A i, j \in 1..m : i < j => q[i] < q[j]
      BY <1>2
    <3>4. DOMAIN q = 1..m
      OBVIOUS
    <3> HIDE DEF q, m
    <3> QED BY <1>5, <3>1, <3>2, <3>3, <3>4 DEF Remains
  <2>4. \A u : u \in TokensOf(parts) <=> \E j \in 1..n : u = rest[j]
    <3>1. TokensOf(parts) = ToSet(taken)
      <4> HIDE DEF parts
      <4> QED BY <1>6 DEF TokensOf
    <3> QED BY <1>4, <3>1 DEF ToSet
  <2> HIDE DEF parts, q, m
  <2> QED BY <1>5, <2>1, <2>2, <2>3, <2>4 DEF Takes
<1>8. Ubatch(parts)
  <2>1. Streams = {0} /\ \A s \in Seqs : conf.stream[s] = 0
    BY StreamsFacts
  <2>2. \A j \in 1..n : taken[j].seqs \subseteq Seqs
    BY <1>4, TokenFacts
  <2> HIDE DEF parts
  <2>3. PartOK(parts, 1)
    BY <1>4, <1>6, <2>1, <2>2 DEF PartOK
  <2> QED BY <1>6, <2>3 DEF Ubatch
<1>9. \E c : BringsFrom(parts, b, c) /\ Left(rest2, c, top)
  <2> HIDE DEF parts, q, m
  <2> QED BY <1>7, TakePart
<1>10. FirstSimple(rest).parts = parts /\ FirstSimple(rest).rest = rest2
  BY <1>3
<1> QED
  <2> HIDE DEF parts, rest2
  <2> QED BY <1>8, <1>9, <1>10 DEF SplitsOff

\* The run of sequence ids of split_equal, one more token looked at.
RunStep(q, toks, k) == IF Id(toks[k]) = q /\ q - Id(toks[1]) <= NUbatch THEN q + 1 ELSE q
RunChain(f, toks, N) == f[0] = Id(toks[1]) /\ \A k \in 1..N : f[k] = RunStep(f[k-1], toks, k)

\* The run of sequence ids is a chain of steps (the loop of split_equal that collects them).
LEMMA RunSteps ==
  ASSUME NEW V, NEW toks, Id(toks[1]) \in V, NEW N \in Nat, DOMAIN toks = 1..N,
         \A v \in V, k \in 1..N : RunStep(v, toks, k) \in V
  PROVE  \E f : RunChain(f, toks, N) /\ f[N] = RunEnd(toks)
<1> DEFINE kd == Id(toks[1])
           g == [k \in 1..N |-> [v \in V |-> RunStep(v, toks, k)]]
           Step(v, k) == RunStep(v, toks, k)
           E(it) == [s \in SUBSET (1..N) |-> IF s = {} THEN kd ELSE Step(it[s \ {Max(s)}], Max(s))]
           I == CHOOSE it : it = E(it)
           f == [k \in 0..N |-> I[1..k]]
<1>1. RunEnd(toks) = I[1..N]
  BY DEF RunEnd, FoldLeft, MapThenFoldSet, RunStep
<1>2. g \in [1..N -> [V -> V]] /\ \A k \in 1..N, v \in V : g[k][v] = Step(v, k)
  OBVIOUS
<1>3. \E it : it = E(it)
  <2>1. PICK it : FoldOf(it, V, kd, N, g)
    <3> HIDE DEF g, Step
    <3> QED BY <1>2, FoldExists
  <2>2. \A s \in SUBSET (1..N) : it[s] = IF s = {} THEN kd ELSE Step(it[s \ {Max(s)}], Max(s))
    <3> HIDE DEF g, Step, kd
    <3> QED BY <1>2, <2>1, MaxInPrefix DEF FoldOf
  <2>3. it = E(it)
    <3> HIDE DEF g, Step, kd
    <3> QED BY <2>1, <2>2 DEF FoldOf
  <2> QED BY <2>3
<1>4. I = E(I)
  <2> HIDE DEF E
  <2> QED BY <1>3
<1>5. I[{}] = kd
  BY <1>4
<1>6. ASSUME NEW k \in 1..N PROVE I[1..k] = Step(I[1..k-1], k)
  <2>0. k \in Nat \ {0} /\ 1..k \in SUBSET (1..N) /\ k \in 1..k /\ (1..k) \ {k} = 1..k-1
    OBVIOUS
  <2>1. 1..k \in SUBSET (1..N) /\ 1..k # {} /\ (1..k) \ {k} = 1..k-1 /\ Max(1..k) = k
    BY <2>0, MaxOfPrefix
  <2>2. I[1..k] = E(I)[1..k]
    BY <1>4
  <2>3. E(I)[1..k] = Step(I[(1..k) \ {Max(1..k)}], Max(1..k))
    <3> HIDE DEF I, Step, kd
    <3> QED BY <2>1
  <2> HIDE DEF I, E, Step
  <2> QED
    BY <2>1, <2>2, <2>3
<1>7. f[0] = kd /\ f[N] = RunEnd(toks)
  <2>1. 1..0 = {}
    OBVIOUS
  <2> HIDE DEF I, kd
  <2> QED BY <1>1, <1>5, <2>1
<1>8. \A k \in 1..N : f[k] = Step(f[k-1], k)
  <2> HIDE DEF I, Step
  <2> QED BY <1>6
<1> HIDE DEF f
<1> QED
  BY <1>7, <1>8 DEF RunChain

\* The run of ids begins with that of the first token and has no gap.
LEMMA RunFacts ==
  ASSUME NEW toks \in Seq(Tokens), toks # <<>>
  PROVE  /\ Id(toks[1]) \in Seqs /\ RunEnd(toks) \in Int /\ Id(toks[1]) < RunEnd(toks)
         /\ Id(toks[1])..RunEnd(toks)-1 \subseteq Seqs
<1> DEFINE N == Len(toks)
           first == Id(toks[1])
<1>1. N \in Nat \ {0} /\ DOMAIN toks = 1..N /\ 1 \in 1..N
  OBVIOUS
<1>2. PICK M \in Seqs : Seqs = 0..M
  <2>1. PICK n \in Seqs : Seqs = 0..n
    BY SeqsAssumption
  <2> QED BY <2>1
<1>3. \A k \in 1..N : Id(toks[k]) \in Seqs
  <2>1. \A k \in 1..N : toks[k] \in Tokens
    BY <1>1
  <2> QED BY <2>1, TokenFacts
<1>4. M \in Nat /\ first \in 0..M
  BY <1>1, <1>2, <1>3, SeqsAssumption
<1> DEFINE V == first..M+1
<1>5. first \in V
  BY <1>4
<1> HIDE DEF first, N
<1>6. \A v \in V, k \in 1..N : RunStep(v, toks, k) \in V
  <2> TAKE v \in V, k \in 1..N
  <2>1. v \in Int /\ first <= v /\ v <= M + 1 /\ (Id(toks[k]) = v => v <= M)
    BY <1>2, <1>3, <1>4
  <2>2. RunStep(v, toks, k) = v \/ (RunStep(v, toks, k) = v + 1 /\ Id(toks[k]) = v)
    BY DEF RunStep
  <2> QED BY <1>4, <2>1, <2>2
<1>7. PICK f : RunChain(f, toks, N) /\ f[N] = RunEnd(toks)
  <2> HIDE DEF V
  <2> QED BY <1>1, <1>5, <1>6, RunSteps DEF first
<1> DEFINE T == {k \in 0..N : f[k] \in V /\ (k # 0 => first < f[k])}
<1>8. 0 \in T
  BY <1>1, <1>5, <1>7 DEF RunChain, first
<1>9. ASSUME NEW k \in 0..N-1, k \in T PROVE k + 1 \in T
  <2>1. k + 1 \in 1..N /\ (k + 1) - 1 = k
    BY <1>1
  <2>2. f[k+1] = RunStep(f[k], toks, k + 1)
    BY <1>7, <2>1 DEF RunChain
  <2>3. f[k] \in V /\ f[k+1] \in V
    BY <1>6, <1>9, <2>1, <2>2
  <2>4. first < f[k+1]
    <3>1. CASE k = 0
      <4>1. f[0] = first /\ Id(toks[1]) = first /\ first - Id(toks[1]) <= NUbatch
        BY <1>4, <1>7, SizeAssumption DEF RunChain, first
      <4>2. f[1] = first + 1
        BY <2>2, <3>1, <4>1 DEF RunStep
      <4> QED BY <1>4, <3>1, <4>2
    <3>2. CASE k # 0
      <4>1. first < f[k] /\ f[k] \in Int
        BY <1>4, <1>9, <2>3, <3>2
      <4>2. f[k+1] = f[k] \/ f[k+1] = f[k] + 1
        BY <2>2 DEF RunStep
      <4> QED BY <1>4, <4>1, <4>2
    <3> QED BY <3>1, <3>2
  <2> QED BY <2>1, <2>3, <2>4
<1>10. N \in T
  <2>1. 0..N \subseteq T
    <3> HIDE DEF T
    <3> QED BY <1>1, <1>8, <1>9, Upward
  <2> QED BY <1>1, <2>1
<1>11. RunEnd(toks) \in V /\ first < RunEnd(toks)
  BY <1>1, <1>7, <1>10
<1>12. first..RunEnd(toks)-1 \subseteq Seqs
  BY <1>2, <1>4, <1>11
<1> QED
  BY <1>2, <1>4, <1>11, <1>12 DEF first

IndicesFacts(toks, s) ==
  /\ \A k \in 1..Len(IndicesOf(toks, s)) : /\ IndicesOf(toks, s)[k] \in DOMAIN toks
                                           /\ Id(toks[IndicesOf(toks, s)[k]]) = s
  /\ \A i \in DOMAIN toks : Id(toks[i]) = s => \E k \in 1..Len(IndicesOf(toks, s)) : IndicesOf(toks, s)[k] = i
  /\ \A j, k \in 1..Len(IndicesOf(toks, s)) : j < k => IndicesOf(toks, s)[j] < IndicesOf(toks, s)[k]
  /\ Len(IndicesOf(toks, s)) \in Nat

\* The indices of the tokens of a sequence, in the order of the batch.
LEMMA IndicesOfFacts ==
  ASSUME NEW toks \in Seq(Tokens), NEW s
  PROVE  IndicesFacts(toks, s)
<1> DEFINE S == {j \in DOMAIN toks : Id(toks[j]) = s}
<1>1. S \subseteq Nat /\ IsFiniteSet(S)
  <2>1. DOMAIN toks = 1..Len(toks) /\ Len(toks) \in Nat
    OBVIOUS
  <2>2. IsFiniteSet(1..Len(toks))
    BY <2>1, FS_Interval
  <2>3. S \in SUBSET (1..Len(toks))
    BY <2>1
  <2> HIDE DEF S
  <2>4. IsFiniteSet(S)
    BY <2>2, <2>3, FS_Subset
  <2> QED BY <2>3, <2>4
<1>2. IndicesOf(toks, s) = InOrder(S)
  BY DEF IndicesOf
<1>3. \A x : x \in S <=> x \in DOMAIN toks /\ Id(toks[x]) = s
  OBVIOUS
<1> HIDE DEF S
<1> DEFINE r == InOrder(S)
           N == Cardinality(S)
<1>4. /\ N \in Nat /\ Len(r) = N
      /\ \A k \in 1..N : r[k] \in S
      /\ \A x \in S : \E k \in 1..N : r[k] = x
      /\ \A j, k \in 1..N : j < k => r[j] < r[k]
  BY <1>1, InOrderFacts
<1> HIDE DEF r, N
<1>5. IndicesOf(toks, s) = r
  BY <1>2 DEF r
<1> QED
  BY <1>3, <1>4, <1>5 DEF IndicesFacts

\* The least number of tokens that a run of ids has of each id is a number of them.
LEMMA RunLength ==
  ASSUME NEW toks \in Seq(Tokens), NEW first \in Int, NEW end \in Int, first < end, NEW n,
         n = Min({Len(IndicesOf(toks, s)) : s \in first..end-1}
                   \cup {Max({1, NUbatch \div Cardinality(first..end-1)})})
  PROVE  n \in Nat /\ \A s \in first..end-1 : n <= Len(IndicesOf(toks, s))
<1> DEFINE run == first..end-1
           x == NUbatch \div Cardinality(run)
           y == Max({1, x})
           S == {Len(IndicesOf(toks, s)) : s \in run}
<1>1. Cardinality(run) \in Nat \ {0}
  <2>1. Cardinality(run) = (end - 1) - first + 1
    BY FS_Interval
  <2> HIDE DEF run
  <2> QED BY <2>1
<1>2. x \in Int
  <2> DEFINE c == Cardinality(run)
  <2> HIDE DEF c
  <2> QED BY <1>1, SizeAssumption DEF c
<1> HIDE DEF x
<1>3. y \in Nat
  <2> DEFINE N == IF x > 1 THEN x ELSE 1
  <2>1. N \in Int /\ \A z \in {1, x} : z <= N
    BY <1>2
  <2>2. {1, x} \subseteq Int /\ {1, x} # {}
    BY <1>2
  <2>3. y \in {1, x} /\ \A z \in {1, x} : y >= z
    <3> HIDE DEF N
    <3> QED BY <2>1, <2>2, MaxOfBounded
  <2> HIDE DEF y
  <2> QED BY <1>2, <2>3
<1> HIDE DEF y
<1>4. S \subseteq Nat
  BY IndicesOfFacts DEF IndicesFacts
<1>5. n = Min(S \cup {y})
  BY DEF x, y
<1>6. \A s \in run : Len(IndicesOf(toks, s)) \in S
  OBVIOUS
<1> HIDE DEF S, run
<1>7. n \in S \cup {y} /\ \A z \in S \cup {y} : n <= z
  <2> DEFINE U == S \cup {y}
  <2>1. U \subseteq Nat /\ U # {}
    BY <1>3, <1>4
  <2> HIDE DEF U
  <2> QED BY <1>5, <2>1, MinOfNat DEF U
<1> QED
  BY <1>3, <1>4, <1>6, <1>7 DEF run

\* The tokens an ubatch of a run of ids takes: n of each, and its parts.
EqualTaken(toks, first, end, n) == {IndicesOf(toks, s)[j] : s \in first..end-1, j \in 1..n}
EqualParts(toks, first, end, n) ==
  [k \in 1..end-first |-> [strm |-> conf.stream[first + k - 1],
                           toks |-> [j \in 1..n |-> toks[IndicesOf(toks, first + k - 1)[j]]]]]
EqualLeft(toks, A) == [j \in DOMAIN InOrder(DOMAIN toks \ A) |-> toks[InOrder(DOMAIN toks \ A)[j]]]
RunOK(toks, first, end, n) ==
  /\ first \in Int /\ end \in Int /\ first..end-1 \subseteq Seqs
  /\ n \in Nat /\ \A s \in first..end-1 : n <= Len(IndicesOf(toks, s)) /\ IndicesFacts(toks, s)
  /\ \A j \in DOMAIN toks : toks[j] \in Tokens /\ toks[j].seqs = {Id(toks[j])}
  /\ DOMAIN toks = 1..Len(toks) /\ Len(toks) \in Nat

\* split_equal takes tokens of a sequence before those that follow them.
LEMMA EqualTakenFacts ==
  ASSUME NEW toks, NEW first, NEW end, NEW n, RunOK(toks, first, end, n)
  PROVE  /\ EqualTaken(toks, first, end, n) \subseteq DOMAIN toks
         /\ Earlier(toks, EqualTaken(toks, first, end, n))
<1> DEFINE A == EqualTaken(toks, first, end, n)
<1>1. \A s \in first..end-1 : \A j \in 1..n : j \in 1..Len(IndicesOf(toks, s))
  BY DEF RunOK, IndicesFacts
<1>2. \A s \in first..end-1 : \A j \in 1..n : IndicesOf(toks, s)[j] \in DOMAIN toks /\ Id(toks[IndicesOf(toks, s)[j]]) = s
  BY <1>1 DEF RunOK, IndicesFacts
<1>3. \A x : x \in A <=> \E s \in first..end-1, j \in 1..n : x = IndicesOf(toks, s)[j]
  BY DEF EqualTaken
<1> HIDE DEF A
<1>4. A \subseteq DOMAIN toks
  BY <1>2, <1>3
<1>5. ASSUME NEW t \in Seqs, NEW i \in DOMAIN toks, NEW x \in A, i < x, t \in toks[i].seqs, t \in toks[x].seqs
      PROVE  i \in A
  <2>1. PICK s \in first..end-1, j \in 1..n : x = IndicesOf(toks, s)[j]
    BY <1>3
  <2>2. Id(toks[i]) = s /\ IndicesFacts(toks, s)
    BY <1>2, <1>4, <1>5, <2>1 DEF RunOK
  <2>3. PICK k \in 1..Len(IndicesOf(toks, s)) : IndicesOf(toks, s)[k] = i
    BY <2>2 DEF IndicesFacts
  <2>4. j \in 1..Len(IndicesOf(toks, s)) /\ j \in Int /\ k \in Int /\ n \in Int
    BY <1>1, <2>1, <2>2 DEF IndicesFacts, RunOK
  <2>5. i \in Int /\ x \in Int
    BY <1>4 DEF RunOK
  <2>6. ~ (j < k) /\ j # k
    <3>1. j < k => x < i
      BY <2>1, <2>2, <2>3, <2>4 DEF IndicesFacts
    <3> QED BY <1>5, <2>1, <2>3, <2>5, <3>1
  <2>7. k \in 1..n
    BY <2>4, <2>6
  <2> QED BY <1>3, <2>3, <2>7
<1> QED
  BY <1>4, <1>5 DEF A, Earlier

\* The parts of an equal ubatch lie in different streams and hold what is taken.
LEMMA EqualPartsFacts ==
  ASSUME conf \in Configs, Cardinality(Streams) # 1,
         NEW toks, NEW first, NEW end, NEW n, RunOK(toks, first, end, n)
  PROVE  /\ Ubatch(EqualParts(toks, first, end, n))
         /\ \A u : u \in TokensOf(EqualParts(toks, first, end, n))
                      <=> \E j \in EqualTaken(toks, first, end, n) : u = toks[j]
<1> DEFINE parts == EqualParts(toks, first, end, n)
           I(k) == IndicesOf(toks, first + k - 1)
<1>1. \A s \in first..end-1 : \A j \in 1..n : IndicesOf(toks, s)[j] \in DOMAIN toks /\ Id(toks[IndicesOf(toks, s)[j]]) = s
  <2>1. \A s \in first..end-1 : \A j \in 1..n : j \in 1..Len(IndicesOf(toks, s))
    BY DEF RunOK, IndicesFacts
  <2> QED BY <2>1 DEF RunOK, IndicesFacts
<1>2. /\ DOMAIN parts = 1..end-first
      /\ \A k \in 1..end-first : /\ parts[k].strm = conf.stream[first + k - 1]
                                 /\ parts[k].toks = [j \in 1..n |-> toks[I(k)[j]]]
  BY DEF EqualParts
<1>3. \A k \in 1..end-first : first + k - 1 \in first..end-1 /\ first + k - 1 \in Seqs /\ k - 1 \in Seqs
  <2>1. PICK M \in Nat : Seqs = 0..M
    BY SeqsAssumption
  <2>2. first \in Int /\ end \in Int /\ first..end-1 \subseteq 0..M
    BY <2>1 DEF RunOK
  <2>3. \A k \in 1..end-first : first + k - 1 \in first..end-1 /\ first \in first..end-1
    BY <2>2
  <2>4. \A k \in 1..end-first : first + k - 1 \in 0..M /\ first \in 0..M
    BY <2>2, <2>3
  <2>5. \A k \in 1..end-first : k - 1 \in 0..M
    BY <2>2, <2>4
  <2> QED BY <2>1, <2>3, <2>4, <2>5
<1>4. Streams = Seqs /\ \A s \in Seqs : conf.stream[s] = s
  BY StreamsFacts
<1> HIDE DEF parts
<1>5. ASSUME NEW k \in 1..end-first PROVE PartOK(parts, k)
  <2>1. \A j \in 1..n : /\ toks[I(k)[j]] \in Tokens
                        /\ toks[I(k)[j]].seqs = {first + k - 1}
    <3> DEFINE s == first + k - 1
    <3>1. s \in first..end-1
      BY <1>3
    <3> HIDE DEF s
    <3>2. \A j \in 1..n : IndicesOf(toks, s)[j] \in DOMAIN toks /\ Id(toks[IndicesOf(toks, s)[j]]) = s
      BY <1>1, <3>1
    <3>3. \A j \in 1..n : toks[IndicesOf(toks, s)[j]] \in Tokens /\ toks[IndicesOf(toks, s)[j]].seqs = {s}
      BY <3>2 DEF RunOK
    <3> QED BY <3>3 DEF s
  <2>2. n \in Nat
    BY DEF RunOK
  <2>3. parts[k].toks = [j \in 1..n |-> toks[I(k)[j]]]
    BY <1>2
  <2> HIDE DEF I
  <2>4. parts[k].toks \in [1..n -> Tokens]
    BY <2>1, <2>3
  <2>5. parts[k].toks \in Seq(Tokens) /\ DOMAIN parts[k].toks = 1..n
    BY <2>2, <2>4, SeqDef
  <2>6. \A j \in 1..n : parts[k].toks[j].seqs = {first + k - 1}
    BY <2>1, <2>3
  <2>7. parts[k].strm = first + k - 1 /\ conf.stream[first + k - 1] = first + k - 1 /\ first + k - 1 \in Streams /\ k - 1 \in Streams
    BY <1>2, <1>3, <1>4
  <2> QED BY <2>5, <2>6, <2>7 DEF PartOK
<1>6. Ubatch(parts)
  <2>1. \A j, k \in 1..end-first : parts[j].strm = parts[k].strm => j = k
    <3>1. \A k \in 1..end-first : parts[k].strm = first + k - 1
      BY <1>2, <1>3, <1>4
    <3>2. first \in Int /\ end \in Int
      BY DEF RunOK
    <3> QED BY <3>1, <3>2
  <2> QED BY <1>2, <1>5, <2>1 DEF Ubatch
<1>7. ASSUME NEW u PROVE u \in TokensOf(parts) <=> \E j \in EqualTaken(toks, first, end, n) : u = toks[j]
  <2>1. u \in TokensOf(parts) <=> \E k \in 1..end-first : u \in ToSet(parts[k].toks)
    BY <1>2 DEF TokensOf
  <2>2. \A k \in 1..end-first : u \in ToSet(parts[k].toks) <=> \E j \in 1..n : u = toks[I(k)[j]]
    <3> TAKE k \in 1..end-first
    <3>1. parts[k].toks = [j \in 1..n |-> toks[I(k)[j]]]
      BY <1>2
    <3> HIDE DEF I
    <3>2. DOMAIN parts[k].toks = 1..n /\ \A j \in 1..n : parts[k].toks[j] = toks[I(k)[j]]
      BY <3>1
    <3> QED BY <3>2 DEF ToSet
  <2>3. (\E j \in EqualTaken(toks, first, end, n) : u = toks[j])
          <=> \E s \in first..end-1, j \in 1..n : u = toks[IndicesOf(toks, s)[j]]
    BY DEF EqualTaken
  <2>4. ASSUME NEW s \in first..end-1 PROVE s - first + 1 \in 1..end-first /\ first + (s - first + 1) - 1 = s
    BY DEF RunOK
  <2>5. u \in TokensOf(parts) <=> \E k \in 1..end-first : \E j \in 1..n : u = toks[IndicesOf(toks, first + k - 1)[j]]
    BY <2>1, <2>2
  <2>6. (\E s \in first..end-1 : \E j \in 1..n : u = toks[IndicesOf(toks, s)[j]])
          => \E k \in 1..end-first : \E j \in 1..n : u = toks[IndicesOf(toks, first + k - 1)[j]]
    <3> SUFFICES ASSUME NEW s \in first..end-1, NEW j \in 1..n, u = toks[IndicesOf(toks, s)[j]]
                 PROVE  \E k \in 1..end-first : \E i \in 1..n : u = toks[IndicesOf(toks, first + k - 1)[i]]
      OBVIOUS
    <3> DEFINE k == s - first + 1
    <3>1. k \in 1..end-first /\ first + k - 1 = s
      BY <2>4
    <3> HIDE DEF k
    <3>2. u = toks[IndicesOf(toks, first + k - 1)[j]]
      BY <3>1
    <3> QED BY <3>1, <3>2
  <2>7. (\E k \in 1..end-first : \E j \in 1..n : u = toks[IndicesOf(toks, first + k - 1)[j]])
          => \E s \in first..end-1 : \E j \in 1..n : u = toks[IndicesOf(toks, s)[j]]
    BY <1>3
  <2> QED BY <2>3, <2>5, <2>6, <2>7
<1> QED
  BY <1>6, <1>7 DEF parts

LeavesIn(toks, A, rest2) == \E q, m : Remains(toks, A, q, m) /\ rest2 = [j \in 1..m |-> toks[q[j]]]
\* What is left of a batch: its other tokens in their order.
LEMMA EqualLeftFacts ==
  ASSUME NEW toks, NEW l \in Nat, DOMAIN toks = 1..l, NEW A, A \subseteq DOMAIN toks
  PROVE  LeavesIn(toks, A, EqualLeft(toks, A))
<1> DEFINE D == DOMAIN toks \ A
           q == InOrder(D)
           m == Cardinality(D)
<1>1. D \subseteq Nat /\ IsFiniteSet(D)
  <2>1. IsFiniteSet(1..l) /\ D \in SUBSET (1..l)
    BY FS_Interval
  <2> HIDE DEF D
  <2>2. IsFiniteSet(D)
    BY <2>1, FS_Subset
  <2> QED BY <2>1, <2>2
<1>2. \A x : x \in D <=> x \in DOMAIN toks /\ x \notin A
  OBVIOUS
<1>3. EqualLeft(toks, A) = [j \in DOMAIN q |-> toks[q[j]]]
  BY DEF EqualLeft
<1> HIDE DEF D
<1>4. /\ m \in Nat /\ DOMAIN q = 1..m
      /\ \A k \in 1..m : q[k] \in D
      /\ \A x \in D : \E k \in 1..m : q[k] = x
      /\ \A j, k \in 1..m : j < k => q[j] < q[k]
  BY <1>1, InOrderFacts
<1> HIDE DEF q, m
<1>5. Remains(toks, A, q, m)
  BY <1>2, <1>4 DEF Remains
<1>6. EqualLeft(toks, A) = [j \in 1..m |-> toks[q[j]]]
  BY <1>3, <1>4
<1> QED
  BY <1>5, <1>6 DEF LeavesIn

\* split_equal takes the first tokens of every id of the run.
LEMMA FirstEqualFacts ==
  ASSUME conf \in Configs, Cardinality(Streams) # 1,
         NEW rest, NEW b, NEW top, Left(rest, b, top), rest # <<>>
  PROVE  SplitsOff(FirstEqual(rest), rest, b, top)
<1> DEFINE first == Id(rest[1])
           end == RunEnd(rest)
           n == Min({Len(IndicesOf(rest, s)) : s \in first..end-1}
                      \cup {Max({1, NUbatch \div Cardinality(first..end-1)})})
           A == EqualTaken(rest, first, end, n)
           parts == EqualParts(rest, first, end, n)
           rest2 == EqualLeft(rest, A)
<1>1. rest \in Seq(Tokens) /\ Len(rest) \in Nat /\ DOMAIN rest = 1..Len(rest)
  BY DEF Left
<1>2. \A j \in DOMAIN rest : rest[j] \in Tokens /\ rest[j].seqs = {Id(rest[j])}
  BY <1>1 DEF Left
<1>3. first \in Seqs /\ end \in Int /\ first < end /\ first..end-1 \subseteq Seqs
  BY <1>1, RunFacts
<1>4. first \in Int
  BY <1>3, SeqsAssumption
<1>5. FirstEqual(rest).parts = parts /\ FirstEqual(rest).rest = rest2
  BY DEF FirstEqual, EqualTaken, EqualParts, EqualLeft
<1> HIDE DEF first, end
<1>6. n \in Nat /\ \A s \in first..end-1 : n <= Len(IndicesOf(rest, s))
  BY <1>1, <1>3, <1>4, RunLength
<1> HIDE DEF n
<1>7. \A s \in first..end-1 : IndicesFacts(rest, s)
  BY <1>1, IndicesOfFacts
<1>8. RunOK(rest, first, end, n)
  BY <1>1, <1>2, <1>3, <1>4, <1>6, <1>7 DEF RunOK
<1>9. A \subseteq DOMAIN rest /\ Earlier(rest, A)
  BY <1>8, EqualTakenFacts
<1>10. Ubatch(parts) /\ \A u : u \in TokensOf(parts) <=> \E j \in A : u = rest[j]
  BY <1>8, EqualPartsFacts
<1> HIDE DEF A, parts
<1>11. PICK q, m : Remains(rest, A, q, m) /\ rest2 = [j \in 1..m |-> rest[q[j]]]
  <2>1. LeavesIn(rest, A, EqualLeft(rest, A))
    BY <1>1, <1>9, EqualLeftFacts
  <2> QED BY <2>1 DEF LeavesIn
<1> HIDE DEF rest2
<1>12. Takes(rest, A, q, m, parts, rest2)
  BY <1>9, <1>10, <1>11 DEF Takes
<1>13. \E c : BringsFrom(parts, b, c) /\ Left(rest2, c, top)
  BY <1>12, TakePart
<1> QED
  BY <1>5, <1>10, <1>13 DEF SplitsOff

\* Either split takes the next tokens of its sequences and leaves the rest in order.
LEMMA FirstFacts ==
  ASSUME conf \in Configs, NEW rest, NEW b, NEW top, Left(rest, b, top), rest # <<>>
  PROVE  SplitsOff(First(rest), rest, b, top)
  BY FirstSimpleFacts, FirstEqualFacts DEF First

SplitStart(toks) == [done |-> <<>>, rest |-> toks]
SplitStep(a) == IF a.rest = <<>> THEN a
                ELSE [done |-> Append(a.done, First(a.rest).parts), rest |-> First(a.rest).rest]
SplitChain(f, toks, N) == f[0] = SplitStart(toks) /\ \A k \in 1..N : f[k] = SplitStep(f[k-1])

\* The split of a batch is a chain of steps (the loop of init_batch).
LEMMA SplitSteps ==
  ASSUME NEW V, NEW toks, SplitStart(toks) \in V, NEW N \in Nat, DOMAIN toks = 1..N,
         \A v \in V : SplitStep(v) \in V
  PROVE  \E f : SplitChain(f, toks, N) /\ f[N].done = Split(toks)
<1> DEFINE kd == SplitStart(toks)
           g == [k \in 1..N |-> [v \in V |-> SplitStep(v)]]
           Step(v, k) == SplitStep(v)
           E(it) == [s \in SUBSET (1..N) |-> IF s = {} THEN kd ELSE Step(it[s \ {Max(s)}], Max(s))]
           I == CHOOSE it : it = E(it)
           f == [k \in 0..N |-> I[1..k]]
<1>1. Split(toks) = I[1..N].done
  BY DEF Split, FoldLeft, MapThenFoldSet, SplitStep, SplitStart
<1>2. g \in [1..N -> [V -> V]] /\ \A k \in 1..N, v \in V : g[k][v] = Step(v, k)
  OBVIOUS
<1>3. \E it : it = E(it)
  <2>1. PICK it : FoldOf(it, V, kd, N, g)
    <3> HIDE DEF g, Step
    <3> QED BY <1>2, FoldExists
  <2>2. \A s \in SUBSET (1..N) : it[s] = IF s = {} THEN kd ELSE Step(it[s \ {Max(s)}], Max(s))
    <3> HIDE DEF g, Step, kd
    <3> QED BY <1>2, <2>1, MaxInPrefix DEF FoldOf
  <2>3. it = E(it)
    <3> HIDE DEF g, Step, kd
    <3> QED BY <2>1, <2>2 DEF FoldOf
  <2> QED BY <2>3
<1>4. I = E(I)
  <2> HIDE DEF E
  <2> QED BY <1>3
<1>5. I[{}] = kd
  BY <1>4
<1>6. ASSUME NEW k \in 1..N PROVE I[1..k] = Step(I[1..k-1], k)
  <2>0. k \in Nat \ {0} /\ 1..k \in SUBSET (1..N) /\ k \in 1..k /\ (1..k) \ {k} = 1..k-1
    OBVIOUS
  <2>1. 1..k \in SUBSET (1..N) /\ 1..k # {} /\ (1..k) \ {k} = 1..k-1 /\ Max(1..k) = k
    BY <2>0, MaxOfPrefix
  <2>2. I[1..k] = E(I)[1..k]
    BY <1>4
  <2>3. E(I)[1..k] = Step(I[(1..k) \ {Max(1..k)}], Max(1..k))
    <3> HIDE DEF I, Step, kd
    <3> QED BY <2>1
  <2> HIDE DEF I, E, Step
  <2> QED
    BY <2>1, <2>2, <2>3
<1>7. f[0] = kd /\ f[N].done = Split(toks)
  <2>1. 1..0 = {}
    OBVIOUS
  <2> HIDE DEF I, kd
  <2> QED BY <1>1, <1>5, <2>1
<1>8. \A k \in 1..N : f[k] = Step(f[k-1], k)
  <2> HIDE DEF I, Step
  <2> QED BY <1>6
<1> HIDE DEF f
<1> QED
  BY <1>7, <1>8 DEF SplitChain

\* A part of a batch that was split: what its ubatches bring, and what is left of it.
SplitInto(ubs, b, top, n, bs) ==
  /\ n \in Nat /\ DOMAIN ubs = 1..n /\ Ubatches(ubs, n)
  /\ bs \in [1..n+1 -> [Seqs -> Int]] /\ bs[1] = b
  /\ \A k \in 1..n : BringsFrom(ubs[k], bs[k], bs[k+1])
  /\ \A k \in 1..n+1, s \in Seqs : bs[k][s] <= top[s]
SplitUpTo(v, b, top, n, bs) == SplitInto(v.done, b, top, n, bs) /\ Left(v.rest, bs[n+1], top)

\* One more ubatch is split off.
LEMMA SplitOneMore ==
  ASSUME conf \in Configs, NEW v, NEW b, NEW top, NEW n, NEW bs, SplitUpTo(v, b, top, n, bs),
         NEW X, v.done \in Seq(X), First(v.rest).parts \in X, v.rest # <<>>
  PROVE  \E cs : SplitUpTo(SplitStep(v), b, top, n + 1, cs)
<1> DEFINE F == First(v.rest)
           ubs == v.done
           u == SplitStep(v)
           uds == Append(ubs, F.parts)
<1>1. /\ n \in Nat /\ DOMAIN ubs = 1..n /\ Ubatches(ubs, n)
      /\ bs \in [1..n+1 -> [Seqs -> Int]] /\ bs[1] = b
      /\ \A k \in 1..n : BringsFrom(ubs[k], bs[k], bs[k+1])
      /\ \A k \in 1..n+1, s \in Seqs : bs[k][s] <= top[s]
      /\ Left(v.rest, bs[n+1], top)
  BY DEF SplitUpTo, SplitInto
<1>2. SplitsOff(F, v.rest, bs[n+1], top)
  BY <1>1, FirstFacts
<1>3. u.done = uds /\ u.rest = F.rest
  BY DEF SplitStep
<1>4. Len(ubs) = n
  BY <1>1
<1> HIDE DEF F, u, ubs
<1>5. PICK c : BringsFrom(F.parts, bs[n+1], c) /\ Left(F.rest, c, top)
  BY <1>2 DEF SplitsOff
<1>6. DOMAIN uds = 1..n+1 /\ uds[n+1] = F.parts /\ \A k \in 1..n : uds[k] = ubs[k]
  BY <1>1, <1>4 DEF ubs, F
<1> HIDE DEF uds
<1> DEFINE cs == [k \in 1..n+2 |-> IF k = n + 2 THEN c ELSE bs[k]]
<1>7. c \in [Seqs -> Int] /\ \A s \in Seqs : c[s] <= top[s]
  BY <1>5 DEF Left
<1>8. /\ (n + 1) + 1 = n + 2 /\ n + 1 \in Nat /\ \A k \in 1..n+1 : k \in 1..n \/ k = n + 1
      /\ \A k \in 1..n+2 : k \in 1..n+1 \/ k = n + 2
      /\ n + 2 \in 1..n+2 /\ 1 \in 1..n+1 /\ \A k \in 1..n+1 : k \in 1..n+2 /\ k # n + 2
      /\ \A k \in 1..n : k + 1 \in 1..n+1 /\ k \in 1..n+1
      /\ n + 1 \in 1..n+1
  BY <1>1
<1>9. cs[n+2] = c /\ \A k \in 1..n+1 : cs[k] = bs[k]
  BY <1>8
<1>10. cs \in [1..n+2 -> [Seqs -> Int]]
  BY <1>1, <1>7, <1>8
<1> HIDE DEF cs
<1>11. Ubatches(uds, n + 1)
  <2>1. Ubatch(F.parts)
    BY <1>2 DEF SplitsOff
  <2> QED BY <1>1, <1>6, <1>8, <2>1 DEF Ubatches
<1>12. \A k \in 1..n+1 : BringsFrom(uds[k], cs[k], cs[k+1])
  BY <1>1, <1>5, <1>6, <1>8, <1>9
<1>13. \A k \in 1..n+2, s \in Seqs : cs[k][s] <= top[s]
  BY <1>1, <1>7, <1>8, <1>9
<1>14. SplitInto(uds, b, top, n + 1, cs)
  BY <1>1, <1>6, <1>8, <1>9, <1>10, <1>11, <1>12, <1>13 DEF SplitInto
<1>15. Left(F.rest, cs[(n+1)+1], top)
  BY <1>5, <1>8, <1>9
<1> QED
  BY <1>3, <1>14, <1>15 DEF SplitUpTo, u

\* split: ubatches that bring every sequence its positions in order.
LEMMA SplitFacts ==
  ASSUME conf \in Configs, NEW toks, NEW b, NEW top, Left(toks, b, top)
  PROVE  \E n, bs : SplitInto(Split(toks), b, top, n, bs)
<1> DEFINE X == {First(r).parts : r \in Seq(Tokens)}
           N == Len(toks)
           V == {v \in [done : Seq(X), rest : Seq(Tokens)] : \E n, bs : SplitUpTo(v, b, top, n, bs)}
<1>1. toks \in Seq(Tokens) /\ N \in Nat /\ DOMAIN toks = 1..N
  BY DEF Left
<1>2. SplitStart(toks) \in V
  <2> DEFINE v == SplitStart(toks)
             bs == [k \in 1..1 |-> b]
  <2>1. v.done = <<>> /\ v.rest = toks /\ v \in [done : Seq(X), rest : Seq(Tokens)]
    BY <1>1 DEF SplitStart
  <2>2. b \in [Seqs -> Int] /\ \A s \in Seqs : b[s] <= top[s]
    BY DEF Left
  <2>3. bs \in [1..1 -> [Seqs -> Int]] /\ bs[1] = b
    BY <2>2
  <2> HIDE DEF v, bs
  <2>4. DOMAIN v.done = 1..0 /\ 0 + 1 = 1 /\ 0 \in Nat /\ 1..0 = {} /\ 1..1 = {1}
    BY <2>1
  <2>5. Ubatches(v.done, 0)
    BY <2>4 DEF Ubatches
  <2>6. SplitInto(v.done, b, top, 0, bs)
    BY <2>2, <2>3, <2>4, <2>5 DEF SplitInto
  <2>7. SplitUpTo(v, b, top, 0, bs)
    BY <2>1, <2>3, <2>4, <2>6 DEF SplitUpTo
  <2> QED BY <2>1, <2>7 DEF v
<1>3. ASSUME NEW v \in V PROVE SplitStep(v) \in V
  <2>1. CASE v.rest = <<>>
    BY <2>1 DEF SplitStep
  <2>2. CASE v.rest # <<>>
    <3>1. PICK n, bs : SplitUpTo(v, b, top, n, bs)
      OBVIOUS
    <3>2. v.done \in Seq(X) /\ v.rest \in Seq(Tokens) /\ First(v.rest).parts \in X
      OBVIOUS
    <3> DEFINE F == First(v.rest)
    <3>3. PICK cs : SplitUpTo(SplitStep(v), b, top, n + 1, cs)
      <4> HIDE DEF X
      <4> QED BY <2>2, <3>1, <3>2, SplitOneMore
    <3>4. F.rest \in Seq(Tokens)
      <4>1. SplitsOff(F, v.rest, bs[n+1], top)
        BY <2>2, <3>1, FirstFacts DEF SplitUpTo
      <4> HIDE DEF F
      <4> QED BY <4>1 DEF SplitsOff, Left
    <3>5. Append(v.done, F.parts) \in Seq(X)
      <4> HIDE DEF X
      <4> QED BY <3>2
    <3>6. SplitStep(v) = [done |-> Append(v.done, F.parts), rest |-> F.rest]
      BY <2>2 DEF SplitStep
    <3> DEFINE d == Append(v.done, F.parts)
               r == F.rest
    <3>7. SplitStep(v) \in [done : Seq(X), rest : Seq(Tokens)]
      <4>1. d \in Seq(X) /\ r \in Seq(Tokens) /\ SplitStep(v) = [done |-> d, rest |-> r]
        BY <3>4, <3>5, <3>6
      <4> HIDE DEF d, r, X
      <4> QED BY <4>1
    <3> QED BY <3>3, <3>7
  <2> QED BY <2>1, <2>2
<1>4. PICK f : SplitChain(f, toks, N) /\ f[N].done = Split(toks)
  <2> HIDE DEF V
  <2> QED BY <1>1, <1>2, <1>3, SplitSteps
<1> DEFINE T == {k \in 0..N : f[k] \in V}
<1>5. 0 \in T
  BY <1>1, <1>2, <1>4 DEF SplitChain
<1>6. ASSUME NEW k \in 0..N-1, k \in T PROVE k + 1 \in T
  <2>1. k + 1 \in 1..N /\ (k + 1) - 1 = k /\ k + 1 \in 0..N
    BY <1>1
  <2> HIDE DEF V
  <2>2. f[k+1] = SplitStep(f[k])
    BY <1>4, <2>1 DEF SplitChain
  <2> QED BY <1>3, <1>6, <2>1, <2>2
<1>7. f[N] \in V
  <2> HIDE DEF V
  <2>1. 0..N \subseteq T
    <3> HIDE DEF T
    <3> QED BY <1>1, <1>5, <1>6, Upward
  <2> QED BY <1>1, <2>1
<1>8. PICK n, bs : SplitUpTo(f[N], b, top, n, bs)
  BY <1>7
<1> QED
  BY <1>4, <1>8 DEF SplitUpTo

\* The tokens of a sequence in a batch, in order: the k-th has k - 1 before it.
Counted(sets, s, q, m) ==
  /\ m \in Nat /\ m = Count(sets, Len(sets) + 1, s)
  /\ \A k \in 1..m : q[k] \in DOMAIN sets /\ s \in sets[q[k]] /\ Count(sets, q[k], s) = k - 1
  /\ \A j \in DOMAIN sets : s \in sets[j] => \E k \in 1..m : q[k] = j
  /\ \A j, k \in 1..m : j < k => q[j] < q[k]

\* Count gives the tokens of a sequence numbers without a gap.
LEMMA CountFacts ==
  ASSUME NEW S, NEW sets \in Seq(S), NEW s
  PROVE  \E q, m : Counted(sets, s, q, m)
<1> DEFINE N == Len(sets)
           D == {j \in 1..N : s \in sets[j]}
           q == InOrder(D)
           m == Cardinality(D)
<1>1. N \in Nat /\ DOMAIN sets = 1..N
  OBVIOUS
<1>2. D \subseteq Nat /\ IsFiniteSet(D)
  <2>1. IsFiniteSet(1..N) /\ D \in SUBSET (1..N)
    BY <1>1, FS_Interval
  <2> HIDE DEF D
  <2>2. IsFiniteSet(D)
    BY <2>1, FS_Subset
  <2> QED BY <1>1, <2>1, <2>2
<1>3. m = Count(sets, N + 1, s)
  <2>1. (N + 1) - 1 = N
    BY <1>1
  <2>2. D = {j \in 1..(N+1)-1 : s \in sets[j]}
    BY <2>1
  <2> HIDE DEF D
  <2> QED BY <2>2 DEF Count
<1>4. \A i \in 1..N : Count(sets, i, s) = Cardinality({y \in D : y < i})
  <2> TAKE i \in 1..N
  <2>1. {j \in 1..i-1 : s \in sets[j]} = {y \in D : y < i}
    BY <1>1
  <2> QED BY <2>1 DEF Count
<1>5. \A x : x \in D <=> x \in 1..N /\ s \in sets[x]
  OBVIOUS
<1> HIDE DEF D
<1>6. /\ m \in Nat
      /\ \A k \in 1..m : q[k] \in D /\ Cardinality({y \in D : y < q[k]}) = k - 1
      /\ \A x \in D : \E k \in 1..m : q[k] = x
      /\ \A j, k \in 1..m : j < k => q[j] < q[k]
  BY <1>2, InOrderFacts
<1> HIDE DEF q, m
<1>7. \A k \in 1..m : q[k] \in 1..N /\ s \in sets[q[k]] /\ Count(sets, q[k], s) = k - 1
  BY <1>4, <1>5, <1>6
<1>8. Counted(sets, s, q, m)
  BY <1>1, <1>3, <1>5, <1>6, <1>7 DEF Counted
<1> QED
  BY <1>8

\* The tokens of a batch, and where its sequences begin and end in it.
BatchOf(sets, tok) == [k \in DOMAIN sets |-> Token(sets, tok, k)]
Begins == [s \in Seqs |-> PosMax(cells, s) + 1]
Ends(sets) == [s \in Seqs |-> PosMax(cells, s) + 1 + Count(sets, Len(sets) + 1, s)]

\* A valid batch brings each sequence its next positions (init of the batch allocator).
LEMMA BatchLeft ==
  ASSUME Typed, NEW sets \in Batches, NEW tok \in Toks, Valid(sets),
         \A k \in DOMAIN sets : Token(sets, tok, k).pos < MaxPos
  PROVE  Left(BatchOf(sets, tok), Begins, Ends(sets))
<1> DEFINE toks == BatchOf(sets, tok)
           N == Len(sets)
<1>1. /\ sets \in Seq((SUBSET Seqs) \ {{}}) /\ N \in Nat /\ DOMAIN sets = 1..N
      /\ conf \in Configs /\ cells \in Tables
  <2>1. sets \in Seq((SUBSET Seqs) \ {{}})
    BY InputAssumption
  <2>2. conf \in Configs /\ cells \in Tables
    BY DEF Typed
  <2> QED BY <2>1, <2>2
<1>2. \A k \in 1..N : sets[k] \in (SUBSET Seqs) \ {{}}
  BY <1>1
<1>3. \A s \in Seqs : PosMax(cells, s) \in Int /\ PosMax(cells, s) >= -1
  BY <1>1, PosEnds
<1>4. \A s \in Seqs : \E q, m : Counted(sets, s, q, m)
  BY <1>1, CountFacts
<1>5. ASSUME NEW k \in 1..N, NEW s \in sets[k] PROVE Count(sets, k, s) \in Nat
  <2>1. PICK q, m : Counted(sets, s, q, m)
    BY <1>2, <1>4
  <2>2. PICK j \in 1..m : q[j] = k
    BY <1>1, <2>1 DEF Counted
  <2> QED BY <2>1, <2>2 DEF Counted
<1>6. DOMAIN toks = 1..N /\ \A k \in 1..N : toks[k] = Token(sets, tok, k)
  BY <1>1 DEF BatchOf
<1>7. ASSUME NEW k \in 1..N PROVE /\ toks[k].seqs = sets[k] /\ toks[k].tok = tok
                                  /\ \A s \in sets[k] : toks[k].pos = PosMax(cells, s) + 1 + Count(sets, k, s)
                                  /\ toks[k] \in Tokens
  <2> DEFINE s0 == Min(sets[k])
             p == PosMax(cells, s0) + 1 + Count(sets, k, s0)
  <2>1. toks[k] = [seqs |-> sets[k], tok |-> tok, pos |-> p]
    BY <1>6 DEF Token
  <2>2. s0 \in sets[k] /\ sets[k] \subseteq Seqs
    <3>1. sets[k] \subseteq Nat /\ sets[k] # {}
      BY <1>2, SeqsAssumption
    <3> QED BY <1>2, <3>1, MinOfNat
  <2> HIDE DEF s0
  <2>3. ASSUME NEW s \in sets[k] PROVE p = PosMax(cells, s) + 1 + Count(sets, k, s)
    <3>1. PosMax(cells, s0) = PosMax(cells, s) /\ Count(sets, k, s0) = Count(sets, k, s)
      BY <1>1, <2>2 DEF Valid
    <3> QED BY <3>1
  <2>4. p \in 0..MaxPos-1
    <3>1. PosMax(cells, s0) \in Int /\ PosMax(cells, s0) >= -1 /\ Count(sets, k, s0) \in Nat
      BY <1>3, <1>5, <2>2
    <3>2. p < MaxPos
      BY <1>1, <1>6, <2>1
    <3> QED BY <3>1, <3>2, BoundAssumption
  <2> HIDE DEF p, toks
  <2>5. toks[k] \in Tokens
    BY <1>2, <2>1, <2>4 DEF Tokens
  <2> QED BY <2>1, <2>3, <2>5
<1> HIDE DEF toks
<1>8. toks \in Seq(Tokens)
  <2>1. toks \in [1..N -> Tokens]
    <3>1. toks = [k \in 1..N |-> toks[k]]
      BY <1>6, <1>1 DEF toks, BatchOf
    <3> QED BY <1>7, <3>1
  <2> QED BY <1>1, <2>1, SeqDef
<1>9. Begins \in [Seqs -> Int] /\ \A s \in Seqs : Begins[s] = PosMax(cells, s) + 1
  BY <1>3 DEF Begins
<1>10. ASSUME NEW s \in Seqs
       PROVE  /\ Ends(sets)[s] \in Int /\ Begins[s] <= Ends(sets)[s]
              /\ PosOf(toks, s) = Begins[s]..Ends(sets)[s]-1 /\ InTurn(toks, s)
  <2>1. PICK q, m : Counted(sets, s, q, m)
    BY <1>4
  <2>2. /\ m \in Nat /\ m = Count(sets, N + 1, s)
        /\ \A k \in 1..m : q[k] \in 1..N /\ s \in sets[q[k]] /\ Count(sets, q[k], s) = k - 1
        /\ \A j \in 1..N : s \in sets[j] => \E k \in 1..m : q[k] = j
        /\ \A j, k \in 1..m : j < k => q[j] < q[k]
    BY <1>1, <2>1 DEF Counted
  <2> DEFINE a == PosMax(cells, s) + 1
  <2>3. a \in Int /\ Begins[s] = a /\ Ends(sets)[s] = a + m
    BY <1>3, <1>9, <2>2 DEF Ends
  <2>4. \A k \in 1..m : toks[q[k]].pos = a + (k - 1)
    BY <1>7, <2>2
  <2> HIDE DEF a
  <2>5. \A p : p \in PosOf(toks, s) <=> \E j \in 1..N : s \in sets[j] /\ toks[j].pos = p
    BY <1>6, <1>7 DEF PosOf
  <2>6. \A p : p \in PosOf(toks, s) <=> \E k \in 1..m : a + (k - 1) = p
    <3>1. ASSUME NEW p, NEW j \in 1..N, s \in sets[j], toks[j].pos = p PROVE \E k \in 1..m : a + (k - 1) = p
      <4>1. PICK k \in 1..m : q[k] = j
        BY <2>2, <3>1
      <4> QED BY <2>4, <3>1, <4>1
    <3>2. ASSUME NEW p, NEW k \in 1..m, a + (k - 1) = p PROVE \E j \in 1..N : s \in sets[j] /\ toks[j].pos = p
      <4>1. q[k] \in 1..N /\ s \in sets[q[k]] /\ toks[q[k]].pos = p
        BY <2>2, <2>4, <3>2
      <4> QED BY <4>1
    <3> QED BY <2>5, <3>1, <3>2
  <2>7. PosOf(toks, s) = a..a+m-1
    <3>1. ASSUME NEW p \in a..a+m-1 PROVE p - a + 1 \in 1..m /\ a + ((p - a + 1) - 1) = p
      BY <2>2, <2>3
    <3>2. ASSUME NEW k \in 1..m PROVE a + (k - 1) \in a..a+m-1
      BY <2>2, <2>3
    <3> QED BY <2>6, <3>1, <3>2
  <2>8. InTurn(toks, s)
    <3> SUFFICES ASSUME NEW i \in 1..N, NEW j \in 1..N, i < j, s \in sets[i], s \in sets[j]
                 PROVE  toks[i].pos < toks[j].pos
      BY <1>6, <1>7 DEF InTurn
    <3>1. PICK x \in 1..m : q[x] = i
      BY <2>2
    <3>2. PICK y \in 1..m : q[y] = j
      BY <2>2
    <3>3. x \in Int /\ y \in Int
      OBVIOUS
    <3>4. ~ (y < x) /\ x # y
      <4>1. y < x => j < i
        BY <2>2, <3>1, <3>2
      <4> QED BY <1>1, <3>1, <3>2, <4>1
    <3>5. toks[i].pos = a + (x - 1) /\ toks[j].pos = a + (y - 1)
      BY <2>4, <3>1, <3>2
    <3> QED BY <2>3, <3>3, <3>4, <3>5
  <2> QED BY <2>2, <2>3, <2>7, <2>8
<1>11. Ends(sets) \in [Seqs -> Int]
  <2>1. Ends(sets) = [s \in Seqs |-> Ends(sets)[s]]
    BY DEF Ends
  <2> QED BY <1>10, <2>1
<1>12. Cardinality(Streams) # 1 => \A j \in 1..N : toks[j].seqs = {Id(toks[j])}
  <2> SUFFICES ASSUME Cardinality(Streams) # 1, NEW j \in 1..N PROVE toks[j].seqs = {Id(toks[j])}
    OBVIOUS
  <2>1. toks[j].seqs = sets[j] /\ Id(toks[j]) \in sets[j]
    BY <1>7, TokenFacts
  <2>2. \A s, t \in sets[j] : s = t
    BY <1>1 DEF Valid
  <2> QED BY <2>1, <2>2
<1>13. Left(toks, Begins, Ends(sets))
  BY <1>6, <1>8, <1>9, <1>10, <1>11, <1>12 DEF Left
<1> QED
  BY <1>13 DEF toks

-----------------------------------------------------------------------------
(* The configuration does not change, nor what is said in terms of it *)

\* What is said in terms of the configuration only is the same after a step.
LEMMA PosSame ==
  ASSUME UNCHANGED conf
  PROVE  /\ Streams' = Streams /\ Tables' = Tables /\ MSet' = MSet
         /\ \A cs, s : PosIn(cs, s)' = PosIn(cs, s) /\ (Gapless(cs, s) <=> Gapless(cs, s)')
<1>1. Streams' = Streams
  BY DEF Streams
<1>2. Tables' = Tables
  BY <1>1 DEF Tables, Grid
<1>3. \A cs, s : PosIn(cs, s)' = PosIn(cs, s)
  BY DEF PosIn
<1>4. \A cs, s : Gapless(cs, s) <=> Gapless(cs, s)'
  BY DEF Gapless, PosMax, PosMin, PosIn
<1> QED
  BY <1>1, <1>2, <1>3, <1>4 DEF MSet

\* Of an ubatch that was placed.
LEMMA PlacedInSame ==
  ASSUME UNCHANGED conf, NEW a, NEW e, NEW b, PlacedIn(a, e, b)
  PROVE  PlacedIn(a, e, b)'
<1>1. Streams' = Streams /\ \A cs, s : PosIn(cs, s)' = PosIn(cs, s)
  BY PosSame
<1>2. \A cs, c : CanUse(cs, c) => CanUse(cs, c)'
  BY <1>1 DEF CanUse, Masked, PosMax
<1>3. Usable(a, e.parts, e.slot)'
  BY <1>1, <1>2 DEF PlacedIn, Usable, Taken, Parted, PartOf
<1>4. Ubatch(e.parts)'
  BY <1>1 DEF PlacedIn, Ubatch, PartOK
<1>5. SlotOK(e.parts, e.slot)'
  BY DEF PlacedIn, SlotOK, IdxsOK
<1>6. CellsAfter(a, e.parts, e.slot)' = CellsAfter(a, e.parts, e.slot)
  BY <1>1 DEF CellsAfter, Parted, PartOf
<1> QED
  BY <1>3, <1>4, <1>5, <1>6 DEF PlacedIn

\* Of what is left of a batch.
LEMMA CourseSame ==
  ASSUME UNCHANGED conf, NEW ms, NEW rs, NEW bs, NEW L, NEW n, Course(ms, rs, bs, L, n)
  PROVE  Course(ms, rs, bs, L, n)'
<1>1. Streams' = Streams /\ Tables' = Tables /\ \A cs, s : PosIn(cs, s)' = PosIn(cs, s)
  BY PosSame
<1>2. Placed(ms, L, n)'
  BY <1>1, PlacedInSame DEF Course, Placed
<1>3. Backed(rs, ms, L, n)'
  BY <1>1 DEF Course, Backed, BackIn, Taken, Parted, PartOf
<1>4. Advances(bs, L, n)'
  BY DEF Course, Advances, BringsFrom, Brings, TokensOf
<1>5. Below(ms[1], bs[1])'
  BY <1>1 DEF Course, Below
<1> QED
  BY <1>2, <1>3, <1>4, <1>5 DEF Course

\* Of the metadata around the cells.
LEMMA WithinSame ==
  ASSUME UNCHANGED conf, NEW a, NEW b, NEW bs, NEW s
  PROVE  /\ AllWithin(a, b) => AllWithin(a, b)'
         /\ Whole(a, bs, s) => Whole(a, bs, s)'
<1>1. Streams' = Streams /\ PosIn(a, s)' = PosIn(a, s)
  BY PosSame
<1> QED
  BY <1>1 DEF AllWithin, Whole

-----------------------------------------------------------------------------
(* The invariant *)

\* A decode that runs: what is left of it, L, was placed on trial on metadata the cells are
\* within, was put back to metadata that are within the cells, and brings the sequences
\* their next positions.
Running(ms, rs, bs, L, n) ==
  /\ todo = L /\ n \in Nat /\ n # 0 /\ L \in Seq({L[k] : k \in 1..n}) /\ Len(L) = n
  /\ Course(ms, rs, bs, L, n)
  /\ AllWithin(rs[1], cells) /\ AllWithin(cells, ms[1])
  /\ \A s \in whole : Whole(ms[1], bs[1], s)
Inv ==
  /\ Typed /\ DataFollows
  /\ todo # <<>> => copies = <<>> /\ \E ms, rs, bs, L, n : Running(ms, rs, bs, L, n)
  /\ LeavesNoGap

\* An empty cache satisfies the invariant.
LEMMA InitInv ==
  ASSUME Init
  PROVE  Inv
<1>1. conf \in Configs /\ calls = 0 /\ todo = <<>> /\ copies = <<>> /\ ret = "edited" /\ whole = {}
  BY DEF Init
<1>2. \A st \in Streams, i \in Idx : cells[st][i] = EmptyCell
  BY DEF Init
<1>3. cells \in Tables
  BY EmptyIsCell DEF Init, Tables, Grid
<1>4. heads \in [Streams -> 0..Size]
  BY SizeAssumption DEF Init
<1>5. kdata \in Grid(DataSet)
  <2> DEFINE d == [tok |-> NoTok, rope |-> 0]
  <2>1. d \in DataSet
    BY DEF DataSet
  <2>2. kdata = [st \in Streams |-> [i \in Idx |-> d]]
    BY DEF Init
  <2> HIDE DEF d
  <2> QED BY <2>1, <2>2 DEF Grid
<1>6. Typed
  BY <1>1, <1>3, <1>4, <1>5, BoundAssumption DEF Typed
<1>7. DataFollows
  BY <1>2, FollowsEach, EmptyFollows
<1>8. LeavesNoGap
  BY <1>1 DEF LeavesNoGap
<1> QED
  BY <1>1, <1>6, <1>7, <1>8 DEF Inv

\* Every operation on sequences keeps types and data.
LEMMA EditFollows ==
  ASSUME Typed, DataFollows, Edit
  PROVE  Typed' /\ DataFollows'
<1>1. CASE \E s \in Seqs, r \in Ranges : SeqRm(s, r[1], r[2])
  BY <1>1, SeqRmFollows
<1>2. CASE \E r \in Ranges : AnyRm(r[1], r[2])
  BY <1>2, AnyRmFollows
<1>3. CASE Clear
  BY <1>3, ClearFollows
<1>4. CASE \E s, t \in Seqs, p \in 1..MaxPos : SeqCpShared(s, t, p)
  BY <1>4, SeqCpSharedFollows
<1>5. CASE \E s, t \in Seqs : SeqCpStream(s, t)
  BY <1>5, SeqCpStreamFollows
<1>6. CASE \E s \in Seqs : SeqKeep(s)
  BY <1>6, SeqKeepFollows
<1>7. CASE \E s \in Seqs, r \in Ranges, d \in Deltas : SeqAdd(s, r[1], r[2], d)
  BY <1>7, SeqAddFollows
<1>8. CASE \E s \in Seqs, r \in Ranges : SeqDiv(s, r[1], r[2], 2)
  BY <1>8, SeqDivFollows
<1> QED
  BY <1>1, <1>2, <1>3, <1>4, <1>5, <1>6, <1>7, <1>8 DEF Edit

\* An operation on sequences comes while no decode runs and starts none.
LEMMA EditInv ==
  ASSUME Inv, Edit
  PROVE  Inv'
<1>1. Call
  BY DEF Edit, SeqRm, AnyRm, Clear, SeqCpShared, SeqCpStream, SeqKeep, SeqAdd, SeqDiv
<1>2. todo' = <<>> /\ ret' = "edited"
  BY <1>1 DEF Call
<1>3. Typed' /\ DataFollows'
  BY EditFollows DEF Inv
<1>4. LeavesNoGap'
  BY <1>2 DEF LeavesNoGap
<1> QED
  BY <1>2, <1>3, <1>4 DEF Inv

-----------------------------------------------------------------------------
(* llama_decode begins *)

\* A pending shift is applied to the K data, and the metadata forget it.
LEMMA SettledFacts ==
  ASSUME Typed
  PROVE  /\ Settled \in Tables
         /\ \A st \in Streams, i \in Idx : /\ Settled[st][i].seqs = cells[st][i].seqs
                                           /\ Settled[st][i].pos = cells[st][i].pos
                                           /\ Settled[st][i].tok = cells[st][i].tok
                                           /\ Settled[st][i].mark = cells[st][i].mark
                                           /\ Settled[st][i].shift = 0
         /\ \A s \in Seqs : PosIn(Settled, s) = PosIn(cells, s)
<1>1. ASSUME NEW c \in CellSet
      PROVE  /\ [c EXCEPT !.shift = 0] \in CellSet
             /\ [c EXCEPT !.shift = 0] = [pos |-> c.pos, seqs |-> c.seqs, tok |-> c.tok, shift |-> 0, mark |-> c.mark]
  <2>1. c = [pos |-> c.pos, seqs |-> c.seqs, tok |-> c.tok, shift |-> c.shift, mark |-> c.mark]
    BY CellFacts
  <2>2. [c EXCEPT !.shift = 0] = [pos |-> c.pos, seqs |-> c.seqs, tok |-> c.tok, shift |-> 0, mark |-> c.mark]
    BY <2>1
  <2>3. CASE c = EmptyCell
    <3>1. [c EXCEPT !.shift = 0] = EmptyCell
      BY <2>2, <2>3 DEF EmptyCell
    <3> QED BY <2>2, <3>1, EmptyIsCell
  <2>4. CASE c # EmptyCell
    <3>1. [pos |-> c.pos, seqs |-> c.seqs, tok |-> c.tok, shift |-> 0, mark |-> c.mark] \in CellSet
      <4>1. /\ c.pos \in 0..MaxPos-1 /\ c.seqs \in SUBSET Seqs /\ c.seqs # {} /\ c.tok \in Toks
            /\ c.mark \in {"none", "divided", "torn"} /\ 0 \in Int
        BY <2>4, FullCell
      <4> QED BY <4>1, MakeCell
    <3> QED BY <2>2, <3>1
  <2> QED BY <2>3, <2>4
<1>2. \A st \in Streams, i \in Idx : cells[st][i] \in CellSet
  BY DEF Typed, Tables, Grid
<1> DEFINE D(c) == [c EXCEPT !.shift = 0]
<1>3. \A c \in CellSet : D(c) \in CellSet /\ D(c).seqs = c.seqs /\ D(c).pos = c.pos /\ D(c).tok = c.tok
                         /\ D(c).mark = c.mark /\ D(c).shift = 0
  <2> TAKE c \in CellSet
  <2>1. D(c) \in CellSet /\ D(c) = [pos |-> c.pos, seqs |-> c.seqs, tok |-> c.tok, shift |-> 0, mark |-> c.mark]
    BY <1>1
  <2> HIDE DEF D
  <2> QED BY <2>1
<1>4. Settled = [st \in Streams |-> [i \in Idx |-> D(cells[st][i])]]
  BY DEF Settled
<1> HIDE DEF D
<1>5. \A st \in Streams, i \in Idx : Settled[st][i] = D(cells[st][i])
  BY <1>4
<1>6. Settled \in Tables
  BY <1>2, <1>3, <1>4 DEF Tables, Grid
<1>7. \A st \in Streams, i \in Idx : /\ Settled[st][i].seqs = cells[st][i].seqs
                                     /\ Settled[st][i].pos = cells[st][i].pos
                                     /\ Settled[st][i].tok = cells[st][i].tok
                                     /\ Settled[st][i].mark = cells[st][i].mark
                                     /\ Settled[st][i].shift = 0
  BY <1>2, <1>3, <1>5
<1>8. ASSUME NEW s \in Seqs PROVE PosIn(Settled, s) = PosIn(cells, s)
  <2>1. conf.stream[s] \in Streams
    BY StreamsFacts DEF Typed
  <2>2. \A p : p \in PosIn(Settled, s) <=> p \in PosIn(cells, s)
    BY <1>7, <2>1, InPos
  <2> QED BY <2>2
<1> QED
  BY <1>6, <1>7, <1>8

\* update copies and shifts: afterwards the data agree with cells that have no shift left.
LEMMA UpdatedFacts ==
  ASSUME Typed, DataFollows
  PROVE  /\ Updated \in Grid(DataSet)
         /\ \A st \in Streams, i \in Idx : Follows(Settled[st][i], Updated[st][i])
<1>1. Data \in Grid(DataSet) /\ \A st \in Streams, i \in Idx : Data[st][i] \in DataSet
  BY DataTyped DEF Grid
<1>2. \A st \in Streams, i \in Idx : cells[st][i].shift \in Int
  <2>1. \A st \in Streams, i \in Idx : cells[st][i] \in CellSet
    BY DEF Typed, Tables, Grid
  <2> QED BY <2>1, CellFacts
<1> DEFINE U(d, h) == [d EXCEPT !.rope = @ + h]
<1>3. \A d \in DataSet, h \in Int : U(d, h) \in DataSet /\ U(d, h).tok = d.tok /\ U(d, h).rope = d.rope + h
  BY DEF DataSet
<1>4. Updated = [st \in Streams |-> [i \in Idx |-> U(Data[st][i], cells[st][i].shift)]]
  BY DEF Updated, Data
<1> HIDE DEF U
<1>5. Updated \in Grid(DataSet)
  BY <1>1, <1>2, <1>3, <1>4 DEF Grid
<1>6. ASSUME NEW st \in Streams, NEW i \in Idx PROVE Follows(Settled[st][i], Updated[st][i])
  <2> DEFINE c == cells[st][i]
             d == Data[st][i]
             u == Updated[st][i]
             t == Settled[st][i]
  <2>1. Follows(c, d)
    BY FollowsEach
  <2>2. u.tok = d.tok /\ u.rope = d.rope + c.shift
    BY <1>1, <1>2, <1>3, <1>4
  <2>3. t.pos = c.pos /\ t.tok = c.tok /\ t.mark = c.mark /\ t.shift = 0
    BY SettledFacts
  <2>4. d.rope \in Int /\ c.shift \in Int
    BY <1>1, <1>2 DEF DataSet
  <2> HIDE DEF c, d, u, t
  <2>5. Follows(t, u)
    BY <2>1, <2>2, <2>3, <2>4 DEF Follows
  <2> QED BY <2>5 DEF t, u
<1> QED
  BY <1>5, <1>6

\* What a batch is placed on: a K-shift that failed leaves the cells as they are.
Base(sh) == IF sh THEN Settled ELSE cells
Rotated(sh) == IF sh THEN Updated ELSE Data

\* Either way the cells are those that were there, but for their shifts.
LEMMA BaseFacts ==
  ASSUME Typed, NEW sh \in BOOLEAN
  PROVE  /\ Base(sh) \in Tables
         /\ \A st \in Streams, i \in Idx : /\ Base(sh)[st][i].seqs = cells[st][i].seqs
                                           /\ Base(sh)[st][i].pos = cells[st][i].pos
                                           /\ Base(sh)[st][i].tok = cells[st][i].tok
         /\ \A s \in Seqs : PosIn(Base(sh), s) = PosIn(cells, s)
<1>1. CASE sh
  <2>1. Base(sh) = Settled
    BY <1>1 DEF Base
  <2> QED BY <2>1, SettledFacts
<1>2. CASE ~sh
  <2>1. Base(sh) = cells /\ cells \in Tables
    BY <1>2 DEF Base, Typed
  <2> QED BY <2>1
<1> QED
  BY <1>1, <1>2

\* Either way the data agree with the cells and what shift they have left.
LEMMA RotatedFacts ==
  ASSUME Typed, DataFollows, NEW sh \in BOOLEAN
  PROVE  /\ Rotated(sh) \in Grid(DataSet)
         /\ \A st \in Streams, i \in Idx : Follows(Base(sh)[st][i], Rotated(sh)[st][i])
<1>1. CASE sh
  <2>1. Base(sh) = Settled /\ Rotated(sh) = Updated
    BY <1>1 DEF Base, Rotated
  <2> QED BY <2>1, UpdatedFacts
<1>2. CASE ~sh
  <2>1. Base(sh) = cells /\ Rotated(sh) = Data
    BY <1>2 DEF Base, Rotated
  <2> QED BY <2>1, DataTyped, FollowsEach
<1> QED
  BY <1>1, <1>2

TrialOf(sets, tok, sh) == Trial([cells |-> Base(sh), heads |-> heads], Split(BatchOf(sets, tok)))
Begun(sets, sh, t, n, ms, rs, bs) ==
  /\ n \in Nat /\ DOMAIN t.states = 1..n /\ Len(t.states) = n
  /\ Course(ms, rs, bs, t.states, n)
  /\ ms[1] = Base(sh) /\ rs[1] = Restored(t).cells /\ Restored(t) \in MSet /\ bs[1] = Begins
  /\ \A s \in Seqs : bs[n+1][s] <= Ends(sets)[s]

\* The trial of a batch is a course of its ubatches, from where the sequences end.
LEMMA BegunFacts ==
  ASSUME Typed, NEW sets \in Batches, NEW tok \in Toks, NEW sh \in BOOLEAN, Valid(sets),
         \A k \in DOMAIN sets : Token(sets, tok, k).pos < MaxPos
  PROVE  \E n, ms, rs, bs : Begun(sets, sh, TrialOf(sets, tok, sh), n, ms, rs, bs)
<1> DEFINE toks == BatchOf(sets, tok)
           ubs == Split(toks)
           m == [cells |-> Base(sh), heads |-> heads]
           t == Trial(m, ubs)
<1>0. t = TrialOf(sets, tok, sh)
  BY DEF TrialOf
<1>1. conf \in Configs
  BY DEF Typed
<1>2. Left(toks, Begins, Ends(sets))
  BY BatchLeft
<1>3. m \in MSet /\ m.cells = Base(sh)
  BY BaseFacts DEF MSet, Typed
<1> HIDE DEF toks, m
<1>4. PICK N, as : SplitInto(ubs, Begins, Ends(sets), N, as)
  BY <1>1, <1>2, SplitFacts
<1> HIDE DEF ubs
<1>5. /\ N \in Nat /\ DOMAIN ubs = 1..N /\ Ubatches(ubs, N)
      /\ as \in [1..N+1 -> [Seqs -> Int]] /\ as[1] = Begins
      /\ \A k \in 1..N : BringsFrom(ubs[k], as[k], as[k+1])
      /\ \A k \in 1..N+1, s \in Seqs : as[k][s] <= Ends(sets)[s]
  BY <1>4 DEF SplitInto
<1>6. PICK n \in 0..N : Tried(t, m, ubs, n)
  BY <1>3, <1>5, TrialFacts
<1>7. PICK ms, rs : TrialLeaves(t, m, n, ms, rs)
  BY <1>5, <1>6, RestoredFacts
<1>8. Placed(ms, t.states, n) /\ Backed(rs, ms, t.states, n) /\ ms[1] = Base(sh) /\ rs[1] = Restored(t).cells /\ Restored(t) \in MSet
  BY <1>3, <1>7 DEF TrialLeaves
<1>9. n \in Nat /\ DOMAIN t.states = 1..n /\ Len(t.states) = n /\ \A k \in 1..n : t.states[k].parts = ubs[k]
  BY <1>6 DEF Tried, PlacedAt
<1> HIDE DEF t
<1> DEFINE bs == [k \in 1..n+1 |-> as[k]]
<1>10. \A k \in 1..n : k \in 1..N /\ k \in 1..n+1 /\ k + 1 \in 1..n+1
  BY <1>5
<1>11. 1 \in 1..n+1 /\ n + 1 \in 1..n+1 /\ n + 1 \in 1..N+1 /\ \A k \in 1..n+1 : k \in 1..N+1
  BY <1>5
<1>12. bs \in [1..n+1 -> [Seqs -> Int]] /\ bs[1] = Begins /\ \A k \in 1..n+1 : bs[k] = as[k]
  BY <1>5, <1>11
<1> HIDE DEF bs
<1>13. Advances(bs, t.states, n)
  BY <1>5, <1>9, <1>10, <1>12 DEF Advances
<1>14. Below(ms[1], bs[1])
  <2>1. ASSUME NEW s \in Seqs, NEW p \in PosIn(Base(sh), s) PROVE p < Begins[s]
    <3>1. p \in PosIn(cells, s) /\ cells \in Tables
      BY <2>1, BaseFacts DEF Typed
    <3>2. p <= PosMax(cells, s) /\ PosMax(cells, s) \in Int /\ p \in Int
      BY <1>1, <3>1, PosEnds, PosTyped
    <3> QED BY <3>2 DEF Begins
  <2> QED BY <1>8, <1>12, <2>1 DEF Below
<1>15. Course(ms, rs, bs, t.states, n)
  BY <1>8, <1>13, <1>14 DEF Course
<1>16. \A s \in Seqs : bs[n+1][s] <= Ends(sets)[s]
  BY <1>5, <1>11, <1>12
<1>17. Begun(sets, sh, t, n, ms, rs, bs)
  BY <1>8, <1>9, <1>12, <1>15, <1>16 DEF Begun
<1> QED
  BY <1>0, <1>17

\* The ubatches with the cells found for them.
LEMMA CourseOf ==
  ASSUME NEW ms, NEW rs, NEW bs, NEW L, NEW M, NEW n, Course(ms, rs, bs, L, n),
         \A k \in 1..n : M[k].parts = L[k].parts /\ M[k].slot = L[k].slot
  PROVE  Course(ms, rs, bs, M, n)
<1>1. Placed(ms, M, n)
  BY DEF Course, Placed, PlacedIn
<1>2. Backed(rs, ms, M, n)
  BY DEF Course, Backed, BackIn
<1>3. Advances(bs, M, n)
  BY DEF Course, Advances
<1> QED
  BY <1>1, <1>2, <1>3 DEF Course

\* A sequence without a gap is an interval up to its next position.
LEMMA GaplessWhole ==
  ASSUME Typed, NEW sh \in BOOLEAN, NEW s \in Seqs, Gapless(cells, s)
  PROVE  Whole(Base(sh), Begins, s)
<1> DEFINE P == PosIn(cells, s)
           x == PosMax(cells, s)
           y == PosMin(cells, s)
<1>1. conf \in Configs /\ cells \in Tables
  BY DEF Typed
<1>2. PosIn(Base(sh), s) = P /\ Begins[s] = x + 1
  BY BaseFacts DEF Begins
<1>3. x \in Int /\ P \subseteq Int /\ (P # {} => x \in P /\ y \in P /\ y <= x)
  BY <1>1, PosEnds, PosTyped
<1>4. P = y..x \/ P = {}
  BY DEF Gapless
<1> HIDE DEF P, x, y
<1>5. CASE P = {}
  <2>1. P = (x+1)..(x+1)-1 /\ x + 1 \in Int
    BY <1>3, <1>5
  <2> QED BY <1>2, <2>1 DEF Whole
<1>6. CASE P # {}
  <2>1. y \in Int /\ y <= x + 1 /\ P = y..(x+1)-1
    <3>1. y \in Int /\ y <= x /\ P = y..x
      BY <1>3, <1>4, <1>6
    <3>2. (x + 1) - 1 = x /\ y <= x + 1
      BY <1>3, <3>1
    <3> QED BY <3>1, <3>2
  <2> QED BY <1>2, <2>1 DEF Whole
<1> QED
  BY <1>5, <1>6

\* Every decode begins in one of these ways.
LEMMA DecodeBegins ==
  ASSUME NEW sets, NEW tok, Decode(sets, tok) \/ NoSlot(sets, tok)
  PROVE  \E ok, sh \in BOOLEAN : Begin(sets, tok, ok, Base(sh), Rotated(sh))
<1>1. Base(TRUE) = Settled /\ Rotated(TRUE) = Updated /\ Base(FALSE) = cells /\ Rotated(FALSE) = Data
  BY DEF Base, Rotated
<1>2. CASE Begin(sets, tok, TRUE, Settled, Updated)
  BY <1>1, <1>2
<1>3. CASE Begin(sets, tok, TRUE, cells, Data)
  BY <1>1, <1>3
<1>4. CASE Begin(sets, tok, FALSE, Settled, Updated)
  BY <1>1, <1>4
<1>5. \/ Begin(sets, tok, TRUE, Settled, Updated) \/ Begin(sets, tok, TRUE, cells, Data)
      \/ Begin(sets, tok, FALSE, Settled, Updated)
  BY DEF Decode, NoSlot, Data
<1> QED
  BY <1>2, <1>3, <1>4, <1>5

\* A decode that begins: the ubatches that were placed are to do, or none.
LEMMA BeginInv ==
  ASSUME Inv, NEW sets \in Batches, NEW tok \in Toks, NEW ok, NEW sh \in BOOLEAN, Begin(sets, tok, ok, Base(sh), Rotated(sh))
  PROVE  Inv'
<1> DEFINE t == TrialOf(sets, tok, sh)
           M == [k \in DOMAIN t.states |-> [parts |-> t.states[k].parts, slot |-> t.states[k].slot]]
<1>1. /\ ret' = IF ok THEN "running" ELSE "no slot"
      /\ calls < MaxCalls /\ calls' = calls + 1
      /\ Valid(sets) /\ \A k \in DOMAIN sets : Token(sets, tok, k).pos < MaxPos
      /\ kdata' = Rotated(sh) /\ copies' = <<>>
      /\ cells' = Restored(t).cells /\ heads' = Restored(t).heads
      /\ todo' = IF ok THEN M ELSE <<>>
      /\ whole' = IF ok THEN {s \in Seqs : Gapless(cells, s)} ELSE {}
      /\ conf' = conf
  <2>1. BatchOf(sets, tok) = [k \in DOMAIN sets |-> Token(sets, tok, k)]
    BY DEF BatchOf
  <2>2. \A k \in DOMAIN [j \in DOMAIN sets |-> Token(sets, tok, j)] : [j \in DOMAIN sets |-> Token(sets, tok, j)][k].pos < MaxPos
    BY DEF Begin
  <2>3. \A k \in DOMAIN sets : Token(sets, tok, k).pos < MaxPos
    BY <2>2
  <2>4. t = Trial([cells |-> Base(sh), heads |-> heads], Split([k \in DOMAIN sets |-> Token(sets, tok, k)]))
    BY <2>1 DEF TrialOf
  <2> QED BY <2>3, <2>4 DEF Begin
<1>2. Typed /\ DataFollows
  BY DEF Inv
<1> HIDE DEF t
<1>3. PICK n, ms, rs, bs : Begun(sets, sh, t, n, ms, rs, bs)
  BY <1>1, <1>2, BegunFacts DEF t
<1>4. /\ n \in Nat /\ DOMAIN t.states = 1..n /\ Len(t.states) = n
      /\ Course(ms, rs, bs, t.states, n)
      /\ ms[1] = Base(sh) /\ rs[1] = Restored(t).cells /\ Restored(t) \in MSet /\ bs[1] = Begins
  BY <1>3 DEF Begun
<1>5. AllWithin(rs[1], ms[1]) /\ rs[1] \in Tables
  <2>1. 1 \in 1..n+1 /\ Placed(ms, t.states, n) /\ Backed(rs, ms, t.states, n)
    BY <1>4 DEF Course
  <2> QED BY <1>4, <2>1, BackWithin DEF Backed
<1>6. Typed'
  <2>1. Restored(t).cells \in Tables /\ Restored(t).heads \in [Streams -> 0..Size]
    BY <1>4 DEF MSet
  <2>2. Rotated(sh) \in Grid(DataSet)
    BY <1>2, RotatedFacts
  <2>3. calls' \in 0..MaxCalls
    <3>1. calls \in 0..MaxCalls
      BY <1>2 DEF Typed
    <3>2. calls < MaxCalls /\ calls' = calls + 1
      BY <1>1
    <3> QED BY <3>1, <3>2, BoundAssumption
  <2>4. Tables' = Tables /\ Streams' = Streams /\ Grid(DataSet)' = Grid(DataSet)
    BY <1>1, PosSame DEF Grid
  <2>5. whole' \subseteq Seqs
    <3>1. whole' = IF ok THEN {s \in Seqs : Gapless(cells, s)} ELSE {}
      BY <1>1
    <3> QED BY <3>1
  <2>6. copies' \in Seq(Streams \X Streams)
    <3>1. copies' = <<>>
      BY <1>1
    <3> QED BY <3>1
  <2>7. ret' \in {"running", "no slot"}
    <3>1. ret' = IF ok THEN "running" ELSE "no slot"
      BY <1>1
    <3> QED BY <3>1
  <2> QED BY <1>1, <1>2, <2>1, <2>2, <2>3, <2>4, <2>5, <2>6, <2>7 DEF Typed
<1>7. DataFollows'
  <2>1. ASSUME NEW st \in Streams, NEW i \in Idx PROVE Follows(cells'[st][i], Rotated(sh)[st][i])
    <3>1. Follows(Base(sh)[st][i], Rotated(sh)[st][i]) /\ Base(sh) \in Tables
      BY <1>2, RotatedFacts, BaseFacts
    <3>2. cells' \in Tables /\ AllWithin(cells', Base(sh))
      BY <1>1, <1>4, <1>5
    <3>3. cells'[st][i] \in CellSet /\ Base(sh)[st][i] \in CellSet /\ Within(cells'[st][i], Base(sh)[st][i])
      BY <3>1, <3>2 DEF Tables, Grid, AllWithin
    <3> QED BY <3>1, <3>3, FollowsWithin
  <2>2. Copied(kdata, copies)' = Rotated(sh)
    BY <1>1, CopiedNone
  <2>3. Streams' = Streams
    BY <1>1, PosSame
  <2> QED BY <2>1, <2>2, <2>3 DEF DataFollows, Follows
<1>8. ASSUME todo' # <<>> PROVE copies' = <<>> /\ \E as, es, cs, L, l : Running(as, es, cs, L, l)'
  <2>1. ok /\ todo' = M
    BY <1>1, <1>8
  <2>2. DOMAIN M = 1..n /\ \A k \in 1..n : M[k].parts = t.states[k].parts /\ M[k].slot = t.states[k].slot
    BY <1>4
  <2>3. PICK L : L = M
    OBVIOUS
  <2>4. M \in [1..n -> {M[k] : k \in 1..n}]
    BY <1>4
  <2> HIDE DEF M
  <2>5. L \in Seq({L[k] : k \in 1..n}) /\ Len(L) = n
    <3>1. L \in [1..n -> {L[k] : k \in 1..n}]
      BY <2>3, <2>4
    <3>2. n \in Nat
      BY <1>4
    <3>3. L \in Seq({L[k] : k \in 1..n})
      BY <3>1, <3>2, SeqDef
    <3> QED BY <1>4, <2>2, <2>3, <3>3
  <2>6. n # 0
    BY <1>8, <2>1, <2>3, <2>5
  <2>7. Course(ms, rs, bs, L, n)
    BY <1>4, <2>2, <2>3, CourseOf
  <2>8. Course(ms, rs, bs, L, n)'
    BY <1>1, <2>7, CourseSame
  <2>9. AllWithin(rs[1], cells)' /\ AllWithin(cells, ms[1])'
    <3>1. \A st \in Streams, i \in Idx : rs[1][st][i] \in CellSet
      BY <1>5 DEF Tables, Grid
    <3>2. AllWithin(rs[1], rs[1])
      BY <3>1, WithinSelf DEF AllWithin
    <3>3. cells' = rs[1] /\ Streams' = Streams
      BY <1>1, <1>4, PosSame
    <3> QED BY <1>5, <3>2, <3>3 DEF AllWithin
  <2>10. \A s \in whole' : Whole(ms[1], bs[1], s)'
    <3> SUFFICES ASSUME NEW s \in whole' PROVE Whole(ms[1], bs[1], s)'
      OBVIOUS
    <3>1. s \in Seqs /\ Gapless(cells, s)
      BY <1>1, <2>1
    <3>2. Whole(ms[1], bs[1], s)
      BY <1>2, <1>4, <3>1, GaplessWhole
    <3> QED BY <1>1, <3>2, WithinSame
  <2>11. Running(ms, rs, bs, L, n)'
    BY <1>4, <2>1, <2>3, <2>5, <2>6, <2>8, <2>9, <2>10 DEF Running
  <2> QED BY <1>1, <2>11
<1>9. LeavesNoGap'
  BY <1>1 DEF LeavesNoGap
<1> QED
  BY <1>6, <1>7, <1>8, <1>9 DEF Inv

-----------------------------------------------------------------------------
(* An ubatch's turn *)

GoesOnWith(ms, rs, bs, L, n, M) ==
  /\ Course(ms, rs, bs, L, n)
  /\ \E as, es, cs : /\ as[1] = ms[2] /\ es[1] = rs[2] /\ cs[1] = bs[2]
                      /\ Course(as, es, cs, M, n - 1)
\* What is left of a course after its first ubatch.
LEMMA CourseTail ==
  ASSUME conf \in Configs, NEW n \in Nat, n # 0, NEW L, NEW ms, NEW rs, NEW bs, Course(ms, rs, bs, L, n),
         NEW M, \A k \in 1..n-1 : M[k] = L[k+1]
  PROVE  GoesOnWith(ms, rs, bs, L, n, M)
<1> DEFINE N == n - 1
           as == [k \in 1..n |-> ms[k+1]]
           es == [k \in 1..n |-> rs[k+1]]
           cs == [k \in 1..n |-> bs[k+1]]
<1>1. /\ N \in Nat /\ N + 1 = n /\ 1 \in 1..n /\ n \in 1..n /\ 1 + 1 = 2
      /\ \A k \in 1..n : k + 1 \in 1..n+1
      /\ \A k \in 1..N : k \in 1..n /\ k + 1 \in 1..n /\ 2 \in 1..n+1
      /\ 2 \in 1..n+1
  OBVIOUS
<1>2. /\ ms \in [1..n+1 -> Tables] /\ \A k \in 1..n : PlacedIn(ms[k], L[k], ms[k+1])
      /\ rs \in [1..n+1 -> Tables] /\ rs[n+1] = ms[n+1]
      /\ \A k \in 1..n : BackIn(rs[k], L[k], ms[k], rs[k+1])
      /\ bs \in [1..n+1 -> [Seqs -> Int]]
      /\ \A k \in 1..n : BringsFrom(L[k].parts, bs[k], bs[k+1])
  BY DEF Course, Placed, Backed, Advances
<1>3. \A k \in 1..n : as[k] = ms[k+1] /\ es[k] = rs[k+1] /\ cs[k] = bs[k+1]
  OBVIOUS
<1>4. as \in [1..n -> Tables] /\ es \in [1..n -> Tables] /\ cs \in [1..n -> [Seqs -> Int]]
  BY <1>1, <1>2
<1>5. \A k \in 1..N : M[k] = L[k+1]
  OBVIOUS
<1> HIDE DEF as, es, cs, N
<1>6. Placed(as, M, N)
  BY <1>1, <1>2, <1>3, <1>4, <1>5 DEF Placed
<1>7. Backed(es, as, M, N)
  BY <1>1, <1>2, <1>3, <1>4, <1>5 DEF Backed
<1>8. Advances(cs, M, N)
  BY <1>1, <1>2, <1>3, <1>4, <1>5 DEF Advances
<1>9. Below(as[1], cs[1])
  <2>1. \A k \in 1..n+1 : Below(ms[k], bs[k])
    BY CourseBelow
  <2> QED BY <1>1, <1>3, <2>1
<1>10. Course(as, es, cs, M, N)
  BY <1>6, <1>7, <1>8, <1>9 DEF Course
<1>11. as[1] = ms[2] /\ es[1] = rs[2] /\ cs[1] = bs[2]
  BY <1>1, <1>3
<1> QED
  BY <1>10, <1>11 DEF N, GoesOnWith

\* The first ubatch of a course, on the cells that are there.
Turn(cs, e, ms, rs, bs) ==
  /\ PlacedIn(ms[1], e, ms[2]) /\ BackIn(rs[1], e, ms[1], rs[2])
  /\ Ubatch(e.parts) /\ SlotOK(e.parts, e.slot) /\ Usable(ms[1], e.parts, e.slot)
  /\ BringsFrom(e.parts, bs[1], bs[2]) /\ bs[1] \in [Seqs -> Int] /\ bs[2] \in [Seqs -> Int]
  /\ ms[1] \in Tables /\ ms[2] \in Tables /\ rs[1] \in Tables /\ rs[2] \in Tables
  /\ Below(ms[1], bs[1])
  /\ \A st \in Streams, i \in Idx : Taken(e.parts, e.slot, st, i) => cs[st][i] = ms[1][st][i]
  /\ CellsAfter(cs, e.parts, e.slot) \in Tables
  /\ AllWithin(rs[2], CellsAfter(cs, e.parts, e.slot)) /\ AllWithin(CellsAfter(cs, e.parts, e.slot), ms[2])

\* What an ubatch finds when its turn comes.
LEMMA TurnFacts ==
  ASSUME NEW cs \in Tables, NEW n \in Nat, n # 0, NEW L, NEW ms, NEW rs, NEW bs, Course(ms, rs, bs, L, n),
         AllWithin(rs[1], cs), AllWithin(cs, ms[1])
  PROVE  Turn(cs, L[1], ms, rs, bs)
<1> DEFINE e == L[1]
<1>1. 1 \in 1..n /\ 1 \in 1..n+1 /\ 2 \in 1..n+1 /\ 1 + 1 = 2
  OBVIOUS
<1>2. /\ ms[1] \in Tables /\ ms[2] \in Tables /\ rs[1] \in Tables /\ rs[2] \in Tables
      /\ PlacedIn(ms[1], e, ms[2]) /\ BackIn(rs[1], e, ms[1], rs[2])
      /\ bs[1] \in [Seqs -> Int] /\ bs[2] \in [Seqs -> Int] /\ BringsFrom(e.parts, bs[1], bs[2])
  BY <1>1 DEF Course, Placed, Backed, Advances
<1>3. AllWithin(rs[2], ms[2]) /\ Below(ms[1], bs[1])
  <2>1. Placed(ms, L, n) /\ Backed(rs, ms, L, n)
    BY DEF Course
  <2>2. \A k \in 1..n+1 : AllWithin(rs[k], ms[k])
    BY <2>1, BackWithin
  <2> QED BY <1>1, <2>2 DEF Course
<1> HIDE DEF e
<1>4. /\ \A st \in Streams, i \in Idx : Taken(e.parts, e.slot, st, i) => cs[st][i] = ms[1][st][i]
      /\ CellsAfter(cs, e.parts, e.slot) \in Tables
      /\ AllWithin(rs[2], CellsAfter(cs, e.parts, e.slot))
      /\ AllWithin(CellsAfter(cs, e.parts, e.slot), ms[2])
  BY <1>2, <1>3, Sandwich
<1>5. Ubatch(e.parts) /\ SlotOK(e.parts, e.slot) /\ Usable(ms[1], e.parts, e.slot)
  BY <1>2 DEF PlacedIn
<1>6. Turn(cs, e, ms, rs, bs)
  BY <1>2, <1>3, <1>4, <1>5 DEF Turn
<1> QED
  BY <1>6 DEF e

\* The data that an ubatch writes.
LEMMA WrittenFacts ==
  ASSUME Typed, NEW e, Ubatch(e.parts), SlotOK(e.parts, e.slot), NEW computed
  PROVE  /\ Written(e, computed) \in Grid(DataSet)
         /\ \A st \in Streams, i \in Idx :
              IF Taken(e.parts, e.slot, st, i)
              THEN /\ Written(e, computed)[st][i].rope = TokenAt(e.parts, e.slot, st, i).pos
                   /\ computed => Written(e, computed)[st][i].tok = TokenAt(e.parts, e.slot, st, i).tok
              ELSE Written(e, computed)[st][i] = kdata[st][i]
<1> DEFINE W(st, i) == [tok |-> IF computed THEN TokenAt(e.parts, e.slot, st, i).tok ELSE NoTok,
                        rope |-> TokenAt(e.parts, e.slot, st, i).pos]
<1>1. Written(e, computed) = [st \in Streams |-> [i \in Idx |->
                                IF Taken(e.parts, e.slot, st, i) THEN W(st, i) ELSE kdata[st][i]]]
  BY DEF Written, TokenAt
<1>2. ASSUME NEW st \in Streams, NEW i \in Idx, Taken(e.parts, e.slot, st, i)
      PROVE  /\ W(st, i) \in DataSet /\ W(st, i).rope = TokenAt(e.parts, e.slot, st, i).pos
             /\ computed => W(st, i).tok = TokenAt(e.parts, e.slot, st, i).tok
  <2> DEFINE t == TokenAt(e.parts, e.slot, st, i)
             k == IF computed THEN t.tok ELSE NoTok
  <2>1. t \in Tokens
    BY <1>2, TakenFacts
  <2> HIDE DEF t
  <2>2. t.tok \in Toks /\ t.pos \in Int
    BY <2>1, TokenFacts
  <2>3. k \in Toks \cup {NoTok} /\ (computed => k = t.tok)
    BY <2>2
  <2>4. W(st, i) = [tok |-> k, rope |-> t.pos]
    BY DEF t
  <2> HIDE DEF k, W
  <2>5. W(st, i) \in DataSet /\ W(st, i).rope = t.pos /\ (computed => W(st, i).tok = t.tok)
    BY <2>2, <2>3, <2>4 DEF DataSet
  <2> QED BY <2>5 DEF t
<1>3. \A st \in Streams, i \in Idx : kdata[st][i] \in DataSet
  BY DEF Typed, Grid
<1> HIDE DEF W
<1>4. \A st \in Streams, i \in Idx :
        Written(e, computed)[st][i] = IF Taken(e.parts, e.slot, st, i) THEN W(st, i) ELSE kdata[st][i]
  BY <1>1
<1>5. Written(e, computed) \in Grid(DataSet)
  BY <1>1, <1>2, <1>3 DEF Grid
<1> QED
  BY <1>2, <1>4, <1>5

\* The data of an ubatch that was computed are of its cells.
LEMMA ComputedFollows ==
  ASSUME Typed, DataFollows, copies = <<>>, NEW e, Ubatch(e.parts), SlotOK(e.parts, e.slot),
         NEW st \in Streams, NEW i \in Idx
  PROVE  Follows(CellsAfter(cells, e.parts, e.slot)[st][i], Written(e, TRUE)[st][i])
<1> DEFINE c == CellsAfter(cells, e.parts, e.slot)[st][i]
           w == Written(e, TRUE)[st][i]
           t == TokenAt(e.parts, e.slot, st, i)
<1>0. cells \in Tables /\ cells[st][i] \in CellSet
  BY DEF Typed, Tables, Grid
<1>1. c \in CellSet
  BY <1>0, AfterFacts
<1>2. CASE Taken(e.parts, e.slot, st, i)
  <2>1. Within(c, CellPut(cells, e.parts, e.slot, st, i))
    BY <1>0, AfterFacts
  <2>2. CellPut(cells, e.parts, e.slot, st, i) = NewCell(t)
    BY <1>2 DEF CellPut
  <2>3. t \in Tokens
    BY <1>2, TakenFacts
  <2>4. w.tok = t.tok /\ w.rope = t.pos
    BY <1>2, WrittenFacts
  <2> HIDE DEF c, w, t
  <2>5. NewCell(t) \in CellSet /\ NewCell(t).tok = t.tok /\ NewCell(t).pos = t.pos /\ NewCell(t).shift = 0
    BY <2>3, NewCellFacts
  <2>6. t.pos \in Int
    BY <2>3, TokenFacts
  <2>7. Follows(NewCell(t), w)
    BY <2>4, <2>5, <2>6 DEF Follows
  <2>8. Follows(c, w)
    BY <1>1, <2>1, <2>2, <2>5, <2>7, FollowsWithin
  <2> QED BY <2>8 DEF c, w
<1>3. CASE ~ Taken(e.parts, e.slot, st, i)
  <2>1. Within(c, cells[st][i])
    BY <1>0, <1>3, AfterWithin
  <2>2. w = kdata[st][i]
    BY <1>3 DEF Written
  <2>3. Follows(cells[st][i], kdata[st][i])
    <3>1. Data = kdata
      BY CopiedNone DEF Data
    <3> QED BY <3>1, FollowsEach
  <2> HIDE DEF c, w
  <2>4. Follows(c, w)
    BY <1>0, <1>1, <2>1, <2>2, <2>3, FollowsWithin
  <2> QED BY <2>4 DEF c, w
<1> QED
  BY <1>2, <1>3

\* An interval has no gap.
LEMMA WholeGapless ==
  ASSUME conf \in Configs, NEW cs \in Tables, NEW b \in [Seqs -> Int], NEW s \in Seqs, Whole(cs, b, s)
  PROVE  Gapless(cs, s)
<1> DEFINE P == PosIn(cs, s)
           x == PosMax(cs, s)
           y == PosMin(cs, s)
<1>1. PICK a \in Int : a <= b[s] /\ P = a..b[s]-1
  BY DEF Whole
<1>2. x \in Int /\ (\A p \in P : p <= x) /\ (P # {} => x \in P /\ y \in P /\ \A p \in P : y <= p)
  BY PosEnds
<1> HIDE DEF P, x, y
<1>3. P # {} => P = y..x
  <2> SUFFICES ASSUME P # {} PROVE P = y..x
    OBVIOUS
  <2>1. a \in P /\ b[s] - 1 \in P /\ b[s] \in Int
    BY <1>1
  <2>2. x \in P /\ y \in P /\ b[s] - 1 <= x /\ y <= a
    BY <1>2, <2>1
  <2>3. x = b[s] - 1 /\ y = a
    BY <1>1, <2>1, <2>2
  <2> QED BY <1>1, <2>3
<1> QED
  BY <1>3 DEF P, x, y, Gapless

\* The ubatch is applied and computed.
LEMMA ComputeInv ==
  ASSUME Inv, Compute
  PROVE  Inv'
<1>1. /\ Typed /\ DataFollows /\ todo # <<>> /\ copies = <<>>
      /\ \E ms, rs, bs, L, n : Running(ms, rs, bs, L, n)
  BY DEF Inv, Compute
<1>2. PICK ms, rs, bs, L, n : Running(ms, rs, bs, L, n)
  BY <1>1
<1>3. /\ todo = L /\ n \in Nat /\ n # 0 /\ L \in Seq({L[k] : k \in 1..n}) /\ Len(L) = n
      /\ Course(ms, rs, bs, L, n) /\ AllWithin(rs[1], cells) /\ AllWithin(cells, ms[1])
      /\ \A s \in whole : Whole(ms[1], bs[1], s)
  BY <1>2 DEF Running
<1> DEFINE e == L[1]
           after == CellsAfter(cells, e.parts, e.slot)
<1>4. conf \in Configs /\ cells \in Tables /\ heads \in [Streams -> 0..Size]
  BY <1>1 DEF Typed
<1>5. Head(todo) = e
  BY <1>3
<1>6. /\ cells' = after /\ heads' = ApplyUbatch([cells |-> cells, heads |-> heads], e.parts, e.slot).heads
      /\ kdata' = Written(e, TRUE) /\ todo' = Tail(L)
      /\ ret' = IF todo' = <<>> THEN "decoded" ELSE "running"
      /\ conf' = conf /\ copies' = copies /\ whole' = whole /\ calls' = calls
  BY <1>3, <1>5 DEF Compute, ApplyUbatch
<1> HIDE DEF e, after
<1>7. Turn(cells, e, ms, rs, bs)
  BY <1>3, <1>4, TurnFacts DEF e
<1>8. /\ Ubatch(e.parts) /\ SlotOK(e.parts, e.slot) /\ after \in Tables
      /\ AllWithin(rs[2], after) /\ AllWithin(after, ms[2]) /\ ms[2] \in Tables /\ rs[2] \in Tables
      /\ bs[2] \in [Seqs -> Int]
  BY <1>7 DEF Turn, after
<1>9. Typed'
  <2> DEFINE m == [cells |-> cells, heads |-> heads]
  <2>1. m \in MSet
    BY <1>4 DEF MSet
  <2> HIDE DEF m
  <2>2. ApplyUbatch(m, e.parts, e.slot).heads \in [Streams -> 0..Size]
    BY <1>8, <2>1, ApplyTyped DEF MSet
  <2>3. Written(e, TRUE) \in Grid(DataSet)
    BY <1>1, <1>8, WrittenFacts
  <2>4. Tables' = Tables /\ Streams' = Streams /\ Grid(DataSet)' = Grid(DataSet)
    BY <1>6, PosSame DEF Grid
  <2>5. ret' \in {"decoded", "running"}
    BY <1>6
  <2> QED BY <1>1, <1>6, <1>8, <2>2, <2>3, <2>4, <2>5 DEF Typed, m
<1>10. DataFollows'
  <2>1. \A st \in Streams, i \in Idx : Follows(after[st][i], Written(e, TRUE)[st][i])
    BY <1>1, <1>8, ComputedFollows DEF after
  <2>2. Copied(kdata, copies)' = Written(e, TRUE)
    BY <1>1, <1>6, CopiedNone
  <2>3. Streams' = Streams
    BY <1>6, PosSame
  <2> QED BY <1>6, <2>1, <2>2, <2>3 DEF DataFollows, Follows
<1>11. ASSUME NEW s \in whole PROVE s \in Seqs /\ Whole(ms[2], bs[2], s)
  <2>1. s \in Seqs /\ Whole(ms[1], bs[1], s)
    BY <1>1, <1>3 DEF Typed
  <2>2. /\ ms[1] \in Tables /\ PlacedIn(ms[1], e, ms[2]) /\ bs[1] \in [Seqs -> Int]
        /\ BringsFrom(e.parts, bs[1], bs[2]) /\ Below(ms[1], bs[1])
    BY <1>7 DEF Turn
  <2> QED BY <1>4, <1>8, <2>1, <2>2, WholeStep
<1>12. ASSUME todo' # <<>> PROVE \E as, es, cs, M, l : Running(as, es, cs, M, l)'
  <2>1. PICK M : M = Tail(L)
    OBVIOUS
  <2>2. Len(M) = n - 1 /\ \A k \in 1..n-1 : M[k] = L[k+1]
    BY <1>3, <2>1
  <2>3. PICK as, es, cs : /\ as[1] = ms[2] /\ es[1] = rs[2] /\ cs[1] = bs[2]
                          /\ Course(as, es, cs, M, n - 1)
    <3>1. GoesOnWith(ms, rs, bs, L, n, M)
      BY <1>3, <1>4, <2>2, CourseTail
    <3> QED BY <3>1 DEF GoesOnWith
  <2>4. n - 1 \in Nat /\ M \in Seq({M[k] : k \in 1..n-1})
    <3>1. n - 1 \in Nat /\ DOMAIN M = 1..n-1
      BY <1>3, <2>1
    <3>2. M = [k \in 1..n-1 |-> M[k]]
      <4>1. M \in Seq({L[k] : k \in 1..n})
        BY <1>3, <2>1
      <4> QED BY <3>1, <4>1
    <3>3. M \in [1..n-1 -> {M[k] : k \in 1..n-1}]
      BY <3>2
    <3> QED BY <3>1, <3>3, SeqDef
  <2>5. n - 1 # 0
    BY <1>6, <1>12, <2>1, <2>2, <2>4
  <2>6. Course(as, es, cs, M, n - 1)'
    <3>1. PICK l : l = n - 1
      OBVIOUS
    <3>2. Course(as, es, cs, M, l)
      BY <2>3, <3>1
    <3>3. Course(as, es, cs, M, l)'
      BY <1>6, <3>2, CourseSame
    <3> QED BY <3>1, <3>3
  <2>7. AllWithin(es[1], cells)' /\ AllWithin(cells, as[1])'
    <3>1. Streams' = Streams
      BY <1>6, PosSame
    <3> QED BY <1>6, <1>8, <2>3, <3>1 DEF AllWithin
  <2>8. \A s \in whole' : Whole(as[1], cs[1], s)'
    BY <1>6, <1>11, <2>3, WithinSame
  <2>9. Running(as, es, cs, M, n - 1)'
    BY <1>6, <2>1, <2>2, <2>4, <2>5, <2>6, <2>7, <2>8 DEF Running
  <2> QED BY <2>9
<1>13. LeavesNoGap'
  <2> SUFFICES ASSUME ret' = "decoded", NEW s \in whole' PROVE Gapless(cells, s)'
    BY DEF LeavesNoGap
  <2>1. Tail(L) = <<>>
    BY <1>6
  <2>2. n = 1
    <3>1. L # <<>>
      BY <1>3
    <3>2. Len(Tail(L)) = Len(L) - 1
      BY <1>3, <3>1
    <3>3. Len(Tail(L)) = 0
      <4>1. Tail(L) \in Seq({L[k] : k \in 1..n})
        BY <1>3, <3>1
      <4> QED BY <2>1, <4>1, EmptySeq
    <3> HIDE DEF e
    <3> QED BY <1>3, <3>2, <3>3
  <2>3. rs[2] = ms[2]
    BY <1>3, <2>2 DEF Course, Backed
  <2>4. after = ms[2]
    <3>1. \A st \in Streams, i \in Idx : after[st][i] = ms[2][st][i]
      BY <1>8, <2>3, AllWithinFacts, WithinBoth
    <3> QED BY <1>8, <3>1 DEF Tables, Grid
  <2>5. Gapless(ms[2], s)
    BY <1>4, <1>6, <1>8, <1>11, WholeGapless
  <2> QED BY <1>6, <2>4, <2>5, PosSame
<1> QED
  BY <1>1, <1>6, <1>9, <1>10, <1>12, <1>13 DEF Inv

-----------------------------------------------------------------------------
(* An ubatch that fails *)

\* The cells of a failed ubatch: some lose sequences, and those taken are marked.
LEMMA TornFacts ==
  ASSUME NEW cs \in Tables, NEW e, NEW st \in Streams, NEW i \in Idx
  PROVE  /\ Removed(cs, e) \in Tables
         /\ Within(Removed(cs, e)[st][i], cs[st][i])
         /\ Torn(Removed(cs, e), e) \in Tables
         /\ Torn(Removed(cs, e), e)[st][i].seqs = Removed(cs, e)[st][i].seqs
         /\ Torn(Removed(cs, e), e)[st][i].pos = Removed(cs, e)[st][i].pos
         /\ Torn(Removed(cs, e), e)[st][i].tok = Removed(cs, e)[st][i].tok
         /\ IF Taken(e.parts, e.slot, st, i)
            THEN \/ Torn(Removed(cs, e), e)[st][i].pos = -1 \/ Torn(Removed(cs, e), e)[st][i].mark = "torn"
            ELSE Torn(Removed(cs, e), e)[st][i] = Removed(cs, e)[st][i]
<1> DEFINE from(s) == {t.pos : t \in {u \in TokensOf(e.parts) : Min(u.seqs) = s}}
           gone(c) == {s \in c.seqs : \E p \in from(s) : c.pos >= p}
           R == Removed(cs, e)
           D(c) == [c EXCEPT !.mark = "torn"]
<1>1. R = [t \in Streams |-> [j \in Idx |-> CellWithout(cs[t][j], gone(cs[t][j]))]]
  BY DEF Removed
<1> HIDE DEF from, gone, R
<1>2. \A t \in Streams, j \in Idx : cs[t][j] \in CellSet
  BY DEF Tables, Grid
<1>3. \A t \in Streams, j \in Idx : R[t][j] \in CellSet /\ Within(R[t][j], cs[t][j])
  <2> TAKE t \in Streams, j \in Idx
  <2>1. R[t][j] = CellWithout(cs[t][j], gone(cs[t][j]))
    BY <1>1
  <2> QED BY <1>2, <2>1, CellWithoutFacts
<1>4. R \in Tables
  BY <1>1, <1>3 DEF Tables, Grid
<1>5. ASSUME NEW c \in CellSet, c.pos # -1
      PROVE  D(c) \in CellSet /\ D(c).seqs = c.seqs /\ D(c).pos = c.pos /\ D(c).tok = c.tok /\ D(c).mark = "torn"
  <2>1. c = [pos |-> c.pos, seqs |-> c.seqs, tok |-> c.tok, shift |-> c.shift, mark |-> c.mark] /\ c # EmptyCell
    BY <1>5, CellFacts
  <2>2. D(c) = [pos |-> c.pos, seqs |-> c.seqs, tok |-> c.tok, shift |-> c.shift, mark |-> "torn"]
    BY <2>1
  <2>3. /\ c.pos \in 0..MaxPos-1 /\ c.seqs \in SUBSET Seqs /\ c.seqs # {} /\ c.tok \in Toks
        /\ c.shift \in Int /\ "torn" \in {"none", "divided", "torn"}
    BY <2>1, FullCell
  <2>4. [pos |-> c.pos, seqs |-> c.seqs, tok |-> c.tok, shift |-> c.shift, mark |-> "torn"] \in CellSet
    BY <2>3, MakeCell
  <2> HIDE DEF D
  <2> QED BY <2>2, <2>4
<1> DEFINE X(t, j) == IF R[t][j].pos # -1 /\ Taken(e.parts, e.slot, t, j) THEN D(R[t][j]) ELSE R[t][j]
<1>6. Torn(R, e) = [t \in Streams |-> [j \in Idx |-> X(t, j)]]
  BY DEF Torn
<1> HIDE DEF D
<1>7. \A t \in Streams, j \in Idx : X(t, j) \in CellSet
  BY <1>3, <1>5
<1>8. Torn(R, e)[st][i] = X(st, i)
  BY <1>6
<1>9. /\ X(st, i).seqs = R[st][i].seqs /\ X(st, i).pos = R[st][i].pos /\ X(st, i).tok = R[st][i].tok
      /\ IF Taken(e.parts, e.slot, st, i) THEN X(st, i).pos = -1 \/ X(st, i).mark = "torn" ELSE X(st, i) = R[st][i]
  BY <1>3, <1>5
<1> HIDE DEF X
<1>10. Torn(R, e) \in Tables
  BY <1>6, <1>7 DEF Tables, Grid
<1> QED
  BY <1>3, <1>4, <1>8, <1>9, <1>10 DEF R

\* The cells of an ubatch that failed are empty or torn; the others keep their data.
LEMMA TornFollows ==
  ASSUME Typed, DataFollows, copies = <<>>, NEW e, Ubatch(e.parts), SlotOK(e.parts, e.slot),
         NEW st \in Streams, NEW i \in Idx
  PROVE  Follows(Torn(Removed(CellsAfter(cells, e.parts, e.slot), e), e)[st][i], Written(e, FALSE)[st][i])
<1> DEFINE after == CellsAfter(cells, e.parts, e.slot)
           R == Removed(after, e)
           c == Torn(R, e)[st][i]
           w == Written(e, FALSE)[st][i]
<1>0. cells \in Tables /\ cells[st][i] \in CellSet
  BY DEF Typed, Tables, Grid
<1>1. after \in Tables /\ after[st][i] \in CellSet
  BY <1>0, AfterTyped, AfterFacts
<1>2. CASE Taken(e.parts, e.slot, st, i)
  <2>1. c.pos = -1 \/ c.mark = "torn"
    <3> HIDE DEF after
    <3> QED BY <1>1, <1>2, TornFacts
  <2> HIDE DEF c, w
  <2>2. Follows(c, w)
    BY <2>1 DEF Follows
  <2> QED BY <2>2 DEF c, w, R, after
<1>3. CASE ~ Taken(e.parts, e.slot, st, i)
  <2>1. Within(after[st][i], cells[st][i])
    BY <1>0, <1>3, AfterWithin
  <2>2. w = kdata[st][i]
    BY <1>3 DEF Written
  <2>3. Follows(cells[st][i], kdata[st][i])
    <3>1. Data = kdata
      BY CopiedNone DEF Data
    <3> QED BY <3>1, FollowsEach
  <2>4. c = R[st][i] /\ R \in Tables /\ Within(R[st][i], after[st][i])
    <3> HIDE DEF after
    <3> QED BY <1>1, <1>3, TornFacts
  <2> HIDE DEF c, w, R, after
  <2>5. R[st][i] \in CellSet
    BY <2>4 DEF Tables, Grid
  <2>6. Follows(after[st][i], w)
    BY <1>0, <1>1, <2>1, <2>2, <2>3, FollowsWithin
  <2>7. Follows(c, w)
    BY <1>1, <2>4, <2>5, <2>6, FollowsWithin
  <2> QED BY <2>7 DEF c, w, R, after
<1> QED
  BY <1>2, <1>3

\* An ubatch that fails ends the decode.
LEMMA FailsInv ==
  ASSUME Inv, ComputeFails
  PROVE  Inv'
<1>1. Typed /\ DataFollows /\ todo # <<>> /\ copies = <<>> /\ \E ms, rs, bs, L, n : Running(ms, rs, bs, L, n)
  BY DEF Inv, ComputeFails
<1>2. PICK ms, rs, bs, L, n : Running(ms, rs, bs, L, n)
  BY <1>1
<1>3. /\ todo = L /\ n \in Nat /\ n # 0 /\ L \in Seq({L[k] : k \in 1..n}) /\ Len(L) = n
      /\ Course(ms, rs, bs, L, n) /\ AllWithin(rs[1], cells) /\ AllWithin(cells, ms[1])
  BY <1>2 DEF Running
<1> DEFINE e == L[1]
           after == CellsAfter(cells, e.parts, e.slot)
           m == [cells |-> cells, heads |-> heads]
           h == ApplyUbatch(m, e.parts, e.slot).heads
           left == Removed(after, e)
<1>4. conf \in Configs /\ cells \in Tables /\ heads \in [Streams -> 0..Size]
  BY <1>1 DEF Typed
<1>5. Head(todo) = e
  BY <1>3
<1>6. /\ cells' = Torn(left, e) /\ heads' = [st \in Streams |-> HeadAfter(h[st], after[st], left[st])]
      /\ kdata' = Written(e, FALSE) /\ todo' = <<>> /\ ret' = "failed"
      /\ conf' = conf /\ copies' = copies /\ whole' = whole /\ calls' = calls
  BY <1>3, <1>5 DEF ComputeFails, ApplyUbatch
<1> HIDE DEF e
<1>7. Turn(cells, e, ms, rs, bs)
  BY <1>3, <1>4, TurnFacts DEF e
<1>8. Ubatch(e.parts) /\ SlotOK(e.parts, e.slot) /\ after \in Tables
  BY <1>7 DEF Turn
<1>9. m \in MSet
  BY <1>4 DEF MSet
<1> HIDE DEF m
<1>10. h \in [Streams -> 0..Size]
  BY <1>8, <1>9, ApplyTyped DEF MSet
<1> HIDE DEF h, after
<1>11. Torn(left, e) \in Tables
  <2>1. 0 \in Streams /\ 0 \in Idx
    BY <1>4, StreamsFacts, IdxFacts
  <2> QED BY <1>8, <2>1, TornFacts
<1>12. Written(e, FALSE) \in Grid(DataSet)
  BY <1>1, <1>8, WrittenFacts
<1> HIDE DEF left
<1>13. heads' \in [Streams -> 0..Size]
  BY <1>6, <1>10, HeadAfterTyped
<1>14. Typed'
  <2>1. Tables' = Tables /\ Streams' = Streams /\ Grid(DataSet)' = Grid(DataSet)
    BY <1>6, PosSame DEF Grid
  <2> QED BY <1>1, <1>6, <1>11, <1>12, <1>13, <2>1 DEF Typed
<1>15. DataFollows'
  <2>1. \A st \in Streams, i \in Idx : Follows(Torn(left, e)[st][i], Written(e, FALSE)[st][i])
    BY <1>1, <1>8, TornFollows DEF after, left
  <2>2. Copied(kdata, copies)' = Written(e, FALSE)
    BY <1>1, <1>6, CopiedNone
  <2>3. Streams' = Streams
    BY <1>6, PosSame
  <2> QED BY <1>6, <2>1, <2>2, <2>3 DEF DataFollows, Follows
<1>16. LeavesNoGap'
  BY <1>6 DEF LeavesNoGap
<1> QED
  BY <1>6, <1>14, <1>15, <1>16 DEF Inv

\* Every step keeps the invariant.
LEMMA InvKept ==
  ASSUME Inv, [Next]_vars
  PROVE  Inv'
<1>1. CASE Edit
  BY <1>1, EditInv
<1>2. CASE Compute
  BY <1>2, ComputeInv
<1>3. CASE ComputeFails
  BY <1>3, FailsInv
<1>4. CASE \E b \in Batches, tok \in Toks : Decode(b, tok) \/ NoSlot(b, tok)
  BY <1>4, BeginInv, DecodeBegins
<1>5. CASE UNCHANGED vars
  <2>1. UNCHANGED <<conf, cells, heads, kdata, copies, todo, ret, whole, calls>>
    BY <1>5 DEF vars
  <2>2. Typed' /\ DataFollows' /\ LeavesNoGap'
    <3>1. Tables' = Tables /\ Streams' = Streams /\ Grid(DataSet)' = Grid(DataSet)
      BY <2>1, PosSame DEF Grid
    <3>2. Typed'
      BY <2>1, <3>1 DEF Inv, Typed
    <3>3. DataFollows'
      <4>1. Copied(kdata, copies)' = Copied(kdata, copies)
        BY <2>1
      <4> QED BY <2>1, <3>1, <4>1 DEF Inv, DataFollows
    <3>4. LeavesNoGap'
      <4> SUFFICES ASSUME ret = "decoded", NEW s \in whole PROVE Gapless(cells, s)'
        BY <2>1 DEF LeavesNoGap
      <4>1. Gapless(cells, s)
        BY DEF Inv, LeavesNoGap
      <4> QED BY <2>1, <4>1, PosSame
    <3> QED BY <3>2, <3>3, <3>4
  <2>3. ASSUME todo' # <<>> PROVE copies' = <<>> /\ \E ms, rs, bs, L, n : Running(ms, rs, bs, L, n)'
    <3>1. PICK ms, rs, bs, L, n : Running(ms, rs, bs, L, n)
      BY <2>1, <2>3 DEF Inv
    <3>2. Course(ms, rs, bs, L, n)'
      BY <2>1, <3>1, CourseSame DEF Running
    <3>3. AllWithin(rs[1], cells)' /\ AllWithin(cells, ms[1])'
      <4>1. Streams' = Streams
        BY <2>1, PosSame
      <4> QED BY <2>1, <3>1, <4>1 DEF Running, AllWithin
    <3>4. \A s \in whole' : Whole(ms[1], bs[1], s)'
      BY <2>1, <3>1, WithinSame DEF Running
    <3>5. Running(ms, rs, bs, L, n)'
      BY <2>1, <3>1, <3>2, <3>3, <3>4 DEF Running
    <3> QED BY <2>1, <2>3, <3>5 DEF Inv
  <2> QED BY <2>2, <2>3 DEF Inv
<1> QED
  BY <1>1, <1>2, <1>3, <1>4, <1>5 DEF Next, Decoding

-----------------------------------------------------------------------------
(* What the invariant says *)

\* The types.
LEMMA InvTypeOK ==
  ASSUME Inv
  PROVE  TypeOK
<1>1. Typed
  BY DEF Inv
<1> DEFINE C == [pos : -1..MaxPos-1, seqs : SUBSET Seqs, tok : Toks \cup {NoTok},
                 shift : Int, mark : {"none", "divided", "torn"}]
<1>2. ASSUME NEW c \in CellSet PROVE c \in C /\ (c.pos = -1 <=> c.seqs = {})
  <2>1. /\ c.seqs \in SUBSET Seqs /\ c.pos \in -1..MaxPos-1 /\ c.shift \in Int
        /\ c.tok \in Toks \cup {NoTok} /\ c.mark \in {"none", "divided", "torn"}
        /\ c = [pos |-> c.pos, seqs |-> c.seqs, tok |-> c.tok, shift |-> c.shift, mark |-> c.mark]
        /\ (c.pos = -1 <=> c.seqs = {})
    BY CellFacts
  <2> DEFINE p == c.pos
             q == c.seqs
             t == c.tok
             h == c.shift
             k == c.mark
  <2>2. c = [pos |-> p, seqs |-> q, tok |-> t, shift |-> h, mark |-> k]
    BY <2>1
  <2>3. p \in -1..MaxPos-1 /\ q \in SUBSET Seqs /\ t \in Toks \cup {NoTok} /\ h \in Int /\ k \in {"none", "divided", "torn"}
    BY <2>1
  <2> HIDE DEF p, q, t, h, k
  <2>4. c \in C
    BY <2>2, <2>3
  <2> QED BY <2>1, <2>4
<1> HIDE DEF C
<1>3. /\ cells \in [Streams -> [Idx -> C]]
      /\ \A st \in Streams, i \in Idx : cells[st][i].pos = -1 <=> cells[st][i].seqs = {}
  <2>1. cells \in [Streams -> [Idx -> CellSet]]
    BY <1>1 DEF Typed, Tables, Grid
  <2>2. \A st \in Streams, i \in Idx : cells[st][i] \in CellSet
    BY <2>1
  <2>3. CellSet \subseteq C
    BY <1>2
  <2>4. [Idx -> CellSet] \subseteq [Idx -> C]
    BY <2>3
  <2>5. cells \in [Streams -> [Idx -> C]]
    BY <2>1, <2>4
  <2> QED BY <1>2, <2>2, <2>5
<1>4. kdata \in [Streams -> [Idx -> [tok : Toks \cup {NoTok}, rope : Int]]]
  BY <1>1 DEF Typed, Grid, DataSet
<1> QED
  BY <1>1, <1>3, <1>4 DEF TypeOK, Typed, C

\* The cells of a slot hold what they held when it was found: the metadata between the two
\* sides of Running agree there.
LEMMA InvSingle ==
  ASSUME Inv
  PROVE  SlotsStaySingle
<1> SUFFICES ASSUME todo # <<>>, NEW k \in DOMAIN todo[1].parts, NEW i \in ToSet(todo[1].slot[k])
             PROVE  Cardinality(cells[todo[1].parts[k].strm][i].seqs) <= 1
  BY DEF SlotsStaySingle
<1>1. PICK ms, rs, bs, L, n : Running(ms, rs, bs, L, n)
  BY DEF Inv
<1>2. /\ todo = L /\ n \in Nat /\ n # 0
      /\ Course(ms, rs, bs, L, n) /\ AllWithin(rs[1], cells) /\ AllWithin(cells, ms[1])
  BY <1>1 DEF Running
<1> DEFINE e == L[1]
           st == e.parts[k].strm
<1>3. conf \in Configs /\ cells \in Tables
  BY DEF Inv, Typed
<1>4. Turn(cells, L[1], ms, rs, bs)
  BY <1>2, <1>3, TurnFacts
<1>5. /\ Ubatch(e.parts) /\ SlotOK(e.parts, e.slot) /\ Usable(ms[1], e.parts, e.slot)
      /\ \A t \in Streams, j \in Idx : Taken(e.parts, e.slot, t, j) => cells[t][j] = ms[1][t][j]
      /\ ms[1] \in Tables
  BY <1>4 DEF Turn
<1>6. k \in DOMAIN e.parts /\ i \in ToSet(e.slot[k])
  BY <1>2
<1> HIDE DEF e
<1>7. Parted(e.parts, st) /\ PartOf(e.parts, st) = k
  BY <1>5, <1>6, PartFacts
<1>8. Taken(e.parts, e.slot, st, i)
  BY <1>6, <1>7 DEF Taken
<1>9. i \in Idx /\ st \in Streams
  BY <1>5, <1>8, TakenFacts
<1> DEFINE c == cells[st][i]
<1>10. CanUse(ms[1], c) /\ c \in CellSet
  BY <1>3, <1>5, <1>8, <1>9 DEF Usable, Tables, Grid
<1>11. cells[todo[1].parts[k].strm][i] = c
  BY <1>2 DEF e
<1> HIDE DEF c, st
<1>12. Cardinality(c.seqs) <= 1
  <2>1. CASE c.pos = -1
    <3>1. c.seqs = {}
      BY <1>10, <2>1, CellFacts
    <3> QED BY <3>1, FS_EmptySet
  <2>2. CASE Cardinality(c.seqs) = 1
    BY <2>2
  <2> QED BY <1>10, <2>1, <2>2 DEF CanUse
<1> QED
  BY <1>11, <1>12

-----------------------------------------------------------------------------
(* What a step takes from a sequence *)

\* A position with its token is that of a cell of the sequence.
LEMMA InText ==
  ASSUME NEW cs, NEW s, NEW x
  PROVE  x \in Text(cs, s) <=> \E i \in Idx : /\ s \in cs[conf.stream[s]][i].seqs
                                              /\ x = <<cs[conf.stream[s]][i].pos, cs[conf.stream[s]][i].tok>>
  BY DEF Text

\* What a sequence sees is in what keeps its cells.
LEMMA KeptText ==
  ASSUME Typed, NEW cs \in Tables, NEW s \in Seqs, NEW P \in Int,
         \A i \in Idx : s \in cells[conf.stream[s]][i].seqs /\ ~ Masked(cells[conf.stream[s]][i].pos, P)
            => /\ s \in cs[conf.stream[s]][i].seqs
               /\ cs[conf.stream[s]][i].pos = cells[conf.stream[s]][i].pos
               /\ cs[conf.stream[s]][i].tok = cells[conf.stream[s]][i].tok
  PROVE  Sees(s, P) \subseteq Text(cs, s)
<1> SUFFICES ASSUME NEW x \in Sees(s, P) PROVE x \in Text(cs, s)
  OBVIOUS
<1>1. x \in Text(cells, s) /\ ~ Masked(x[1], P)
  BY DEF Sees
<1>2. PICK i \in Idx : /\ s \in cells[conf.stream[s]][i].seqs
                       /\ x = <<cells[conf.stream[s]][i].pos, cells[conf.stream[s]][i].tok>>
  BY <1>1, InText
<1>3. ~ Masked(cells[conf.stream[s]][i].pos, P)
  BY <1>1, <1>2
<1>4. /\ s \in cs[conf.stream[s]][i].seqs
      /\ x = <<cs[conf.stream[s]][i].pos, cs[conf.stream[s]][i].tok>>
  BY <1>2, <1>3
<1> QED
  BY <1>4, InText

\* A trial that is put back takes nothing from what a sequence sees past its new tokens.
LEMMA BeginLoses ==
  ASSUME Inv, NEW sets \in Batches, NEW tok \in Toks, NEW ok, NEW sh \in BOOLEAN, Begin(sets, tok, ok, Base(sh), Rotated(sh)), NEW s \in Seqs
  PROVE  Sees(s, PosMax(cells, s) + Count(sets, Len(sets) + 1, s) + 1) \subseteq Text(cells', s)
<1> DEFINE t == TrialOf(sets, tok, sh)
           P == PosMax(cells, s) + Count(sets, Len(sets) + 1, s) + 1
           st == conf.stream[s]
<1>1. /\ Valid(sets) /\ \A k \in DOMAIN sets : Token(sets, tok, k).pos < MaxPos
      /\ cells' = Restored(t).cells
  <2>1. BatchOf(sets, tok) = [k \in DOMAIN sets |-> Token(sets, tok, k)]
    BY DEF BatchOf
  <2>2. \A k \in DOMAIN [j \in DOMAIN sets |-> Token(sets, tok, j)] : [j \in DOMAIN sets |-> Token(sets, tok, j)][k].pos < MaxPos
    BY DEF Begin
  <2>3. \A k \in DOMAIN sets : Token(sets, tok, k).pos < MaxPos
    BY <2>2
  <2>4. t = Trial([cells |-> Base(sh), heads |-> heads], Split([k \in DOMAIN sets |-> Token(sets, tok, k)]))
    BY <2>1 DEF TrialOf
  <2> QED BY <2>3, <2>4 DEF Begin
<1>2. Typed /\ conf \in Configs /\ cells \in Tables
  BY DEF Inv, Typed
<1> HIDE DEF t
<1>3. PICK n, ms, rs, bs : Begun(sets, sh, t, n, ms, rs, bs)
  BY <1>1, <1>2, BegunFacts DEF t
<1>4. /\ n \in Nat /\ Course(ms, rs, bs, t.states, n)
      /\ ms[1] = Base(sh) /\ rs[1] = cells' /\ bs[n+1][s] <= Ends(sets)[s]
  BY <1>1, <1>3 DEF Begun
<1>5. rs[1] \in Tables /\ AllWithin(rs[1], Base(sh)) /\ Base(sh) \in Tables
  <2>1. 1 \in 1..n+1 /\ Placed(ms, t.states, n) /\ Backed(rs, ms, t.states, n)
    BY <1>4 DEF Course
  <2>2. AllWithin(rs[1], ms[1])
    BY <1>4, <2>1, BackWithin
  <2> QED BY <1>2, <1>4, <2>1, <2>2, BaseFacts DEF Backed
<1>6. P \in Int /\ Ends(sets)[s] = P
  <2>1. PosMax(cells, s) \in Int
    BY <1>2, PosEnds
  <2>2. Count(sets, Len(sets) + 1, s) \in Nat
    <3>1. sets \in Seq((SUBSET Seqs) \ {{}})
      BY InputAssumption
    <3>2. PICK q, m : Counted(sets, s, q, m)
      BY <3>1, CountFacts
    <3> QED BY <3>2 DEF Counted
  <2>3. Ends(sets)[s] = PosMax(cells, s) + 1 + Count(sets, Len(sets) + 1, s)
    BY DEF Ends
  <2> QED BY <2>1, <2>2, <2>3
<1> HIDE DEF P
<1>7. Keeps(rs[1], Base(sh), s, P)
  <2>1. bs[n+1][s] <= P
    BY <1>4, <1>6
  <2>2. Keeps(rs[1], ms[1], s, P)
    BY <1>2, <1>4, <1>6, <2>1, CourseKeeps
  <2> QED BY <1>4, <2>2
<1>8. st \in Streams
  BY <1>2, StreamsFacts
<1>9. ASSUME NEW i \in Idx, s \in cells[st][i].seqs, ~ Masked(cells[st][i].pos, P)
      PROVE  s \in rs[1][st][i].seqs /\ rs[1][st][i].pos = cells[st][i].pos /\ rs[1][st][i].tok = cells[st][i].tok
  <2>1. Base(sh)[st][i].seqs = cells[st][i].seqs /\ Base(sh)[st][i].pos = cells[st][i].pos /\ Base(sh)[st][i].tok = cells[st][i].tok
    BY <1>2, <1>8, BaseFacts
  <2>2. s \in rs[1][st][i].seqs
    BY <1>7, <1>9, <2>1 DEF Keeps
  <2>3. rs[1][st][i] \in CellSet /\ Base(sh)[st][i] \in CellSet /\ Within(rs[1][st][i], Base(sh)[st][i])
    BY <1>5, <1>8, AllWithinFacts
  <2> QED BY <2>1, <2>2, <2>3, WithinHas
<1>10. Sees(s, P) \subseteq Text(rs[1], s)
  BY <1>2, <1>5, <1>6, <1>9, KeptText
<1> QED
  BY <1>4, <1>10 DEF P

\* While a decode runs the cells of a sequence that stay are those it sees from P.
LEMMA RunningMax ==
  ASSUME Inv, NEW ms, NEW rs, NEW bs, NEW L, NEW n, Running(ms, rs, bs, L, n), NEW s \in Seqs
  PROVE  LET P == Max({PosMax(cells, s)} \cup Brought(todo, s)) + 1
         IN P \in Int /\ \A p \in PosIn(ms[1], s) : p < P
<1> DEFINE B == Brought(L, s)
           S == {PosMax(cells, s)} \cup B
           X == Max(S)
<1>1. /\ todo = L /\ n \in Nat /\ n # 0 /\ L \in Seq({L[k] : k \in 1..n}) /\ Len(L) = n
      /\ Course(ms, rs, bs, L, n) /\ AllWithin(rs[1], cells) /\ AllWithin(cells, ms[1])
  BY DEF Running
<1>2. conf \in Configs /\ cells \in Tables
  BY DEF Inv, Typed
<1>3. \A p : p \in B <=> \E k \in 1..n : p \in Brings(L[k].parts, s)
  <2>1. DOMAIN L = 1..n
    BY <1>1
  <2> QED BY <2>1 DEF Brought, Brings
<1>4. Placed(ms, L, n) /\ Backed(rs, ms, L, n) /\ Advances(bs, L, n) /\ Below(ms[1], bs[1])
  BY <1>1 DEF Course
<1>5. \A k \in 1..n : \A p \in Brings(L[k].parts, s) : p \in Int /\ p < MaxPos /\ bs[k][s] <= p
  <2> TAKE k \in 1..n
  <2> TAKE p \in Brings(L[k].parts, s)
  <2>1. PICK t \in TokensOf(L[k].parts) : p = t.pos
    BY DEF Brings
  <2>2. t \in Tokens
    <3>1. Ubatch(L[k].parts) /\ SlotOK(L[k].parts, L[k].slot)
      BY <1>4 DEF Placed, PlacedIn
    <3>2. PICK x \in DOMAIN L[k].parts : t \in ToSet(L[k].parts[x].toks)
      BY <2>1 DEF TokensOf
    <3>3. L[k].parts[x].toks \in Seq(Tokens)
      BY <3>1, <3>2 DEF Ubatch, PartOK
    <3> QED BY <3>2, <3>3 DEF ToSet
  <2>3. p \in 0..MaxPos-1 /\ p \in Int
    BY <2>1, <2>2, TokenFacts
  <2>4. bs[k] \in [Seqs -> Int] /\ bs[k+1] \in [Seqs -> Int] /\ BringsFrom(L[k].parts, bs[k], bs[k+1])
    <3>1. k \in 1..n+1 /\ k + 1 \in 1..n+1
      BY <1>1
    <3> QED BY <1>4, <3>1 DEF Advances
  <2>5. p \in bs[k][s]..bs[k+1][s]-1
    BY <2>4 DEF BringsFrom
  <2> QED BY <2>3, <2>4, <2>5, BoundAssumption
<1>6. PosMax(cells, s) \in Int /\ PosMax(cells, s) < MaxPos /\ \A p \in PosIn(cells, s) : p <= PosMax(cells, s)
  BY <1>2, PosEnds, BoundAssumption
<1>7. B \subseteq Int /\ \A p \in B : p < MaxPos
  BY <1>3, <1>5
<1> HIDE DEF B
<1>8. X \in Int /\ \A p \in S : p <= X
  <2>1. S \subseteq Int /\ S # {} /\ MaxPos \in Int /\ \A p \in S : p <= MaxPos
    <3> DEFINE x == PosMax(cells, s)
    <3>1. x \in Int /\ x < MaxPos /\ MaxPos \in Int
      BY <1>6, BoundAssumption
    <3>2. S = {x} \cup B
      OBVIOUS
    <3> HIDE DEF x, S
    <3>3. \A p \in {x} : p \in Int /\ p <= MaxPos
      BY <3>1
    <3>4. \A p \in B : p \in Int /\ p <= MaxPos
      BY <1>7, <3>1
    <3> QED BY <3>1, <3>2, <3>3, <3>4
  <2> HIDE DEF S
  <2> QED BY <2>1, MaxOfBounded
<1> HIDE DEF X
<1>9. PosMax(cells, s) <= X /\ \A p \in B : p <= X
  BY <1>8
<1> HIDE DEF S
<1>10. ASSUME NEW p \in PosIn(ms[1], s) PROVE p < X + 1
  <2>0. ms[1] \in Tables /\ rs[1] \in Tables /\ 1 \in 1..n /\ 1 \in 1..n+1
    BY <1>1, <1>4 DEF Placed, Backed
  <2>1. p \in Int
    BY <1>2, <2>0, PosTyped
  <2>2. CASE \E q : q \in B
    <3>0. PICK q : q \in B
      BY <2>2
    <3>1. PICK k \in 1..n : q \in Brings(L[k].parts, s)
      BY <1>3, <3>0
    <3>2. q \in Int /\ bs[k][s] <= q /\ q <= X
      BY <1>5, <1>9, <3>0, <3>1
    <3>3. bs[1][s] <= bs[k][s]
      <4>1. \A x \in 1..n+1 : bs[1][s] <= bs[x][s] /\ bs[x][s] <= bs[n+1][s]
        BY <1>1, <1>4, AdvancesUp
      <4>2. k \in 1..n+1
        BY <1>1
      <4> QED BY <4>1, <4>2
    <3>4. p < bs[1][s]
      BY <1>4 DEF Below
    <3>5. bs[1][s] \in Int /\ bs[k][s] \in Int
      <4>1. k \in 1..n+1 /\ 1 \in 1..n+1
        BY <1>1
      <4>2. bs[k] \in [Seqs -> Int] /\ bs[1] \in [Seqs -> Int]
        BY <1>4, <4>1 DEF Advances
      <4> QED BY <4>2
    <3> QED BY <1>8, <2>1, <3>2, <3>3, <3>4, <3>5
  <2>3. CASE ~ \E q : q \in B
    <3>1. \A k \in 1..n : Brings(L[k].parts, s) = {}
      BY <1>3, <2>3
    <3>2. Reaches(rs[1], ms[1], s)
      BY <1>1, <1>2, <3>1, CourseReaches
    <3>3. PICK i \in Idx : s \in ms[1][conf.stream[s]][i].seqs /\ ms[1][conf.stream[s]][i].pos = p
      BY InPos
    <3>4. PICK j \in Idx : s \in rs[1][conf.stream[s]][j].seqs /\ p <= rs[1][conf.stream[s]][j].pos
      BY <3>2, <3>3 DEF Reaches
    <3>5. conf.stream[s] \in Streams
      BY <1>2, StreamsFacts
    <3>6. /\ rs[1][conf.stream[s]][j] \in CellSet /\ cells[conf.stream[s]][j] \in CellSet
          /\ Within(rs[1][conf.stream[s]][j], cells[conf.stream[s]][j])
      BY <1>1, <1>2, <2>0, <3>5, AllWithinFacts
    <3>7. s \in cells[conf.stream[s]][j].seqs /\ cells[conf.stream[s]][j].pos = rs[1][conf.stream[s]][j].pos
      BY <3>4, <3>6, WithinHas
    <3>8. cells[conf.stream[s]][j].pos \in PosIn(cells, s) /\ cells[conf.stream[s]][j].pos \in Int
      BY <3>6, <3>7, InPos, CellFacts
    <3> QED BY <1>6, <1>8, <1>9, <2>1, <3>4, <3>7, <3>8
  <2> QED BY <2>2, <2>3
<1>11. Max({PosMax(cells, s)} \cup Brought(todo, s)) = X
  BY <1>1 DEF X, S, B
<1> QED
  BY <1>8, <1>10, <1>11

\* What a sequence sees stays in its cells when an ubatch is applied, and lies before what
\* the ubatch brings.
LEMMA ApplyKeeps ==
  ASSUME conf \in Configs, NEW cs \in Tables, NEW e, NEW ms, NEW rs, NEW bs, Turn(cs, e, ms, rs, bs), AllWithin(cs, ms[1]),
         NEW s \in Seqs, NEW P \in Int, \A p \in PosIn(ms[1], s) : p < P,
         NEW i \in Idx, s \in cs[conf.stream[s]][i].seqs, ~ Masked(cs[conf.stream[s]][i].pos, P)
  PROVE  /\ ~ Taken(e.parts, e.slot, conf.stream[s], i)
         /\ s \in CellsAfter(cs, e.parts, e.slot)[conf.stream[s]][i].seqs
         /\ CellsAfter(cs, e.parts, e.slot)[conf.stream[s]][i].pos = cs[conf.stream[s]][i].pos
         /\ CellsAfter(cs, e.parts, e.slot)[conf.stream[s]][i].tok = cs[conf.stream[s]][i].tok
         /\ \A p \in Brings(e.parts, s) : cs[conf.stream[s]][i].pos < p
<1> DEFINE st == conf.stream[s]
           a == ms[1]
           after == CellsAfter(cs, e.parts, e.slot)
<1>1. /\ PlacedIn(a, e, ms[2]) /\ Ubatch(e.parts) /\ SlotOK(e.parts, e.slot)
      /\ BringsFrom(e.parts, bs[1], bs[2]) /\ bs[1] \in [Seqs -> Int] /\ a \in Tables /\ Below(a, bs[1])
      /\ bs[2] \in [Seqs -> Int]
      /\ \A t \in Streams, j \in Idx : Taken(e.parts, e.slot, t, j) => cs[t][j] = a[t][j]
  BY DEF Turn
<1>2. st \in Streams
  BY StreamsFacts
<1> HIDE DEF a
<1>3. /\ cs[st][i] \in CellSet /\ a[st][i] \in CellSet /\ Within(cs[st][i], a[st][i])
  BY <1>1, <1>2, AllWithinFacts DEF a
<1>4. s \in a[st][i].seqs /\ a[st][i].pos = cs[st][i].pos
  BY <1>3, WithinHas
<1>5. ~ Taken(e.parts, e.slot, st, i) /\ ~ LosesAt(a, e, s, cs[st][i].pos)
  <2>1. \A p \in PosIn(a, s) : p < P
    BY DEF a
  <2> QED BY <1>1, <1>4, <2>1, SeenStays
<1>6. ~ Loses(cs, e.parts, e.slot, st, s, cs[st][i].pos)
  BY <1>1, <1>2, <1>5 DEF LosesAt, Loses
<1>7. CellPut(cs, e.parts, e.slot, st, i) = cs[st][i]
  BY <1>5 DEF CellPut
<1>8. /\ after[st][i] \in CellSet /\ Within(after[st][i], cs[st][i])
      /\ after[st][i].seqs = {x \in cs[st][i].seqs : ~ Loses(cs, e.parts, e.slot, st, x, cs[st][i].pos)}
  <2>1. /\ after[st][i] \in CellSet /\ Within(after[st][i], CellPut(cs, e.parts, e.slot, st, i))
        /\ after[st][i].seqs =
              {x \in CellPut(cs, e.parts, e.slot, st, i).seqs :
                 ~ Loses(cs, e.parts, e.slot, st, x, CellPut(cs, e.parts, e.slot, st, i).pos)}
    BY <1>1, <1>2, AfterFacts
  <2> QED BY <1>7, <2>1
<1>9. s \in after[st][i].seqs
  BY <1>6, <1>8
<1>10. after[st][i].pos = cs[st][i].pos /\ after[st][i].tok = cs[st][i].tok
  BY <1>3, <1>8, <1>9, WithinHas
<1>11. ASSUME NEW p \in Brings(e.parts, s) PROVE cs[st][i].pos < p
  <2>1. p \in bs[1][s]..bs[2][s]-1 /\ bs[1][s] \in Int /\ bs[2][s] \in Int
    BY <1>1 DEF BringsFrom
  <2>2. cs[st][i].pos \in PosIn(a, s)
    BY <1>4, InPos
  <2>3. cs[st][i].pos < bs[1][s] /\ cs[st][i].pos \in Int
    BY <1>1, <1>3, <2>2, CellFacts DEF Below
  <2> QED BY <2>1, <2>3
<1> QED
  BY <1>5, <1>9, <1>10, <1>11

\* A sequence stays in a cell that lies before what the failed ubatch brought it.
LEMMA RemovedKeeps ==
  ASSUME NEW cs \in Tables, NEW e, Ubatch(e.parts), NEW st \in Streams, NEW i \in Idx, NEW s \in cs[st][i].seqs,
         \A p \in Brings(e.parts, s) : cs[st][i].pos < p
  PROVE  s \in Removed(cs, e)[st][i].seqs
<1> DEFINE from(x) == {t.pos : t \in {u \in TokensOf(e.parts) : Min(u.seqs) = x}}
           gone(c) == {x \in c.seqs : \E p \in from(x) : c.pos >= p}
           c == cs[st][i]
<1>1. Removed(cs, e)[st][i] = CellWithout(c, gone(c))
  BY DEF Removed
<1>2. c \in CellSet
  BY DEF Tables, Grid
<1>3. \A p \in from(s) : p \in Brings(e.parts, s) /\ p \in Int
  <2> TAKE p \in from(s)
  <2>1. PICK t \in TokensOf(e.parts) : Min(t.seqs) = s /\ p = t.pos
    OBVIOUS
  <2>2. t \in Tokens
    <3>1. PICK x \in DOMAIN e.parts : t \in ToSet(e.parts[x].toks)
      BY <2>1 DEF TokensOf
    <3>2. e.parts[x].toks \in Seq(Tokens)
      BY <3>1 DEF Ubatch, PartOK
    <3> QED BY <3>1, <3>2 DEF ToSet
  <2>3. s \in t.seqs /\ t.pos \in Int
    BY <2>1, <2>2, TokenFacts DEF Id
  <2> QED BY <2>1, <2>3 DEF Brings
<1> HIDE DEF from
<1>4. s \notin gone(c)
  <2>1. \A p \in from(s) : c.pos < p
    BY <1>3
  <2>2. c.pos \in Int
    BY <1>2, CellFacts
  <2>3. \A p \in from(s) : ~ (c.pos >= p)
    BY <1>3, <2>1, <2>2
  <2> HIDE DEF c
  <2> QED BY <2>3
<1> HIDE DEF gone
<1>5. CellWithout(c, gone(c)).seqs = c.seqs \ gone(c)
  BY <1>2, CellWithoutFacts
<1> QED
  BY <1>1, <1>4, <1>5

\* An ubatch's turn takes nothing from what a sequence sees past its new tokens.
LEMMA RunningLoses ==
  ASSUME Inv, Compute \/ ComputeFails, NEW s \in Seqs
  PROVE  Sees(s, Max({PosMax(cells, s)} \cup Brought(todo, s)) + 1) \subseteq Text(cells', s)
<1> DEFINE P == Max({PosMax(cells, s)} \cup Brought(todo, s)) + 1
           st == conf.stream[s]
<1>1. PICK ms, rs, bs, L, n : Running(ms, rs, bs, L, n)
  BY DEF Inv, Compute, ComputeFails
<1>2. /\ todo = L /\ n \in Nat /\ n # 0 /\ L \in Seq({L[k] : k \in 1..n}) /\ Len(L) = n
      /\ Course(ms, rs, bs, L, n) /\ AllWithin(rs[1], cells) /\ AllWithin(cells, ms[1])
  BY <1>1 DEF Running
<1>3. Typed /\ conf \in Configs /\ cells \in Tables
  BY DEF Inv, Typed
<1> DEFINE e == L[1]
           after == CellsAfter(cells, e.parts, e.slot)
<1>4. Head(todo) = e
  BY <1>2
<1>5. Turn(cells, e, ms, rs, bs)
  BY <1>2, <1>3, TurnFacts
<1>6. P \in Int /\ \A p \in PosIn(ms[1], s) : p < P
  BY <1>1, RunningMax
<1>7. Ubatch(e.parts) /\ after \in Tables
  BY <1>5 DEF Turn
<1>8. st \in Streams
  BY <1>3, StreamsFacts
<1>9. cells' = after \/ cells' = Torn(Removed(after, e), e)
  BY <1>4 DEF Compute, ComputeFails, ApplyUbatch
<1> HIDE DEF e, P
<1>10. ASSUME NEW i \in Idx, s \in cells[st][i].seqs, ~ Masked(cells[st][i].pos, P)
       PROVE  /\ ~ Taken(e.parts, e.slot, st, i)
              /\ s \in after[st][i].seqs
              /\ after[st][i].pos = cells[st][i].pos /\ after[st][i].tok = cells[st][i].tok
              /\ \A p \in Brings(e.parts, s) : cells[st][i].pos < p
  BY <1>2, <1>3, <1>5, <1>6, <1>10, ApplyKeeps
<1> HIDE DEF after
<1>11. CASE cells' = after
  <2>1. Sees(s, P) \subseteq Text(after, s)
    BY <1>3, <1>6, <1>7, <1>10, KeptText
  <2> QED BY <1>11, <2>1 DEF P
<1>12. CASE cells' = Torn(Removed(after, e), e)
  <2> DEFINE R == Removed(after, e)
             T == Torn(R, e)
  <2>1. R \in Tables /\ T \in Tables
    <3>1. 0 \in Idx
      BY IdxFacts
    <3> QED BY <1>7, <1>8, <3>1, TornFacts
  <2>2. ASSUME NEW i \in Idx, s \in cells[st][i].seqs, ~ Masked(cells[st][i].pos, P)
        PROVE  s \in T[st][i].seqs /\ T[st][i].pos = cells[st][i].pos /\ T[st][i].tok = cells[st][i].tok
    <3>1. s \in R[st][i].seqs
      BY <1>7, <1>8, <1>10, <2>2, RemovedKeeps
    <3>2. Within(R[st][i], after[st][i]) /\ T[st][i].seqs = R[st][i].seqs /\ T[st][i].pos = R[st][i].pos /\ T[st][i].tok = R[st][i].tok
      BY <1>7, <1>8, TornFacts
    <3>3. R[st][i] \in CellSet /\ after[st][i] \in CellSet
      BY <1>7, <1>8, <2>1 DEF Tables, Grid
    <3>4. R[st][i].pos = after[st][i].pos /\ R[st][i].tok = after[st][i].tok
      BY <3>1, <3>2, <3>3, WithinHas
    <3> QED BY <1>10, <2>2, <3>1, <3>2, <3>4
  <2> HIDE DEF T, R
  <2>3. Sees(s, P) \subseteq Text(T, s)
    BY <1>3, <1>6, <2>1, <2>2, KeptText
  <2> QED BY <1>12, <2>3 DEF P, T, R
<1> QED
  BY <1>9, <1>11, <1>12

-----------------------------------------------------------------------------
(* Theorems *)

\* The invariant holds.
THEOREM KvInvariant == Spec => []Inv
<1>1. Init => Inv
  BY InitInv
<1>2. Inv /\ [Next]_vars => Inv'
  BY InvKept
<1> QED
  BY <1>1, <1>2, PTL DEF Spec

\* Every variable of the cache has its type (llama_kv_cells, v_heads, sc_info), for every
\* number of sequences, cells and streams.
THEOREM KvTypes == Spec => []TypeOK
<1>1. Inv => TypeOK
  BY InvTypeOK
<1> QED
  BY <1>1, KvInvariant, PTL

\* Once the pending copies and shifts are made the K data of a cell are those of its token,
\* at its position (update, apply_ubatch, seq_add, seq_cp).
THEOREM KvData == Spec => []DataFollows
<1>1. Inv => DataFollows
  BY DEF Inv
<1> QED
  BY <1>1, KvInvariant, PTL

\* The cells of an ubatch's slot hold at most one sequence when its turn comes
\* (apply_ubatch: GGML_ASSERT(cells.seq_count(idx) == 1)).
THEOREM KvSlots == Spec => []SlotsStaySingle
<1>1. Inv => SlotsStaySingle
  BY InvSingle
<1> QED
  BY <1>1, KvInvariant, PTL

\* A decode that succeeds leaves no gap in a sequence that had none (apply_ubatch purges
\* the positions up to those taken over).
THEOREM KvGaps == Spec => []LeavesNoGap
<1>1. Inv => LeavesNoGap
  BY DEF Inv
<1> QED
  BY <1>1, KvInvariant, PTL

\* Placing a batch takes of a sequence only what is masked behind the tokens it brings
\* (prepare, find_slot, apply_ubatch).
THEOREM KvLoses == Spec => LosesOnlyMasked
<1>1. Inv /\ [Next]_vars
        => [\A b \in Batches, tok \in Toks : Decode(b, tok) \/ NoSlot(b, tok) =>
              \A s \in Seqs : Sees(s, PosMax(cells, s) + Count(b, Len(b) + 1, s) + 1)
                                \subseteq Text(cells', s)]_vars
  <2>1. ASSUME Inv, NEW b \in Batches, NEW tok \in Toks, Decode(b, tok) \/ NoSlot(b, tok), NEW s \in Seqs
        PROVE  Sees(s, PosMax(cells, s) + Count(b, Len(b) + 1, s) + 1) \subseteq Text(cells', s)
    BY <2>1, BeginLoses, DecodeBegins
  <2> QED BY <2>1
<1>2. Inv /\ [Next]_vars
        => [calls' = calls => \A s \in Seqs :
              Sees(s, Max({PosMax(cells, s)} \cup Brought(todo, s)) + 1) \subseteq Text(cells', s)]_vars
  <2> SUFFICES ASSUME Inv, Next, calls' = calls, NEW s \in Seqs
               PROVE  Sees(s, Max({PosMax(cells, s)} \cup Brought(todo, s)) + 1) \subseteq Text(cells', s)
    OBVIOUS
  <2>1. calls \in Nat
    <3>1. calls \in 0..MaxCalls
      BY DEF Inv, Typed
    <3> QED BY <3>1, BoundAssumption
  <2>2. calls' # calls + 1
    BY <2>1
  <2>3. Edit => Call
    BY DEF Edit, SeqRm, AnyRm, Clear, SeqCpShared, SeqCpStream, SeqKeep, SeqAdd, SeqDiv
  <2>4. ~ Edit
    BY <2>2, <2>3 DEF Call
  <2>5. ASSUME NEW b, NEW tok, NEW ok, NEW cs, NEW kd PROVE ~ Begin(b, tok, ok, cs, kd)
    <3>1. Begin(b, tok, ok, cs, kd) => calls' = calls + 1
      BY DEF Begin
    <3> QED BY <2>2, <3>1
  <2>6. Compute \/ ComputeFails
    BY <2>4, <2>5 DEF Next, Decoding, Decode, NoSlot
  <2> QED BY <2>6, RunningLoses
<1> QED
  BY <1>1, <1>2, KvInvariant, PTL DEF Spec, LosesOnlyMasked
=============================================================================
