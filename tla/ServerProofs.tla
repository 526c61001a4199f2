---------------------------- MODULE ServerProofs ----------------------------
(***************************************************************************)
(* The two halves of the server: three results about ServerQueue and       *)
(* ServerContext, for every set of requests, tasks and slots, and, in the  *)
(* last part, two about the Router that starts such servers, for any       *)
(* models, threads and limit.                                              *)
(*                                                                         *)
(* The guard protocol: the model is destroyed only behind the hold or the  *)
(* sleeping flag, with no reader in its window, and so the threads         *)
(* implement ModelLock.  Few of the actions touch the variables of the     *)
(* protocol; GuardInv is inductive once these have their types.            *)
(*                                                                         *)
(* The answers: a posted task has one copy, in a deque, at hand or in a    *)
(* slot, or one answer, on its way or received; nothing follows the answer *)
(* and nothing is left for a reader that has ended.  The invariant counts  *)
(* the copies, and every action is one of a few effects on the counts.     *)
(*                                                                         *)
(* No loss: the same count, never below one while the reader waits and no  *)
(* RPC worker is lost.                                                     *)
(*                                                                         *)
(* The router: the table of models tells the truth about the processes,    *)
(* and so the count that a load makes under the lock is that of the        *)
(* children.                                                               *)
(***************************************************************************)
EXTENDS ServerContext, Router, SequenceTheorems, FiniteSetTheorems, TLAPS

Places == {"new", "enter", "refused", "window", "release", "post", "next",
           "stop", "clean", "cancel", "done"}

GuardTypes ==
  /\ pc \in [Requests -> Places]
  /\ guarded \subseteq Requests /\ IsFiniteSet(guarded)
  /\ hold \in BOOLEAN /\ sleeping \in BOOLEAN
  /\ model \in {"loaded", "gone"}

IGuard == GuardTypes /\ GuardInv

Window == {"window", "release"}

-----------------------------------------------------------------------------
\* What each action does to the protocol.

\* The main thread moves on without the flags.
MainMoves ==
  /\ UNCHANGED <<pc, guarded, nGuards, hold, sleeping, model>>
  /\ \/ UNCHANGED main
     \/ main \notin {"hold", "reload", "asleep"} /\ main' \notin {"hold", "reload", "asleep"}

\* A reader moves outside of the window, or inside of it.
ReaderMoves(r) ==
  /\ UNCHANGED <<guarded, nGuards, hold, sleeping, model, main>>
  /\ \E there \in Places :
       /\ pc' = [pc EXCEPT ![r] = there]
       /\ pc[r] \in Window <=> there \in Window

ReaderEnters(r) ==
  /\ ~hold /\ ~sleeping
  /\ pc[r] = "enter" /\ pc' = [pc EXCEPT ![r] = "window"]
  /\ guarded' = guarded \cup {r} /\ nGuards' = nGuards + 1
  /\ UNCHANGED <<hold, sleeping, model, main>>

ReaderLeaves(r) ==
  /\ pc[r] \in Window
  /\ \E there \in Places \ Window : pc' = [pc EXCEPT ![r] = there]
  /\ guarded' = guarded \ {r} /\ nGuards' = nGuards - 1
  /\ UNCHANGED <<hold, sleeping, model, main>>

\* The main thread raises a flag, destroys the model, loads it or gives up.
MainLocks ==
  /\ UNCHANGED <<pc, guarded, nGuards>>
  /\ \/ /\ main = "update" /\ main' = "hold" /\ hold' = TRUE
        /\ UNCHANGED <<sleeping, model>>
     \/ /\ main = "hold" /\ main' = "check" /\ hold' = FALSE
        /\ UNCHANGED <<sleeping, model>>
     \/ /\ main = "hold" /\ nGuards = 0 /\ main' = "reload" /\ model' = "gone"
        /\ UNCHANGED <<hold, sleeping>>
     \/ /\ main = "reload" /\ main' = "check" /\ hold' = FALSE /\ model' = "loaded"
        /\ UNCHANGED sleeping
     \/ /\ main = "wait" /\ nGuards = 0 /\ main' = "asleep" /\ sleeping' = TRUE /\ model' = "gone"
        /\ UNCHANGED hold
     \/ /\ main = "asleep" /\ main' = "pop" /\ sleeping' = FALSE /\ model' = "loaded"
        /\ UNCHANGED hold

ProtocolStep ==
  \/ MainMoves \/ MainLocks
  \/ \E r \in Requests : ReaderMoves(r) \/ ReaderEnters(r) \/ ReaderLeaves(r)

-----------------------------------------------------------------------------
LEMMA ReaderSteps ==
  ASSUME IGuard, NEW r \in Requests, Reader(r), UNCHANGED contextVars
  PROVE  ReaderMoves(r) \/ ReaderEnters(r) \/ ReaderLeaves(r)
<1> USE DEF Goto, Places, Window, contextVars, modelVars, guardVars, mainVars, ReaderMoves,
            readerVars
<1>0. pc[r] \in Window <=> r \in guarded
  BY DEF IGuard, GuardInv
<1>1. CASE Arrive(r) \/ Refuse(r) \/ Register(r) \/ Post(r)
           \/ ClientGone(r) \/ Clean(r) \/ PostCancel(r)
  BY <1>1 DEF Arrive, Refuse, Register, Post, ClientGone, Clean, PostCancel
<1>2. CASE RequestWake(r)
  <2>1. pc' = [pc EXCEPT ![r] = "enter"] /\ pc[r] = "enter"
    BY <1>2 DEF RequestWake, IGuard, GuardTypes
  <2> QED BY <1>2, <2>1 DEF RequestWake
<1>3. CASE Enter(r)
  BY <1>3 DEF Enter, MayEnter, TakeGuard, ReaderEnters
<1>4. CASE LeaveWindow(r)
  BY <1>0, <1>4 DEF LeaveWindow, ReleaseGuard, ReaderLeaves
<1>5. CASE GiveUp(r)
  BY <1>0, <1>5 DEF GiveUp, ReleaseGuard, ReaderLeaves
<1>6. CASE Receive(r)
  <2>1. \E there \in {"stop", "next"} : pc' = [pc EXCEPT ![r] = there]
    BY <1>6 DEF Receive
  <2> QED BY <1>6, <2>1 DEF Receive
<1>7. CASE Unwait(r)
  <2>1. \E there \in {"done", "clean"} : pc' = [pc EXCEPT ![r] = there]
    BY <1>7 DEF Unwait
  <2> QED BY <1>7, <2>1 DEF Unwait
<1> QED BY <1>1, <1>2, <1>3, <1>4, <1>5, <1>6, <1>7 DEF Reader

LEMMA ContextSteps ==
  ASSUME StartLoop \/ Sleep \/ Wake \/ ProcessTask \/ UpdateSlots \/ DecodeFails
         \/ \E s \in Slots : NoProgress(s) \/ Fail(s)
  PROVE  MainMoves \/ MainLocks
<1> USE DEF httpVars, guardVars, readerVars, mainVars, modelVars, contextVars
<1>1. CASE StartLoop
  BY <1>1 DEF StartLoop, TakeTask, QueueDrained, NewTasks, MainMoves
<1>2. CASE Sleep \/ Wake
  BY <1>2 DEF Sleep, Wake, EnterSleep, LeaveSleep, MaySleep, LoadModel, MainLocks
<1>3. CASE ProcessTask
  BY <1>3 DEF ProcessTask, ProcessNextResponse, ProcessCancel, ProcessQuery, ProcessSlotAction,
              DeferInfer, Launch, LaunchFails, Process, MainMoves
<1>4. CASE BeginUpdate \/ Reprovision \/ CheckIdle \/ EndStep \/ EndAbort \/ DecodeFails
  BY <1>4 DEF BeginUpdate, Reprovision, CheckIdle, EndStep, EndAbort, DecodeFails, MainMoves
<1>5. CASE HoldBegin \/ HoldTimesOut \/ Destroy \/ Reload
  BY <1>5 DEF HoldBegin, HoldTimesOut, Destroy, Drained, Reload, LoadModel, MainLocks
<1>6. ASSUME NEW s \in Slots,
             FinishPrompt(s) \/ SendPart(s) \/ Finish(s) \/ Abort(s) \/ NoProgress(s) \/ Fail(s)
      PROVE  MainMoves
  BY <1>6 DEF FinishPrompt, SendPart, Finish, Abort, NoProgress, Fail, Turn, MainMoves
<1> QED BY <1>1, <1>2, <1>3, <1>4, <1>5, <1>6 DEF UpdateSlots

LEMMA Steps == IGuard /\ [Next]_vars => ProtocolStep
<1> SUFFICES ASSUME IGuard, [Next]_vars PROVE ProtocolStep
  OBVIOUS
<1>1. CASE UNCHANGED vars
  BY <1>1 DEF vars, queueVars, contextVars, modelVars, guardVars, readerVars, mainVars,
              MainMoves, ProtocolStep
<1>2. CASE \E r \in Requests : Reader(r) /\ UNCHANGED contextVars
  BY <1>2, ReaderSteps DEF ProtocolStep
<1>3. CASE StartLoop \/ Sleep \/ Wake \/ ProcessTask \/ UpdateSlots \/ DecodeFails
           \/ \E s \in Slots : NoProgress(s) \/ Fail(s)
  BY <1>3, ContextSteps DEF ProtocolStep
<1> QED BY <1>1, <1>2, <1>3 DEF Next

-----------------------------------------------------------------------------
LEMMA GuardInit == Init => IGuard
<1> SUFFICES ASSUME Init PROVE IGuard
  OBVIOUS
<1>1. IsFiniteSet({}) /\ Cardinality({}) = 0
  BY FS_EmptySet
<1> QED BY <1>1 DEF Init, QueueInit, IGuard, GuardTypes, GuardInv, Places

LEMMA GuardStep == IGuard /\ ProtocolStep => IGuard'
<1> SUFFICES ASSUME IGuard, ProtocolStep PROVE IGuard'
  OBVIOUS
<1> USE DEF IGuard, GuardTypes, GuardInv, Places, Window
<1>1. CASE MainMoves
  BY <1>1 DEF MainMoves
<1>2. CASE MainLocks
  <2>1. nGuards = 0 => guarded = {}
    BY FS_EmptySet
  <2>2. GuardTypes' /\ (model = "gone" => guarded = {})'
    BY <1>2, <2>1 DEF MainLocks
  <2>3. (hold <=> main \in {"hold", "reload"})' /\ (sleeping <=> main = "asleep")'
    BY <1>2 DEF MainLocks
  <2>4. (model = "gone" <=> main \in {"reload", "asleep"})'
    BY <1>2 DEF MainLocks
  <2>5. UNCHANGED <<pc, guarded, nGuards>>
    BY <1>2 DEF MainLocks
  <2> QED BY <2>2, <2>3, <2>4, <2>5
<1>3. ASSUME NEW r \in Requests, ReaderMoves(r) PROVE IGuard'
  BY <1>3 DEF ReaderMoves
<1>4. ASSUME NEW r \in Requests, ReaderEnters(r) PROVE IGuard'
  <2>1. r \notin guarded /\ guarded' = guarded \cup {r}
    BY <1>4 DEF ReaderEnters
  <2>2. IsFiniteSet(guarded') /\ Cardinality(guarded') = Cardinality(guarded) + 1
    BY <2>1, FS_AddElement
  <2>3. model = "loaded" /\ model' = "loaded"
    BY <1>4 DEF ReaderEnters
  <2> QED BY <1>4, <2>1, <2>2, <2>3 DEF ReaderEnters
<1>5. ASSUME NEW r \in Requests, ReaderLeaves(r) PROVE IGuard'
  <2>1. r \in guarded /\ guarded' = guarded \ {r}
    BY <1>5 DEF ReaderLeaves
  <2>2. IsFiniteSet(guarded') /\ Cardinality(guarded') = Cardinality(guarded) - 1
    BY <2>1, FS_RemoveElement
  <2>3. model = "loaded" /\ model' = "loaded"
    BY <1>5, <2>1 DEF ReaderLeaves
  <2> QED BY <1>5, <2>1, <2>2, <2>3 DEF ReaderLeaves
<1> QED BY <1>1, <1>2, <1>3, <1>4, <1>5 DEF ProtocolStep

LEMMA GuardInductive == Spec => []IGuard
<1>1. IGuard /\ [Next]_vars => IGuard'
  BY Steps, GuardStep
<1> QED BY GuardInit, <1>1, PTL DEF Spec

-----------------------------------------------------------------------------
\* The counter of the guards counts the readers in the window, and the model is
\* gone only behind a flag and with nobody inside (ctx_guard_enter, ctx_hold_begin).
THEOREM GuardHolds == Spec => []GuardInv
<1>1. IGuard => GuardInv
  BY DEF IGuard
<1> QED BY GuardInductive, <1>1, PTL

\* Threads, guard and teardown implement the lock on the model: every step is an
\* Acquire, a Release, an Unload, a Load or a stutter (server_res_generator,
\* rpc_reload, handle_sleeping_state).
THEOREM LockImplemented == Spec => ImplementsModelLock
<1>1. Init => Lock!Init
  BY DEF Init, QueueInit, Lock!Init
<1>2. IGuard /\ [Next]_vars => [Lock!Next]_<<guarded, model>>
  <2> SUFFICES ASSUME IGuard, ProtocolStep PROVE [Lock!Next]_<<guarded, model>>
    BY Steps
  <2> USE DEF IGuard, GuardTypes, GuardInv, Window, Lock!Next
  <2>1. CASE MainMoves
    BY <2>1 DEF MainMoves
  <2>2. CASE MainLocks
    <3>1. nGuards = 0 => guarded = {}
      BY FS_EmptySet
    <3> QED BY <2>2, <3>1 DEF MainLocks, Lock!Unload, Lock!Load
  <2>3. ASSUME NEW r \in Requests, ReaderMoves(r) PROVE UNCHANGED <<guarded, model>>
    BY <2>3 DEF ReaderMoves
  <2>4. ASSUME NEW r \in Requests, ReaderEnters(r) PROVE Lock!Acquire(r)
    BY <2>4 DEF ReaderEnters, Lock!Acquire
  <2>5. ASSUME NEW r \in Requests, ReaderLeaves(r) PROVE Lock!Release(r)
    BY <2>5 DEF ReaderLeaves, Lock!Release
  <2> QED BY <2>1, <2>2, <2>3, <2>4, <2>5 DEF ProtocolStep
<1> QED BY <1>1, <1>2, GuardInductive, PTL DEF Spec, ImplementsModelLock, Lock!Spec

-----------------------------------------------------------------------------
(* The deques: how many of their elements are in a set M                   *)

Found(s, M) == {i \in DOMAIN s : s[i] \in M}
Cnt(s, M) == Cardinality(Found(s, M))

\* A count is a number, zero when nothing is found.
LEMMA CntIsNat ==
  ASSUME NEW S, NEW s \in Seq(S), NEW M
  PROVE  /\ IsFiniteSet(Found(s, M)) /\ Cnt(s, M) \in Nat
         /\ Cnt(s, M) = 0 <=> \A i \in DOMAIN s : s[i] \notin M
<1> DEFINE n == Len(s)
<1>1. n \in Nat /\ DOMAIN s = 1..n
  OBVIOUS
<1> HIDE DEF n
<1>2. IsFiniteSet(1..n)
  BY <1>1, FS_Interval
<1>3. Found(s, M) \in SUBSET (1..n)
  BY <1>1 DEF Found
<1>4. IsFiniteSet(Found(s, M)) /\ Cnt(s, M) \in Nat
  BY <1>2, <1>3, FS_Subset, FS_CardinalityType DEF Cnt
<1>5. Cnt(s, M) = 0 <=> Found(s, M) = {}
  BY <1>4, FS_EmptySet DEF Cnt
<1> QED
  BY <1>4, <1>5 DEF Found

\* Of two deques in a row.
LEMMA CntConcat ==
  ASSUME NEW S, NEW a \in Seq(S), NEW b \in Seq(S), NEW M
  PROVE  a \o b \in Seq(S) /\ Cnt(a \o b, M) = Cnt(a, M) + Cnt(b, M)
<1> DEFINE A == Found(a, M)
           B == Found(b, M)
           f == [i \in B |-> Len(a) + i]
           C == {Len(a) + i : i \in B}
<1>1. /\ a \o b \in Seq(S) /\ Len(a \o b) = Len(a) + Len(b)
      /\ \A i \in 1..Len(a) + Len(b) : (a \o b)[i] = IF i <= Len(a) THEN a[i] ELSE b[i - Len(a)]
  BY ConcatProperties
<1>2. Len(a) \in Nat /\ Len(b) \in Nat /\ DOMAIN a = 1..Len(a) /\ DOMAIN b = 1..Len(b)
      /\ DOMAIN (a \o b) = 1..Len(a) + Len(b)
  BY <1>1
<1>3. A \subseteq 1..Len(a) /\ B \subseteq 1..Len(b)
  BY <1>2 DEF Found
<1>4. Found(a \o b, M) = A \cup C
  <2>1. ASSUME NEW i \in 1..Len(a) + Len(b), (a \o b)[i] \in M PROVE i \in A \cup C
    <3>1. CASE i <= Len(a)
      BY <1>1, <1>2, <2>1, <3>1 DEF Found
    <3>2. CASE i > Len(a)
      <4>1. i - Len(a) \in 1..Len(b) /\ b[i - Len(a)] \in M /\ i = Len(a) + (i - Len(a))
        BY <1>1, <1>2, <2>1, <3>2
      <4>2. i - Len(a) \in B
        BY <1>2, <4>1 DEF Found
      <4> QED
        BY <4>1, <4>2
    <3> QED
      BY <1>2, <3>1, <3>2
  <2>2. ASSUME NEW i \in A PROVE i \in 1..Len(a) + Len(b) /\ (a \o b)[i] \in M
    BY <1>1, <1>2, <2>2 DEF Found
  <2>3. ASSUME NEW i \in B PROVE Len(a) + i \in 1..Len(a) + Len(b) /\ (a \o b)[Len(a) + i] \in M
    <3>1. i \in 1..Len(b) /\ b[i] \in M
      BY <1>2, <2>3 DEF Found
    <3>2. Len(a) + i \in 1..Len(a) + Len(b) /\ ~(Len(a) + i <= Len(a)) /\ (Len(a) + i) - Len(a) = i
      BY <1>2, <3>1
    <3> QED
      BY <1>1, <3>1, <3>2
  <2>4. Found(a \o b, M) = {i \in 1..Len(a) + Len(b) : (a \o b)[i] \in M}
    BY <1>2 DEF Found
  <2> HIDE DEF A, B
  <2> QED
    BY <2>1, <2>2, <2>3, <2>4
<1>5. IsFiniteSet(A) /\ IsFiniteSet(B) /\ Cardinality(A) = Cnt(a, M) /\ Cardinality(B) = Cnt(b, M)
  BY CntIsNat DEF Cnt
<1> HIDE DEF A, B
<1>6. f \in Bijection(B, C)
  <2>1. f \in [B -> C] /\ \A i \in C : \E j \in B : f[j] = i
    OBVIOUS
  <2>2. \A i, j \in B : f[i] = f[j] => i = j
    BY <1>2, <1>3
  <2> HIDE DEF f, C
  <2> QED
    BY <2>1, <2>2 DEF Bijection, Injection, Surjection, IsInjective
<1>7. IsFiniteSet(C) /\ Cardinality(C) = Cardinality(B)
  BY <1>5, <1>6, FS_Bijection DEF ExistsBijection
<1>8. A \cap C = {}
  BY <1>2, <1>3
<1>9. Cardinality(A \cup C) = Cardinality(A) + Cardinality(C)
  <2>1. Cardinality(A \cup C) = Cardinality(A) + Cardinality(C) - Cardinality(A \cap C)
    BY <1>5, <1>7, FS_Union
  <2>2. Cardinality(A) \in Nat /\ Cardinality(C) \in Nat /\ Cardinality(A \cap C) = 0
    BY <1>5, <1>7, <1>8, FS_CardinalityType, FS_EmptySet
  <2> QED
    BY <2>1, <2>2
<1> QED
  BY <1>1, <1>4, <1>5, <1>7, <1>9 DEF Cnt

\* Of one element.
LEMMA CntOne ==
  ASSUME NEW x, NEW M
  PROVE  Cnt(<<x>>, M) = IF x \in M THEN 1 ELSE 0
<1>1. Found(<<x>>, M) = IF x \in M THEN {1} ELSE {}
  BY DEF Found
<1>2. Cardinality({}) = 0 /\ Cardinality({1}) = 1
  BY FS_EmptySet, FS_Singleton
<1> QED
  BY <1>1, <1>2 DEF Cnt

\* push_back
LEMMA CntAppend ==
  ASSUME NEW S, NEW s \in Seq(S), NEW x \in S, NEW M
  PROVE  Append(s, x) \in Seq(S) /\ Cnt(Append(s, x), M) = Cnt(s, M) + IF x \in M THEN 1 ELSE 0
<1> DEFINE o == <<x>>
<1>1. o \in Seq(S) /\ Append(s, x) = s \o o /\ Cnt(o, M) = IF x \in M THEN 1 ELSE 0
  BY AppendIsConcat, CntOne
<1> HIDE DEF o
<1>2. s \o o \in Seq(S) /\ Cnt(s \o o, M) = Cnt(s, M) + Cnt(o, M)
  BY <1>1, CntConcat
<1> QED
  BY <1>1, <1>2

\* Of three deques in a row.
LEMMA CntConcat3 ==
  ASSUME NEW S, NEW a \in Seq(S), NEW o \in Seq(S), NEW b \in Seq(S), NEW M
  PROVE  Cnt(a \o (o \o b), M) = Cnt(a, M) + (Cnt(o, M) + Cnt(b, M))
<1>1. o \o b \in Seq(S) /\ Cnt(o \o b, M) = Cnt(o, M) + Cnt(b, M)
  BY CntConcat
<1>2. ASSUME NEW c \in Seq(S) PROVE Cnt(a \o c, M) = Cnt(a, M) + Cnt(c, M)
  BY CntConcat
<1> QED
  BY <1>1, <1>2

\* erase(it)
LEMMA CntRemove ==
  ASSUME NEW S, NEW s \in Seq(S), NEW i \in 1..Len(s), NEW M
  PROVE  /\ RemoveAt(s, i) \in Seq(S)
         /\ Cnt(RemoveAt(s, i), M) = Cnt(s, M) - IF s[i] \in M THEN 1 ELSE 0
<1> DEFINE a == SubSeq(s, 1, i - 1)
           b == SubSeq(s, i + 1, Len(s))
           o == <<s[i]>>
<1>1. Len(s) \in Nat /\ i \in Int /\ \A j \in 1..Len(s) : s[j] \in S
  OBVIOUS
<1>2. a \in Seq(S) /\ b \in Seq(S) /\ o \in Seq(S)
  BY <1>1, SubSeqProperties
<1>3. SubSeq(s, i, Len(s)) = o \o b
  BY <1>1, SubSeqRecursiveFirst
<1>4. a \o SubSeq(s, i, Len(s)) = s
  <2>1. 1 \in 1..Len(s)+1 /\ i - 1 \in 1-1..Len(s) /\ Len(s) \in i-1..Len(s) /\ (i - 1) + 1 = i
    BY <1>1
  <2>2. a \o SubSeq(s, (i - 1) + 1, Len(s)) = SubSeq(s, 1, Len(s))
    BY <2>1, ConcatAdjacentSubSeq
  <2> QED
    BY <2>1, <2>2, SubSeqFull
<1>5. Cnt(o, M) = IF s[i] \in M THEN 1 ELSE 0
  BY CntOne
<1>6. RemoveAt(s, i) = a \o b
  BY DEF RemoveAt
<1> HIDE DEF a, b, o
<1>7. o \o b \in Seq(S) /\ Cnt(o \o b, M) = Cnt(o, M) + Cnt(b, M)
  BY <1>2, CntConcat
<1>8. Cnt(a \o (o \o b), M) = Cnt(a, M) + (Cnt(o, M) + Cnt(b, M))
  BY <1>2, CntConcat3
<1>9. a \o b \in Seq(S) /\ Cnt(a \o b, M) = Cnt(a, M) + Cnt(b, M)
  BY <1>2, CntConcat
<1>10. Cnt(a, M) \in Nat /\ Cnt(b, M) \in Nat
  BY <1>2, CntIsNat
<1> QED
  BY <1>3, <1>4, <1>5, <1>6, <1>7, <1>8, <1>9, <1>10

\* pop_front
LEMMA CntTail ==
  ASSUME NEW S, NEW s \in Seq(S), s # <<>>, NEW M
  PROVE  /\ Tail(s) \in Seq(S) /\ Head(s) \in S
         /\ Cnt(Tail(s), M) = Cnt(s, M) - IF Head(s) \in M THEN 1 ELSE 0
<1>1. 1 \in 1..Len(s) /\ Len(s) \in Nat /\ Head(s) = s[1] /\ Head(s) \in S /\ Tail(s) \in Seq(S)
  BY EmptySeq
<1>2. SubSeq(s, 1, 0) = <<>>
  BY SubSeqEmpty
<1>3. RemoveAt(s, 1) = Tail(s)
  <2>1. Tail(s) = SubSeq(s, 2, Len(s))
    BY TailIsSubSeq
  <2>2. <<>> \o Tail(s) = Tail(s)
    BY <1>1, ConcatEmptySeq
  <2> QED
    BY <1>2, <2>1, <2>2 DEF RemoveAt
<1>4. Cnt(RemoveAt(s, 1), M) = Cnt(s, M) - IF s[1] \in M THEN 1 ELSE 0
  BY <1>1, CntRemove
<1> QED
  BY <1>1, <1>3, <1>4


\* The places of a finite set of numbers, counted from its least one.
LEMMA Ranks ==
  ASSUME NEW I \in SUBSET Nat, IsFiniteSet(I)
  PROVE  LET r == [i \in I |-> Cardinality({j \in I : j <= i})]
         IN  /\ r \in Bijection(I, 1..Cardinality(I))
             /\ \A i, j \in I : i < j => r[i] < r[j]
<1> DEFINE upTo(i) == {j \in I : j <= i}
           r == [i \in I |-> Cardinality(upTo(i))]
<1>1. Cardinality(I) \in Nat
  BY FS_CardinalityType
<1>2. ASSUME NEW i \in I PROVE IsFiniteSet(upTo(i)) /\ Cardinality(upTo(i)) \in 1..Cardinality(I)
  <2>1. upTo(i) \in SUBSET I /\ upTo(i) # {}
    OBVIOUS
  <2> HIDE DEF upTo
  <2>2. IsFiniteSet(upTo(i)) /\ Cardinality(upTo(i)) <= Cardinality(I)
    BY <2>1, FS_Subset
  <2>3. Cardinality(upTo(i)) \in Nat /\ Cardinality(upTo(i)) # 0
    BY <2>1, <2>2, FS_CardinalityType, FS_EmptySet
  <2> QED
    BY <1>1, <2>2, <2>3
<1>3. ASSUME NEW i \in I, NEW j \in I, i < j PROVE Cardinality(upTo(i)) < Cardinality(upTo(j))
  <2>1. upTo(i) \in SUBSET upTo(j) /\ upTo(i) # upTo(j)
    <3>1. i \in Nat /\ j \in Nat /\ j \in upTo(j) /\ j \notin upTo(i)
      BY <1>3
    <3>2. \A k \in I : k \in Nat /\ (k <= i => k <= j)
      BY <1>3, <3>1
    <3> QED
      BY <3>1, <3>2
  <2>2. IsFiniteSet(upTo(j)) /\ Cardinality(upTo(j)) \in Nat /\ Cardinality(upTo(i)) \in Nat
    BY <1>2
  <2> HIDE DEF upTo
  <2>3. Cardinality(upTo(i)) <= Cardinality(upTo(j)) /\ Cardinality(upTo(i)) # Cardinality(upTo(j))
    BY <2>1, <2>2, FS_Subset
  <2> QED
    BY <2>2, <2>3
<1> HIDE DEF upTo
<1>4. r \in [I -> 1..Cardinality(I)]
  BY <1>2
<1>5. \A i, j \in I : i < j => r[i] < r[j]
  BY <1>3
<1> HIDE DEF r
<1>6. r \in Injection(I, 1..Cardinality(I))
  <2> SUFFICES ASSUME NEW i \in I, NEW j \in I, r[i] = r[j] PROVE i = j
    BY <1>4 DEF Injection, IsInjective
  <2>1. i \in Nat /\ j \in Nat /\ r[i] \in Nat /\ r[j] \in Nat
    BY <1>4
  <2> QED
    BY <1>5, <2>1
<1>7. IsFiniteSet(1..Cardinality(I)) /\ Cardinality(1..Cardinality(I)) = Cardinality(I)
  <2> DEFINE n == Cardinality(I)
  <2>1. n \in Nat
    BY <1>1
  <2> HIDE DEF n
  <2>2. IsFiniteSet(1..n) /\ Cardinality(1..n) = IF 1 > n THEN 0 ELSE n - 1 + 1
    BY <2>1, FS_Interval
  <2>3. IsFiniteSet(1..n) /\ Cardinality(1..n) = n
    BY <2>1, <2>2
  <2> QED
    BY <2>3 DEF n
<1>8. r \in Surjection(I, 1..Cardinality(I))
  BY <1>6, <1>7, FS_Injection
<1>9. r \in Bijection(I, 1..Cardinality(I))
  BY <1>6, <1>8 DEF Bijection
<1> QED
  BY <1>5, <1>9 DEF r, upTo

\* erase_if: f says where each of what is left was.
LEMMA PickedFrom ==
  ASSUME NEW S, NEW s \in Seq(S), NEW I \in SUBSET (DOMAIN s)
  PROVE  /\ IsFiniteSet(I) /\ Cardinality(I) \in Nat
         /\ \E f \in Bijection(1..Cardinality(I), I) :
              /\ Picked(s, I) = [k \in 1..Cardinality(I) |-> s[f[k]]]
              /\ \A k, l \in 1..Cardinality(I) : k < l => f[k] < f[l]
<1> DEFINE n == Len(s)
           r == [i \in I |-> Cardinality({j \in I : j <= i})]
           pos(k) == CHOOSE i \in I : Cardinality({j \in I : j <= i}) = k
           f == [k \in 1..Cardinality(I) |-> pos(k)]
<1>1. n \in Nat /\ DOMAIN s = 1..n
  OBVIOUS
<1> HIDE DEF n
<1>2. IsFiniteSet(I) /\ I \in SUBSET Nat
  BY <1>1, FS_Interval, FS_Subset
<1>3. r \in Bijection(I, 1..Cardinality(I)) /\ \A i, j \in I : i < j => r[i] < r[j]
  BY <1>2, Ranks
<1>4. Cardinality(I) \in Nat
  BY <1>2, FS_CardinalityType
<1>5. Picked(s, I) = [k \in 1..Cardinality(I) |-> s[pos(k)]]
  BY DEF Picked
<1>6. Picked(s, I) = [k \in 1..Cardinality(I) |-> s[f[k]]]
  <2> HIDE DEF pos
  <2> QED
    BY <1>5
<1>7. /\ r \in [I -> 1..Cardinality(I)] /\ \A i, j \in I : r[i] = r[j] => i = j
      /\ \A k \in 1..Cardinality(I) : \E i \in I : r[i] = k
  <2> HIDE DEF r
  <2> QED
    BY <1>3 DEF Bijection, Injection, Surjection, IsInjective
<1>12. ASSUME NEW k \in 1..Cardinality(I) PROVE pos(k) \in I /\ Cardinality({j \in I : j <= pos(k)}) = k
  <2>1. \E i \in I : Cardinality({j \in I : j <= i}) = k
    BY <1>7
  <2> QED
    BY <2>1
<1> HIDE DEF pos
<1>8. \A k \in 1..Cardinality(I) : f[k] \in I /\ r[f[k]] = k
  BY <1>12
<1> HIDE DEF f, r
<1>9. f \in [1..Cardinality(I) -> I]
  BY <1>8 DEF f
<1>10. f \in Bijection(1..Cardinality(I), I)
  <2>1. \A k, l \in 1..Cardinality(I) : f[k] = f[l] => k = l
    BY <1>8
  <2>2. \A i \in I : r[i] \in 1..Cardinality(I) /\ f[r[i]] = i
    BY <1>7, <1>8
  <2> QED
    BY <1>9, <2>1, <2>2 DEF Bijection, Injection, Surjection, IsInjective
<1>11. ASSUME NEW k \in 1..Cardinality(I), NEW l \in 1..Cardinality(I), k < l PROVE f[k] < f[l]
  <2>1. f[k] \in Nat /\ f[l] \in Nat /\ k \in Nat /\ l \in Nat
    BY <1>2, <1>4, <1>8
  <2> SUFFICES ASSUME f[l] <= f[k] PROVE FALSE
    BY <2>1
  <2>2. f[l] = f[k] \/ r[f[l]] < r[f[k]]
    BY <1>3, <1>8, <2>1
  <2> QED
    BY <1>8, <1>11, <2>1, <2>2
<1> QED
  BY <1>2, <1>4, <1>6, <1>10, <1>11

\* What erase_if leaves is of the deque, in its order, and no more of M than there was.
LEMMA CntPicked ==
  ASSUME NEW S, NEW s \in Seq(S), NEW I \in SUBSET (DOMAIN s), NEW M
  PROVE  /\ Picked(s, I) \in Seq(S) /\ Cnt(Picked(s, I), M) <= Cnt(s, M)
         /\ Found(s, M) \subseteq I => Cnt(Picked(s, I), M) = Cnt(s, M)
<1>1. IsFiniteSet(I) /\ Cardinality(I) \in Nat
  BY PickedFrom
<1>2. PICK f \in Bijection(1..Cardinality(I), I) :
             Picked(s, I) = [k \in 1..Cardinality(I) |-> s[f[k]]]
  BY PickedFrom
<1> DEFINE n == Cardinality(I)
           p == Picked(s, I)
<1>3. p = [k \in 1..n |-> s[f[k]]] /\ n \in Nat
  BY <1>1, <1>2
<1>4. f \in [1..n -> I] /\ (\A k, l \in 1..n : f[k] = f[l] => k = l) /\ \A i \in I : \E k \in 1..n : f[k] = i
  BY <1>2 DEF Bijection, Injection, Surjection, IsInjective
<1> HIDE DEF n, p
<1>5. \A i \in I : s[i] \in S
  OBVIOUS
<1>6. p \in Seq(S) /\ DOMAIN p = 1..n
  BY <1>3, <1>4, <1>5
<1> DEFINE J == {i \in I : s[i] \in M}
           g == [k \in Found(p, M) |-> f[k]]
<1>7. g \in Bijection(Found(p, M), J)
  <2>1. g \in [Found(p, M) -> J]
    BY <1>3, <1>4, <1>6 DEF Found
  <2>2. \A k, l \in Found(p, M) : g[k] = g[l] => k = l
    BY <1>4, <1>6 DEF Found
  <2>3. \A i \in J : \E k \in Found(p, M) : g[k] = i
    BY <1>3, <1>4, <1>6 DEF Found
  <2> HIDE DEF g, J
  <2> QED
    BY <2>1, <2>2, <2>3 DEF Bijection, Injection, Surjection, IsInjective
<1>8. IsFiniteSet(Found(p, M))
  BY <1>6, CntIsNat
<1>9. Cardinality(J) = Cnt(p, M)
  BY <1>7, <1>8, FS_Bijection DEF ExistsBijection, Cnt
<1>10. J \in SUBSET Found(s, M) /\ (Found(s, M) \subseteq I => J = Found(s, M))
  BY DEF Found
<1>11. Cardinality(J) <= Cnt(s, M) /\ (Found(s, M) \subseteq I => Cardinality(J) = Cnt(s, M))
  <2>1. IsFiniteSet(Found(s, M))
    BY CntIsNat
  <2> HIDE DEF J
  <2> QED
    BY <1>10, <2>1, FS_Subset DEF Cnt
<1> QED
  BY <1>6, <1>9, <1>11 DEF p

\* A position searched for from the front is one of those that fit.
LEMMA LeastOne ==
  ASSUME NEW S, NEW s \in Seq(S), NEW I \in SUBSET (DOMAIN s), I # {}
  PROVE  Min(I) \in I
<1>1. PICK f \in Bijection(1..Cardinality(I), I) :
             \A k, l \in 1..Cardinality(I) : k < l => f[k] < f[l]
  BY PickedFrom
<1>2. Cardinality(I) \in Nat /\ IsFiniteSet(I)
  BY PickedFrom
<1>3. 1 \in 1..Cardinality(I)
  BY <1>2, FS_EmptySet
<1>4. f \in [1..Cardinality(I) -> I] /\ \A i \in I : \E k \in 1..Cardinality(I) : f[k] = i
  BY <1>1 DEF Bijection, Injection, Surjection, IsInjective
<1>5. ASSUME NEW i \in I PROVE f[1] <= i
  <2>1. PICK k \in 1..Cardinality(I) : f[k] = i
    BY <1>4
  <2>2. f[1] \in Int /\ i \in Int
    BY <1>3, <1>4
  <2> QED
    BY <1>1, <1>2, <1>3, <2>1, <2>2
<1>6. \E x \in I : \A y \in I : x <= y
  BY <1>3, <1>4, <1>5
<1> QED
  BY <1>6 DEF Min

\* The cancellations are posted in some order.
LEMMA ListedOnce ==
  ASSUME NEW F, IsFiniteSet(F)
  PROVE  SetToSeq(F) \in Seq(F)
<1>1. ExistsBijection(1..Cardinality(F), F) /\ Cardinality(F) \in Nat
  BY FS_CardinalityType
<1>2. \E f \in [1..Cardinality(F) -> F] : IsInjective(f)
  BY <1>1 DEF ExistsBijection, Bijection, Injection
<1>3. SetToSeq(F) \in [1..Cardinality(F) -> F]
  BY <1>2 DEF SetToSeq
<1> QED
  BY <1>1, <1>3

-----------------------------------------------------------------------------
(* What the server has to do for a task.                                   *)

Tops == {t \in Tasks : \E r \in Requests : \E i \in DOMAIN Posts[r] : t = Posts[r][i]}
QEntry(C) == {Run(t) : t \in Tops} \cup {Cancel(t) : t \in C} \cup {NextResponse}
Cancellable == {t \in Tasks : \E r \in Requests : t \in IdsOf(r) /\ pc[r] = "done"}

Runs(t) == {e \in Entry : e.op = "run" /\ t \in Own(e.id)}
Holders(t) == {u \in Tops : t \in Own(u)}
SlotsOf(t) == {s \in Slots : slotTask[s] = t}
Queued(t) == Cnt(queue, Runs(t)) + Cnt(deferred, Holders(t))
InHand(t) == IF held \in Runs(t) THEN 1 ELSE 0
Work(t) == Queued(t) + InHand(t) + Cardinality(SlotsOf(t))

\* A task takes its one copy with it when a step loses it.
Loses(L) == \A t \in Tasks : Work(t)' = Work(t) - IF t \in L THEN 1 ELSE 0

QueueTypes ==
  /\ queue \in Seq(QEntry(Cancellable)) /\ deferred \in Seq(Tops)
  /\ held \in QEntry(Cancellable) \cup {Nothing}
  /\ main # "process" => held = Nothing
SlotTypes ==
  /\ slotTask \in [Slots -> Tasks \cup {NoTask}]
  /\ phase \in [Slots -> {"idle", "other", "prompt", "gen"}]
  /\ \A s \in Slots : Idle(s) => slotTask[s] = NoTask
WorkTypes == QueueTypes /\ SlotTypes

\* What the entries of the queue are, and which of them run a task.
LEMMA Entries ==
  ASSUME NEW C \in SUBSET Tasks
  PROVE  /\ QEntry(C) \subseteq Entry
         /\ \A u \in Tops : u \in Tasks /\ Run(u) \in QEntry(C)
         /\ \A u \in Tops, t \in Tasks : Run(u) \in Runs(t) <=> u \in Holders(t)
         /\ \A e \in QEntry(C) : /\ e.op = "run" => e = Run(e.id) /\ e.id \in Tops
                                 /\ e.op = "cancel" => e = Cancel(e.id) /\ e.id \in C
         /\ NextResponse \in QEntry(C)
         /\ \A t \in Tasks : NextResponse \notin Runs(t) /\ Nothing \notin Runs(t)
         /\ \A t \in Tasks, u \in Tasks : Cancel(u) \notin Runs(t)
         /\ \A u \in Tops : Run(u) # NextResponse
         /\ Nothing \notin QEntry(C)
<1> USE DEF Run, Cancel, NextResponse, Nothing
<1>1. \A t \in Tasks : Run(t) \in Entry /\ Cancel(t) \in Entry
  BY DEF Entry
<1>2. NextResponse \in Entry /\ Tops \subseteq Tasks
  BY DEF Entry, Tops
<1>3. QEntry(C) \subseteq Entry
  BY <1>1, <1>2 DEF QEntry
<1>4. \A e \in QEntry(C) : /\ e.op = "run" => e = Run(e.id) /\ e.id \in Tops
                           /\ e.op = "cancel" => e = Cancel(e.id) /\ e.id \in C
  BY DEF QEntry
<1>5. \A u \in Tops, t \in Tasks : Run(u) \in Runs(t) <=> u \in Holders(t)
  BY <1>1, <1>2 DEF Runs, Holders
<1>6. \A u \in Tops : u \in Tasks /\ Run(u) \in QEntry(C) /\ Run(u) # NextResponse
  BY <1>2 DEF QEntry
<1>7. NextResponse \in QEntry(C) /\ Nothing \notin QEntry(C)
  BY DEF QEntry
<1>8. \A t \in Tasks : NextResponse \notin Runs(t) /\ Nothing \notin Runs(t)
  BY DEF Runs
<1>9. \A t \in Tasks, u \in Tasks : Cancel(u) \notin Runs(t)
  BY DEF Runs
<1> QED
  BY <1>3, <1>4, <1>5, <1>6, <1>7, <1>8, <1>9

\* The copies of a task are counted in numbers.
LEMMA WorkIsNat ==
  ASSUME WorkTypes, NEW t \in Tasks
  PROVE  /\ Cnt(queue, Runs(t)) \in Nat /\ Cnt(deferred, Holders(t)) \in Nat /\ InHand(t) \in {0, 1}
         /\ IsFiniteSet(SlotsOf(t)) /\ Cardinality(SlotsOf(t)) \in Nat
         /\ Queued(t) \in Nat /\ Work(t) \in Nat
<1>1. Cnt(queue, Runs(t)) \in Nat /\ Cnt(deferred, Holders(t)) \in Nat
  BY CntIsNat DEF WorkTypes, QueueTypes
<1>2. IsFiniteSet(Slots)
  <2>1. 0 \in Int /\ NSlots-1 \in Int
    BY LimitAssumption
  <2> QED
    BY <2>1, FS_Interval DEF Slots
<1>3. SlotsOf(t) \in SUBSET Slots
  BY DEF SlotsOf
<1>4. IsFiniteSet(SlotsOf(t)) /\ Cardinality(SlotsOf(t)) \in Nat
  BY <1>2, <1>3, FS_Subset, FS_CardinalityType
<1> QED
  BY <1>1, <1>4 DEF InHand, Queued, Work

\* pop_deferred_task moves a task from one deque to the other.
LEMMA PopMoves ==
  ASSUME WorkTypes, NEW s \in Slots, PopDeferred(s)
  PROVE  /\ queue' \in Seq(QEntry(Cancellable)) /\ deferred' \in Seq(Tops)
         /\ \A t \in Tasks : Cnt(queue', Runs(t)) + Cnt(deferred', Holders(t)) = Queued(t)
         /\ Cnt(queue', {NextResponse}) = Cnt(queue, {NextResponse})
<1> DEFINE Q == QEntry(Cancellable)
<1>0. queue \in Seq(Q) /\ deferred \in Seq(Tops) /\ Cancellable \in SUBSET Tasks
  BY DEF WorkTypes, QueueTypes, Cancellable
<1>1. CASE deferred = <<>>
  BY <1>0, <1>1 DEF PopDeferred, tasksVars, Queued
<1>2. CASE deferred # <<>>
  <2> DEFINE wanting == {i \in DOMAIN deferred : IdSlot[deferred[i]] = s}
             i == IF wanting = {} THEN 1 ELSE Min(wanting)
             u == deferred[i]
             o == <<Run(u)>>
  <2>1. queue' = o \o queue /\ deferred' = RemoveAt(deferred, i)
    BY <1>2 DEF PopDeferred
  <2>2. i \in 1..Len(deferred)
    <3>1. 1 \in 1..Len(deferred) /\ DOMAIN deferred = 1..Len(deferred)
      BY <1>0, <1>2
    <3>2. wanting # {} => Min(wanting) \in wanting
      BY <1>0, LeastOne
    <3> QED
      BY <3>1, <3>2
  <2> HIDE DEF i
  <2>3. u \in Tops
    BY <1>0, <2>2
  <2> HIDE DEF u
  <2>4. Run(u) \in Q /\ o \in Seq(Q)
    BY <1>0, <2>3, Entries
  <2> HIDE DEF o, Q
  <2>5. queue' \in Seq(Q) /\ \A M : Cnt(queue', M) = Cnt(o, M) + Cnt(queue, M)
    BY <1>0, <2>1, <2>4, CntConcat
  <2>6. \A M : Cnt(o, M) = IF Run(u) \in M THEN 1 ELSE 0
    BY CntOne DEF o
  <2>7. /\ deferred' \in Seq(Tops)
        /\ \A M : Cnt(deferred', M) = Cnt(deferred, M) - IF u \in M THEN 1 ELSE 0
    BY <1>0, <2>1, <2>2, CntRemove DEF u
  <2>8. ASSUME NEW t \in Tasks
        PROVE  Cnt(queue', Runs(t)) + Cnt(deferred', Holders(t)) = Queued(t)
    <3>1. Cnt(queue, Runs(t)) \in Nat /\ Cnt(deferred, Holders(t)) \in Nat
      BY WorkIsNat
    <3>2. Run(u) \in Runs(t) <=> u \in Holders(t)
      BY <1>0, <2>3, Entries
    <3> QED
      BY <2>5, <2>6, <2>7, <3>1, <3>2 DEF Queued
  <2>9. Run(u) # NextResponse /\ Cnt(queue, {NextResponse}) \in Nat
    BY <1>0, <2>3, Entries, CntIsNat
  <2> QED
    BY <2>5, <2>6, <2>7, <2>8, <2>9 DEF Q
<1> QED
  BY <1>1, <1>2

\* release() takes a task from its slot.
LEMMA Frees ==
  ASSUME WorkTypes, NEW s \in Slots,
         slotTask' = [slotTask EXCEPT ![s] = NoTask], phase' = [phase EXCEPT ![s] = "idle"]
  PROVE  /\ SlotTypes'
         /\ \A t \in Tasks : Cardinality(SlotsOf(t)') = Cardinality(SlotsOf(t))
                                                         - IF t = slotTask[s] THEN 1 ELSE 0
<1>1. SlotTypes'
  BY DEF WorkTypes, SlotTypes, Idle
<1>2. ASSUME NEW t \in Tasks
      PROVE  Cardinality(SlotsOf(t)') = Cardinality(SlotsOf(t)) - IF t = slotTask[s] THEN 1 ELSE 0
  <2>1. SlotsOf(t)' = SlotsOf(t) \ {s}
    BY TaskAssumption DEF SlotsOf, WorkTypes, SlotTypes
  <2>2. s \in SlotsOf(t) <=> t = slotTask[s]
    BY DEF SlotsOf
  <2>3. Cardinality(SlotsOf(t) \ {s}) = IF s \in SlotsOf(t) THEN Cardinality(SlotsOf(t)) - 1
                                                             ELSE Cardinality(SlotsOf(t))
    BY WorkIsNat, FS_RemoveElement
  <2> QED
    BY <2>1, <2>2, <2>3, WorkIsNat
<1> QED
  BY <1>1, <1>2

\* release() and the pop_deferred_task it calls: the task of the slot goes, no other.
LEMMA ReleaseLoses ==
  ASSUME WorkTypes, NEW s \in Slots, Release(s), \A t \in Tasks : InHand(t)' = InHand(t)
  PROVE  /\ queue' \in Seq(QEntry(Cancellable)) /\ deferred' \in Seq(Tops) /\ SlotTypes'
         /\ Loses({slotTask[s]})
         /\ Cnt(queue', {NextResponse}) = Cnt(queue, {NextResponse})
<1>1. /\ SlotTypes'
      /\ \A t \in Tasks : Cardinality(SlotsOf(t)') = Cardinality(SlotsOf(t))
                                                      - IF t = slotTask[s] THEN 1 ELSE 0
  BY Frees DEF Release
<1>2. /\ queue' \in Seq(QEntry(Cancellable)) /\ deferred' \in Seq(Tops)
      /\ \A t \in Tasks : Cnt(queue', Runs(t)) + Cnt(deferred', Holders(t)) = Queued(t)
      /\ Cnt(queue', {NextResponse}) = Cnt(queue, {NextResponse})
  BY PopMoves DEF Release
<1>3. ASSUME NEW t \in Tasks PROVE Work(t)' = Work(t) - IF t \in {slotTask[s]} THEN 1 ELSE 0
  <2>1. Queued(t)' = Queued(t)
    BY <1>2 DEF Queued
  <2>2. Queued(t) \in Nat /\ InHand(t) \in Nat /\ Cardinality(SlotsOf(t)) \in Nat
    BY WorkIsNat
  <2> QED
    BY <1>1, <2>1, <2>2 DEF Work
<1> QED
  BY <1>1, <1>2, <1>3 DEF Loses

-----------------------------------------------------------------------------
(* What a step of the main thread does to the work and to the results.     *)

\* One copy of u becomes its answer k; with an error its parent and siblings go too.
Replies(u, k, L) ==
  /\ u \in L /\ Work(u) >= 1
  /\ Send(u, k) /\ Loses(L)
  /\ \/ k \in {"final", "error"} /\ L = {u}
     \/ k = "error" /\ \E p \in Tops : L = Own(p)

Works == Loses({}) /\ UNCHANGED results
Cancels == UNCHANGED results /\ \E u \in Cancellable : Loses({u})
Reloads ==
  /\ UNCHANGED <<queue, deferred, held, results>>
  /\ slotTask' = [s \in Slots |-> NoTask]
  /\ main \in {"reload", "asleep"}
Shows == Loses({}) /\ \E u \in Tasks : Work(u) >= 1 /\ Send(u, "partial")

MainDoes ==
  /\ UNCHANGED <<waiting, pc, got>>
  /\ \/ Works \/ Cancels \/ Reloads \/ Shows
     \/ \E u \in Tasks, k \in {"final", "error"}, L \in SUBSET Tasks : Replies(u, k, L)

\* A step that leaves the deques, the hand and the slots alone.
LEMMA SameWork ==
  ASSUME WorkTypes, UNCHANGED <<queue, deferred, held, slotTask>>
  PROVE  Loses({})
<1> SUFFICES ASSUME NEW t \in Tasks PROVE Work(t)' = Work(t)
  BY WorkIsNat DEF Loses
<1> QED
  BY DEF Work, Queued, InHand, SlotsOf

\* start_loop() takes a task from the queue.
LEMMA StartDoes ==
  ASSUME WorkTypes, StartLoop
  PROVE  QueueTypes' /\ SlotTypes' /\ MainDoes
<1> USE DEF WorkTypes, contextVars, slotVars, guardVars, resultVars, readerVars, tasksVars
<1>1. SlotTypes' /\ UNCHANGED <<waiting, pc, got, results, slotTask>>
  BY DEF StartLoop, TakeTask, QueueDrained, NewTasks, SlotTypes, Idle
<1>2. Cancellable' = Cancellable /\ Cancellable \in SUBSET Tasks
  BY <1>1 DEF Cancellable
<1>3. CASE QueueDrained \/ NewTasks
  <2>1. UNCHANGED <<queue, deferred, held, slotTask>> /\ main # "process" /\ main' # "process"
    BY <1>3, <1>1 DEF QueueDrained, NewTasks
  <2>2. Loses({})
    BY <2>1, SameWork
  <2> QED
    BY <1>1, <1>2, <2>1, <2>2 DEF QueueTypes, MainDoes, Works
<1>4. CASE TakeTask
  <2> DEFINE Q == QEntry(Cancellable)
  <2>1. /\ queue \in Seq(Q) /\ queue # <<>> /\ held = Nothing
        /\ held' = Head(queue) /\ queue' = Tail(queue) /\ deferred' = deferred /\ main' = "process"
    BY <1>4 DEF TakeTask, QueueTypes
  <2> HIDE DEF Q
  <2>2. /\ queue' \in Seq(Q) /\ held' \in Q
        /\ \A M : Cnt(queue', M) = Cnt(queue, M) - IF held' \in M THEN 1 ELSE 0
    BY <2>1, CntTail
  <2>3. QueueTypes'
    BY <1>2, <2>1, <2>2 DEF QueueTypes, Q
  <2>4. ASSUME NEW t \in Tasks PROVE Work(t)' = Work(t)
    <3>1. held \notin Runs(t)
      BY <1>2, <2>1, Entries
    <3>2. SlotsOf(t)' = SlotsOf(t) /\ Cnt(deferred', Holders(t)) = Cnt(deferred, Holders(t))
      BY <1>1, <2>1 DEF SlotsOf
    <3>3. Cnt(queue', Runs(t)) = Cnt(queue, Runs(t)) - InHand(t)' /\ InHand(t) = 0
      BY <2>2, <3>1 DEF InHand
    <3>4. /\ Cnt(queue, Runs(t)) \in Nat /\ Cnt(deferred, Holders(t)) \in Nat
          /\ Cardinality(SlotsOf(t)) \in Nat /\ InHand(t)' \in {0, 1}
      BY WorkIsNat DEF InHand
    <3> QED
      BY <3>2, <3>3, <3>4 DEF Work, Queued
  <2>5. Loses({})
    BY <2>4, WorkIsNat DEF Loses
  <2> QED
    BY <1>1, <2>3, <2>5 DEF MainDoes, Works
<1> QED
  BY <1>3, <1>4 DEF StartLoop

\* Once a task is taken, the main thread has none.
LEMMA Handed ==
  ASSUME WorkTypes, NEW op, op \in {"run", "cancel", "next"}, Process(op)
  PROVE  /\ UNCHANGED <<waiting, pc, got>> /\ Cancellable' = Cancellable
         /\ held' = Nothing /\ main' # "process" /\ main = "process"
         /\ \A t \in Tasks : InHand(t)' = 0
         /\ op = "run" => /\ held = Run(held.id) /\ held.id \in Tops /\ held.id \in Tasks
                          /\ \A t \in Tasks : InHand(t) = IF t \in Own(held.id) THEN 1 ELSE 0
         /\ op = "cancel" => held = Cancel(held.id) /\ held.id \in Cancellable
         /\ op # "run" => \A t \in Tasks : InHand(t) = 0
<1> DEFINE Q == QEntry(Cancellable)
<1>1. /\ UNCHANGED <<waiting, pc, got>> /\ held' = Nothing /\ held.op = op
      /\ main = "process" /\ main' = "pop"
  BY DEF Process, httpVars, readerVars
<1>2. Cancellable' = Cancellable /\ Cancellable \in SUBSET Tasks
  BY <1>1 DEF Cancellable
<1>3. held \in Q
  BY <1>1 DEF WorkTypes, QueueTypes, Nothing
<1>4. \A t \in Tasks : InHand(t)' = 0
  BY <1>1, <1>2, Entries DEF InHand
<1>5. op = "run" => held = Run(held.id) /\ held.id \in Tops /\ held.id \in Tasks
  BY <1>1, <1>2, <1>3, Entries
<1>6. op = "cancel" => held = Cancel(held.id) /\ held.id \in Cancellable
  BY <1>1, <1>2, <1>3, Entries
<1>7. ASSUME op = "run", NEW t \in Tasks PROVE InHand(t) = IF t \in Own(held.id) THEN 1 ELSE 0
  BY <1>2, <1>5, <1>7, Entries DEF InHand, Holders
<1>8. ASSUME op # "run", NEW t \in Tasks PROVE InHand(t) = 0
  BY <1>1, <1>8 DEF InHand, Runs
<1> QED
  BY <1>1, <1>2, <1>4, <1>5, <1>6, <1>7, <1>8

\* The task at hand is dropped, its ids with it.
LEMMA HandEmptied ==
  ASSUME WorkTypes, Process("run"), UNCHANGED <<tasksVars, slotVars>>
  PROVE  QueueTypes' /\ SlotTypes' /\ Loses(Own(held.id)) /\ \A t \in Own(held.id) \cap Tasks : Work(t) >= 1
<1> USE DEF WorkTypes, tasksVars, slotVars
<1>1. QueueTypes' /\ SlotTypes'
  BY Handed DEF QueueTypes, SlotTypes, Idle
<1>2. ASSUME NEW t \in Tasks
      PROVE  /\ Work(t)' = Work(t) - IF t \in Own(held.id) THEN 1 ELSE 0
             /\ t \in Own(held.id) => Work(t) >= 1
  <2>1. InHand(t)' = 0 /\ InHand(t) = IF t \in Own(held.id) THEN 1 ELSE 0
    BY Handed
  <2>2. Queued(t)' = Queued(t) /\ SlotsOf(t)' = SlotsOf(t)
    BY DEF Queued, SlotsOf
  <2>3. Queued(t) \in Nat /\ Cardinality(SlotsOf(t)) \in Nat
    BY WorkIsNat
  <2> QED
    BY <2>1, <2>2, <2>3 DEF Work
<1> QED
  BY <1>1, <1>2 DEF Loses

\* defer()
LEMMA Defers ==
  ASSUME WorkTypes, Process("run"), Defer(held.id), UNCHANGED <<queue, slotVars>>
  PROVE  QueueTypes' /\ SlotTypes' /\ Loses({})
<1> USE DEF WorkTypes, slotVars
<1>1. /\ deferred' = Append(deferred, held.id) /\ deferred \in Seq(Tops) /\ held.id \in Tops
      /\ queue' = queue
  BY Handed DEF Defer, QueueTypes
<1>2. /\ deferred' \in Seq(Tops)
      /\ \A M : Cnt(deferred', M) = Cnt(deferred, M) + IF held.id \in M THEN 1 ELSE 0
  BY <1>1, CntAppend
<1>3. QueueTypes' /\ SlotTypes'
  BY <1>2, Handed DEF QueueTypes, SlotTypes, Idle
<1>4. ASSUME NEW t \in Tasks PROVE Work(t)' = Work(t)
  <2>1. InHand(t)' = 0 /\ InHand(t) = IF held.id \in Holders(t) THEN 1 ELSE 0
    BY <1>1, Handed DEF Holders
  <2>2. SlotsOf(t)' = SlotsOf(t)
    BY DEF SlotsOf
  <2>3. /\ Cnt(queue, Runs(t)) \in Nat /\ Cnt(deferred, Holders(t)) \in Nat
        /\ Cardinality(SlotsOf(t)) \in Nat
    BY WorkIsNat
  <2> QED
    BY <1>1, <1>2, <2>1, <2>2, <2>3 DEF Work, Queued
<1> QED
  BY <1>3, <1>4, WorkIsNat DEF Loses

\* process_single_task, but for a launch.
LEMMA ProcessDoes ==
  ASSUME WorkTypes,
         ProcessNextResponse \/ ProcessCancel \/ ProcessQuery \/ ProcessSlotAction
         \/ DeferInfer \/ LaunchFails
  PROVE  QueueTypes' /\ SlotTypes' /\ MainDoes
<1> USE DEF WorkTypes
<1>1. CASE ProcessNextResponse
  <2>1. Process("next") /\ UNCHANGED <<queue, deferred, slotTask, phase, results>>
    BY <1>1 DEF ProcessNextResponse, tasksVars, slotVars
  <2>2. QueueTypes' /\ SlotTypes' /\ UNCHANGED <<waiting, pc, got>>
    BY <2>1, Handed DEF QueueTypes, SlotTypes, Idle
  <2>3. ASSUME NEW t \in Tasks PROVE Work(t)' = Work(t)
    BY <2>1, Handed DEF Work, Queued, SlotsOf
  <2> QED
    BY <2>1, <2>2, <2>3, WorkIsNat DEF MainDoes, Works, Loses
<1>2. CASE ProcessCancel
  <2>1. Process("cancel") /\ UNCHANGED results
    BY <1>2 DEF ProcessCancel
  <2>2. /\ UNCHANGED <<waiting, pc, got>> /\ Cancellable' = Cancellable
        /\ held' = Nothing /\ held.id \in Cancellable
        /\ \A t \in Tasks : InHand(t)' = InHand(t)
    BY <2>1, Handed
  <2>3. CASE \E s \in Slots : slotTask[s] = held.id /\ Release(s)
    <3>1. PICK s \in Slots : slotTask[s] = held.id /\ Release(s)
      BY <2>3
    <3>2. /\ queue' \in Seq(QEntry(Cancellable)) /\ deferred' \in Seq(Tops) /\ SlotTypes'
          /\ Loses({held.id})
      BY <2>2, <3>1, ReleaseLoses
    <3> QED
      BY <2>1, <2>2, <3>2 DEF QueueTypes, MainDoes, Cancels
  <2>4. CASE UNCHANGED <<tasksVars, slotVars>>
    <3>1. UNCHANGED <<queue, deferred, slotTask, phase>>
      BY <2>4 DEF tasksVars, slotVars
    <3>2. QueueTypes' /\ SlotTypes'
      BY <2>2, <3>1 DEF QueueTypes, SlotTypes, Idle
    <3>3. ASSUME NEW t \in Tasks PROVE Work(t)' = Work(t)
      BY <2>2, <3>1 DEF Work, Queued, SlotsOf
    <3> QED
      BY <2>1, <2>2, <3>2, <3>3, WorkIsNat DEF MainDoes, Works, Loses
  <2> QED
    BY <1>2, <2>3, <2>4 DEF ProcessCancel
<1>3. CASE ProcessQuery \/ ProcessSlotAction
  <2>1. /\ Process("run") /\ UNCHANGED <<waiting, pc, got>>
        /\ held.id \in Tasks /\ Kind[held.id] # "infer"
    BY <1>3, Handed DEF ProcessQuery, ProcessSlotAction
  <2>2. Own(held.id) = {held.id}
    BY <2>1, KindAssumption, TaskAssumption DEF Own
  <2>3. CASE Send(held.id, "final") /\ UNCHANGED <<tasksVars, slotVars>>
    <3>1. Replies(held.id, "final", {held.id})
      BY <2>1, <2>2, <2>3, HandEmptied DEF Replies
    <3> QED
      BY <2>1, <2>3, <3>1, HandEmptied DEF MainDoes
  <2>4. CASE Defer(held.id) /\ UNCHANGED <<results, queue, slotVars>>
    BY <2>1, <2>4, Defers DEF MainDoes, Works
  <2> QED
    BY <1>3, <2>3, <2>4 DEF ProcessQuery, ProcessSlotAction, tasksVars
<1>4. CASE DeferInfer
  BY <1>4, Handed, Defers DEF DeferInfer, MainDoes, Works
<1>5. CASE LaunchFails
  <2>1. /\ Process("run") /\ UNCHANGED <<tasksVars, slotVars>>
        /\ UNCHANGED <<waiting, pc, got>> /\ held.id \in Tasks /\ held.id \in Tops
    BY <1>5, Handed DEF LaunchFails
  <2>2. PICK u \in IF Kids[held.id] = {} THEN {held.id} ELSE Kids[held.id] : Send(u, "error")
    BY <1>5 DEF LaunchFails
  <2>3. Own(held.id) \in SUBSET Tasks /\ u \in Own(held.id) /\ u \in Tasks
    BY <2>1, <2>2, TaskAssumption DEF Own
  <2>4. Replies(u, "error", Own(held.id))
    BY <2>1, <2>2, <2>3, HandEmptied DEF Replies
  <2> QED
    BY <2>1, <2>3, <2>4, HandEmptied DEF MainDoes
<1> QED
  BY <1>1, <1>2, <1>3, <1>4, <1>5

\* get_free_slots: a set of numbers has its n least ones.
LEMMA LowestOnes ==
  ASSUME NEW I \in SUBSET Nat, IsFiniteSet(I), NEW n \in Nat, n <= Cardinality(I)
  PROVE  \E C \in kSubset(n, I) : \A x \in C, y \in I \ C : x < y
<1> DEFINE r == [i \in I |-> Cardinality({j \in I : j <= i})]
           C == {i \in I : r[i] <= n}
<1>1. r \in Bijection(I, 1..Cardinality(I)) /\ \A i, j \in I : i < j => r[i] < r[j]
  BY Ranks
<1>2. Cardinality(I) \in Nat
  BY FS_CardinalityType
<1> HIDE DEF r
<1>3. /\ r \in [I -> 1..Cardinality(I)] /\ \A i, j \in I : r[i] = r[j] => i = j
      /\ \A k \in 1..Cardinality(I) : \E i \in I : r[i] = k
  BY <1>1 DEF Bijection, Injection, Surjection, IsInjective
<1>4. IsFiniteSet(C) /\ C \in SUBSET I
  BY FS_Subset
<1>5. Cardinality(C) = n
  <2> DEFINE g == [i \in C |-> r[i]]
  <2>1. g \in [C -> 1..n]
    <3>1. \A i \in C : r[i] \in 1..Cardinality(I) /\ r[i] <= n
      BY <1>3
    <3>2. \A i \in C : r[i] \in 1..n
      BY <1>2, <3>1
    <3> HIDE DEF C
    <3> QED
      BY <3>2
  <2>2. \A i, j \in C : g[i] = g[j] => i = j
    BY <1>3
  <2>3. \A k \in 1..n : \E i \in C : g[i] = k
    BY <1>2, <1>3
  <2> HIDE DEF g, C
  <2>4. g \in Bijection(C, 1..n)
    BY <2>1, <2>2, <2>3 DEF Bijection, Injection, Surjection, IsInjective
  <2>5. Cardinality(1..n) = Cardinality(C)
    BY <1>4, <2>4, FS_Bijection DEF ExistsBijection
  <2>6. Cardinality(1..n) = IF 1 > n THEN 0 ELSE n - 1 + 1
    BY FS_Interval
  <2> QED
    BY <2>5, <2>6
<1>6. ASSUME NEW x \in C, NEW y \in I \ C PROVE x < y
  <2>1. x \in Nat /\ y \in Nat /\ r[x] \in Nat /\ r[y] \in Nat /\ r[x] <= n /\ ~(r[y] <= n)
    BY <1>2, <1>3
  <2>2. ~(y < x) /\ y # x
    BY <1>1, <2>1
  <2> QED
    BY <2>1, <2>2
<1> HIDE DEF C
<1>7. C \in kSubset(n, I)
  BY <1>4, <1>5 DEF kSubset
<1> QED
  BY <1>6, <1>7

\* launch_slots_with_parent_task: from the hand to slots, the parent and each child once.
LEMMA LaunchDoes ==
  ASSUME WorkTypes, Launch
  PROVE  QueueTypes' /\ SlotTypes' /\ MainDoes
<1> USE DEF WorkTypes
<1> DEFINE p == held.id
<1>1. Process("run") /\ UNCHANGED <<queue, deferred, results>>
  BY DEF Launch, tasksVars
<1>2. /\ UNCHANGED <<waiting, pc, got>> /\ Cancellable' = Cancellable
      /\ held' = Nothing /\ p \in Tasks
      /\ \A t \in Tasks : InHand(t)' = 0 /\ InHand(t) = IF t \in Own(p) THEN 1 ELSE 0
  BY <1>1, Handed
<1>3. QueueTypes'
  BY <1>1, <1>2 DEF QueueTypes
<1>4. PICK s \in FreeFor(p) :
        /\ Cardinality(FreeSlots(s)) >= Cardinality(Kids[p])
        /\ \E kid \in Bijection(ChildSlots(p, s), Kids[p]) :
            /\ slotTask' = [x \in Slots |-> IF x = s THEN p
                               ELSE IF x \in ChildSlots(p, s) THEN kid[x] ELSE slotTask[x]]
            /\ phase' = [x \in Slots |-> IF x = s THEN "prompt"
                               ELSE IF x \in ChildSlots(p, s) THEN "other" ELSE phase[x]]
  BY DEF Launch
<1> HIDE DEF p
<1>5. s \in Slots /\ Idle(s)
  BY <1>2, <1>4, TaskAssumption DEF FreeFor, Available, AnySlot
<1> DEFINE C == ChildSlots(p, s)
<1>6. C \in SUBSET FreeSlots(s)
  <2> DEFINE n == Cardinality(Kids[p])
             I == FreeSlots(s)
  <2>1. IsFiniteSet(Kids[p]) /\ n \in Nat
    BY <1>2, ChildAssumption, FS_CardinalityType
  <2>2. IsFiniteSet(Slots) /\ Slots \in SUBSET Nat
    BY LimitAssumption, FS_Interval DEF Slots
  <2>3. IsFiniteSet(I) /\ I \in SUBSET Nat
    BY <2>2, FS_Subset DEF FreeSlots
  <2>4. n <= Cardinality(I)
    BY <1>4, <2>1, <2>3, FS_CardinalityType
  <2> HIDE DEF n, I
  <2>5. \E D \in kSubset(n, I) : \A x \in D, y \in I \ D : x < y
    BY <2>1, <2>3, <2>4, LowestOnes
  <2>6. C \in kSubset(n, I)
    BY <2>5 DEF ChildSlots, n, I
  <2> HIDE DEF C
  <2> QED
    BY <2>6 DEF kSubset, I
<1> HIDE DEF C
<1>7. PICK kid \in Bijection(C, Kids[p]) :
            /\ slotTask' = [x \in Slots |-> IF x = s THEN p ELSE IF x \in C THEN kid[x] ELSE slotTask[x]]
            /\ phase' = [x \in Slots |-> IF x = s THEN "prompt" ELSE IF x \in C THEN "other" ELSE phase[x]]
  BY <1>4 DEF C
<1>8. /\ kid \in [C -> Kids[p]] /\ \A x, y \in C : kid[x] = kid[y] => x = y
      /\ \A k \in Kids[p] : \E x \in C : kid[x] = k
  BY <1>7 DEF Bijection, Injection, Surjection, IsInjective
<1>9. /\ Kids[p] \subseteq Tasks /\ p \notin Kids[p]
      /\ C \subseteq Slots \ {s} /\ slotTask[s] = NoTask /\ \A x \in C : slotTask[x] = NoTask
  <2>1. Kids[p] \subseteq Tasks /\ p \notin Kids[p]
    BY <1>2, TaskAssumption, KindAssumption
  <2>2. C \subseteq Slots \ {s} /\ \A x \in C : Idle(x)
    BY <1>6 DEF FreeSlots
  <2> QED
    BY <1>5, <2>1, <2>2 DEF SlotTypes
<1>10. SlotTypes'
  BY <1>2, <1>7, <1>8, <1>9 DEF SlotTypes, Idle
<1>11. ASSUME NEW t \in Tasks
       PROVE  Cardinality(SlotsOf(t)') = Cardinality(SlotsOf(t)) + IF t \in Own(p) THEN 1 ELSE 0
  <2>1. t # NoTask
    BY TaskAssumption
  <2>2. CASE t = p
    <3>1. SlotsOf(t)' = SlotsOf(t) \cup {s}
      BY <1>5, <1>7, <1>8, <1>9, <2>1, <2>2 DEF SlotsOf, SlotTypes
    <3>2. s \notin SlotsOf(t)
      BY <1>9, <2>1 DEF SlotsOf
    <3> QED
      BY <2>2, <3>1, <3>2, WorkIsNat, FS_AddElement DEF Own
  <2>3. CASE t \in Kids[p]
    <3>1. PICK x \in C : kid[x] = t
      BY <1>8, <2>3
    <3>2. SlotsOf(t)' = SlotsOf(t) \cup {x}
      BY <1>7, <1>8, <1>9, <2>1, <2>3, <3>1 DEF SlotsOf, SlotTypes
    <3>3. x \notin SlotsOf(t)
      BY <1>9, <2>1 DEF SlotsOf
    <3> QED
      BY <2>3, <3>2, <3>3, WorkIsNat, FS_AddElement DEF Own
  <2>4. CASE t \notin Own(p)
    <3>1. SlotsOf(t)' = SlotsOf(t)
      BY <1>7, <1>8, <1>9, <2>1, <2>4 DEF SlotsOf, SlotTypes, Own
    <3> QED
      BY <2>4, <3>1, WorkIsNat
  <2> QED
    BY <2>2, <2>3, <2>4 DEF Own
<1>12. ASSUME NEW t \in Tasks PROVE Work(t)' = Work(t)
  <2>1. Queued(t)' = Queued(t) /\ Queued(t) \in Nat /\ Cardinality(SlotsOf(t)) \in Nat
    BY <1>1, WorkIsNat DEF Queued
  <2> QED
    BY <1>2, <1>11, <2>1 DEF Work
<1> QED
  BY <1>1, <1>2, <1>3, <1>10, <1>12, WorkIsNat DEF MainDoes, Works, Loses

\* Slot s is at work on its task.
LEMMA SlotWorks ==
  ASSUME WorkTypes, NEW s \in Slots, slotTask[s] \in Tasks
  PROVE  Work(slotTask[s]) >= 1
<1> DEFINE u == slotTask[s]
<1>1. s \in SlotsOf(u)
  BY DEF SlotsOf
<1> HIDE DEF u
<1>2. /\ IsFiniteSet(SlotsOf(u)) /\ Cardinality(SlotsOf(u)) \in Nat
      /\ Queued(u) \in Nat /\ InHand(u) \in Nat
  BY WorkIsNat DEF u
<1>3. Cardinality(SlotsOf(u)) # 0
  BY <1>1, <1>2, FS_EmptySet
<1> QED
  BY <1>2, <1>3 DEF Work, u

\* The task of a slot is answered, and the slot released.
LEMMA RepliesAndReleases ==
  ASSUME WorkTypes, waiting \subseteq Tasks, UNCHANGED <<waiting, pc, got, held>>,
         main # "process" /\ main' # "process",
         NEW s \in Slots, NEW k \in {"final", "error"}, Send(slotTask[s], k), Release(s)
  PROVE  QueueTypes' /\ SlotTypes' /\ MainDoes
<1>1. \A t \in Tasks : InHand(t)' = InHand(t)
  BY DEF InHand
<1>2. /\ queue' \in Seq(QEntry(Cancellable)) /\ deferred' \in Seq(Tops) /\ SlotTypes'
      /\ Loses({slotTask[s]})
  BY <1>1, ReleaseLoses
<1>3. QueueTypes'
  BY <1>2 DEF WorkTypes, QueueTypes, Cancellable
<1>4. CASE slotTask[s] \in Tasks
  <2>1. Replies(slotTask[s], k, {slotTask[s]})
    BY <1>2, <1>4, SlotWorks DEF Replies
  <2> QED
    BY <1>2, <1>3, <1>4, <2>1 DEF MainDoes
<1>5. CASE slotTask[s] = NoTask
  <2>1. UNCHANGED results
    BY <1>5, TaskAssumption DEF Send
  <2>2. Loses({})
    BY <1>2, <1>5, TaskAssumption DEF Loses
  <2> QED
    BY <1>2, <1>3, <2>1, <2>2 DEF MainDoes, Works
<1> QED
  BY <1>4, <1>5 DEF WorkTypes, SlotTypes

\* A busy server posts itself a task.
LEMMA GoesOnDoes ==
  ASSUME WorkTypes, main # "process" /\ main' # "process",
         UNCHANGED <<waiting, pc, got, held, deferred, slotTask, phase, results>>,
         queue' = queue \/ queue' = Append(queue, NextResponse)
  PROVE  QueueTypes' /\ SlotTypes' /\ MainDoes
<1> DEFINE Q == QEntry(Cancellable)
<1>1. Cancellable' = Cancellable /\ Cancellable \in SUBSET Tasks
  BY DEF Cancellable
<1>2. queue \in Seq(Q) /\ NextResponse \in Q
  BY <1>1, Entries DEF WorkTypes, QueueTypes
<1> HIDE DEF Q
<1>3. /\ Append(queue, NextResponse) \in Seq(Q)
      /\ \A M : Cnt(Append(queue, NextResponse), M) = Cnt(queue, M) + IF NextResponse \in M THEN 1 ELSE 0
  BY <1>2, CntAppend
<1>4. QueueTypes' /\ SlotTypes'
  BY <1>1, <1>2, <1>3 DEF WorkTypes, QueueTypes, SlotTypes, Idle, Q
<1>5. ASSUME NEW t \in Tasks PROVE Work(t)' = Work(t)
  <2>1. NextResponse \notin Runs(t) /\ Cnt(queue, Runs(t)) \in Nat
    BY <1>1, Entries, WorkIsNat
  <2>2. Cnt(queue', Runs(t)) = Cnt(queue, Runs(t))
    <3>1. Cnt(Append(queue, NextResponse), Runs(t)) = Cnt(queue, Runs(t)) + 0
      BY <1>3, <2>1
    <3>2. CASE queue' = queue
      BY <3>2
    <3>3. CASE queue' = Append(queue, NextResponse)
      BY <2>1, <3>1, <3>3
    <3> QED
      BY <3>2, <3>3
  <2>3. SlotsOf(t)' = SlotsOf(t) /\ InHand(t)' = InHand(t)
    BY DEF SlotsOf, InHand
  <2> QED
    BY <2>2, <2>3 DEF Work, Queued
<1> QED
  BY <1>4, <1>5, WorkIsNat DEF MainDoes, Works, Loses

\* update_slots, and what surrounds the sleep.
LEMMA UpdateDoes ==
  ASSUME WorkTypes, waiting \subseteq Tasks,
         Sleep \/ Wake \/ UpdateSlots \/ DecodeFails \/ \E s \in Slots : NoProgress(s) \/ Fail(s)
  PROVE  QueueTypes' /\ SlotTypes' /\ MainDoes
<1> USE DEF httpVars, guardVars, readerVars, mainVars, modelVars, contextVars, slotVars, tasksVars,
            resultVars
<1>1. CASE BeginUpdate \/ Reprovision \/ HoldBegin \/ HoldTimesOut \/ Destroy \/ EndStep
           \/ DecodeFails \/ Sleep \/ CheckIdle \/ EndAbort
  <2>1. /\ main # "process" /\ main' # "process"
        /\ UNCHANGED <<waiting, pc, got, held, deferred, slotTask, phase, results>>
        /\ queue' = queue \/ queue' = Append(queue, NextResponse)
    BY <1>1 DEF BeginUpdate, Reprovision, HoldBegin, HoldTimesOut, Destroy, EndStep,
                DecodeFails, Sleep, EnterSleep, CheckIdle, PostNextResponse, EndAbort
  <2> QED
    BY <2>1, GoesOnDoes
<1>2. CASE Reload \/ Wake
  <2>1. /\ main \in {"reload", "asleep"} /\ main' # "process"
        /\ UNCHANGED <<waiting, pc, got, held, queue, deferred, results>>
        /\ slotTask' = [s \in Slots |-> NoTask] /\ phase' = [s \in Slots |-> "idle"]
    BY <1>2 DEF Reload, Wake, LeaveSleep, LoadModel
  <2>2. QueueTypes' /\ SlotTypes'
    BY <2>1 DEF WorkTypes, QueueTypes, SlotTypes, Idle, Cancellable
  <2> QED
    BY <2>1, <2>2 DEF MainDoes, Reloads
<1>3. ASSUME NEW s \in Slots, NoProgress(s) \/ FinishPrompt(s) \/ SendPart(s)
      PROVE  QueueTypes' /\ SlotTypes' /\ MainDoes
  <2>1. /\ main = "step" /\ UNCHANGED main
        /\ UNCHANGED <<waiting, pc, got, held, queue, deferred, slotTask>>
    BY <1>3 DEF NoProgress, FinishPrompt, SendPart, Turn
  <2>2. QueueTypes'
    BY <2>1 DEF WorkTypes, QueueTypes, Cancellable
  <2>3. SlotTypes'
    <3>1. CASE UNCHANGED phase
      BY <2>1, <3>1 DEF WorkTypes, SlotTypes, Idle
    <3>2. CASE FinishPrompt(s)
      BY <2>1, <3>2 DEF FinishPrompt, WorkTypes, SlotTypes, Idle
    <3> QED
      BY <1>3, <3>1, <3>2 DEF NoProgress, SendPart
  <2>4. Loses({})
    BY <2>1, SameWork
  <2>5. CASE UNCHANGED results
    BY <2>1, <2>2, <2>3, <2>4, <2>5 DEF MainDoes, Works
  <2>6. CASE SendPart(s)
    <3>1. Send(slotTask[s], "partial")
      BY <2>6 DEF SendPart
    <3>2. CASE slotTask[s] \in Tasks
      BY <2>1, <2>2, <2>3, <2>4, <3>1, <3>2, SlotWorks DEF MainDoes, Shows
    <3>3. CASE slotTask[s] \notin Tasks
      <4>1. UNCHANGED results
        BY <3>1, <3>3 DEF Send
      <4> QED
        BY <2>5, <4>1
    <3> QED
      BY <3>2, <3>3
  <2> QED
    BY <1>3, <2>5, <2>6 DEF NoProgress, FinishPrompt
<1>4. ASSUME NEW s \in Slots, Finish(s) \/ Fail(s) \/ Abort(s)
      PROVE  QueueTypes' /\ SlotTypes' /\ MainDoes
  <2>1. /\ main # "process" /\ UNCHANGED main
        /\ UNCHANGED <<waiting, pc, got, held>> /\ Release(s)
        /\ \E k \in {"final", "error"} : Send(slotTask[s], k)
    BY <1>4 DEF Finish, Fail, Abort, Turn
  <2> QED
    BY <2>1, RepliesAndReleases
<1> QED
  BY <1>1, <1>2, <1>3, <1>4 DEF UpdateSlots

\* Every step of the main thread is one of the effects.
LEMMA MainThreadDoes ==
  ASSUME WorkTypes, waiting \subseteq Tasks,
         StartLoop \/ Sleep \/ Wake \/ ProcessTask \/ UpdateSlots \/ DecodeFails
         \/ \E s \in Slots : NoProgress(s) \/ Fail(s)
  PROVE  WorkTypes' /\ MainDoes
<1>1. CASE StartLoop
  BY <1>1, StartDoes DEF WorkTypes
<1>2. CASE ProcessTask
  BY <1>2, ProcessDoes, LaunchDoes DEF ProcessTask, WorkTypes
<1>3. CASE Sleep \/ Wake \/ UpdateSlots \/ DecodeFails \/ \E s \in Slots : NoProgress(s) \/ Fail(s)
  BY <1>3, UpdateDoes DEF WorkTypes
<1> QED
  BY <1>1, <1>2, <1>3

-----------------------------------------------------------------------------
(* What the reader has of a task, and the inductive invariant.             *)

AnswersTo(t) == {x \in Result : x.id = t /\ x.kind # "partial"}
Gotten(t) == IF \E r \in Requests : t \in got[r] THEN 1 ELSE 0
Given(t) == Cnt(results, AnswersTo(t)) + Gotten(t)

\* Where the reader waits for its ids, and where it may still have results.
Waits  == {"release", "post", "next", "stop"}
Posted == {"next", "stop", "clean", "cancel", "done"}

ReplyTypes ==
  /\ results \in Seq(Result) /\ waiting \subseteq Tasks
  /\ pc \in [Requests -> Places]
  /\ got \in [Requests -> SUBSET Tasks] /\ \A r \in Requests : got[r] \subseteq IdsOf(r)

\* A task has one copy, one answer on its way or one that is received, once posted.
Once ==
  \A t \in Tasks : Work(t) + Given(t) <=
    IF \E r \in Requests : t \in IdsOf(r) /\ pc[r] \in Posted THEN 1 ELSE 0

\* Nothing comes after the answer, on its way or received.
AnswerIsLast ==
  /\ \A i, j \in DOMAIN results :
       results[i].kind # "partial" /\ results[j].id = results[i].id => j <= i
  /\ \A r \in Requests : \A i \in DOMAIN results : results[i].id \notin got[r]

\* Results are let in, and kept, only for a reader that takes or removes them.
Expected ==
  /\ \A r \in Requests : waiting \cap IdsOf(r) = IF pc[r] \in Waits THEN IdsOf(r) ELSE {}
  /\ \A r \in Requests : \A i \in DOMAIN results :
       results[i].id \in IdsOf(r) => pc[r] \in Waits \cup {"clean"}

IAnswers == WorkTypes /\ ReplyTypes /\ Once /\ AnswerIsLast /\ Expected

\* What the reader has of a task is counted in numbers.
LEMMA GivenIsNat ==
  ASSUME ReplyTypes, NEW t \in Tasks
  PROVE  /\ Cnt(results, AnswersTo(t)) \in Nat /\ Gotten(t) \in {0, 1} /\ Given(t) \in Nat
         /\ Given(t) = 0 => /\ \A i \in DOMAIN results : results[i].id = t => results[i].kind = "partial"
                            /\ \A r \in Requests : t \notin got[r]
<1>1. /\ Cnt(results, AnswersTo(t)) \in Nat
      /\ Cnt(results, AnswersTo(t)) = 0 <=> \A i \in DOMAIN results : results[i] \notin AnswersTo(t)
  BY CntIsNat DEF ReplyTypes
<1>2. Gotten(t) \in {0, 1} /\ (Gotten(t) = 0 <=> \A r \in Requests : t \notin got[r])
  BY DEF Gotten
<1>3. \A i \in DOMAIN results : results[i] \in Result
  BY DEF ReplyTypes
<1> QED
  BY <1>1, <1>2, <1>3 DEF Given, AnswersTo

\* The ids of a reader are finitely many, and its own.
LEMMA IdsAreTasks ==
  ASSUME NEW r \in Requests
  PROVE  /\ IdsOf(r) \subseteq Tasks /\ IsFiniteSet(IdsOf(r))
         /\ \A q \in Requests, t \in IdsOf(r) : t \in IdsOf(q) => q = r
<1> DEFINE D == DOMAIN Posts[r]
           f == [i \in D |-> Own(Posts[r][i])]
           F == {Own(Posts[r][i]) : i \in D}
<1>1. Posts[r] \in Seq(Tasks)
  BY TaskAssumption
<1>2. D = 1..Len(Posts[r]) /\ Len(Posts[r]) \in Nat /\ \A i \in D : Posts[r][i] \in Tasks
  BY <1>1
<1>3. IdsOf(r) \subseteq Tasks
  BY <1>2, TaskAssumption DEF IdsOf, Own
<1>4. IsFiniteSet(D)
  BY <1>2, FS_Interval
<1>5. \A T \in F : IsFiniteSet(T)
  <2> SUFFICES ASSUME NEW i \in D PROVE IsFiniteSet(Own(Posts[r][i]))
    OBVIOUS
  <2>1. IsFiniteSet(Kids[Posts[r][i]])
    BY <1>2, ChildAssumption
  <2>2. IsFiniteSet(Kids[Posts[r][i]] \cup {Posts[r][i]})
    BY <2>1, FS_AddElement
  <2>3. Own(Posts[r][i]) = Kids[Posts[r][i]] \cup {Posts[r][i]}
    BY DEF Own
  <2> QED
    BY <2>2, <2>3
<1>6. f \in Surjection(D, F)
  <2>1. f \in [D -> F] /\ \A T \in F : \E i \in D : f[i] = T
    OBVIOUS
  <2> HIDE DEF f, F
  <2> QED
    BY <2>1 DEF Surjection
<1>7. IsFiniteSet(F)
  BY <1>4, <1>6, FS_Surjection
<1>8. IdsOf(r) = UNION F
  BY DEF IdsOf
<1> HIDE DEF F, D
<1>9. IsFiniteSet(IdsOf(r))
  BY <1>5, <1>7, <1>8, FS_UNION
<1> QED
  BY <1>3, <1>9, IdAssumption

-----------------------------------------------------------------------------
(* The main thread keeps the invariant.                                    *)

\* A task with a copy has no answer yet, so that its result comes last.
LEMMA SendKeeps ==
  ASSUME IAnswers, UNCHANGED <<waiting, pc, got>>,
         NEW u \in Tasks, NEW k \in {"partial", "final", "error"}, Work(u) >= 1, Send(u, k)
  PROVE  /\ ReplyTypes' /\ AnswerIsLast' /\ Expected'
         /\ \A t \in Tasks : Given(t)' = Given(t)
              + IF t = u /\ u \in waiting /\ k # "partial" THEN 1 ELSE 0
<1> USE DEF IAnswers
<1>1. Given(u) = 0
  <2>1. Work(u) + Given(u) <= 1 /\ Work(u) \in Nat /\ Given(u) \in Nat
    BY WorkIsNat, GivenIsNat DEF Once
  <2> QED
    BY <2>1
<1>2. /\ \A i \in DOMAIN results : results[i].id = u => results[i].kind = "partial"
      /\ \A r \in Requests : u \notin got[r]
  BY <1>1, GivenIsNat
<1> DEFINE x == [id |-> u, kind |-> k]
<1>3. x \in Result /\ x.id = u /\ x.kind = k
  BY DEF Result
<1>4. CASE u \notin waiting
  <2>1. UNCHANGED results
    BY <1>4 DEF Send
  <2>2. ReplyTypes' /\ AnswerIsLast' /\ Expected'
    BY <2>1 DEF ReplyTypes, AnswerIsLast, Expected
  <2>3. \A t \in Tasks : Given(t)' = Given(t)
    BY <2>1 DEF Given, Gotten
  <2> QED
    BY <1>4, <2>2, <2>3, GivenIsNat
<1>5. CASE u \in waiting
  <2>1. results' = Append(results, x) /\ results \in Seq(Result)
    BY <1>5 DEF Send, ReplyTypes
  <2> HIDE DEF x
  <2>2. /\ results' \in Seq(Result)
        /\ \A M : Cnt(results', M) = Cnt(results, M) + IF x \in M THEN 1 ELSE 0
    BY <1>3, <2>1, CntAppend
  <2>3. /\ Len(results) \in Nat /\ DOMAIN results = 1..Len(results)
        /\ DOMAIN results' = 1..Len(results)+1
        /\ \A i \in DOMAIN results : results'[i] = results[i]
        /\ results'[Len(results)+1] = x
    BY <2>1, <1>3
  <2>4. ReplyTypes'
    BY <2>2 DEF ReplyTypes
  <2>5. AnswerIsLast'
    <3>1. ASSUME NEW i \in 1..Len(results)+1, NEW j \in 1..Len(results)+1,
                 results'[i].kind # "partial", results'[j].id = results'[i].id
          PROVE  j <= i
      <4>1. CASE i = Len(results) + 1
        BY <2>3, <4>1
      <4>2. CASE i \in DOMAIN results
        <5>1. results'[i] = results[i] /\ results[i].id # u
          BY <1>2, <2>3, <3>1, <4>2
        <5>2. j \in DOMAIN results /\ results'[j] = results[j]
          BY <1>3, <2>3, <3>1, <5>1
        <5> QED
          BY <3>1, <4>2, <5>1, <5>2 DEF AnswerIsLast
      <4> QED
        BY <2>3, <4>1, <4>2
    <3>2. ASSUME NEW r \in Requests, NEW i \in 1..Len(results)+1 PROVE results'[i].id \notin got[r]
      BY <1>2, <1>3, <2>3 DEF AnswerIsLast
    <3> QED
      BY <2>3, <3>1, <3>2 DEF AnswerIsLast
  <2>6. Expected'
    <3>1. ASSUME NEW r \in Requests, NEW i \in 1..Len(results)+1, results'[i].id \in IdsOf(r)
          PROVE  pc[r] \in Waits \cup {"clean"}
      <4>1. CASE i = Len(results)+1
        BY <1>3, <1>5, <2>3, <3>1, <4>1 DEF Expected
      <4>2. CASE i \in DOMAIN results
        BY <2>3, <3>1, <4>2 DEF Expected
      <4> QED
        BY <2>3, <4>1, <4>2
    <3> QED
      BY <2>3, <3>1 DEF Expected
  <2>7. ASSUME NEW t \in Tasks
        PROVE  Given(t)' = Given(t) + IF t = u /\ k # "partial" THEN 1 ELSE 0
    <3>1. x \in AnswersTo(t) <=> t = u /\ k # "partial"
      BY <1>3 DEF AnswersTo
    <3>2. Gotten(t)' = Gotten(t)
      BY DEF Gotten
    <3> QED
      BY <2>2, <3>1, <3>2, GivenIsNat DEF Given
  <2> QED
    BY <1>5, <2>4, <2>5, <2>6, <2>7
<1> QED
  BY <1>4, <1>5

\* Each of the effects keeps the invariant.
LEMMA MainKeeps ==
  ASSUME IAnswers, WorkTypes', MainDoes
  PROVE  IAnswers'
<1> USE DEF IAnswers
<1>0. UNCHANGED <<waiting, pc, got>>
  BY DEF MainDoes
<1>1. ASSUME UNCHANGED results
      PROVE  ReplyTypes' /\ AnswerIsLast' /\ Expected' /\ \A t \in Tasks : Given(t)' = Given(t)
  BY <1>0, <1>1 DEF ReplyTypes, AnswerIsLast, Expected, Given, Gotten
<1>2. ASSUME \A t \in Tasks : /\ Work(t)' + Given(t)' \in Int
                               /\ Work(t)' + Given(t)' <= Work(t) + Given(t)
      PROVE  Once'
  <2> SUFFICES ASSUME NEW t \in Tasks
               PROVE  Work(t)' + Given(t)' <=
                        IF \E r \in Requests : t \in IdsOf(r) /\ pc[r] \in Posted THEN 1 ELSE 0
    BY <1>0 DEF Once
  <2> DEFINE n == IF \E r \in Requests : t \in IdsOf(r) /\ pc[r] \in Posted THEN 1 ELSE 0
             a == Work(t)' + Given(t)'
             b == Work(t) + Given(t)
  <2>1. b <= n /\ n \in Nat /\ b \in Int
    BY WorkIsNat, GivenIsNat DEF Once
  <2>2. a <= b /\ a \in Int
    BY <1>2
  <2> HIDE DEF a, b, n
  <2>3. a <= n
    BY <2>1, <2>2
  <2> QED
    BY <2>3 DEF a, n
<1>3. \A t \in Tasks : Work(t) \in Nat /\ Given(t) \in Nat
  BY WorkIsNat, GivenIsNat
<1>4. CASE Works \/ Cancels
  <2>1. UNCHANGED results /\ \E L : Loses(L)
    BY <1>4 DEF Works, Cancels
  <2> QED
    BY <1>1, <1>2, <1>3, <2>1 DEF Loses
<1>5. CASE Reloads
  <2>1. ASSUME NEW t \in Tasks
        PROVE  Work(t)' = Queued(t) + InHand(t) /\ Queued(t) \in Nat /\ InHand(t) \in Nat
    <3>1. SlotsOf(t)' = {}
      BY <1>5, TaskAssumption DEF Reloads, SlotsOf
    <3>2. Cardinality(SlotsOf(t)') = 0
      BY <3>1, FS_EmptySet
    <3>3. Queued(t)' = Queued(t) /\ InHand(t)' = InHand(t)
      BY <1>5 DEF Reloads, Queued, InHand
    <3> QED
      BY <3>2, <3>3, WorkIsNat DEF Work
  <2>2. \A t \in Tasks : Work(t) = Queued(t) + InHand(t) + Cardinality(SlotsOf(t))
                           /\ Cardinality(SlotsOf(t)) \in Nat
    BY WorkIsNat DEF Work
  <2>3. UNCHANGED results
    BY <1>5 DEF Reloads
  <2>4. Once'
    BY <1>1, <1>2, <1>3, <2>1, <2>2, <2>3
  <2> QED
    BY <1>1, <2>3, <2>4
<1>6. CASE Shows
  BY <1>0, <1>2, <1>3, <1>6, SendKeeps DEF Shows, Loses
<1>7. ASSUME NEW u \in Tasks, NEW k \in {"final", "error"}, NEW L \in SUBSET Tasks, Replies(u, k, L)
      PROVE  IAnswers'
  <2>1. u \in L /\ Work(u) >= 1 /\ Send(u, k) /\ Loses(L)
    BY <1>7 DEF Replies
  <2>2. /\ ReplyTypes' /\ AnswerIsLast' /\ Expected'
        /\ \A t \in Tasks : Given(t)' = Given(t)
              + IF t = u /\ u \in waiting /\ k # "partial" THEN 1 ELSE 0
    BY <1>0, <2>1, SendKeeps
  <2>3. Once'
    BY <1>2, <1>3, <2>1, <2>2 DEF Loses
  <2> QED
    BY <2>2, <2>3
<1> QED
  BY <1>4, <1>5, <1>6, <1>7 DEF MainDoes

-----------------------------------------------------------------------------
(* The readers keep the invariant.                                         *)

\* The queue stays one when more entries are allowed in it.
LEMMA SeqOfMore ==
  ASSUME NEW S, NEW T, S \subseteq T, NEW s \in Seq(S)
  PROVE  s \in Seq(T)
<1>1. s \in [1..Len(s) -> T] /\ Len(s) \in Nat
  OBVIOUS
<1> QED
  BY <1>1

\* A reader that goes on only makes more tasks posted, and more to cancel.
LEMMA ReaderGoes ==
  ASSUME IAnswers, NEW r \in Requests, NEW there \in Places,
         pc' = [pc EXCEPT ![r] = there], pc[r] # "done", pc[r] \in Posted => there \in Posted
  PROVE  /\ pc' \in [Requests -> Places]
         /\ \A q \in Requests : pc[q] \in Posted => pc'[q] \in Posted
         /\ Cancellable \subseteq Cancellable' /\ Cancellable' \subseteq Tasks
         /\ QEntry(Cancellable) \subseteq QEntry(Cancellable')
<1>1. pc \in [Requests -> Places]
  BY DEF IAnswers, ReplyTypes
<1>2. /\ pc' \in [Requests -> Places]
      /\ \A q \in Requests : pc'[q] = IF q = r THEN there ELSE pc[q]
  BY <1>1
<1>3. Cancellable \subseteq Cancellable' /\ Cancellable' \subseteq Tasks
  BY <1>2 DEF Cancellable
<1>4. QEntry(Cancellable) \subseteq QEntry(Cancellable')
  BY <1>3 DEF QEntry
<1> QED
  BY <1>2, <1>3, <1>4

\* Its ids are waited for from register to stop.
LEMMA ReaderWaits ==
  ASSUME IAnswers, NEW r \in Requests, NEW there \in Places, pc' = [pc EXCEPT ![r] = there],
         \/ waiting' = waiting /\ (pc[r] \in Waits <=> there \in Waits)
         \/ waiting' = waiting \cup IdsOf(r) /\ there \in Waits
         \/ waiting' = waiting \ IdsOf(r) /\ there \notin Waits
  PROVE  /\ waiting' \subseteq Tasks
         /\ \A q \in Requests : waiting' \cap IdsOf(q) = IF pc'[q] \in Waits THEN IdsOf(q) ELSE {}
<1>1. pc \in [Requests -> Places] /\ waiting \subseteq Tasks
  BY DEF IAnswers, ReplyTypes
<1>2. \A q \in Requests : pc'[q] = IF q = r THEN there ELSE pc[q]
  BY <1>1
<1>3. waiting' \subseteq Tasks
  BY <1>1, IdsAreTasks
<1>4. ASSUME NEW q \in Requests
      PROVE  waiting' \cap IdsOf(q) = IF pc'[q] \in Waits THEN IdsOf(q) ELSE {}
  <2>1. waiting \cap IdsOf(q) = IF pc[q] \in Waits THEN IdsOf(q) ELSE {}
    BY DEF IAnswers, Expected
  <2>2. CASE q = r
    BY <1>2, <2>1, <2>2
  <2>3. CASE q # r
    <3>1. IdsOf(q) \cap IdsOf(r) = {}
      BY <2>3, IdAssumption
    <3>2. waiting' \cap IdsOf(q) = waiting \cap IdsOf(q)
      BY <3>1
    <3> QED
      BY <1>2, <2>1, <2>3, <3>2
  <2> QED
    BY <2>2, <2>3
<1> QED
  BY <1>3, <1>4

\* The reader alone moves.
LEMMA MovesKeep ==
  ASSUME IAnswers, NEW r \in Requests,
         Arrive(r) \/ RequestWake(r) \/ Enter(r) \/ Refuse(r) \/ Register(r) \/ LeaveWindow(r)
         \/ GiveUp(r) \/ ClientGone(r) \/ Unwait(r),
         UNCHANGED contextVars
  PROVE  /\ IAnswers' /\ UNCHANGED <<queue, results>>
         /\ \A t \in Tasks : Work(t)' = Work(t) /\ Given(t)' = Given(t)
         /\ \A q \in Requests : pc'[q] = "next" => pc[q] = "next"
<1> USE DEF IAnswers
<1>1. UNCHANGED <<queue, deferred, held, main, slotTask, phase, results, got>>
  BY DEF Arrive, RequestWake, Enter, Refuse, Register, LeaveWindow, GiveUp, ClientGone, Unwait,
         tasksVars, guardVars, resultVars, readerVars, mainVars, contextVars, slotVars
<1>2. \E there \in Places :
        /\ pc' = [pc EXCEPT ![r] = there]
        /\ pc[r] # "done" /\ there # "next" /\ (pc[r] \in Posted => there \in Posted)
        /\ \/ waiting' = waiting /\ (pc[r] \in Waits <=> there \in Waits)
           \/ waiting' = waiting \cup IdsOf(r) /\ there \in Waits
           \/ waiting' = waiting \ IdsOf(r) /\ there \notin Waits
        /\ pc[r] \in Waits \cup {"clean"} => there \in Waits \cup {"clean"} \/ got[r] = IdsOf(r)
  <2> USE DEF Goto, Places, Posted, Waits, resultVars, readerVars
  <2>1. CASE RequestWake(r)
    <3>1. pc' = [pc EXCEPT ![r] = "enter"] /\ pc[r] = "enter" /\ waiting' = waiting
      BY <2>1 DEF RequestWake, ReplyTypes
    <3> QED
      BY <3>1
  <2>2. CASE Arrive(r) \/ Enter(r) \/ Refuse(r)
    BY <2>2 DEF Arrive, Enter, Refuse
  <2>3. CASE Register(r)
    BY <2>3 DEF Register
  <2>4. CASE LeaveWindow(r) \/ GiveUp(r) \/ ClientGone(r)
    BY <2>4 DEF LeaveWindow, GiveUp, ClientGone
  <2>5. CASE Unwait(r)
    BY <2>5 DEF Unwait
  <2> QED
    BY <2>1, <2>2, <2>3, <2>4, <2>5
<1>3. PICK there \in Places :
        /\ pc' = [pc EXCEPT ![r] = there]
        /\ pc[r] # "done" /\ there # "next" /\ (pc[r] \in Posted => there \in Posted)
        /\ \/ waiting' = waiting /\ (pc[r] \in Waits <=> there \in Waits)
           \/ waiting' = waiting \cup IdsOf(r) /\ there \in Waits
           \/ waiting' = waiting \ IdsOf(r) /\ there \notin Waits
        /\ pc[r] \in Waits \cup {"clean"} => there \in Waits \cup {"clean"} \/ got[r] = IdsOf(r)
  BY <1>2
<1>4. /\ pc' \in [Requests -> Places]
      /\ \A q \in Requests : pc[q] \in Posted => pc'[q] \in Posted
      /\ QEntry(Cancellable) \subseteq QEntry(Cancellable')
  BY <1>3, ReaderGoes
<1>5. /\ waiting' \subseteq Tasks
      /\ \A q \in Requests : waiting' \cap IdsOf(q) = IF pc'[q] \in Waits THEN IdsOf(q) ELSE {}
  BY <1>3, ReaderWaits
<1>6. WorkTypes'
  BY <1>1, <1>4, SeqOfMore DEF WorkTypes, QueueTypes, SlotTypes, Idle
<1>7. ReplyTypes'
  BY <1>1, <1>4, <1>5 DEF ReplyTypes
<1>8. ASSUME NEW t \in Tasks
      PROVE  Work(t)' = Work(t) /\ Given(t)' = Given(t) /\ Work(t) \in Nat /\ Given(t) \in Nat
  BY <1>1, WorkIsNat, GivenIsNat DEF Work, Queued, InHand, SlotsOf, Given, Gotten
<1>9. Once'
  BY <1>4, <1>8 DEF Once
<1>10. AnswerIsLast'
  BY <1>1 DEF AnswerIsLast
<1>11. ASSUME NEW q \in Requests, NEW i \in DOMAIN results, results[i].id \in IdsOf(q)
       PROVE  pc'[q] \in Waits \cup {"clean"}
  <2>1. pc[q] \in Waits \cup {"clean"} /\ results[i].id \notin got[q]
    BY <1>11 DEF Expected, AnswerIsLast
  <2> QED
    BY <1>3, <1>11, <2>1 DEF ReplyTypes
<1>12. Expected'
  BY <1>1, <1>5, <1>11 DEF Expected
<1>13. \A q \in Requests : pc'[q] = "next" => pc[q] = "next"
  BY <1>3 DEF ReplyTypes
<1> QED
  BY <1>1, <1>6, <1>7, <1>8, <1>9, <1>10, <1>12, <1>13

\* post(): each id of the reader is in one of the tasks, once.
LEMMA PostsOnce ==
  ASSUME NEW r \in Requests
  PROVE  LET new == [i \in DOMAIN Posts[r] |-> Run(Posts[r][i])]
         IN  /\ \A C \in SUBSET Tasks : new \in Seq(QEntry(C))
             /\ \A t \in Tasks : Cnt(new, Runs(t)) = IF t \in IdsOf(r) THEN 1 ELSE 0
<1> DEFINE new == [i \in DOMAIN Posts[r] |-> Run(Posts[r][i])]
<1>1. Posts[r] \in Seq(Tasks)
  BY TaskAssumption
<1>2. /\ DOMAIN Posts[r] = 1..Len(Posts[r]) /\ Len(Posts[r]) \in Nat
      /\ \A i \in DOMAIN Posts[r] : Posts[r][i] \in Tasks /\ Posts[r][i] \in Tops
  BY <1>1 DEF Tops
<1>3. ASSUME NEW C \in SUBSET Tasks PROVE new \in Seq(QEntry(C))
  <2>1. \A i \in 1..Len(Posts[r]) : Run(Posts[r][i]) \in QEntry(C)
    BY <1>2, <1>3, Entries
  <2> QED
    BY <1>2, <2>1
<1>4. ASSUME NEW t \in Tasks PROVE Cnt(new, Runs(t)) = IF t \in IdsOf(r) THEN 1 ELSE 0
  <2>1. Found(new, Runs(t)) = {i \in DOMAIN Posts[r] : t \in Own(Posts[r][i])}
    <3>1. \A i \in DOMAIN Posts[r] : Run(Posts[r][i]) \in Runs(t) <=> t \in Own(Posts[r][i])
      BY <1>2, Entries DEF Holders
    <3> QED
      BY <3>1 DEF Found
  <2>2. CASE t \in IdsOf(r)
    <3>1. PICK i \in DOMAIN Posts[r] : t \in Own(Posts[r][i])
      BY <2>2 DEF IdsOf
    <3>2. \A j \in DOMAIN Posts[r] : t \in Own(Posts[r][j]) => j = i
      BY <3>1, IdAssumption
    <3>3. Found(new, Runs(t)) = {i}
      BY <2>1, <3>1, <3>2
    <3> QED
      BY <2>2, <3>3, FS_Singleton DEF Cnt
  <2>3. CASE t \notin IdsOf(r)
    <3>1. Found(new, Runs(t)) = {}
      BY <2>1, <2>3 DEF IdsOf
    <3> QED
      BY <2>3, <3>1, FS_EmptySet DEF Cnt
  <2> QED
    BY <2>2, <2>3
<1> QED
  BY <1>3, <1>4

\* The tasks of a reader had no copy before they are posted.
LEMMA PostKeeps ==
  ASSUME IAnswers, NEW r \in Requests, Post(r), UNCHANGED contextVars
  PROVE  /\ IAnswers'
         /\ UNCHANGED results /\ pc' = [pc EXCEPT ![r] = "next"]
         /\ \A t \in Tasks : /\ Work(t)' = Work(t) + IF t \in IdsOf(r) THEN 1 ELSE 0
                             /\ Given(t)' = Given(t)
                             /\ t \in IdsOf(r) => Work(t) + Given(t) = 0
         /\ Cnt(queue', {NextResponse}) >= Cnt(queue, {NextResponse})
<1> USE DEF IAnswers
<1> DEFINE new == [i \in DOMAIN Posts[r] |-> Run(Posts[r][i])]
<1>1. /\ UNCHANGED <<deferred, held, main, slotTask, phase, results, got, waiting>>
      /\ queue' = queue \o new
      /\ pc[r] = "post" /\ pc' = [pc EXCEPT ![r] = "next"]
  BY DEF Post, Goto, guardVars, resultVars, mainVars, contextVars, slotVars
<1>2. /\ \A C \in SUBSET Tasks : new \in Seq(QEntry(C))
      /\ \A t \in Tasks : Cnt(new, Runs(t)) = IF t \in IdsOf(r) THEN 1 ELSE 0
  BY PostsOnce
<1> HIDE DEF new
<1>3. /\ pc' \in [Requests -> Places]
      /\ \A q \in Requests : pc[q] \in Posted => pc'[q] \in Posted
      /\ Cancellable' \in SUBSET Tasks
      /\ QEntry(Cancellable) \subseteq QEntry(Cancellable')
  BY <1>1, ReaderGoes DEF Places, Posted
<1> DEFINE Q == QEntry(Cancellable')
<1>4. queue \in Seq(Q) /\ new \in Seq(Q)
  BY <1>2, <1>3, SeqOfMore DEF WorkTypes, QueueTypes
<1>5. held \in Q \cup {Nothing}
  BY <1>3 DEF WorkTypes, QueueTypes
<1> HIDE DEF Q
<1>6. queue' \in Seq(Q) /\ \A M : Cnt(queue', M) = Cnt(queue, M) + Cnt(new, M)
  BY <1>1, <1>4, CntConcat
<1>7. WorkTypes'
  BY <1>1, <1>5, <1>6 DEF WorkTypes, QueueTypes, SlotTypes, Idle, Q
<1>8. ReplyTypes' /\ AnswerIsLast'
  BY <1>1, <1>3 DEF ReplyTypes, AnswerIsLast
<1>9. Expected'
  <2>1. \A q \in Requests : waiting' \cap IdsOf(q) = IF pc'[q] \in Waits THEN IdsOf(q) ELSE {}
    BY <1>1, ReaderWaits DEF Waits, Places
  <2>2. \A q \in Requests : pc[q] \in Waits \cup {"clean"} => pc'[q] \in Waits \cup {"clean"}
    BY <1>1 DEF Waits, ReplyTypes
  <2> QED
    BY <1>1, <2>1, <2>2 DEF Expected
<1>10. ASSUME NEW t \in Tasks
       PROVE  /\ Work(t)' = Work(t) + IF t \in IdsOf(r) THEN 1 ELSE 0
              /\ Given(t)' = Given(t) /\ Work(t) \in Nat /\ Given(t) \in Nat
  <2>1. Cnt(queue', Runs(t)) = Cnt(queue, Runs(t)) + IF t \in IdsOf(r) THEN 1 ELSE 0
    BY <1>2, <1>6
  <2>2. SlotsOf(t)' = SlotsOf(t) /\ InHand(t)' = InHand(t) /\ Given(t)' = Given(t)
    BY <1>1 DEF SlotsOf, InHand, Given, Gotten
  <2>3. /\ Cnt(queue, Runs(t)) \in Nat /\ Cnt(deferred, Holders(t)) \in Nat
        /\ Cardinality(SlotsOf(t)) \in Nat /\ InHand(t) \in Nat
    BY WorkIsNat
  <2> QED
    BY <1>1, <2>1, <2>2, <2>3, WorkIsNat, GivenIsNat DEF Work, Queued
<1>11. ASSUME NEW t \in Tasks, t \in IdsOf(r) PROVE Work(t) + Given(t) = 0
  <2>1. ~\E q \in Requests : t \in IdsOf(q) /\ pc[q] \in Posted
    BY <1>1, <1>11, IdsAreTasks DEF Posted
  <2>2. Work(t) + Given(t) <= 0
    BY <2>1 DEF Once
  <2> QED
    BY <1>10, <2>2
<1>12. Once'
  <2> SUFFICES ASSUME NEW t \in Tasks
               PROVE  Work(t)' + Given(t)' <=
                        IF \E q \in Requests : t \in IdsOf(q) /\ pc'[q] \in Posted THEN 1 ELSE 0
    BY DEF Once
  <2>1. CASE t \in IdsOf(r)
    <3>1. pc'[r] \in Posted
      BY <1>1 DEF Posted, ReplyTypes
    <3> QED
      BY <1>10, <1>11, <2>1, <3>1
  <2>2. CASE t \notin IdsOf(r)
    <3>1. Work(t)' + Given(t)' = Work(t) + Given(t)
      BY <1>10, <2>2
    <3>2. (\E q \in Requests : t \in IdsOf(q) /\ pc[q] \in Posted)
            => \E q \in Requests : t \in IdsOf(q) /\ pc'[q] \in Posted
      BY <1>3
    <3> QED
      BY <1>10, <3>1, <3>2 DEF Once
  <2> QED
    BY <2>1, <2>2
<1>13. Cnt(queue', {NextResponse}) >= Cnt(queue, {NextResponse})
  BY <1>4, <1>6, CntIsNat
<1> QED
  BY <1>1, <1>7, <1>8, <1>9, <1>10, <1>11, <1>12, <1>13

\* Some of the results go, what is left keeps its order.
Thinned ==
  /\ results' \in Seq(Result)
  /\ \E f \in [DOMAIN results' -> DOMAIN results] :
       /\ \A k \in DOMAIN results' : results'[k] = results[f[k]]
       /\ \A k, l \in DOMAIN results' : k < l => f[k] < f[l]

\* The answers that are left are the last of their ids still.
LEMMA ThinKeeps ==
  ASSUME IAnswers, Thinned
  PROVE  /\ \A k \in DOMAIN results' : \E i \in DOMAIN results : results'[k] = results[i]
         /\ \A k, l \in DOMAIN results' :
              results'[k].kind # "partial" /\ results'[l].id = results'[k].id => l <= k
<1>1. PICK f \in [DOMAIN results' -> DOMAIN results] :
        /\ \A k \in DOMAIN results' : results'[k] = results[f[k]]
        /\ \A k, l \in DOMAIN results' : k < l => f[k] < f[l]
  BY DEF Thinned
<1>2. ASSUME NEW k \in DOMAIN results', NEW l \in DOMAIN results',
             results'[k].kind # "partial", results'[l].id = results'[k].id
      PROVE  l <= k
  <2>1. f[l] <= f[k] /\ f[l] \in Int /\ f[k] \in Int /\ k \in Int /\ l \in Int
    BY <1>1, <1>2 DEF IAnswers, AnswerIsLast, ReplyTypes, Thinned
  <2>2. ~(f[k] < f[l])
    BY <2>1
  <2>3. ~(k < l)
    BY <1>1, <2>2
  <2> QED
    BY <2>1, <2>3
<1> QED
  BY <1>1, <1>2

\* What RemoveAt leaves, and where it was.
LEMMA RemovesOne ==
  ASSUME NEW S, NEW s \in Seq(S), NEW i \in 1..Len(s)
  PROVE  /\ RemoveAt(s, i) \in Seq(S) /\ DOMAIN RemoveAt(s, i) = 1..Len(s)-1
         /\ \A k \in 1..Len(s)-1 : RemoveAt(s, i)[k] = s[IF k < i THEN k ELSE k + 1]
<1> DEFINE a == SubSeq(s, 1, i - 1)
           b == SubSeq(s, i + 1, Len(s))
<1>1. Len(s) \in Nat /\ i \in Nat /\ 1 <= i /\ i <= Len(s)
  OBVIOUS
<1>2. a \in Seq(S) /\ Len(a) = i - 1 /\ \A k \in 1..i-1 : a[k] = s[k]
  BY <1>1
<1>3. b \in Seq(S) /\ Len(b) = Len(s) - i /\ \A k \in 1..Len(s)-i : b[k] = s[i + k]
  BY <1>1
<1>4. RemoveAt(s, i) = a \o b
  BY DEF RemoveAt
<1> HIDE DEF a, b
<1>5. /\ a \o b \in Seq(S) /\ Len(a \o b) = Len(a) + Len(b)
      /\ \A k \in 1..Len(a) + Len(b) : (a \o b)[k] = IF k <= Len(a) THEN a[k] ELSE b[k - Len(a)]
  BY <1>2, <1>3, ConcatProperties
<1>6. Len(a) + Len(b) = Len(s) - 1
  BY <1>1, <1>2, <1>3
<1>7. ASSUME NEW k \in 1..Len(s)-1 PROVE (a \o b)[k] = s[IF k < i THEN k ELSE k + 1]
  <2>1. CASE k < i
    BY <1>1, <1>2, <1>5, <1>6, <2>1
  <2>2. CASE ~(k < i)
    <3>1. k - Len(a) \in 1..Len(s)-i /\ ~(k <= Len(a)) /\ i + (k - Len(a)) = k + 1
      BY <1>1, <1>2, <2>2
    <3> QED
      BY <1>3, <1>5, <1>6, <2>2, <3>1
  <2> QED
    BY <2>1, <2>2
<1> QED
  BY <1>4, <1>5, <1>6, <1>7

\* next()
LEMMA ReceiveKeeps ==
  ASSUME IAnswers, NEW r \in Requests, Receive(r), UNCHANGED contextVars
  PROVE  /\ IAnswers' /\ UNCHANGED queue
         /\ \A q \in Requests : pc'[q] = "next" => pc[q] = "next"
         /\ \A t \in Tasks : Work(t)' = Work(t)
         /\ \A t \in Tasks : pc'[r] = "next" \/ t \notin IdsOf(r) => Given(t)' = Given(t)
         /\ \E i \in DOMAIN results :
              /\ results[i].id \in IdsOf(r) /\ (pc'[r] = "next" => results[i].kind # "error")
              /\ \A j \in DOMAIN results : j = i \/ \E k \in DOMAIN results' : results'[k] = results[j]
<1> USE DEF IAnswers
<1>1. PICK i \in DOMAIN results :
        /\ results[i].id \in IdsOf(r)
        /\ \A j \in 1..i-1 : results[j].id \notin IdsOf(r)
        /\ results' = RemoveAt(results, i)
        /\ got' = [got EXCEPT ![r] = IF results[i].kind = "final" THEN @ \cup {results[i].id} ELSE @]
        /\ Goto(r, IF results[i].kind = "error" \/ got'[r] = IdsOf(r) THEN "stop" ELSE "next")
  BY DEF Receive
<1> DEFINE x == results[i]
           there == IF x.kind = "error" \/ got'[r] = IdsOf(r) THEN "stop" ELSE "next"
           n == Len(results)
<1>2. /\ UNCHANGED <<queue, deferred, held, main, slotTask, phase, waiting>>
      /\ pc[r] = "next" /\ pc' = [pc EXCEPT ![r] = there]
  BY <1>1 DEF Receive, Goto, tasksVars, guardVars, mainVars, contextVars, slotVars
<1>3. results \in Seq(Result) /\ n \in Nat /\ DOMAIN results = 1..n /\ i \in 1..n
  BY DEF ReplyTypes
<1>4. x \in Result /\ x.id \in IdsOf(r) /\ x.id \in Tasks
  BY <1>1, <1>3, IdsAreTasks
<1>5. /\ results' \in Seq(Result) /\ DOMAIN results' = 1..n-1
      /\ \A k \in 1..n-1 : results'[k] = results[IF k < i THEN k ELSE k + 1]
  BY <1>1, <1>3, RemovesOne
<1>6. \A M : Cnt(results', M) = Cnt(results, M) - IF x \in M THEN 1 ELSE 0
  BY <1>1, <1>3, CntRemove
<1>7. there \in {"stop", "next"} /\ there \in Places /\ there \in Posted /\ there \in Waits
  BY DEF Places, Posted, Waits
<1> HIDE DEF there, n
<1>8. Thinned
  <2> DEFINE f == [k \in 1..n-1 |-> IF k < i THEN k ELSE k + 1]
  <2>1. f \in [DOMAIN results' -> DOMAIN results]
    BY <1>3, <1>5
  <2>2. \A k \in DOMAIN results' : results'[k] = results[f[k]]
    BY <1>5
  <2>3. \A k, l \in DOMAIN results' : k < l => f[k] < f[l]
    BY <1>3, <1>5
  <2> HIDE DEF f
  <2> QED
    BY <1>5, <2>1, <2>2, <2>3 DEF Thinned
<1>9. /\ pc' \in [Requests -> Places]
      /\ \A q \in Requests : pc[q] \in Posted => pc'[q] \in Posted
      /\ QEntry(Cancellable) \subseteq QEntry(Cancellable')
  BY <1>2, <1>7, ReaderGoes
<1>10. WorkTypes'
  BY <1>2, <1>9, SeqOfMore DEF WorkTypes, QueueTypes, SlotTypes, Idle
<1>11. got' \in [Requests -> SUBSET Tasks] /\ \A q \in Requests : got'[q] \subseteq IdsOf(q)
  BY <1>1, <1>4 DEF ReplyTypes
<1>12. ReplyTypes'
  BY <1>2, <1>5, <1>9, <1>11 DEF ReplyTypes
<1>13. \A q \in Requests : waiting' \cap IdsOf(q) = IF pc'[q] \in Waits THEN IdsOf(q) ELSE {}
  BY <1>2, <1>7, ReaderWaits DEF Waits
<1>14. \A q \in Requests : pc[q] \in Waits \cup {"clean"} => pc'[q] \in Waits \cup {"clean"}
  BY <1>2, <1>7 DEF ReplyTypes
<1>15. \A k \in DOMAIN results' : \E j \in DOMAIN results : results'[k] = results[j]
  BY <1>8, ThinKeeps
<1>16. Expected'
  BY <1>13, <1>14, <1>15 DEF Expected
<1>17. ASSUME NEW q \in Requests, NEW k \in DOMAIN results' PROVE results'[k].id \notin got'[q]
  <2>1. results'[k].id \notin got[q]
    BY <1>15 DEF AnswerIsLast
  <2>2. CASE q = r /\ x.kind = "final"
    <3>1. got'[q] = got[q] \cup {x.id}
      BY <1>1, <2>2 DEF ReplyTypes
    <3> SUFFICES results'[k].id # x.id
      BY <2>1, <3>1
    <3>2. CASE k < i
      BY <1>1, <1>3, <1>4, <1>5, <3>2
    <3>3. CASE ~(k < i)
      <4>1. k + 1 \in DOMAIN results /\ results'[k] = results[k + 1] /\ ~(k + 1 <= i)
        BY <1>3, <1>5, <3>3
      <4> QED
        BY <2>2, <4>1 DEF AnswerIsLast
    <3> QED
      BY <3>2, <3>3
  <2>3. CASE ~(q = r /\ x.kind = "final")
    BY <1>1, <2>1, <2>3 DEF ReplyTypes
  <2> QED
    BY <2>2, <2>3
<1>18. AnswerIsLast'
  BY <1>8, <1>17, ThinKeeps DEF AnswerIsLast
<1>19. ASSUME NEW t \in Tasks
       PROVE  /\ Work(t)' = Work(t) /\ Work(t) \in Nat /\ Given(t) \in Nat
              /\ Given(t)' \in Int /\ Given(t)' <= Given(t)
              /\ x.kind # "error" \/ t # x.id => Given(t)' = Given(t)
  <2>1. Work(t)' = Work(t)
    BY <1>2 DEF Work, Queued, InHand, SlotsOf
  <2>2. x \in AnswersTo(t) <=> x.id = t /\ x.kind # "partial"
    BY <1>4 DEF AnswersTo
  <2>3. Gotten(t) \in {0, 1} /\ Gotten(t)' \in {0, 1} /\ Cnt(results, AnswersTo(t)) \in Nat
    BY GivenIsNat DEF Gotten
  <2>4. x.kind = "final" /\ x.id = t => Gotten(t)' = 1 /\ Gotten(t) = 0
    <3>1. \A q \in Requests : x.id \notin got[q]
      BY DEF AnswerIsLast
    <3>2. x.kind = "final" => x.id \in got'[r]
      BY <1>1 DEF ReplyTypes
    <3> QED
      BY <3>1, <3>2 DEF Gotten
  <2>5. ~(x.kind = "final" /\ x.id = t) => Gotten(t)' = Gotten(t)
    <3>1. ASSUME NEW q \in Requests, ~(x.kind = "final" /\ x.id = t) PROVE t \in got'[q] <=> t \in got[q]
      BY <1>1, <3>1 DEF ReplyTypes
    <3> QED
      BY <3>1 DEF Gotten
  <2>6. Cnt(results', AnswersTo(t)) = Cnt(results, AnswersTo(t)) - IF x \in AnswersTo(t) THEN 1 ELSE 0
    BY <1>6
  <2>7. x.kind \in {"partial", "final", "error"}
    BY <1>4 DEF Result
  <2> HIDE DEF x
  <2> QED
    BY <2>1, <2>2, <2>3, <2>4, <2>5, <2>6, <2>7, WorkIsNat, GivenIsNat DEF Given
<1>20. Once'
  <2> SUFFICES ASSUME NEW t \in Tasks
               PROVE  Work(t)' + Given(t)' <=
                        IF \E q \in Requests : t \in IdsOf(q) /\ pc'[q] \in Posted THEN 1 ELSE 0
    BY DEF Once
  <2>1. (\E q \in Requests : t \in IdsOf(q) /\ pc[q] \in Posted)
            => \E q \in Requests : t \in IdsOf(q) /\ pc'[q] \in Posted
    BY <1>9
  <2>2. Work(t) + Given(t) <= IF \E q \in Requests : t \in IdsOf(q) /\ pc[q] \in Posted THEN 1 ELSE 0
    BY DEF Once
  <2>3. CASE \E q \in Requests : t \in IdsOf(q) /\ pc[q] \in Posted
    <3>1. Work(t) + Given(t) <= 1
      BY <2>2, <2>3
    <3> QED
      BY <1>19, <2>1, <2>3, <3>1
  <2>4. CASE ~\E q \in Requests : t \in IdsOf(q) /\ pc[q] \in Posted
    <3>1. Work(t) + Given(t) <= 0
      BY <2>2, <2>4
    <3> QED
      BY <1>19, <3>1
  <2> QED
    BY <2>3, <2>4
<1>21. x.kind = "error" => pc'[r] = "stop"
  BY <1>2 DEF there, ReplyTypes
<1>22. ASSUME NEW j \in DOMAIN results, j # i PROVE \E k \in DOMAIN results' : results'[k] = results[j]
  <2>1. CASE j < i
    BY <1>3, <1>5, <2>1
  <2>2. CASE ~(j < i)
    <3>1. j - 1 \in 1..n-1 /\ ~(j - 1 < i) /\ (j - 1) + 1 = j
      BY <1>3, <1>22, <2>2
    <3> QED
      BY <1>5, <3>1
  <2> QED
    BY <2>1, <2>2
<1>23. \A q \in Requests : pc'[q] = "next" => pc[q] = "next"
  BY <1>2 DEF ReplyTypes
<1> QED
  BY <1>2, <1>4, <1>23, <1>10, <1>12, <1>16, <1>18, <1>19, <1>20, <1>21, <1>22

\* A task that is posted and its children are of one request.
LEMMA TopsOwn ==
  ASSUME NEW p \in Tops, NEW r \in Requests, NEW t \in Own(p), t \in IdsOf(r) \/ p \in IdsOf(r)
  PROVE  Own(p) \subseteq IdsOf(r)
<1>1. PICK q \in Requests : \E i \in DOMAIN Posts[q] : p = Posts[q][i]
  BY DEF Tops
<1>2. Own(p) \subseteq IdsOf(q) /\ p \in Own(p)
  BY <1>1 DEF IdsOf, Own
<1>3. q = r
  BY <1>2, IdsAreTasks
<1> QED
  BY <1>2, <1>3

\* remove_waiting_task_id: no result of the reader is left.
LEMMA CleanKeeps ==
  ASSUME IAnswers, NEW r \in Requests, Clean(r), UNCHANGED contextVars
  PROVE  /\ IAnswers' /\ UNCHANGED queue
         /\ pc' = [pc EXCEPT ![r] = "cancel"]
         /\ \A t \in Tasks : Work(t)' = Work(t) /\ (t \notin IdsOf(r) => Given(t)' = Given(t))
         /\ \A j \in DOMAIN results :
              results[j].id \notin IdsOf(r) => \E k \in DOMAIN results' : results'[k] = results[j]
<1> USE DEF IAnswers
<1> DEFINE I == {i \in DOMAIN results : results[i].id \notin IdsOf(r)}
<1>1. /\ UNCHANGED <<queue, deferred, held, main, slotTask, phase, waiting, got>>
      /\ pc[r] = "clean" /\ pc' = [pc EXCEPT ![r] = "cancel"]
      /\ results' = Picked(results, I)
  BY DEF Clean, Without, Goto, tasksVars, guardVars, mainVars, contextVars, slotVars
<1>2. results \in Seq(Result) /\ DOMAIN results = 1..Len(results) /\ Len(results) \in Nat
  BY DEF ReplyTypes
<1>4. /\ results' \in Seq(Result)
      /\ \A M : /\ Cnt(results', M) <= Cnt(results, M)
                /\ Found(results, M) \subseteq I => Cnt(results', M) = Cnt(results, M)
  BY <1>1, <1>2, CntPicked
<1>5. I \in SUBSET (DOMAIN results) /\ \A i \in I : results[i].id \notin IdsOf(r)
  OBVIOUS
<1>6. \A j \in DOMAIN results : results[j].id \notin IdsOf(r) => j \in I
  OBVIOUS
<1> HIDE DEF I
<1>3. PICK f \in Bijection(1..Cardinality(I), I) :
        /\ results' = [k \in 1..Cardinality(I) |-> results[f[k]]]
        /\ \A k, l \in 1..Cardinality(I) : k < l => f[k] < f[l]
  BY <1>1, <1>2, <1>5, PickedFrom
<1>7. f \in [1..Cardinality(I) -> I] /\ \A i \in I : \E k \in 1..Cardinality(I) : f[k] = i
  BY <1>3 DEF Bijection, Injection, Surjection, IsInjective
<1>8. DOMAIN results' = 1..Cardinality(I)
  BY <1>3
<1>9. Thinned
  BY <1>3, <1>4, <1>5, <1>7, <1>8 DEF Thinned
<1>10. /\ pc' \in [Requests -> Places]
       /\ \A q \in Requests : pc[q] \in Posted => pc'[q] \in Posted
       /\ QEntry(Cancellable) \subseteq QEntry(Cancellable')
  BY <1>1, ReaderGoes DEF Places, Posted
<1>11. WorkTypes'
  BY <1>1, <1>10, SeqOfMore DEF WorkTypes, QueueTypes, SlotTypes, Idle
<1>12. ReplyTypes'
  BY <1>1, <1>4, <1>10 DEF ReplyTypes
<1>13. \A q \in Requests : waiting' \cap IdsOf(q) = IF pc'[q] \in Waits THEN IdsOf(q) ELSE {}
  BY <1>1, ReaderWaits DEF Waits, Places
<1>14. ASSUME NEW k \in DOMAIN results'
       PROVE  results'[k].id \notin IdsOf(r) /\ \E j \in DOMAIN results : results'[k] = results[j]
  <2>1. f[k] \in I /\ results'[k] = results[f[k]]
    BY <1>3, <1>7, <1>8
  <2> QED
    BY <1>5, <2>1
<1>15. Expected'
  <2>1. \A q \in Requests : q # r => pc'[q] = pc[q]
    BY <1>1 DEF ReplyTypes
  <2> QED
    BY <1>13, <1>14, <2>1 DEF Expected
<1>16. AnswerIsLast'
  BY <1>1, <1>9, <1>14, ThinKeeps DEF AnswerIsLast
<1>17. ASSUME NEW t \in Tasks
       PROVE  /\ Work(t)' = Work(t) /\ Work(t) \in Nat
              /\ Given(t)' \in Int /\ Given(t)' <= Given(t) /\ Given(t) \in Nat
              /\ t \notin IdsOf(r) => Given(t)' = Given(t)
  <2>1. Work(t)' = Work(t)
    BY <1>1 DEF Work, Queued, InHand, SlotsOf
  <2>2. Gotten(t)' = Gotten(t)
    BY <1>1 DEF Gotten
  <2>3. Cnt(results', AnswersTo(t)) \in Nat
    BY <1>4, CntIsNat
  <2>4. Cnt(results', AnswersTo(t)) <= Cnt(results, AnswersTo(t))
    BY <1>4
  <2>5. ASSUME t \notin IdsOf(r) PROVE Cnt(results', AnswersTo(t)) = Cnt(results, AnswersTo(t))
    <3>1. Found(results, AnswersTo(t)) \subseteq I
      BY <1>6, <2>5 DEF Found, AnswersTo
    <3> QED
      BY <1>4, <3>1
  <2> QED
    BY <2>1, <2>2, <2>3, <2>4, <2>5, WorkIsNat, GivenIsNat DEF Given
<1>18. Once'
  <2> SUFFICES ASSUME NEW t \in Tasks
               PROVE  Work(t)' + Given(t)' <=
                        IF \E q \in Requests : t \in IdsOf(q) /\ pc'[q] \in Posted THEN 1 ELSE 0
    BY DEF Once
  <2>1. CASE \E q \in Requests : t \in IdsOf(q) /\ pc[q] \in Posted
    BY <1>10, <1>17, <2>1 DEF Once
  <2>2. CASE ~\E q \in Requests : t \in IdsOf(q) /\ pc[q] \in Posted
    BY <1>17, <2>2 DEF Once
  <2> QED
    BY <2>1, <2>2
<1>19. ASSUME NEW j \in DOMAIN results, results[j].id \notin IdsOf(r)
       PROVE  \E k \in DOMAIN results' : results'[k] = results[j]
  BY <1>3, <1>6, <1>7, <1>8, <1>19
<1> QED
  BY <1>1, <1>11, <1>12, <1>15, <1>16, <1>17, <1>18, <1>19

\* The cancellations take no other task from the deques.
LEMMA CancelKeeps ==
  ASSUME IAnswers, NEW r \in Requests, PostCancel(r), UNCHANGED contextVars
  PROVE  /\ IAnswers' /\ UNCHANGED results /\ pc' = [pc EXCEPT ![r] = "done"]
         /\ \A t \in Tasks : /\ Given(t)' = Given(t)
                             /\ t \notin IdsOf(r) => Work(t)' = Work(t)
         /\ Cnt(queue', {NextResponse}) >= Cnt(queue, {NextResponse})
<1> USE DEF IAnswers
<1> DEFINE ids == IdsOf(r)
           F == {Cancel(t) : t \in ids}
           new == SetToSeq(F)
           I == {i \in DOMAIN queue : queue[i].op # "run" \/ queue[i].id \notin ids}
           J == {i \in DOMAIN deferred : deferred[i] \notin ids}
           Q == QEntry(Cancellable')
<1>1. /\ UNCHANGED <<held, main, slotTask, phase, waiting, results, got>>
      /\ pc[r] = "cancel" /\ pc' = [pc EXCEPT ![r] = "done"]
      /\ queue' = new \o Picked(queue, I)
      /\ deferred' = Picked(deferred, J)
  BY DEF PostCancel, CancelAll, Goto, guardVars, resultVars, mainVars, contextVars, slotVars
<1>2. /\ pc' \in [Requests -> Places]
      /\ \A q \in Requests : pc[q] \in Posted => pc'[q] \in Posted
      /\ Cancellable' \in SUBSET Tasks
      /\ QEntry(Cancellable) \subseteq QEntry(Cancellable')
  BY <1>1, ReaderGoes DEF Places, Posted
<1>3. ids \subseteq Tasks /\ IsFiniteSet(ids)
  BY IdsAreTasks
<1>4. ids \subseteq Cancellable'
  BY <1>1, <1>3 DEF Cancellable, ReplyTypes
<1>5. F \subseteq Q
  BY <1>4 DEF QEntry
<1>6. IsFiniteSet(F)
  <2> DEFINE g == [t \in ids |-> Cancel(t)]
  <2>1. g \in [ids -> F] /\ \A e \in F : \E t \in ids : g[t] = e
    OBVIOUS
  <2> HIDE DEF g, F, ids
  <2>2. g \in Surjection(ids, F)
    BY <2>1 DEF Surjection
  <2> QED
    BY <1>3, <2>2, FS_Surjection
<1>7. new \in Seq(F)
  <2> HIDE DEF F
  <2> QED
    BY <1>6, ListedOnce
<1>8. \A e \in F : \A t \in Tasks : e \notin Runs(t)
  BY <1>3, Entries
<1>9. held \in Q \cup {Nothing} /\ \A e \in Q : e \in Entry
  BY <1>2, Entries DEF WorkTypes, QueueTypes
<1>10. queue \in Seq(Q) /\ I \in SUBSET (DOMAIN queue)
  BY <1>2, SeqOfMore DEF WorkTypes, QueueTypes
<1>11. deferred \in Seq(Tops) /\ J \in SUBSET (DOMAIN deferred)
  BY DEF WorkTypes, QueueTypes
<1>12. \A e \in Q : e.op = "run" => e.id \in Tops
  BY <1>2, Entries
<1>13. \A M : Found(queue, M) \subseteq I <=> \A i \in DOMAIN queue : queue[i] \in M => i \in I
  BY DEF Found
<1>14. \A M : Found(deferred, M) \subseteq J <=> \A i \in DOMAIN deferred : deferred[i] \in M => i \in J
  BY DEF Found
<1>15. \A i \in DOMAIN queue : queue[i] = NextResponse => i \in I
  BY DEF NextResponse
<1>16. \A t \in Tasks, i \in DOMAIN queue : t \notin ids /\ queue[i] \in Runs(t) => i \in I
  <2> SUFFICES ASSUME NEW t \in Tasks, NEW i \in DOMAIN queue,
                      t \notin ids, queue[i] \in Runs(t), queue[i].op = "run", queue[i].id \in ids
               PROVE  FALSE
    OBVIOUS
  <2>1. t \in Own(queue[i].id) /\ queue[i].id \in Tops
    BY <1>10, <1>12 DEF Runs
  <2> HIDE DEF ids
  <2> QED
    BY <2>1, TopsOwn DEF ids
<1>17. \A t \in Tasks, i \in DOMAIN deferred : t \notin ids /\ deferred[i] \in Holders(t) => i \in J
  <2> SUFFICES ASSUME NEW t \in Tasks, NEW i \in DOMAIN deferred,
                      t \notin ids, deferred[i] \in Holders(t), deferred[i] \in ids
               PROVE  FALSE
    OBVIOUS
  <2>1. t \in Own(deferred[i]) /\ deferred[i] \in Tops
    BY DEF Holders
  <2> QED
    BY <2>1, TopsOwn
<1> HIDE DEF I, J, F, new, Q, ids
<1>18. /\ Picked(queue, I) \in Seq(Q)
       /\ \A M : /\ Cnt(Picked(queue, I), M) <= Cnt(queue, M)
                 /\ Found(queue, M) \subseteq I => Cnt(Picked(queue, I), M) = Cnt(queue, M)
  BY <1>10, CntPicked
<1>19. /\ deferred' \in Seq(Tops)
       /\ \A M : /\ Cnt(deferred', M) <= Cnt(deferred, M)
                 /\ Found(deferred, M) \subseteq J => Cnt(deferred', M) = Cnt(deferred, M)
  BY <1>1, <1>11, CntPicked
<1>20. new \in Seq(Q)
  BY <1>5, <1>7, SeqOfMore
<1>21. queue' \in Seq(Q) /\ \A M : Cnt(queue', M) = Cnt(new, M) + Cnt(Picked(queue, I), M)
  BY <1>1, <1>18, <1>20, CntConcat
<1>22. WorkTypes'
  BY <1>1, <1>9, <1>19, <1>21 DEF WorkTypes, QueueTypes, SlotTypes, Idle, Q
<1>23. ReplyTypes' /\ AnswerIsLast'
  BY <1>1, <1>2 DEF ReplyTypes, AnswerIsLast
<1>24. Expected'
  <2>1. \A q \in Requests : waiting' \cap IdsOf(q) = IF pc'[q] \in Waits THEN IdsOf(q) ELSE {}
    BY <1>1, ReaderWaits DEF Waits, Places
  <2>2. \A q \in Requests : pc[q] \in Waits \cup {"clean"} => pc'[q] \in Waits \cup {"clean"}
    BY <1>1 DEF Waits, ReplyTypes
  <2> QED
    BY <1>1, <2>1, <2>2 DEF Expected
<1>25. ASSUME NEW t \in Tasks
       PROVE  /\ Given(t)' = Given(t) /\ Given(t) \in Nat /\ Work(t) \in Nat
              /\ Work(t)' \in Int /\ Work(t)' <= Work(t)
              /\ t \notin ids => Work(t)' = Work(t)
  <2>1. Given(t)' = Given(t) /\ InHand(t)' = InHand(t) /\ SlotsOf(t)' = SlotsOf(t)
    BY <1>1 DEF Given, Gotten, InHand, SlotsOf
  <2>2. Cnt(new, Runs(t)) = 0
    <3>1. \A i \in DOMAIN new : new[i] \in F
      BY <1>7
    <3> QED
      BY <1>7, <1>8, <3>1, CntIsNat
  <2>3. Cnt(Picked(queue, I), Runs(t)) \in Nat /\ Cnt(deferred', Holders(t)) \in Nat
    BY <1>18, <1>19, CntIsNat
  <2>4. Cnt(queue', Runs(t)) = Cnt(Picked(queue, I), Runs(t))
    BY <1>21, <2>2, <2>3
  <2>5. /\ Cnt(queue', Runs(t)) <= Cnt(queue, Runs(t))
        /\ Cnt(deferred', Holders(t)) <= Cnt(deferred, Holders(t))
    BY <1>18, <1>19, <2>4
  <2>6. ASSUME t \notin ids
        PROVE  /\ Cnt(queue', Runs(t)) = Cnt(queue, Runs(t))
               /\ Cnt(deferred', Holders(t)) = Cnt(deferred, Holders(t))
    <3>1. Found(queue, Runs(t)) \subseteq I /\ Found(deferred, Holders(t)) \subseteq J
      BY <1>13, <1>14, <1>16, <1>17, <2>6
    <3> QED
      BY <1>18, <1>19, <2>4, <3>1
  <2> QED
    BY <2>1, <2>3, <2>4, <2>5, <2>6, WorkIsNat, GivenIsNat DEF Work, Queued
<1>26. Once'
  <2> SUFFICES ASSUME NEW t \in Tasks
               PROVE  Work(t)' + Given(t)' <=
                        IF \E q \in Requests : t \in IdsOf(q) /\ pc'[q] \in Posted THEN 1 ELSE 0
    BY DEF Once
  <2>1. CASE \E q \in Requests : t \in IdsOf(q) /\ pc[q] \in Posted
    BY <1>2, <1>25, <2>1 DEF Once
  <2>2. CASE ~\E q \in Requests : t \in IdsOf(q) /\ pc[q] \in Posted
    BY <1>25, <2>2 DEF Once
  <2> QED
    BY <2>1, <2>2
<1>27. Cnt(queue', {NextResponse}) >= Cnt(queue, {NextResponse})
  <2>1. Found(queue, {NextResponse}) \subseteq I
    BY <1>13, <1>15
  <2>2. Cnt(new, {NextResponse}) \in Nat /\ Cnt(queue, {NextResponse}) \in Nat
    BY <1>10, <1>20, CntIsNat
  <2>3. Cnt(Picked(queue, I), {NextResponse}) = Cnt(queue, {NextResponse})
    BY <1>18, <2>1
  <2>4. Cnt(queue', {NextResponse}) = Cnt(new, {NextResponse}) + Cnt(Picked(queue, I), {NextResponse})
    BY <1>21
  <2> QED
    BY <2>2, <2>3, <2>4
<1> QED
  BY <1>1, <1>22, <1>23, <1>24, <1>25, <1>26, <1>27 DEF ids

-----------------------------------------------------------------------------
LEMMA AnswersInit == Init => IAnswers
<1> SUFFICES ASSUME Init PROVE IAnswers
  OBVIOUS
<1> USE DEF Init, QueueInit
<1>1. WorkTypes
  BY DEF WorkTypes, QueueTypes, SlotTypes, Idle
<1>2. ReplyTypes
  BY DEF ReplyTypes, Places
<1>3. ASSUME NEW t \in Tasks PROVE Work(t) + Given(t) = 0
  <2>1. Found(queue, Runs(t)) = {} /\ Found(deferred, Holders(t)) = {} /\ Found(results, AnswersTo(t)) = {}
    BY DEF Found
  <2>2. SlotsOf(t) = {}
    BY TaskAssumption DEF SlotsOf
  <2>3. InHand(t) = 0 /\ Gotten(t) = 0
    BY DEF InHand, Gotten, Nothing, Runs
  <2>4. Cardinality({}) = 0
    BY FS_EmptySet
  <2>5. /\ Cnt(queue, Runs(t)) = 0 /\ Cnt(deferred, Holders(t)) = 0
        /\ Cnt(results, AnswersTo(t)) = 0 /\ Cardinality(SlotsOf(t)) = 0
    BY <2>1, <2>2, <2>4, Zenon DEF Cnt
  <2> QED
    BY <2>3, <2>5 DEF Work, Given, Queued
<1>4. Once
  BY <1>3 DEF Once
<1>5. AnswerIsLast /\ Expected
  BY DEF AnswerIsLast, Expected, Waits
<1> QED
  BY <1>1, <1>2, <1>4, <1>5 DEF IAnswers

LEMMA AnswersStep == IAnswers /\ [Next]_vars => IAnswers'
<1> SUFFICES ASSUME IAnswers, [Next]_vars PROVE IAnswers'
  OBVIOUS
<1>1. CASE UNCHANGED vars
  <2>1. UNCHANGED <<queue, deferred, held, main, slotTask, phase, results, got, waiting, pc>>
    BY <1>1 DEF vars, queueVars, tasksVars, guardVars, resultVars, readerVars, mainVars,
                contextVars, slotVars
  <2> QED
    BY <2>1 DEF IAnswers, WorkTypes, QueueTypes, SlotTypes, Idle, Cancellable, ReplyTypes, Once,
                Work, Queued, InHand, SlotsOf, Given, Gotten, AnswerIsLast, Expected
<1>2. CASE \E r \in Requests : Reader(r) /\ UNCHANGED contextVars
  BY <1>2, MovesKeep, PostKeeps, ReceiveKeeps, CleanKeeps, CancelKeeps DEF Reader
<1>3. CASE StartLoop \/ Sleep \/ Wake \/ ProcessTask \/ UpdateSlots \/ DecodeFails
           \/ \E s \in Slots : NoProgress(s) \/ Fail(s)
  BY <1>3, MainThreadDoes, MainKeeps DEF IAnswers, ReplyTypes
<1> QED
  BY <1>1, <1>2, <1>3 DEF Next

LEMMA AnswersInductive == Spec => []IAnswers
BY AnswersInit, AnswersStep, PTL DEF Spec

\* The sets that the properties count are the ones of the proof.
LEMMA CopiesAreWork ==
  ASSUME IAnswers, NEW t \in Tasks
  PROVE  Copies(t) = Work(t) /\ Answers(t) = Found(results, AnswersTo(t))
<1> USE DEF IAnswers, WorkTypes, QueueTypes, ReplyTypes
<1>1. \A e \in QEntry(Cancellable) : e \in Entry
  BY Entries DEF Cancellable
<1>2. {i \in DOMAIN queue : queue[i].op = "run" /\ t \in Own(queue[i].id)} = Found(queue, Runs(t))
  BY <1>1 DEF Found, Runs
<1>3. {i \in DOMAIN deferred : t \in Own(deferred[i])} = Found(deferred, Holders(t))
  BY DEF Found, Holders
<1>4. (IF held.op = "run" /\ t \in Own(held.id) THEN 1 ELSE 0) = InHand(t)
  BY <1>1 DEF InHand, Runs, Nothing
<1>5. Answers(t) = Found(results, AnswersTo(t))
  BY DEF Answers, Found, AnswersTo
<1> QED
  BY <1>2, <1>3, <1>4, <1>5 DEF Copies, Work, Queued, Cnt, SlotsOf

\* A task is in one place: queued, deferred, in hand, in a slot, or answered, and the
\* answer is the last of its results ("duplicate result received" of wait_for_all
\* cannot happen).
THEOREM NoAnswerTwice == Spec => []AnsweredOnce
<1>1. IAnswers => AnsweredOnce
  <2> SUFFICES ASSUME IAnswers, NEW r \in Requests, NEW t \in IdsOf(r)
               PROVE  /\ Cardinality(Answers(t)) + (IF t \in got[r] THEN 1 ELSE 0) <= 1
                      /\ Answers(t) # {} \/ t \in got[r] => Copies(t) = 0
                      /\ \A i \in Answers(t) : \A j \in DOMAIN results : results[j].id = t => j <= i
    BY DEF AnsweredOnce
  <2> USE DEF IAnswers
  <2>1. t \in Tasks
    BY IdsAreTasks
  <2>2. Copies(t) = Work(t) /\ Answers(t) = Found(results, AnswersTo(t))
    BY <2>1, CopiesAreWork
  <2>3. Cardinality(Answers(t)) = Cnt(results, AnswersTo(t)) /\ Cnt(results, AnswersTo(t)) \in Nat
    BY <2>1, <2>2, GivenIsNat DEF Cnt
  <2>4. t \in got[r] => Gotten(t) = 1
    BY DEF Gotten
  <2>5. Answers(t) # {} => Cnt(results, AnswersTo(t)) # 0
    <3>1. IsFiniteSet(Found(results, AnswersTo(t)))
      BY CntIsNat DEF ReplyTypes
    <3> QED
      BY <2>2, <3>1, FS_EmptySet DEF Cnt
  <2>6. /\ Work(t) + Given(t) <= 1 /\ Work(t) \in Nat /\ Gotten(t) \in {0, 1}
        /\ Given(t) = Cnt(results, AnswersTo(t)) + Gotten(t)
    BY <2>1, WorkIsNat, GivenIsNat DEF Once, Given
  <2>7. \A i \in Answers(t) : \A j \in DOMAIN results : results[j].id = t => j <= i
    BY DEF AnswerIsLast, Answers
  <2> QED
    BY <2>2, <2>3, <2>4, <2>5, <2>6, <2>7
<1> QED
  BY AnswersInductive, <1>1, PTL

\* What a reader that has ended waited for can no longer enter the results, and none
\* of it is there (stop, remove_waiting_task_ids, send).
THEOREM ReadersLeaveNothing == Spec => []NothingLeftBehind
<1>1. IAnswers => NothingLeftBehind
  BY DEF IAnswers, Expected, NothingLeftBehind, Waits
<1> QED
  BY AnswersInductive, <1>1, PTL

-----------------------------------------------------------------------------
(* While no RPC worker is lost, no path drops a task.                      *)

NoErrorFor(r) == \A i \in DOMAIN results : results[i].id \in IdsOf(r) => results[i].kind # "error"

\* A task of a reader that still waits, with no error on its way, is in one place.
AllKept ==
  \A r \in Requests : pc[r] = "next" /\ NoErrorFor(r) =>
    \A t \in IdsOf(r) : Work(t) + Given(t) = 1

\* The slots are made anew by a wake-up alone, and the server does not fall asleep
\* with a busy slot, for it has a task of its own to go on with then.
SlotsAreKept ==
  /\ ~reloadPending /\ main \notin {"hold", "reload", "lost"}
  /\ main \in {"step", "abort", "wait"} => Busy = {} \/ Cnt(queue, {NextResponse}) >= 1
  /\ main = "asleep" => Busy = {}

IKept == IAnswers /\ SlotsAreKept /\ AllKept

\* The main thread keeps the slots until they are idle.
LEMMA SlotsStayKept ==
  ASSUME ~CanLose, IAnswers, SlotsAreKept,
         StartLoop \/ Sleep \/ Wake \/ ProcessTask \/ UpdateSlots \/ DecodeFails
         \/ \E s \in Slots : NoProgress(s) \/ Fail(s)
  PROVE  SlotsAreKept'
<1> USE DEF SlotsAreKept, modelVars, contextVars, slotVars, tasksVars
<1>0. /\ queue \in Seq(QEntry(Cancellable)) /\ Cnt(queue, {NextResponse}) \in Nat
      /\ NextResponse \in QEntry(Cancellable) /\ phase \in [Slots -> {"idle", "other", "prompt", "gen"}]
  BY CntIsNat, Entries DEF IAnswers, WorkTypes, QueueTypes, SlotTypes, Cancellable
<1>1. CASE StartLoop \/ ProcessTask
  BY <1>1 DEF StartLoop, TakeTask, QueueDrained, NewTasks, ProcessTask, ProcessNextResponse,
              ProcessCancel, ProcessQuery, ProcessSlotAction, DeferInfer, Launch, LaunchFails, Process
<1>2. CASE Sleep
  <2>1. Cnt(<<>>, {NextResponse}) = 0
    <3>1. Found(<<>>, {NextResponse}) = {}
      BY DEF Found
    <3> QED
      BY <3>1, FS_EmptySet DEF Cnt
  <2> QED
    BY <1>2, <2>1 DEF Sleep, EnterSleep, Busy, Idle
<1>3. CASE Wake \/ BeginUpdate \/ Reprovision \/ HoldBegin \/ HoldTimesOut \/ Destroy \/ Reload
  BY <1>3 DEF Wake, LeaveSleep, BeginUpdate, Reprovision, HoldBegin, HoldTimesOut, Destroy, Reload
<1>4. CASE CheckIdle
  <2>1. Cnt(Append(queue, NextResponse), {NextResponse}) = Cnt(queue, {NextResponse}) + 1
    BY <1>0, CntAppend
  <2> QED
    BY <1>0, <1>4, <2>1 DEF CheckIdle, PostNextResponse, Busy, Idle
<1>5. CASE EndStep \/ EndAbort \/ DecodeFails
  BY <1>5 DEF EndStep, EndAbort, DecodeFails, Busy, Idle
<1>6. ASSUME NEW s \in Slots, NoProgress(s) \/ FinishPrompt(s) \/ SendPart(s)
      PROVE  SlotsAreKept'
  <2>1. UNCHANGED <<main, queue, reloadPending>> /\ main = "step"
    BY <1>6 DEF NoProgress, FinishPrompt, SendPart, Turn, mainVars
  <2>2. Busy' = Busy
    BY <1>0, <1>6 DEF NoProgress, FinishPrompt, SendPart, Busy, Idle, Followers
  <2> QED
    BY <2>1, <2>2
<1>7. ASSUME NEW s \in Slots, Finish(s) \/ Fail(s) \/ Abort(s)
      PROVE  SlotsAreKept'
  <2>1. UNCHANGED <<main, held, reloadPending>> /\ main \in {"step", "abort"} /\ Release(s)
    BY <1>7 DEF Finish, Fail, Abort, Turn, mainVars
  <2>2. Cnt(queue', {NextResponse}) = Cnt(queue, {NextResponse})
    BY <2>1, PopMoves DEF Release, IAnswers
  <2>3. Busy' \subseteq Busy
    BY <1>0, <2>1 DEF Release, Busy, Idle
  <2> QED
    BY <2>1, <2>2, <2>3
<1> QED
  BY <1>1, <1>2, <1>3, <1>4, <1>5, <1>6, <1>7 DEF UpdateSlots

\* The main thread drops no task of a waiting reader without an error for it.
LEMMA MainDropsNone ==
  ASSUME IKept, WorkTypes', MainDoes
  PROVE  AllKept'
<1> USE DEF IKept, IAnswers
<1>1. UNCHANGED <<waiting, pc, got>>
  BY DEF MainDoes
<1> SUFFICES ASSUME NEW r \in Requests, pc[r] = "next", NoErrorFor(r)', NEW t \in IdsOf(r)
             PROVE  Work(t)' + Given(t)' = 1
  BY <1>1 DEF AllKept
<1>2. t \in Tasks
  BY IdsAreTasks
<1>3. Work(t) \in Nat /\ Given(t) \in Nat
  BY <1>2, WorkIsNat, GivenIsNat
<1>4. ASSUME NoErrorFor(r) PROVE Work(t) + Given(t) = 1
  BY <1>4 DEF AllKept
<1>5. UNCHANGED results => Given(t)' = Given(t) /\ NoErrorFor(r)
  BY <1>1 DEF Given, Gotten, NoErrorFor
<1>6. CASE Works
  BY <1>2, <1>3, <1>4, <1>5, <1>6 DEF Works, Loses
<1>7. CASE Cancels
  <2>1. \A u \in Cancellable : t # u
    BY IdsAreTasks DEF Cancellable
  <2> QED
    BY <1>2, <1>3, <1>4, <1>5, <1>7, <2>1 DEF Cancels, Loses
<1>8. CASE Reloads
  <2>1. SlotsOf(t) = {} /\ SlotsOf(t)' = {}
    BY <1>2, <1>8, TaskAssumption DEF Reloads, SlotsAreKept, Busy, SlotsOf, WorkTypes, SlotTypes
  <2>2. Work(t)' = Work(t)
    BY <1>8, <2>1 DEF Reloads, Work, Queued, InHand
  <2> QED
    BY <1>4, <1>5, <1>8, <2>2 DEF Reloads
<1>9. ASSUME NEW u \in Tasks, NEW k \in {"partial", "final", "error"}, Send(u, k), Work(u) >= 1
      PROVE  /\ NoErrorFor(r)
             /\ Given(t)' = Given(t) + IF t = u /\ u \in waiting /\ k # "partial" THEN 1 ELSE 0
             /\ u \in IdsOf(r) => u \in waiting /\ k # "error"
  <2>1. Given(t)' = Given(t) + IF t = u /\ u \in waiting /\ k # "partial" THEN 1 ELSE 0
    BY <1>1, <1>2, <1>9, SendKeeps
  <2>2. u \in IdsOf(r) => u \in waiting
    BY DEF Expected, Waits
  <2> DEFINE x == [id |-> u, kind |-> k]
  <2>3. results' = results \/ (u \in waiting /\ results' = Append(results, x))
    BY <1>9 DEF Send
  <2>4. u \in waiting => results' = Append(results, x)
    BY <1>9 DEF Send
  <2>5. x \in Result /\ x.id = u /\ x.kind = k
    BY DEF Result
  <2> HIDE DEF x
  <2>6. /\ Len(results) \in Nat /\ DOMAIN results = 1..Len(results)
        /\ results' = Append(results, x) =>
             /\ DOMAIN results' = 1..Len(results)+1
             /\ \A i \in DOMAIN results : results'[i] = results[i]
             /\ results'[Len(results)+1] = x
    BY <2>5 DEF ReplyTypes
  <2>7. NoErrorFor(r)
    BY <2>3, <2>6 DEF NoErrorFor
  <2>8. u \in IdsOf(r) => k # "error"
    BY <2>2, <2>4, <2>5, <2>6 DEF NoErrorFor
  <2> QED
    BY <2>1, <2>2, <2>7, <2>8
<1>10. CASE Shows
  BY <1>2, <1>3, <1>4, <1>9, <1>10 DEF Shows, Loses
<1>11. ASSUME NEW u \in Tasks, NEW k \in {"final", "error"}, NEW L \in SUBSET Tasks, Replies(u, k, L)
       PROVE  Work(t)' + Given(t)' = 1
  <2>1. u \in L /\ Work(u) >= 1 /\ Send(u, k) /\ Loses(L)
    BY <1>11 DEF Replies
  <2>2. /\ Given(t)' = Given(t) + IF t = u /\ u \in waiting THEN 1 ELSE 0
        /\ u \in IdsOf(r) => u \in waiting /\ k = "final"
        /\ Work(t) + Given(t) = 1
    BY <1>4, <1>9, <2>1
  <2>3. t \in L <=> t = u
    <3>1. CASE L = {u}
      BY <3>1
    <3>2. CASE L # {u}
      <4>1. k = "error" /\ \E p \in Tops : L = Own(p)
        BY <1>11, <3>2 DEF Replies
      <4>2. t \in L => u \in IdsOf(r)
        BY <2>1, <4>1, TopsOwn
      <4> QED
        BY <2>1, <2>2, <4>1, <4>2
    <3> QED
      BY <3>1, <3>2
  <2>4. Work(t)' = Work(t) - IF t \in L THEN 1 ELSE 0
    BY <1>2, <2>1 DEF Loses
  <2> QED
    BY <1>3, <2>2, <2>3, <2>4
<1> QED
  BY <1>6, <1>7, <1>8, <1>10, <1>11 DEF MainDoes

\* A reader drops no task but its own.
LEMMA ReadersDropNone ==
  ASSUME IKept, NEW q \in Requests, Reader(q), UNCHANGED contextVars
  PROVE  SlotsAreKept' /\ AllKept'
<1> USE DEF IKept
<1>1. UNCHANGED <<main, phase, reloadPending>>
  BY DEF Reader, Arrive, RequestWake, Enter, Refuse, Register, LeaveWindow, Post, GiveUp, Receive,
         ClientGone, Unwait, Clean, PostCancel, mainVars, contextVars, slotVars, modelVars
<1>2. Cnt(queue, {NextResponse}) \in Nat
  BY CntIsNat DEF IAnswers, WorkTypes, QueueTypes
<1>3. ASSUME \/ queue' = queue
             \/ /\ Cnt(queue', {NextResponse}) >= Cnt(queue, {NextResponse})
                /\ Cnt(queue', {NextResponse}) \in Nat
      PROVE  SlotsAreKept'
  BY <1>1, <1>2, <1>3 DEF SlotsAreKept, Busy, Idle
<1>4. ASSUME IAnswers' PROVE Cnt(queue', {NextResponse}) \in Nat
  BY <1>4, CntIsNat DEF IAnswers, WorkTypes, QueueTypes
<1>5. ASSUME NEW r \in Requests, NEW t \in IdsOf(r)
      PROVE  /\ t \in Tasks
             /\ pc[r] = "next" /\ NoErrorFor(r) => Work(t) + Given(t) = 1
             /\ r # q => t \notin IdsOf(q)
             /\ t \in IdsOf(q) => r = q
  BY IdsAreTasks DEF AllKept
<1>6. CASE Arrive(q) \/ RequestWake(q) \/ Enter(q) \/ Refuse(q) \/ Register(q) \/ LeaveWindow(q)
           \/ GiveUp(q) \/ ClientGone(q) \/ Unwait(q)
  <2>1. /\ UNCHANGED <<queue, results>>
        /\ \A t \in Tasks : Work(t)' = Work(t) /\ Given(t)' = Given(t)
        /\ \A r \in Requests : pc'[r] = "next" => pc[r] = "next"
    BY <1>6, MovesKeep
  <2>2. AllKept'
    BY <1>5, <2>1 DEF AllKept, NoErrorFor
  <2> QED
    BY <1>3, <2>1, <2>2
<1>7. CASE Post(q)
  <2>1. /\ IAnswers' /\ UNCHANGED results /\ pc' = [pc EXCEPT ![q] = "next"]
        /\ \A t \in Tasks : /\ Work(t)' = Work(t) + IF t \in IdsOf(q) THEN 1 ELSE 0
                            /\ Given(t)' = Given(t)
                            /\ t \in IdsOf(q) => Work(t) + Given(t) = 0
        /\ Cnt(queue', {NextResponse}) >= Cnt(queue, {NextResponse})
    BY <1>7, PostKeeps
  <2>2. ASSUME NEW r \in Requests, pc'[r] = "next", NoErrorFor(r)', NEW t \in IdsOf(r)
        PROVE  Work(t)' + Given(t)' = 1
    <3>1. Work(t) \in Nat /\ Given(t) \in Nat
      BY <1>5, WorkIsNat, GivenIsNat DEF IAnswers
    <3>2. CASE r = q
      BY <1>5, <2>1, <2>2, <3>1, <3>2
    <3>3. CASE r # q
      <4>1. pc[r] = "next" /\ NoErrorFor(r)
        BY <2>1, <2>2, <3>3 DEF NoErrorFor, IAnswers, ReplyTypes
      <4> QED
        BY <1>5, <2>1, <3>1, <3>3, <4>1
    <3> QED
      BY <3>2, <3>3
  <2> QED
    BY <1>3, <1>4, <2>1, <2>2 DEF AllKept
<1>8. CASE Receive(q)
  <2>1. /\ IAnswers' /\ UNCHANGED queue
        /\ \A r \in Requests : pc'[r] = "next" => pc[r] = "next"
        /\ \A t \in Tasks : Work(t)' = Work(t)
        /\ \A t \in Tasks : pc'[q] = "next" \/ t \notin IdsOf(q) => Given(t)' = Given(t)
    BY <1>8, ReceiveKeeps
  <2>2. PICK i \in DOMAIN results :
          /\ results[i].id \in IdsOf(q) /\ (pc'[q] = "next" => results[i].kind # "error")
          /\ \A j \in DOMAIN results : j = i \/ \E k \in DOMAIN results' : results'[k] = results[j]
    BY <1>8, ReceiveKeeps
  <2>3. ASSUME NEW r \in Requests, pc'[r] = "next", NoErrorFor(r)', NEW t \in IdsOf(r)
        PROVE  Work(t)' + Given(t)' = 1
    <3>1. NoErrorFor(r)
      BY <1>5, <2>2, <2>3, IdsAreTasks DEF NoErrorFor
    <3>2. Given(t)' = Given(t) /\ Work(t)' = Work(t)
      BY <1>5, <2>1, <2>3
    <3> QED
      BY <1>5, <2>1, <2>3, <3>1, <3>2
  <2> QED
    BY <1>3, <2>1, <2>3 DEF AllKept
<1>9. CASE Clean(q)
  <2>1. /\ IAnswers' /\ UNCHANGED queue /\ pc' = [pc EXCEPT ![q] = "cancel"]
        /\ \A t \in Tasks : Work(t)' = Work(t) /\ (t \notin IdsOf(q) => Given(t)' = Given(t))
        /\ \A j \in DOMAIN results :
             results[j].id \notin IdsOf(q) => \E k \in DOMAIN results' : results'[k] = results[j]
    BY <1>9, CleanKeeps
  <2>2. ASSUME NEW r \in Requests, pc'[r] = "next", NoErrorFor(r)', NEW t \in IdsOf(r)
        PROVE  Work(t)' + Given(t)' = 1
    <3>1. r # q /\ pc[r] = "next"
      BY <2>1, <2>2 DEF IAnswers, ReplyTypes
    <3>2. NoErrorFor(r)
      BY <2>1, <2>2, <3>1, IdsAreTasks DEF NoErrorFor
    <3> QED
      BY <1>5, <2>1, <3>1, <3>2
  <2> QED
    BY <1>3, <2>1, <2>2 DEF AllKept
<1>10. CASE PostCancel(q)
  <2>1. /\ IAnswers' /\ UNCHANGED results /\ pc' = [pc EXCEPT ![q] = "done"]
        /\ \A t \in Tasks : /\ Given(t)' = Given(t)
                            /\ t \notin IdsOf(q) => Work(t)' = Work(t)
        /\ Cnt(queue', {NextResponse}) >= Cnt(queue, {NextResponse})
    BY <1>10, CancelKeeps
  <2>2. ASSUME NEW r \in Requests, pc'[r] = "next", NoErrorFor(r)', NEW t \in IdsOf(r)
        PROVE  Work(t)' + Given(t)' = 1
    <3>1. r # q /\ pc[r] = "next"
      BY <2>1, <2>2 DEF IAnswers, ReplyTypes
    <3>2. NoErrorFor(r)
      BY <2>1, <2>2 DEF NoErrorFor
    <3> QED
      BY <1>5, <2>1, <3>1, <3>2
  <2> QED
    BY <1>3, <1>4, <2>1, <2>2 DEF AllKept
<1> QED
  BY <1>6, <1>7, <1>8, <1>9, <1>10 DEF Reader

LEMMA KeptInit == Init => IKept
<1> SUFFICES ASSUME Init PROVE IKept
  OBVIOUS
<1>1. SlotsAreKept /\ AllKept
  BY DEF Init, QueueInit, SlotsAreKept, AllKept
<1> QED
  BY <1>1, AnswersInit DEF IKept

LEMMA KeptStep == ~CanLose /\ IKept /\ [Next]_vars => IKept'
<1> SUFFICES ASSUME ~CanLose, IKept, [Next]_vars PROVE IKept'
  OBVIOUS
<1>0. IAnswers'
  BY AnswersStep DEF IKept
<1>1. CASE UNCHANGED vars
  <2>1. UNCHANGED <<queue, deferred, held, main, slotTask, phase, results, got, pc, reloadPending>>
    BY <1>1 DEF vars, queueVars, tasksVars, guardVars, resultVars, readerVars, mainVars,
                contextVars, slotVars, modelVars
  <2> QED
    BY <1>0, <2>1 DEF IKept, SlotsAreKept, AllKept, Busy, Idle, NoErrorFor,
                Work, Queued, InHand, SlotsOf, Given, Gotten
<1>2. CASE \E r \in Requests : Reader(r) /\ UNCHANGED contextVars
  BY <1>0, <1>2, ReadersDropNone DEF IKept
<1>3. CASE StartLoop \/ Sleep \/ Wake \/ ProcessTask \/ UpdateSlots \/ DecodeFails
           \/ \E s \in Slots : NoProgress(s) \/ Fail(s)
  <2>1. WorkTypes' /\ MainDoes
    BY <1>3, MainThreadDoes DEF IKept, IAnswers, ReplyTypes
  <2> QED
    BY <1>0, <1>3, <2>1, MainDropsNone, SlotsStayKept DEF IKept
<1> QED
  BY <1>1, <1>2, <1>3 DEF Next

\* While no RPC worker is lost, each task of a waiting reader is still in the server
\* until its answer or an error of the request is on its way (defer, release,
\* launch_slots_with_parent_task, the abort of a batch: no path drops a task silently).
THEOREM NoTaskDropped ==
  ASSUME ~CanLose
  PROVE  Spec => []TaskAccounted
<1>1. IKept => TaskAccounted
  <2> SUFFICES ASSUME IKept, NEW r \in Requests, pc[r] = "next",
                      \A t \in IdsOf(r) : \A i \in Answers(t) : results[i].kind = "final",
                      NEW t \in IdsOf(r) \ got[r]
               PROVE  Copies(t) = 1 \/ Answers(t) # {}
    BY DEF TaskAccounted
  <2> USE DEF IKept, IAnswers
  <2>1. t \in Tasks
    BY IdsAreTasks
  <2>2. NoErrorFor(r)
    BY DEF NoErrorFor, Answers
  <2>3. Work(t) + Given(t) = 1
    BY <2>2 DEF AllKept
  <2>4. Gotten(t) = 0
    BY IdsAreTasks DEF Gotten, ReplyTypes
  <2>5. Copies(t) = Work(t) /\ Answers(t) = Found(results, AnswersTo(t))
    BY <2>1, CopiesAreWork
  <2>6. Cnt(results, AnswersTo(t)) \in Nat /\ Work(t) \in Nat
    BY <2>1, WorkIsNat, GivenIsNat
  <2>7. Answers(t) = {} => Cnt(results, AnswersTo(t)) = 0
    BY <2>5, FS_EmptySet DEF Cnt
  <2> QED
    BY <2>3, <2>4, <2>5, <2>6, <2>7 DEF Given
<1>2. IKept /\ [Next]_vars => IKept'
  BY KeptStep
<1> QED
  BY KeptInit, <1>1, <1>2, PTL DEF Spec

-----------------------------------------------------------------------------
(* The router                                                              *)

\* A step of the router, named action by action.
RouterActions ==
  \/ \E t \in Threads : \/ \E m \in Models : Ensure(t, m)
                        \/ UnloadLru(t) \/ Evict(t) \/ Evicted(t) \/ Load(t) \/ Waited(t)
  \/ \E r \in Reloaders : ReloadModels(r) \/ ReloadUnload(r) \/ ReloadEnd(r)
  \/ \E m \in Models : \/ Proxy(m) \/ Unload(m) \/ ChildReports(m) \/ ChildDies(m)
                       \/ ReadState(m) \/ ChildEnded(m) \/ EraseStop(m) \/ SetUnloaded(m)
                       \/ StopWakes(m) \/ StopSeesEnd(m) \/ ForceKill(m)

LEMMA NextIsAnAction == RouterNext <=> RouterActions
  BY DEF RouterNext, RouterActions, Request, ReloadGoesOn, Manager, Stopper

-----------------------------------------------------------------------------
(* Types *)

\* What asking a model to stop does to the child and the list of stops.
LEMMA StopTyped ==
  ASSUME RouterTypeOK, NEW m \in Models, Stop(m)
  PROVE  /\ stopping' \subseteq Models
         /\ child' \in [Models -> {"none", "loading", "ready", "sleeping", "dead"}]
  BY DEF Stop, RouterTypeOK, TableTyped, Alive

\* A thread that found the least recently used model remembers it.
LEMMA EvictTyped ==
  ASSUME ThreadsTyped, NEW t \in Threads, thr[t].m \in Models, NEW x \in Models,
         thr' = [thr EXCEPT ![t] = [@ EXCEPT !.lru = x, !.pc = "evict"]]
  PROVE  ThreadsTyped'
<1>1. thr[t] \in [pc : {"idle", "lru", "evict", "evicting", "load", "wait"},
                  m : Models \cup {None}, lru : Models \cup {None}]
  BY DEF ThreadsTyped
<1>2. thr'[t] = [pc |-> "evict", m |-> thr[t].m, lru |-> x]
  BY <1>1 DEF ThreadsTyped
<1>3. \A u \in Threads \ {t} : thr'[u] = thr[u]
  OBVIOUS
<1>4. thr' = [u \in Threads |-> thr'[u]]
  BY DEF ThreadsTyped
<1> QED
  BY <1>1, <1>2, <1>3, <1>4 DEF ThreadsTyped

\* A thread that knows its model goes on to load it, or to wait for it, or is done.
LEMMA GoTyped ==
  ASSUME ThreadsTyped, NEW t \in Threads, thr[t].m \in Models,
         Go(t, "load") \/ Go(t, "wait") \/ Gone(t)
  PROVE  ThreadsTyped'
<1>1. CASE Go(t, "load")
  BY <1>1 DEF ThreadsTyped, Go
<1>2. CASE Go(t, "wait")
  BY <1>2 DEF ThreadsTyped, Go
<1>3. CASE Gone(t)
  BY <1>3 DEF ThreadsTyped, Gone, NoRequest
<1> QED
  BY <1>1, <1>2, <1>3

LEMMA InitTyped == RouterInit => RouterTypeOK
  BY DEF RouterInit, RouterTypeOK, TableTyped, ThreadsTyped, NoRequest, NoReload

LEMMA TypeStep == RouterTypeOK /\ [RouterNext]_routerVars => RouterTypeOK'
<1> SUFFICES ASSUME RouterTypeOK, [RouterNext]_routerVars PROVE RouterTypeOK'
  OBVIOUS
<1> USE DEF RouterTypeOK, At, StaysElse, table, proc
<1>1. ASSUME NEW t \in Threads, NEW m \in Models, Ensure(t, m) PROVE RouterTypeOK'
  BY <1>1 DEF Ensure, NoRequest, TableTyped, ThreadsTyped
<1>2. ASSUME NEW t \in Threads, UnloadLru(t) PROVE RouterTypeOK'
  <2>1. thr[t].m \in Models /\ UNCHANGED <<rel, status, stopping, child, pipe, mgr, stopper>>
    BY <1>2 DEF UnloadLru, ThreadsTyped
  <2>2. ThreadsTyped'
    <3>1. CASE Go(t, "load")
      BY <2>1, <3>1, GoTyped
    <3>2. CASE ~Go(t, "load")
      <4>1. PICK x \in Models : thr' = [thr EXCEPT ![t] = [@ EXCEPT !.lru = x, !.pc = "evict"]]
        BY <1>2, <3>2 DEF UnloadLru, Active
      <4> QED
        BY <2>1, <4>1, EvictTyped
    <3> QED
      BY <3>1, <3>2
  <2> QED
    BY <2>1, <2>2 DEF TableTyped
<1>3. ASSUME NEW t \in Threads, Evict(t) PROVE RouterTypeOK'
  <2>1. thr[t].lru \in Models
    BY <1>3 DEF Evict, ThreadsTyped
  <2> QED
    BY <1>3, <2>1, StopTyped DEF Evict, Go, TableTyped, ThreadsTyped
<1>4. ASSUME NEW t \in Threads, Evicted(t) PROVE RouterTypeOK'
  BY <1>4 DEF Evicted, Go, TableTyped, ThreadsTyped
<1>5. ASSUME NEW t \in Threads, Load(t) PROVE RouterTypeOK'
  <2>1. thr[t].m \in Models /\ UNCHANGED rel
    BY <1>5 DEF Load, ThreadsTyped
  <2>2. Go(t, "wait") \/ Gone(t)
    BY <1>5 DEF Load
  <2>3. ThreadsTyped'
    BY <2>1, <2>2, GoTyped
  <2>4. TableTyped'
    <3>1. CASE Spawn(thr[t].m)
      BY <2>1, <3>1 DEF Spawn, TableTyped
    <3>2. CASE UNCHANGED <<table, proc, mgr, stopper>>
      BY <3>2 DEF TableTyped
    <3> QED
      BY <1>5, <3>1, <3>2 DEF Load
  <2> QED
    BY <2>1, <2>3, <2>4
<1>6. ASSUME NEW t \in Threads, Waited(t) PROVE RouterTypeOK'
  BY <1>6 DEF Waited, Gone, NoRequest, TableTyped, ThreadsTyped
<1>7. ASSUME NEW r \in Reloaders, ReloadModels(r) PROVE RouterTypeOK'
  BY <1>7 DEF ReloadModels, Active, TableTyped, ThreadsTyped
<1>8. ASSUME NEW r \in Reloaders, ReloadUnload(r) PROVE RouterTypeOK'
  <2>1. PICK m \in rel[r].todo : Stop(m) /\ rel' = [rel EXCEPT ![r].todo = @ \ {m}]
                                 /\ UNCHANGED <<status, recent, pipe, mgr, stopper, thr>>
    BY <1>8 DEF ReloadUnload
  <2>2. m \in Models
    BY <2>1
  <2> QED
    BY <2>1, <2>2, StopTyped DEF TableTyped, ThreadsTyped
<1>9. ASSUME NEW r \in Reloaders, ReloadEnd(r) PROVE RouterTypeOK'
  BY <1>9 DEF ReloadEnd, NoReload, TableTyped, ThreadsTyped
<1>10. ASSUME NEW m \in Models, Proxy(m) PROVE RouterTypeOK'
  BY <1>10 DEF Proxy, TableTyped, ThreadsTyped
<1>11. ASSUME NEW m \in Models, Unload(m) PROVE RouterTypeOK'
  BY <1>11, StopTyped DEF Unload, TableTyped, ThreadsTyped
<1>12. ASSUME NEW m \in Models, ChildReports(m) PROVE RouterTypeOK'
  BY <1>12 DEF ChildReports, ChildSays, TableTyped, ThreadsTyped
<1>13. ASSUME NEW m \in Models, ChildDies(m) PROVE RouterTypeOK'
  BY <1>13 DEF ChildDies, TableTyped, ThreadsTyped
<1>14. ASSUME NEW m \in Models, ReadState(m) PROVE RouterTypeOK'
  BY <1>14 DEF ReadState, TableTyped, ThreadsTyped
<1>15. ASSUME NEW m \in Models, ChildEnded(m) PROVE RouterTypeOK'
  BY <1>15 DEF ChildEnded, TableTyped, ThreadsTyped
<1>16. ASSUME NEW m \in Models, EraseStop(m) PROVE RouterTypeOK'
  BY <1>16 DEF EraseStop, TableTyped, ThreadsTyped
<1>17. ASSUME NEW m \in Models, SetUnloaded(m) PROVE RouterTypeOK'
  BY <1>17 DEF SetUnloaded, TableTyped, ThreadsTyped
<1>18. ASSUME NEW m \in Models, StopWakes(m) PROVE RouterTypeOK'
  BY <1>18 DEF StopWakes, TableTyped, ThreadsTyped
<1>19. ASSUME NEW m \in Models, StopSeesEnd(m) PROVE RouterTypeOK'
  BY <1>19 DEF StopSeesEnd, TableTyped, ThreadsTyped
<1>20. ASSUME NEW m \in Models, ForceKill(m) PROVE RouterTypeOK'
  BY <1>20 DEF ForceKill, Kills, TableTyped, ThreadsTyped
<1>21. CASE UNCHANGED routerVars
  BY <1>21 DEF routerVars, TableTyped, ThreadsTyped
<1> QED
  BY <1>1, <1>2, <1>3, <1>4, <1>5, <1>6, <1>7, <1>8, <1>9, <1>10, <1>11, <1>12, <1>13,
     <1>14, <1>15, <1>16, <1>17, <1>18, <1>19, <1>20, <1>21, NextIsAnAction DEF RouterActions

\* Every reachable state of the router is well typed: a thread that evicts knows a model,
\* a reload unloads models only.
THEOREM RouterTyped == RouterSpec => []RouterTypeOK
<1> QED
  BY InitTyped, TypeStep, PTL DEF RouterSpec

-----------------------------------------------------------------------------
(* The table and the processes                                             *)

\* The inductive invariant: besides what RunsAsItSays says, a managing thread that has
\* seen the end of its child has read all the child wrote.
Managed ==
  /\ RunsAsItSays
  /\ \A m \in Models : mgr[m] \in {"stopped", "erased"} => child[m] = "dead" /\ pipe[m] = "empty"

\* A model that is asked to stop keeps its process, dead or alive.
LEMMA StopKeepsProcess ==
  ASSUME RouterTypeOK, NEW x \in Models, Stop(x)
  PROVE  \A m \in Models : /\ child'[m] = "none" <=> child[m] = "none"
                           /\ child[m] = "dead" => child'[m] = "dead"
  BY DEF Stop, RouterTypeOK, TableTyped, Alive

LEMMA StopManaged ==
  ASSUME RouterTypeOK, Managed, NEW x \in Models, Stop(x), UNCHANGED <<status, pipe, mgr, stopper>>
  PROVE  Managed'
  BY StopKeepsProcess DEF Managed, RunsAsItSays, Running

LEMMA SpawnManaged ==
  ASSUME RouterTypeOK, Managed, NEW x \in Models, Spawn(x)
  PROVE  Managed'
  BY DEF Managed, RunsAsItSays, Running, Spawn, RouterTypeOK, TableTyped

LEMMA InitManaged == RouterInit => Managed
  BY DEF RouterInit, Managed, RunsAsItSays, Running

LEMMA ManagedStep == RouterTypeOK /\ Managed /\ [RouterNext]_routerVars => Managed'
<1> SUFFICES ASSUME RouterTypeOK, Managed, [RouterNext]_routerVars PROVE Managed'
  OBVIOUS
<1> USE DEF Managed, RunsAsItSays, Running, RouterTypeOK, TableTyped, StaysElse, table, proc
<1>1. ASSUME NEW t \in Threads, NEW m \in Models, Ensure(t, m) PROVE Managed'
  BY <1>1 DEF Ensure
<1>2. ASSUME NEW t \in Threads, UnloadLru(t) PROVE Managed'
  BY <1>2 DEF UnloadLru
<1>3. ASSUME NEW t \in Threads, Evict(t) PROVE Managed'
  <2>1. thr[t].lru \in Models
    BY <1>3 DEF Evict, At, ThreadsTyped
  <2> QED
    BY <1>3, <2>1, StopManaged DEF Evict
<1>4. ASSUME NEW t \in Threads, Evicted(t) PROVE Managed'
  BY <1>4 DEF Evicted
<1>5. ASSUME NEW t \in Threads, Load(t) PROVE Managed'
  <2>1. thr[t].m \in Models
    BY <1>5 DEF Load, At, ThreadsTyped
  <2>2. Spawn(thr[t].m) \/ UNCHANGED <<status, child, pipe, mgr, stopper>>
    BY <1>5 DEF Load
  <2> QED
    BY <2>1, <2>2, SpawnManaged
<1>6. ASSUME NEW t \in Threads, Waited(t) PROVE Managed'
  BY <1>6 DEF Waited
<1>7. ASSUME NEW r \in Reloaders, ReloadModels(r) PROVE Managed'
  BY <1>7 DEF ReloadModels
<1>8. ASSUME NEW r \in Reloaders, ReloadUnload(r) PROVE Managed'
  BY <1>8, StopManaged DEF ReloadUnload
<1>9. ASSUME NEW r \in Reloaders, ReloadEnd(r) PROVE Managed'
  BY <1>9 DEF ReloadEnd
<1>10. ASSUME NEW m \in Models, Proxy(m) PROVE Managed'
  BY <1>10 DEF Proxy
<1>11. ASSUME NEW m \in Models, Unload(m) PROVE Managed'
  BY <1>11, StopManaged DEF Unload
<1>12. ASSUME NEW m \in Models, ChildReports(m) PROVE Managed'
  BY <1>12 DEF ChildReports, ChildSays, Alive
<1>13. ASSUME NEW m \in Models, ChildDies(m) PROVE Managed'
  BY <1>13 DEF ChildDies, Alive
<1>14. ASSUME NEW m \in Models, ReadState(m) PROVE Managed'
  BY <1>14 DEF ReadState
<1>15. ASSUME NEW m \in Models, ChildEnded(m) PROVE Managed'
  BY <1>15 DEF ChildEnded
<1>16. ASSUME NEW m \in Models, EraseStop(m) PROVE Managed'
  BY <1>16 DEF EraseStop
<1>17. ASSUME NEW m \in Models, SetUnloaded(m) PROVE Managed'
  BY <1>17 DEF SetUnloaded, JoinedStopper
<1>18. ASSUME NEW m \in Models, StopWakes(m) PROVE Managed'
  BY <1>18 DEF StopWakes
<1>19. ASSUME NEW m \in Models, StopSeesEnd(m) PROVE Managed'
  BY <1>19 DEF StopSeesEnd
<1>20. ASSUME NEW m \in Models, ForceKill(m) PROVE Managed'
  BY <1>20 DEF ForceKill, Kills, Alive
<1>21. CASE UNCHANGED routerVars
  BY <1>21 DEF routerVars
<1> QED
  BY <1>1, <1>2, <1>3, <1>4, <1>5, <1>6, <1>7, <1>8, <1>9, <1>10, <1>11, <1>12, <1>13,
     <1>14, <1>15, <1>16, <1>17, <1>18, <1>19, <1>20, <1>21, NextIsAnAction DEF RouterActions

LEMMA ManagedAlways == RouterSpec => [](RouterTypeOK /\ Managed)
<1>1. RouterInit => RouterTypeOK /\ Managed
  BY InitTyped, InitManaged
<1>2. RouterTypeOK /\ Managed /\ [RouterNext]_routerVars => (RouterTypeOK /\ Managed)'
  BY TypeStep, ManagedStep
<1> QED
  BY <1>1, <1>2, PTL DEF RouterSpec

\* A model counts as running exactly as long as its process and the threads that manage
\* it are there, for any number of models, requests and reloads (update_status, load).
THEOREM RunningIsTrue == RouterSpec => []RunsAsItSays
<1>1. Managed => RunsAsItSays
  BY DEF Managed
<1> QED
  BY <1>1, ManagedAlways, PTL

-----------------------------------------------------------------------------
(* The limit                                                               *)

Children == {m \in Models : child[m] # "none"}

\* What leaves the table alone, or takes processes away, keeps the limit.
LEMMA FewerChildren ==
  ASSUME AtMostMax, Children' \subseteq Children
  PROVE  AtMostMax'
<1>1. IsFiniteSet(Children)
  BY MaxAssumption, FS_Subset DEF Children
<1>2. /\ IsFiniteSet(Children') /\ Cardinality(Children') <= Cardinality(Children)
      /\ Cardinality(Children') \in Nat /\ Cardinality(Children) \in Nat
  BY <1>1, FS_Subset, FS_CardinalityType
<1>3. Cardinality(Children) <= ModelsMax
  BY DEF AtMostMax, Children
<1>4. Cardinality(Children') <= ModelsMax
  BY <1>2, <1>3, MaxAssumption
<1> QED
  BY <1>4 DEF AtMostMax, Children

\* A load counts the running models under the lock that it starts its child under.
LEMMA SpawnBelowMax ==
  ASSUME RouterTypeOK, Managed, NEW x \in Models, Spawn(x), ~Full
  PROVE  AtMostMax'
<1>1. Active = Children
  BY DEF Managed, RunsAsItSays, Active, Children
<1>2. Children' \subseteq Children \cup {x}
  BY DEF Children, Spawn, RouterTypeOK, TableTyped
<1>3. IsFiniteSet(Children) /\ Cardinality(Children) \in Nat
  BY MaxAssumption, FS_Subset, FS_CardinalityType DEF Children
<1>4. /\ IsFiniteSet(Children \cup {x}) /\ Cardinality(Children \cup {x}) \in Nat
      /\ Cardinality(Children \cup {x}) <= Cardinality(Children) + 1
  <2>1. /\ IsFiniteSet(Children \cup {x})
        /\ \/ Cardinality(Children \cup {x}) = Cardinality(Children)
           \/ Cardinality(Children \cup {x}) = Cardinality(Children) + 1
    BY <1>3, FS_AddElement
  <2> QED
    BY <1>3, <2>1
<1>5. /\ Cardinality(Children') <= Cardinality(Children \cup {x})
      /\ Cardinality(Children') \in Nat
  BY <1>2, <1>4, FS_Subset, FS_CardinalityType
<1>6. Cardinality(Children) < ModelsMax
  BY <1>1, <1>3, MaxAssumption DEF Full
<1>7. Cardinality(Children') <= ModelsMax
  BY <1>3, <1>4, <1>5, <1>6, MaxAssumption
<1> QED
  BY <1>7 DEF AtMostMax, Children

\* Every other step leaves no child where there was none.
LEMMA OnlyLoadsSpawn ==
  ASSUME RouterTypeOK, Managed, [RouterNext]_routerVars,
         \A t \in Threads : ~(Load(t) /\ Spawn(thr[t].m) /\ ~Full)
  PROVE  Children' \subseteq Children
<1> USE DEF Children, RouterTypeOK, TableTyped, StaysElse, table, proc
<1>1. ASSUME NEW t \in Threads, NEW m \in Models, Ensure(t, m) PROVE Children' \subseteq Children
  BY <1>1 DEF Ensure
<1>2. ASSUME NEW t \in Threads, UnloadLru(t) PROVE Children' \subseteq Children
  BY <1>2 DEF UnloadLru
<1>3. ASSUME NEW t \in Threads, Evict(t) PROVE Children' \subseteq Children
  <2>1. thr[t].lru \in Models
    BY <1>3 DEF Evict, At, ThreadsTyped
  <2> QED
    BY <1>3, <2>1, StopKeepsProcess DEF Evict
<1>4. ASSUME NEW t \in Threads, Evicted(t) PROVE Children' \subseteq Children
  BY <1>4 DEF Evicted
<1>5. ASSUME NEW t \in Threads, Load(t) PROVE Children' \subseteq Children
  <2>1. UNCHANGED child
    BY <1>5 DEF Load
  <2> QED
    BY <2>1
<1>6. ASSUME NEW t \in Threads, Waited(t) PROVE Children' \subseteq Children
  BY <1>6 DEF Waited
<1>7. ASSUME NEW r \in Reloaders, ReloadModels(r) PROVE Children' \subseteq Children
  BY <1>7 DEF ReloadModels
<1>8. ASSUME NEW r \in Reloaders, ReloadUnload(r) PROVE Children' \subseteq Children
  BY <1>8, StopKeepsProcess DEF ReloadUnload
<1>9. ASSUME NEW r \in Reloaders, ReloadEnd(r) PROVE Children' \subseteq Children
  BY <1>9 DEF ReloadEnd
<1>10. ASSUME NEW m \in Models, Proxy(m) PROVE Children' \subseteq Children
  BY <1>10 DEF Proxy
<1>11. ASSUME NEW m \in Models, Unload(m) PROVE Children' \subseteq Children
  BY <1>11, StopKeepsProcess DEF Unload
<1>12. ASSUME NEW m \in Models, ChildReports(m) PROVE Children' \subseteq Children
  BY <1>12 DEF ChildReports, ChildSays, Alive
<1>13. ASSUME NEW m \in Models, ChildDies(m) PROVE Children' \subseteq Children
  BY <1>13 DEF ChildDies, Alive
<1>14. ASSUME NEW m \in Models, ReadState(m) PROVE Children' \subseteq Children
  BY <1>14 DEF ReadState
<1>15. ASSUME NEW m \in Models, ChildEnded(m) PROVE Children' \subseteq Children
  BY <1>15 DEF ChildEnded
<1>16. ASSUME NEW m \in Models, EraseStop(m) PROVE Children' \subseteq Children
  BY <1>16 DEF EraseStop
<1>17. ASSUME NEW m \in Models, SetUnloaded(m) PROVE Children' \subseteq Children
  BY <1>17 DEF SetUnloaded, JoinedStopper
<1>18. ASSUME NEW m \in Models, StopWakes(m) PROVE Children' \subseteq Children
  BY <1>18 DEF StopWakes
<1>19. ASSUME NEW m \in Models, StopSeesEnd(m) PROVE Children' \subseteq Children
  BY <1>19 DEF StopSeesEnd
<1>20. ASSUME NEW m \in Models, ForceKill(m) PROVE Children' \subseteq Children
  BY <1>20 DEF ForceKill, Kills, Alive
<1>21. CASE UNCHANGED routerVars
  BY <1>21 DEF routerVars
<1> QED
  BY <1>1, <1>2, <1>3, <1>4, <1>5, <1>6, <1>7, <1>8, <1>9, <1>10, <1>11, <1>12, <1>13,
     <1>14, <1>15, <1>16, <1>17, <1>18, <1>19, <1>20, <1>21, NextIsAnAction DEF RouterActions

LEMMA InitBelowMax == RouterInit => AtMostMax
<1> SUFFICES ASSUME RouterInit PROVE AtMostMax
  OBVIOUS
<1>1. {m \in Models : child[m] # "none"} = {}
  BY DEF RouterInit
<1> QED
  BY <1>1, FS_EmptySet, MaxAssumption DEF AtMostMax

LEMMA BelowMaxStep == RouterTypeOK /\ Managed /\ AtMostMax /\ [RouterNext]_routerVars => AtMostMax'
<1> SUFFICES ASSUME RouterTypeOK, Managed, AtMostMax, [RouterNext]_routerVars PROVE AtMostMax'
  OBVIOUS
<1>1. CASE \E t \in Threads : Load(t) /\ Spawn(thr[t].m) /\ ~Full
  <2>1. PICK t \in Threads : Load(t) /\ Spawn(thr[t].m) /\ ~Full
    BY <1>1
  <2>2. thr[t].m \in Models
    BY <2>1 DEF Load, At, RouterTypeOK, ThreadsTyped
  <2> QED
    BY <2>1, <2>2, SpawnBelowMax
<1>2. CASE \A t \in Threads : ~(Load(t) /\ Spawn(thr[t].m) /\ ~Full)
  BY <1>2, OnlyLoadsSpawn, FewerChildren
<1> QED
  BY <1>1, <1>2

\* There are never more child processes than models_max, for any number of models and
\* of requests that evict at once (load, unload_lru).
THEOREM LimitKept == RouterSpec => []AtMostMax
<1>1. RouterInit => AtMostMax
  BY InitBelowMax
<1>2. RouterTypeOK /\ Managed /\ AtMostMax /\ [RouterNext]_routerVars => AtMostMax'
  BY BelowMaxStep
<1> QED
  BY <1>1, <1>2, ManagedAlways, PTL DEF RouterSpec
=============================================================================
