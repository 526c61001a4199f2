---------------------------- MODULE StreamProofs ----------------------------
(***************************************************************************)
(* Five invariants of StreamSessions, for any requests, readers, deletes,  *)
(* conversations and sizes, whichever requests fail or are answered        *)
(* plainly: no reader hangs on a session that left the map; a replay is    *)
(* exact, and one that ended has all; two requests of a conversation are   *)
(* both live, and the tail of an answer is lost, only after a request      *)
(* that was answered plainly evicted a session that was not its own.       *)
(*                                                                         *)
(* The first part is about who holds which session, where sizes play no    *)
(* part; the last one about the bytes of a session.                        *)
(***************************************************************************)
EXTENDS StreamSessions, SequenceTheorems, TLAPS

Places == {"new", "cancel", "finalize", "evict finalize", "ready", "await", "evict", "next", "pull",
           "close", "done", "not found", "check", "refused", "read", "lost", "ended", "gone"}
Holders == Requests \cup Deletes

StreamTypes ==
  /\ sessions \in [Convs -> Requests \cup {None}]
  /\ pc \in [Actors -> Places]
  /\ victim \in [Actors -> Requests \cup {None}]
  /\ done \subseteq Requests /\ cancelled \subseteq Requests /\ stopping \subseteq Requests
  /\ stopped \in BOOLEAN /\ (stopped \/ stopping = {})

\* A session is under its own conversation, and a thread holds one while it has
\* something left to do with it.
Filed == \A c \in Convs : sessions[c] # None => Conv[sessions[c]] = c
Holding == \A a \in Holders :
             victim[a] # None <=> pc[a] \in {"cancel", "finalize", "evict finalize"}

-----------------------------------------------------------------------------
\* The steps that leave the map, the victims and the ends alone, but for who is where.
Moves(a) ==
  /\ UNCHANGED <<sessions, victim, done, cancelled, stopping, stopped>>
  /\ \E there \in Places \ {"new", "cancel", "finalize", "evict finalize"} :
       pc' = [pc EXCEPT ![a] = there]

LEMMA RequestMoves ==
  ASSUME NEW r \in Requests, StreamTypes,
         \/ Handle(r) \/ AnswerPlainly(r) \/ StartStream(r) \/ Poll(r) \/ Tee(r)
         \/ LastChunk(r) \/ PullStops(r)
  PROVE  pc[r] \in {"ready", "await", "next", "pull"} /\ Moves(r)
<1>1. CASE AnswerPlainly(r) \/ StartStream(r) \/ PullStops(r)
  BY <1>1 DEF AnswerPlainly, StartStream, PullStops, Goto, Moves, sessionVars, Places
<1>2. CASE Handle(r) \/ Poll(r)
  <2>1. \E there \in {"await", "evict", "close", "pull"} : pc' = [pc EXCEPT ![r] = there]
    BY <1>2 DEF Handle, Poll, Goto
  <2> QED BY <1>2, <2>1 DEF Handle, Poll, Moves, sessionVars, Places
<1>3. CASE Tee(r) \/ LastChunk(r)
  <2>1. PICK n \in Nat : Produce(r, n)
    BY <1>3, StreamAssumption DEF Tee, LastChunk
  <2>2. UNCHANGED <<done, cancelled>>
    BY <2>1 DEF Produce, AppendTo, sessionVars
  <2> QED BY <1>3, <2>1, <2>2 DEF Tee, LastChunk, Produce, Goto, Moves, Places
<1> QED BY <1>1, <1>2, <1>3

LEMMA ReaderMoves ==
  ASSUME NEW g \in Readers, StreamTypes, Reader(g) \/ ReaderGone(g)
  PROVE  /\ UNCHANGED <<sessions, done, cancelled, stopping, stopped>>
         /\ \A a \in Holders : pc'[a] = pc[a] /\ victim'[a] = victim[a]
         /\ pc' \in [Actors -> Places] /\ victim' \in [Actors -> Requests \cup {None}]
<1> USE StreamAssumption DEF StreamTypes, Holders, Actors, Goto, Places, sessionVars
<1>1. g \notin Holders
  OBVIOUS
<1>2. CASE Lookup(g)
  BY <1>1, <1>2 DEF Lookup
<1>3. CASE CheckOffset(g) \/ OffsetLost(g) \/ ReadEnd(g) \/ ReaderGone(g)
  <2>1. /\ UNCHANGED <<sessions, done, cancelled, stopping, stopped, victim>>
        /\ \E there \in {"refused", "read", "lost", "ended", "gone"} : pc' = [pc EXCEPT ![g] = there]
    BY <1>3 DEF CheckOffset, OffsetLost, ReadEnd, ReaderGone
  <2>2. PICK there \in Places : pc' = [pc EXCEPT ![g] = there]
    BY <2>1
  <2>3. pc' \in [Actors -> Places] /\ \A a \in Holders : pc'[a] = pc[a]
    BY <1>1, <2>2
  <2> QED BY <2>1, <2>3
<1>4. CASE ReadChunk(g)
  <2>1. UNCHANGED <<sessions, sessionVars, threadVars, stopping, stopped>>
    BY <1>4 DEF ReadChunk
  <2> QED BY <2>1 DEF threadVars
<1> QED BY <1>2, <1>3, <1>4 DEF Reader

-----------------------------------------------------------------------------
(* No reader hangs.                                                        *)

Watched(r) == r \in done \cup stopping \/ \E a \in Holders : victim[a] = r
Watch == \A r \in Requests : pc[r] # "new" /\ sessions[Conv[r]] # r => Watched(r)

LEMMA HangParts == NoReaderHangs <=> Watch
  BY DEF NoReaderHangs, Orphans, Watch, Watched, Holders

IHang == StreamTypes /\ Filed /\ Holding /\ Watch

LEMMA Everyone == /\ Requests \subseteq Holders /\ Deletes \subseteq Holders /\ Holders \subseteq Actors
                  /\ Requests \cap Deletes = {} /\ None \notin Requests
                  /\ \A a \in Actors : Conv[a] \in Convs
  BY StreamAssumption DEF Holders, Actors

LEMMA HangInit == Init => IHang
  BY Everyone DEF Init, IHang, StreamTypes, Filed, Holding, Watch, Places

LEMMA MovesKeepHang ==
  ASSUME NEW r \in Requests, IHang, Moves(r),
         pc[r] \notin {"new", "cancel", "finalize", "evict finalize"}
  PROVE  IHang'
<1> USE Everyone DEF IHang, Moves
<1>1. StreamTypes' /\ Filed'
  <2>1. PICK there \in Places : pc' = [pc EXCEPT ![r] = there]
    OBVIOUS
  <2> QED BY <2>1 DEF StreamTypes, Filed
<1>2. Holding'
  BY DEF StreamTypes, Holding
<1>3. Watch'
  BY DEF StreamTypes, Watch, Watched
<1> QED BY <1>1, <1>2, <1>3

LEMMA HangStep == IHang /\ [Next]_vars => IHang'
<1> SUFFICES ASSUME IHang, [Next]_vars PROVE IHang'
  OBVIOUS
<1> USE Everyone DEF IHang, Goto, sessionVars, threadVars
<1>1. CASE UNCHANGED vars
  BY <1>1 DEF vars, StreamTypes, Filed, Holding, Watch, Watched
<1>2. ASSUME NEW r \in Requests,
             \/ Handle(r) \/ AnswerPlainly(r) \/ StartStream(r) \/ Poll(r) \/ Tee(r)
             \/ LastChunk(r) \/ PullStops(r)
      PROVE  IHang'
  BY ONLY <1>2, IHang, RequestMoves, MovesKeepHang DEF IHang
<1>3. ASSUME NEW r \in Requests, Install(r) PROVE IHang'
  <2> USE <1>3 DEF Install
  <2>1. StreamTypes' /\ Filed'
    BY DEF StreamTypes, Filed, Places
  <2>2. Holding'
    BY DEF StreamTypes, Holding
  <2>3. ASSUME NEW q \in Requests, pc'[q] # "new", sessions'[Conv[q]] # q PROVE Watched(q)'
    <3>1. CASE sessions[Conv[q]] = q
      BY <2>3, <3>1 DEF StreamTypes, Watched
    <3>2. CASE sessions[Conv[q]] # q
      <4>1. Watched(q) /\ victim[r] = None
        BY <2>3, <3>2 DEF StreamTypes, Watch, Holding
      <4> QED BY <4>1 DEF StreamTypes, Watched
    <3> QED BY <3>1, <3>2
  <2> QED BY <2>1, <2>2, <2>3 DEF Watch
<1>4. ASSUME NEW a \in Holders, CancelVictim(a) PROVE IHang'
  <2> USE <1>4 DEF CancelVictim, Cancel
  <2>1. StreamTypes' /\ Filed'
    BY DEF StreamTypes, Filed, Places, Holding
  <2>2. Holding' /\ Watch'
    BY DEF StreamTypes, Holding, Watch, Watched
  <2> QED BY <2>1, <2>2
<1>5. ASSUME NEW a \in Holders, FinalizeVictim(a) PROVE IHang'
  <2> USE <1>5 DEF FinalizeVictim, Finalize, Afterwards
  <2>1. StreamTypes' /\ Filed'
    BY DEF StreamTypes, Filed, Places, Holding
  <2>2. Holding'
    BY DEF StreamTypes, Holding
  <2>3. ASSUME NEW q \in Requests, pc'[q] # "new", sessions'[Conv[q]] # q PROVE Watched(q)'
    <3>1. Watched(q)
      BY <2>3 DEF StreamTypes, Watch
    <3> QED BY <3>1 DEF StreamTypes, Watched
  <2> QED BY <2>1, <2>2, <2>3 DEF Watch
<1>6. ASSUME NEW r \in Requests, Evict(r) PROVE IHang'
  <2> USE <1>6 DEF Evict
  <2>1. StreamTypes' /\ Filed'
    BY DEF StreamTypes, Filed, Places
  <2>2. Holding'
    BY DEF StreamTypes, Holding
  <2>3. ASSUME NEW q \in Requests, pc'[q] # "new", sessions'[Conv[q]] # q PROVE Watched(q)'
    <3>1. CASE sessions[Conv[q]] = q
      BY <2>3, <3>1 DEF StreamTypes, Watched
    <3>2. CASE sessions[Conv[q]] # q
      <4>1. Watched(q) /\ victim[r] = None
        BY <2>3, <3>2 DEF StreamTypes, Watch, Holding
      <4> QED BY <4>1 DEF StreamTypes, Watched
    <3> QED BY <3>1, <3>2
  <2> QED BY <2>1, <2>2, <2>3 DEF Watch
<1>7. ASSUME NEW r \in Requests, Close(r) PROVE IHang'
  <2> USE <1>7 DEF Close, Finalize
  <2>1. StreamTypes' /\ Filed'
    BY DEF StreamTypes, Filed, Places
  <2>2. Holding' /\ Watch'
    BY DEF StreamTypes, Holding, Watch, Watched
  <2> QED BY <2>1, <2>2
<1>8. ASSUME NEW r \in Requests, ClientDrops(r) PROVE IHang'
  BY <1>8 DEF ClientDrops, StreamTypes, Filed, Holding, Watch, Watched
<1>9. ASSUME NEW g \in Readers, Reader(g) \/ ReaderGone(g) PROVE IHang'
  <2>1. /\ UNCHANGED <<sessions, done, cancelled, stopping, stopped>>
        /\ \A a \in Holders : pc'[a] = pc[a] /\ victim'[a] = victim[a]
        /\ StreamTypes'
    BY <1>9, ReaderMoves DEF StreamTypes
  <2>2. Filed' /\ Holding'
    BY <2>1 DEF Filed, Holding
  <2>3. Watch'
    BY <2>1 DEF Watch, Watched
  <2> QED BY <2>1, <2>2, <2>3
<1>10. ASSUME NEW d \in Deletes, Delete(d) PROVE IHang'
  <2> USE <1>10 DEF Delete
  <2>1. StreamTypes' /\ Filed'
    BY DEF StreamTypes, Filed, Places
  <2>2. Holding'
    BY DEF StreamTypes, Holding
  <2>3. ASSUME NEW q \in Requests, pc'[q] # "new", sessions'[Conv[q]] # q PROVE Watched(q)'
    <3>1. CASE sessions[Conv[q]] = q
      BY <2>3, <3>1 DEF StreamTypes, Watched
    <3>2. CASE sessions[Conv[q]] # q
      <4>1. Watched(q) /\ victim[d] = None
        BY <2>3, <3>2 DEF StreamTypes, Watch, Holding
      <4> QED BY <4>1 DEF StreamTypes, Watched
    <3> QED BY <3>1, <3>2
  <2> QED BY <2>1, <2>2, <2>3 DEF Watch
<1>11. CASE CollectGarbage
  <2>1. PICK D \in SUBSET Expired : sessions' = [c \in Convs |-> IF c \in D THEN None ELSE sessions[c]]
    BY <1>11 DEF CollectGarbage
  <2>2. UNCHANGED <<pc, victim, done, cancelled, stopping, stopped>>
    BY <1>11 DEF CollectGarbage
  <2>3. StreamTypes' /\ Filed' /\ Holding'
    BY <2>1, <2>2 DEF StreamTypes, Filed, Holding
  <2>4. ASSUME NEW r \in Requests, pc'[r] # "new", sessions'[Conv[r]] # r PROVE Watched(r)'
    BY <2>1, <2>2, <2>4 DEF Watch, Watched, Expired, StreamTypes
  <2> QED BY <2>3, <2>4 DEF Watch
<1>12. CASE StopGC
  <2> USE <1>12 DEF StopGC
  <2>1. StreamTypes' /\ Filed' /\ Holding'
    BY DEF StreamTypes, Filed, Holding
  <2>2. ASSUME NEW q \in Requests, pc'[q] # "new" PROVE Watched(q)'
    <3>1. sessions[Conv[q]] = q => q \in stopping'
      BY DEF StreamTypes
    <3>2. sessions[Conv[q]] # q => Watched(q)
      BY <2>2 DEF Watch
    <3> QED BY <3>1, <3>2 DEF Watched, StreamTypes
  <2> QED BY <2>1, <2>2 DEF Watch
<1>13. CASE FinalizeAll
  <2>1. PICK r \in stopping : /\ done' = done \cup {r} /\ stopping' = stopping \ {r}
                              /\ UNCHANGED <<sessions, pc, victim, cancelled, stopped>>
    BY <1>13 DEF FinalizeAll, Finalize
  <2> QED BY <2>1 DEF StreamTypes, Filed, Holding, Watch, Watched
<1> QED
  BY ONLY <1>1, <1>2, <1>3, <1>4, <1>5, <1>6, <1>7, <1>8, <1>9, <1>10, <1>11, <1>12, <1>13,
     [Next]_vars DEF Next, Request, Proceed, Deleter, Holders

\* A session that left the map is finalized or is about to be, so that nobody waits
\* for more of it (create_or_replace, evict, evict_and_cancel, gc_loop, stop_gc).
THEOREM NoHang == Spec => []NoReaderHangs
<1>1. IHang => NoReaderHangs
  BY HangParts DEF IHang
<1> QED BY HangInit, HangStep, <1>1, PTL DEF Spec

-----------------------------------------------------------------------------
(* Who is live in a conversation.                                          *)

\* what is in the map, held or finalized was installed
Known ==
  /\ \A c \in Convs : sessions[c] # None => pc[sessions[c]] # "new"
  /\ \A a \in Holders : victim[a] # None => pc[victim[a]] # "new"
  /\ \A r \in done \cup stopping : pc[r] # "new"

\* A request has no stream until it starts one, a DELETE only cancels, and both take
\* sessions of their own conversation.
Early == {"new", "cancel", "finalize", "ready", "await", "evict", "evict finalize"}
Apart ==
  /\ nextOrig \subseteq Requests /\ \A r \in Requests : pc[r] \in Early => r \notin nextOrig
  /\ \A d \in Deletes : pc[d] \in {"new", "cancel", "finalize", "done"}
  /\ \A a \in Holders : victim[a] # None => Conv[victim[a]] = Conv[a]

Ordered == \A a \in Holders : pc[a] = "finalize" => victim[a] \in cancelled

Live(r) ==
  /\ pc[r] \in {"cancel", "finalize", "ready", "await", "next", "pull"}
  /\ r \notin cancelled
  /\ \A a \in Holders : victim[a] = r => pc[a] # "cancel"
InPlace(r) == sessions[Conv[r]] = r /\ r \notin done
Current == stopped \/ \A r \in Requests : Live(r) => InPlace(r) \/ Evicted(r)

ILive == IHang /\ Known /\ Apart /\ Ordered /\ Current

LEMMA LiveParts == Current => OneLive
<1> SUFFICES ASSUME Current, ~stopped, NEW q \in Answering, NEW r \in Answering, q # r, Conv[q] = Conv[r]
             PROVE  Evicted(q) \/ Evicted(r)
  BY DEF OneLive
<1>1. Live(q) /\ Live(r) /\ q \in Requests /\ r \in Requests
  BY DEF Answering, Doomed, Live, Holders
<1>2. InPlace(q) /\ InPlace(r) => q = r
  BY DEF InPlace
<1> QED BY <1>1, <1>2 DEF Current

LEMMA LiveInit == Init => ILive
  BY HangInit, Everyone DEF Init, ILive, Known, Apart, Ordered, Current, Live, Early

\* A request that evicts stays one that evicted.
LEMMA EvictorsStay ==
  ASSUME NEW c, nextOrig' = nextOrig, \A r \in Requests : pc[r] \in {"evict finalize", "close", "done"}
                              => pc'[r] \in {"evict finalize", "close", "done"}
  PROVE  Evictors(c) \subseteq Evictors(c)'
  BY DEF Evictors

\* A step of a thread at a place from which it does not evict, which leaves the map and
\* the other victims alone and finalizes no live session: who is live was, and stays in
\* its place or evicted.
LEMMA OthersStayCurrent ==
  ASSUME StreamTypes, Current, sessions' = sessions, stopped' = stopped,
         \A r \in Requests : Live(r)' => Live(r) /\ (r \in done' => r \in done),
         \A c \in Convs : Evictors(c) \subseteq Evictors(c)',
         \A c \in Convs : \A p \in Evictors(c) : victim'[p] = victim[p],
         done \subseteq done', \A r \in Requests : Conv[r] \in Convs
  PROVE  Current'
<1> SUFFICES ASSUME ~stopped, NEW r \in Requests, Live(r)' PROVE InPlace(r)' \/ Evicted(r)'
  BY DEF Current
<1>1. InPlace(r) \/ Evicted(r)
  BY DEF Current
<1>2. InPlace(r) => InPlace(r)'
  BY DEF InPlace
<1>3. Evicted(r) => Evicted(r)'
  BY DEF Evicted
<1> QED BY <1>1, <1>2, <1>3

LEMMA LiveStep == ILive /\ [Next]_vars => ILive'
<1> SUFFICES ASSUME ILive, [Next]_vars PROVE ILive'
  OBVIOUS
<1>0. IHang' /\ StreamTypes /\ Filed /\ Holding /\ StreamTypes'
  BY HangStep DEF ILive, IHang
<1> USE Everyone, <1>0 DEF ILive, Goto, sessionVars, threadVars, answerVars
<1>1. CASE UNCHANGED vars
  <2>1. UNCHANGED <<sessions, done, cancelled, pc, victim, nextOrig, stopping, stopped>>
    BY <1>1 DEF vars
  <2>2. Known' /\ Apart' /\ Ordered'
    BY <2>1 DEF Known, Apart, Ordered
  <2>3. \A c : Evictors(c)' = Evictors(c)
    BY ONLY <2>1 DEF Evictors
  <2>4. Current'
    BY ONLY <2>1, <2>3, ILive DEF ILive, Current, Live, InPlace, Evicted
  <2> QED BY <2>2, <2>4
<1>2. ASSUME NEW r \in Requests,
             \/ Handle(r) \/ AnswerPlainly(r) \/ StartStream(r) \/ Poll(r) \/ Tee(r)
             \/ LastChunk(r) \/ PullStops(r)
      PROVE  ILive'
  <2>1. pc[r] \in {"ready", "await", "next", "pull"} /\ Moves(r)
    BY <1>2, RequestMoves
  <2>2. /\ nextOrig' = nextOrig \/ (nextOrig' = nextOrig \cup {r} /\ pc[r] = "await" /\ pc'[r] = "next")
        /\ pc[r] \in {"next", "pull"} => pc'[r] \notin Early
    BY <1>2 DEF Handle, AnswerPlainly, StartStream, Poll, Tee, LastChunk, Produce, PullStops,
                StreamTypes, Actors, Early
  <2> USE <2>1 DEF Moves
  <2>0. \A a \in Actors : pc'[a] = pc[a] \/ (a = r /\ pc'[a] \notin {"new", "finalize"})
    BY DEF StreamTypes
  <2>3. Known' /\ Ordered'
    BY <2>0 DEF Known, Ordered, StreamTypes
  <2>4. Apart'
    BY <2>2 DEF Apart, StreamTypes, Early
  <2>5. ASSUME NEW q \in Requests, Live(q)' PROVE Live(q)
    BY <2>5 DEF Live, StreamTypes
  <2>6. ASSUME NEW c \in Convs PROVE Evictors(c) \subseteq Evictors(c)'
    BY <2>2 DEF Evictors, StreamTypes
  <2>7. Current'
    BY <2>5, <2>6, OthersStayCurrent
  <2> QED BY <2>3, <2>4, <2>7
<1>3. ASSUME NEW r \in Requests, Install(r) PROVE ILive'
  <2> USE <1>3 DEF Install
  <2>1. Known' /\ Ordered'
    BY DEF Known, Ordered, StreamTypes
  <2>2. Apart'
    <3>1. \A a \in Holders : victim'[a] = victim[a] \/ (a = r /\ victim'[a] = sessions[Conv[r]])
      BY DEF StreamTypes
    <3>2. \A q \in Requests : pc'[q] = pc[q] \/ (q = r /\ pc[q] = "new")
      BY DEF StreamTypes
    <3>3. \A d \in Deletes : pc'[d] = pc[d]
      BY DEF StreamTypes
    <3>4. nextOrig' = nextOrig
      OBVIOUS
    <3> QED BY ONLY <3>1, <3>2, <3>3, <3>4, ILive, Filed, Everyone, StreamTypes DEF ILive, Apart, Filed, Early, StreamTypes
  <2>3. ASSUME ~stopped, NEW q \in Requests, Live(q)' PROVE (InPlace(q) \/ Evicted(q))'
    <3>1. CASE q = r
      BY <3>1 DEF StreamTypes, Known, InPlace
    <3>2. CASE q # r
      <4>1. Live(q) /\ victim'[r] # q
        BY <2>3, <3>2 DEF Live, StreamTypes, Holding
      <4>2. InPlace(q) => InPlace(q)'
        BY <4>1 DEF InPlace, StreamTypes
      <4>3. Evicted(q) => Evicted(q)'
        BY DEF Evicted, Evictors, StreamTypes
      <4> QED BY <2>3, <4>1, <4>2, <4>3 DEF Current
    <3> QED BY <3>1, <3>2
  <2> QED BY <2>1, <2>2, <2>3 DEF Current
<1>4. ASSUME NEW a \in Holders, CancelVictim(a) PROVE ILive'
  <2> USE <1>4 DEF CancelVictim, Cancel
  <2>1. Known' /\ Ordered'
    BY DEF Known, Ordered, StreamTypes
  <2>2. Apart'
    BY DEF Apart, StreamTypes, Early
  <2>3. ASSUME NEW q \in Requests, Live(q)' PROVE Live(q)
    BY <2>3 DEF Live, StreamTypes
  <2>4. ASSUME NEW c \in Convs PROVE Evictors(c) \subseteq Evictors(c)'
    BY DEF Evictors, StreamTypes
  <2>5. Current'
    BY <2>3, <2>4, OthersStayCurrent
  <2> QED BY <2>1, <2>2, <2>5
<1>5. ASSUME NEW a \in Holders, FinalizeVictim(a) PROVE ILive'
  <2> USE <1>5 DEF FinalizeVictim, Finalize, Afterwards
  <2>0. victim[a] \in Requests
    BY DEF Holding, StreamTypes
  <2>a. /\ \A b \in Holders : victim'[b] = victim[b] \/ (b = a /\ victim'[b] = None)
        /\ \A b \in Actors \ {a} : pc'[b] = pc[b]
        /\ pc'[a] \in {"done", "ready", "close"}
        /\ a \in Deletes => pc'[a] = "done"
        /\ UNCHANGED <<sessions, cancelled, nextOrig, stopping, stopped>> /\ done' = done \cup {victim[a]}
    BY DEF StreamTypes
  <2>1. Known' /\ Ordered'
    <3>1. \A q \in Requests : pc'[q] = "new" => pc[q] = "new"
      BY <2>a
    <3>2. pc[victim[a]] # "new"
      BY <2>0 DEF Known
    <3>3. Known'
      BY ONLY <2>0, <2>a, <3>1, <3>2, ILive, Everyone, StreamTypes DEF ILive, Known, StreamTypes
    <3>4. Ordered'
      BY ONLY <2>a, ILive, Everyone DEF ILive, Ordered
    <3> QED BY <3>3, <3>4
  <2>2. Apart'
    <3>1. a \in Requests => a \notin nextOrig
      BY DEF Apart, Early
    <3> QED BY <2>a, <3>1 DEF Apart, Early
  <2>3. \A q \in Requests : Live(q)' => Live(q)
    BY DEF Live, StreamTypes
  <2>4. \A c \in Convs : Evictors(c) \subseteq Evictors(c)'
    BY DEF Evictors, StreamTypes
  <2>5. CASE pc[a] = "finalize"
    <3>1. victim[a] \in cancelled
      BY <2>5 DEF Ordered
    <3>2. \A c \in Convs : \A p \in Evictors(c) : victim'[p] = victim[p]
      BY <2>5 DEF Evictors, StreamTypes
    <3>3. \A q \in Requests : Live(q)' => (q \in done' => q \in done)
      BY <3>1 DEF Live
    <3>4. Current'
      BY <2>3, <2>4, <3>2, <3>3, OthersStayCurrent
    <3> QED BY <2>1, <2>2, <3>4
  <2>6. CASE pc[a] = "evict finalize"
    <3>1. a \in Requests /\ a \in Evictors(Conv[a])' /\ Conv[victim[a]] = Conv[a]
      BY <2>0, <2>6 DEF Apart, Early, Evictors, Holders, StreamTypes
    <3>2. ASSUME ~stopped, NEW q \in Requests, Live(q)' PROVE (InPlace(q) \/ Evicted(q))'
      <4>1. CASE q = victim[a]
        BY <3>1, <4>1 DEF Evicted
      <4>2. CASE q # victim[a]
        <5>1. InPlace(q) => InPlace(q)'
          BY <4>2 DEF InPlace
        <5>2. Evicted(q) => Evicted(q)'
          BY <2>4, <4>2 DEF Evicted, StreamTypes, Evictors
        <5> QED BY <2>3, <3>2, <5>1, <5>2 DEF Current
      <4> QED BY <4>1, <4>2
    <3> QED BY <2>1, <2>2, <3>2 DEF Current
  <2> QED BY <2>5, <2>6
<1>6. ASSUME NEW r \in Requests, Evict(r) PROVE ILive'
  <2> USE <1>6 DEF Evict
  <2>0. r \notin nextOrig
    BY DEF Apart, Early
  <2>1. Known' /\ Ordered'
    <3>1. (\A a \in Actors \ {r} : pc'[a] = pc[a]) /\ pc'[r] \in {"close", "evict finalize"}
      BY ONLY Evict(r), StreamTypes, Everyone DEF Evict, StreamTypes, Goto
    <3>2. \A a \in Holders : victim'[a] = victim[a] \/ (a = r /\ victim'[a] = sessions[Conv[r]])
      BY DEF StreamTypes
    <3>3. /\ \A c \in Convs : sessions'[c] = sessions[c] \/ sessions'[c] = None
          /\ UNCHANGED <<done, stopping, cancelled>>
      BY ONLY Evict(r), StreamTypes DEF Evict, StreamTypes, sessionVars
    <3>4. Known'
      <4>1. \A a \in Requests : pc'[a] = "new" => pc[a] = "new"
        BY ONLY <3>1, Everyone
      <4> QED BY ONLY <3>2, <3>3, <4>1, ILive, Everyone, StreamTypes DEF ILive, Known, StreamTypes
    <3>5. Ordered'
      BY ONLY <3>1, <3>2, <3>3, ILive, Everyone DEF ILive, Ordered
    <3> QED BY <3>4, <3>5
  <2>2. Apart'
    BY <2>0 DEF Apart, Filed, StreamTypes, Early
  <2>3. ASSUME ~stopped, NEW q \in Requests, Live(q)' PROVE (InPlace(q) \/ Evicted(q))'
    <3>0. Live(q)
      BY <2>3 DEF Live, StreamTypes, Holding
    <3>1. CASE InPlace(q) /\ Conv[q] = Conv[r]
      <4>1. r \in Evictors(Conv[q])' /\ victim'[r] = q
        BY <2>0, <3>1 DEF Evictors, InPlace, StreamTypes
      <4> QED BY <4>1 DEF Evicted
    <3>2. CASE InPlace(q) /\ Conv[q] # Conv[r]
      BY <3>2 DEF InPlace, StreamTypes
    <3>3. CASE Evicted(q)
      <4>1. Evictors(Conv[q]) \subseteq Evictors(Conv[q])' /\ r \notin Evictors(Conv[q])
        BY DEF Evictors, StreamTypes
      <4> QED BY <3>3, <4>1 DEF Evicted, StreamTypes, Evictors
    <3> QED BY <2>3, <3>0, <3>1, <3>2, <3>3 DEF Current
  <2> QED BY <2>1, <2>2, <2>3 DEF Current
<1>7. ASSUME NEW r \in Requests, Close(r) PROVE ILive'
  <2> USE <1>7 DEF Close, Finalize
  <2>1. Known' /\ Ordered'
    BY DEF Known, Ordered, StreamTypes
  <2>2. Apart'
    BY DEF Apart, StreamTypes, Early
  <2>3. ASSUME NEW q \in Requests, Live(q)' PROVE Live(q) /\ q # r
    BY <2>3 DEF Live, StreamTypes
  <2>4. ASSUME NEW c \in Convs PROVE Evictors(c) \subseteq Evictors(c)'
    BY DEF Evictors, StreamTypes
  <2>5. Current'
    BY <2>3, <2>4, OthersStayCurrent
  <2> QED BY <2>1, <2>2, <2>5
<1>8. ASSUME NEW r \in Requests, ClientDrops(r) PROVE ILive'
  <2>1. UNCHANGED <<sessions, done, cancelled, pc, victim, nextOrig, stopping, stopped>>
    BY <1>8 DEF ClientDrops
  <2>2. Known' /\ Apart' /\ Ordered'
    BY <2>1 DEF Known, Apart, Ordered
  <2>3. \A c : Evictors(c)' = Evictors(c)
    BY ONLY <2>1 DEF Evictors
  <2>4. Current'
    BY ONLY <2>1, <2>3, ILive DEF ILive, Current, Live, InPlace, Evicted
  <2> QED BY <2>2, <2>4
<1>9. ASSUME NEW g \in Readers, Reader(g) \/ ReaderGone(g) PROVE ILive'
  <2>1. /\ UNCHANGED <<sessions, done, cancelled, stopping, stopped>>
        /\ \A a \in Holders : pc'[a] = pc[a] /\ victim'[a] = victim[a]
    BY <1>9, ReaderMoves
  <2>2. nextOrig' = nextOrig
    BY <1>9 DEF Reader, ReaderGone, Lookup, CheckOffset, ReadChunk, OffsetLost, ReadEnd
  <2>3. Known' /\ Apart' /\ Ordered'
    BY <2>1, <2>2 DEF Known, Apart, Ordered, StreamTypes
  <2>4. ASSUME NEW q \in Requests, Live(q)' PROVE Live(q)
    BY <2>1, <2>4 DEF Live
  <2>5. ASSUME NEW c \in Convs
        PROVE  Evictors(c) \subseteq Evictors(c)' /\ \A p \in Evictors(c) : victim'[p] = victim[p]
    BY <2>1, <2>2 DEF Evictors
  <2>6. Current'
    BY <2>1, <2>4, <2>5, OthersStayCurrent
  <2> QED BY <2>3, <2>6
<1>10. ASSUME NEW d \in Deletes, Delete(d) PROVE ILive'
  <2> USE <1>10 DEF Delete
  <2>0. PICK there \in {"done", "cancel"} : /\ pc' = [pc EXCEPT ![d] = there]
                                           /\ victim'[d] # None => there = "cancel"
    BY DEF StreamTypes
  <2>1. \A r \in Requests : pc'[r] = pc[r] /\ victim'[r] = victim[r]
    BY <2>0 DEF StreamTypes
  <2>2. Known'
    BY <2>1 DEF Known, StreamTypes
  <2>3. Apart' /\ Ordered'
    BY <2>0 DEF Apart, Filed, Ordered, StreamTypes
  <2>4. ASSUME ~stopped, NEW q \in Requests, Live(q)' PROVE (InPlace(q) \/ Evicted(q))'
    <3>1. victim'[d] # q
      BY <2>0, <2>4 DEF Live, StreamTypes
    <3>2. \A a \in Holders : victim[a] = q => pc[a] # "cancel"
      BY <2>0, <2>4 DEF Live, StreamTypes, Holding
    <3>3. Live(q)
      BY <2>1, <2>4, <3>2 DEF Live
    <3>4. InPlace(q) => InPlace(q)'
      BY <3>1 DEF InPlace, StreamTypes
    <3>5. Evicted(q) => Evicted(q)'
      BY <2>1 DEF Evicted, Evictors
    <3> QED BY <2>4, <3>3, <3>4, <3>5 DEF Current
  <2> QED BY <2>2, <2>3, <2>4 DEF Current
<1>11. CASE CollectGarbage
  <2>1. PICK D \in SUBSET Expired : sessions' = [c \in Convs |-> IF c \in D THEN None ELSE sessions[c]]
    BY <1>11 DEF CollectGarbage
  <2>2. UNCHANGED <<pc, victim, nextOrig, done, cancelled, stopping, stopped>>
    BY <1>11 DEF CollectGarbage
  <2>3. Known' /\ Apart' /\ Ordered'
    BY <2>1, <2>2 DEF Known, Apart, Ordered, StreamTypes
  <2>4. ASSUME ~stopped, NEW q \in Requests, Live(q)' PROVE (InPlace(q) \/ Evicted(q))'
    <3>1. Live(q)
      BY <2>2, <2>4 DEF Live
    <3>2. InPlace(q) => InPlace(q)'
      BY <2>1, <2>2 DEF InPlace, Expired
    <3>3. Evicted(q) => Evicted(q)'
      BY <2>2 DEF Evicted, Evictors
    <3> QED BY <2>4, <3>1, <3>2, <3>3 DEF Current
  <2> QED BY <2>2, <2>3, <2>4 DEF Current
<1>12. CASE StopGC
  <2>1. Known' /\ Apart' /\ Ordered'
    BY <1>12 DEF StopGC, Known, Apart, Ordered, StreamTypes
  <2> QED BY <1>12, <2>1 DEF StopGC, Current
<1>13. CASE FinalizeAll
  <2>1. PICK r \in stopping : /\ done' = done \cup {r} /\ stopping' = stopping \ {r}
                              /\ UNCHANGED <<sessions, pc, victim, nextOrig, cancelled, stopped>>
    BY <1>13 DEF FinalizeAll, Finalize
  <2>2. stopped'
    BY <2>1 DEF StreamTypes
  <2> QED BY <2>1, <2>2 DEF StreamTypes, Known, Apart, Ordered, Current
<1> QED
  BY ONLY <1>1, <1>2, <1>3, <1>4, <1>5, <1>6, <1>7, <1>8, <1>9, <1>10, <1>11, <1>12, <1>13,
     [Next]_vars DEF Next, Request, Proceed, Deleter, Holders

\* However many requests of a conversation come, and whichever of them fail or are
\* answered plainly: of two that go on answering, one lost its session to a request that
\* was answered plainly (create_or_replace, evict_and_cancel, on_complete).
THEOREM OneLiveSession == Spec => []OneLive
<1>1. ILive => OneLive
  BY LiveParts DEF ILive
<1> QED BY LiveInit, LiveStep, <1>1, PTL DEF Spec

-----------------------------------------------------------------------------
(* The bytes: what a session holds and what its readers were given.        *)

\* A session has the bytes that follow those it dropped, up to the last one its request
\* sent while it took any.
Bytes ==
  /\ buffer \in [Requests -> Seq(Nat)] /\ dropped \in [Requests -> Nat]
  /\ sent \in [Requests -> Nat]
  /\ \A r \in Requests : \A i \in 1..Len(buffer[r]) : buffer[r][i] = dropped[r] + i
  /\ \A r \in Requests \ done : End(r) = sent[r]
Replays ==
  /\ got \in [Readers -> Seq(Nat)]
  /\ \A g \in Readers : \A i \in 1..Len(got[g]) : got[g][i] = From[g] + i
\* A reader that came to the end read all of a session that takes no more.
Ends ==
  \A g \in Readers :
    /\ pc[g] \in {"check", "read", "ended"} => victim[g] \in Requests
    /\ pc[g] = "ended" => victim[g] \in done /\ Offset(g) >= End(victim[g])
IData == IHang /\ Bytes /\ Replays /\ Ends

\* Reading a part of a sequence of numbers.
LEMMA PartOfNats ==
  ASSUME NEW s, NEW m \in Nat, NEW n \in Nat, m <= n + 1, \A i \in m..n : s[i] \in Nat
  PROVE  /\ SubSeq(s, m, n) \in Seq(Nat) /\ Len(SubSeq(s, m, n)) = n - m + 1
         /\ \A i \in 1..n - m + 1 : SubSeq(s, m, n)[i] = s[m + i - 1]
<1>1. m \in Int /\ n \in Int
  OBVIOUS
<1>2. SubSeq(s, m, n) \in Seq(Nat)
  BY <1>1, SubSeqProperties
<1>3. Len(SubSeq(s, m, n)) = IF m <= n THEN n - m + 1 ELSE 0
  BY <1>1, SubSeqProperties
<1>4. \A i \in 1..n - m + 1 : SubSeq(s, m, n)[i] = s[m + i - 1]
  BY <1>1, SubSeqProperties
<1> QED BY <1>2, <1>3, <1>4

\* What append leaves of the old bytes and the new ones.
LEMMA RingKeepsTail ==
  ASSUME NEW old \in Seq(Nat), NEW new \in Seq(Nat), NEW skip \in 0..(Len(old) + Len(new)),
         NEW d \in Nat,
         \A i \in 1..Len(old) : old[i] = d + i,
         \A i \in 1..Len(new) : new[i] = d + Len(old) + i
  PROVE  /\ SubSeq(old \o new, skip + 1, Len(old \o new)) \in Seq(Nat)
         /\ Len(SubSeq(old \o new, skip + 1, Len(old \o new))) = Len(old) + Len(new) - skip
         /\ \A i \in 1..Len(SubSeq(old \o new, skip + 1, Len(old \o new))) :
              SubSeq(old \o new, skip + 1, Len(old \o new))[i] = d + skip + i
<1> DEFINE all  == old \o new
           m    == skip + 1
           n    == Len(old \o new)
           kept == SubSeq(all, m, n)
<1>1. /\ n = Len(old) + Len(new)
      /\ \A i \in 1..Len(old) + Len(new) :
           all[i] = IF i <= Len(old) THEN old[i] ELSE new[i - Len(old)]
  BY ConcatProperties
<1>2. Len(old) \in Nat /\ Len(new) \in Nat
  BY LenProperties
<1> SUFFICES /\ kept \in Seq(Nat) /\ Len(kept) = Len(old) + Len(new) - skip
             /\ \A i \in 1..Len(kept) : kept[i] = d + skip + i
  OBVIOUS
<1>3. m \in Nat /\ n \in Nat /\ m <= n + 1
  BY <1>1, <1>2
<1> HIDE DEF all, n
<1>4. \A i \in 1..n : all[i] = d + i
  BY <1>1, <1>2
<1>5. \A i \in m..n : all[i] \in Nat
  BY <1>3, <1>4
<1> HIDE DEF m
<1>6. /\ kept \in Seq(Nat) /\ Len(kept) = n - m + 1
      /\ \A i \in 1..n - m + 1 : kept[i] = all[m + i - 1]
  <2>1. kept \in Seq(Nat)
    BY <1>3, <1>5, PartOfNats
  <2>2. Len(kept) = n - m + 1
    BY <1>3, <1>5, PartOfNats
  <2>3. \A i \in 1..n - m + 1 : kept[i] = all[m + i - 1]
    BY <1>3, <1>5, PartOfNats
  <2> QED BY <2>1, <2>2, <2>3
<1> HIDE DEF kept
<1>7. ASSUME NEW i \in 1..Len(kept) PROVE kept[i] = d + skip + i
  <2>1. kept[i] = all[m + i - 1] /\ m + i - 1 \in 1..n
    BY <1>3, <1>6, m = skip + 1 DEF m
  <2>2. m + i - 1 = skip + i /\ skip \in Nat
    BY <1>2, <1>3, <1>6 DEF m
  <2> QED BY <1>4, <2>1, <2>2
<1> QED BY <1>1, <1>2, <1>6, <1>7 DEF m

LEMMA AppendKeepsBytes ==
  ASSUME Bytes, NEW r \in Requests, NEW n \in Nat,
         AppendTo(r, [i \in 1..n |-> sent[r] + i]), sent' = [sent EXCEPT ![r] = @ + n]
  PROVE  /\ Bytes' /\ done' = done /\ cancelled' = cancelled
         /\ \A q \in done : buffer'[q] = buffer[q] /\ dropped'[q] = dropped[q]
<1>1. CASE r \in done
  BY <1>1 DEF AppendTo, Bytes, End, sessionVars
<1>2. CASE r \notin done
  <2> DEFINE new == [i \in 1..n |-> sent[r] + i]
             skip == Overflow(r, Len(new))
             kept == SubSeq(buffer[r] \o new, skip + 1, Len(buffer[r] \o new))
  <2>1. /\ buffer' = [buffer EXCEPT ![r] = kept] /\ dropped' = [dropped EXCEPT ![r] = @ + skip]
        /\ done' = done /\ cancelled' = cancelled
    BY <1>2 DEF AppendTo
  <2>2. buffer[r] \in Seq(Nat) /\ Len(buffer[r]) \in Nat /\ dropped[r] \in Nat /\ sent[r] \in Nat
    BY LenProperties DEF Bytes
  <2>3. new \in Seq(Nat) /\ Len(new) = n /\ \A i \in 1..Len(new) : new[i] = sent[r] + i
    BY <2>2
  <2>4. sent[r] = dropped[r] + Len(buffer[r])
    BY <1>2 DEF Bytes, End
  <2>5. skip \in 0..Len(buffer[r]) + Len(new) /\ skip \in Nat
    BY <2>2, <2>3, StreamAssumption DEF Overflow
  <2> HIDE DEF new, skip, kept
  <2>6. /\ kept \in Seq(Nat) /\ Len(kept) = Len(buffer[r]) + Len(new) - skip
        /\ \A i \in 1..Len(kept) : kept[i] = dropped[r] + skip + i
    <3>1. \A i \in 1..Len(buffer[r]) : buffer[r][i] = dropped[r] + i
      BY DEF Bytes
    <3>2. \A i \in 1..Len(new) : new[i] = dropped[r] + Len(buffer[r]) + i
      BY <2>2, <2>3, <2>4
    <3> QED BY <2>2, <2>3, <2>5, <3>1, <3>2, RingKeepsTail, Zenon DEF kept
  <2>7. /\ buffer' \in [Requests -> Seq(Nat)] /\ dropped' \in [Requests -> Nat]
        /\ sent' \in [Requests -> Nat]
    BY <2>1, <2>2, <2>5, <2>6 DEF Bytes
  <2>8. ASSUME NEW q \in Requests
        PROVE  \A i \in 1..Len(buffer'[q]) : buffer'[q][i] = dropped'[q] + i
    <3>1. CASE q = r
      BY <2>1, <2>6, <3>1 DEF Bytes
    <3>2. CASE q # r
      BY <2>1, <3>2 DEF Bytes
    <3> QED BY <3>1, <3>2
  <2>9. ASSUME NEW q \in Requests \ done PROVE dropped'[q] + Len(buffer'[q]) = sent'[q]
    <3>1. CASE q = r
      <4>1. /\ dropped'[r] = dropped[r] + skip /\ Len(buffer'[r]) = Len(buffer[r]) + n - skip
            /\ sent'[r] = sent[r] + n
        BY <2>1, <2>3, <2>6 DEF Bytes
      <4> QED BY <2>2, <2>4, <2>5, <3>1, <4>1
    <3>2. CASE q # r
      BY <2>1, <3>2 DEF Bytes, End
    <3> QED BY <3>1, <3>2
  <2>10. Bytes'
    BY <2>1, <2>7, <2>8, <2>9 DEF Bytes, End
  <2>11. ASSUME NEW q \in done PROVE buffer'[q] = buffer[q] /\ dropped'[q] = dropped[q]
    BY <1>2, <2>1, <2>11
  <2> QED BY <2>1, <2>10, <2>11
<1> QED BY <1>1, <1>2

\* The steps of the threads that neither produce nor read.
LEMMA OthersKeepData ==
  ASSUME IData, UNCHANGED <<buffer, dropped, sent, got>>, done \subseteq done',
         \A g \in Readers : pc'[g] = pc[g] /\ victim'[g] = victim[g]
  PROVE  Bytes' /\ Replays' /\ Ends'
  BY DEF IData, Bytes, Replays, Ends, End, Offset

LEMMA ProduceKeepsData ==
  ASSUME IData, NEW r \in Requests, Tee(r) \/ LastChunk(r)
  PROVE  Bytes' /\ Replays' /\ Ends'
<1>1. PICK n \in Nat : Produce(r, n)
  BY StreamAssumption DEF Tee, LastChunk
<1>2. /\ Bytes' /\ done' = done
      /\ \A q \in done : buffer'[q] = buffer[q] /\ dropped'[q] = dropped[q]
  BY <1>1, AppendKeepsBytes DEF IData, Produce
<1>3. got' = got /\ victim' = victim /\ \A g \in Readers : pc'[g] = pc[g]
  <2>1. PICK there \in Places : pc' = [pc EXCEPT ![r] = there]
    BY DEF Tee, LastChunk, Goto, Places
  <2> QED BY <1>1, <2>1, StreamAssumption DEF Produce, IData, IHang, StreamTypes
<1> QED BY <1>2, <1>3 DEF IData, Replays, Ends, End, Offset

\* What read_from returns goes on where the reader was.
LEMMA ReadKeepsReplay ==
  ASSUME IData, NEW g \in Readers, ReadChunk(g)
  PROVE  Replays'
<1> DEFINE r == victim[g]
           from == Offset(g) - dropped[r] + 1
           part == SubSeq(buffer[r], from, Len(buffer[r]))
<1>1. r \in Requests /\ From[g] \in Nat /\ got[g] \in Seq(Nat) /\ Len(got[g]) \in Nat
  BY StreamAssumption, LenProperties DEF ReadChunk, IData, Ends, Replays
<1>2. /\ buffer[r] \in Seq(Nat) /\ Len(buffer[r]) \in Nat /\ dropped[r] \in Nat
      /\ \A i \in 1..Len(buffer[r]) : buffer[r][i] = dropped[r] + i
  BY <1>1, LenProperties DEF IData, Bytes
<1>3. from \in 1..Len(buffer[r])
  BY <1>1, <1>2 DEF ReadChunk, Offset, End
<1>4. got' = [got EXCEPT ![g] = @ \o part]
  BY DEF ReadChunk
<1>5. /\ part \in Seq(Nat) /\ Len(part) = Len(buffer[r]) - from + 1
      /\ \A i \in 1..Len(part) : part[i] = From[g] + Len(got[g]) + i
  <2>1. \A i \in from..Len(buffer[r]) : buffer[r][i] \in Nat
    BY <1>2, <1>3
  <2>2. from \in Nat /\ from <= Len(buffer[r]) + 1
    BY <1>2, <1>3
  <2>3. from = From[g] + Len(got[g]) - dropped[r] + 1
    BY <1>1, <1>2 DEF Offset
  <2> HIDE DEF from
  <2>4. /\ part \in Seq(Nat) /\ Len(part) = Len(buffer[r]) - from + 1
        /\ \A i \in 1..Len(buffer[r]) - from + 1 : part[i] = buffer[r][from + i - 1]
    <3>1. part \in Seq(Nat)
      BY <1>2, <2>1, <2>2, PartOfNats
    <3>2. Len(part) = Len(buffer[r]) - from + 1
      BY <1>2, <2>1, <2>2, PartOfNats
    <3>3. \A i \in 1..Len(buffer[r]) - from + 1 : part[i] = buffer[r][from + i - 1]
      BY <1>2, <2>1, <2>2, PartOfNats
    <3> QED BY <3>1, <3>2, <3>3
  <2> HIDE DEF part, r
  <2>5. ASSUME NEW i \in 1..Len(part) PROVE part[i] = From[g] + Len(got[g]) + i
    <3>1. part[i] = buffer[r][from + i - 1] /\ from + i - 1 \in 1..Len(buffer[r])
      BY <1>2, <1>3, <2>4
    <3>2. part[i] = dropped[r] + (from + i - 1)
      BY <1>2, <3>1
    <3>3. i \in Int /\ From[g] \in Int /\ Len(got[g]) \in Int /\ dropped[r] \in Int
      BY <1>1, <1>2, <1>3, <2>4
    <3> QED BY <2>3, <3>2, <3>3
  <2> QED BY <2>4, <2>5
<1> HIDE DEF part, from, r
<1>6. /\ got[g] \o part \in Seq(Nat) /\ Len(got[g] \o part) = Len(got[g]) + Len(part)
      /\ \A i \in 1..Len(got[g]) + Len(part) :
           (got[g] \o part)[i] = IF i <= Len(got[g]) THEN got[g][i] ELSE part[i - Len(got[g])]
  BY <1>1, <1>5, ConcatProperties
<1>7. \A i \in 1..Len(got[g] \o part) : (got[g] \o part)[i] = From[g] + i
  <2>1. TAKE i \in 1..Len(got[g] \o part)
  <2>2. Len(part) \in Nat
    BY <1>5, LenProperties
  <2>3. CASE i <= Len(got[g])
    <3>1. i \in 1..Len(got[g]) /\ (got[g] \o part)[i] = got[g][i]
      BY <1>1, <1>6, <2>2, <2>3
    <3> QED BY <3>1 DEF IData, Replays
  <2>4. CASE ~(i <= Len(got[g]))
    <3>1. i - Len(got[g]) \in 1..Len(part) /\ (got[g] \o part)[i] = part[i - Len(got[g])]
      BY <1>1, <1>6, <2>2, <2>4
    <3>2. part[i - Len(got[g])] = From[g] + Len(got[g]) + (i - Len(got[g]))
      BY <1>5, <3>1
    <3> QED BY <1>1, <2>1, <3>1, <3>2
  <2> QED BY <2>3, <2>4
<1>8. got' \in [Readers -> Seq(Nat)]
  BY <1>4, <1>6 DEF IData, Replays
<1>9. ASSUME NEW h \in Readers PROVE \A i \in 1..Len(got'[h]) : got'[h][i] = From[h] + i
  <2>1. CASE h = g
    BY <1>4, <1>7, <2>1 DEF IData, Replays
  <2>2. CASE h # g
    BY <1>4, <2>2 DEF IData, Replays
  <2> QED BY <2>1, <2>2
<1> QED BY <1>8, <1>9 DEF Replays

LEMMA ReaderKeepsData ==
  ASSUME IData, NEW g \in Readers, Reader(g) \/ ReaderGone(g)
  PROVE  Bytes' /\ Replays' /\ Ends'
<1> USE DEF Goto, sessionVars, answerVars, threadVars
<1>1. Bytes'
  BY DEF Reader, ReaderGone, Lookup, CheckOffset, ReadChunk, OffsetLost, ReadEnd, IData, Bytes, End
<1>2. CASE ReadChunk(g)
  <2>1. UNCHANGED <<pc, victim, buffer, dropped, done>> /\ pc[g] = "read"
        /\ \A h \in Readers \ {g} : got'[h] = got[h]
    BY <1>2 DEF ReadChunk, IData, Replays
  <2>2. Ends'
    BY <2>1 DEF IData, Ends, Offset, End
  <2> QED BY <1>1, <1>2, <2>2, ReadKeepsReplay
<1>3. CASE ~ReadChunk(g)
  <2>1. UNCHANGED <<got, buffer, dropped, done>>
    BY <1>3 DEF Reader, ReaderGone, Lookup, CheckOffset, OffsetLost, ReadEnd
  <2>2. Replays'
    BY <2>1 DEF IData, Replays
  <2>3. /\ \A h \in Readers \ {g} : pc'[h] = pc[h] /\ victim'[h] = victim[h]
        /\ pc'[g] \in {"check", "read", "ended"} => victim'[g] \in Requests
        /\ pc'[g] = "ended" => victim'[g] = victim[g] /\ victim[g] \in done /\ Offset(g) >= End(victim[g])
    <3>1. pc \in [Actors -> Places] /\ victim \in [Actors -> Requests \cup {None}] /\ g \in Readers /\ Readers \subseteq Actors
          /\ sessions[Conv[g]] \in Requests \cup {None}
      BY StreamAssumption DEF IData, IHang, StreamTypes, Actors
    <3>2. pc[g] \in {"check", "read", "ended"} => victim[g] \in Requests
      BY DEF IData, Ends
    <3>3. CASE Lookup(g)
      BY <3>1, <3>3 DEF Lookup
    <3>4. CASE CheckOffset(g) \/ OffsetLost(g) \/ ReaderGone(g)
      BY <3>1, <3>2, <3>4 DEF CheckOffset, OffsetLost, ReaderGone
    <3>5. CASE ReadEnd(g)
      BY <3>1, <3>2, <3>5 DEF ReadEnd
    <3> QED BY <1>3, <3>3, <3>4, <3>5 DEF Reader
  <2>4. Ends'
    BY <2>1, <2>3 DEF IData, Ends, Offset, End
  <2> QED BY <1>1, <2>2, <2>4
<1> QED BY <1>2, <1>3

LEMMA DataStep == IData /\ [Next]_vars => IData'
<1> SUFFICES ASSUME IData, [Next]_vars PROVE IData'
  OBVIOUS
<1>0. IHang' /\ StreamTypes
  BY HangStep DEF IData, IHang
<1> USE Everyone, StreamAssumption DEF Goto, sessionVars, threadVars, answerVars
<1>1. CASE UNCHANGED vars
  BY <1>0, <1>1, OthersKeepData DEF vars, IData
<1>2. ASSUME NEW r \in Requests, Tee(r) \/ LastChunk(r) PROVE IData'
  BY <1>0, <1>2, ProduceKeepsData DEF IData
<1>3. ASSUME NEW g \in Readers, Reader(g) \/ ReaderGone(g) PROVE IData'
  BY <1>0, <1>3, ReaderKeepsData DEF IData
<1>4. ASSUME NEW a \in Holders,
             \/ Install(a) \/ CancelVictim(a) \/ FinalizeVictim(a) \/ Handle(a)
             \/ AnswerPlainly(a) \/ Evict(a) \/ StartStream(a) \/ Poll(a) \/ PullStops(a)
             \/ Close(a) \/ ClientDrops(a) \/ Delete(a)
      PROVE  IData'
  <2>1. UNCHANGED <<buffer, dropped, sent, got>> /\ done \subseteq done'
    BY <1>4 DEF Install, CancelVictim, Cancel, FinalizeVictim, Finalize, Handle, AnswerPlainly,
                Evict, StartStream, Poll, PullStops, Close, ClientDrops, Delete
  <2>2. \A g \in Readers : pc'[g] = pc[g] /\ victim'[g] = victim[g]
    <3>1. (\E there \in Places : pc' = [pc EXCEPT ![a] = there]) \/ pc' = pc
      BY <1>4 DEF Install, CancelVictim, FinalizeVictim, Afterwards, Handle, AnswerPlainly,
                  Evict, StartStream, Poll, PullStops, Close, ClientDrops, Delete, Places
    <3>2. (\E v \in Requests \cup {None} : victim' = [victim EXCEPT ![a] = v]) \/ victim' = victim
      BY <1>0, <1>4 DEF Install, CancelVictim, FinalizeVictim, Handle, AnswerPlainly,
                  Evict, StartStream, Poll, PullStops, Close, ClientDrops, Delete, StreamTypes
    <3>3. a \notin Readers
      BY DEF Holders
    <3> QED BY <1>0, <3>1, <3>2, <3>3 DEF StreamTypes, Actors
  <2> QED BY <1>0, <2>1, <2>2, OthersKeepData DEF IData
<1>5. CASE CollectGarbage \/ StopGC \/ FinalizeAll
  <2>1. UNCHANGED <<buffer, dropped, sent, got, pc, victim>> /\ done \subseteq done'
    BY <1>5 DEF CollectGarbage, StopGC, FinalizeAll, Finalize
  <2> QED BY <1>0, <2>1, OthersKeepData DEF IData
<1> QED
  BY ONLY <1>1, <1>2, <1>3, <1>4, <1>5, [Next]_vars DEF Next, Request, Proceed, Deleter, Holders

LEMMA DataInit == Init => IData
<1> SUFFICES ASSUME Init PROVE IData
  OBVIOUS
<1>1. <<>> \in Seq(Nat) /\ Len(<<>>) = 0
  OBVIOUS
<1> QED BY <1>1, HangInit, Everyone, StreamAssumption
        DEF Init, IData, Bytes, Replays, Ends, End, Actors

\* A replay has the bytes of the answer from its offset on, each once and in their
\* order, for any sizes of the ring and of the chunks (append, read_from).
THEOREM ReplaysAreExact == Spec => []ReplayExact
<1>1. IData => ReplayExact
  BY LenProperties DEF IData, Replays, ReplayExact
<1> QED BY DataInit, DataStep, <1>1, PTL DEF Spec

\* Nothing enters a session behind a reader that came to its end (finalize, append).
THEOREM EndsAreEnds == Spec => []EndIsTheEnd
<1>1. IData => EndIsTheEnd
  BY DEF IData, Ends, EndIsTheEnd
<1> QED BY DataInit, DataStep, <1>1, PTL DEF Spec

-----------------------------------------------------------------------------
(* The tail of an answer.                                                  *)

\* The session of r was not taken from it.
Spared(r) == r \notin cancelled /\ ~stopped /\ Evictors(Conv[r]) = {}

\* It is finalized when its answer is complete, and never before.
Tails ==
  \A r \in Requests :
    /\ r \in done /\ Spared(r) => pc[r] = "done"
    /\ r \in nextOrig /\ pc[r] \in {"close", "done"} => r \in complete \/ r \in cancelled
    /\ Spared(r) => End(r) = sent[r]
ITail == ILive /\ IData /\ Tails

LEMMA TailStep == ITail /\ [Next]_vars => ITail'
<1> SUFFICES ASSUME ITail, [Next]_vars PROVE ITail'
  OBVIOUS
<1>0. ILive' /\ IData' /\ StreamTypes /\ Holding /\ Apart /\ Ordered
  BY LiveStep, DataStep DEF ITail, ILive, IHang
<1> USE Everyone, StreamAssumption, <1>0 DEF ITail, Goto, sessionVars, threadVars, answerVars
<1>1. CASE UNCHANGED vars
  BY <1>1 DEF vars, Tails, End, Spared, Evictors
<1>2. ASSUME NEW r \in Requests, Tee(r) \/ LastChunk(r) PROVE ITail'
  <2>1. PICK n \in Nat : Produce(r, n)
    BY <1>2 DEF Tee, LastChunk
  <2>2. /\ Bytes' /\ done' = done /\ cancelled' = cancelled /\ nextOrig' = nextOrig
        /\ \A q \in done : buffer'[q] = buffer[q] /\ dropped'[q] = dropped[q]
    BY <2>1, AppendKeepsBytes DEF IData, Produce
  <2>3. /\ pc[r] = "pull" /\ stopped' = stopped /\ \A q \in Requests \ {r} : pc'[q] = pc[q] /\ sent'[q] = sent[q]
        /\ complete \subseteq complete' /\ (pc'[r] = "next" \/ (pc'[r] = "close" /\ r \in complete'))
    BY <1>2, <2>1 DEF Produce, Tee, LastChunk, StreamTypes, Actors
  <2>4. ASSUME NEW q \in Requests, Spared(q)' PROVE Spared(q)
    <3>1. Evictors(Conv[q]) \subseteq Evictors(Conv[q])'
      BY <2>2, <2>3 DEF Evictors
    <3> QED BY <2>2, <2>3, <2>4, <3>1 DEF Spared
  <2>5. ASSUME NEW q \in Requests, Spared(q)' PROVE (End(q) = sent[q])'
    <3>1. CASE q \notin done
      BY <2>2, <3>1 DEF Bytes
    <3>2. CASE q \in done
      <4>1. q # r
        BY <2>3, <2>4, <2>5, <3>2 DEF Tails
      <4> QED BY <2>2, <2>3, <2>4, <2>5, <3>2, <4>1 DEF Tails, End
    <3> QED BY <3>1, <3>2
  <2>6. ASSUME NEW q \in Requests, q \in done', Spared(q)' PROVE pc'[q] = "done"
    BY <2>2, <2>3, <2>4, <2>6 DEF Tails
  <2>7. ASSUME NEW q \in Requests, q \in nextOrig', pc'[q] \in {"close", "done"}
        PROVE  q \in complete' \/ q \in cancelled'
    BY <2>2, <2>3, <2>7 DEF Tails
  <2> QED BY <2>5, <2>6, <2>7 DEF Tails
<1>3. ASSUME NEW g \in Readers, Reader(g) \/ ReaderGone(g) PROVE ITail'
  <2>1. UNCHANGED <<buffer, dropped, done, cancelled, nextOrig, sent, complete, stopped>>
    BY <1>3 DEF Reader, ReaderGone, Lookup, CheckOffset, ReadChunk, OffsetLost, ReadEnd
  <2>2. \A r \in Requests : pc'[r] = pc[r]
    BY <1>3, ReaderMoves
  <2> QED BY <2>1, <2>2 DEF Tails, End, Spared, Evictors
<1>4. ASSUME NEW a \in Holders,
             \/ Install(a) \/ CancelVictim(a) \/ Handle(a) \/ AnswerPlainly(a) \/ Evict(a)
             \/ (a \in Requests /\ StartStream(a)) \/ Poll(a) \/ PullStops(a) \/ ClientDrops(a)
             \/ (a \in Deletes /\ Delete(a))
      PROVE  ITail'
  <2>1. UNCHANGED <<buffer, dropped, sent, done, complete, stopped>> /\ cancelled \subseteq cancelled'
    BY <1>4 DEF Install, CancelVictim, Cancel, Handle, AnswerPlainly, Evict, StartStream, Poll,
                PullStops, ClientDrops, Delete
  <2>2. \A r \in Requests :
          /\ pc[r] \in {"evict finalize", "close", "done"} => pc'[r] \in {"evict finalize", "close", "done"}
          /\ pc[r] = "done" => pc'[r] = "done"
          /\ r \in nextOrig' => r \in nextOrig \/ pc[r] = "await"
          /\ r \in nextOrig' /\ pc'[r] \in {"close", "done"}
             => r \in cancelled \/ (r \in nextOrig /\ pc[r] \in {"close", "done"})
    <3>1. CASE Install(a) \/ CancelVictim(a) \/ (a \in Deletes /\ Delete(a)) \/ ClientDrops(a)
      <4>1. /\ nextOrig' = nextOrig
            /\ \A b \in Actors \ {a} : pc'[b] = pc[b]
            /\ pc'[a] = pc[a] \/ (pc[a] \in {"new", "cancel"} /\ pc'[a] \notin {"close", "evict finalize"})
            /\ pc'[a] = "done" => pc[a] = "done" \/ a \in Deletes
        BY ONLY <3>1, StreamTypes, Everyone
           DEF Install, CancelVictim, Delete, ClientDrops, StreamTypes, Goto, threadVars
      <4>2. /\ \A r \in Requests : pc'[r] = pc[r] \/ pc'[r] \notin {"close", "done"}
            /\ \A r \in Requests : pc'[r] = pc[r] \/ pc[r] \in {"new", "cancel"}
        BY ONLY <4>1, StreamTypes, Everyone DEF StreamTypes
      <4> QED BY ONLY <4>1, <4>2
    <3>2. CASE Handle(a) \/ AnswerPlainly(a) \/ (a \in Requests /\ StartStream(a))
      BY <3>2 DEF Handle, AnswerPlainly, StartStream, StreamTypes
    <3>3. CASE Evict(a)
      BY <3>3 DEF Evict, StreamTypes, Apart, Early
    <3>4. CASE Poll(a) \/ PullStops(a)
      BY <3>4 DEF Poll, PullStops, StreamTypes
    <3> QED BY <1>4, <3>1, <3>2, <3>3, <3>4
  <2>3. ASSUME NEW q \in Requests, Spared(q)' PROVE Spared(q)
    <3>1. Evictors(Conv[q]) \subseteq Evictors(Conv[q])'
      BY <2>2 DEF Evictors
    <3> QED BY <2>1, <2>3, <3>1 DEF Spared
  <2> QED BY <2>1, <2>2, <2>3 DEF Tails, End
<1>5. ASSUME NEW a \in Holders, FinalizeVictim(a) PROVE ITail'
  <2>0. PICK v : v = victim[a]
    OBVIOUS
  <2>1. /\ v \in Requests /\ done' = done \cup {v}
        /\ UNCHANGED <<buffer, dropped, sent, cancelled, nextOrig, complete, stopped>>
    BY <1>5, <2>0 DEF FinalizeVictim, Finalize, Holding, StreamTypes
  <2>2. \A r \in Requests :
          /\ pc'[r] = pc[r] \/ (pc[r] # "done" /\ pc'[r] = "ready")
             \/ (r = a /\ pc[r] = "evict finalize" /\ pc'[r] = "close" /\ r \notin nextOrig)
    BY <1>5 DEF FinalizeVictim, Afterwards, StreamTypes, Apart, Early
  <2>3. ASSUME NEW q \in Requests, Spared(q)' PROVE Spared(q)
    <3>1. Evictors(Conv[q]) \subseteq Evictors(Conv[q])'
      BY <1>5, <2>1, <2>2 DEF Evictors, FinalizeVictim, Afterwards, StreamTypes
    <3> QED BY <2>1, <2>3, <3>1 DEF Spared
  <2>4. ~Spared(v)'
    <3>1. CASE pc[a] = "finalize"
      <4>1. v \in cancelled'
        BY <2>0, <2>1, <3>1 DEF Ordered
      <4> QED BY <4>1 DEF Spared
    <3>2. CASE pc[a] = "evict finalize"
      <4>1. a \in Requests /\ a \notin nextOrig /\ Conv[v] = Conv[a]
        BY <2>0, <2>1, <3>2 DEF Apart, Early, Holders
      <4>2. a \in Evictors(Conv[v])'
        <5>1. pc'[a] = "close"
          BY <1>5, <3>2, <4>1 DEF FinalizeVictim, Afterwards, StreamTypes
        <5> QED BY <2>1, <4>1, <5>1 DEF Evictors
      <4> QED BY <4>2 DEF Spared
    <3> QED BY <1>5, <3>1, <3>2 DEF FinalizeVictim
  <2>5. ASSUME NEW q \in Requests, Spared(q)' PROVE (End(q) = sent[q])' /\ (q \in done' => pc'[q] = "done")
    <3>1. q \in done' => q \in done
      BY <2>1, <2>4, <2>5
    <3> QED BY <2>1, <2>2, <2>3, <2>5, <3>1 DEF Tails, End
  <2>6. ASSUME NEW q \in Requests, q \in nextOrig', pc'[q] \in {"close", "done"}
        PROVE  q \in complete' \/ q \in cancelled'
    BY <2>1, <2>2, <2>6 DEF Tails
  <2> QED BY <2>5, <2>6 DEF Tails
<1>6. ASSUME NEW r \in Requests, Close(r) PROVE ITail'
  <2>1. /\ done' = done \cup {r} /\ pc[r] = "close" /\ pc' = [pc EXCEPT ![r] = "done"]
        /\ UNCHANGED <<buffer, dropped, sent, cancelled, nextOrig, complete, stopped>>
    BY <1>6 DEF Close, Finalize
  <2>2. ASSUME NEW q \in Requests, Spared(q)' PROVE Spared(q)
    <3>1. Evictors(Conv[q]) \subseteq Evictors(Conv[q])'
      BY <2>1 DEF Evictors, StreamTypes
    <3> QED BY <2>1, <2>2, <3>1 DEF Spared
  <2> QED BY <2>1, <2>2 DEF Tails, End, StreamTypes
<1>7. CASE CollectGarbage \/ StopGC
  <2>1. UNCHANGED <<buffer, dropped, sent, done, cancelled, nextOrig, complete, pc>> /\ (stopped => stopped')
    BY <1>7 DEF CollectGarbage, StopGC
  <2> QED BY <2>1 DEF Tails, End, Spared, Evictors
<1>8. CASE FinalizeAll
  <2>1. UNCHANGED <<buffer, dropped, sent, cancelled, nextOrig, complete, pc, stopped>> /\ stopped
    BY <1>8 DEF FinalizeAll, Finalize, StreamTypes
  <2> QED BY <2>1 DEF Tails, End, Spared
<1> QED
  BY ONLY <1>1, <1>2, <1>3, <1>4, <1>5, <1>6, <1>7, <1>8, [Next]_vars
     DEF Next, Request, Proceed, Deleter, Holders

\* A stream that nobody cancelled has its whole answer in its session, whatever became of
\* the client, and whichever other requests fail or are answered plainly, as long as none
\* of these evicted a session of the conversation (set_next, on_complete).
THEOREM TailsAreKept == Spec => []TailKept
<1>1. Init => ITail
  BY LiveInit, DataInit, Everyone DEF Init, ITail, Tails, IData, Bytes, End, Actors
<1>2. ITail => TailKept
  <2>1. ASSUME ITail, NEW r \in nextOrig, pc[r] = "done", r \notin cancelled, ~stopped
        PROVE  r \in complete /\ (End(r) = sent[r] \/ Evictors(Conv[r]) # {})
    <3>1. r \in Requests
      BY <2>1 DEF ITail, ILive, Apart
    <3> QED BY <2>1, <3>1 DEF ITail, Tails, Spared
  <2> QED BY <2>1 DEF TailKept
<1> QED BY <1>1, TailStep, <1>2, PTL DEF Spec
=============================================================================
