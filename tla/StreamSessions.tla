--------------------------- MODULE StreamSessions ---------------------------
(***************************************************************************)
(* Resumable streaming: src/tools/server/server-stream.cpp, and the calls  *)
(* server-http.cpp makes to it.                                            *)
(*                                                                         *)
(* A POST with a conversation id installs a session, a bounded buffer its  *)
(* answer is teed into; a GET replays it from an offset and follows it; a  *)
(* DELETE stops it.  Each runs on an HTTP thread of its own, next to the   *)
(* GC thread and the shutdown.                                             *)
(*                                                                         *)
(* Every critical section of map_mu or of a session's mu is one action.    *)
(* The session a request installs is named after it, and the bytes of an   *)
(* answer are numbered from 1.                                             *)
(***************************************************************************)
EXTENDS Integers, Sequences, FiniteSets, SequencesExt

CONSTANTS
  Requests,     \* the POSTs with a conversation id
  Readers,      \* the GETs
  Deletes,      \* the DELETEs
  Crowds,       \* input of the model: who comes, in one behaviour
  Convs,
  Conv,         \* request, reader or delete -> its conversation
  From,         \* reader -> the offset it asks for
  None,
  Cap,          \* STREAM_SESSION_MAX_BYTES
  Chunks,       \* the lengths of chunks
  MaxLen,       \* bound: the most bytes of an answer
  MayFail,      \* requests that may be answered without a stream
  MayDrop,      \* requests and readers whose client may go away
  Shutdown      \* one who may come as well: the server shuts down

Actors == Requests \cup Readers \cup Deletes

ASSUME StreamAssumption ==
  /\ None \notin Requests
  /\ Requests \cap Deletes = {} /\ Readers \cap (Requests \cup Deletes) = {}
  /\ Crowds \subseteq SUBSET (Actors \cup {Shutdown})
  /\ Conv \in [Actors -> Convs]
  /\ From \in [Readers -> Nat]
  /\ Cap \in Nat \ {0} /\ MaxLen \in Nat
  /\ Chunks \subseteq Nat
  /\ MayFail \subseteq Requests /\ MayDrop \subseteq Requests \cup Readers

VARIABLES
  crowd,        \* those who come (fixed)
  sessions,     \* stream_session_manager: conversation -> its session, or None
  \* stream_session
  buffer, dropped, done, cancelled,
  \* the HTTP threads: where each is, and the session it took out of the map
  pc, victim,
  \* a request: it streams its answer (next_orig is set), the bytes it produced, its
  \* client is gone, its answer is complete
  nextOrig, sent, gone, complete,
  got,          \* reader -> the bytes it received
  stopping, stopped \* stop_gc: the sessions it has yet to finalize, and that it ran

sessionVars == <<buffer, dropped, done, cancelled>>
threadVars  == <<pc, victim>>
answerVars  == <<nextOrig, sent, gone, complete>>
vars == <<crowd, sessions, sessionVars, threadVars, answerVars, got, stopping, stopped>>

Init ==
  /\ crowd \in Crowds
  /\ sessions = [c \in Convs |-> None]
  /\ buffer = [r \in Requests |-> <<>>]
  /\ dropped = [r \in Requests |-> 0]
  /\ done = {} /\ cancelled = {}
  /\ pc = [a \in Actors |-> "new"]
  /\ victim = [a \in Actors |-> None]
  /\ nextOrig = {} /\ sent = [r \in Requests |-> 0]
  /\ gone = {} /\ complete = {}
  /\ got = [g \in Readers |-> <<>>]
  /\ stopping = {} /\ stopped = FALSE

Goto(a, there) == pc' = [pc EXCEPT ![a] = there]

\* bytes that ever entered the session of r
End(r) == dropped[r] + Len(buffer[r])

-----------------------------------------------------------------------------
(* stream_session                                                          *)

\* append: the oldest bytes go when the buffer is full, none is taken once done
Overflow(r, n) == IF Len(buffer[r]) + n > Cap THEN Len(buffer[r]) + n - Cap ELSE 0

AppendMiscounts(r, bytes) ==
  /\ buffer'  = [buffer EXCEPT ![r] = SubSeq(@ \o bytes, Overflow(r, Len(bytes)) + 1, Len(@) + Len(bytes))]
  /\ dropped' = [dropped EXCEPT ![r] = @ + IF Len(bytes) >= Cap THEN Len(bytes) - Cap
                                                               ELSE Overflow(r, Len(bytes))]
  /\ UNCHANGED <<done, cancelled>>
AppendTo(r, bytes) ==
  IF r \in done
  THEN UNCHANGED sessionVars
  ELSE LET all  == buffer[r] \o bytes
           skip == Overflow(r, Len(bytes))
       IN /\ buffer'  = [buffer EXCEPT ![r] = SubSeq(all, skip + 1, Len(all))]
          /\ dropped' = [dropped EXCEPT ![r] = @ + skip]
          /\ UNCHANGED <<done, cancelled>>

Finalize(r) == done' = done \cup {r} /\ UNCHANGED <<buffer, dropped, cancelled>>
CancelForgotten(r) == UNCHANGED sessionVars
Cancel(r)   == cancelled' = cancelled \cup {r} /\ UNCHANGED <<buffer, dropped, done>>

-----------------------------------------------------------------------------
(* A thread that took a session out of the map cancels and finalizes it    *)
(* after it has left the map's lock.                                       *)

CancelVictim(a) ==
  /\ pc[a] = "cancel"
  /\ Cancel(victim[a])
  /\ Goto(a, "finalize")
  /\ UNCHANGED <<sessions, victim, answerVars, got, stopping, stopped>>

Afterwards(a) == IF a \in Deletes THEN "done" ELSE IF pc[a] = "finalize" THEN "ready" ELSE "close"

FinalizeVictim(a) ==
  /\ pc[a] \in {"finalize", "evict finalize"}
  /\ Finalize(victim[a])
  /\ victim' = [victim EXCEPT ![a] = None]
  /\ Goto(a, Afterwards(a))
  /\ UNCHANGED <<sessions, answerVars, got, stopping, stopped>>

-----------------------------------------------------------------------------
(* A POST: server_res_spipe                                                *)

\* set_req: create_or_replace, the part under the map's lock
Install(r) ==
  /\ r \in crowd /\ pc[r] = "new"
  /\ sessions' = [sessions EXCEPT ![Conv[r]] = r]
  /\ victim' = [victim EXCEPT ![r] = sessions[Conv[r]]]
  /\ Goto(r, IF sessions[Conv[r]] = None THEN "ready" ELSE "cancel")
  /\ UNCHANGED <<sessionVars, answerVars, got, stopping, stopped>>

\* the handler reads the request: it is refused, or its tasks are posted
Handle(r) ==
  /\ pc[r] = "ready"
  /\ Goto(r, "await") \/ (r \in MayFail /\ Goto(r, "evict"))
  /\ UNCHANGED <<sessions, sessionVars, victim, answerVars, got, stopping, stopped>>

\* wait_for_all, or next for a first result that is an error: both look at the client,
\* who may have left, and never at the session
AnswerPlainly(r) ==
  /\ pc[r] = "await"
  /\ r \in MayFail \cup MayDrop
  /\ Goto(r, "evict")
  /\ UNCHANGED <<sessions, sessionVars, victim, answerVars, got, stopping, stopped>>

\* on_complete without a stream: evict the conversation's session
Evict(r) ==
  /\ pc[r] = "evict"
  /\ victim' = [victim EXCEPT ![r] = sessions[Conv[r]]]
  /\ sessions' = [sessions EXCEPT ![Conv[r]] = None]
  /\ Goto(r, IF sessions[Conv[r]] = None THEN "close" ELSE "evict finalize")
  /\ UNCHANGED <<sessionVars, answerVars, got, stopping, stopped>>

\* the first result of a stream: set_next
StartStream(r) ==
  /\ pc[r] = "await"
  /\ nextOrig' = nextOrig \cup {r}
  /\ Goto(r, "next")
  /\ UNCHANGED <<sessions, sessionVars, victim, sent, gone, complete, got, stopping, stopped>>

\* next_orig polls is_cancelled, then waits for a result; so does on_complete once
\* the client is gone
PollDeaf(r) ==
  /\ pc[r] = "next"
  /\ Goto(r, "pull")
  /\ UNCHANGED <<sessions, sessionVars, victim, answerVars, got, stopping, stopped>>
Poll(r) ==
  /\ pc[r] = "next"
  /\ Goto(r, IF r \in cancelled THEN "close" ELSE "pull")
  /\ UNCHANGED <<sessions, sessionVars, victim, answerVars, got, stopping, stopped>>

\* a chunk goes to the session and then to the client, if there is one
Produce(r, n) ==
  /\ pc[r] = "pull"
  /\ sent[r] + n <= MaxLen
  /\ AppendTo(r, [i \in 1..n |-> sent[r] + i])
  /\ sent' = [sent EXCEPT ![r] = @ + n]
  /\ UNCHANGED <<sessions, victim, nextOrig, gone, got, stopping, stopped>>

Tee(r) ==
  /\ \E n \in Chunks : Produce(r, n)
  /\ Goto(r, "next")
  /\ UNCHANGED complete

\* has_next is false; the chunk that comes with it may be empty
LastChunk(r) ==
  /\ \E n \in {0} \cup Chunks : Produce(r, n)
  /\ complete' = complete \cup {r}
  /\ Goto(r, "close")

\* should_stop was raised while the result was awaited
PullStops(r) ==
  /\ pc[r] = "pull"
  /\ r \in cancelled
  /\ Goto(r, "close")
  /\ UNCHANGED <<sessions, sessionVars, victim, answerVars, got, stopping, stopped>>

\* the sink cannot be written: from now on on_complete drains the answer
ClientDrops(r) ==
  /\ pc[r] = "next" /\ r \in MayDrop \ gone
  /\ gone' = gone \cup {r}
  /\ UNCHANGED <<sessions, sessionVars, threadVars, nextOrig, sent, complete, got, stopping, stopped>>

\* the response is destroyed: ~stream_pipe_producer
CloseQuietly(r) ==
  /\ pc[r] = "close"
  /\ Goto(r, "done")
  /\ UNCHANGED <<sessions, sessionVars, victim, answerVars, got, stopping, stopped>>
Close(r) ==
  /\ pc[r] = "close"
  /\ Finalize(r)
  /\ Goto(r, "done")
  /\ UNCHANGED <<sessions, victim, answerVars, got, stopping, stopped>>

-----------------------------------------------------------------------------
(* A DELETE: evict_and_cancel                                              *)

Delete(d) ==
  /\ d \in crowd /\ pc[d] = "new"
  /\ victim' = [victim EXCEPT ![d] = sessions[Conv[d]]]
  /\ sessions' = [sessions EXCEPT ![Conv[d]] = None]
  /\ Goto(d, IF sessions[Conv[d]] = None THEN "done" ELSE "cancel")
  /\ UNCHANGED <<sessionVars, answerVars, got, stopping, stopped>>

-----------------------------------------------------------------------------
(* A GET.  victim[g] is the session its pipe holds.                        *)

Lookup(g) ==
  /\ g \in crowd /\ pc[g] = "new"
  /\ victim' = [victim EXCEPT ![g] = sessions[Conv[g]]]
  /\ Goto(g, IF sessions[Conv[g]] = None THEN "not found" ELSE "check")
  /\ UNCHANGED <<sessions, sessionVars, answerVars, got, stopping, stopped>>

CheckOffset(g) ==
  /\ pc[g] = "check"
  /\ Goto(g, IF From[g] < dropped[victim[g]] THEN "refused" ELSE "read")
  /\ UNCHANGED <<sessions, sessionVars, victim, answerVars, got, stopping, stopped>>

Offset(g) == From[g] + Len(got[g])

\* read_from: all that is there from the offset on
ReadChunk(g) ==
  LET r == victim[g] IN
  /\ pc[g] = "read"
  /\ dropped[r] <= Offset(g) /\ Offset(g) < End(r)
  /\ got' = [got EXCEPT ![g] = @ \o SubSeq(buffer[r], Offset(g) - dropped[r] + 1, Len(buffer[r]))]
  /\ UNCHANGED <<sessions, sessionVars, threadVars, answerVars, stopping, stopped>>

\* OFFSET_LOST: the closure has no bytes, and the answer ends
OffsetLost(g) ==
  /\ pc[g] = "read"
  /\ Offset(g) < dropped[victim[g]]
  /\ Goto(g, "lost")
  /\ UNCHANGED <<sessions, sessionVars, victim, answerVars, got, stopping, stopped>>

ReadEnd(g) ==
  /\ pc[g] = "read"
  /\ Offset(g) >= End(victim[g])
  /\ victim[g] \in done
  /\ Goto(g, "ended")
  /\ UNCHANGED <<sessions, sessionVars, victim, answerVars, got, stopping, stopped>>

ReaderGone(g) ==
  /\ pc[g] = "read" /\ g \in MayDrop
  /\ Goto(g, "gone")
  /\ UNCHANGED <<sessions, sessionVars, victim, answerVars, got, stopping, stopped>>

-----------------------------------------------------------------------------
(* gc_loop and stop_gc                                                     *)

\* sessions completed for long enough
Expired == {c \in Convs : sessions[c] # None /\ sessions[c] \in done}

\* what it takes out is done: its finalize changes nothing
CollectGarbage ==
  /\ ~stopped
  /\ \E D \in SUBSET Expired : /\ D # {}
                               /\ sessions' = [c \in Convs |-> IF c \in D THEN None ELSE sessions[c]]
  /\ UNCHANGED <<sessionVars, threadVars, answerVars, got, stopping, stopped>>

StopGC ==
  /\ Shutdown \in crowd /\ ~stopped
  /\ stopped' = TRUE
  /\ stopping' = {sessions[c] : c \in Convs} \ {None}
  /\ sessions' = [c \in Convs |-> None]
  /\ UNCHANGED <<sessionVars, threadVars, answerVars, got>>

FinalizeAll ==
  \E r \in stopping :
    /\ Finalize(r)
    /\ stopping' = stopping \ {r}
    /\ UNCHANGED <<sessions, threadVars, answerVars, got, stopped>>

-----------------------------------------------------------------------------
\* what the thread of a request does by itself, and what it waits for
Proceed(r) ==
  \/ CancelVictim(r) \/ FinalizeVictim(r) \/ Handle(r) \/ Evict(r)
  \/ Poll(r) \/ PullStops(r) \/ Close(r)
Request(r) ==
  \/ Install(r) \/ Proceed(r) \/ AnswerPlainly(r) \/ StartStream(r) \/ Tee(r) \/ LastChunk(r)
Reader(g) == Lookup(g) \/ CheckOffset(g) \/ ReadChunk(g) \/ OffsetLost(g) \/ ReadEnd(g)
Deleter(d) == Delete(d) \/ CancelVictim(d) \/ FinalizeVictim(d)

Next ==
  /\ \/ \E r \in Requests : Request(r) \/ ClientDrops(r)
     \/ \E g \in Readers : Reader(g) \/ ReaderGone(g)
     \/ \E d \in Deletes : Deleter(d)
     \/ CollectGarbage \/ StopGC \/ FinalizeAll
  /\ UNCHANGED crowd

Spec == Init /\ [][Next]_vars

\* An HTTP thread that runs goes on.  A reader waits at most 200 ms at a time, so it
\* cannot miss what it waits for.  Nothing is promised of the generation: its next
\* result, the first one included, may never come, or there is always another one.
Fairness ==
  /\ \A r \in Requests : WF_vars(Proceed(r) /\ UNCHANGED crowd)
  /\ \A g \in Readers : WF_vars(pc[g] # "new" /\ Reader(g) /\ UNCHANGED crowd)
  /\ \A d \in Deletes : WF_vars(pc[d] # "new" /\ Deleter(d) /\ UNCHANGED crowd)
  /\ WF_vars(FinalizeAll /\ UNCHANGED crowd)

FairSpec == Spec /\ Fairness

-----------------------------------------------------------------------------
\* Every variable has its type (the fields of stream_session, its manager, the pipes).
TypeOK ==
  /\ crowd \in Crowds
  /\ sessions \in [Convs -> Requests \cup {None}]
  /\ \A r \in Requests : buffer[r] \in Seq(1..MaxLen) /\ Len(buffer[r]) <= Cap
  /\ dropped \in [Requests -> 0..MaxLen]
  /\ UNION {done, cancelled, nextOrig, gone, complete, stopping} \subseteq Requests
  /\ pc \in [Actors -> {"new", "cancel", "finalize", "evict finalize", "ready", "await", "evict",
                        "next", "pull", "close", "done", "not found", "check", "refused", "read",
                        "lost", "ended", "gone"}]
  /\ victim \in [Actors -> Requests \cup {None}]
  /\ sent \in [Requests -> 0..MaxLen]
  /\ got \in [Readers -> Seq(1..MaxLen)]
  /\ stopped \in BOOLEAN

\* A client that resumes at an offset receives the bytes of the answer from there on,
\* none twice and none left out, whatever was dropped before and meanwhile
\* (the arithmetic of append and read_from).
ReplayExact == \A g \in Readers : \A i \in DOMAIN got[g] : got[g][i] = From[g] + i

\* A session that left the map is finalized, or a thread is about to: no reader of
\* it waits for ever (create_or_replace, evict, evict_and_cancel, stop_gc).
Orphans == {r \in Requests : pc[r] # "new" /\ sessions[Conv[r]] # r}
NoReaderHangs ==
  \A r \in Orphans :
    \/ r \in done \cup stopping
    \/ \E a \in Requests \cup Deletes : victim[a] = r

\* A request that goes on answering is alone in its conversation, but for those that a
\* newer request or a DELETE has cancelled or is about to, and for those that lost their
\* session to a request of the conversation that was answered plainly and evicts what
\* it finds (create_or_replace, evict_and_cancel, on_complete); a server that shuts
\* down has dropped all sessions.
Doomed(r) == r \in cancelled \/ \E a \in Requests \cup Deletes : victim[a] = r /\ pc[a] = "cancel"
Answering == {r \in Requests : /\ pc[r] \in {"cancel", "finalize", "ready", "await", "next", "pull"}
                              /\ ~Doomed(r)}
Evictors(c) == {p \in Requests \ nextOrig : Conv[p] = c /\ pc[p] \in {"evict finalize", "close", "done"}}
Evicted(r) ==
  /\ Evictors(Conv[r]) # {}
  /\ r \in done \/ \E p \in Evictors(Conv[r]) : victim[p] = r
OneLive ==
  stopped \/ \A q, r \in Answering : q # r /\ Conv[q] = Conv[r] => Evicted(q) \/ Evicted(r)

\* "one conv = at most one live session", and the cancel of the previous one reaches its
\* producer (the comment at server-stream.cpp:236): of two requests of a conversation,
\* one does not go on answering.  It may, see Evictors.
OneAnswers == stopped \/ \A q, r \in Answering : q # r => Conv[q] # Conv[r]

\* The stream of a request that nobody cancelled has the whole answer in its session,
\* also when the client left in the middle of it, unless a request that was answered
\* plainly evicted the session (set_next, on_complete).
TailKept ==
  \A r \in nextOrig : pc[r] = "done" /\ r \notin cancelled /\ ~stopped
                      => r \in complete /\ (End(r) = sent[r] \/ Evictors(Conv[r]) # {})

\* A replay that comes to its end has all there will ever be in the session: nothing
\* is appended behind a reader that left (append, finalize, read_from).
EndIsTheEnd ==
  \A g \in Readers : pc[g] = "ended" => Offset(g) >= End(victim[g])

\* A replay comes to an end when the request it follows does, or when the session is
\* replaced, evicted, deleted or dropped (~stream_pipe_producer, finalize).
EveryReplayEnds ==
  \A g \in Readers :
    pc[g] = "read" /\ (pc[victim[g]] = "done" \/ victim[g] \in Orphans) ~> pc[g] # "read"

\* A stream whose session is cancelled, by a DELETE or by the next request, stops, however
\* much it has left to say (cancel, should_stop).  A request that still waits for its
\* first result or for all of them does not hear of it.
DeleteStops ==
  \A r \in Requests : r \in cancelled /\ pc[r] \in {"next", "pull"} ~> pc[r] = "done" /\ r \in done
=============================================================================
