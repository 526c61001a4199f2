------------------------------ MODULE MCStream ------------------------------
(* Instances of StreamSessions for TLC: everyone talks about one conversation. *)
EXTENDS StreamSessions

CONSTANTS r1, r2, r3, g1, d1, c1

OneConv == [a \in Actors |-> c1]
From0   == [g \in Readers |-> 0]
\* two requests with a reader, a DELETE and a shutdown; or three requests
Together == {{r1, r2, g1, d1, Shutdown}, {r1, r2, r3}}
=============================================================================
