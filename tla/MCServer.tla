------------------------------ MODULE MCServer ------------------------------
(* Instances of ServerContext for TLC.                                     *)
EXTENDS ServerContext

CONSTANTS r1, r2, r3, t1, t2, t3, k1

ByName   == [r \in Requests |-> CASE r = r1 -> <<t1>> [] r = r2 -> <<t2>> [] OTHER -> <<t3>>]
NoKids   == [t \in Tasks |-> {}]
KidOfT1  == [t \in Tasks |-> IF t = t1 THEN {k1} ELSE {}]
AllInfer == [t \in Tasks |-> "infer"]
T3Saves  == [t \in Tasks |-> IF t = t3 THEN "slot" ELSE "infer"]
T3Asks   == [t \in Tasks |-> IF t = t3 THEN "query" ELSE "infer"]
NoWish   == [t \in Tasks |-> AnySlot]
T2Wants0 == [t \in Tasks |-> IF t = t2 THEN 0 ELSE AnySlot]
Slot0    == [t \in Tasks |-> 0]
=============================================================================
