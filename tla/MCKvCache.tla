---------------------------- MODULE MCKvCache ----------------------------
(* Instances of KvCache for TLC. *)
EXTENDS KvCache

Unified(swa) == [stream |-> [s \in Seqs |-> 0], swa |-> swa]
Split2(swa) == [stream |-> [s \in Seqs |-> s], swa |-> swa]
MCConfigs == {Unified(0), Unified(2), Split2(2)}
\* with these, FailedDecodeRestores of KvCache fails
SwaConfigs == {Unified(3)}
MCBatches == {<<{0}>>, <<{1}>>, <<{0, 1}>>, <<{0}, {1}>>, <<{0}, {0}, {0}>>, <<{0}, {0}, {1}>>}
FailBatches == {<<{0, 1}>>, <<{0}, {0}, {0}, {0}>>, <<{0}, {0}, {0}, {1}, {1}>>, <<{0}, {0}, {0}, {1}, {1}, {1}>>}
MCDeltas == {-1, 1}
==========================================================================
