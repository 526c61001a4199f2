---------------------------- MODULE MCThreadPool ----------------------------
(* An instance of ThreadPool for TLC. *)
EXTENDS ThreadPool

\* two products after each other, a skipped node, a fused pair and rows
OneGraph == {<<"mul", "mul", "nop", "fuse", "map">>}
=============================================================================
