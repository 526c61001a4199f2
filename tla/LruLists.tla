------------------------------ MODULE LruLists ------------------------------
(***************************************************************************)
(* The lists of the segmented LRUs of ggml-ssd-stream.cpp: std::lists      *)
(* whose elements are moved by their iterators, so that an element is      *)
(* taken from where it is.  An element is in at most one place.            *)
(***************************************************************************)
EXTENDS Integers, SequencesExt

Where(s, x) == CHOOSE i \in DOMAIN s : s[i] = x
Without(s, x) == [j \in 1..Len(s)-1 |-> s[IF j < Where(s, x) THEN j ELSE j + 1]]
ToFront(s, x) == Cons(x, Without(s, x))                   \* splice within the list

\* The first n elements stay; the others go to the front of a list, in their order.
Kept(s, n) == SubSeq(s, 1, n)
Demoted(s, n, rest) == SubSeq(s, n + 1, Len(s)) \o rest

\* Two lists hold their elements once, and none in common.
Apart(p, q) == IsInjective(p) /\ IsInjective(q) /\ ToSet(p) \cap ToSet(q) = {}
=============================================================================
