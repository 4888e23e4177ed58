--------------------------- MODULE MCObjectStore ---------------------------
(* Small instances of ObjectStore for TLC. *)
EXTENDS ObjectStore

CONSTANT Sizes          \* the lengths of the bodies; the b-th byte of each is b

MCBuffer == {[b \in 1..n |-> b] : n \in Sizes}
MCPref == [h \in Chunk |-> SetToSeq(Node)]

(* Requests and workers are alike in every definition; nodes are not, as a *)
(* download asks them in the order of the preference list.                 *)
Symmetric == Permutations(Req) \cup Permutations(Worker)
=============================================================================
