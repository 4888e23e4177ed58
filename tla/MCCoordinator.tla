--------------------------- MODULE MCCoordinator ---------------------------
(* Small instances of Coordinator for TLC. *)
EXTENDS Coordinator, SequencesExt

(* Every chunk is on every node, in some fixed order. *)
MCPref == [h \in Chunk |-> SetToSeq(Node)]

Symmetric == Permutations(Call)
=============================================================================
