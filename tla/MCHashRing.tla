----------------------------- MODULE MCHashRing -----------------------------
(* Small instances of HashRing for TLC. *)
EXTENDS HashRing

Symmetric == Permutations(Node)
=============================================================================
