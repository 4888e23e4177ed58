---------------------------- MODULE MCChunkStore ----------------------------
(* Small instances of ChunkStore for TLC. *)
EXTENDS ChunkStore, TLC

Symmetric == Permutations(Proc) \cup Permutations(Chunk)
=============================================================================
