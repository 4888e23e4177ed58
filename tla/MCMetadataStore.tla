-------------------------- MODULE MCMetadataStore --------------------------
(* Small instances of MetadataStore for TLC. *)
EXTENDS MetadataStore, TLC

CONSTANT MaxLen         \* bodies have at most this many chunks

MCBody == UNION {[1..n -> Chunk] : n \in 0..MaxLen}
ReqSymmetry == Permutations(Req)
Symmetric   == ReqSymmetry \cup Permutations(Chunk) \cup Permutations(Worker)
=============================================================================
