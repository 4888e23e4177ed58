------------------------------ MODULE Chunker ------------------------------
(***************************************************************************)
(* chunker.js: a body is cut at every multiple of the chunk size, and each *)
(* piece is named by its SHA-256.  A buffer is a sequence of bytes, and a  *)
(* hash is the bytes it was made of, tagged: two buffers have the same     *)
(* hash only if they are equal, which is what the store relies on.         *)
(***************************************************************************)
EXTENDS Integers, Sequences

CONSTANT ChunkSize      \* DEFAULT_CHUNK_SIZE

ASSUME ChunkSizeAssumption == ChunkSize \in Nat \ {0}

HashChunk(buf) == [sha256 |-> buf]

(* Mutant: the loop ends with the last full chunk. *)
PassesOfFull(n) == {j \in 1..n : j * ChunkSize <= n}

(* The passes of chunkBuffer's loop over n bytes: while offset < buf.length. *)
Passes(n) == {j \in 1..n : (j - 1) * ChunkSize < n}

(* buf.subarray(offset, Math.min(offset + chunkSize, buf.length)) *)
Slice(buf, offset) ==
    SubSeq(buf, offset + 1,
           IF offset + ChunkSize < Len(buf) THEN offset + ChunkSize ELSE Len(buf))

ChunkBuffer(buf) ==
    [j \in Passes(Len(buf)) |->
        LET slice == Slice(buf, (j - 1) * ChunkSize)
        IN  [hash |-> HashChunk(slice), size |-> Len(slice), data |-> slice, seq |-> j - 1]]

(* chunks.map((c) => c.hash) *)
ChunkHashes(buf) == [j \in DOMAIN ChunkBuffer(buf) |-> ChunkBuffer(buf)[j].hash]
=============================================================================
