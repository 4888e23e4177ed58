---------------------------- MODULE ChunkerProofs ----------------------------
(* Chunker for any chunk size and any buffer: the chunks tile the buffer. *)
EXTENDS Chunker, SequencesExt, SequenceTheorems, WellFoundedInduction, TLAPS

LEMMA PassBounds ==
    ASSUME NEW n \in Nat, NEW j \in Passes(n)
    PROVE  /\ j \in Nat \ {0} /\ (j - 1) * ChunkSize \in Nat
           /\ (j - 1) * ChunkSize < n
           /\ j * ChunkSize = (j - 1) * ChunkSize + ChunkSize
           /\ j > 1 => j - 1 \in Passes(n)
           /\ j + 1 \in Passes(n) <=> (j - 1) * ChunkSize + ChunkSize < n
<1> USE ChunkSizeAssumption DEF Passes
<1>1. j \in Nat \ {0} /\ (j - 1) * ChunkSize \in Nat /\ (j - 1) * ChunkSize < n
  OBVIOUS
<1>2. j * ChunkSize = (j - 1) * ChunkSize + ChunkSize
  BY <1>1
<1>3. j > 1 => j - 1 \in Passes(n)
  <2> SUFFICES ASSUME j > 1 PROVE j - 1 \in 1..n /\ (j - 1 - 1) * ChunkSize < n
    BY <1>1
  <2>1. (j - 1) * ChunkSize = (j - 1 - 1) * ChunkSize + ChunkSize
    BY <1>1
  <2>2. QED
    BY <1>1, <2>1
<1>4. j + 1 \in Passes(n) <=> (j - 1) * ChunkSize + ChunkSize < n
  <2>1. (j + 1 - 1) * ChunkSize = (j - 1) * ChunkSize + ChunkSize
    BY <1>1, <1>2
  <2>2. j <= j * ChunkSize
    BY <1>1
  <2>3. QED
    BY <1>1, <1>2, <2>1, <2>2
<1>5. QED
  BY <1>1, <1>2, <1>3, <1>4

(* The passes are numbered without a gap, so that the chunks of a buffer   *)
(* form a sequence.                                                        *)
LEMMA PassesInterval == ASSUME NEW n \in Nat PROVE \E m \in Nat : Passes(n) = 1..m
<1> USE ChunkSizeAssumption
<1> DEFINE m == (n + ChunkSize - 1) \div ChunkSize
<1>1. m \in Nat /\ m * ChunkSize <= n + ChunkSize - 1 /\ n + ChunkSize - 1 < m * ChunkSize + ChunkSize
  <2>1. n + ChunkSize - 1 \in Nat /\ ChunkSize \in Nat /\ ChunkSize > 0
    OBVIOUS
  <2>2. QED
    BY <2>1
<1> HIDE DEF m
<1>2. ASSUME NEW j \in Nat \ {0}, j <= m PROVE j \in Passes(n)
  <2>1. (j - 1) * ChunkSize + ChunkSize = j * ChunkSize /\ (j - 1) * ChunkSize \in Nat
    OBVIOUS
  <2>2. j * ChunkSize <= m * ChunkSize
    BY <1>1, <1>2
  <2>3. (j - 1) * ChunkSize < n
    BY <1>1, <2>1, <2>2
  <2>4. j - 1 <= (j - 1) * ChunkSize
    OBVIOUS
  <2>5. QED
    BY <2>1, <2>3, <2>4 DEF Passes
<1>3. ASSUME NEW j \in Passes(n) PROVE j \in 1..m
  <2>1. j \in Nat \ {0} /\ (j - 1) * ChunkSize < n /\ j * ChunkSize = (j - 1) * ChunkSize + ChunkSize
    BY PassBounds
  <2>2. ASSUME j > m PROVE FALSE
    <3>1. (m + 1) * ChunkSize <= j * ChunkSize /\ (m + 1) * ChunkSize = m * ChunkSize + ChunkSize
      BY <1>1, <2>1, <2>2
    <3>2. QED
      BY <1>1, <2>1, <3>1
  <2>3. QED
    BY <1>1, <2>1, <2>2
<1>4. \A j \in 1..m : j \in Passes(n)
  BY <1>1, <1>2
<1>5. Passes(n) = 1..m
  BY <1>3, <1>4, Zenon
<1>6. QED
  BY <1>1, <1>5

(* chunkBuffer loses, repeats and reorders no byte: chunk j holds the      *)
(* bytes of the buffer from (j - 1) * ChunkSize on, as many as ChunkSize   *)
(* if another chunk follows and up to the end of the buffer if none does,  *)
(* none is empty, the ones before it are all there, and its name is the    *)
(* hash of exactly these bytes.                                            *)
THEOREM ChunksTile ==
    ASSUME NEW Byte, NEW buf \in Seq(Byte), NEW j \in DOMAIN ChunkBuffer(buf)
    PROVE  LET c == ChunkBuffer(buf)[j]
               offset == (j - 1) * ChunkSize
           IN  /\ c.size \in 1..ChunkSize /\ Len(c.data) = c.size
               /\ \A q \in 1..c.size : c.data[q] = buf[offset + q]
               /\ IF j + 1 \in DOMAIN ChunkBuffer(buf)
                  THEN c.size = ChunkSize ELSE offset + c.size = Len(buf)
               /\ j > 1 => j - 1 \in DOMAIN ChunkBuffer(buf)
               /\ c.hash = HashChunk(c.data) /\ c.seq = j - 1
<1> DEFINE offset == (j - 1) * ChunkSize
           end == IF offset + ChunkSize < Len(buf) THEN offset + ChunkSize ELSE Len(buf)
           slice == SubSeq(buf, offset + 1, end)
<1>1. DOMAIN ChunkBuffer(buf) = Passes(Len(buf)) /\ j \in Passes(Len(buf)) /\ Len(buf) \in Nat
  BY DEF ChunkBuffer
<1>2. ChunkBuffer(buf)[j] = [hash |-> HashChunk(slice), size |-> Len(slice),
                             data |-> slice, seq |-> j - 1]
  BY <1>1 DEF ChunkBuffer, Slice
<1>3. /\ offset \in Nat /\ offset < Len(buf)
      /\ j > 1 => j - 1 \in Passes(Len(buf))
      /\ j + 1 \in Passes(Len(buf)) <=> offset + ChunkSize < Len(buf)
  BY <1>1, PassBounds
<1>4. end \in Nat /\ end > offset /\ end <= offset + ChunkSize /\ end <= Len(buf)
  BY <1>1, <1>3, ChunkSizeAssumption
<1>5. Len(slice) = end - offset /\ \A q \in 1..(end - offset) : slice[q] = buf[offset + q]
  <2> HIDE DEF offset, end
  <2>1. QED
    BY <1>3, <1>4
<1>6. /\ Len(slice) \in 1..ChunkSize
      /\ IF j + 1 \in Passes(Len(buf)) THEN Len(slice) = ChunkSize
                                       ELSE offset + Len(slice) = Len(buf)
  <2>1. end = IF j + 1 \in Passes(Len(buf)) THEN offset + ChunkSize ELSE Len(buf)
    BY <1>3
  <2> HIDE DEF offset, slice, end
  <2>2. QED
    BY <1>1, <1>3, <1>4, <1>5, <2>1, ChunkSizeAssumption
<1>7. QED
  <2> HIDE DEF offset, slice, end
  <2>1. QED
    BY <1>1, <1>2, <1>3, <1>5, <1>6 DEF offset
-----------------------------------------------------------------------------
(* What FlattenSeq makes of the chunks.  It is a recursive function; the   *)
(* induction over it goes by the smallest argument at which it could       *)
(* differ.                                                                 *)

LEMMA LeastNatural == ASSUME NEW S, S \subseteq Nat, S # {} PROVE \E x \in S : \A y \in S : x <= y
<1> DEFINE R == {ss \in Nat \X Nat : ss[1] < ss[2]}
<1>1. IsWellFoundedOn(R, Nat)
  BY NatLessThanWellFounded DEF OpToRel
<1>2. \A a, b \in Nat : a < b => <<a, b>> \in R
  OBVIOUS
<1> HIDE DEF R
<1>3. PICK x \in S : \A y \in S : ~(<<y, x>> \in R)
  BY <1>1, WFMin
<1>4. ASSUME NEW y \in S PROVE x <= y
  <2>1. x \in Nat /\ y \in Nat /\ ~(y < x)
    BY <1>2, <1>3
  <2>2. QED
    BY <2>1
<1>5. QED
  BY <1>4

(* g adds the pieces up, one after another. *)
AddsUp(g, seqs, n) == \A q \in 1..n : g[q] = IF q = 1 THEN seqs[q] ELSE g[q - 1] \o seqs[q]

(* Any such g gives FlattenSeq's result. *)
LEMMA FlattenByPieces ==
    ASSUME NEW seqs, NEW n \in Nat \ {0}, Len(seqs) = n, NEW S, NEW g \in [1..n -> S],
           AddsUp(g, seqs, n)
    PROVE  FlattenSeq(seqs) = g[n]
<1> DEFINE Adds(f) == f = [q \in 1..n |-> IF q = 1 THEN seqs[q] ELSE f[q - 1] \o seqs[q]]
           flatten == CHOOSE f : Adds(f)
           Differ == {q \in 1..n : flatten[q] # g[q]}
<1>1. FlattenSeq(seqs) = flatten[n]
  BY DEF FlattenSeq
<1>2. Adds(flatten)
  <2>1. Adds(g)
    BY DEF AddsUp
  <2> HIDE DEF Adds
  <2>2. QED
    BY <2>1
<1> HIDE DEF flatten
<1>3. ASSUME Differ # {} PROVE FALSE
  <2>1. PICK x \in Differ : \A y \in Differ : x <= y
    <3>1. Differ \subseteq Nat
      OBVIOUS
    <3> HIDE DEF Differ
    <3>2. QED
      BY <1>3, <3>1, LeastNatural
  <2>2. x \in 1..n /\ flatten[x] # g[x]
    OBVIOUS
  <2>3. /\ flatten[x] = IF x = 1 THEN seqs[x] ELSE flatten[x - 1] \o seqs[x]
        /\ g[x] = IF x = 1 THEN seqs[x] ELSE g[x - 1] \o seqs[x]
    BY <1>2, <2>2 DEF AddsUp
  <2>4. x # 1
    BY <2>2, <2>3
  <2>5. x - 1 \in 1..n /\ x - 1 \notin Differ
    BY <2>1, <2>2, <2>4
  <2>6. QED
    BY <2>2, <2>3, <2>4, <2>5
<1>4. QED
  BY <1>1, <1>3

(* A prefix is a shorter prefix and the piece that follows it. *)
LEMMA SubSeqSplit ==
    ASSUME NEW Byte, NEW buf \in Seq(Byte), NEW a \in Nat, NEW b \in Nat, a <= b, b <= Len(buf)
    PROVE  SubSeq(buf, 1, b) = SubSeq(buf, 1, a) \o SubSeq(buf, a + 1, b)
<1> DEFINE s == SubSeq(buf, 1, a)
           t == SubSeq(buf, a + 1, b)
<1>1. s \in Seq(Byte) /\ Len(s) = a /\ \A q \in 1..a : s[q] = buf[q]
  OBVIOUS
<1>2. t \in Seq(Byte) /\ Len(t) = b - a /\ \A q \in 1..(b - a) : t[q] = buf[a + q]
  OBVIOUS
<1>3. /\ SubSeq(buf, 1, b) \in Seq(Byte) /\ Len(SubSeq(buf, 1, b)) = b
      /\ \A q \in 1..b : SubSeq(buf, 1, b)[q] = buf[q]
  OBVIOUS
<1> HIDE DEF s, t
<1>4. s \o t \in Seq(Byte) /\ Len(s \o t) = b /\ \A q \in 1..b : (s \o t)[q] = buf[q]
  <2>1. /\ s \o t \in Seq(Byte) /\ Len(s \o t) = Len(s) + Len(t)
        /\ \A q \in 1..(Len(s) + Len(t)) :
              (s \o t)[q] = IF q <= Len(s) THEN s[q] ELSE t[q - Len(s)]
    BY <1>1, <1>2, ConcatProperties
  <2>2. ASSUME NEW q \in 1..b
        PROVE  buf[q] = IF q <= Len(s) THEN s[q] ELSE t[q - Len(s)]
    <3>1. CASE q <= a
      BY <1>1, <3>1
    <3>2. CASE ~(q <= a)
      <4>1. q - a \in 1..(b - a) /\ a + (q - a) = q
        BY <3>2
      <4>2. t[q - a] = buf[q]
        BY <1>2, <4>1
      <4>3. QED
        BY <1>1, <3>2, <4>2
    <3>3. QED
      BY <3>1, <3>2
  <2>3. Len(s) + Len(t) = b
    BY <1>1, <1>2
  <2>4. QED
    BY <2>1, <2>2, <2>3
<1>5. QED
  BY <1>3, <1>4, SeqEqual DEF s, t

(* What a download puts together is what was cut: the bytes behind the     *)
(* hash list of a buffer, one after another, are the buffer.               *)
THEOREM ChunksJoin ==
    ASSUME NEW Byte, NEW buf \in Seq(Byte)
    PROVE  FlattenSeq([j \in DOMAIN ChunkHashes(buf) |-> ChunkHashes(buf)[j].sha256]) = buf
<1> DEFINE n == Len(buf)
           End(j) == IF (j - 1) * ChunkSize + ChunkSize < n
                     THEN (j - 1) * ChunkSize + ChunkSize ELSE n
           seqs == [j \in DOMAIN ChunkHashes(buf) |-> ChunkHashes(buf)[j].sha256]
<1>1. n \in Nat
  OBVIOUS
<1>2. PICK m \in Nat : Passes(n) = 1..m
  BY <1>1, PassesInterval
<1>3. seqs = [j \in 1..m |-> SubSeq(buf, (j - 1) * ChunkSize + 1, End(j))]
  BY <1>2 DEF ChunkHashes, ChunkBuffer, HashChunk, Slice
<1>4. CASE m = 0
  <2>1. n = 0
    <3>1. 1 \notin Passes(n)
      BY <1>2, <1>4
    <3>2. (1 - 1) * ChunkSize = 0
      BY ChunkSizeAssumption
    <3>3. QED
      BY <1>1, <3>1, <3>2 DEF Passes
  <2>2. buf = <<>> /\ seqs = <<>>
    BY <1>3, <1>4, <2>1
  <2> HIDE DEF seqs
  <2>3. QED
    BY <2>2 DEF FlattenSeq, seqs
<1>5. CASE m > 0
  <2> DEFINE g == [q \in 1..m |-> SubSeq(buf, 1, End(q))]
  <2>1. ASSUME NEW q \in 1..m
        PROVE  /\ (q - 1) * ChunkSize \in Nat /\ End(q) \in Nat
               /\ (q - 1) * ChunkSize <= End(q) /\ End(q) <= n
               /\ q > 1 => End(q - 1) = (q - 1) * ChunkSize
    <3>1. /\ q \in Passes(n) /\ (q - 1) * ChunkSize \in Nat /\ (q - 1) * ChunkSize < n
      BY <1>1, <1>2, PassBounds
    <3>2. q > 1 => (q - 1 - 1) * ChunkSize + ChunkSize = (q - 1) * ChunkSize
      BY <1>1, <1>2, PassBounds
    <3> DEFINE o == (q - 1) * ChunkSize
    <3>3. o \in Nat /\ o < n /\ (q > 1 => End(q - 1) = o)
      BY <3>1, <3>2
    <3>4. End(q) = IF o + ChunkSize < n THEN o + ChunkSize ELSE n
      OBVIOUS
    <3> HIDE DEF o, End
    <3>5. End(q) \in Nat /\ o <= End(q) /\ End(q) <= n
      BY <1>1, <3>3, <3>4, ChunkSizeAssumption
    <3>6. QED
      BY <3>3, <3>5 DEF o
  <2>2. ASSUME NEW q \in 1..m PROVE g[q] = IF q = 1 THEN seqs[q] ELSE g[q - 1] \o seqs[q]
    <3>1. g[q] = SubSeq(buf, 1, End(q)) /\ seqs[q] = SubSeq(buf, (q - 1) * ChunkSize + 1, End(q))
      BY <1>3
    <3>2. CASE q = 1
      <4>1. (q - 1) * ChunkSize + 1 = 1
        BY <3>2, ChunkSizeAssumption
      <4> HIDE DEF g, seqs, End
      <4>2. QED
        BY <3>1, <3>2, <4>1
    <3>3. CASE q # 1
      <4>1. g[q - 1] = SubSeq(buf, 1, (q - 1) * ChunkSize)
        <5>1. q - 1 \in 1..m /\ End(q - 1) = (q - 1) * ChunkSize
          BY <1>2, <2>1, <3>3
        <5> HIDE DEF End
        <5>2. QED
          BY <5>1
      <4>2. g[q] = SubSeq(buf, 1, (q - 1) * ChunkSize) \o SubSeq(buf, (q - 1) * ChunkSize + 1, End(q))
        <5> HIDE DEF g, seqs, End
        <5>1. QED
          BY <2>1, <3>1, SubSeqSplit
      <4>3. QED
        <5> HIDE DEF g, seqs, End
        <5>1. QED
          BY <3>1, <3>3, <4>1, <4>2
    <3>4. QED
      BY <3>2, <3>3
  <2>3. Len(seqs) = m
    BY <1>2, <1>3
  <2>4. End(m) = n
    <3>1. m \in Passes(n) /\ m + 1 \notin Passes(n)
      BY <1>2, <1>5
    <3>2. ~((m - 1) * ChunkSize + ChunkSize < n)
      BY <1>1, <3>1, PassBounds
    <3>3. QED
      BY <3>2
  <2>5. g \in [1..m -> Seq(Byte)]
    <3>1. \A q \in 1..m : SubSeq(buf, 1, End(q)) \in Seq(Byte)
      BY <2>1
    <3> HIDE DEF End
    <3>2. QED
      BY <3>1
  <2>6. g[m] = buf
    BY <1>1, <1>2, <1>5, <2>4
  <2>7. FlattenSeq(seqs) = g[m]
    <3> HIDE DEF g, seqs, End
    <3>1. QED
      <4>1. m \in Nat \ {0}
        BY <1>2, <1>5
      <4>2. QED
        <5>1. AddsUp(g, seqs, m)
          BY <2>2 DEF AddsUp
        <5>2. QED
          BY <2>3, <2>5, <4>1, <5>1, FlattenByPieces
  <2>8. QED
    BY <2>6, <2>7
<1>6. QED
  BY <1>2, <1>4, <1>5
=============================================================================
