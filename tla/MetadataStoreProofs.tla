------------------------ MODULE MetadataStoreProofs ------------------------
(***************************************************************************)
(* Proofs about MetadataStore, for any number of requests, workers,        *)
(* sweepers and chunks and any set of bodies.                              *)
(***************************************************************************)
EXTENDS MetadataStore, SequenceTheorems, TLAPS

Committing == {"version", "chunk", "bump"}
Releasing  == {"select", "manifest", "release", "row"}
Reading    == {"readVersion", "readManifest", "fetch", "served"}

(* What a handler's local variables hold at each of its statements. *)
LocalsOK ==
    \A r \in Req :
        /\ pc[r] = "bump" => k[r] <= Len(body[r])
        /\ pc[r] \in Committing => fileOf[r] \in Req
        /\ pc[r] \in Releasing => fileOf[r] \in Req /\ prev[r] \in Req
        /\ pc[r] \in Reading => prev[r] \in Req

TInv == TypeOK /\ LocalsOK

LEMMA BodySeq == ASSUME NEW b \in Body PROVE b \in Seq(Chunk) /\ Len(b) \in Nat
BY ConstantsAssumption

LEMMA DecrementedType ==
    ASSUME TypeOK, NEW h
    PROVE  /\ Decremented(h) \in [Chunk -> Int]
           /\ \A c \in Chunk \ counted : Decremented(h)[c] = 0
<1>1. /\ refcount \in [Chunk -> Int] /\ counted \subseteq Chunk
      /\ \A c \in Chunk \ counted : refcount[c] = 0
  BY DEF TypeOK
<1>2. QED
  BY <1>1 DEF Decremented

LEMMA TypeInit == Init => TInv
BY ConstantsAssumption DEF Init, TInv, TypeOK, LocalsOK, Live, Over, Sync,
   Committing, Releasing, Reading

(* Every step keeps the types and the handlers' local facts. *)
LEMMA TypeStep == TInv /\ [Next]_vars => TInv'
<1> SUFFICES ASSUME TypeOK, LocalsOK, [Next]_vars PROVE TInv'
  BY DEF TInv
<1> USE ConstantsAssumption
<1> USE DEF TInv, TypeOK, LocalsOK, Live, Over, Sync, Committing, Releasing,
            Reading, Goto, tables, locals, history
<1>1. ASSUME NEW r \in Req, NEW b \in Body, Post(r, b) PROVE TInv'
  BY <1>1 DEF Post
<1>2. ASSUME NEW r \in Req, NEW f \in Req, NEW b \in Body, Put(r, f, b) PROVE TInv'
  BY <1>2 DEF Put, FileFound
<1>3. ASSUME NEW r \in Req, NEW f \in Req, Download(r, f) PROVE TInv'
  BY <1>3 DEF Download
<1>4. ASSUME NEW r \in Req, Reject(r) PROVE TInv'
  BY <1>4 DEF Reject
<1>5. ASSUME NEW r \in Req, CreateFile(r) PROVE TInv'
  BY <1>5 DEF CreateFile
<1>6. ASSUME NEW r \in Req, InsertVersion(r) PROVE TInv'
  BY <1>6 DEF InsertVersion
<1>7. ASSUME NEW r \in Req, InsertChunk(r) PROVE TInv'
  <2>1. body[r] \in Seq(Chunk) /\ k[r] \in 1..Len(body[r])
    BY <1>7, BodySeq DEF InsertChunk, ManifestDone
  <2>2. body[r][k[r]] \in Chunk
    BY <2>1, ElementOfSeq
  <2>3. manifest' \in [Req -> Seq(Chunk)]
    BY <1>7, <2>2 DEF InsertChunk
  <2>4. /\ pc' = [pc EXCEPT ![r] = "bump"]
        /\ UNCHANGED <<files, versions, counted, refcount, locals, gcList, history>>
    BY <1>7 DEF InsertChunk
  <2>5. k[r] <= Len(body[r]) /\ fileOf[r] \in Req
    BY <1>7, <2>1 DEF InsertChunk
  <2>6. TypeOK'
    BY <2>3, <2>4
  <2>7. LocalsOK'
    BY <2>4, <2>5
  <2>8. QED
    BY <2>6, <2>7
<1>8. ASSUME NEW r \in Req, BumpRefcount(r) PROVE TInv'
  <2>1. body[r] \in Seq(Chunk) /\ k[r] \in 1..Len(body[r])
    BY <1>8, BodySeq DEF BumpRefcount
  <2> DEFINE h == body[r][k[r]]
  <2>2. h \in Chunk
    BY <2>1, ElementOfSeq
  <2>3. counted' = counted \cup {h} /\ refcount' = [refcount EXCEPT ![h] = @ + 1]
    BY <1>8 DEF BumpRefcount, Bumped
  <2>4. TypeOK'
    <3> HIDE DEF h
    <3>1. /\ counted' \subseteq Chunk /\ refcount' \in [Chunk -> Int]
          /\ \A c \in Chunk \ counted' : refcount'[c] = 0
      BY <2>2, <2>3
    <3>2. /\ pc' = [pc EXCEPT ![r] = "chunk"] /\ k' = [k EXCEPT ![r] = @ + 1]
          /\ UNCHANGED <<files, versions, manifest, host, fileOf, body, prev,
                         snap, gcList, history>>
      BY <1>8 DEF BumpRefcount
    <3>3. k' \in [Req -> Nat \ {0}] /\ pc' \in [Req -> Live \cup Over \cup {"idle"}]
      BY <3>2
    <3>4. QED
      BY <3>1, <3>2, <3>3
  <2>5. LocalsOK'
    BY <1>8 DEF BumpRefcount
  <2>6. QED
    BY <2>4, <2>5
<1>9. ASSUME NEW r \in Req, SetCurrent(r) PROVE TInv'
  BY <1>9 DEF SetCurrent
<1>10. ASSUME NEW r \in Req, SelectVersion(r) PROVE TInv'
  BY <1>10 DEF SelectVersion, AfterSelect
<1>11. ASSUME NEW r \in Req, SelectManifest(r) PROVE TInv'
  BY <1>11 DEF SelectManifest, Hashes
<1>12. ASSUME NEW r \in Req, Decrement(r) PROVE TInv'
  <2>1. /\ refcount' \in [Chunk -> Int]
        /\ \A h \in Chunk \ counted : refcount'[h] = 0
    BY <1>12, DecrementedType DEF Decrement
  <2>2. TypeOK'
    <3>1. /\ k' = [k EXCEPT ![r] = @ + 1]
          /\ UNCHANGED <<files, versions, manifest, counted, pc, host, fileOf,
                         body, prev, snap, gcList, history>>
      BY <1>12 DEF Decrement
    <3>2. QED
      BY <2>1, <3>1
  <2>3. LocalsOK'
    BY <1>12 DEF Decrement
  <2>4. QED
    BY <2>2, <2>3
<1>13. ASSUME NEW r \in Req, DeleteManifest(r) PROVE TInv'
  BY <1>13 DEF DeleteManifest
<1>14. ASSUME NEW r \in Req, DeleteVersionRow(r) PROVE TInv'
  BY <1>14 DEF DeleteVersionRow
<1>15. ASSUME NEW r \in Req, ReaderStep(r) PROVE TInv'
  <2>1. CASE ReadVersion(r)
    BY <2>1 DEF ReadVersion
  <2>2. CASE ReadManifest(r)
    BY <2>2 DEF ReadManifest
  <2>3. CASE Served(r)
    BY <2>3 DEF Served
  <2>4. QED
    BY <1>15, <2>1, <2>2, <2>3 DEF ReaderStep
<1>16. ASSUME NEW r \in Req, HandlerFails(r) PROVE TInv'
  BY <1>16 DEF HandlerFails
<1>17. ASSUME NEW w \in Worker, WorkerCrash(w) PROVE TInv'
  BY <1>17 DEF WorkerCrash
<1>18. ASSUME NEW s \in Sweeper, GcList(s) \/ GcStop(s) PROVE TInv'
  <2>1. Orphaned \in SUBSET Chunk
    BY DEF Orphaned
  <2>2. CASE GcList(s)
    BY <2>1, <2>2 DEF GcList
  <2>3. CASE GcStop(s)
    BY <2>3 DEF GcStop
  <2>4. QED
    BY <1>18, <2>2, <2>3
<1>19. ASSUME NEW s \in Sweeper, NEW h \in Chunk, GcReap(s, h) PROVE TInv'
  BY <1>19 DEF GcReap
<1>20. CASE UNCHANGED vars
  BY <1>20 DEF vars
<1>21. QED
  BY <1>1, <1>2, <1>3, <1>4, <1>5, <1>6, <1>7, <1>8, <1>9, <1>10, <1>11, <1>12,
     <1>13, <1>14, <1>15, <1>16, <1>17, <1>18, <1>19, <1>20 DEF Next, WriterStep

(* Type correctness: no interleaving of handlers, crashes and sweeps makes *)
(* a handler use a row or an index that is not there.                      *)
THEOREM TypeCorrect == Spec => []TypeOK
<1>1. Spec => []TInv
  BY TypeInit, TypeStep, PTL DEF Spec
<1>2. TInv => TypeOK
  BY DEF TInv
<1>3. QED
  BY <1>1, <1>2, PTL
-----------------------------------------------------------------------------
(* CurrentIntact.  It is not inductive: it says nothing of a version that  *)
(* is about to become current, nor of what a handler is about to delete.   *)
(* Inv adds that a version under construction has exactly the rows its     *)
(* loop has inserted, that nobody deletes a version before its commit is   *)
(* over (Settled), and that a handler in deleteVersion works on a version  *)
(* its own commit took out of the files table.                             *)

Settled(v) == pc[v] \in Releasing \cup {"done", "failed"}

(* The manifest rows of v are the first n entries of its body. *)
Copied(v, n) == /\ Len(manifest[v]) = n
                /\ \A i \in 1..n : manifest[v][i] = body[v][i]

(* A version that is being committed. *)
Building(r) ==
    /\ pc[r] = "idle" => fileOf[r] = NULL
    /\ pc[r] \in {"idle", "upload"} /\ fileOf[r] = NULL => prev[r] = NULL
    /\ pc[r] \in {"idle", "upload", "version"} => manifest[r] = <<>> /\ k[r] = 1
    /\ pc[r] \in {"chunk", "bump"} => r \in versions
    /\ pc[r] = "chunk" => k[r] <= Len(body[r]) + 1 /\ Copied(r, k[r] - 1)
    /\ pc[r] = "bump" => Copied(r, k[r])

(* The version a writer has read as its file's previous one. *)
Superseding(r) ==
    /\ pc[r] \in {"upload"} \cup Committing \cup Releasing /\ prev[r] \in Req =>
           Settled(prev[r]) /\ fileOf[prev[r]] = fileOf[r]
    /\ pc[r] \in Releasing => \A f \in Req : files[f] # prev[r]

(* The version a file points at. *)
Published(f) ==
    files[f] \in Req =>
        /\ files[f] \in versions
        /\ manifest[files[f]] = body[files[f]]
        /\ fileOf[files[f]] = f
        /\ Settled(files[f])

Inv == /\ \A r \in Req : Building(r)
       /\ \A r \in Req : Superseding(r)
       /\ \A f \in Req : Published(f)

LEMMA InvInit == Init => Inv
BY ConstantsAssumption DEF Init, Inv, Building, Superseding, Published, Committing, Releasing

(* Steps that touch no file, version, manifest or committing handler. *)
LEMMA StageStep ==
    ASSUME TInv, Inv,
           UNCHANGED <<files, versions, manifest, fileOf, body, prev>>,
           pc' \in [Req -> Live \cup Over \cup {"idle"}],
           \A q \in Req :
               \/ pc'[q] = pc[q] /\ k'[q] = k[q]
               \/ pc[q] \in Releasing /\ pc'[q] \in Releasing \cup {"done"}
               \/ pc[q] \in Reading /\ pc'[q] \in Reading
               \/ pc'[q] = "failed"
    PROVE  Inv'
<1> USE DEF Inv, Committing, Releasing, Reading
<1>1. ASSUME NEW r \in Req, Settled(r) PROVE Settled(r)'
  BY <1>1 DEF Settled
<1>2. ASSUME NEW r \in Req PROVE Building(r)'
  BY DEF Building, Copied
<1>3. ASSUME NEW r \in Req PROVE Superseding(r)'
  BY <1>1 DEF Superseding
<1>4. ASSUME NEW f \in Req PROVE Published(f)'
  BY <1>1 DEF Published
<1>5. QED
  BY <1>2, <1>3, <1>4

LEMMA PostStep == ASSUME TInv, Inv, NEW r \in Req, NEW b \in Body, Post(r, b) PROVE Inv'
<1> USE DEF Inv, TInv, TypeOK, Post, Goto, tables, history, Committing, Releasing
<1>1. ASSUME NEW q \in Req, Settled(q) PROVE Settled(q)' /\ q # r
  BY <1>1 DEF Settled
<1>2. ASSUME NEW q \in Req PROVE Building(q)'
  BY DEF Building, Copied
<1>3. ASSUME NEW q \in Req PROVE Superseding(q)'
  BY <1>1, ConstantsAssumption DEF Superseding, Building
<1>4. ASSUME NEW f \in Req PROVE Published(f)'
  BY <1>1 DEF Published
<1>5. QED
  BY <1>2, <1>3, <1>4

LEMMA PutStep ==
    ASSUME TInv, Inv, NEW r \in Req, NEW f \in Req, NEW b \in Body, Put(r, f, b)
    PROVE  Inv'
<1> USE DEF Inv, TInv, TypeOK, Put, FileFound, Goto, tables, history, Committing, Releasing
<1>1. ASSUME NEW q \in Req, Settled(q) PROVE Settled(q)' /\ q # r
  BY <1>1 DEF Settled
<1>2. ASSUME NEW q \in Req PROVE Building(q)'
  <2>1. CASE q = r
    BY <2>1, ConstantsAssumption DEF Building
  <2>2. CASE q # r
    <3>1. /\ pc'[q] = pc[q] /\ prev'[q] = prev[q] /\ fileOf'[q] = fileOf[q]
          /\ body'[q] = body[q] /\ k'[q] = k[q] /\ manifest' = manifest /\ versions' = versions
      BY <2>2
    <3>2. QED
      BY <3>1 DEF Building, Copied
  <2>3. QED
    BY <2>1, <2>2
<1>3. ASSUME NEW q \in Req PROVE Superseding(q)'
  BY <1>1 DEF Superseding, Building, Published
<1>4. ASSUME NEW g \in Req PROVE Published(g)'
  BY <1>1 DEF Published
<1>5. QED
  BY <1>2, <1>3, <1>4

LEMMA DownloadStep ==
    ASSUME TInv, Inv, NEW r \in Req, NEW f \in Req, Download(r, f)
    PROVE  Inv'
<1> USE DEF Inv, TInv, TypeOK, Download, Goto, tables, history, Committing, Releasing
<1>1. ASSUME NEW q \in Req, Settled(q) PROVE Settled(q)' /\ q # r
  BY <1>1 DEF Settled
<1>2. ASSUME NEW q \in Req PROVE Building(q)'
  BY DEF Building, Copied
<1>3. ASSUME NEW q \in Req PROVE Superseding(q)'
  BY <1>1 DEF Superseding
<1>4. ASSUME NEW g \in Req PROVE Published(g)'
  BY <1>1 DEF Published
<1>5. QED
  BY <1>2, <1>3, <1>4

LEMMA CreateFileStep == ASSUME TInv, Inv, NEW r \in Req, CreateFile(r) PROVE Inv'
<1> USE ConstantsAssumption
    DEF Inv, TInv, TypeOK, CreateFile, Goto, history, Committing, Releasing
<1>1. ASSUME NEW q \in Req, Settled(q) PROVE Settled(q)' /\ q # r
  BY <1>1 DEF Settled
<1>2. ASSUME NEW q \in Req PROVE Building(q)'
  BY DEF Building, Copied
<1>3. ASSUME NEW q \in Req PROVE Superseding(q)'
  <2>1. CASE q = r
    <3>1. prev[r] = NULL
      BY DEF Building
    <3>2. QED
      BY <2>1, <3>1 DEF Superseding
  <2>2. CASE q # r
    <3>1. /\ pc'[q] = pc[q] /\ prev'[q] = prev[q] /\ fileOf'[q] = fileOf[q]
          /\ \A p \in Req : p # r => fileOf'[p] = fileOf[p]
      BY <2>2
    <3>2. ASSUME NEW f \in Req, prev[q] \in Req, files'[f] = prev[q] PROVE files[f] = prev[q]
      BY <3>2
    <3>3. Superseding(q)
      OBVIOUS
    <3>4. pc[q] \in Releasing => prev[q] \in Req
      BY DEF LocalsOK
    <3>5. QED
      BY <1>1, <3>1, <3>2, <3>3, <3>4 DEF Superseding
  <2>3. QED
    BY <2>1, <2>2
<1>4. ASSUME NEW f \in Req PROVE Published(f)'
  BY <1>1 DEF Published
<1>5. QED
  BY <1>2, <1>3, <1>4

LEMMA InsertVersionStep == ASSUME TInv, Inv, NEW r \in Req, InsertVersion(r) PROVE Inv'
<1> USE DEF Inv, TInv, TypeOK, InsertVersion, Goto, locals, history, Committing, Releasing
<1>1. ASSUME NEW q \in Req, Settled(q) PROVE Settled(q)' /\ q # r
  BY <1>1 DEF Settled
<1>2. ASSUME NEW q \in Req PROVE Building(q)'
  BY BodySeq, EmptySeq DEF Building, Copied
<1>3. ASSUME NEW q \in Req PROVE Superseding(q)'
  BY <1>1 DEF Superseding
<1>4. ASSUME NEW f \in Req PROVE Published(f)'
  BY <1>1 DEF Published
<1>5. QED
  BY <1>2, <1>3, <1>4

LEMMA InsertChunkStep == ASSUME TInv, Inv, NEW r \in Req, InsertChunk(r) PROVE Inv'
<1> USE DEF Inv, TInv, TypeOK, Goto, Committing, Releasing
<1>0. /\ pc[r] = "chunk" /\ k[r] <= Len(body[r])
      /\ manifest' = [manifest EXCEPT ![r] = Append(manifest[r], body[r][k[r]])]
      /\ pc' = [pc EXCEPT ![r] = "bump"]
      /\ UNCHANGED <<files, versions, fileOf, body, prev, k>>
  BY BodySeq DEF InsertChunk, ManifestDone, locals
<1>1. ASSUME NEW q \in Req, Settled(q) PROVE Settled(q)' /\ q # r
  BY <1>0, <1>1 DEF Settled
<1>2. ASSUME NEW q \in Req PROVE Building(q)'
  <2>1. CASE q = r
    <3>1. /\ manifest[r] \in Seq(Chunk) /\ body[r] \in Seq(Chunk)
          /\ k[r] \in 1..Len(body[r]) /\ Copied(r, k[r] - 1) /\ r \in versions
      BY <1>0, BodySeq DEF Building
    <3> DEFINE m == manifest[r]
               e == body[r][k[r]]
    <3>2. /\ Len(Append(m, e)) = Len(m) + 1
          /\ \A i \in 1..Len(m) : Append(m, e)[i] = m[i]
          /\ Append(m, e)[Len(m) + 1] = e
      BY <3>1, ElementOfSeq
    <3>3. manifest'[r] = Append(m, e) /\ body'[r] = body[r] /\ k'[r] = k[r]
      BY <1>0
    <3>4. Copied(r, k[r])'
      <4> HIDE DEF e
      <4>1. Len(m) = k[r] - 1 /\ \A i \in 1..(k[r] - 1) : m[i] = body[r][i]
        BY <3>1 DEF Copied
      <4>2. \A i \in 1..k[r] : Append(m, e)[i] = body[r][i]
        <5> SUFFICES ASSUME NEW i \in 1..k[r] PROVE Append(m, e)[i] = body[r][i]
          OBVIOUS
        <5>1. CASE i = k[r]
          BY <3>1, <3>2, <4>1, <5>1 DEF e
        <5>2. CASE i # k[r]
          BY <3>1, <3>2, <4>1, <5>2
        <5>3. QED
          BY <5>1, <5>2
      <4>3. QED
        BY <3>1, <3>2, <3>3, <4>1, <4>2 DEF Copied
    <3>5. QED
      BY <1>0, <2>1, <3>1, <3>4 DEF Building
  <2>2. CASE q # r
    <3>1. /\ pc'[q] = pc[q] /\ manifest'[q] = manifest[q]
          /\ UNCHANGED <<versions, fileOf, body, prev, k>>
      BY <1>0, <2>2
    <3>2. QED
      BY <3>1 DEF Building, Copied
  <2>3. QED
    BY <2>1, <2>2
<1>3. ASSUME NEW q \in Req PROVE Superseding(q)'
  BY <1>0, <1>1 DEF Superseding
<1>4. ASSUME NEW f \in Req PROVE Published(f)'
  <2>1. files[f] \in Req => manifest'[files[f]] = manifest[files[f]]
    BY <1>0, <1>1 DEF Published
  <2>2. QED
    BY <1>0, <1>1, <2>1 DEF Published
<1>5. QED
  BY <1>2, <1>3, <1>4

LEMMA BumpRefcountStep == ASSUME TInv, Inv, NEW r \in Req, BumpRefcount(r) PROVE Inv'
<1> USE DEF Inv, TInv, TypeOK, Goto, Committing, Releasing
<1>0. /\ pc[r] = "bump" /\ k' = [k EXCEPT ![r] = @ + 1]
      /\ pc' = [pc EXCEPT ![r] = "chunk"]
      /\ UNCHANGED <<files, versions, manifest, fileOf, body, prev>>
  BY DEF BumpRefcount
<1>1. ASSUME NEW q \in Req, Settled(q) PROVE Settled(q)' /\ q # r
  BY <1>0, <1>1 DEF Settled
<1>2. ASSUME NEW q \in Req PROVE Building(q)'
  <2>1. CASE q = r
    <3>1. k'[r] = k[r] + 1 /\ k[r] \in Nat /\ Len(body[r]) \in Nat /\ k[r] <= Len(body[r])
      BY <1>0, BodySeq DEF LocalsOK
    <3>2. Copied(r, k[r]) /\ r \in versions
      BY <1>0 DEF Building
    <3>3. Copied(r, k[r] - 1)'
      <4>1. k'[r] - 1 = k[r]
        BY <3>1
      <4>2. manifest'[r] = manifest[r] /\ body'[r] = body[r]
        BY <1>0
      <4>3. QED
        BY <3>2, <4>1, <4>2 DEF Copied
    <3>4. QED
      BY <1>0, <2>1, <3>1, <3>2, <3>3 DEF Building
  <2>2. CASE q # r
    <3>1. /\ pc'[q] = pc[q] /\ k'[q] = k[q]
          /\ UNCHANGED <<versions, manifest, fileOf, body, prev>>
      BY <1>0, <2>2
    <3>2. QED
      BY <3>1 DEF Building, Copied
  <2>3. QED
    BY <2>1, <2>2
<1>3. ASSUME NEW q \in Req PROVE Superseding(q)'
  BY <1>0, <1>1 DEF Superseding
<1>4. ASSUME NEW f \in Req PROVE Published(f)'
  BY <1>0, <1>1 DEF Published
<1>5. QED
  BY <1>2, <1>3, <1>4

LEMMA SetCurrentStep == ASSUME TInv, Inv, NEW r \in Req, SetCurrent(r) PROVE Inv'
<1> USE DEF Inv, TInv, TypeOK, Goto, Committing, Releasing
<1>0. /\ pc[r] = "chunk" /\ k[r] > Len(body[r])
      /\ files' = [files EXCEPT ![fileOf[r]] = r]
      /\ pc' = [pc EXCEPT ![r] = IF prev[r] = NULL THEN "done" ELSE "select"]
      /\ UNCHANGED <<versions, manifest, fileOf, body, prev, k>>
  BY DEF SetCurrent, ManifestDone, locals
<1>1. ASSUME NEW q \in Req, Settled(q) PROVE Settled(q)' /\ q # r
  BY <1>0, <1>1 DEF Settled
<1>2. fileOf[r] \in Req /\ r \in versions /\ Settled(r)'
  BY <1>0 DEF LocalsOK, Building, Settled
<1>3. manifest[r] = body[r]
  <2>1. /\ Copied(r, k[r] - 1) /\ k[r] - 1 = Len(body[r])
        /\ manifest[r] \in Seq(Chunk) /\ body[r] \in Seq(Chunk)
    BY <1>0, BodySeq DEF Building
  <2>2. QED
    BY <2>1, SeqEqual DEF Copied
<1>4. ASSUME NEW q \in Req PROVE Building(q)'
  <2>1. CASE q = r
    BY <1>0, <2>1 DEF Building
  <2>2. CASE q # r
    BY <1>0, <2>2 DEF Building, Copied
  <2>3. QED
    BY <2>1, <2>2
<1>5. ASSUME NEW q \in Req PROVE Superseding(q)'
  <2>1. CASE q = r
    \* No other file points at prev[r], and r's own now points at r.
    <3>1. ASSUME prev[r] \in Req
          PROVE  /\ Settled(prev[r]) /\ fileOf[prev[r]] = fileOf[r]
                 /\ \A f \in Req : files'[f] # prev[r]
      <4>1. Settled(prev[r]) /\ fileOf[prev[r]] = fileOf[r]
        BY <1>0, <3>1 DEF Superseding
      <4>2. prev[r] # r
        BY <1>1, <3>1, <4>1
      <4>3. ASSUME NEW f \in Req PROVE files'[f] # prev[r]
        <5>1. CASE f = fileOf[r]
          BY <1>0, <1>2, <4>2, <5>1
        <5>2. CASE f # fileOf[r]
          BY <1>0, <3>1, <4>1, <5>2 DEF Published
        <5>3. QED
          BY <5>1, <5>2
      <4>4. QED
        BY <4>1, <4>3
    <3>2. pc'[r] \in Releasing => prev[r] \in Req
      BY <1>0
    <3>3. QED
      BY <1>0, <1>1, <2>1, <3>1, <3>2 DEF Superseding
  <2>2. CASE q # r
    <3>1. pc'[q] = pc[q] /\ UNCHANGED <<fileOf, prev>>
      BY <1>0, <2>2
    <3>2. ASSUME pc[q] \in Releasing, NEW f \in Req PROVE files'[f] # prev[q]
      <4>1. prev[q] \in Req /\ prev[q] # r
        BY <1>1, <3>2 DEF LocalsOK, Superseding
      <4>2. files[f] # prev[q]
        BY <3>2 DEF Superseding
      <4>3. QED
        BY <1>0, <1>2, <4>1, <4>2
    <3>3. QED
      BY <1>1, <3>1, <3>2 DEF Superseding
  <2>3. QED
    BY <2>1, <2>2
<1>6. ASSUME NEW f \in Req PROVE Published(f)'
  <2>1. CASE f = fileOf[r]
    BY <1>0, <1>2, <1>3, <2>1 DEF Published
  <2>2. CASE f # fileOf[r]
    BY <1>0, <1>1, <2>2 DEF Published
  <2>3. QED
    BY <2>1, <2>2
<1>7. QED
  BY <1>4, <1>5, <1>6

(* deleteVersion takes rows of prev[r] only, and prev[r] is neither        *)
(* current nor being committed.                                            *)
LEMMA DeleteStep ==
    ASSUME TInv, Inv, NEW r \in Req, DeleteManifest(r) \/ DeleteVersionRow(r)
    PROVE  Inv'
<1> USE DEF Inv, TInv, TypeOK, Goto, Committing, Releasing
<1>0. /\ pc[r] \in {"release", "row"}
      /\ pc' \in {[pc EXCEPT ![r] = "row"], [pc EXCEPT ![r] = "done"]}
      /\ \A v \in Req : v # prev[r] => manifest'[v] = manifest[v]
      /\ \A v \in versions : v # prev[r] => v \in versions'
      /\ UNCHANGED <<files, fileOf, body, prev, k>>
  BY DEF DeleteManifest, DeleteVersionRow, locals
<1>1. prev[r] \in Req /\ Settled(prev[r]) /\ \A f \in Req : files[f] # prev[r]
  BY <1>0 DEF LocalsOK, Superseding
<1>2. ASSUME NEW q \in Req, Settled(q) PROVE Settled(q)'
  BY <1>0, <1>2 DEF Settled
<1>3. ASSUME NEW q \in Req PROVE Building(q)'
  <2>1. CASE q = r
    BY <1>0, <2>1 DEF Building
  <2>2. CASE q # r /\ Settled(q)
    <3>1. pc'[q] = pc[q]
      BY <1>0, <2>2
    <3>2. QED
      BY <2>2, <3>1 DEF Building, Settled
  <2>3. CASE q # r /\ ~Settled(q)
    <3>1. /\ pc'[q] = pc[q] /\ manifest'[q] = manifest[q]
          /\ (q \in versions => q \in versions')
      BY <1>0, <1>1, <2>3
    <3>2. QED
      BY <1>0, <3>1 DEF Building, Copied
  <2>4. QED
    BY <2>1, <2>2, <2>3
<1>4. ASSUME NEW q \in Req PROVE Superseding(q)'
  <2>1. pc'[q] \in {"upload"} \cup Committing \cup Releasing
          => pc[q] \in {"upload"} \cup Committing \cup Releasing
    BY <1>0
  <2>2. pc'[q] \in Releasing => pc[q] \in Releasing
    BY <1>0
  <2>3. QED
    BY <1>0, <1>2, <2>1, <2>2 DEF Superseding
<1>5. ASSUME NEW f \in Req PROVE Published(f)'
  BY <1>0, <1>1, <1>2 DEF Published
<1>6. QED
  BY <1>3, <1>4, <1>5

(* Every step keeps Inv. *)
LEMMA InvStep == ASSUME TInv, TInv', Inv, [Next]_vars PROVE Inv'
<1> USE DEF TInv, TypeOK, Goto, Live, Over, Sync, Releasing, Reading, tables, locals, history
<1>1. ASSUME NEW r \in Req, Reject(r) PROVE Inv'
  BY <1>1, StageStep DEF Reject
<1>2. ASSUME NEW r \in Req, SelectVersion(r) PROVE Inv'
  BY <1>2, StageStep DEF SelectVersion, AfterSelect
<1>3. ASSUME NEW r \in Req, SelectManifest(r) PROVE Inv'
  BY <1>3, StageStep DEF SelectManifest
<1>4. ASSUME NEW r \in Req, Decrement(r) PROVE Inv'
  BY <1>4, StageStep DEF Decrement
<1>5. ASSUME NEW r \in Req, ReadVersion(r) PROVE Inv'
  BY <1>5, StageStep DEF ReadVersion
<1>6. ASSUME NEW r \in Req, ReadManifest(r) PROVE Inv'
  BY <1>6, StageStep DEF ReadManifest
<1>7. ASSUME NEW r \in Req, Served(r) PROVE Inv'
  BY <1>7, StageStep DEF Served
<1>8. ASSUME NEW r \in Req, HandlerFails(r) PROVE Inv'
  BY <1>8, StageStep DEF HandlerFails
<1>9. ASSUME NEW w \in Worker, WorkerCrash(w) PROVE Inv'
  BY <1>9, StageStep DEF WorkerCrash
<1>10. ASSUME NEW s \in Sweeper, \/ GcList(s) \/ GcStop(s)
                                \/ \E h \in Chunk : GcReap(s, h)
       PROVE Inv'
  <2>1. UNCHANGED <<files, versions, manifest, fileOf, body, prev, pc, k>>
    BY <1>10 DEF GcList, GcStop, GcReap
  <2>2. QED
    BY <2>1, StageStep
<1>11. CASE UNCHANGED vars
  BY <1>11, StageStep DEF vars
<1>12. ASSUME NEW r \in Req, ReaderStep(r) PROVE Inv'
  BY <1>5, <1>6, <1>7, <1>12 DEF ReaderStep
<1>13. ASSUME NEW r \in Req, WriterStep(r) PROVE Inv'
  BY <1>2, <1>3, <1>4, <1>13, CreateFileStep, InsertVersionStep, InsertChunkStep,
     BumpRefcountStep, SetCurrentStep, DeleteStep DEF WriterStep
<1>14. QED
  BY <1>1, <1>8, <1>9, <1>10, <1>11, <1>12, <1>13, PostStep, PutStep, DownloadStep DEF Next

LEMMA InvAlways == Spec => [](TInv /\ Inv)
<1>1. Init => TInv /\ Inv
  BY TypeInit, InvInit
<1>2. (TInv /\ Inv) /\ [Next]_vars => (TInv /\ Inv)'
  BY TypeStep, InvStep
<1>3. QED
  BY <1>1, <1>2, PTL DEF Spec

(* Whatever other workers commit, delete or leave half done, a file's      *)
(* current version has its row and the whole manifest its upload sent.     *)
THEOREM CurrentStaysIntact == Spec => []CurrentIntact
<1>1. Inv => CurrentIntact
  BY DEF Inv, Published, CurrentIntact
<1>2. QED
  BY <1>1, InvAlways, PTL
-----------------------------------------------------------------------------
(* Refinement.  SetCurrent is the one step that applies a request; every   *)
(* other step changes a phase or nothing that FileRegister sees.           *)

(* A file has no row before its POST creates it, and one from then on. *)
Born(r) == /\ pc[r] \in {"idle", "upload"} /\ fileOf[r] = NULL => files[r] = NoFile
           /\ fileOf[r] \in Req => files[fileOf[r]] # NoFile

BInv == \A r \in Req : Born(r)

LEMMA BornInit == Init => BInv
BY ConstantsAssumption DEF Init, BInv, Born

LEMMA BornStep == ASSUME TInv, BInv, [Next]_vars PROVE BInv'
<1> USE ConstantsAssumption
    DEF TInv, TypeOK, BInv, Born, Goto, Live, Over, Sync, tables, locals, history
<1>1. ASSUME UNCHANGED <<files, fileOf>>,
             \A q \in Req : pc'[q] \in {"idle", "upload"} => pc[q] \in {"idle", "upload"}
      PROVE  BInv'
  BY <1>1
<1>2. ASSUME NEW r \in Req, NEW b \in Body, Post(r, b) PROVE BInv'
  BY <1>1, <1>2 DEF Post
<1>3. ASSUME NEW r \in Req, NEW f \in Req, NEW b \in Body, Put(r, f, b) PROVE BInv'
  BY <1>3 DEF Put, FileFound
<1>4. ASSUME NEW r \in Req, CreateFile(r) PROVE BInv'
  BY <1>4 DEF CreateFile
<1>5. ASSUME NEW r \in Req, SetCurrent(r) PROVE BInv'
  <2>1. /\ fileOf[r] \in Req /\ files' = [files EXCEPT ![fileOf[r]] = r]
        /\ pc' \in {[pc EXCEPT ![r] = "done"], [pc EXCEPT ![r] = "select"]}
        /\ UNCHANGED fileOf
    BY <1>5 DEF SetCurrent, LocalsOK, Committing
  <2>2. QED
    BY <2>1
<1>6. ASSUME NEW r \in Req,
             \/ \E f \in Req : Download(r, f)
             \/ Reject(r) \/ HandlerFails(r) \/ ReaderStep(r)
             \/ InsertVersion(r) \/ InsertChunk(r) \/ BumpRefcount(r)
             \/ SelectVersion(r) \/ SelectManifest(r) \/ Decrement(r)
             \/ DeleteManifest(r) \/ DeleteVersionRow(r)
      PROVE  BInv'
  <2>1. UNCHANGED <<files, fileOf>>
    BY <1>6 DEF Download, Reject, HandlerFails, ReaderStep, ReadVersion, ReadManifest,
         Served, InsertVersion, InsertChunk, BumpRefcount, SelectVersion, SelectManifest,
         Decrement, DeleteManifest, DeleteVersionRow
  <2>2. pc' = pc \/ \E l \in (Live \cup Over) \ {"upload"} : pc' = [pc EXCEPT ![r] = l]
    BY <1>6 DEF Download, Reject, HandlerFails, ReaderStep, ReadVersion, ReadManifest,
         Served, InsertVersion, InsertChunk, BumpRefcount, SelectVersion, SelectManifest,
         Decrement, DeleteManifest, DeleteVersionRow, AfterSelect
  <2>3. QED
    BY <1>1, <2>1, <2>2
<1>7. ASSUME NEW w \in Worker, WorkerCrash(w) PROVE BInv'
  BY <1>1, <1>7 DEF WorkerCrash
<1>8. ASSUME NEW s \in Sweeper, \/ GcList(s) \/ GcStop(s)
                               \/ \E h \in Chunk : GcReap(s, h)
      PROVE BInv'
  BY <1>1, <1>8 DEF GcList, GcStop, GcReap
<1>9. CASE UNCHANGED vars
  BY <1>1, <1>9 DEF vars
<1>10. QED
  BY <1>2, <1>3, <1>4, <1>5, <1>6, <1>7, <1>8, <1>9 DEF Next, WriterStep

LEMMA RegisterInit == Init => Register!Init
BY ConstantsAssumption
   DEF Init, Register!Init, ContentOf, PhaseOf, TargetOf

(* A step that keeps files and the manifests they point at keeps contents. *)
LEMMA ContentsKept ==
    ASSUME TInv, Inv, UNCHANGED files,
           \A v \in Req : Settled(v) => manifest'[v] = manifest[v] \/ \A f \in Req : files[f] # v
    PROVE  [f \in Req |-> ContentOf(f)]' = [f \in Req |-> ContentOf(f)]
BY DEF Inv, Published, ContentOf

LEMMA Stutter ==
    ASSUME [f \in Req |-> ContentOf(f)]' = [f \in Req |-> ContentOf(f)],
           \A q \in Req : PhaseOf(q)' = PhaseOf(q),
           \A q \in Req : TargetOf(q)' = TargetOf(q),
           UNCHANGED body
    PROVE  UNCHANGED Register!vars
BY DEF Register!vars

LEMMA SubmitStep ==
    ASSUME TInv, Inv, NEW r \in Req, NEW f \in Req, NEW b \in Body,
           Post(r, b) \/ Put(r, f, b)
    PROVE  Register!Next
<1> DEFINE g == IF Post(r, b) THEN r ELSE f
<1> USE DEF TInv, TypeOK, Goto, tables
<1>1. pc[r] = "idle" /\ pc' = [pc EXCEPT ![r] = "upload"] /\ body' = [body EXCEPT ![r] = b]
  BY DEF Post, Put
<1>2. UNCHANGED <<files, manifest>> /\ fileOf[r] = NULL
  BY <1>1 DEF Post, Put, Inv, Building
<1>3. [q \in Req |-> PhaseOf(q)]' = [[q \in Req |-> PhaseOf(q)] EXCEPT ![r] = "pending"]
  BY <1>1 DEF PhaseOf
<1>4. [q \in Req |-> TargetOf(q)]' = [[q \in Req |-> TargetOf(q)] EXCEPT ![r] = g]
  <2>1. CASE Post(r, b)
    BY <1>2, <2>1 DEF Post, TargetOf
  <2>2. CASE ~Post(r, b)
    <3>1. fileOf' = [fileOf EXCEPT ![r] = f] /\ f # NULL /\ g = f
      BY <2>2, ConstantsAssumption DEF Put
    <3>2. QED
      BY <3>1 DEF TargetOf
  <2>3. QED
    BY <2>1, <2>2
<1>5. [q \in Req |-> ContentOf(q)]' = [q \in Req |-> ContentOf(q)]
  BY <1>2 DEF ContentOf
<1>6. PhaseOf(r) = "new"
  BY <1>1 DEF PhaseOf
<1>7. g \in Req
  OBVIOUS
<1>8. Register!Submit(r)
  BY <1>1, <1>3, <1>4, <1>5, <1>6, <1>7 DEF Register!Submit
<1>9. QED
  BY <1>8 DEF Register!Next

LEMMA ApplyStep == ASSUME TInv, Inv, NEW r \in Req, SetCurrent(r) PROVE Register!Next
<1> USE DEF TInv, TypeOK, Goto
<1>1. /\ pc[r] = "chunk" /\ k[r] > Len(body[r])
      /\ files' = [files EXCEPT ![fileOf[r]] = r]
      /\ UNCHANGED <<manifest, fileOf, body>>
  BY DEF SetCurrent, ManifestDone, locals
<1>2. fileOf[r] \in Req /\ fileOf[r] # NULL
  BY <1>1, ConstantsAssumption DEF LocalsOK, Committing
<1>3. manifest[r] = body[r]
  <2>1. /\ Copied(r, k[r] - 1) /\ k[r] - 1 = Len(body[r])
        /\ manifest[r] \in Seq(Chunk) /\ body[r] \in Seq(Chunk)
    BY <1>1, BodySeq DEF Inv, Building
  <2>2. QED
    BY <2>1, SeqEqual DEF Copied
<1>4. [f \in Req |-> ContentOf(f)]'
        = [[f \in Req |-> ContentOf(f)] EXCEPT ![TargetOf(r)] = body[r]]
  BY <1>1, <1>2, <1>3 DEF ContentOf, TargetOf
<1>5. PICK p \in {"applied", "acked"} :
        [q \in Req |-> PhaseOf(q)]' = [[q \in Req |-> PhaseOf(q)] EXCEPT ![r] = p]
  <2>1. CASE prev[r] = NULL
    BY <2>1 DEF SetCurrent, PhaseOf
  <2>2. CASE prev[r] # NULL
    BY <2>2 DEF SetCurrent, PhaseOf
  <2>3. QED
    BY <2>1, <2>2
<1>6. [q \in Req |-> TargetOf(q)]' = [q \in Req |-> TargetOf(q)]
  BY <1>1 DEF TargetOf
<1>7. PhaseOf(r) = "pending"
  BY <1>1 DEF PhaseOf
<1>8. Register!Apply(r)
  BY <1>1, <1>4, <1>5, <1>6, <1>7 DEF Register!Apply
<1>9. QED
  BY <1>8 DEF Register!Next

(* A step that moves the handlers of S to "failed" and nothing else. *)
LEMMA FailStep ==
    ASSUME TInv, NEW S \in SUBSET Req,
           \A q \in S : pc[q] \in Live \cup {"idle"},
           pc' = [q \in Req |-> IF q \in S THEN "failed" ELSE pc[q]],
           UNCHANGED <<files, manifest, fileOf, body>>
    PROVE  Register!Next
<1>1. [q \in Req |-> PhaseOf(q)]'
        = [q \in Req |-> IF q \in S THEN "failed" ELSE [p \in Req |-> PhaseOf(p)][q]]
  BY DEF PhaseOf
<1>2. \A q \in S : PhaseOf(q) \in {"new", "pending", "applied"}
  BY DEF PhaseOf, Live, Sync
<1>3. /\ [f \in Req |-> ContentOf(f)]' = [f \in Req |-> ContentOf(f)]
      /\ [q \in Req |-> TargetOf(q)]' = [q \in Req |-> TargetOf(q)]
  BY DEF ContentOf, TargetOf
<1>4. Register!Fail(S)
  BY <1>1, <1>2, <1>3 DEF Register!Fail
<1>5. QED
  BY <1>4 DEF Register!Next

(* A handler whose cleanup is over replies. *)
LEMMA AckStep ==
    ASSUME TInv, NEW r \in Req, pc[r] \in Releasing, pc' = [pc EXCEPT ![r] = "done"],
           [f \in Req |-> ContentOf(f)]' = [f \in Req |-> ContentOf(f)],
           UNCHANGED <<fileOf, body>>
    PROVE  Register!Next
<1>1. [q \in Req |-> PhaseOf(q)]' = [[q \in Req |-> PhaseOf(q)] EXCEPT ![r] = "acked"]
  BY DEF PhaseOf, TInv, TypeOK
<1>2. PhaseOf(r) = "applied"
  BY DEF PhaseOf, Releasing
<1>3. [q \in Req |-> TargetOf(q)]' = [q \in Req |-> TargetOf(q)]
  BY DEF TargetOf
<1>4. Register!Ack(r)
  BY <1>1, <1>2, <1>3 DEF Register!Ack
<1>5. QED
  BY <1>4 DEF Register!Next

(* A step of one handler that stays within a phase, and any step of a sweep. *)
LEMMA QuietStep ==
    ASSUME TInv, [f \in Req |-> ContentOf(f)]' = [f \in Req |-> ContentOf(f)],
           NEW r \in Req, NEW l \in Live \cup Over, pc' = [pc EXCEPT ![r] = l],
           \/ pc[r] \in {"upload"} \cup Committing /\ l \in Committing
           \/ pc[r] \in Releasing /\ l \in Releasing
           \/ pc[r] \in {"idle"} \cup Reading /\ l \in Reading,
           \A q \in Req : TargetOf(q)' = TargetOf(q),
           UNCHANGED body
    PROVE  UNCHANGED Register!vars
<1>1. \A q \in Req : PhaseOf(q)' = PhaseOf(q)
  BY DEF PhaseOf, TInv, TypeOK, Committing, Releasing, Reading
<1>2. QED
  BY <1>1, Stutter

LEMMA RegisterStep ==
    ASSUME TInv, TInv', Inv, BInv, [Next]_vars
    PROVE  [Register!Next]_(Register!vars)
<1> USE DEF Goto, tables, locals, history
<1>0. Live \cup Over \cup {"idle"} = {"idle", "upload", "fetch", "done", "served", "failed"}
          \cup Committing \cup Releasing \cup {"readVersion", "readManifest"}
  BY DEF Live, Over, Sync, Committing, Releasing
<1>1. ASSUME NEW r \in Req, NEW f \in Req, Download(r, f) PROVE UNCHANGED Register!vars
  BY <1>1, QuietStep DEF Download, ContentOf, TargetOf, Reading, Live, Sync
<1>2. ASSUME NEW r \in Req, Reject(r) PROVE Register!Next
  <2>1. pc' = [q \in Req |-> IF q \in {r} THEN "failed" ELSE pc[q]]
    BY <1>2 DEF Reject, TInv, TypeOK
  <2>2. QED
    BY <1>2, <2>1, FailStep DEF Reject
<1>3. ASSUME NEW r \in Req, HandlerFails(r) PROVE Register!Next
  <2>1. pc' = [q \in Req |-> IF q \in {r} THEN "failed" ELSE pc[q]]
    BY <1>3 DEF HandlerFails, TInv, TypeOK
  <2>2. QED
    BY <1>3, <2>1, FailStep DEF HandlerFails, Live
<1>4. ASSUME NEW w \in Worker, WorkerCrash(w) PROVE Register!Next
  <2> DEFINE S == {q \in Req : host[q] = w /\ pc[q] \in Live}
  <2>1. pc' = [q \in Req |-> IF q \in S THEN "failed" ELSE pc[q]]
    BY <1>4 DEF WorkerCrash
  <2>2. QED
    BY <1>4, <2>1, FailStep DEF WorkerCrash
<1>5. ASSUME NEW r \in Req, CreateFile(r) PROVE UNCHANGED Register!vars
  <2>1. [f \in Req |-> ContentOf(f)]' = [f \in Req |-> ContentOf(f)]
    <3>1. files[r] \notin Req
      BY <1>5, ConstantsAssumption DEF CreateFile, BInv, Born
    <3>2. files' = [files EXCEPT ![r] = NULL] /\ UNCHANGED manifest
      BY <1>5 DEF CreateFile
    <3>3. QED
      BY <3>1, <3>2, ConstantsAssumption DEF ContentOf, TInv, TypeOK
  <2>2. QED
    BY <1>5, <2>1, QuietStep DEF CreateFile, TargetOf, Committing, Live, Sync, TInv, TypeOK
<1>6. ASSUME NEW r \in Req,
             \/ InsertVersion(r) \/ InsertChunk(r) \/ BumpRefcount(r)
      PROVE  UNCHANGED Register!vars
  <2>1. /\ UNCHANGED <<files, fileOf, body>>
        /\ \A v \in Req : v # r => manifest'[v] = manifest[v]
        /\ pc[r] \in {"upload"} \cup Committing
        /\ \E l \in Committing : pc' = [pc EXCEPT ![r] = l]
    <3>1. CASE InsertVersion(r)
      BY <3>1 DEF InsertVersion, Committing
    <3>2. CASE InsertChunk(r)
      <4>1. manifest' = [manifest EXCEPT ![r] = Append(@, body[r][k[r]])]
        BY <3>2 DEF InsertChunk
      <4>2. \A v \in Req : v # r => manifest'[v] = manifest[v]
        BY <4>1 DEF TInv, TypeOK
      <4>3. QED
        BY <3>2, <4>2 DEF InsertChunk, Committing
    <3>3. CASE BumpRefcount(r)
      BY <3>3 DEF BumpRefcount, Committing
    <3>4. QED
      BY <1>6, <3>1, <3>2, <3>3
  <2>2. ~Settled(r)
    BY <2>1 DEF Settled, Committing, Releasing
  <2>3. [f \in Req |-> ContentOf(f)]' = [f \in Req |-> ContentOf(f)]
    BY <2>1, <2>2, ContentsKept
  <2>4. QED
    BY <2>1, <2>3, QuietStep DEF TargetOf, Committing, Live, Sync
<1>7. ASSUME NEW r \in Req, SelectVersion(r) \/ SelectManifest(r) \/ Decrement(r)
                            \/ DeleteManifest(r) \/ DeleteVersionRow(r)
      PROVE  [Register!Next]_(Register!vars)
  <2>1. /\ UNCHANGED <<files, fileOf, body>>
        /\ \A v \in Req : v # prev[r] => manifest'[v] = manifest[v]
        /\ pc[r] \in Releasing
        /\ \E l \in Releasing \cup {"done"} : pc' = [pc EXCEPT ![r] = l]
    BY <1>7 DEF SelectVersion, SelectManifest, Decrement, DeleteManifest,
         DeleteVersionRow, AfterSelect, Releasing, TInv, TypeOK
  <2>2. \A f \in Req : files[f] # prev[r]
    BY <2>1 DEF Inv, Superseding
  <2>3. [f \in Req |-> ContentOf(f)]' = [f \in Req |-> ContentOf(f)]
    BY <2>1, <2>2, ContentsKept
  <2>4. CASE pc' = [pc EXCEPT ![r] = "done"]
    BY <2>1, <2>3, <2>4, AckStep
  <2>5. CASE \E l \in Releasing : pc' = [pc EXCEPT ![r] = l]
    BY <2>1, <2>3, <2>5, QuietStep DEF TargetOf, Releasing, Live, Sync
  <2>6. QED
    BY <2>1, <2>4, <2>5
<1>8. ASSUME NEW r \in Req, ReaderStep(r) PROVE [Register!Next]_(Register!vars)
  <2>1. UNCHANGED <<files, manifest, fileOf, body>> /\ pc[r] \in Reading
    BY <1>8 DEF ReaderStep, ReadVersion, ReadManifest, Served, Reading
  <2>2. [f \in Req |-> ContentOf(f)]' = [f \in Req |-> ContentOf(f)]
    BY <2>1 DEF ContentOf
  <2>3. CASE pc' = [pc EXCEPT ![r] = "failed"]
    <3>1. pc' = [q \in Req |-> IF q \in {r} THEN "failed" ELSE pc[q]]
      BY <2>3 DEF TInv, TypeOK
    <3>2. pc[r] \in Live
      BY <1>8 DEF ReaderStep, ReadVersion, ReadManifest, Served, Live, Sync
    <3>3. QED
      BY <2>1, <3>1, <3>2, FailStep
  <2>4. CASE \E l \in Reading : pc' = [pc EXCEPT ![r] = l]
    BY <2>1, <2>2, <2>4, QuietStep DEF TargetOf, Reading, Live, Over, Sync
  <2>5. QED
    BY <1>8, <2>3, <2>4 DEF ReaderStep, ReadVersion, ReadManifest, Served, Reading
<1>9. ASSUME UNCHANGED <<files, manifest, pc, fileOf, body>> PROVE UNCHANGED Register!vars
  BY <1>9, Stutter DEF ContentOf, PhaseOf, TargetOf
<1>10. ASSUME NEW s \in Sweeper, \/ GcList(s) \/ GcStop(s)
                                \/ \E h \in Chunk : GcReap(s, h)
       PROVE UNCHANGED Register!vars
  BY <1>9, <1>10 DEF GcList, GcStop, GcReap
<1>11. CASE UNCHANGED vars
  BY <1>9, <1>11 DEF vars
<1>12. QED
  BY <1>1, <1>2, <1>3, <1>4, <1>5, <1>6, <1>7, <1>8, <1>10, <1>11, SubmitStep, ApplyStep
     DEF Next, WriterStep

(* The autocommitted statements of any number of workers, with their       *)
(* failures and crashes, implement a register per file that each request   *)
(* writes at one instant or not at all.                                    *)
THEOREM ImplementsFileRegister == Spec => ImplementsRegister
<1>1. Spec => []BInv
  <2>1. Spec => []TInv
    BY InvAlways, PTL
  <2>2. TInv /\ BInv /\ [Next]_vars => BInv'
    BY BornStep
  <2>3. QED
    BY <2>1, <2>2, BornInit, PTL DEF Spec
<1>2. TInv /\ TInv' /\ Inv /\ BInv /\ [Next]_vars => [Register!Next]_(Register!vars)
  BY RegisterStep
<1>3. QED
  BY <1>1, <1>2, InvAlways, RegisterInit, PTL DEF Spec, ImplementsRegister, Register!Spec
=============================================================================
