------------------------ MODULE MetadataCountProofs ------------------------
(***************************************************************************)
(* Proofs about what MetadataStore counts and what its downloads read: the *)
(* refcount table against the rows of manifest_chunks, and the manifest a  *)
(* download works on, for any number of requests, workers, sweepers and    *)
(* chunks and any set of bodies.                                           *)
(***************************************************************************)
EXTENDS MetadataStoreProofs, FiniteSetTheorems

(* A handler in the loop of deleteVersion.  It works on the manifest as it *)
(* was, which is still there or is gone.  And either its decrements are    *)
(* known to be too many, or it is the only one that returns these rows.    *)
Returning(r) ==
    pc[r] = "release" =>
        /\ prev[r] \in released
        /\ manifest[prev[r]] \in {snap[r], <<>>}
        /\ \/ Hashes(snap[r]) \subseteq tainted
           \/ /\ manifest[prev[r]] = snap[r]
              /\ \A q \in Req : q # r /\ pc[q] = "release" => prev[q] # prev[r]

(* A version somebody began to release is out of use for good, and its     *)
(* rows go unless a handler fails before it has deleted them.              *)
Retired(v) ==
    v \in released =>
        /\ Settled(v)
        /\ \A f \in Req : files[f] # v
        /\ \/ manifest[v] = <<>>
           \/ \E q \in Req : prev[q] = v /\ pc[q] \in {"release", "failed"}

(* Nobody has learnt of a version before its commit is over, and a reader  *)
(* has written no rows.                                                    *)
Bystander(r) ==
    /\ prev[r] \in Req => Settled(prev[r])
    /\ pc[r] \in Reading => manifest[r] = <<>>

RInv == \A r \in Req : Returning(r) /\ Retired(r) /\ Bystander(r)

LEMMA ReleaseInit == Init => RInv
BY ConstantsAssumption DEF Init, RInv, Returning, Retired, Bystander, Reading

(* What a step may do without disturbing RInv.  The two steps that do more *)
(* are SelectManifest and DeleteManifest.                                  *)
LEMMA ReleaseFrame ==
    ASSUME TInv, TInv', RInv,
           \A f \in Req : files'[f] = files[f] \/ files'[f] \notin released,
           \A q \in Req : \/ prev'[q] = prev[q]
                          \/ /\ prev[q] = NULL /\ pc'[q] # "release"
                             /\ \E v \in Req : prev'[q] = v /\ Settled(v)',
           \A v \in Req : \/ manifest'[v] = manifest[v]
                          \/ pc[v] = "chunk" /\ pc'[v] = "bump",
           released' = released, tainted \subseteq tainted',
           \A q \in Req : pc'[q] = "release" => pc[q] = "release" /\ snap'[q] = snap[q],
           \A q \in Req : pc[q] = "release" => pc'[q] \in {"release", "failed"},
           \A q \in Req : pc[q] = "failed" => pc'[q] = "failed",
           \A q \in Req : Settled(q) => Settled(q)',
           \A q \in Req : pc'[q] \in Reading => pc[q] \in Reading \/ manifest[q] = <<>>
    PROVE  RInv'
<1> USE ConstantsAssumption DEF RInv
<1>1. /\ released \subseteq Req /\ prev \in [Req -> Req \cup {NULL}]
      /\ manifest \in [Req -> Seq(Chunk)]
  BY DEF TInv, TypeOK
<1>2. ASSUME NEW v \in Req, Settled(v) PROVE manifest'[v] = manifest[v]
  BY <1>2 DEF Settled, Releasing
<1>3. ASSUME NEW r \in Req PROVE Returning(r)'
  <2>1. SUFFICES ASSUME pc'[r] = "release" PROVE Returning(r)'
    BY DEF Returning
  <2>2. /\ pc[r] = "release" /\ snap'[r] = snap[r] /\ prev'[r] = prev[r]
        /\ prev[r] \in released
    BY <2>1 DEF Returning
  <2>3. manifest'[prev[r]] = manifest[prev[r]]
    BY <1>1, <1>2, <2>2 DEF Retired
  <2>4. \A q \in Req : pc'[q] = "release" => pc[q] = "release" /\ prev'[q] = prev[q]
    OBVIOUS
  <2>5. Returning(r)
    OBVIOUS
  <2>6. Hashes(snap[r])' = Hashes(snap[r])
    BY <2>2 DEF Hashes
  <2>7. QED
    BY <2>2, <2>3, <2>4, <2>5, <2>6 DEF Returning
<1>4. ASSUME NEW v \in Req PROVE Retired(v)'
  <2>1. SUFFICES ASSUME v \in released PROVE Retired(v)'
    BY DEF Retired
  <2>2. /\ Settled(v)' /\ manifest'[v] = manifest[v]
        /\ \A f \in Req : files'[f] # v
    BY <1>2, <2>1 DEF Retired
  <2>3. ASSUME NEW q \in Req, prev[q] = v PROVE prev'[q] = v
    BY <2>3
  <2>4. QED
    BY <2>1, <2>2, <2>3 DEF Retired
<1>5. ASSUME NEW r \in Req PROVE Bystander(r)'
  <2>1. (prev[r] \in Req => Settled(prev[r]))'
    BY DEF Bystander, Settled
  <2>2. pc'[r] \in Reading => manifest'[r] = <<>>
    BY DEF Bystander, Reading
  <2>3. QED
    BY <2>1, <2>2 DEF Bystander
<1>6. QED
  BY <1>3, <1>4, <1>5

(* The first to release a version finds all its rows and is alone; for any *)
(* later one the hashes it finds become tainted.                           *)
LEMMA SelectManifestStep ==
    ASSUME TInv, Inv, RInv, NEW r \in Req, SelectManifest(r)
    PROVE  RInv'
<1> USE DEF RInv
<1> DEFINE v == prev[r]
<1>1. /\ pc[r] = "manifest" /\ pc' = [pc EXCEPT ![r] = "release"]
      /\ snap' = [snap EXCEPT ![r] = manifest[v]]
      /\ released' = released \cup {v}
      /\ tainted' = IF v \in released THEN tainted \cup Hashes(manifest[v]) ELSE tainted
      /\ UNCHANGED <<files, manifest, prev>>
  BY DEF SelectManifest, Goto, tables
<1>2. /\ v \in Req /\ Settled(v) /\ \A f \in Req : files[f] # v
      /\ pc \in [Req -> Live \cup Over \cup {"idle"}] /\ snap \in [Req -> Seq(Chunk)]
  BY <1>1 DEF TInv, TypeOK, LocalsOK, Inv, Superseding, Releasing
<1>3. \A q \in Req : q # r => pc'[q] = pc[q] /\ snap'[q] = snap[q]
  BY <1>1, <1>2
<1>4. pc'[r] = "release" /\ snap'[r] = manifest[v]
  BY <1>1, <1>2
<1>5. \A q \in Req : Settled(q) => Settled(q)'
  BY <1>3, <1>4 DEF Settled, Releasing
<1> HIDE DEF v
<1>6. v = prev[r]
  BY DEF v
<1>7. ASSUME NEW q \in Req PROVE Returning(q)'
  <2>1. CASE q = r
    <3>1. CASE v \in released
      BY <1>1, <1>4, <1>6, <2>1, <3>1 DEF Returning, Hashes
    <3>2. CASE v \notin released
      <4>1. \A p \in Req : p # r /\ pc'[p] = "release" => prev[p] # v
        BY <1>3, <3>2 DEF Returning
      <4>2. QED
        BY <1>1, <1>4, <1>6, <2>1, <4>1 DEF Returning
    <3>3. QED
      BY <3>1, <3>2
  <2>2. CASE q # r /\ prev[q] = v /\ pc[q] = "release"
    <3>1. v \in released /\ tainted' = tainted \cup Hashes(manifest[v])
      BY <1>1, <2>2 DEF Returning
    <3>2. snap'[q] = snap[q] /\ pc'[q] = "release"
      BY <1>3, <2>2
    <3>3. Hashes(snap[q]) \subseteq tainted'
      BY <2>2, <3>1 DEF Returning
    <3>4. Hashes(snap[q])' = Hashes(snap[q])
      BY <3>2 DEF Hashes
    <3>5. QED
      BY <1>1, <2>2, <3>2, <3>3, <3>4 DEF Returning
  <2>3. CASE q # r /\ prev[q] # v
    <3>1. snap'[q] = snap[q] /\ pc'[q] = pc[q] /\ Hashes(snap[q])' = Hashes(snap[q])
      BY <1>3, <2>3 DEF Hashes
    <3>2. tainted \subseteq tainted' /\ released \subseteq released'
      BY <1>1
    <3>3. \A p \in Req : p # q /\ pc'[p] = "release" /\ prev[p] = prev[q] => pc[p] = "release"
      BY <1>3, <1>6, <2>3
    <3>4. QED
      BY <1>1, <3>1, <3>2, <3>3 DEF Returning
  <2>4. CASE q # r /\ pc[q] # "release"
    BY <1>3, <2>4 DEF Returning
  <2>5. QED
    BY <2>1, <2>2, <2>3, <2>4
<1>8. ASSUME NEW u \in Req PROVE Retired(u)'
  <2>1. CASE u = v
    BY <1>1, <1>2, <1>4, <1>5, <1>6, <2>1 DEF Retired
  <2>2. CASE u # v
    <3>1. \A q \in Req : pc[q] \in {"release", "failed"} => pc'[q] \in {"release", "failed"}
      BY <1>3, <1>4
    <3>2. QED
      BY <1>1, <1>5, <2>2, <3>1 DEF Retired
  <2>3. QED
    BY <2>1, <2>2
<1>9. ASSUME NEW q \in Req PROVE Bystander(q)'
  BY <1>1, <1>3, <1>4, <1>5 DEF Bystander, Reading
<1>10. QED
  BY <1>7, <1>8, <1>9

(* The rows go: a second handler in the loop has tainted hashes only. *)
LEMMA DeleteManifestStep ==
    ASSUME TInv, Inv, RInv, NEW r \in Req, DeleteManifest(r)
    PROVE  RInv'
<1> USE DEF RInv
<1> DEFINE v == prev[r]
<1>1. /\ pc[r] = "release" /\ pc' = [pc EXCEPT ![r] = "row"]
      /\ manifest' = [manifest EXCEPT ![v] = <<>>]
      /\ UNCHANGED <<files, prev, snap, released, tainted>>
  BY DEF DeleteManifest, Goto, locals, history
<1>2. /\ v \in Req /\ v = prev[r]
      /\ pc \in [Req -> Live \cup Over \cup {"idle"}] /\ manifest \in [Req -> Seq(Chunk)]
  BY <1>1 DEF TInv, TypeOK, LocalsOK, Releasing
<1>3. \A q \in Req : q # r => pc'[q] = pc[q]
  BY <1>1, <1>2
<1>4. pc'[r] = "row" /\ manifest'[v] = <<>> /\ \A u \in Req : u # v => manifest'[u] = manifest[u]
  BY <1>1, <1>2
<1>5. \A q \in Req : Settled(q) => Settled(q)'
  BY <1>3, <1>4 DEF Settled, Releasing
<1> HIDE DEF v
<1>6. ASSUME NEW q \in Req PROVE Returning(q)'
  <2>1. SUFFICES ASSUME pc'[q] = "release" PROVE Returning(q)'
    BY DEF Returning
  <2>2. q # r /\ pc[q] = "release" /\ Hashes(snap[q])' = Hashes(snap[q])
    BY <1>1, <1>3, <1>4, <2>1 DEF Hashes
  <2>3. \A p \in Req : pc'[p] = "release" => pc[p] = "release"
    BY <1>3, <1>4
  <2>4. CASE prev[q] = v
    BY <1>1, <1>2, <1>4, <2>2, <2>4 DEF Returning
  <2>5. CASE prev[q] # v
    <3>1. prev[q] \in Req
      BY <2>2 DEF TInv, LocalsOK, Releasing
    <3>2. QED
      BY <1>1, <1>4, <2>2, <2>3, <2>5, <3>1 DEF Returning
  <2>6. QED
    BY <2>4, <2>5
<1>7. ASSUME NEW u \in Req PROVE Retired(u)'
  <2>1. CASE u = v
    BY <1>1, <1>4, <1>5, <2>1 DEF Retired
  <2>2. CASE u # v
    BY <1>1, <1>2, <1>3, <1>4, <1>5, <2>2 DEF Retired
  <2>3. QED
    BY <2>1, <2>2
<1>8. ASSUME NEW q \in Req PROVE Bystander(q)'
  <2>1. pc'[q] \in Reading => pc[q] \in Reading
    BY <1>3, <1>4 DEF Reading
  <2>2. QED
    BY <1>1, <1>4, <1>5, <2>1 DEF Bystander
<1>9. QED
  BY <1>6, <1>7, <1>8

(* One handler goes on, not into the loop of deleteVersion, and touches no *)
(* manifest.                                                               *)
LEMMA ReleaseMove ==
    ASSUME TInv, TInv', RInv, NEW r \in Req, NEW to, pc' = [pc EXCEPT ![r] = to],
           \A f \in Req : files'[f] = files[f] \/ files'[f] \notin released,
           \A q \in Req : q # r => snap'[q] = snap[q],
           UNCHANGED <<prev, manifest, released, tainted>>,
           pc[r] # "failed", to # "release", pc[r] = "release" => to = "failed",
           Settled(r) => Settled(r)', to \in Reading => pc[r] \in Reading
    PROVE  RInv'
<1>1. /\ pc'[r] = to /\ \A q \in Req : q # r => pc'[q] = pc[q]
  BY DEF TInv, TypeOK
<1>2. \A q \in Req : q # r /\ Settled(q) => Settled(q)'
  BY <1>1 DEF Settled, Releasing
<1>3. \A q \in Req : pc'[q] = "release" => pc[q] = "release" /\ snap'[q] = snap[q]
  BY <1>1
<1>4. /\ \A q \in Req : pc[q] = "release" => pc'[q] \in {"release", "failed"}
      /\ \A q \in Req : pc[q] = "failed" => pc'[q] = "failed"
      /\ \A q \in Req : pc'[q] \in Reading => pc[q] \in Reading
  BY <1>1
<1>5. QED
  BY <1>2, <1>3, <1>4, ReleaseFrame

(* Every step keeps RInv. *)
LEMMA ReleaseStep ==
    ASSUME TInv, TInv', Inv, RInv, [Next]_vars PROVE RInv'
<1> USE ConstantsAssumption
    DEF TInv, TypeOK, Goto, Live, Over, Sync, Reading, Releasing, Settled, tables, locals, history
<1>1. ASSUME NEW r \in Req, NEW b \in Body, Post(r, b) PROVE RInv'
  BY <1>1, ReleaseFrame DEF Post
<1>2. ASSUME NEW r \in Req, NEW f \in Req, NEW b \in Body, Put(r, f, b) PROVE RInv'
  <2>1. prev[r] = NULL /\ (files[f] \in Req => Settled(files[f])) /\ files[f] \in Req \cup {NULL}
    BY <1>2 DEF Put, FileFound, Inv, Building, Published
  <2>2. /\ pc[r] = "idle" /\ pc' = [pc EXCEPT ![r] = "upload"]
        /\ prev' = [prev EXCEPT ![r] = files[f]]
        /\ UNCHANGED <<files, manifest, snap, released, tainted>>
    BY <1>2 DEF Put
  <2>3. files[f] \in Req => files[f] # r /\ Settled(files[f])'
    BY <2>1, <2>2
  <2>4. \A q \in Req : q # r => pc'[q] = pc[q] /\ prev'[q] = prev[q]
    BY <2>2
  <2>5. pc'[r] = "upload" /\ prev'[r] = files[f]
    BY <2>2
  <2>6. \A q \in Req : Settled(q) => Settled(q)'
    BY <2>2, <2>4, <2>5
  <2>7. \A q \in Req : \/ prev'[q] = prev[q]
                      \/ /\ prev[q] = NULL /\ pc'[q] # "release"
                         /\ \E v \in Req : prev'[q] = v /\ Settled(v)'
    BY <2>1, <2>3, <2>4, <2>5
  <2>8. /\ \A q \in Req : pc'[q] = "release" => pc[q] = "release"
        /\ \A q \in Req : pc[q] = "release" => pc'[q] = "release"
        /\ \A q \in Req : pc[q] = "failed" => pc'[q] = "failed"
        /\ \A q \in Req : pc'[q] \in Reading => pc[q] \in Reading
    BY <2>2, <2>4, <2>5
  <2>9. QED
    BY <2>2, <2>6, <2>7, <2>8, ReleaseFrame
<1>3. ASSUME NEW r \in Req, NEW f \in Req, Download(r, f) PROVE RInv'
  <2>1. prev[r] = NULL /\ files[f] \in Req /\ Settled(files[f]) /\ manifest[r] = <<>>
    BY <1>3 DEF Download, Inv, Building, Published
  <2>2. /\ pc[r] = "idle" /\ pc' = [pc EXCEPT ![r] = "readVersion"]
        /\ prev' = [prev EXCEPT ![r] = files[f]]
        /\ UNCHANGED <<files, manifest, snap, released, tainted>>
    BY <1>3 DEF Download
  <2>3. files[f] # r /\ Settled(files[f])'
    BY <2>1, <2>2
  <2>4. \A q \in Req : q # r => pc'[q] = pc[q] /\ prev'[q] = prev[q]
    BY <2>2
  <2>5. pc'[r] = "readVersion" /\ prev'[r] = files[f]
    BY <2>2
  <2>6. \A q \in Req : Settled(q) => Settled(q)'
    BY <2>2, <2>4, <2>5
  <2>7. QED
    BY <2>1, <2>2, <2>3, <2>4, <2>5, <2>6, ReleaseFrame
<1>4. ASSUME NEW r \in Req, Reject(r) \/ HandlerFails(r) PROVE RInv'
  BY <1>4, ReleaseMove DEF Reject, HandlerFails
<1>5. ASSUME NEW r \in Req, CreateFile(r) PROVE RInv'
  BY <1>5, ReleaseFrame DEF CreateFile
<1>6. ASSUME NEW r \in Req, InsertVersion(r) PROVE RInv'
  BY <1>6, ReleaseFrame DEF InsertVersion
<1>7. ASSUME NEW r \in Req, InsertChunk(r) PROVE RInv'
  <2>1. /\ pc[r] = "chunk" /\ pc' = [pc EXCEPT ![r] = "bump"]
        /\ \A v \in Req : v # r => manifest'[v] = manifest[v]
        /\ UNCHANGED <<files, prev, snap, released, tainted>>
    BY <1>7 DEF InsertChunk
  <2>2. QED
    BY <2>1, ReleaseFrame
<1>8. ASSUME NEW r \in Req, BumpRefcount(r) PROVE RInv'
  BY <1>8, ReleaseFrame DEF BumpRefcount
<1>9. ASSUME NEW r \in Req, SetCurrent(r) PROVE RInv'
  <2>1. pc[r] = "chunk" /\ fileOf[r] \in Req /\ r \notin released
    BY <1>9 DEF SetCurrent, LocalsOK, Committing, RInv, Retired
  <2>2. \A f \in Req : files'[f] = files[f] \/ files'[f] \notin released
    BY <1>9, <2>1 DEF SetCurrent
  <2>3. QED
    BY <1>9, <2>1, <2>2, ReleaseMove DEF SetCurrent
<1>10. ASSUME NEW r \in Req, SelectVersion(r) \/ DeleteVersionRow(r) PROVE RInv'
  <2>1. CASE SelectVersion(r)
    BY <2>1, ReleaseFrame DEF SelectVersion, AfterSelect
  <2>2. CASE DeleteVersionRow(r)
    BY <2>2, ReleaseFrame DEF DeleteVersionRow
  <2>3. QED
    BY <1>10, <2>1, <2>2
<1>11. ASSUME NEW r \in Req, Decrement(r) PROVE RInv'
  BY <1>11, ReleaseFrame DEF Decrement
<1>12. ASSUME NEW r \in Req, ReaderStep(r) PROVE RInv'
  <2>1. CASE ReadVersion(r)
    BY <2>1, ReleaseMove DEF ReadVersion
  <2>2. CASE ReadManifest(r)
    BY <2>2, ReleaseMove DEF ReadManifest
  <2>3. CASE Served(r)
    BY <2>3, ReleaseMove DEF Served
  <2>4. QED
    BY <1>12, <2>1, <2>2, <2>3 DEF ReaderStep
<1>13. ASSUME NEW w \in Worker, WorkerCrash(w) PROVE RInv'
  BY <1>13, ReleaseFrame DEF WorkerCrash
<1>14. ASSUME NEW s \in Sweeper, \/ GcList(s) \/ GcStop(s)
                                \/ \E h \in Chunk : GcReap(s, h)
       PROVE RInv'
  <2>1. UNCHANGED <<files, manifest, pc, prev, snap, released>> /\ tainted \subseteq tainted'
    BY <1>14 DEF GcList, GcStop, GcReap
  <2>2. QED
    BY <2>1, ReleaseFrame
<1>15. CASE UNCHANGED vars
  BY <1>15, ReleaseFrame DEF vars
<1>16. QED
  BY <1>1, <1>2, <1>3, <1>4, <1>5, <1>6, <1>7, <1>8, <1>9, <1>10, <1>11, <1>12,
     <1>13, <1>14, <1>15, SelectManifestStep, DeleteManifestStep DEF Next, WriterStep

LEMMA ReleaseAlways == Spec => []RInv
<1>1. TInv /\ TInv' /\ Inv /\ RInv /\ [Next]_vars => RInv'
  BY ReleaseStep
<1>2. QED
  BY <1>1, ReleaseInit, InvAlways, PTL DEF Spec
-----------------------------------------------------------------------------
(* DownloadNotPartial.  A download reads the version's id, its row and its *)
(* manifest in one stretch of its worker.  What it rests on is that no     *)
(* other handler of the same worker is in such a stretch (Alone): whoever  *)
(* deletes the manifest meanwhile runs in another worker.                  *)

Alone == \A r, q \in Req : r # q /\ pc[r] \in Sync /\ pc[q] \in Sync => host[r] # host[q]

LEMMA AloneFrame ==
    ASSUME Alone, UNCHANGED host, NEW r \in Req,
           \A q \in Req : q # r => pc'[q] = pc[q],
           pc'[r] \in Sync => pc[r] \in Sync \/ Free(host[r])
    PROVE  Alone'
BY DEF Alone, Free

LEMMA AloneStep == ASSUME TInv, Alone, [Next]_vars PROVE Alone'
<1> USE DEF TInv, TypeOK, Goto, Live, tables, locals, history
<1>1. ASSUME UNCHANGED host, \A q \in Req : pc'[q] \in Sync => pc[q] \in Sync PROVE Alone'
  BY <1>1 DEF Alone
<1>2. ASSUME NEW r \in Req, \/ \E b \in Body : Post(r, b)
                            \/ \E f \in Req, b \in Body : Put(r, f, b)
                            \/ \E f \in Req : Download(r, f)
                            \/ Reject(r) \/ HandlerFails(r)
      PROVE  Alone'
  BY <1>2, AloneFrame DEF Post, Put, Download, Reject, HandlerFails
<1>3. ASSUME NEW r \in Req, CreateFile(r) \/ InsertVersion(r) \/ InsertChunk(r)
                            \/ BumpRefcount(r) \/ SetCurrent(r)
      PROVE  Alone'
  BY <1>3, AloneFrame DEF CreateFile, InsertVersion, InsertChunk, BumpRefcount, SetCurrent, Sync
<1>4. ASSUME NEW r \in Req, SelectVersion(r) \/ SelectManifest(r) \/ Decrement(r)
                            \/ DeleteManifest(r) \/ DeleteVersionRow(r)
      PROVE  Alone'
  BY <1>4, AloneFrame DEF SelectVersion, SelectManifest, Decrement, DeleteManifest,
     DeleteVersionRow, AfterSelect, Sync
<1>5. ASSUME NEW r \in Req, ReaderStep(r) PROVE Alone'
  BY <1>5, AloneFrame DEF ReaderStep, ReadVersion, ReadManifest, Served, Sync
<1>6. ASSUME NEW w \in Worker, WorkerCrash(w) PROVE Alone'
  BY <1>1, <1>6 DEF WorkerCrash, Sync
<1>7. ASSUME NEW s \in Sweeper, \/ GcList(s) \/ GcStop(s)
                               \/ \E h \in Chunk : GcReap(s, h)
      PROVE Alone'
  BY <1>1, <1>7 DEF GcList, GcStop, GcReap
<1>8. CASE UNCHANGED vars
  BY <1>1, <1>8 DEF vars
<1>9. QED
  BY <1>2, <1>3, <1>4, <1>5, <1>6, <1>7, <1>8 DEF Next, WriterStep

(* What a download will find, or has found, of its version. *)
Reads(r) ==
    /\ pc[r] \in {"readVersion", "readManifest"} =>
          \/ manifest[prev[r]] = body[prev[r]]
          \/ manifest[prev[r]] = <<>> /\ TakenElsewhere(r)
    /\ pc[r] \in {"fetch", "served"} =>
          \/ snap[r] = body[prev[r]]
          \/ snap[r] = <<>> /\ TakenElsewhere(r)

DInv == Alone /\ \A r \in Req : Reads(r)

LEMMA DownloadInit == Init => DInv
BY DEF Init, DInv, Alone, Reads, Sync

LEMMA TakenStays ==
    ASSUME TInv, NEW r \in Req, TakenElsewhere(r), UNCHANGED host, prev'[r] = prev[r],
           prev[r] \in Req, released \subseteq released',
           \A q \in Req : prev'[q] = prev[q] \/ prev[q] = NULL
    PROVE  TakenElsewhere(r)'
BY ConstantsAssumption DEF TakenElsewhere

(* Steps that start no download, run none of its statements and delete no  *)
(* manifest.                                                               *)
LEMMA ReadsFrame ==
    ASSUME TInv, RInv, DInv, UNCHANGED host, released \subseteq released',
           \A q \in Req : prev'[q] = prev[q] \/ prev[q] = NULL,
           \A v \in Req : Settled(v) => body'[v] = body[v] /\ manifest'[v] = manifest[v],
           \A q \in Req : pc'[q] \in Reading =>
               /\ pc[q] \in Reading /\ prev'[q] = prev[q] /\ snap'[q] = snap[q]
               /\ \/ {pc[q], pc'[q]} \subseteq {"readVersion", "readManifest"}
                  \/ {pc[q], pc'[q]} \subseteq {"fetch", "served"}
    PROVE  \A r \in Req : Reads(r)'
<1> SUFFICES ASSUME NEW r \in Req PROVE Reads(r)'
  OBVIOUS
<1>1. CASE pc'[r] \notin Reading
  BY <1>1 DEF Reads, Reading
<1>2. CASE pc'[r] \in Reading
  <2>1. pc[r] \in Reading /\ prev'[r] = prev[r] /\ snap'[r] = snap[r] /\ prev[r] \in Req
    BY <1>2 DEF TInv, LocalsOK
  <2>2. body'[prev[r]] = body[prev[r]] /\ manifest'[prev[r]] = manifest[prev[r]]
    BY <2>1 DEF RInv, Bystander
  <2>3. TakenElsewhere(r) => TakenElsewhere(r)'
    BY <2>1, TakenStays
  <2>4. Reads(r)
    BY DEF DInv
  <2>5. QED
    BY <1>2, <2>1, <2>2, <2>3, <2>4 DEF Reads
<1>3. QED
  BY <1>1, <1>2

LEMMA ReadsDeleteStep ==
    ASSUME TInv, RInv, DInv, NEW r \in Req, DeleteManifest(r)
    PROVE  \A q \in Req : Reads(q)'
<1> SUFFICES ASSUME NEW q \in Req PROVE Reads(q)'
  OBVIOUS
<1>1. /\ pc[r] = "release" /\ prev[r] \in Req /\ prev[r] \in released
      /\ pc' = [pc EXCEPT ![r] = "row"] /\ manifest' = [manifest EXCEPT ![prev[r]] = <<>>]
      /\ UNCHANGED <<host, prev, snap, body, released>>
  BY DEF DeleteManifest, Goto, locals, history, TInv, LocalsOK, Releasing, RInv, Returning
<1>2. Reads(q) /\ Alone
  BY DEF DInv
<1>3. CASE q = r
  BY <1>1, <1>3 DEF Reads, TInv, TypeOK
<1>4. CASE q # r
  <2>1. pc'[q] = pc[q] /\ (TakenElsewhere(q) => TakenElsewhere(q)')
    BY <1>1, <1>4 DEF TInv, TypeOK, TakenElsewhere
  <2>2. CASE prev[q] = prev[r] /\ pc[q] \in {"readVersion", "readManifest"}
    <3>1. host[r] # host[q]
      BY <1>1, <1>2, <1>4, <2>2 DEF Alone, Sync
    <3>2. manifest'[prev[q]] = <<>> /\ TakenElsewhere(q)'
      BY <1>1, <2>2, <3>1 DEF TInv, TypeOK, TakenElsewhere
    <3>3. QED
      BY <1>1, <2>1, <2>2, <3>2 DEF Reads
  <2>3. CASE prev[q] # prev[r] \/ pc[q] \notin {"readVersion", "readManifest"}
    <3>1. pc[q] \in {"readVersion", "readManifest"} => manifest'[prev[q]] = manifest[prev[q]]
      BY <1>1, <2>3 DEF TInv, TypeOK, LocalsOK, Reading
    <3>2. QED
      BY <1>1, <1>2, <2>1, <3>1 DEF Reads
  <2>4. QED
    BY <2>2, <2>3
<1>5. QED
  BY <1>3, <1>4

LEMMA ReadsStep == ASSUME TInv, TInv', Inv, RInv, DInv, [Next]_vars PROVE DInv'
<1> SUFFICES \A q \in Req : Reads(q)'
  BY AloneStep DEF DInv
<1> USE ConstantsAssumption
    DEF TInv, TypeOK, Goto, Live, Over, Sync, Reading, Releasing, Settled, tables, locals, history
<1>1. ASSUME NEW r \in Req, NEW b \in Body, Post(r, b) PROVE \A q \in Req : Reads(q)'
  BY <1>1, ReadsFrame DEF Post
<1>2. ASSUME NEW r \in Req, NEW f \in Req, NEW b \in Body, Put(r, f, b)
      PROVE  \A q \in Req : Reads(q)'
  <2>1. prev[r] = NULL
    BY <1>2 DEF Put, Inv, Building
  <2>2. QED
    BY <1>2, <2>1, ReadsFrame DEF Put
<1>3. ASSUME NEW r \in Req, NEW f \in Req, Download(r, f) PROVE \A q \in Req : Reads(q)'
  <2>1. /\ pc[r] = "idle" /\ pc' = [pc EXCEPT ![r] = "readVersion"]
        /\ prev' = [prev EXCEPT ![r] = files[f]]
        /\ UNCHANGED <<host, manifest, body, snap, released>>
    BY <1>3 DEF Download
  <2>2. prev[r] = NULL /\ files[f] \in Req /\ manifest[files[f]] = body[files[f]]
    BY <1>3 DEF Download, Inv, Building, Published
  <2>3. ASSUME NEW q \in Req PROVE Reads(q)'
    <3>1. CASE q = r
      BY <2>1, <2>2, <3>1 DEF Reads
    <3>2. CASE q # r
      <4>1. pc'[q] = pc[q] /\ prev'[q] = prev[q] /\ (pc[q] \in Reading => prev[q] \in Req)
        BY <2>1, <3>2 DEF LocalsOK
      <4>2. pc[q] \in Reading /\ TakenElsewhere(q) => TakenElsewhere(q)'
        BY <2>1, <2>2, <4>1, TakenStays
      <4>3. Reads(q)
        BY DEF DInv
      <4>4. QED
        BY <2>1, <4>1, <4>2, <4>3 DEF Reads
    <3>3. QED
      BY <3>1, <3>2
  <2>4. QED
    BY <2>3
<1>4. ASSUME NEW r \in Req, Reject(r) \/ HandlerFails(r) PROVE \A q \in Req : Reads(q)'
  BY <1>4, ReadsFrame DEF Reject, HandlerFails
<1>5. ASSUME NEW r \in Req, CreateFile(r) \/ InsertVersion(r) PROVE \A q \in Req : Reads(q)'
  <2>1. CASE CreateFile(r)
    BY <2>1, ReadsFrame DEF CreateFile
  <2>2. CASE InsertVersion(r)
    BY <2>2, ReadsFrame DEF InsertVersion
  <2>3. QED
    BY <1>5, <2>1, <2>2
<1>6. ASSUME NEW r \in Req, InsertChunk(r) PROVE \A q \in Req : Reads(q)'
  <2>1. /\ pc[r] = "chunk" /\ pc' = [pc EXCEPT ![r] = "bump"]
        /\ \A v \in Req : v # r => manifest'[v] = manifest[v]
        /\ UNCHANGED <<host, prev, body, snap, released>>
    BY <1>6 DEF InsertChunk
  <2>2. QED
    BY <2>1, ReadsFrame
<1>7. ASSUME NEW r \in Req, BumpRefcount(r) \/ SetCurrent(r) PROVE \A q \in Req : Reads(q)'
  <2>1. CASE BumpRefcount(r)
    BY <2>1, ReadsFrame DEF BumpRefcount
  <2>2. CASE SetCurrent(r)
    BY <2>2, ReadsFrame DEF SetCurrent
  <2>3. QED
    BY <1>7, <2>1, <2>2
<1>8. ASSUME NEW r \in Req, SelectVersion(r) \/ DeleteVersionRow(r) \/ Decrement(r)
      PROVE  \A q \in Req : Reads(q)'
  <2>1. CASE SelectVersion(r)
    BY <2>1, ReadsFrame DEF SelectVersion, AfterSelect
  <2>2. CASE DeleteVersionRow(r) \/ Decrement(r)
    BY <2>2, ReadsFrame DEF DeleteVersionRow, Decrement
  <2>3. QED
    BY <1>8, <2>1, <2>2
<1>9. ASSUME NEW r \in Req, SelectManifest(r) PROVE \A q \in Req : Reads(q)'
  BY <1>9, ReadsFrame DEF SelectManifest
<1>10. ASSUME NEW r \in Req, ReadVersion(r) \/ Served(r) PROVE \A q \in Req : Reads(q)'
  <2>1. CASE ReadVersion(r)
    BY <2>1, ReadsFrame DEF ReadVersion
  <2>2. CASE Served(r)
    BY <2>2, ReadsFrame DEF Served
  <2>3. QED
    BY <1>10, <2>1, <2>2
<1>11. ASSUME NEW r \in Req, ReadManifest(r) PROVE \A q \in Req : Reads(q)'
  <2>1. /\ pc[r] = "readManifest" /\ pc' = [pc EXCEPT ![r] = "fetch"]
        /\ snap' = [snap EXCEPT ![r] = manifest[prev[r]]]
        /\ UNCHANGED <<host, manifest, body, prev, released>>
    BY <1>11 DEF ReadManifest
  <2>2. \A q \in Req : TakenElsewhere(q)' = TakenElsewhere(q)
    BY <2>1 DEF TakenElsewhere
  <2>3. QED
    BY <2>1, <2>2 DEF Reads, DInv
<1>12. ASSUME NEW w \in Worker, WorkerCrash(w) PROVE \A q \in Req : Reads(q)'
  BY <1>12, ReadsFrame DEF WorkerCrash
<1>13. ASSUME NEW s \in Sweeper, \/ GcList(s) \/ GcStop(s)
                                \/ \E h \in Chunk : GcReap(s, h)
       PROVE \A q \in Req : Reads(q)'
  <2>1. UNCHANGED <<host, manifest, pc, body, prev, snap, released>>
    BY <1>13 DEF GcList, GcStop, GcReap
  <2>2. QED
    BY <2>1, ReadsFrame
<1>14. CASE UNCHANGED vars
  BY <1>14, ReadsFrame DEF vars
<1>15. QED
  BY <1>1, <1>2, <1>3, <1>4, <1>5, <1>6, <1>7, <1>8, <1>9, <1>10, <1>11, <1>12,
     <1>13, <1>14, ReadsDeleteStep DEF Next, WriterStep, ReaderStep

(* Whatever is replaced and released while it runs, a download answers     *)
(* with the whole body of one upload, or with nothing, and that only if    *)
(* another worker has released the version meanwhile.                      *)
THEOREM DownloadsStayWhole == Spec => []DownloadNotPartial
<1>1. TInv /\ TInv' /\ Inv /\ RInv /\ DInv /\ [Next]_vars => DInv'
  BY ReadsStep
<1>2. DInv => DownloadNotPartial
  BY DEF DInv, Reads, DownloadNotPartial
<1>3. QED
  BY <1>1, <1>2, DownloadInit, InvAlways, ReleaseAlways, PTL DEF Spec
-----------------------------------------------------------------------------
(* Reference counts.  A row of manifest_chunks is one unit of the count of *)
(* its hash, except in the time between the row's INSERT and the bump of   *)
(* the count, and between a decrement and the row's DELETE.                *)

(* Row i of v is inserted and its hash not bumped yet. *)
Pending(v, i) == pc[v] = "bump" /\ i = k[v]

(* A handler in deleteVersion has passed row i of v, or has it to come. *)
Returned(v, i)  == \E q \in Req : pc[q] = "release" /\ prev[q] = v /\ i < k[q]
ToReturn(v, i)  == \E q \in Req : pc[q] = "release" /\ prev[q] = v /\ i >= k[q]

(* A file or another handler has come to know version v. *)
Known(v) == \E q \in Req : files[q] = v \/ prev[q] = v

(* A row somebody relies on, or will give back. *)
Due(v, i) == \/ v \notin released /\ ~Pending(v, i) /\ (pc[v] = "failed" => Known(v))
             \/ ToReturn(v, i)

(* The count of h lies between the rows that are due and those that can    *)
(* still be accounted for.                                                 *)
Net(h)  == {x \in RowsOf(Req, h) : ~Pending(x[1], x[2]) /\ ~Returned(x[1], x[2])}
Owed(h) == {x \in RowsOf(Req, h) : Due(x[1], x[2])}

Upper == \A h \in Chunk : refcount[h] <= Cardinality(Net(h))
Lower == \A h \in Chunk \ tainted : refcount[h] >= Cardinality(Owed(h))

LEMMA RowIn ==
    ASSUME NEW V, NEW h, NEW x
    PROVE  /\ x \in RowsOf(V, h) <=>
                \E v \in V : \E i \in DOMAIN manifest[v] : manifest[v][i] = h /\ x = <<v, i>>
           /\ x \in RowsOf(V, h)' <=>
                \E v \in V : \E i \in DOMAIN manifest'[v] : manifest'[v][i] = h /\ x = <<v, i>>
BY DEF RowsOf

LEMMA RowsFinite ==
    ASSUME TypeOK, NEW h PROVE IsFiniteSet(RowsOf(Req, h))
<1> DEFINE Of(v) == {v} \X {i \in DOMAIN manifest[v] : manifest[v][i] = h}
           f == [v \in Req |-> Of(v)]
           T == {Of(v) : v \in Req}
<1>1. IsFiniteSet(T)
  <2>1. f \in Surjection(Req, T)
    BY DEF Surjection
  <2>2. QED
    BY <2>1, ConstantsAssumption, FS_Surjection
<1>2. ASSUME NEW v \in Req PROVE IsFiniteSet(Of(v))
  <2> DEFINE D == {i \in DOMAIN manifest[v] : manifest[v][i] = h}
  <2>1. manifest[v] \in Seq(Chunk)
    BY DEF TypeOK
  <2>2. DOMAIN manifest[v] = 1..Len(manifest[v]) /\ Len(manifest[v]) \in Nat
    BY <2>1
  <2>3. IsFiniteSet(1..Len(manifest[v]))
    BY <2>2, FS_Interval
  <2>4. IsFiniteSet(D)
    BY <2>2, <2>3, FS_Subset
  <2>5. IsFiniteSet({v})
    BY FS_Singleton
  <2>6. QED
    BY <2>4, <2>5, FS_Product
<1>3. \A U \in T : IsFiniteSet(U)
  BY <1>2
<1>4. RowsOf(Req, h) = UNION T
  BY DEF RowsOf
<1>5. QED
  <2> HIDE DEF T
  <2>1. QED
    BY <1>1, <1>3, <1>4, FS_UNION

(* Net and Owed are finite sets, before and after a step. *)
LEMMA CountsFinite ==
    ASSUME TypeOK, NEW h
    PROVE  /\ IsFiniteSet(Net(h)) /\ Cardinality(Net(h)) \in Nat
           /\ IsFiniteSet(Owed(h)) /\ Cardinality(Owed(h)) \in Nat
<1>1. Net(h) \in SUBSET RowsOf(Req, h) /\ Owed(h) \in SUBSET RowsOf(Req, h)
  BY DEF Net, Owed
<1>2. IsFiniteSet(Net(h)) /\ IsFiniteSet(Owed(h))
  BY <1>1, RowsFinite, FS_Subset
<1>3. QED
  BY <1>2, FS_CardinalityType

CountsAreFinite ==
    \A h \in Chunk : /\ IsFiniteSet(Net(h)) /\ Cardinality(Net(h)) \in Nat
                     /\ IsFiniteSet(Owed(h)) /\ Cardinality(Owed(h)) \in Nat

LEMMA CountsFiniteNext == TypeOK' => CountsAreFinite'
<1>1. TypeOK => CountsAreFinite
  BY CountsFinite DEF CountsAreFinite
<1>2. QED
  BY <1>1, PTL

(* A set that keeps its elements does not get smaller; one that gains or   *)
(* loses one element changes by one.                                       *)
LEMMA Grows ==
    ASSUME NEW S, NEW T, IsFiniteSet(T), S \subseteq T
    PROVE  /\ Cardinality(S) <= Cardinality(T)
           /\ Cardinality(S) \in Nat /\ Cardinality(T) \in Nat /\ IsFiniteSet(S)
           /\ \A x \in T \ S : Cardinality(S) + 1 <= Cardinality(T)
<1>1. /\ IsFiniteSet(S) /\ Cardinality(S) <= Cardinality(T)
      /\ Cardinality(S) = Cardinality(T) => S = T
  BY FS_Subset
<1>2. Cardinality(S) \in Nat /\ Cardinality(T) \in Nat
  BY <1>1, FS_CardinalityType
<1>3. QED
  BY <1>1, <1>2

(* NoOvercount: what may happen to rows and handlers without taking a row  *)
(* out of Net.                                                             *)
LEMMA NetGrows ==
    ASSUME TInv, TInv',
           \A v \in Req : \A i \in DOMAIN manifest[v] :
               i \in DOMAIN manifest'[v] /\ manifest'[v][i] = manifest[v][i],
           \A v \in Req : pc'[v] = "bump" => \/ pc[v] = "bump" /\ k'[v] = k[v]
                                            \/ k'[v] \notin DOMAIN manifest[v],
           \A q \in Req : pc'[q] = "release" =>
               \/ pc[q] = "release" /\ prev'[q] = prev[q] /\ k'[q] = k[q]
               \/ k'[q] = 1,
           NEW h \in Chunk
    PROVE  Net(h) \subseteq Net(h)'
<1> SUFFICES ASSUME NEW x \in Net(h) PROVE x \in Net(h)'
  OBVIOUS
<1>0. PICK v \in Req : \E i \in DOMAIN manifest[v] : manifest[v][i] = h /\ x = <<v, i>>
  BY RowIn DEF Net
<1>1. PICK i \in DOMAIN manifest[v] : manifest[v][i] = h /\ x = <<v, i>>
  BY <1>0
<1>2. x[1] = v /\ x[2] = i /\ ~Pending(v, i) /\ ~Returned(v, i)
  BY <1>1 DEF Net
<1>3. x \in RowsOf(Req, h)'
  BY <1>1, RowIn
<1>4. ~Pending(v, i)'
  BY <1>1, <1>2 DEF Pending
<1>5. i \in Nat \ {0}
  <2>1. manifest[v] \in Seq(Chunk)
    BY DEF TInv, TypeOK
  <2>2. QED
    BY <1>1, <2>1
<1>6. ~Returned(v, i)'
  BY <1>2, <1>5 DEF Returned
<1>7. QED
  BY <1>2, <1>3, <1>4, <1>6 DEF Net

LEMMA UpperFrame ==
    ASSUME TInv, TInv', Upper,
           \A h \in Chunk : refcount'[h] <= refcount[h] \/ refcount'[h] <= 0,
           \A h \in Chunk : Net(h) \subseteq Net(h)'
    PROVE  Upper'
<1> SUFFICES ASSUME NEW h \in Chunk PROVE (refcount[h] <= Cardinality(Net(h)))'
  BY DEF Upper
<1>1. IsFiniteSet(Net(h))'
  BY CountsFiniteNext DEF TInv, CountsAreFinite
<1>2. Cardinality(Net(h)) <= Cardinality(Net(h)') /\ Cardinality(Net(h)) \in Nat /\ Cardinality(Net(h)') \in Nat
  BY <1>1, Grows
<1>3. refcount[h] <= Cardinality(Net(h)) /\ refcount[h] \in Int /\ refcount'[h] \in Int
  BY DEF Upper, TInv, TypeOK
<1>4. QED
  BY <1>2, <1>3

(* The bump turns the pending row into a counted one. *)
LEMMA UpperBump ==
    ASSUME TInv, TInv', Inv, RInv, Upper, NEW r \in Req, BumpRefcount(r)
    PROVE  Upper'
<1>0. /\ pc[r] = "bump" /\ k[r] \in 1..Len(manifest[r])
      /\ body[r][k[r]] = manifest[r][k[r]] /\ manifest[r][k[r]] \in Chunk
  <2>1. pc[r] = "bump"
    BY DEF BumpRefcount
  <2>2. Copied(r, k[r]) /\ manifest[r] \in Seq(Chunk) /\ k[r] \in Nat \ {0}
    BY <2>1 DEF Inv, Building, TInv, TypeOK
  <2>3. k[r] \in 1..Len(manifest[r]) /\ manifest[r][k[r]] = body[r][k[r]]
    BY <2>2 DEF Copied
  <2>4. QED
    BY <2>1, <2>2, <2>3, ElementOfSeq
<1>1. PICK c \in Chunk, n \in Nat : c = body[r][k[r]] /\ n = k[r]
  BY <1>0 DEF TInv, TypeOK
<1>2. /\ pc' = [pc EXCEPT ![r] = "chunk"] /\ k' = [k EXCEPT ![r] = @ + 1]
      /\ refcount' = [refcount EXCEPT ![c] = @ + 1] /\ UNCHANGED <<manifest, prev>>
      /\ n \in DOMAIN manifest[r] /\ manifest[r][n] = c
  BY <1>0, <1>1 DEF BumpRefcount, Bumped, Goto, TInv, TypeOK
<1> DEFINE y == <<r, n>>
<1>3. \A q \in Req : pc[q] = "release" => prev[q] # r
  BY <1>0 DEF RInv, Bystander, Settled, Releasing
<1>4. pc'[r] = "chunk" /\ \A q \in Req : q # r => pc'[q] = pc[q] /\ k'[q] = k[q]
  BY <1>2 DEF TInv, TypeOK
<1>5. ASSUME NEW h \in Chunk PROVE Net(h) \subseteq Net(h)'
  BY <1>2, <1>4, NetGrows
<1>6. y \in Net(c)' \ Net(c)
  <2>1. y \in RowsOf(Req, c)' /\ y[1] = r /\ y[2] = n
    BY <1>2, RowIn
  <2>2. Pending(r, n) /\ ~Pending(r, n)' /\ ~Returned(r, n)'
    <3>1. Pending(r, n)
      BY <1>0, <1>1 DEF Pending
    <3>2. pc'[r] # "bump"
      BY <1>4
    <3>3. \A q \in Req : pc'[q] = "release" => prev'[q] # r
      BY <1>2, <1>3, <1>4
    <3>4. QED
      BY <3>1, <3>2, <3>3 DEF Pending, Returned
  <2>3. QED
    BY <2>1, <2>2 DEF Net
<1>7. ASSUME NEW h \in Chunk PROVE (refcount[h] <= Cardinality(Net(h)))'
  <2>1. /\ Cardinality(Net(h)) <= Cardinality(Net(h)') /\ Cardinality(Net(h)) \in Nat
        /\ Cardinality(Net(h)') \in Nat
        /\ h = c => Cardinality(Net(h)) + 1 <= Cardinality(Net(h)')
    <3>1. IsFiniteSet(Net(h)')
      BY CountsFiniteNext DEF TInv, CountsAreFinite
    <3>2. QED
      BY <1>5, <1>6, <3>1, Grows
  <2>2. /\ refcount[h] <= Cardinality(Net(h)) /\ refcount[h] \in Int
        /\ refcount'[h] = IF h = c THEN refcount[h] + 1 ELSE refcount[h]
    BY <1>2 DEF Upper, TInv, TypeOK
  <2>3. QED
    BY <2>1, <2>2
<1>8. QED
  BY <1>7 DEF Upper

(* A decrement takes at most one row out of Net, of the hash it counts     *)
(* down.                                                                   *)
LEMMA UpperDecrement ==
    ASSUME TInv, TInv', RInv, Upper, NEW r \in Req, Decrement(r)
    PROVE  Upper'
<1>0. /\ pc[r] = "release" /\ k[r] \in 1..Len(snap[r]) /\ prev[r] \in Req
      /\ snap[r][k[r]] \in Chunk /\ manifest[prev[r]] \in {snap[r], <<>>}
  <2>1. pc[r] = "release" /\ snap[r] \in Seq(Chunk) /\ k[r] \in 1..Len(snap[r])
    BY DEF Decrement, TInv, TypeOK
  <2>2. QED
    BY <2>1, ElementOfSeq DEF TInv, LocalsOK, Releasing, RInv, Returning
<1>1. PICK c \in Chunk, n \in Nat, v \in Req : c = snap[r][k[r]] /\ n = k[r] /\ v = prev[r]
  BY <1>0
<1>2. /\ refcount' = Decremented(c) /\ k' = [k EXCEPT ![r] = @ + 1]
      /\ UNCHANGED <<manifest, pc, prev>>
  BY <1>1 DEF Decrement
<1>3. k'[r] = n + 1 /\ \A q \in Req : q # r => k'[q] = k[q]
  BY <1>1, <1>2 DEF TInv, TypeOK
<1>4. ASSUME NEW h \in Chunk PROVE Net(h) \ {<<v, n>>} \subseteq Net(h)'
  <2> SUFFICES ASSUME NEW x \in Net(h), x # <<v, n>> PROVE x \in Net(h)'
    OBVIOUS
  <2>1. PICK u \in Req : \E i \in DOMAIN manifest[u] : manifest[u][i] = h /\ x = <<u, i>>
    BY RowIn DEF Net
  <2>2. PICK i \in DOMAIN manifest[u] : manifest[u][i] = h /\ x = <<u, i>>
    BY <2>1
  <2>3. x[1] = u /\ x[2] = i /\ ~Pending(u, i) /\ ~Returned(u, i)
    BY <2>2 DEF Net
  <2> i \in Nat
    <3>1. manifest[u] \in Seq(Chunk)
      BY DEF TInv, TypeOK
    <3>2. QED
      BY <3>1
  <2>4. x \in RowsOf(Req, h)'
    BY <1>2, <2>2, RowIn
  <2>5. ~Pending(u, i)'
    BY <1>0, <1>2, <1>3, <2>3 DEF Pending
  <2>6. ~Returned(u, i)'
    <3> SUFFICES ASSUME NEW q \in Req, pc[q] = "release", prev[q] = u, i < k'[q] PROVE FALSE
      BY <1>2 DEF Returned
    <3>1. CASE q # r
      BY <1>3, <2>3, <3>1 DEF Returned
    <3>2. CASE q = r
      BY <1>1, <1>3, <2>2, <2>3, <3>2 DEF Returned
    <3>3. QED
      BY <3>1, <3>2
  <2>7. QED
    BY <2>3, <2>4, <2>5, <2>6 DEF Net
<1>5. ASSUME NEW h \in Chunk, h # c PROVE <<v, n>> \notin Net(h)
  <2>1. SUFFICES ASSUME <<v, n>> \in RowsOf(Req, h) PROVE FALSE
    BY DEF Net
  <2>2. n \in DOMAIN manifest[v] /\ manifest[v][n] = h
    BY <2>1, RowIn
  <2>3. QED
    BY <1>0, <1>1, <1>5, <2>2
<1>6. ASSUME NEW h \in Chunk PROVE (refcount[h] <= Cardinality(Net(h)))'
  <2>1. /\ IsFiniteSet(Net(h)) /\ IsFiniteSet(Net(h)')
        /\ Cardinality(Net(h)) \in Nat /\ Cardinality(Net(h)') \in Nat
    BY CountsFinite, CountsFiniteNext DEF TInv, CountsAreFinite
  <2>2. /\ Cardinality(Net(h) \ {<<v, n>>}) <= Cardinality(Net(h)')
        /\ Cardinality(Net(h) \ {<<v, n>>}) \in Nat
    BY <1>4, <2>1, Grows
  <2>3. /\ Cardinality(Net(h)) - 1 <= Cardinality(Net(h) \ {<<v, n>>})
        /\ <<v, n>> \notin Net(h) => Cardinality(Net(h) \ {<<v, n>>}) = Cardinality(Net(h))
    <3>1. Cardinality(Net(h) \ {<<v, n>>}) =
            IF <<v, n>> \in Net(h) THEN Cardinality(Net(h)) - 1 ELSE Cardinality(Net(h))
      BY <2>1, FS_RemoveElement
    <3>2. QED
      BY <2>1, <3>1
  <2>4. refcount[h] <= Cardinality(Net(h)) /\ refcount[h] \in Int
    BY DEF Upper, TInv, TypeOK
  <2>5. refcount'[h] = IF h = c /\ c \in counted THEN refcount[h] - 1 ELSE refcount[h]
    BY <1>2 DEF Decremented, TInv, TypeOK
  <2>6. h \notin counted => refcount[h] = 0
    BY DEF TInv, TypeOK
  <2>7. QED
    BY <1>5, <2>1, <2>2, <2>3, <2>4, <2>5, <2>6
<1>7. QED
  BY <1>6 DEF Upper

(* The rows a handler deletes are the ones it has counted down. *)
LEMMA UpperDelete ==
    ASSUME TInv, TInv', RInv, Upper, NEW r \in Req, DeleteManifest(r)
    PROVE  Upper'
<1>1. /\ pc[r] = "release" /\ k[r] > Len(snap[r]) /\ prev[r] \in Req
      /\ pc' = [pc EXCEPT ![r] = "row"] /\ manifest' = [manifest EXCEPT ![prev[r]] = <<>>]
      /\ UNCHANGED <<refcount, k, prev>> /\ manifest[prev[r]] \in {snap[r], <<>>}
  BY DEF DeleteManifest, Goto, locals, TInv, LocalsOK, Releasing, RInv, Returning
<1>2. pc'[r] = "row" /\ \A q \in Req : q # r => pc'[q] = pc[q]
  BY <1>1 DEF TInv, TypeOK
<1>3. ASSUME NEW h \in Chunk PROVE Net(h) \subseteq Net(h)'
  <2> SUFFICES ASSUME NEW x \in Net(h) PROVE x \in Net(h)'
    OBVIOUS
  <2>1. PICK u \in Req : \E i \in DOMAIN manifest[u] : manifest[u][i] = h /\ x = <<u, i>>
    BY RowIn DEF Net
  <2>2. PICK i \in DOMAIN manifest[u] : manifest[u][i] = h /\ x = <<u, i>>
    BY <2>1
  <2>3. x[1] = u /\ x[2] = i /\ ~Pending(u, i) /\ ~Returned(u, i)
    BY <2>2 DEF Net
  <2>4. u # prev[r]
    <3> SUFFICES ASSUME u = prev[r] PROVE FALSE
      OBVIOUS
    <3>1. /\ snap[r] \in Seq(Chunk) /\ i \in DOMAIN snap[r] /\ k[r] \in Nat
      BY <1>1, <2>2 DEF TInv, TypeOK
    <3>2. i < k[r]
      BY <1>1, <3>1
    <3>3. QED
      BY <1>1, <2>3, <3>2 DEF Returned
  <2>5. manifest'[u] = manifest[u]
    BY <1>1, <2>4 DEF TInv, TypeOK
  <2>6. x \in RowsOf(Req, h)'
    BY <2>2, <2>5, RowIn
  <2>7. ~Pending(u, i)' /\ ~Returned(u, i)'
    BY <1>1, <1>2, <2>3 DEF Pending, Returned
  <2>8. QED
    BY <2>3, <2>6, <2>7 DEF Net
<1>4. \A h \in Chunk : refcount'[h] <= refcount[h]
  BY <1>1 DEF TInv, TypeOK
<1>5. QED
  BY <1>3, <1>4, UpperFrame

LEMMA UpperStep == ASSUME TInv, TInv', Inv, RInv, Upper, [Next]_vars PROVE Upper'
<1> USE DEF Goto, tables, locals, history, Live, Sync
<1>0. \A h \in Chunk : refcount[h] \in Int
  BY DEF TInv, TypeOK
<1>1. ASSUME UNCHANGED <<manifest, refcount>>, NEW r \in Req,
             \A q \in Req : q # r => UNCHANGED <<pc[q], k[q], prev[q]>>,
             pc'[r] # "bump", pc'[r] = "release" => k'[r] = 1
      PROVE  Upper'
  BY <1>0, <1>1, NetGrows, UpperFrame
<1>2. ASSUME NEW r \in Req, \/ \E b \in Body : Post(r, b)
                            \/ \E f \in Req, b \in Body : Put(r, f, b)
                            \/ \E f \in Req : Download(r, f)
                            \/ Reject(r) \/ HandlerFails(r)
                            \/ CreateFile(r) \/ InsertVersion(r) \/ SetCurrent(r)
                            \/ SelectVersion(r) \/ SelectManifest(r) \/ DeleteVersionRow(r)
                            \/ ReaderStep(r)
      PROVE  Upper'
  <2>1. CASE \/ \E b \in Body : Post(r, b)
             \/ \E f \in Req, b \in Body : Put(r, f, b)
             \/ \E f \in Req : Download(r, f)
             \/ Reject(r) \/ HandlerFails(r)
    <3>1. ASSUME NEW b \in Body, Post(r, b) PROVE Upper'
      BY <1>1, <3>1 DEF Post, TInv, TypeOK
    <3>2. ASSUME NEW b \in Body, NEW f \in Req, Put(r, f, b) PROVE Upper'
      <4>1. \A q \in Req : q # r => UNCHANGED <<pc[q], k[q], prev[q]>>
        BY <3>2 DEF Put, TInv, TypeOK
      <4>2. UNCHANGED <<manifest, refcount>> /\ pc'[r] = "upload"
        BY <3>2 DEF Put, TInv, TypeOK
      <4>3. QED
        BY <1>1, <4>1, <4>2
    <3>3. CASE \E f \in Req : Download(r, f)
      BY <1>1, <3>3 DEF Download, TInv, TypeOK
    <3>4. CASE Reject(r) \/ HandlerFails(r)
      BY <1>1, <3>4 DEF Reject, HandlerFails, TInv, TypeOK
    <3>5. QED
      BY <2>1, <3>1, <3>2, <3>3, <3>4
  <2>2. CASE CreateFile(r) \/ InsertVersion(r) \/ SetCurrent(r) \/ ReaderStep(r)
    BY <1>1, <2>2 DEF CreateFile, InsertVersion, SetCurrent, ReaderStep, ReadVersion,
       ReadManifest, Served, TInv, TypeOK
  <2>3. CASE SelectVersion(r) \/ SelectManifest(r) \/ DeleteVersionRow(r)
    BY <1>1, <2>3 DEF SelectVersion, SelectManifest, DeleteVersionRow, AfterSelect, TInv, TypeOK
  <2>4. QED
    BY <1>2, <2>1, <2>2, <2>3
<1>3. ASSUME NEW r \in Req, InsertChunk(r) PROVE Upper'
  <2>1. /\ pc[r] = "chunk" /\ pc' = [pc EXCEPT ![r] = "bump"] /\ UNCHANGED <<k, prev, refcount>>
        /\ manifest' = [manifest EXCEPT ![r] = Append(@, body[r][k[r]])]
    BY <1>3 DEF InsertChunk
  <2>2. Len(manifest[r]) = k[r] - 1 /\ manifest[r] \in Seq(Chunk) /\ k[r] \in Nat \ {0}
    BY <2>1 DEF Inv, Building, Copied, TInv, TypeOK
  <2>3. manifest'[r] = Append(manifest[r], body[r][k[r]]) /\ manifest'[r] \in Seq(Chunk)
    BY <2>1 DEF TInv, TypeOK
  <2>4. \A i \in DOMAIN manifest[r] : i \in DOMAIN manifest'[r] /\ manifest'[r][i] = manifest[r][i]
    BY <2>2, <2>3
  <2>5. \A v \in Req : v # r => manifest'[v] = manifest[v]
    BY <2>1 DEF TInv, TypeOK
  <2>6. k[r] \notin DOMAIN manifest[r]
    BY <2>2
  <2>7. \A q \in Req : q # r => pc'[q] = pc[q]
    BY <2>1 DEF TInv, TypeOK
  <2>8. pc'[r] = "bump"
    BY <2>1 DEF TInv, TypeOK
  <2>9. ASSUME NEW h \in Chunk PROVE Net(h) \subseteq Net(h)'
    BY <2>1, <2>4, <2>5, <2>6, <2>7, <2>8, NetGrows
  <2>10. QED
    BY <1>0, <2>1, <2>9, UpperFrame
<1>4. ASSUME NEW w \in Worker, WorkerCrash(w) PROVE Upper'
  <2>1. /\ \A q \in Req : pc'[q] \in {pc[q], "failed"}
        /\ UNCHANGED <<manifest, refcount, k, prev>>
    BY <1>4 DEF WorkerCrash
  <2>2. QED
    BY <1>0, <2>1, NetGrows, UpperFrame
<1>5. ASSUME NEW s \in Sweeper, \/ GcList(s) \/ GcStop(s)
                               \/ \E h \in Chunk : GcReap(s, h)
      PROVE Upper'
  <2>1. UNCHANGED <<manifest, pc, k, prev>>
    BY <1>5 DEF GcList, GcStop, GcReap
  <2>2. \A h \in Chunk : refcount'[h] \in {refcount[h], 0}
    BY <1>5 DEF GcList, GcStop, GcReap, TInv, TypeOK
  <2>3. QED
    BY <1>0, <2>1, <2>2, NetGrows, UpperFrame
<1>6. CASE UNCHANGED vars
  BY <1>0, <1>6, NetGrows, UpperFrame DEF vars
<1>7. QED
  BY <1>2, <1>3, <1>4, <1>5, <1>6, UpperBump, UpperDecrement, UpperDelete DEF Next, WriterStep

LEMMA UpperInit == Init => Upper
<1> SUFFICES ASSUME Init, NEW h \in Chunk PROVE refcount[h] <= Cardinality(Net(h))
  BY DEF Upper
<1>1. Cardinality(Net(h)) \in Nat /\ refcount[h] = 0
  BY TypeInit, CountsFinite DEF Init, TInv
<1>2. QED
  BY <1>1

LEMMA UpperAlways == Spec => []Upper
<1>1. TInv /\ TInv' /\ Inv /\ RInv /\ Upper /\ [Next]_vars => Upper'
  BY UpperStep
<1>2. QED
  BY <1>1, UpperInit, InvAlways, ReleaseAlways, PTL DEF Spec

(* No commit, release, crash or sweep, in any order, makes the refcount    *)
(* table claim a reference that no manifest row holds.                     *)
THEOREM NeverOvercounts == Spec => []NoOvercount
<1>1. ASSUME TInv, Upper PROVE NoOvercount
  <2> SUFFICES ASSUME NEW h \in Chunk PROVE refcount[h] <= Cardinality(RowsOf(Req, h))
    BY DEF NoOvercount
  <2>1. Cardinality(Net(h)) <= Cardinality(RowsOf(Req, h)) /\ Cardinality(Net(h)) \in Nat
        /\ Cardinality(RowsOf(Req, h)) \in Nat
    BY <1>1, RowsFinite, Grows DEF Net, TInv
  <2>2. refcount[h] <= Cardinality(Net(h)) /\ refcount[h] \in Int
    BY <1>1 DEF Upper, TInv, TypeOK
  <2>3. QED
    BY <2>1, <2>2
<1>2. QED
  BY <1>1, UpperAlways, InvAlways, PTL
-----------------------------------------------------------------------------
(* RefcountCoversLive and RefcountExact. *)

LEMMA KnownSettled ==
    ASSUME TInv, Inv, RInv, NEW v \in Req, Known(v) PROVE Settled(v)
BY DEF Known, Inv, Published, RInv, Bystander

(* What may happen to rows and handlers without making a row due. *)
LEMMA OwedShrinks ==
    ASSUME TInv, TInv', Inv, RInv,
           \A v \in Req : \A i \in DOMAIN manifest'[v] :
               \/ i \in DOMAIN manifest[v] /\ manifest'[v][i] = manifest[v][i]
               \/ pc'[v] = "bump" /\ i = k'[v],
           released \subseteq released',
           \A v \in Req : pc[v] = "bump" => \/ pc'[v] = "bump" /\ k'[v] = k[v]
                                           \/ pc'[v] = "failed",
           \A v \in Req : pc[v] = "failed" => pc'[v] = "failed",
           \A v \in Req : pc'[v] = "failed" /\ Known(v)' => Known(v),
           \A v \in Req : Settled(v) => pc'[v] # "bump",
           \A q \in Req : pc'[q] = "release" =>
               pc[q] = "release" /\ prev'[q] = prev[q] /\ k'[q] >= k[q],
           NEW h \in Chunk
    PROVE  Owed(h)' \subseteq Owed(h)
<1> SUFFICES ASSUME NEW x \in Owed(h)' PROVE x \in Owed(h)
  OBVIOUS
<1>1. PICK u \in Req : \E i \in DOMAIN manifest'[u] : manifest'[u][i] = h /\ x = <<u, i>>
  <2>1. x \in RowsOf(Req, h)'
    BY DEF Owed
  <2>2. QED
    BY <2>1, RowIn
<1>2. PICK i \in DOMAIN manifest'[u] : manifest'[u][i] = h /\ x = <<u, i>>
  BY <1>1
<1>3. x[1] = u /\ x[2] = i
  BY <1>2
<1>4. Due(u, i)'
  BY <1>3 DEF Owed
<1> i \in Nat
  <2>1. manifest'[u] \in Seq(Chunk)
    BY DEF TInv, TypeOK
  <2>2. QED
    BY <2>1
<1>5. CASE ToReturn(u, i)'
  <2>1. PICK q \in Req : pc'[q] = "release" /\ prev'[q] = u /\ i >= k'[q]
    BY <1>5 DEF ToReturn
  <2>2. pc[q] = "release" /\ prev[q] = u /\ i >= k[q]
    <3>1. k[q] \in Nat /\ k'[q] \in Nat /\ k'[q] >= k[q]
      BY <2>1 DEF TInv, TypeOK
    <3>2. QED
      BY <2>1, <3>1
  <2>3. Settled(u)
    BY <2>2 DEF RInv, Bystander
  <2>4. i \in DOMAIN manifest[u] /\ manifest[u][i] = h
    BY <1>2, <2>3
  <2>5. x \in RowsOf(Req, h)
    BY <1>2, <2>4, RowIn
  <2>6. Due(u, i)
    BY <2>2 DEF Due, ToReturn
  <2>7. QED
    BY <1>3, <2>5, <2>6 DEF Owed
<1>6. CASE ~ToReturn(u, i)'
  <2>1. u \notin released' /\ ~Pending(u, i)' /\ (pc'[u] = "failed" => Known(u)')
    BY <1>4, <1>6 DEF Due
  <2>2. i \in DOMAIN manifest[u] /\ manifest[u][i] = h
    BY <1>2, <2>1 DEF Pending
  <2>3. x \in RowsOf(Req, h)
    BY <1>2, <2>2, RowIn
  <2>4. ~Pending(u, i)
    <3> SUFFICES ASSUME pc[u] = "bump", i = k[u] PROVE FALSE
      BY DEF Pending
    <3>1. Known(u)
      BY <2>1 DEF Pending
    <3>2. QED
      BY <3>1, KnownSettled DEF Settled, Releasing
  <2>5. Due(u, i)
    BY <2>1, <2>4 DEF Due
  <2>6. QED
    BY <1>3, <2>3, <2>5 DEF Owed
<1>7. QED
  BY <1>5, <1>6

LEMMA LowerFrame ==
    ASSUME TInv, TInv', Lower, tainted \subseteq tainted',
           \A h \in Chunk \ tainted' : refcount'[h] >= refcount[h],
           \A h \in Chunk \ tainted' : Owed(h)' \subseteq Owed(h)
    PROVE  Lower'
<1> SUFFICES ASSUME NEW h \in Chunk, h \notin tainted'
             PROVE (refcount[h] >= Cardinality(Owed(h)))'
  BY DEF Lower
<1>1. IsFiniteSet(Owed(h))
  BY CountsFinite DEF TInv
<1>2. /\ Cardinality(Owed(h)') <= Cardinality(Owed(h))
      /\ Cardinality(Owed(h)) \in Nat /\ Cardinality(Owed(h)') \in Nat
  BY <1>1, Grows
<1>3. refcount[h] >= Cardinality(Owed(h)) /\ refcount[h] \in Int /\ refcount'[h] \in Int
  BY DEF Lower, TInv, TypeOK
<1>4. QED
  BY <1>2, <1>3

(* A bump pays for the one row that becomes due. *)
LEMMA LowerBump ==
    ASSUME TInv, TInv', Inv, RInv, Lower, NEW r \in Req, BumpRefcount(r)
    PROVE  Lower'
<1>0. /\ pc[r] = "bump" /\ k[r] \in 1..Len(manifest[r])
      /\ body[r][k[r]] = manifest[r][k[r]] /\ manifest[r][k[r]] \in Chunk
  <2>1. pc[r] = "bump"
    BY DEF BumpRefcount
  <2>2. Copied(r, k[r]) /\ manifest[r] \in Seq(Chunk) /\ k[r] \in Nat \ {0}
    BY <2>1 DEF Inv, Building, TInv, TypeOK
  <2>3. k[r] \in 1..Len(manifest[r]) /\ manifest[r][k[r]] = body[r][k[r]]
    BY <2>2 DEF Copied
  <2>4. QED
    BY <2>1, <2>2, <2>3, ElementOfSeq
<1>1. PICK c \in Chunk, n \in Nat : c = body[r][k[r]] /\ n = k[r]
  BY <1>0 DEF TInv, TypeOK
<1>2. /\ pc' = [pc EXCEPT ![r] = "chunk"] /\ k' = [k EXCEPT ![r] = @ + 1]
      /\ refcount' = [refcount EXCEPT ![c] = @ + 1]
      /\ UNCHANGED <<files, manifest, prev, released, tainted>>
      /\ n \in DOMAIN manifest[r] /\ manifest[r][n] = c
  BY <1>0, <1>1 DEF BumpRefcount, Bumped, Goto, history, TInv, TypeOK
<1>3. pc'[r] = "chunk" /\ \A q \in Req : q # r => pc'[q] = pc[q] /\ k'[q] = k[q]
  BY <1>2 DEF TInv, TypeOK
<1>4. ASSUME NEW h \in Chunk PROVE Owed(h)' \ {<<r, n>>} \subseteq Owed(h)
  <2> SUFFICES ASSUME NEW x \in Owed(h)', x # <<r, n>> PROVE x \in Owed(h)
    OBVIOUS
  <2>1. x \in RowsOf(Req, h) /\ Due(x[1], x[2])'
    BY <1>2, RowIn DEF Owed
  <2>2. PICK u \in Req : \E i \in DOMAIN manifest[u] : manifest[u][i] = h /\ x = <<u, i>>
    BY <2>1, RowIn
  <2>3. PICK i \in DOMAIN manifest[u] : manifest[u][i] = h /\ x = <<u, i>>
    BY <2>2
  <2>4. Due(u, i)' /\ x[1] = u /\ x[2] = i /\ ~(u = r /\ i = n)
    BY <2>1, <2>3
  <2>5. Known(u)' = Known(u) /\ ToReturn(u, i)' = ToReturn(u, i)
    BY <1>0, <1>2, <1>3 DEF Known, ToReturn
  <2>6. Pending(u, i) => Pending(u, i)'
    BY <1>1, <1>3, <2>4 DEF Pending
  <2>7. Due(u, i)
    BY <1>0, <1>2, <1>3, <2>4, <2>5, <2>6 DEF Due
  <2>8. QED
    BY <2>1, <2>4, <2>7 DEF Owed
<1>5. ASSUME NEW h \in Chunk, h # c PROVE <<r, n>> \notin Owed(h)'
  <2>1. SUFFICES ASSUME <<r, n>> \in RowsOf(Req, h)' PROVE FALSE
    BY DEF Owed
  <2>2. QED
    BY <1>2, <1>5, <2>1, RowIn
<1>6. ASSUME NEW h \in Chunk, h \notin tainted'
      PROVE  (refcount[h] >= Cardinality(Owed(h)))'
  <2>1. /\ IsFiniteSet(Owed(h)) /\ IsFiniteSet(Owed(h)')
        /\ Cardinality(Owed(h)) \in Nat /\ Cardinality(Owed(h)') \in Nat
    BY CountsFinite, CountsFiniteNext DEF TInv, CountsAreFinite
  <2>2. /\ Cardinality(Owed(h)' \ {<<r, n>>}) <= Cardinality(Owed(h))
        /\ Cardinality(Owed(h)' \ {<<r, n>>}) \in Nat
    BY <1>4, <2>1, Grows
  <2>3. Cardinality(Owed(h)' \ {<<r, n>>}) =
          IF <<r, n>> \in Owed(h)' THEN Cardinality(Owed(h)') - 1 ELSE Cardinality(Owed(h)')
    BY <2>1, FS_RemoveElement
  <2>4. refcount[h] >= Cardinality(Owed(h)) /\ refcount[h] \in Int
    BY <1>2, <1>6 DEF Lower, TInv, TypeOK
  <2>5. refcount'[h] = IF h = c THEN refcount[h] + 1 ELSE refcount[h]
    BY <1>2 DEF TInv, TypeOK
  <2>6. QED
    BY <1>5, <2>1, <2>2, <2>3, <2>4, <2>5
<1>7. QED
  BY <1>6 DEF Lower

(* A decrement of an untainted hash has a row that is due no longer. *)
LEMMA LowerDecrement ==
    ASSUME TInv, TInv', Inv, RInv, Lower, NEW r \in Req, Decrement(r)
    PROVE  Lower'
<1>0. /\ pc[r] = "release" /\ k[r] \in 1..Len(snap[r]) /\ prev[r] \in Req
      /\ snap[r][k[r]] \in Chunk /\ snap[r] \in Seq(Chunk)
  <2>1. pc[r] = "release" /\ snap[r] \in Seq(Chunk) /\ k[r] \in 1..Len(snap[r])
    BY DEF Decrement, TInv, TypeOK
  <2>2. QED
    BY <2>1, ElementOfSeq DEF TInv, LocalsOK, Releasing
<1>1. PICK c \in Chunk, n \in Nat, v \in Req : c = snap[r][k[r]] /\ n = k[r] /\ v = prev[r]
  BY <1>0
<1>2. /\ refcount' = Decremented(c) /\ k' = [k EXCEPT ![r] = @ + 1]
      /\ UNCHANGED <<files, manifest, pc, prev, released, tainted>>
  BY <1>1 DEF Decrement, history
<1>3. k'[r] = n + 1 /\ \A q \in Req : q # r => k'[q] = k[q]
  BY <1>1, <1>2 DEF TInv, TypeOK
<1>4. ASSUME NEW h \in Chunk PROVE Owed(h)' \subseteq Owed(h)
  <2>1. \A q \in Req : k'[q] >= k[q] /\ (pc[q] = "bump" => k'[q] = k[q])
    <3>1. \A q \in Req : k[q] \in Nat
      BY DEF TInv, TypeOK
    <3>2. n + 1 >= n
      OBVIOUS
    <3>3. QED
      BY <1>0, <1>1, <1>3, <3>1, <3>2
  <2>2. \A u \in Req : Known(u)' = Known(u)
    BY <1>2 DEF Known
  <2>3. \A u \in Req : Settled(u) => pc[u] # "bump"
    BY DEF Settled, Releasing
  <2>4. QED
    BY <1>2, <2>1, <2>2, <2>3, OwedShrinks
<1>5. ASSUME c \notin tainted PROVE <<v, n>> \in Owed(c) \ Owed(c)'
  <2>1. n \in DOMAIN snap[r] /\ c \in Hashes(snap[r])
    BY <1>0, <1>1 DEF Hashes
  <2>2. /\ v \in released /\ manifest[v] = snap[r]
        /\ \A q \in Req : q # r /\ pc[q] = "release" => prev[q] # v
    BY <1>0, <1>1, <1>5, <2>1 DEF RInv, Returning
  <2>3. <<v, n>> \in RowsOf(Req, c) /\ <<v, n>>[1] = v /\ <<v, n>>[2] = n
    BY <1>1, <2>1, <2>2, RowIn
  <2>4. Due(v, n)
    BY <1>0, <1>1 DEF Due, ToReturn
  <2>5. ~Due(v, n)'
    BY <1>2, <1>3, <2>2 DEF Due, ToReturn
  <2>6. QED
    BY <2>3, <2>4, <2>5 DEF Owed
<1>6. ASSUME NEW h \in Chunk, h \notin tainted'
      PROVE  (refcount[h] >= Cardinality(Owed(h)))'
  <2>1. /\ Cardinality(Owed(h)') <= Cardinality(Owed(h))
        /\ Cardinality(Owed(h)) \in Nat /\ Cardinality(Owed(h)') \in Nat
        /\ h = c => Cardinality(Owed(h)') + 1 <= Cardinality(Owed(h))
    <3>1. IsFiniteSet(Owed(h))
      BY CountsFinite DEF TInv
    <3>2. QED
      BY <1>2, <1>4, <1>5, <1>6, <3>1, Grows
  <2>2. refcount[h] >= Cardinality(Owed(h)) /\ refcount[h] \in Int
    BY <1>2, <1>6 DEF Lower, TInv, TypeOK
  <2>3. refcount'[h] = IF h = c /\ c \in counted THEN refcount[h] - 1 ELSE refcount[h]
    BY <1>2 DEF Decremented, TInv, TypeOK
  <2>4. QED
    BY <2>1, <2>2, <2>3
<1>7. QED
  BY <1>6 DEF Lower

(* The rows a handler takes on were due before, or their hashes become     *)
(* tainted.                                                                *)
LEMMA LowerSelect ==
    ASSUME TInv, TInv', Inv, RInv, Lower, NEW r \in Req, SelectManifest(r)
    PROVE  Lower'
<1>0. pc[r] = "manifest" /\ prev[r] \in Req /\ Settled(prev[r])
  BY DEF SelectManifest, TInv, LocalsOK, Releasing, RInv, Bystander
<1>1. PICK v \in Req : v = prev[r]
  BY <1>0
<1>2. /\ pc' = [pc EXCEPT ![r] = "release"] /\ k' = [k EXCEPT ![r] = 1]
      /\ released' = released \cup {v}
      /\ tainted' = IF v \in released THEN tainted \cup Hashes(manifest[v]) ELSE tainted
      /\ UNCHANGED <<files, manifest, prev, refcount>>
  BY <1>1 DEF SelectManifest, Goto, tables
<1>3. /\ pc'[r] = "release" /\ k'[r] = 1
      /\ \A q \in Req : q # r => pc'[q] = pc[q] /\ k'[q] = k[q]
  BY <1>2 DEF TInv, TypeOK
<1>4. ASSUME NEW h \in Chunk, h \notin tainted' PROVE Owed(h)' \subseteq Owed(h)
  <2> SUFFICES ASSUME NEW x \in Owed(h)' PROVE x \in Owed(h)
    OBVIOUS
  <2>1. x \in RowsOf(Req, h) /\ Due(x[1], x[2])'
    BY <1>2, RowIn DEF Owed
  <2>2. PICK u \in Req : \E i \in DOMAIN manifest[u] : manifest[u][i] = h /\ x = <<u, i>>
    BY <2>1, RowIn
  <2>3. PICK i \in DOMAIN manifest[u] : manifest[u][i] = h /\ x = <<u, i>>
    BY <2>2
  <2>4. Due(u, i)' /\ x[1] = u /\ x[2] = i
    BY <2>1, <2>3
  <2>5. CASE u = v
    <3>1. v \notin released
      BY <1>2, <1>4, <2>3, <2>5 DEF Hashes
    <3>2. ~Pending(v, i) /\ Known(v)
      BY <1>0, <1>1 DEF Pending, Known, Settled, Releasing
    <3>3. QED
      BY <2>1, <2>4, <2>5, <3>1, <3>2 DEF Owed, Due
  <2>6. CASE u # v
    <3>1. Known(u)' = Known(u)
      BY <1>2 DEF Known
    <3>2. ToReturn(u, i)' => ToReturn(u, i)
      BY <1>1, <1>2, <1>3, <2>6 DEF ToReturn
    <3>3. Pending(u, i) => Pending(u, i)'
      BY <1>0, <1>3 DEF Pending
    <3>4. (u \in released <=> u \in released') /\ (pc[u] = "failed" => pc'[u] = "failed")
      BY <1>0, <1>2, <1>3, <2>6
    <3>5. Due(u, i)
      BY <2>4, <3>1, <3>2, <3>3, <3>4 DEF Due
    <3>6. QED
      BY <2>1, <2>4, <3>5 DEF Owed
  <2>7. QED
    BY <2>5, <2>6
<1>5. tainted \subseteq tainted' /\ \A h \in Chunk : refcount'[h] >= refcount[h]
  BY <1>2 DEF TInv, TypeOK
<1>6. QED
  BY <1>4, <1>5, LowerFrame

LEMMA LowerStep == ASSUME TInv, TInv', Inv, RInv, Lower, [Next]_vars PROVE Lower'
<1> USE DEF Goto, tables, locals, history, Live, Sync, Settled, Releasing
<1>0. /\ \A h \in Chunk : refcount[h] \in Int /\ refcount[h] >= refcount[h]
      /\ \A q \in Req : k[q] \in Nat /\ k[q] >= k[q]
  BY DEF TInv, TypeOK
(* A step of one handler that inserts or releases nothing. *)
<1>1. ASSUME NEW r \in Req,
             \A v \in Req : manifest'[v] \in {manifest[v], <<>>},
             UNCHANGED <<refcount, released, tainted>>,
             \A q \in Req : q # r => pc'[q] = pc[q],
             \A q \in Req : pc[q] = "bump" \/ pc'[q] = "release" => k'[q] = k[q] /\ prev'[q] = prev[q],
             pc[r] = "bump" => pc'[r] = "failed",
             pc[r] # "failed" /\ pc'[r] \notin {"bump", "release"},
             \A v \in Req : pc'[v] = "failed" /\ Known(v)' => Known(v)
      PROVE  Lower'
  <2>1. ASSUME NEW h \in Chunk PROVE Owed(h)' \subseteq Owed(h)
    <3>1. \A v \in Req : \A i \in DOMAIN manifest'[v] :
             i \in DOMAIN manifest[v] /\ manifest'[v][i] = manifest[v][i]
      BY <1>1
    <3>2. QED
      BY <1>0, <1>1, <3>1, OwedShrinks
  <2>2. QED
    BY <1>0, <1>1, <2>1, LowerFrame
<1>2. ASSUME NEW r \in Req, NEW f \in Req, NEW b \in Body,
             Post(r, b) \/ Put(r, f, b) \/ Download(r, f)
      PROVE  Lower'
  <2>1. /\ pc[r] = "idle" /\ pc' \in {[pc EXCEPT ![r] = "upload"], [pc EXCEPT ![r] = "readVersion"]}
        /\ prev' \in {prev, [prev EXCEPT ![r] = files[f]]}
        /\ UNCHANGED <<files, manifest, refcount, released, tainted, k>>
    BY <1>2 DEF Post, Put, Download
  <2>2. \A v \in Req : Known(v)' => Known(v)
    BY <2>1 DEF Known, TInv, TypeOK
  <2>3. QED
    BY <1>1, <2>1, <2>2 DEF TInv, TypeOK
<1>3. ASSUME NEW r \in Req, Reject(r) \/ HandlerFails(r) \/ InsertVersion(r) \/ ReaderStep(r)
                            \/ SelectVersion(r) \/ DeleteVersionRow(r)
      PROVE  Lower'
  <2>1. UNCHANGED <<files, prev, manifest, refcount, released, tainted, k>>
    BY <1>3 DEF Reject, HandlerFails, InsertVersion, ReaderStep, ReadVersion, ReadManifest, Served,
         SelectVersion, DeleteVersionRow
  <2>2. /\ pc[r] # "failed" /\ (pc[r] = "bump" => pc'[r] = "failed")
        /\ pc'[r] \notin {"bump", "release"}
        /\ \A q \in Req : q # r => pc'[q] = pc[q]
    BY <1>3 DEF Reject, HandlerFails, InsertVersion, ReaderStep, ReadVersion, ReadManifest, Served,
         SelectVersion, AfterSelect, DeleteVersionRow, TInv, TypeOK
  <2>3. \A v \in Req : Known(v)' => Known(v)
    BY <2>1 DEF Known
  <2>4. QED
    BY <1>1, <2>1, <2>2, <2>3
<1>4. ASSUME NEW r \in Req, CreateFile(r) PROVE Lower'
  <2>1. \A v \in Req : Known(v)' => Known(v)
    BY <1>4, ConstantsAssumption DEF CreateFile, Known, TInv, TypeOK
  <2>2. QED
    BY <1>1, <1>4, <2>1 DEF CreateFile, TInv, TypeOK
<1>5. ASSUME NEW r \in Req, SetCurrent(r) PROVE Lower'
  <2>1. /\ pc[r] = "chunk" /\ pc' \in {[pc EXCEPT ![r] = "done"], [pc EXCEPT ![r] = "select"]}
        /\ files' = [files EXCEPT ![fileOf[r]] = r]
        /\ UNCHANGED <<manifest, refcount, released, tainted, k, prev>>
    BY <1>5 DEF SetCurrent
  <2>2. \A v \in Req : pc'[v] = "failed" /\ Known(v)' => Known(v)
    BY <2>1 DEF Known, TInv, TypeOK
  <2>3. QED
    BY <1>1, <2>1, <2>2 DEF TInv, TypeOK
<1>6. ASSUME NEW r \in Req, DeleteManifest(r) PROVE Lower'
  <2>1. \A v \in Req : Known(v)' => Known(v)
    BY <1>6 DEF DeleteManifest, Known
  <2>2. QED
    BY <1>1, <1>6, <2>1 DEF DeleteManifest, TInv, TypeOK
<1>7. ASSUME NEW r \in Req, InsertChunk(r) PROVE Lower'
  <2>1. /\ pc[r] = "chunk" /\ pc' = [pc EXCEPT ![r] = "bump"]
        /\ UNCHANGED <<files, k, prev, refcount, released, tainted>>
        /\ manifest' = [manifest EXCEPT ![r] = Append(@, body[r][k[r]])]
    BY <1>7 DEF InsertChunk
  <2>2. Len(manifest[r]) = k[r] - 1 /\ manifest[r] \in Seq(Chunk) /\ k[r] \in Nat \ {0}
    BY <2>1 DEF Inv, Building, Copied, TInv, TypeOK
  <2>3. manifest'[r] = Append(manifest[r], body[r][k[r]]) /\ manifest'[r] \in Seq(Chunk)
    BY <2>1 DEF TInv, TypeOK
  <2>4. \A i \in DOMAIN manifest'[r] :
           \/ i \in DOMAIN manifest[r] /\ manifest'[r][i] = manifest[r][i]
           \/ i = k[r]
    BY <2>2, <2>3
  <2>5. /\ pc'[r] = "bump"
        /\ \A v \in Req : v # r => pc'[v] = pc[v] /\ manifest'[v] = manifest[v]
    BY <2>1 DEF TInv, TypeOK
  <2>6. \A v \in Req : Known(v)' => Known(v)
    BY <2>1 DEF Known
  <2>7. ASSUME NEW h \in Chunk PROVE Owed(h)' \subseteq Owed(h)
    BY <1>0, <2>1, <2>4, <2>5, <2>6, OwedShrinks
  <2>8. QED
    BY <1>0, <2>1, <2>7, LowerFrame
<1>8. ASSUME NEW w \in Worker, WorkerCrash(w) PROVE Lower'
  <2>1. /\ \A q \in Req : pc'[q] \in {pc[q], "failed"}
        /\ UNCHANGED <<files, manifest, refcount, released, tainted, k, prev>>
    BY <1>8 DEF WorkerCrash
  <2>2. \A v \in Req : Known(v)' => Known(v)
    BY <2>1 DEF Known
  <2>3. ASSUME NEW h \in Chunk PROVE Owed(h)' \subseteq Owed(h)
    BY <1>0, <2>1, <2>2, OwedShrinks
  <2>4. QED
    BY <1>0, <2>1, <2>3, LowerFrame
<1>9. ASSUME NEW s \in Sweeper, \/ GcList(s) \/ GcStop(s)
                               \/ \E h \in Chunk : GcReap(s, h)
      PROVE Lower'
  <2>1. /\ UNCHANGED <<files, manifest, pc, k, prev, released>>
        /\ tainted \subseteq tainted'
    BY <1>9 DEF GcList, GcStop, GcReap
  <2>2. \A h \in Chunk \ tainted' : refcount'[h] >= refcount[h]
    <3>1. CASE GcList(s) \/ GcStop(s)
      BY <1>0, <3>1 DEF GcList, GcStop
    <3>2. ASSUME NEW c \in Chunk, GcReap(s, c)
          PROVE  \A h \in Chunk \ tainted' : refcount'[h] >= refcount[h]
      <4>1. /\ refcount' = [refcount EXCEPT ![c] = 0]
            /\ refcount[c] > 0 => c \in tainted'
        BY <3>2 DEF GcReap
      <4>2. \A h \in Chunk : refcount'[h] = IF h = c THEN 0 ELSE refcount[h]
        BY <4>1 DEF TInv, TypeOK
      <4>3. refcount[c] \in Int /\ (~(refcount[c] > 0) => 0 >= refcount[c])
        BY <1>0
      <4>4. QED
        BY <1>0, <4>1, <4>2, <4>3
    <3>3. QED
      BY <1>9, <3>1, <3>2
  <2>3. \A v \in Req : Known(v)' => Known(v)
    BY <2>1 DEF Known
  <2>4. ASSUME NEW h \in Chunk PROVE Owed(h)' \subseteq Owed(h)
    BY <1>0, <2>1, <2>3, OwedShrinks
  <2>5. QED
    BY <2>1, <2>2, <2>4, LowerFrame
<1>10. CASE UNCHANGED vars
  <2>1. UNCHANGED <<files, manifest, pc, k, prev, released, tainted, refcount>>
    BY <1>10 DEF vars
  <2>2. \A v \in Req : Known(v)' => Known(v)
    BY <2>1 DEF Known
  <2>3. ASSUME NEW h \in Chunk PROVE Owed(h)' \subseteq Owed(h)
    BY <1>0, <2>1, <2>2, OwedShrinks
  <2>4. QED
    BY <1>0, <2>1, <2>3, LowerFrame
<1>11. QED
  <2>1. \A r \in Req : (\E b \in Body : Post(r, b)) => Lower'
    BY <1>2
  <2>2. \A r \in Req : (\E f \in Req : Download(r, f)) => Lower'
    BY <1>2, ConstantsAssumption
  <2>3. QED
    BY <1>2, <1>3, <1>4, <1>5, <1>6, <1>7, <1>8, <1>9, <1>10, <2>1, <2>2,
       LowerBump, LowerDecrement, LowerSelect DEF Next, WriterStep

LEMMA LowerInit == Init => Lower
<1> SUFFICES ASSUME Init, NEW h \in Chunk PROVE refcount[h] >= Cardinality(Owed(h))
  BY DEF Lower
<1>1. \A v \in Req : manifest[v] = <<>>
  BY DEF Init
<1>2. \A x : x \notin RowsOf(Req, h)
  BY <1>1, RowIn
<1>3. Owed(h) = {}
  BY <1>2 DEF Owed
<1>4. refcount[h] = 0
  BY DEF Init
<1>5. QED
  BY <1>3, <1>4, FS_EmptySet

LEMMA LowerAlways == Spec => []Lower
<1>1. TInv /\ TInv' /\ Inv /\ RInv /\ Lower /\ [Next]_vars => Lower'
  BY LowerStep
<1>2. QED
  BY <1>1, LowerInit, InvAlways, ReleaseAlways, PTL DEF Spec

(* However commits, releases, crashes and sweeps interleave, a chunk used  *)
(* by current versions is counted for each use, unless two handlers have   *)
(* released one version or a sweep has reaped a row in use.                *)
THEOREM LiveIsCovered == Spec => []RefcountCoversLive
<1>1. ASSUME TInv, Inv, RInv, Lower PROVE RefcountCoversLive
  <2> SUFFICES ASSUME NEW h \in Chunk, h \notin tainted
               PROVE  refcount[h] >= Cardinality(RowsOf(CurrentVersions, h))
    BY DEF RefcountCoversLive
  <2>1. ASSUME NEW x \in RowsOf(CurrentVersions, h) PROVE x \in Owed(h)
    <3>1. PICK v \in CurrentVersions : \E i \in DOMAIN manifest[v] : manifest[v][i] = h /\ x = <<v, i>>
      BY RowIn
    <3>2. PICK i \in DOMAIN manifest[v] : manifest[v][i] = h /\ x = <<v, i>>
      BY <3>1
    <3>3. v \in Req /\ \E f \in Req : files[f] = v
      BY DEF CurrentVersions
    <3>4. Settled(v) /\ v \notin released /\ Known(v)
      BY <1>1, <3>3 DEF Inv, Published, RInv, Retired, Known
    <3>5. Due(v, i)
      BY <3>4 DEF Due, Pending, Settled, Releasing
    <3>6. x \in RowsOf(Req, h) /\ x[1] = v /\ x[2] = i
      BY <3>2, <3>3, RowIn
    <3>7. QED
      BY <3>5, <3>6 DEF Owed
  <2>2. /\ Cardinality(RowsOf(CurrentVersions, h)) <= Cardinality(Owed(h))
        /\ Cardinality(RowsOf(CurrentVersions, h)) \in Nat /\ Cardinality(Owed(h)) \in Nat
    BY <1>1, <2>1, CountsFinite, Grows DEF TInv
  <2>3. refcount[h] >= Cardinality(Owed(h)) /\ refcount[h] \in Int
    BY <1>1 DEF Lower, TInv, TypeOK
  <2>4. QED
    BY <2>2, <2>3
<1>2. QED
  BY <1>1, LowerAlways, InvAlways, ReleaseAlways, PTL

(* Between handlers, and as long as none has failed, an unspoilt count is  *)
(* the number of the chunk's manifest rows.                                *)
THEOREM QuietCountsAreExact == Spec => []RefcountExact
<1>1. ASSUME TInv, Inv, RInv, Upper, Lower PROVE RefcountExact
  <2> SUFFICES ASSUME \A r \in Req : pc[r] \in {"idle", "upload", "fetch", "done", "served"},
                      NEW h \in Chunk, h \notin tainted
               PROVE  refcount[h] = Cardinality(RowsOf(Req, h))
    BY DEF RefcountExact
  <2>1. ASSUME NEW x \in RowsOf(Req, h) PROVE x \in Owed(h)
    <3>1. PICK v \in Req : \E i \in DOMAIN manifest[v] : manifest[v][i] = h /\ x = <<v, i>>
      BY RowIn
    <3>2. PICK i \in DOMAIN manifest[v] : manifest[v][i] = h /\ x = <<v, i>>
      BY <3>1
    <3>3. manifest[v] # <<>>
      BY <3>2
    <3>4. v \notin released
      BY <1>1, <3>3 DEF RInv, Retired
    <3>5. Due(v, i)
      BY <3>4 DEF Due, Pending
    <3>6. QED
      BY <3>2, <3>5 DEF Owed
  <2>2. /\ Cardinality(RowsOf(Req, h)) <= Cardinality(Owed(h))
        /\ Cardinality(RowsOf(Req, h)) \in Nat /\ Cardinality(Owed(h)) \in Nat
    BY <1>1, <2>1, CountsFinite, Grows DEF TInv
  <2>3. /\ Cardinality(Net(h)) <= Cardinality(RowsOf(Req, h)) /\ Cardinality(Net(h)) \in Nat
    BY <1>1, RowsFinite, Grows DEF Net, TInv
  <2>4. /\ refcount[h] >= Cardinality(Owed(h)) /\ refcount[h] <= Cardinality(Net(h))
        /\ refcount[h] \in Int
    BY <1>1 DEF Lower, Upper, TInv, TypeOK
  <2>5. QED
    BY <2>2, <2>3, <2>4
<1>2. QED
  BY <1>1, UpperAlways, LowerAlways, InvAlways, ReleaseAlways, PTL
-----------------------------------------------------------------------------
(* What a module that composes MetadataStore needs to know of a step. *)

(* A row that is due keeps its chunk from being orphaned. *)
LEMMA DueIsCounted ==
    ASSUME TInv, Lower, NEW v \in Req, v \notin released, pc[v] # "bump",
           pc[v] = "failed" => Known(v),
           NEW h \in Hashes(manifest[v]) \ tainted
    PROVE  h \in counted /\ refcount[h] > 0 /\ h \notin Orphaned
<1>1. PICK i \in DOMAIN manifest[v] : manifest[v][i] = h
  BY DEF Hashes
<1>2. h \in Chunk
  BY <1>1 DEF TInv, TypeOK
<1>3. <<v, i>> \in Owed(h)
  <2>1. Due(v, i)
    BY DEF Due, Pending
  <2>2. <<v, i>> \in RowsOf(Req, h)
    BY <1>1, RowIn
  <2>3. QED
    BY <2>1, <2>2 DEF Owed
<1>4. IsFiniteSet(Owed(h)) /\ Cardinality(Owed(h)) \in Nat
  BY <1>2, CountsFinite DEF TInv
<1>5. Cardinality(Owed(h)) # 0
  BY <1>3, <1>4, FS_EmptySet
<1>6. refcount[h] >= Cardinality(Owed(h)) /\ refcount[h] \in Int
  BY <1>2 DEF Lower, TInv, TypeOK
<1>7. refcount[h] > 0
  BY <1>4, <1>5, <1>6
<1>8. QED
  BY <1>2, <1>7 DEF TInv, TypeOK, Orphaned

(* Only its own commit makes a version known, and a sweep adds orphans     *)
(* only to its list.                                                       *)
LEMMA NewlyKnown ==
    ASSUME TInv, [Next]_vars
    PROVE  /\ released \subseteq released' /\ tainted \subseteq tainted'
           /\ \A v \in Req : Known(v)' => Known(v) \/ SetCurrent(v)
           /\ \A s \in Sweeper : gcList'[s] \subseteq gcList[s] \cup Orphaned
<1> USE ConstantsAssumption DEF TInv, TypeOK, Goto, tables, locals, history
<1> DEFINE P == /\ released \subseteq released' /\ tainted \subseteq tainted'
                /\ \A v \in Req : Known(v)' => Known(v) \/ SetCurrent(v)
                /\ \A s \in Sweeper : gcList'[s] \subseteq gcList[s] \cup Orphaned
<1>1. ASSUME UNCHANGED <<files, prev, released, tainted, gcList>> PROVE P
  BY <1>1 DEF Known
<1>2. ASSUME NEW r \in Req, NEW b \in Body, Post(r, b) PROVE P
  BY <1>1, <1>2 DEF Post
<1>3. ASSUME NEW r \in Req, NEW f \in Req,
             Download(r, f) \/ \E b \in Body : Put(r, f, b)
      PROVE  P
  <2>1. /\ prev' = [prev EXCEPT ![r] = files[f]]
        /\ UNCHANGED <<files, released, tainted, gcList>>
    BY <1>3 DEF Download, Put
  <2>2. QED
    BY <2>1 DEF Known
<1>4. ASSUME NEW r \in Req, CreateFile(r) PROVE P
  BY <1>4 DEF CreateFile, Known
<1>5. ASSUME NEW r \in Req, SetCurrent(r) PROVE P
  <2>1. /\ files' = [files EXCEPT ![fileOf[r]] = r]
        /\ UNCHANGED <<prev, released, tainted, gcList>>
    BY <1>5 DEF SetCurrent
  <2>2. \A v \in Req : Known(v)' => Known(v) \/ v = r
    BY <2>1 DEF Known
  <2>3. QED
    BY <1>5, <2>1, <2>2
<1>6. ASSUME NEW r \in Req, SelectManifest(r) PROVE P
  BY <1>6 DEF SelectManifest, Known
<1>7. ASSUME NEW r \in Req,
             \/ Reject(r) \/ HandlerFails(r) \/ ReaderStep(r)
             \/ InsertVersion(r) \/ InsertChunk(r) \/ BumpRefcount(r) \/ SelectVersion(r)
             \/ Decrement(r) \/ DeleteManifest(r) \/ DeleteVersionRow(r)
      PROVE  P
  BY <1>1, <1>7 DEF Reject, HandlerFails, ReaderStep, ReadVersion, ReadManifest, Served,
     InsertVersion, InsertChunk, BumpRefcount, SelectVersion, Decrement, DeleteManifest,
     DeleteVersionRow
<1>8. ASSUME NEW w \in Worker, WorkerCrash(w) PROVE P
  BY <1>1, <1>8 DEF WorkerCrash
<1>9. ASSUME NEW s \in Sweeper, \/ GcList(s) \/ GcStop(s)
                               \/ \E h \in Chunk : GcReap(s, h)
      PROVE  P
  <2>1. UNCHANGED <<files, prev, released>> /\ tainted \subseteq tainted'
    BY <1>9 DEF GcList, GcStop, GcReap
  <2>2. \E T \in SUBSET (gcList[s] \cup Orphaned) : gcList' = [gcList EXCEPT ![s] = T]
    BY <1>9 DEF GcList, GcStop, GcReap
  <2>3. QED
    BY <2>1, <2>2 DEF Known
<1>10. CASE UNCHANGED vars
  BY <1>1, <1>10 DEF vars
<1>11. QED
  BY <1>2, <1>3, <1>4, <1>5, <1>6, <1>7, <1>8, <1>9, <1>10 DEF Next, WriterStep

(* The rows of a known version stay as they are until it is released. *)
LEMMA KnownKeepsRows ==
    ASSUME TInv, Inv, RInv, [Next]_vars, NEW v \in Req, Known(v), v \notin released'
    PROVE  manifest'[v] = manifest[v]
<1> USE DEF TInv, TypeOK, tables, locals, history
<1>1. Settled(v)
  BY KnownSettled
<1>2. ASSUME NEW r \in Req, InsertChunk(r) PROVE manifest'[v] = manifest[v]
  <2>1. r # v
    BY <1>1, <1>2 DEF InsertChunk, Settled, Releasing
  <2>2. manifest' = [manifest EXCEPT ![r] = Append(@, body[r][k[r]])]
    BY <1>2 DEF InsertChunk
  <2>3. QED
    BY <2>1, <2>2
<1>3. ASSUME NEW r \in Req, DeleteManifest(r) PROVE manifest'[v] = manifest[v]
  <2>1. prev[r] \in released /\ UNCHANGED released
    BY <1>3 DEF DeleteManifest, RInv, Returning
  <2>2. QED
    BY <1>3, <2>1 DEF DeleteManifest
<1>4. ASSUME UNCHANGED manifest PROVE manifest'[v] = manifest[v]
  BY <1>4
<1>5. CASE UNCHANGED vars
  BY <1>5 DEF vars
<1>6. QED
  BY <1>2, <1>3, <1>4, <1>5 DEF Next, WriterStep, ReaderStep, Post, Put, Download, Reject,
     CreateFile, InsertVersion, BumpRefcount, SetCurrent, SelectVersion, SelectManifest,
     Decrement, DeleteVersionRow, ReadVersion, ReadManifest, Served, HandlerFails, WorkerCrash,
     GcList, GcReap, GcStop
(* How a handler's labels and variables move on. *)
LEMMA LabelStep ==
    ASSUME TInv, [Next]_vars, NEW r \in Req
    PROVE  /\ pc[r] # "idle" => pc'[r] # "idle" /\ body'[r] = body[r] /\ prev'[r] = prev[r]
           /\ pc'[r] = "upload" => pc[r] \in {"idle", "upload"}
           /\ pc'[r] \in Committing => pc[r] \in {"upload"} \cup Committing
           /\ pc'[r] = "fetch" => \/ pc[r] = "fetch" /\ snap'[r] = snap[r]
                                 \/ ReadManifest(r)
           /\ pc[r] \in {"fetch", "served", "failed"} =>
                 pc'[r] \in {"fetch", "served", "failed"} /\ snap'[r] = snap[r]
           /\ pc[r] \in {"upload"} \cup Committing =>
                 /\ pc'[r] \in {"upload", "failed"} \cup Committing \/ SetCurrent(r)
                 /\ k'[r] = k[r] \/ BumpRefcount(r)
<1> USE DEF TInv, TypeOK, Goto, Live, Over, Sync, tables, locals, history, Committing
<1> DEFINE P ==
      /\ pc[r] # "idle" => pc'[r] # "idle" /\ body'[r] = body[r] /\ prev'[r] = prev[r]
      /\ pc'[r] = "upload" => pc[r] \in {"idle", "upload"}
      /\ pc'[r] \in Committing => pc[r] \in {"upload"} \cup Committing
      /\ pc'[r] = "fetch" => \/ pc[r] = "fetch" /\ snap'[r] = snap[r]
                            \/ ReadManifest(r)
      /\ pc[r] \in {"fetch", "served", "failed"} =>
            pc'[r] \in {"fetch", "served", "failed"} /\ snap'[r] = snap[r]
      /\ pc[r] \in {"upload"} \cup Committing =>
            /\ pc'[r] \in {"upload", "failed"} \cup Committing \/ SetCurrent(r)
            /\ k'[r] = k[r] \/ BumpRefcount(r)
<1>1. ASSUME pc'[r] = pc[r], body'[r] = body[r], prev'[r] = prev[r], k'[r] = k[r],
             snap'[r] = snap[r]
      PROVE  P
  BY <1>1
<1>2. ASSUME NEW q \in Req, NEW b \in Body, Post(q, b) PROVE P
  BY <1>2 DEF Post
<1>3. ASSUME NEW q \in Req, NEW f \in Req, NEW b \in Body, Put(q, f, b) PROVE P
  BY <1>3 DEF Put
<1>4. ASSUME NEW q \in Req, NEW f \in Req, Download(q, f) PROVE P
  BY <1>4 DEF Download
<1>5. ASSUME NEW q \in Req, Reject(q) \/ HandlerFails(q) PROVE P
  BY <1>5 DEF Reject, HandlerFails
<1>6. ASSUME NEW q \in Req, CreateFile(q) \/ InsertVersion(q) \/ InsertChunk(q) PROVE P
  BY <1>6 DEF CreateFile, InsertVersion, InsertChunk
<1>7. ASSUME NEW q \in Req, BumpRefcount(q) PROVE P
  <2>1. CASE q = r
    BY <1>7, <2>1 DEF BumpRefcount
  <2>2. CASE q # r
    BY <1>1, <1>7, <2>2 DEF BumpRefcount
  <2>3. QED
    BY <2>1, <2>2
<1>8. ASSUME NEW q \in Req, SetCurrent(q) PROVE P
  <2>1. CASE q = r
    BY <1>8, <2>1 DEF SetCurrent
  <2>2. CASE q # r
    BY <1>1, <1>8, <2>2 DEF SetCurrent
  <2>3. QED
    BY <2>1, <2>2
<1>9. ASSUME NEW q \in Req, SelectVersion(q) \/ SelectManifest(q) \/ Decrement(q)
                            \/ DeleteManifest(q) \/ DeleteVersionRow(q)
      PROVE  P
  BY <1>9 DEF SelectVersion, SelectManifest, Decrement, DeleteManifest, DeleteVersionRow,
     AfterSelect
<1>10. ASSUME NEW q \in Req, ReaderStep(q) PROVE P
  <2>1. CASE ReadManifest(q)
    <3>1. CASE q = r
      BY <2>1, <3>1 DEF ReadManifest
    <3>2. CASE q # r
      BY <1>1, <2>1, <3>2 DEF ReadManifest
    <3>3. QED
      BY <3>1, <3>2
  <2>2. CASE ReadVersion(q) \/ Served(q)
    BY <2>2 DEF ReadVersion, Served
  <2>3. QED
    BY <1>10, <2>1, <2>2 DEF ReaderStep
<1>11. ASSUME NEW w \in Worker, WorkerCrash(w) PROVE P
  BY <1>11 DEF WorkerCrash
<1>12. ASSUME NEW s \in Sweeper, \/ GcList(s) \/ GcStop(s)
                                \/ \E h \in Chunk : GcReap(s, h)
       PROVE  P
  BY <1>1, <1>12 DEF GcList, GcStop, GcReap
<1>13. CASE UNCHANGED vars
  BY <1>1, <1>13 DEF vars
<1>14. QED
  BY <1>2, <1>3, <1>4, <1>5, <1>6, <1>7, <1>8, <1>9, <1>10, <1>11, <1>12, <1>13
     DEF Next, WriterStep
=============================================================================
