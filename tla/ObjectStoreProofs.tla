-------------------------- MODULE ObjectStoreProofs --------------------------
(***************************************************************************)
(* ObjectStore for any requests, workers, collectors, nodes, bodies, chunk *)
(* size, quorum and number of late requests.  Every step is a step of      *)
(* MetadataStore and a step of Coordinator, so that what is proved of the  *)
(* two holds here as well (MetaInv, CoordInv); what has to be added is how *)
(* the handlers and the sweeps tie them together.                          *)
(***************************************************************************)
EXTENDS ObjectStore, ChunkerProofs

MP == INSTANCE MetadataCountProofs
CP == INSTANCE CoordinatorProofs

(* The hash lists the chunker makes are sequences of chunks. *)
LEMMA BodySeqs == Body \subseteq Seq(Chunk) /\ <<>> \in Body
<1>1. ASSUME NEW buf \in Buffer PROVE ChunkHashes(buf) \in Seq(Chunk)
  <2>1. Len(buf) \in Nat
    BY StoreAssumption
  <2>2. PICK m \in Nat : Passes(Len(buf)) = 1..m
    BY <2>1, PassesInterval
  <2>3. DOMAIN ChunkHashes(buf) = 1..m
    BY <2>2 DEF ChunkHashes, ChunkBuffer
  <2>4. \A j \in 1..m : ChunkHashes(buf)[j] \in Chunk
    BY <2>3 DEF Chunk, Body, Range
  <2>5. ChunkHashes(buf) = [j \in 1..m |-> ChunkHashes(buf)[j]]
    BY <2>2 DEF ChunkHashes, ChunkBuffer
  <2>6. QED
    BY <2>3, <2>4, <2>5
<1>2. ChunkHashes(<<>>) = <<>>
  <2>1. Passes(0) = {}
    BY DEF Passes
  <2>2. QED
    BY <2>1 DEF ChunkHashes, ChunkBuffer
<1>3. QED
  BY <1>1, <1>2, StoreAssumption DEF Body

LEMMA MetaConstants ==
    /\ MP!IsFiniteSet(Req) /\ Body \subseteq Seq(Chunk) /\ <<>> \in Body
    /\ NoFile \notin Req /\ NULL \notin Req /\ NoFile # NULL
BY BodySeqs, StoreAssumption DEF IsFiniteSet, MP!IsFiniteSet

LEMMA CoordConstants ==
    /\ Pref \in [Chunk -> Seq(Node)] /\ W \in Nat
    /\ \A h \in Chunk : \A a, b \in DOMAIN Pref[h] : Pref[h][a] = Pref[h][b] => a = b
BY StoreAssumption DEF IsInjective
-----------------------------------------------------------------------------
(* The invariants of the two components. *)

MetaInv  == MP!TInv /\ MP!Inv /\ MP!RInv /\ MP!Lower
CoordInv == CP!TypeOK /\ CP!HoldInv /\ CP!ReadInv

LEMMA MetaInit == MP!Init => MetaInv
BY MetaConstants, MP!TypeInit, MP!InvInit, MP!ReleaseInit, MP!LowerInit DEF MetaInv

LEMMA MetaStep == ASSUME MetaInv, [MP!Next]_(MP!vars) PROVE MetaInv'
<1>1. MP!TInv'
  BY MetaConstants, MP!TypeStep DEF MetaInv
<1>2. MP!Inv' /\ MP!RInv' /\ MP!Lower'
  BY <1>1, MetaConstants, MP!InvStep, MP!ReleaseStep, MP!LowerStep DEF MetaInv
<1>3. QED
  BY <1>1, <1>2 DEF MetaInv

LEMMA CoordInit == CP!Init => CoordInv
BY CoordConstants, CP!TypeInit
   DEF CoordInv, CP!Init, CP!HoldInv, CP!Waits, CP!Acked, CP!Kept,
       CP!ReadInv, CP!MissedOK, CP!Walk, CP!Survives

(* The steps of the coordinator, with Abandon of any callers. *)
Begins == \E c \in Call, h \in Chunk :
              CP!PutChunk(c, h) \/ CP!GetChunk(c, h) \/ CP!DeleteChunk(c, h)
Goes   == CP!NodeStep \/ (\E c \in Call : CP!CallStep(c)) \/ \E D \in SUBSET Call : CP!Abandon(D)

LEMMA CoordStep == ASSUME CoordInv, Begins \/ Goes \/ UNCHANGED coord PROVE CoordInv'
<1>1. CASE UNCHANGED coord
  <2>1. UNCHANGED CP!vars
    BY <1>1 DEF coord, CP!vars, CP!calls, CP!history
  <2>2. CP!TypeOK'
    BY <2>1, CoordConstants, CP!TypeStep DEF CoordInv
  <2>3. QED
    BY <2>1, <2>2, CoordConstants, CP!HoldStep, CP!ReadStep DEF CoordInv
<1>2. CASE Begins \/ Goes
  <2>1. CP!TypeOK'
    <3>1. CASE \E D \in SUBSET Call : CP!Abandon(D)
      BY <3>1, CoordConstants, CP!TypeAbandon DEF CoordInv
    <3>2. CASE Begins \/ CP!NodeStep \/ \E c \in Call : CP!CallStep(c)
      <4>1. CP!Next
        BY <3>2 DEF Begins, CP!Next
      <4>2. QED
        BY <4>1, CoordConstants, CP!TypeStep DEF CoordInv
    <3>3. QED
      BY <1>2, <3>1, <3>2 DEF Goes
  <2>2. CP!HoldInv' /\ CP!ReadInv'
    <3>1. CASE Begins
      BY <2>1, <3>1, CoordConstants, CP!HoldBeginStep, CP!ReadBeginStep DEF CoordInv, Begins
    <3>2. CASE CP!NodeStep
      BY <2>1, <3>2, CoordConstants, CP!HoldNodeStep, CP!ReadNodeStep DEF CoordInv
    <3>3. CASE (\E c \in Call : CP!CallStep(c)) \/ \E D \in SUBSET Call : CP!Abandon(D)
      BY <2>1, <3>3, CoordConstants, CP!HoldCallStep, CP!ReadCallStep DEF CoordInv
    <3>4. QED
      BY <1>2, <3>1, <3>2, <3>3 DEF Goes
  <2>3. QED
    BY <2>1, <2>2 DEF CoordInv
<1>3. QED
  BY <1>1, <1>2
-----------------------------------------------------------------------------
(* ObjectStore's instances of the two components and the proofs' instances *)
(* have the same definitions.                                              *)

LEMMA SameHandlers ==
    ASSUME NEW r, NEW f, NEW b
    PROVE  /\ M!Free(host[r]) <=> MP!Free(host[r])
           /\ M!Post(r, b) => MP!Post(r, b)
           /\ M!Put(r, f, b) => MP!Put(r, f, b)
           /\ M!Reject(r) => MP!Reject(r)
           /\ M!Download(r, f) => MP!Download(r, f)
           /\ M!ReadVersion(r) => MP!ReadVersion(r)
           /\ M!ReadManifest(r) => MP!ReadManifest(r)
           /\ M!Served(r) => MP!Served(r)
           /\ M!HandlerFails(r) => MP!HandlerFails(r)
<1> USE DEF M!tables, MP!tables, M!locals, MP!locals, M!history, MP!history,
        M!Goto, MP!Goto, M!Free, MP!Free, M!Sync, MP!Sync, M!Live, MP!Live
<1>1. M!Free(host[r]) <=> MP!Free(host[r])
  OBVIOUS
<1>2. M!Post(r, b) => MP!Post(r, b)
  BY DEF M!Post, MP!Post
<1>3. M!Put(r, f, b) => MP!Put(r, f, b)
  BY DEF M!Put, MP!Put, M!FileFound, MP!FileFound
<1>4. M!Reject(r) => MP!Reject(r)
  BY DEF M!Reject, MP!Reject
<1>5. M!ReadVersion(r) => MP!ReadVersion(r)
  BY DEF M!ReadVersion, MP!ReadVersion
<1>6. M!ReadManifest(r) => MP!ReadManifest(r)
  BY DEF M!ReadManifest, MP!ReadManifest
<1>7. M!Served(r) => MP!Served(r)
  BY DEF M!Served, MP!Served
<1>8. M!HandlerFails(r) => MP!HandlerFails(r)
  BY DEF M!HandlerFails, MP!HandlerFails
<1>9. M!Download(r, f) => MP!Download(r, f)
  BY DEF M!Download, MP!Download
<1>10. QED
  BY <1>1, <1>2, <1>3, <1>4, <1>5, <1>6, <1>7, <1>8, <1>9

LEMMA SameWriters == ASSUME NEW r, M!WriterStep(r) PROVE MP!WriterStep(r)
<1> USE DEF M!tables, MP!tables, M!locals, MP!locals, M!history, MP!history,
        M!Goto, MP!Goto, M!Free, MP!Free, M!Sync, MP!Sync, M!Live, MP!Live
<1>1. M!CreateFile(r) => MP!CreateFile(r)
  BY DEF M!CreateFile, MP!CreateFile
<1>2. M!InsertVersion(r) => MP!InsertVersion(r)
  BY DEF M!InsertVersion, MP!InsertVersion
<1>3. M!InsertChunk(r) => MP!InsertChunk(r)
  BY DEF M!InsertChunk, MP!InsertChunk, M!ManifestDone, MP!ManifestDone
<1>4. M!BumpRefcount(r) => MP!BumpRefcount(r)
  BY DEF M!BumpRefcount, MP!BumpRefcount, M!Bumped, MP!Bumped
<1>5. M!SetCurrent(r) => MP!SetCurrent(r)
  BY DEF M!SetCurrent, MP!SetCurrent, M!ManifestDone, MP!ManifestDone
<1>6. M!SelectVersion(r) => MP!SelectVersion(r)
  BY DEF M!SelectVersion, MP!SelectVersion, M!AfterSelect, MP!AfterSelect
<1>7. M!SelectManifest(r) => MP!SelectManifest(r)
  BY DEF M!SelectManifest, MP!SelectManifest, M!Hashes, MP!Hashes
<1>8. M!Decrement(r) => MP!Decrement(r)
  BY DEF M!Decrement, MP!Decrement, M!Decremented, MP!Decremented
<1>9. M!DeleteManifest(r) => MP!DeleteManifest(r)
  BY DEF M!DeleteManifest, MP!DeleteManifest
<1>10. M!DeleteVersionRow(r) => MP!DeleteVersionRow(r)
  BY DEF M!DeleteVersionRow, MP!DeleteVersionRow
<1>11. QED
  BY <1>1, <1>2, <1>3, <1>4, <1>5, <1>6, <1>7, <1>8, <1>9, <1>10 DEF M!WriterStep, MP!WriterStep

LEMMA SameSweeps ==
    ASSUME NEW s, NEW h, NEW w
    PROVE  /\ M!WorkerCrash(w) => MP!WorkerCrash(w)
           /\ M!GcList(s) => MP!GcList(s)
           /\ M!GcReap(s, h) => MP!GcReap(s, h)
           /\ M!GcStop(s) => MP!GcStop(s)
<1> USE DEF M!tables, MP!tables, M!locals, MP!locals, M!history, MP!history,
        M!Goto, MP!Goto, M!Free, MP!Free, M!Sync, MP!Sync, M!Live, MP!Live
<1>1. M!WorkerCrash(w) => MP!WorkerCrash(w)
  BY DEF M!WorkerCrash, MP!WorkerCrash
<1>2. M!GcList(s) => MP!GcList(s)
  BY DEF M!GcList, MP!GcList, M!Orphaned, MP!Orphaned
<1>3. M!GcReap(s, h) => MP!GcReap(s, h)
  BY DEF M!GcReap, MP!GcReap
<1>4. M!GcStop(s) => MP!GcStop(s)
  BY DEF M!GcStop, MP!GcStop
<1>5. QED
  BY <1>1, <1>2, <1>3, <1>4

LEMMA SameCalls ==
    ASSUME NEW c, NEW h, NEW why, NEW D
    PROVE  /\ C!PutChunk(c, h) => CP!PutChunk(c, h)
           /\ C!GetChunk(c, h) => CP!GetChunk(c, h)
           /\ C!DeleteChunk(c, h) => CP!DeleteChunk(c, h)
           /\ C!PutOk(c) => CP!PutOk(c)
           /\ C!PutFailed(c) => CP!PutFailed(c)
           /\ C!DeleteDone(c) => CP!DeleteDone(c)
           /\ C!GetServed(c) => CP!GetServed(c)
           /\ C!GetAdvances(c, why) => CP!GetAdvances(c, why)
           /\ C!GetExhausted(c) => CP!GetExhausted(c)
           /\ C!Abandon(D) => CP!Abandon(D)
           /\ C!Holders(h) = CP!Holders(h) /\ C!Replicas(h) = CP!Replicas(h)
           /\ C!Open = CP!Open /\ C!Reasons = CP!Reasons
<1> USE DEF C!Cardinality, CP!Cardinality
<1>1. C!PutChunk(c, h) => CP!PutChunk(c, h)
  BY DEF C!PutChunk, CP!PutChunk, C!Begin, CP!Begin, C!Replicas, CP!Replicas, C!Open,
         CP!Open, C!Deleting, CP!Deleting
<1>2. C!GetChunk(c, h) => CP!GetChunk(c, h)
  BY DEF C!GetChunk, CP!GetChunk, C!Begin, CP!Begin, C!Replicas, CP!Replicas, C!Open,
         CP!Open
<1>3. C!DeleteChunk(c, h) => CP!DeleteChunk(c, h)
  BY DEF C!DeleteChunk, CP!DeleteChunk, C!Begin, CP!Begin, C!Replicas, CP!Replicas,
         C!Open, CP!Open
<1>4. C!PutOk(c) => CP!PutOk(c)
  BY DEF C!PutOk, CP!PutOk, C!End, CP!End, C!AllSettled, CP!AllSettled, C!Quorum,
         CP!Quorum
<1>5. C!PutFailed(c) => CP!PutFailed(c)
  BY DEF C!PutFailed, CP!PutFailed, C!End, CP!End, C!AllSettled, CP!AllSettled,
         C!Quorum, CP!Quorum
<1>6. C!DeleteDone(c) => CP!DeleteDone(c)
  BY DEF C!DeleteDone, CP!DeleteDone, C!End, CP!End, C!AllSettled, CP!AllSettled
<1>7. C!GetServed(c) => CP!GetServed(c)
  BY DEF C!GetServed, CP!GetServed, C!End, CP!End, C!TryReplica, CP!TryReplica
<1>8. C!GetAdvances(c, why) => CP!GetAdvances(c, why)
  BY DEF C!GetAdvances, CP!GetAdvances, C!TryReplica, CP!TryReplica, C!WalkOn,
         CP!WalkOn, C!GetFailure, CP!GetFailure
<1>9. C!GetExhausted(c) => CP!GetExhausted(c)
  BY DEF C!GetExhausted, CP!GetExhausted, C!End, CP!End
<1>10. C!Abandon(D) => CP!Abandon(D)
  BY DEF C!Abandon, CP!Abandon, C!history, CP!history
<1>11. C!Holders(h) = CP!Holders(h) /\ C!Replicas(h) = CP!Replicas(h)
  BY DEF C!Holders, CP!Holders, C!Replicas, CP!Replicas
<1>12. C!Open = CP!Open /\ C!Reasons = CP!Reasons
  BY DEF C!Open, CP!Open, C!Reasons, CP!Reasons
<1>13. QED
  BY <1>1, <1>2, <1>3, <1>4, <1>5, <1>6, <1>7, <1>8, <1>9, <1>10, <1>11, <1>12

LEMMA SameNodes == C!NodeStep => CP!NodeStep
<1> USE DEF C!calls, C!history, CP!calls, CP!history, C!Handle, CP!Handle, C!AfterPut,
        CP!AfterPut
<1>1. \A c \in Call, n \in Node : C!RequestHandled(c, n) => CP!RequestHandled(c, n)
  BY DEF C!RequestHandled, CP!RequestHandled
<1>2. \A c \in Call, n \in Node : C!RequestFails(c, n) => CP!RequestFails(c, n)
  BY DEF C!RequestFails, CP!RequestFails
<1>3. \A c \in Call, n \in Node : C!RequestTimesOut(c, n) => CP!RequestTimesOut(c, n)
  BY DEF C!RequestTimesOut, CP!RequestTimesOut, C!Cardinality, CP!Cardinality
<1>4. \A kind, n, h : C!LateHandled(kind, n, h) => CP!LateHandled(kind, n, h)
  BY DEF C!LateHandled, CP!LateHandled
<1>5. \A kind, n, h : C!LateLost(kind, n, h) => CP!LateLost(kind, n, h)
  BY DEF C!LateLost, CP!LateLost
<1>6. QED
  BY <1>1, <1>2, <1>3, <1>4, <1>5 DEF C!NodeStep, CP!NodeStep
-----------------------------------------------------------------------------
(* Roles.  Deletes are made by sweeps, of a chunk on their list; puts by   *)
(* requests, of the chunk their upload has come to; gets by the slots of   *)
(* downloads.                                                              *)

Fetches == {"get", "missing", "unavailable"}

Role(c) ==
    /\ op[c] = "delete" => c \in Sweeper /\ chunkOf[c] \in gcList[c]
    /\ op[c] = "put" => c \in Req
    /\ op[c] \in Fetches => c \in Fetch

(* How far the upload of r is. *)
Sending(r) ==
    /\ pc[r] = "idle" => sent[r] = 1
    /\ pc[r] \in MP!Committing => sent[r] > Len(body[r])
    /\ op[r] = "put" => /\ pc[r] = "upload" /\ sent[r] <= Len(body[r])
                        /\ chunkOf[r] = body[r][sent[r]]

(* What a slot of a download's Promise.all works on. *)
Fetching(r) ==
    \A j \in Slot : op[<<r, j>>] \in Fetches =>
        pc[r] \in {"fetch", "served", "failed"} /\ prev[r] \in Req

HandlerInv == /\ sent \in [Req -> Nat \ {0}]
              /\ \A c \in Call : Role(c)
              /\ \A r \in Req : Sending(r) /\ Fetching(r)

LEMMA CallKinds ==
    /\ \A r \in Req : r \in Call /\ r \notin Sweeper /\ r \notin Fetch
    /\ \A s \in Sweeper : s \in Call /\ s \notin Req /\ s \notin Fetch
    /\ \A r \in Req, j \in Slot : /\ <<r, j>> \in Fetch /\ <<r, j>> \in Call
                                  /\ <<r, j>> \notin Req /\ <<r, j>> \notin Sweeper
BY StoreAssumption DEF Call, Fetch

(* The entries of a request's body and of a manifest it has read. *)
LEMMA Entries ==
    ASSUME MetaInv, NEW r \in Req
    PROVE  /\ body[r] \in Seq(Chunk) /\ Len(body[r]) \in Nat /\ DOMAIN body[r] = 1..Len(body[r])
           /\ \A j \in 1..Len(body[r]) : body[r][j] \in Chunk /\ body[r][j] \in Range(body[r])
           /\ \A h \in Range(body[r]) : h \in Chunk
           /\ \A j \in DOMAIN snap[r] : snap[r][j] \in Chunk
<1>1. body[r] \in Seq(Chunk) /\ snap[r] \in Seq(Chunk)
  BY BodySeqs DEF MetaInv, MP!TInv, MP!TypeOK
<1>2. QED
  BY <1>1 DEF Range
-----------------------------------------------------------------------------
(* Every step is a step of each component. *)

LEMMA MetaStutter == UNCHANGED meta => UNCHANGED MP!vars
BY DEF meta, MP!vars, MP!tables, MP!locals, MP!history

LEMMA RequestIsMeta ==
    ASSUME NEW r \in Req, Start(r) \/ HandlerStep(r) \/ StatementFails(r)
    PROVE  [MP!Next]_(MP!vars)
<1>1. CASE Start(r)
  <2>1. \A buf \in Buffer : ChunkHashes(buf) \in Body
    BY DEF Body
  <2>2. QED
    BY <1>1, <2>1, SameHandlers DEF Start, MP!Next
<1>2. ASSUME M!HandlerFails(r) \/ M!Served(r) PROVE MP!Next
  BY <1>2, SameHandlers DEF MP!Next, MP!ReaderStep
<1>3. CASE Statement(r)
  BY <1>3, SameHandlers, SameWriters DEF Statement, MP!Next, MP!ReaderStep
<1>4. CASE UNCHANGED meta
  BY <1>4, MetaStutter
<1>5. QED
  BY <1>1, <1>2, <1>3, <1>4 DEF HandlerStep, SendChunk, ChunkStored, ChunkRefused,
     DownloadServed, DownloadFails, FetchChunk, ChunkFetched, ChunkNotFetched, StatementFails

LEMMA StepIsMeta ==
    ASSUME CoordInv, [Next]_vars PROVE [MP!Next]_(MP!vars)
<1>1. ASSUME NEW w \in Worker, WorkerCrash(w) PROVE MP!Next
  BY <1>1, SameSweeps DEF WorkerCrash, MP!Next
<1>2. ASSUME NEW s \in Sweeper, SweepList(s) \/ SweepReap(s) \/ SweepStops(s) PROVE MP!Next
  <2>1. chunkOf[s] \in Chunk
    BY CallKinds DEF CoordInv, CP!TypeOK
  <2>2. QED
    BY <1>2, <2>1, SameSweeps DEF SweepList, SweepReap, SweepStops, MP!Next
<1>3. ASSUME NEW s \in Sweeper, NEW h \in Chunk, SweepDelete(s, h) PROVE UNCHANGED MP!vars
  BY <1>3, MetaStutter DEF SweepDelete
<1>4. CASE NodeStep
  BY <1>4, MetaStutter DEF NodeStep
<1>5. CASE UNCHANGED vars
  BY <1>5, MetaStutter DEF vars
<1>6. QED
  BY <1>1, <1>2, <1>3, <1>4, <1>5, RequestIsMeta DEF Next, SweepStep

(* Which actions begin a call. *)
LEMMA WhoBegins ==
    ASSUME [Next]_vars
    PROVE  \/ \E r \in Req : SendChunk(r)
           \/ \E r \in Req, j \in Slot : FetchChunk(r, j)
           \/ \E s \in Sweeper, h \in Chunk : SweepDelete(s, h)
           \/ Goes \/ UNCHANGED coord
<1> DEFINE P == Goes \/ UNCHANGED coord
<1>1. ASSUME NEW r \in Req, ChunkStored(r) \/ ChunkRefused(r) PROVE P
  BY <1>1, CallKinds, SameCalls DEF ChunkStored, ChunkRefused, Goes, CP!CallStep
<1>2. ASSUME NEW r \in Req, NEW j \in Slot, ChunkFetched(r, j) \/ ChunkNotFetched(r, j) PROVE P
  BY <1>2, CallKinds, SameCalls DEF ChunkFetched, ChunkNotFetched, Goes, CP!CallStep
<1>3. ASSUME NEW s \in Sweeper, SweepReap(s) \/ SweepStops(s) PROVE P
  BY <1>3, CallKinds, SameCalls DEF SweepReap, SweepStops, Goes, CP!CallStep
<1>4. ASSUME NEW w \in Worker, WorkerCrash(w) PROVE P
  BY <1>4, SameCalls DEF WorkerCrash, Goes, Call
<1>5. CASE NodeStep
  BY <1>5, SameNodes DEF NodeStep, Goes
<1>6. CASE UNCHANGED coord
  BY <1>6
<1>7. QED
  BY <1>1, <1>2, <1>3, <1>4, <1>5, <1>6
     DEF Next, Start, HandlerStep, Statement, StatementFails, DownloadServed, DownloadFails,
         SweepStep, SweepList, vars

LEMMA BeginEffect ==
    ASSUME NEW c \in Call, NEW h \in Chunk,
           CP!PutChunk(c, h) \/ CP!GetChunk(c, h) \/ CP!DeleteChunk(c, h), CP!TypeOK
    PROVE  /\ op' = [op EXCEPT ![c] = op'[c]] /\ op[c] \notin CP!Open
           /\ chunkOf' = [chunkOf EXCEPT ![c] = h]
           /\ CP!PutChunk(c, h) => op'[c] = "put"
           /\ CP!GetChunk(c, h) => op'[c] = "get"
           /\ CP!DeleteChunk(c, h) => op'[c] = "delete"
           /\ UNCHANGED <<disk, late>>
BY DEF CP!PutChunk, CP!GetChunk, CP!DeleteChunk, CP!Begin, CP!TypeOK

LEMMA SendBegins ==
    ASSUME MetaInv, CoordInv, HandlerInv, NEW r \in Req, SendChunk(r)
    PROVE  /\ r \in Call /\ body[r][sent[r]] \in Chunk /\ CP!PutChunk(r, body[r][sent[r]])
           /\ op' = [op EXCEPT ![r] = "put"]
           /\ chunkOf' = [chunkOf EXCEPT ![r] = body[r][sent[r]]]
           /\ UNCHANGED <<meta, sent, disk, late>>
<1>1. sent[r] \in 1..Len(body[r])
  BY Entries DEF SendChunk, HandlerInv
<1>2. r \in Call /\ body[r][sent[r]] \in Chunk
  BY <1>1, Entries, CallKinds
<1>3. CP!PutChunk(r, body[r][sent[r]])
  BY SameCalls DEF SendChunk
<1>4. QED
  BY <1>2, <1>3, BeginEffect DEF CoordInv, SendChunk

LEMMA FetchBegins ==
    ASSUME MetaInv, CoordInv, NEW r \in Req, NEW j \in Slot, FetchChunk(r, j)
    PROVE  /\ <<r, j>> \in Call /\ snap[r][j] \in Chunk /\ CP!GetChunk(<<r, j>>, snap[r][j])
           /\ op' = [op EXCEPT ![<<r, j>>] = "get"]
           /\ chunkOf' = [chunkOf EXCEPT ![<<r, j>>] = snap[r][j]]
           /\ UNCHANGED <<meta, sent, disk, late>>
<1>1. <<r, j>> \in Call /\ snap[r][j] \in Chunk
  BY Entries, CallKinds DEF FetchChunk
<1>2. CP!GetChunk(<<r, j>>, snap[r][j])
  BY SameCalls DEF FetchChunk
<1>3. QED
  BY <1>1, <1>2, BeginEffect DEF CoordInv, FetchChunk

LEMMA SweepBegins ==
    ASSUME CoordInv, NEW s \in Sweeper, NEW h \in Chunk, SweepDelete(s, h)
    PROVE  /\ s \in Call /\ h \in gcList[s] /\ CP!DeleteChunk(s, h)
           /\ op' = [op EXCEPT ![s] = "delete"] /\ chunkOf' = [chunkOf EXCEPT ![s] = h]
           /\ UNCHANGED <<meta, sent, disk, late>>
<1>1. s \in Call /\ CP!DeleteChunk(s, h)
  BY CallKinds, SameCalls DEF SweepDelete
<1>2. QED
  BY <1>1, BeginEffect DEF CoordInv, SweepDelete

LEMMA StepIsCoord ==
    ASSUME MetaInv, CoordInv, HandlerInv, [Next]_vars PROVE Begins \/ Goes \/ UNCHANGED coord
<1>1. ASSUME NEW r \in Req, SendChunk(r) PROVE Begins
  BY <1>1, SendBegins DEF Begins
<1>2. ASSUME NEW r \in Req, NEW j \in Slot, FetchChunk(r, j) PROVE Begins
  BY <1>2, FetchBegins DEF Begins
<1>3. ASSUME NEW s \in Sweeper, NEW h \in Chunk, SweepDelete(s, h) PROVE Begins
  BY <1>3, SweepBegins DEF Begins
<1>4. QED
  BY <1>1, <1>2, <1>3, WhoBegins
-----------------------------------------------------------------------------
(* HandlerInv is kept. *)

(* What the other actions leave alone. *)
LEMMA NoCallBegins ==
    ASSUME CoordInv, Goes \/ UNCHANGED coord
    PROVE  /\ UNCHANGED <<chunkOf, clean>> /\ stored \subseteq stored'
           /\ \A c \in Call : \/ op'[c] = op[c]
                              \/ op'[c] = "none"
                              \/ op[c] = "get" /\ op'[c] \in {"missing", "unavailable"}
           /\ \A n \in Node, h \in Chunk : <<"delete", n, h>> \in late' => CP!Deleting(h)
<1>1. CASE Goes
  BY <1>1, CoordConstants, CP!QuietCalls DEF CoordInv, Goes
<1>2. CASE UNCHANGED coord
  BY <1>2 DEF coord, CP!Deleting
<1>3. QED
  BY <1>1, <1>2

(* A sweep keeps the chunk on its list while it deletes it. *)
LEMMA ListKept ==
    ASSUME MetaInv, CoordInv, HandlerInv, [Next]_vars,
           NEW s \in Sweeper, op[s] = "delete", op'[s] = "delete"
    PROVE  chunkOf[s] \in gcList'[s]
<1>1. chunkOf[s] \in gcList[s] /\ gcList \in [Sweeper -> SUBSET Chunk] /\ s \in Call
  BY CallKinds DEF HandlerInv, Role, MetaInv, MP!TInv, MP!TypeOK
<1>2. CASE gcList'[s] = gcList[s]
  BY <1>1, <1>2
<1>3. ASSUME NEW t \in Sweeper, SweepList(t) PROVE gcList'[s] = gcList[s]
  BY <1>1, <1>3 DEF SweepList, M!GcList
<1>4. ASSUME NEW t \in Sweeper, SweepReap(t) PROVE gcList'[s] = gcList[s]
  <2>1. t # s
    BY <1>4 DEF SweepReap, C!DeleteDone, C!End, CoordInv, CP!TypeOK, Call
  <2>2. QED
    BY <1>1, <1>4, <2>1 DEF SweepReap, M!GcReap
<1>5. ASSUME NEW t \in Sweeper, SweepStops(t) PROVE gcList'[s] = gcList[s]
  <2>1. t # s
    BY <1>1, <1>5 DEF SweepStops, C!Abandon
  <2>2. QED
    BY <1>1, <1>5, <2>1 DEF SweepStops, M!GcStop
<1>6. ASSUME NEW r \in Req, Start(r) \/ HandlerStep(r) \/ StatementFails(r) PROVE gcList' = gcList
  <2>1. ASSUME M!HandlerFails(r) \/ M!Served(r) \/ M!WriterStep(r) \/ M!ReadVersion(r)
               \/ M!ReadManifest(r) \/ M!Reject(r) \/ UNCHANGED meta
        PROVE  gcList' = gcList
    BY <2>1 DEF meta, M!HandlerFails, M!Served, M!WriterStep, M!CreateFile, M!InsertVersion,
       M!InsertChunk, M!BumpRefcount, M!SetCurrent, M!SelectVersion, M!SelectManifest,
       M!Decrement, M!DeleteManifest, M!DeleteVersionRow, M!ReadVersion, M!ReadManifest, M!Reject
  <2>2. CASE Start(r)
    BY <2>1, <2>2 DEF Start, M!Post, M!Put, M!Download
  <2>3. QED
    BY <1>6, <2>1, <2>2 DEF HandlerStep, StatementFails, SendChunk, ChunkStored, ChunkRefused,
       Statement, DownloadServed, DownloadFails, FetchChunk, ChunkFetched, ChunkNotFetched
<1>7. ASSUME NEW w \in Worker, WorkerCrash(w) PROVE gcList' = gcList
  BY <1>7 DEF WorkerCrash, M!WorkerCrash
<1>8. CASE UNCHANGED meta
  BY <1>2, <1>8 DEF meta
<1>9. QED
  BY <1>2, <1>3, <1>4, <1>5, <1>6, <1>7, <1>8 DEF Next, SweepStep, SweepDelete, NodeStep, vars

LEMMA RoleStep ==
    ASSUME MetaInv, CoordInv, HandlerInv, [Next]_vars, NEW d \in Call PROVE Role(d)'
<1>1. Role(d) /\ op \in [Call -> CP!Open \cup {"none", "missing", "unavailable"}]
  BY DEF HandlerInv, CoordInv, CP!TypeOK
<1>2. CASE Goes \/ UNCHANGED coord
  BY <1>1, <1>2, NoCallBegins, ListKept DEF Role, Fetches
<1>3. ASSUME NEW r \in Req, SendChunk(r) PROVE Role(d)'
  BY <1>1, <1>3, SendBegins DEF Role, Fetches, CoordInv, CP!TypeOK, meta
<1>4. ASSUME NEW r \in Req, NEW j \in Slot, FetchChunk(r, j) PROVE Role(d)'
  <2>1. /\ op' = [op EXCEPT ![<<r, j>>] = "get"] /\ gcList' = gcList
        /\ chunkOf' = [chunkOf EXCEPT ![<<r, j>>] = snap[r][j]]
    BY <1>4, FetchBegins DEF meta
  <2>2. <<r, j>> \in Call /\ <<r, j>> \in Fetch
    BY CallKinds
  <2>3. QED
    BY <1>1, <2>1, <2>2 DEF Role, Fetches, CoordInv, CP!TypeOK
<1>5. ASSUME NEW s \in Sweeper, NEW h \in Chunk, SweepDelete(s, h) PROVE Role(d)'
  BY <1>1, <1>5, SweepBegins DEF Role, Fetches, CoordInv, CP!TypeOK, meta
<1>6. QED
  BY <1>2, <1>3, <1>4, <1>5, WhoBegins
(* An upload ends by its handler's next statement, which waits for the     *)
(* last chunk, or in failure, and leaves no put behind.                    *)
LEMMA UploadLeaves ==
    ASSUME MetaInv, CoordInv, HandlerInv, [Next]_vars,
           NEW r \in Req, pc[r] = "upload", pc'[r] # "upload"
    PROVE  op'[r] # "put" /\ (sent[r] > Len(body[r]) \/ pc'[r] = "failed")
<1> DEFINE P == op'[r] # "put" /\ (sent[r] > Len(body[r]) \/ pc'[r] = "failed")
<1>1. /\ pc \in [Req -> MP!Live \cup MP!Over \cup {"idle"}] /\ r \in Call /\ Sending(r)
      /\ op \in [Call -> CP!Open \cup {"none", "missing", "unavailable"}]
  BY CallKinds DEF MetaInv, MP!TInv, MP!TypeOK, CoordInv, CP!TypeOK, HandlerInv
<1>2. ASSUME NEW q \in Req, Start(q) PROVE FALSE
  <2>1. pc[q] = "idle" /\ \E l : pc' = [pc EXCEPT ![q] = l]
    BY <1>2 DEF Start, M!Post, M!Put, M!Reject, M!Download, M!Goto
  <2>2. QED
    BY <1>1, <2>1
<1>3. ASSUME NEW q \in Req, Statement(q) PROVE P
  <2>1. PICK l : pc' = [pc EXCEPT ![q] = l] \/ pc' = pc
    BY <1>3 DEF Statement, M!WriterStep, M!CreateFile, M!InsertVersion, M!InsertChunk,
       M!BumpRefcount, M!SetCurrent, M!SelectVersion, M!SelectManifest, M!Decrement,
       M!DeleteManifest, M!DeleteVersionRow, M!ReadVersion, M!ReadManifest, M!Goto
  <2>2. q = r
    BY <1>1, <2>1
  <2>3. sent[r] > Len(body[r]) /\ op' = op
    BY <1>3, <2>2 DEF Statement, Uploaded, coord
  <2>4. op[r] # "put"
    <3>1. sent[r] \in Nat /\ Len(body[r]) \in Nat
      BY Entries DEF HandlerInv
    <3>2. QED
      BY <1>1, <2>3, <3>1 DEF Sending
  <2>5. QED
    BY <2>3, <2>4
<1>4. ASSUME NEW q \in Req, ChunkRefused(q) PROVE P
  <2>1. pc' = [pc EXCEPT ![q] = "failed"] /\ op' = [op EXCEPT ![q] = "none"]
    BY <1>4 DEF ChunkRefused, M!HandlerFails, M!Goto, C!PutFailed, C!End
  <2>2. QED
    BY <1>1, <2>1
<1>5. ASSUME NEW q \in Req, StatementFails(q) \/ DownloadFails(q) \/ DownloadServed(q) PROVE P
  <2>1. CASE StatementFails(q)
    <3>1. pc' = [pc EXCEPT ![q] = "failed"] /\ op' = op
      BY <2>1 DEF StatementFails, M!HandlerFails, M!Goto, coord
    <3>2. q = r
      BY <1>1, <3>1
    <3>3. sent[r] > Len(body[r]) /\ sent[r] \in Nat /\ Len(body[r]) \in Nat
      BY <2>1, <3>2, Entries DEF StatementFails, Uploaded, M!Sync, HandlerInv
    <3>4. op[r] # "put"
      BY <1>1, <3>3 DEF Sending
    <3>5. QED
      BY <3>1, <3>3, <3>4
  <2>2. CASE DownloadFails(q) \/ DownloadServed(q)
    <3>1. pc[q] # "upload" /\ \E l : pc' = [pc EXCEPT ![q] = l]
      BY <2>2 DEF DownloadFails, DownloadServed, M!HandlerFails, M!Served, M!Goto
    <3>2. QED
      BY <1>1, <3>1
  <2>3. QED
    BY <1>5, <2>1, <2>2
<1>6. ASSUME NEW w \in Worker, WorkerCrash(w) PROVE P
  <2>1. pc' = [q \in Req |-> IF host[q] = w /\ pc[q] \in M!Live THEN "failed" ELSE pc[q]]
    BY <1>6 DEF WorkerCrash, M!WorkerCrash
  <2>2. pc'[r] = "failed" /\ host[r] = w
    BY <2>1
  <2>3. PICK D : /\ D = {c \in Req : host[c] = w /\ op[c] \in C!Open}
                           \cup {c \in Fetch : host[c[1]] = w /\ op[c] \in C!Open}
                 /\ op' = [c \in Call |-> IF c \in D THEN "none" ELSE op[c]]
    BY <1>6 DEF WorkerCrash, C!Abandon
  <2>4. op'[r] # "put"
    BY <1>1, <2>2, <2>3 DEF C!Open
  <2>5. QED
    BY <2>2, <2>4
<1>7. CASE UNCHANGED pc
  BY <1>7
<1>8. QED
  <2>1. ASSUME UNCHANGED meta PROVE UNCHANGED pc
    BY <2>1 DEF meta
  <2>2. ASSUME NEW s \in Sweeper, SweepList(s) \/ SweepReap(s) \/ SweepStops(s) PROVE UNCHANGED pc
    BY <2>2 DEF SweepList, SweepReap, SweepStops, M!GcList, M!GcReap, M!GcStop
  <2>3. QED
    BY <1>2, <1>3, <1>4, <1>5, <1>6, <1>7, <2>1, <2>2 DEF Next, HandlerStep, SendChunk,
       ChunkStored, FetchChunk, ChunkFetched, ChunkNotFetched, SweepStep, SweepDelete, NodeStep,
       vars

(* The upload moves on when a chunk has reached its quorum, and only then. *)
LEMMA SentStep ==
    ASSUME CoordInv, HandlerInv, [Next]_vars
    PROVE  /\ sent' \in [Req -> Nat \ {0}]
           /\ \A r \in Req : \/ sent'[r] = sent[r]
                             \/ /\ ChunkStored(r) /\ sent'[r] = sent[r] + 1
                                /\ op[r] = "put" /\ op'[r] = "none"
<1>1. ASSUME NEW r \in Req, ChunkStored(r)
      PROVE  /\ sent' = [sent EXCEPT ![r] = @ + 1]
             /\ op[r] = "put" /\ op'[r] = "none"
  BY <1>1, CallKinds DEF ChunkStored, C!PutOk, C!End, CoordInv, CP!TypeOK
<1>2. (\E r \in Req : ChunkStored(r)) \/ sent' = sent
  BY DEF Next, Start, HandlerStep, SendChunk, ChunkRefused, Statement, StatementFails,
     DownloadServed, DownloadFails, FetchChunk, ChunkFetched, ChunkNotFetched, WorkerCrash,
     SweepStep, SweepList, SweepReap, SweepDelete, SweepStops, NodeStep, vars
<1>3. QED
  BY <1>1, <1>2 DEF HandlerInv

(* How the calls of requests and downloads come about. *)
LEMMA NewCalls ==
    ASSUME MetaInv, CoordInv, HandlerInv, [Next]_vars
    PROVE  /\ \A r \in Req : op'[r] = "put" =>
                 \/ op[r] = "put" /\ chunkOf'[r] = chunkOf[r]
                 \/ SendChunk(r) /\ chunkOf'[r] = body[r][sent[r]]
           /\ \A r \in Req, j \in Slot : op'[<<r, j>>] \in Fetches =>
                 \/ op[<<r, j>>] \in Fetches /\ chunkOf'[<<r, j>>] = chunkOf[<<r, j>>]
                 \/ FetchChunk(r, j) /\ chunkOf'[<<r, j>>] = snap[r][j]
<1> DEFINE P == /\ \A r \in Req : op'[r] = "put" =>
                      \/ op[r] = "put" /\ chunkOf'[r] = chunkOf[r]
                      \/ SendChunk(r) /\ chunkOf'[r] = body[r][sent[r]]
                /\ \A r \in Req, j \in Slot : op'[<<r, j>>] \in Fetches =>
                      \/ op[<<r, j>>] \in Fetches /\ chunkOf'[<<r, j>>] = chunkOf[<<r, j>>]
                      \/ FetchChunk(r, j) /\ chunkOf'[<<r, j>>] = snap[r][j]
<1>1. op \in [Call -> CP!Open \cup {"none", "missing", "unavailable"}] /\ chunkOf \in [Call -> Chunk]
  BY DEF CoordInv, CP!TypeOK
<1>2. CASE Goes \/ UNCHANGED coord
  BY <1>2, NoCallBegins, CallKinds DEF Fetches
<1>3. ASSUME NEW q \in Req, SendChunk(q) PROVE P
  BY <1>1, <1>3, SendBegins, CallKinds DEF Fetches
<1>4. ASSUME NEW q \in Req, NEW l \in Slot, FetchChunk(q, l) PROVE P
  <2>1. /\ op' = [op EXCEPT ![<<q, l>>] = "get"]
        /\ chunkOf' = [chunkOf EXCEPT ![<<q, l>>] = snap[q][l]]
    BY <1>4, FetchBegins
  <2>2. \A r \in Req : op'[r] = "put" => op[r] = "put" /\ chunkOf'[r] = chunkOf[r]
    BY <1>1, <2>1, CallKinds
  <2>3. ASSUME NEW r \in Req, NEW j \in Slot
        PROVE  \/ op'[<<r, j>>] = op[<<r, j>>] /\ chunkOf'[<<r, j>>] = chunkOf[<<r, j>>]
               \/ FetchChunk(r, j) /\ chunkOf'[<<r, j>>] = snap[r][j]
    <3>1. <<r, j>> \in Call
      BY CallKinds
    <3>2. CASE <<r, j>> = <<q, l>>
      <4>1. r = q /\ j = l
        BY <3>2
      <4>2. QED
        BY <1>1, <1>4, <2>1, <3>1, <4>1
    <3>3. CASE <<r, j>> # <<q, l>>
      BY <1>1, <2>1, <3>1, <3>3
    <3>4. QED
      BY <3>2, <3>3
  <2>4. QED
    BY <2>2, <2>3
<1>5. ASSUME NEW s \in Sweeper, NEW h \in Chunk, SweepDelete(s, h) PROVE P
  BY <1>1, <1>5, SweepBegins, CallKinds DEF Fetches
<1>6. QED
  BY <1>2, <1>3, <1>4, <1>5, WhoBegins

LEMMA SendingStep ==
    ASSUME MetaInv, MetaInv', CoordInv, HandlerInv, [Next]_vars, NEW r \in Req
    PROVE  Sending(r)' /\ Fetching(r)'
<1>1. MP!TInv /\ [MP!Next]_(MP!vars) /\ Sending(r) /\ Fetching(r)
  BY StepIsMeta DEF MetaInv, HandlerInv
<1>2. /\ pc[r] # "idle" => pc'[r] # "idle" /\ body'[r] = body[r] /\ prev'[r] = prev[r]
      /\ pc'[r] \in MP!Committing => pc[r] \in {"upload"} \cup MP!Committing
      /\ pc[r] \in {"fetch", "served", "failed"} => pc'[r] \in {"fetch", "served", "failed"}
  BY <1>1, MetaConstants, MP!LabelStep
<1>3. \/ sent'[r] = sent[r]
      \/ sent'[r] = sent[r] + 1 /\ op[r] = "put" /\ op'[r] = "none"
  BY SentStep
<1>4. sent[r] \in Nat /\ Len(body[r]) \in Nat
  BY Entries DEF HandlerInv
<1>5. pc'[r] = "idle" => sent'[r] = 1
  BY <1>1, <1>2, <1>3 DEF Sending
<1>6. pc'[r] \in MP!Committing => sent'[r] > Len(body'[r])
  BY <1>1, <1>2, <1>3, <1>4, UploadLeaves DEF Sending, MP!Committing
<1>7. ASSUME op'[r] = "put"
      PROVE  pc'[r] = "upload" /\ sent'[r] <= Len(body'[r]) /\ chunkOf'[r] = body'[r][sent'[r]]
  <2>1. CASE op[r] = "put" /\ chunkOf'[r] = chunkOf[r]
    BY <1>1, <1>2, <1>3, <1>7, <2>1, UploadLeaves DEF Sending
  <2>2. CASE SendChunk(r) /\ chunkOf'[r] = body[r][sent[r]]
    BY <2>2 DEF SendChunk, meta
  <2>3. QED
    BY <1>7, <2>1, <2>2, NewCalls
<1>8. ASSUME NEW j \in Slot, op'[<<r, j>>] \in Fetches
      PROVE  pc'[r] \in {"fetch", "served", "failed"} /\ prev'[r] \in Req
  <2>1. CASE op[<<r, j>>] \in Fetches
    BY <1>1, <1>2, <2>1 DEF Fetching
  <2>2. CASE FetchChunk(r, j)
    BY <1>1, <2>2 DEF FetchChunk, meta, MP!TInv, MP!LocalsOK, MP!Reading
  <2>3. QED
    BY <1>8, <2>1, <2>2, NewCalls
<1>9. QED
  BY <1>5, <1>6, <1>7, <1>8 DEF Sending, Fetching

LEMMA HandlersKept ==
    ASSUME MetaInv, MetaInv', CoordInv, HandlerInv, [Next]_vars PROVE HandlerInv'
<1>1. sent' \in [Req -> Nat \ {0}]
  BY SentStep
<1>2. \A c \in Call : Role(c)'
  BY RoleStep
<1>3. \A r \in Req : Sending(r)' /\ Fetching(r)'
  BY SendingStep
<1>4. QED
  BY <1>1, <1>2, <1>3 DEF HandlerInv
-----------------------------------------------------------------------------
(* UnexposedHeld and DownloadSurvives.  Coordinator's StoredHeld and       *)
(* ReadsSurvive speak of chunks that are stored, and MetadataStore's       *)
(* counts keep a chunk that is due from being listed; between the two      *)
(* stands that the chunks of a version no sweep has met are stored, from   *)
(* the quorum of their put, through the commit, until the version is       *)
(* released.                                                               *)

(* A writer no sweep has met. *)
Sheltered(r) ==
    Writing(r) /\ r \notin exposed =>
        /\ \A h \in Range(body[r]) : ~Sweeping(h)
        /\ \A j \in DOMAIN body[r] : j < sent[r] => body[r][j] \in stored
        /\ op[r] = "put" => clean[r]

(* A version that is or was current and that nobody releases. *)
Safe(v) ==
    v \notin exposed \cup released /\ MP!Known(v) =>
        \A h \in MP!Hashes(manifest[v]) \ tainted : ~Sweeping(h) /\ h \in stored

(* A download of such a version. *)
SafeFetch(r) ==
    /\ pc[r] = "fetch" /\ prev[r] \notin released => snap[r] = manifest[prev[r]]
    /\ \A j \in Slot :
          /\ op[<<r, j>>] \in Fetches
          /\ prev[r] \notin exposed \cup released /\ chunkOf[<<r, j>>] \notin tainted
          => chunkOf[<<r, j>>] \in MP!Hashes(manifest[prev[r]]) /\ clean[<<r, j>>]

SafeInv == \A r \in Req : Sheltered(r) /\ Safe(r) /\ SafeFetch(r)

LEMMA Tracks == Next => Track
BY DEF Next, Start, HandlerStep, SendChunk, ChunkStored, ChunkRefused, Statement,
   StatementFails, DownloadServed, DownloadFails, FetchChunk, ChunkFetched, ChunkNotFetched,
   WorkerCrash, SweepStep, SweepList, SweepReap, SweepDelete, SweepStops, NodeStep

(* A delete under way is one of a sweep that has the chunk listed. *)
LEMMA DeletesAreSwept ==
    ASSUME HandlerInv, NEW h, CP!Deleting(h) PROVE Sweeping(h)
BY DEF CP!Deleting, Sweeping, HandlerInv, Role

(* Only orphans come to be swept. *)
LEMMA NewlySwept ==
    ASSUME MetaInv, CoordInv, HandlerInv, [Next]_vars, NEW h \in Chunk, Sweeping(h)', ~Sweeping(h)
    PROVE  h \in MP!Orphaned
<1>1. \A s \in Sweeper : gcList'[s] \subseteq gcList[s] \cup MP!Orphaned
  BY StepIsMeta, MetaConstants, MP!NewlyKnown DEF MetaInv
<1>2. ASSUME NEW n \in Node, <<"delete", n, h>> \in late' PROVE FALSE
  <2>1. CASE UNCHANGED late
    BY <1>2, <2>1 DEF Sweeping
  <2>2. CASE Goes \/ UNCHANGED coord
    BY <1>2, <2>2, NoCallBegins, DeletesAreSwept
  <2>3. QED
    BY <2>1, <2>2, WhoBegins, SendBegins, FetchBegins, SweepBegins
<1>3. QED
  BY <1>1, <1>2 DEF Sweeping

(* What is stored, and what a call relies on, stays while no sweep is at   *)
(* the chunk.                                                              *)
LEMMA UnsweptKept ==
    ASSUME MetaInv, CoordInv, HandlerInv, [Next]_vars
    PROVE  /\ \A h \in stored : ~Sweeping(h) => h \in stored'
           /\ \A c \in Call : clean[c] /\ ~Sweeping(chunkOf[c]) =>
                 \/ clean'[c]
                 \/ c \in Req /\ SendChunk(c)
                 \/ \E r \in Req, j \in Slot : c = <<r, j>> /\ FetchChunk(r, j)
                 \/ c \in Sweeper
<1>1. clean \in [Call -> BOOLEAN]
  BY DEF CoordInv, CP!TypeOK
<1>2. CASE Goes \/ UNCHANGED coord
  BY <1>2, NoCallBegins
<1>3. ASSUME NEW r \in Req, SendChunk(r)
      PROVE  stored' = stored /\ \A c \in Call : c # r => clean'[c] = clean[c]
  BY <1>1, <1>3, SendBegins DEF CP!PutChunk
<1>4. ASSUME NEW r \in Req, NEW j \in Slot, FetchChunk(r, j)
      PROVE  stored' = stored /\ \A c \in Call : c # <<r, j>> => clean'[c] = clean[c]
  <2>1. /\ stored' = stored /\ <<r, j>> \in Call
        /\ clean' = [clean EXCEPT ![<<r, j>>] = snap[r][j] \in stored]
    BY <1>4, FetchBegins DEF CP!GetChunk
  <2>2. QED
    BY <1>1, <2>1
<1>5. ASSUME NEW s \in Sweeper, NEW h \in Chunk, SweepDelete(s, h)
      PROVE  /\ stored' = stored \ {h} /\ Sweeping(h)
             /\ \A c \in Call : clean[c] /\ c # s /\ chunkOf[c] # h => clean'[c]
  BY <1>1, <1>5, SweepBegins DEF CP!DeleteChunk, Sweeping
<1>6. QED
  BY <1>2, <1>3, <1>4, <1>5, WhoBegins

LEMMA ShelteredStep ==
    ASSUME MetaInv, CoordInv, HandlerInv, SafeInv, Next, NEW r \in Req PROVE Sheltered(r)'
<1> SUFFICES ASSUME Writing(r)', r \notin exposed'
             PROVE  /\ \A h \in Range(body'[r]) : ~Sweeping(h)'
                    /\ \A j \in DOMAIN body'[r] : j < sent'[r] => body'[r][j] \in stored'
                    /\ op'[r] = "put" => clean'[r]
  BY DEF Sheltered
<1>1. r \notin exposed /\ \A h \in Range(body'[r]) : ~Sweeping(h)'
  BY Tracks DEF Track
<1>2. /\ MP!TInv /\ [MP!Next]_(MP!vars) /\ Sending(r) /\ Sheltered(r)
      /\ sent[r] \in Nat \ {0} /\ Len(body[r]) \in Nat
      /\ DOMAIN body[r] = 1..Len(body[r])
  BY StepIsMeta, Entries DEF MetaInv, HandlerInv, SafeInv
<1>3. /\ pc[r] \in {"idle"} \cup {"upload"} \cup MP!Committing
      /\ pc[r] # "idle" => body'[r] = body[r]
      /\ pc'[r] = "upload" => pc[r] \in {"idle", "upload"}
      /\ pc'[r] \in MP!Committing => pc[r] \in {"upload"} \cup MP!Committing
  BY <1>2, MetaConstants, MP!LabelStep DEF Writing, MP!Committing
<1>4. CASE pc[r] = "idle"
  <2>1. op[r] # "put" /\ sent[r] = 1
    BY <1>2, <1>4 DEF Sending
  <2>2. sent'[r] = 1
    BY <2>1, SentStep
  <2>3. op'[r] # "put"
    BY <1>4, <2>1, NewCalls DEF SendChunk
  <2>4. DOMAIN body'[r] \subseteq Nat \ {0}
    <3>1. MetaInv'
      BY <1>2, MetaStep
    <3>2. body'[r] \in Seq(Chunk)
      BY <3>1, BodySeqs DEF MetaInv, MP!TInv, MP!TypeOK
    <3>3. QED
      BY <3>2
  <2>5. QED
    BY <1>1, <2>2, <2>3, <2>4
<1>5. CASE pc[r] # "idle"
  <2>1. Writing(r) /\ body'[r] = body[r]
    BY <1>3, <1>5 DEF Writing, MP!Committing
  <2>2. /\ \A h \in Range(body[r]) : ~Sweeping(h)
        /\ \A j \in DOMAIN body[r] : j < sent[r] => body[r][j] \in stored
        /\ op[r] = "put" => clean[r]
    BY <1>1, <1>2, <2>1 DEF Sheltered
  <2>3. ASSUME NEW j \in DOMAIN body[r], j < sent'[r] PROVE body[r][j] \in stored'
    <3>1. CASE j < sent[r]
      BY <2>2, <3>1, UnsweptKept DEF Range
    <3>2. CASE ~(j < sent[r])
      <4>1. ChunkStored(r) /\ sent'[r] = sent[r] + 1 /\ op[r] = "put"
        BY <2>3, <3>2, SentStep
      <4>2. j = sent[r]
        BY <1>2, <2>3, <3>2, <4>1
      <4>3. chunkOf[r] = body[r][j] /\ clean[r]
        BY <1>2, <2>2, <4>1, <4>2 DEF Sending
      <4>4. QED
        BY <4>1, <4>3 DEF ChunkStored, C!PutOk
    <3>3. QED
      BY <3>1, <3>2
  <2>4. ASSUME op'[r] = "put" PROVE clean'[r]
    <3>1. CASE op[r] = "put"
      <4>1. chunkOf[r] \in Range(body[r]) /\ clean[r] /\ r \in Call /\ r \notin Sweeper
        BY <1>2, <2>2, <3>1, Entries, CallKinds DEF Sending
      <4>2. ~SendChunk(r)
        BY <3>1 DEF SendChunk, C!PutChunk, C!Begin, C!Open
      <4>3. \A q \in Req, j \in Slot : r # <<q, j>>
        BY CallKinds
      <4>4. QED
        BY <2>2, <4>1, <4>2, <4>3, UnsweptKept
    <3>2. CASE SendChunk(r)
      <4>1. sent[r] \in 1..Len(body[r])
        BY <1>2, <3>2 DEF SendChunk
      <4>2. body[r][sent[r]] \in Range(body[r])
        BY <4>1, Entries
      <4>3. ~CP!Deleting(body[r][sent[r]])
        BY <2>2, <4>2, DeletesAreSwept
      <4>4. clean' = [clean EXCEPT ![r] = ~CP!Deleting(body[r][sent[r]])] /\ r \in Call
        BY <3>2, SendBegins DEF CP!PutChunk
      <4>5. clean \in [Call -> BOOLEAN]
        BY DEF CoordInv, CP!TypeOK
      <4>6. QED
        BY <4>3, <4>4, <4>5
    <3>3. QED
      BY <2>4, <3>1, <3>2, NewCalls
  <2>5. QED
    BY <1>1, <2>1, <2>3, <2>4
<1>6. QED
  BY <1>4, <1>5

(* A version that is known, or about to be by its own UPDATE of files, is  *)
(* on enough replicas and counted, and so out of the sweeps' reach.        *)
LEMMA SafeNow ==
    ASSUME MetaInv, HandlerInv, SafeInv, NEW v \in Req, v \notin exposed \cup released,
           MP!Known(v) \/ MP!SetCurrent(v), NEW h \in MP!Hashes(manifest[v]) \ tainted
    PROVE  h \in Chunk /\ ~Sweeping(h) /\ h \in stored /\ h \notin MP!Orphaned
<1>1. MP!TInv /\ MP!Inv /\ MP!RInv /\ MP!Lower /\ Safe(v) /\ Sheltered(v) /\ Sending(v)
  BY DEF MetaInv, SafeInv, HandlerInv
<1>2. PICK l \in DOMAIN manifest[v] : h = manifest[v][l]
  BY DEF MP!Hashes
<1>3. manifest[v] \in Seq(Chunk)
  BY <1>1 DEF MP!TInv, MP!TypeOK
<1>4. h \in Chunk
  BY <1>2, <1>3
<1>5. h \notin MP!Orphaned
  <2>1. pc[v] # "bump" /\ (pc[v] = "failed" => MP!Known(v))
    <3>1. CASE MP!Known(v)
      <4>1. MP!Settled(v)
        BY <1>1, <3>1, MetaConstants, MP!KnownSettled
      <4>2. QED
        BY <3>1, <4>1 DEF MP!Settled, MP!Releasing
    <3>2. CASE MP!SetCurrent(v)
      BY <3>2 DEF MP!SetCurrent
    <3>3. QED
      BY <3>1, <3>2
  <2>2. QED
    BY <1>1, <2>1, MetaConstants, MP!DueIsCounted
<1>6. CASE MP!Known(v)
  BY <1>1, <1>4, <1>5, <1>6 DEF Safe
<1>7. CASE MP!SetCurrent(v)
  <2>1. pc[v] = "chunk" /\ k[v] > Len(body[v])
    BY <1>7 DEF MP!SetCurrent, MP!ManifestDone
  <2>2. k[v] <= Len(body[v]) + 1 /\ MP!Copied(v, k[v] - 1) /\ k[v] \in Nat
    BY <1>1, <2>1 DEF MP!Inv, MP!Building, MP!TInv, MP!TypeOK
  <2>3. Len(body[v]) \in Nat /\ DOMAIN body[v] = 1..Len(body[v]) /\ sent[v] \in Nat
    BY Entries DEF HandlerInv
  <2>4. k[v] - 1 = Len(body[v])
    BY <2>1, <2>2, <2>3
  <2>5. l \in 1..Len(body[v]) /\ h = body[v][l]
    BY <1>2, <1>3, <2>2, <2>4 DEF MP!Copied
  <2>6. l < sent[v] /\ h \in Range(body[v])
    BY <1>1, <2>1, <2>3, <2>5, Entries DEF Sending, MP!Committing
  <2>7. QED
    BY <1>1, <1>4, <1>5, <2>1, <2>3, <2>5, <2>6 DEF Sheltered, Writing
<1>8. QED
  BY <1>6, <1>7

LEMMA SafeStep ==
    ASSUME MetaInv, CoordInv, HandlerInv, SafeInv, Next, NEW v \in Req PROVE Safe(v)'
<1> SUFFICES ASSUME v \notin exposed', v \notin released', MP!Known(v)',
                    NEW h \in MP!Hashes(manifest'[v]), h \notin tainted'
             PROVE  ~Sweeping(h)' /\ h \in stored'
  BY DEF Safe, MP!Hashes
<1>1. MP!TInv /\ MP!Inv /\ MP!RInv /\ [MP!Next]_(MP!vars)
  BY StepIsMeta DEF MetaInv
<1>2. v \notin exposed
  BY Tracks DEF Track
<1>3. /\ v \notin released /\ h \notin tainted
      /\ MP!Known(v) \/ MP!SetCurrent(v)
  BY <1>1, MetaConstants, MP!NewlyKnown
<1>4. manifest'[v] = manifest[v]
  <2>1. CASE MP!Known(v)
    BY <1>1, <2>1, MetaConstants, MP!KnownKeepsRows
  <2>2. CASE MP!SetCurrent(v)
    BY <2>2 DEF MP!SetCurrent
  <2>3. QED
    BY <1>3, <2>1, <2>2
<1>5. h \in MP!Hashes(manifest[v]) \ tainted
  BY <1>3, <1>4
<1>6. h \in Chunk /\ ~Sweeping(h) /\ h \in stored /\ h \notin MP!Orphaned
  BY <1>2, <1>3, <1>5, SafeNow
<1>7. QED
  BY <1>6, NewlySwept, UnsweptKept

LEMMA SafeFetchStep ==
    ASSUME MetaInv, CoordInv, HandlerInv, SafeInv, Next, NEW r \in Req PROVE SafeFetch(r)'
<1>1. /\ MP!TInv /\ MP!Inv /\ MP!RInv /\ [MP!Next]_(MP!vars)
      /\ Safe(prev[r]) \/ prev[r] = NULL
      /\ SafeFetch(r) /\ Fetching(r)
      /\ released \subseteq released' /\ exposed \subseteq exposed' /\ tainted \subseteq tainted'
  <2>1. MP!TInv /\ MP!Inv /\ MP!RInv /\ [MP!Next]_(MP!vars)
    BY StepIsMeta DEF MetaInv
  <2>2. released \subseteq released' /\ tainted \subseteq tainted'
    BY <2>1, MetaConstants, MP!NewlyKnown
  <2>3. prev[r] \in Req \cup {NULL}
    BY <2>1 DEF MP!TInv, MP!TypeOK
  <2>4. QED
    BY <2>1, <2>2, <2>3, Tracks DEF Track, SafeInv, HandlerInv
<1>2. ASSUME prev[r] \in Req, prev[r] \notin released'
      PROVE  MP!Known(prev[r]) /\ manifest'[prev[r]] = manifest[prev[r]]
  <2>1. MP!Known(prev[r])
    BY DEF MP!Known
  <2>2. QED
    BY <1>1, <1>2, <2>1, MetaConstants, MP!KnownKeepsRows
<1>3. pc[r] # "idle" => prev'[r] = prev[r]
  BY <1>1, MetaConstants, MP!LabelStep
<1>4. ASSUME pc'[r] = "fetch", prev'[r] \notin released' PROVE snap'[r] = manifest'[prev'[r]]
  <2>1. (pc[r] = "fetch" /\ snap'[r] = snap[r]) \/ MP!ReadManifest(r)
    BY <1>1, <1>4, MetaConstants, MP!LabelStep
  <2>2. prev'[r] = prev[r] /\ prev[r] \in Req
    BY <1>1, <1>3, <2>1 DEF MP!TInv, MP!LocalsOK, MP!Reading, MP!ReadManifest
  <2>3. CASE pc[r] = "fetch" /\ snap'[r] = snap[r]
    BY <1>1, <1>2, <1>4, <2>2, <2>3 DEF SafeFetch
  <2>4. CASE MP!ReadManifest(r)
    BY <1>1, <2>2, <2>4 DEF MP!ReadManifest, MP!tables, MP!TInv, MP!TypeOK
  <2>5. QED
    BY <2>1, <2>3, <2>4
<1>5. ASSUME NEW j \in Slot, op'[<<r, j>>] \in Fetches,
             prev'[r] \notin exposed' \cup released', chunkOf'[<<r, j>>] \notin tainted'
      PROVE  chunkOf'[<<r, j>>] \in MP!Hashes(manifest'[prev'[r]]) /\ clean'[<<r, j>>]
  <2>1. <<r, j>> \in Call /\ <<r, j>> \notin Req /\ <<r, j>> \notin Sweeper
    BY CallKinds
  <2>2. CASE op[<<r, j>>] \in Fetches /\ chunkOf'[<<r, j>>] = chunkOf[<<r, j>>]
    <3>1. prev'[r] = prev[r] /\ prev[r] \in Req
      BY <1>1, <1>3, <2>2 DEF Fetching
    <3>2. chunkOf[<<r, j>>] \in MP!Hashes(manifest[prev[r]]) /\ clean[<<r, j>>]
      BY <1>1, <1>5, <2>2, <3>1 DEF SafeFetch
    <3>3. ~Sweeping(chunkOf[<<r, j>>]) /\ manifest'[prev[r]] = manifest[prev[r]]
      BY <1>1, <1>2, <1>5, <2>2, <3>1, <3>2, SafeNow
    <3>4. ASSUME NEW q \in Req, NEW l \in Slot, <<r, j>> = <<q, l>>, FetchChunk(q, l) PROVE FALSE
      BY <2>2, <3>4 DEF FetchChunk, Fetches
    <3>5. clean'[<<r, j>>]
      BY <2>1, <3>2, <3>3, <3>4, UnsweptKept
    <3>6. QED
      BY <2>2, <3>1, <3>2, <3>3, <3>5
  <2>3. CASE FetchChunk(r, j) /\ chunkOf'[<<r, j>>] = snap[r][j]
    <3>1. pc[r] = "fetch" /\ j \in DOMAIN snap[r] /\ UNCHANGED meta
      BY <2>3 DEF FetchChunk
    <3>2. prev[r] \in Req /\ UNCHANGED <<prev, manifest, released, tainted>>
      BY <1>1, <3>1 DEF meta, MP!TInv, MP!LocalsOK, MP!Reading
    <3>3. snap[r] = manifest[prev[r]]
      BY <1>1, <1>5, <3>1, <3>2 DEF SafeFetch
    <3>4. snap[r][j] \in MP!Hashes(manifest[prev[r]])
      BY <3>1, <3>3 DEF MP!Hashes
    <3>5. snap[r][j] \in stored
      BY <1>1, <1>2, <1>5, <2>3, <3>2, <3>4, SafeNow
    <3>6. clean' = [clean EXCEPT ![<<r, j>>] = snap[r][j] \in stored]
      BY <2>3, FetchBegins DEF CP!GetChunk
    <3>7. clean \in [Call -> BOOLEAN]
      BY DEF CoordInv, CP!TypeOK
    <3>8. clean'[<<r, j>>]
      BY <2>1, <3>5, <3>6, <3>7
    <3>9. QED
      BY <2>3, <3>2, <3>4, <3>8
  <2>4. QED
    BY <1>5, <2>2, <2>3, NewCalls
<1>6. QED
  BY <1>4, <1>5 DEF SafeFetch, MP!Hashes

LEMMA SafeKept ==
    ASSUME MetaInv, CoordInv, HandlerInv, SafeInv, [Next]_vars PROVE SafeInv'
<1>1. CASE Next
  BY <1>1, ShelteredStep, SafeStep, SafeFetchStep DEF SafeInv
<1>2. CASE UNCHANGED vars
  <2>1. ASSUME NEW r \in Req PROVE Sheltered(r)' /\ Safe(r)' /\ SafeFetch(r)'
    <3>1. Sheltered(r) /\ Safe(r) /\ SafeFetch(r)
      BY DEF SafeInv
    <3>2. Sheltered(r)'
      BY <1>2, <3>1 DEF vars, meta, coord, Sheltered, Writing, Sweeping
    <3>3. Safe(r)'
      BY <1>2, <3>1 DEF vars, meta, coord, Safe, Sweeping, MP!Known, MP!Hashes
    <3>4. SafeFetch(r)'
      BY <1>2, <3>1 DEF vars, meta, coord, SafeFetch, MP!Hashes
    <3>5. QED
      BY <3>2, <3>3, <3>4
  <2>2. QED
    BY <2>1 DEF SafeInv
<1>3. QED
  BY <1>1, <1>2

StoreInv == MetaInv /\ CoordInv /\ HandlerInv /\ SafeInv

LEMMA StoreInit == Init => StoreInv
<1> SUFFICES ASSUME Init PROVE StoreInv
  OBVIOUS
<1>1. MP!Init
  BY DEF Init, M!Init, MP!Init
<1>2. CP!Init
  BY DEF Init, C!Init, CP!Init
<1>3. HandlerInv
  BY DEF Init, M!Init, C!Init, HandlerInv, Role, Sending, Fetching, Fetches, MP!Committing, Call,
     Fetch
<1>4. SafeInv
  <2>1. ASSUME NEW r \in Req PROVE Sheltered(r) /\ Safe(r) /\ SafeFetch(r)
    <3>1. Sheltered(r)
      BY DEF Init, M!Init, Sheltered, Writing
    <3>2. Safe(r)
      BY DEF Init, M!Init, Safe, MP!Hashes
    <3>3. \A j \in Slot : op[<<r, j>>] = "none"
      BY CallKinds DEF Init, C!Init
    <3>4. SafeFetch(r)
      BY <3>3 DEF Init, M!Init, SafeFetch, Fetches
    <3>5. QED
      BY <3>1, <3>2, <3>4
  <2>2. QED
    BY <2>1 DEF SafeInv
<1>5. QED
  BY <1>1, <1>2, <1>3, <1>4, MetaInit, CoordInit DEF StoreInv

LEMMA StoreStep == StoreInv /\ [Next]_vars => StoreInv'
<1> SUFFICES ASSUME StoreInv, [Next]_vars PROVE StoreInv'
  OBVIOUS
<1>1. MetaInv' /\ CoordInv'
  BY StepIsMeta, StepIsCoord, MetaStep, CoordStep DEF StoreInv
<1>2. HandlerInv' /\ SafeInv'
  BY <1>1, HandlersKept, SafeKept DEF StoreInv
<1>3. QED
  BY <1>1, <1>2 DEF StoreInv

LEMMA StoreAlways == Spec => []StoreInv
BY StoreInit, StoreStep, PTL DEF Spec

(* The chunks of a file's current version are on at least W replicas, for  *)
(* every number of requests, workers, collectors and nodes, unless a sweep *)
(* of the chunk was under way during the version's upload or commit, or    *)
(* the chunk's refcount was spoilt.                                        *)
THEOREM CurrentStaysHeld == Spec => []UnexposedHeld
<1>1. StoreInv => UnexposedHeld
  <2> SUFFICES ASSUME StoreInv, NEW v \in M!CurrentVersions \ exposed,
                      NEW h \in M!Hashes(manifest[v]) \ tainted
               PROVE  Cardinality(C!Holders(h)) >= W
    BY DEF UnexposedHeld
  <2>1. v \in Req /\ MP!Known(v) /\ \E f \in Req : files[f] = v
    BY DEF M!CurrentVersions, MP!Known
  <2>2. v \notin released
    BY <2>1 DEF StoreInv, MetaInv, MP!RInv, MP!Retired
  <2>3. h \in MP!Hashes(manifest[v])
    BY DEF M!Hashes, MP!Hashes
  <2>4. h \in Chunk /\ h \in stored
    BY <2>1, <2>2, <2>3, SafeNow DEF StoreInv
  <2>5. CP!Cardinality(CP!Holders(h)) >= W
    BY <2>4 DEF StoreInv, CoordInv, CP!HoldInv, CP!Kept
  <2>6. CP!Holders(h) = C!Holders(h)
    BY SameCalls
  <2>7. CP!Cardinality(C!Holders(h)) = Cardinality(C!Holders(h))
    BY DEF CP!Cardinality, Cardinality
  <2>8. QED
    BY <2>5, <2>6, <2>7
<1>2. QED
  BY <1>1, StoreAlways, PTL

(* A download of a version that no sweep met and nobody has released fails *)
(* only after W replicas of one of its chunks did not answer it with what  *)
(* they hold, whatever other requests and sweeps do meanwhile.             *)
THEOREM DownloadsSurvive == Spec => []DownloadSurvives
<1>1. StoreInv => DownloadSurvives
  <2> SUFFICES ASSUME StoreInv, NEW r \in Req, NEW j \in Slot,
                      op[<<r, j>>] \in {"missing", "unavailable"},
                      prev[r] \notin exposed \cup released, chunkOf[<<r, j>>] \notin tainted
               PROVE  Cardinality(missed[<<r, j>>]) >= W
    BY DEF DownloadSurvives
  <2>1. clean[<<r, j>>] /\ <<r, j>> \in Call
    BY CallKinds DEF StoreInv, SafeInv, SafeFetch, Fetches
  <2>2. CP!Cardinality(missed[<<r, j>>]) >= W
    BY <2>1 DEF StoreInv, CoordInv, CP!ReadInv, CP!Survives
  <2>3. CP!Cardinality(missed[<<r, j>>]) = Cardinality(missed[<<r, j>>])
    BY DEF CP!Cardinality, Cardinality
  <2>4. QED
    BY <2>2, <2>3
<1>2. QED
  BY <1>1, StoreAlways, PTL
-----------------------------------------------------------------------------
(* SpaceAccounted.  A row goes when a sweep reaps it.  What the sweep has  *)
(* behind it then is that every replica whose answer it counts has dropped *)
(* its copy; a copy that has come back since belongs to a writer that has  *)
(* not counted the chunk yet.                                              *)

Uncounted(r, h) ==
    /\ Writing(r) /\ h \in Range(body[r])
    /\ \A j \in DOMAIN body[r] : j < k[r] => body[r][j] # h

Cleared(s) ==
    op[s] = "delete" =>
        \A n \in acks[s] : \/ disk[n][chunkOf[s]] = "absent"
                           \/ chunkOf[s] \in leaky \cup tainted
                           \/ \E r \in Req : Uncounted(r, chunkOf[s])

LatePuts == \A n \in Node, h \in Chunk : <<"put", n, h>> \in late => h \in leaky

SpaceInv == LatePuts /\ (\A s \in Sweeper : Cleared(s)) /\ SpaceAccounted

(* A writer of h that has not counted it goes on, or counts it while no    *)
(* sweep has it listed.                                                    *)
LEMMA UncountedStep ==
    ASSUME MetaInv, CoordInv, Next, NEW r \in Req, NEW h \in Chunk, h \notin leaky',
           Uncounted(r, h)
    PROVE  \/ Uncounted(r, h)'
           \/ h \in counted' /\ \A s \in Sweeper : h \notin gcList[s]
<1>1. MP!TInv /\ [MP!Next]_(MP!vars)
  BY StepIsMeta DEF MetaInv
<1>2. pc[r] \in {"upload"} \cup MP!Committing
  BY DEF Uncounted, Writing, MP!Committing
<1>3. /\ body'[r] = body[r]
      /\ pc'[r] \in {"upload", "failed"} \cup MP!Committing \/ MP!SetCurrent(r)
      /\ k'[r] = k[r] \/ MP!BumpRefcount(r)
  <2>1. pc[r] # "idle"
    BY <1>2 DEF MP!Committing
  <2>2. QED
    BY <1>1, <1>2, <2>1, MetaConstants, MP!LabelStep
<1>4. pc'[r] # "failed"
  BY Tracks DEF Track, Uncounted
<1>5. /\ k[r] \in Nat /\ Len(body[r]) \in Nat /\ DOMAIN body[r] = 1..Len(body[r])
      /\ \E j \in DOMAIN body[r] : body[r][j] = h
  BY <1>1, Entries DEF MP!TInv, MP!TypeOK, Uncounted, Range
<1>6. ~MP!SetCurrent(r)
  BY <1>5 DEF MP!SetCurrent, MP!ManifestDone, Uncounted
<1>7. Writing(r)'
  BY <1>3, <1>4, <1>6 DEF Writing, MP!Committing
<1>8. CASE k'[r] = k[r]
  BY <1>3, <1>7, <1>8 DEF Uncounted
<1>9. CASE MP!BumpRefcount(r) /\ body[r][k[r]] # h
  <2>1. k'[r] = k[r] + 1
    BY <1>1, <1>9 DEF MP!BumpRefcount, MP!TInv, MP!TypeOK
  <2>2. \A j \in DOMAIN body[r] : j < k[r] + 1 => j < k[r] \/ j = k[r]
    BY <1>5
  <2>3. QED
    BY <1>3, <1>7, <1>9, <2>1, <2>2 DEF Uncounted
<1>10. CASE MP!BumpRefcount(r) /\ body[r][k[r]] = h
  <2>1. h \in counted' /\ refcount' = [refcount EXCEPT ![h] = @ + 1]
    BY <1>10 DEF MP!BumpRefcount, MP!Bumped
  <2>2. refcount'[h] > refcount[h]
    BY <1>1, <2>1 DEF MP!TInv, MP!TypeOK
  <2>3. ASSUME NEW s \in Sweeper, h \in gcList[s] PROVE FALSE
    <3>1. h \in {x \in UNION {gcList[t] : t \in Sweeper} : refcount'[x] > refcount[x]}
      BY <2>2, <2>3
    <3>2. QED
      BY <3>1, Tracks DEF Track
  <2>4. QED
    BY <2>1, <2>3
<1>11. QED
  BY <1>3, <1>8, <1>9, <1>10

(* A writer of h stays one until it has counted h. *)
LEMMA WritesOn ==
    ASSUME MetaInv, CoordInv, Next, NEW r \in Req, NEW h \in Chunk, h \notin leaky', h \notin tainted,
           Writing(r), h \in Range(body[r])
    PROVE  (Writing(r)' /\ h \in Range(body'[r])) \/ h \in counted'
<1>1. MP!TInv /\ MP!Inv /\ MP!RInv /\ MP!Lower /\ [MP!Next]_(MP!vars)
  BY StepIsMeta DEF MetaInv
<1>2. pc[r] \in {"upload"} \cup MP!Committing /\ pc[r] # "idle"
  BY DEF Writing, MP!Committing
<1>3. /\ body'[r] = body[r]
      /\ pc'[r] \in {"upload", "failed"} \cup MP!Committing \/ MP!SetCurrent(r)
  BY <1>1, <1>2, MetaConstants, MP!LabelStep
<1>4. pc'[r] # "failed"
  BY Tracks DEF Track
<1>5. CASE MP!SetCurrent(r)
  <2>1. pc[r] = "chunk" /\ k[r] > Len(body[r]) /\ counted' = counted
    BY <1>5 DEF MP!SetCurrent, MP!ManifestDone
  <2>2. k[r] <= Len(body[r]) + 1 /\ MP!Copied(r, k[r] - 1) /\ k[r] \in Nat
    BY <1>1, <2>1 DEF MP!Inv, MP!Building, MP!TInv, MP!TypeOK
  <2>3. PICK j \in 1..Len(body[r]) : body[r][j] = h
    BY Entries DEF Range
  <2>4. k[r] - 1 = Len(body[r]) /\ Len(body[r]) \in Nat
    BY <2>1, <2>2, Entries
  <2>5. manifest[r] \in Seq(Chunk)
    BY <1>1 DEF MP!TInv, MP!TypeOK
  <2>6. j \in DOMAIN manifest[r] /\ manifest[r][j] = h
    BY <2>2, <2>3, <2>4, <2>5 DEF MP!Copied
  <2>7. h \in MP!Hashes(manifest[r]) \ tainted
    BY <2>6 DEF MP!Hashes
  <2>8. r \notin released
    BY <1>1, <2>1 DEF MP!RInv, MP!Retired, MP!Settled, MP!Releasing
  <2>9. h \in counted
    BY <1>1, <2>1, <2>7, <2>8, MetaConstants, MP!DueIsCounted
  <2>10. QED
    BY <2>1, <2>9
<1>6. QED
  BY <1>3, <1>4, <1>5 DEF Writing, MP!Committing

(* Copies appear and disappear at the nodes. *)
LEMMA DiskStep ==
    ASSUME MetaInv, CoordInv, HandlerInv, [Next]_vars PROVE CP!NodeStep \/ disk' = disk
<1>1. CASE Goes
  BY <1>1 DEF Goes, CP!CallStep, CP!PutOk, CP!PutFailed, CP!DeleteDone, CP!GetServed,
     CP!GetAdvances, CP!GetExhausted, CP!End, CP!Abandon
<1>2. QED
  BY <1>1, WhoBegins, SendBegins, FetchBegins, SweepBegins DEF coord

(* A new copy belongs to a writer that has counted nothing yet. *)
LEMMA CopyOfWriter ==
    ASSUME MetaInv, CoordInv, HandlerInv, SpaceInv, [Next]_vars, NEW n \in Node,
           NEW h \in Chunk \ leaky, disk[n][h] = "absent", disk'[n][h] # "absent"
    PROVE  \E r \in Req : Uncounted(r, h)
<1>1. CP!NodeStep
  BY DiskStep
<1>2. <<"put", n, h>> \notin late
  BY DEF SpaceInv, LatePuts
<1>3. PICK r \in Call : op[r] = "put" /\ chunkOf[r] = h
  BY <1>1, <1>2, CoordConstants, CP!NewCopy DEF CoordInv
<1>4. r \in Req /\ Sending(r) /\ sent[r] \in Nat \ {0}
  BY <1>3 DEF HandlerInv, Role
<1>5. pc[r] = "upload" /\ sent[r] \in 1..Len(body[r]) /\ h = body[r][sent[r]]
  BY <1>3, <1>4, Entries DEF Sending
<1>6. k[r] = 1
  BY <1>4, <1>5 DEF MetaInv, MP!Inv, MP!Building
<1>7. Uncounted(r, h)
  BY <1>4, <1>5, <1>6, Entries DEF Uncounted, Writing
<1>8. QED
  BY <1>4, <1>7

(* What a sweep's delete has been answered. *)
LEMMA AcksStep ==
    ASSUME MetaInv, CoordInv, HandlerInv, [Next]_vars, NEW s \in Sweeper, op'[s] = "delete"
    PROVE  \/ acks'[s] = {}
           \/ /\ op[s] = "delete" /\ chunkOf'[s] = chunkOf[s]
              /\ CP!NodeStep \/ acks'[s] = acks[s]
<1>1. /\ s \in Call /\ op \in [Call -> CP!Open \cup {"none", "missing", "unavailable"}]
      /\ chunkOf \in [Call -> Chunk] /\ acks \in [Call -> SUBSET Node]
  BY CallKinds DEF CoordInv, CP!TypeOK
<1>2. ASSUME NEW r \in Req, SendChunk(r)
      PROVE  op[s] = "delete" /\ chunkOf'[s] = chunkOf[s] /\ acks'[s] = acks[s]
  BY <1>1, <1>2, SendBegins, CallKinds DEF CP!PutChunk, CP!Begin
<1>3. ASSUME NEW r \in Req, NEW j \in Slot, FetchChunk(r, j)
      PROVE  op[s] = "delete" /\ chunkOf'[s] = chunkOf[s] /\ acks'[s] = acks[s]
  <2>1. /\ op' = [op EXCEPT ![<<r, j>>] = "get"]
        /\ chunkOf' = [chunkOf EXCEPT ![<<r, j>>] = snap[r][j]]
        /\ acks' = [acks EXCEPT ![<<r, j>>] = {}]
    BY <1>3, FetchBegins DEF CP!GetChunk, CP!Begin
  <2>2. s # <<r, j>>
    BY CallKinds
  <2>3. QED
    BY <1>1, <2>1, <2>2
<1>4. ASSUME NEW t \in Sweeper, NEW h \in Chunk, SweepDelete(t, h)
      PROVE  \/ acks'[s] = {}
             \/ op[s] = "delete" /\ chunkOf'[s] = chunkOf[s] /\ acks'[s] = acks[s]
  BY <1>1, <1>4, SweepBegins, CallKinds DEF CP!DeleteChunk, CP!Begin
<1>5. CASE Goes \/ UNCHANGED coord
  <2>1. op[s] = "delete" /\ chunkOf'[s] = chunkOf[s]
    BY <1>1, <1>5, NoCallBegins
  <2>2. CP!NodeStep \/ acks'[s] = acks[s] \/ acks'[s] = {}
    BY <1>1, <1>5 DEF Goes, CP!CallStep, CP!PutOk, CP!PutFailed, CP!DeleteDone, CP!GetServed,
       CP!GetAdvances, CP!GetExhausted, CP!End, CP!Abandon, coord
  <2>3. QED
    BY <2>1, <2>2
<1>6. QED
  BY <1>2, <1>3, <1>4, <1>5, WhoBegins

LEMMA ClearedStep ==
    ASSUME MetaInv, CoordInv, HandlerInv, SpaceInv, Next, NEW s \in Sweeper PROVE Cleared(s)'
<1>1. PICK h \in Chunk : h = chunkOf[s]
  BY CallKinds DEF CoordInv, CP!TypeOK
<1>2. SUFFICES ASSUME op'[s] = "delete", NEW n \in acks'[s], disk'[n][chunkOf'[s]] # "absent",
                      chunkOf'[s] \notin leaky' \cup tainted'
               PROVE  \E r \in Req : Uncounted(r, h)' /\ chunkOf'[s] = h
  BY DEF Cleared, Uncounted
<1>3. op[s] = "delete" /\ chunkOf'[s] = h /\ (CP!NodeStep \/ acks'[s] = acks[s])
  BY <1>1, <1>2, AcksStep
<1>4. /\ s \in Call /\ h \in gcList[s] /\ Cleared(s)
      /\ h \notin leaky \cup tainted \cup leaky'
  <2>1. leaky \subseteq leaky' /\ tainted \subseteq tainted'
    BY StepIsMeta, MetaConstants, MP!NewlyKnown, Tracks DEF Track, MetaInv
  <2>2. QED
    BY <1>1, <1>2, <1>3, <2>1, CallKinds DEF HandlerInv, Role, SpaceInv
<1>5. ASSUME NEW r \in Req, Uncounted(r, h) PROVE Uncounted(r, h)'
  BY <1>4, <1>5, UncountedStep
<1>6. n \in acks[s]
  BY <1>1, <1>2, <1>3, <1>4, CoordConstants, CP!DeleteAcked DEF CoordInv
<1>7. n \in Node
  BY <1>4, <1>6 DEF CoordInv, CP!TypeOK
<1>8. \E r \in Req : Uncounted(r, h)
  <2>1. CASE disk[n][h] = "absent"
    BY <1>2, <1>3, <1>4, <1>7, <2>1, CopyOfWriter
  <2>2. CASE disk[n][h] # "absent"
    BY <1>1, <1>3, <1>4, <1>6, <2>2 DEF Cleared
  <2>3. QED
    BY <2>1, <2>2
<1>9. QED
  BY <1>3, <1>5, <1>8

(* A row goes only when the sweep whose delete is over reaps it. *)
LEMMA RowStep ==
    ASSUME MetaInv, [Next]_vars, NEW h \in counted, h \notin counted'
    PROVE  \E s \in Sweeper : SweepReap(s) /\ chunkOf[s] = h
<1>1. ASSUME NEW r \in Req, Start(r) \/ HandlerStep(r) \/ StatementFails(r) PROVE FALSE
  <2>1. ASSUME M!HandlerFails(r) \/ M!Served(r) \/ M!WriterStep(r) \/ M!ReadVersion(r)
               \/ M!ReadManifest(r) \/ M!Reject(r) \/ UNCHANGED meta
        PROVE  counted \subseteq counted'
    BY <2>1 DEF meta, M!tables, M!HandlerFails, M!Served, M!WriterStep, M!CreateFile,
       M!InsertVersion, M!InsertChunk, M!BumpRefcount, M!SetCurrent, M!SelectVersion,
       M!SelectManifest, M!Decrement, M!DeleteManifest, M!DeleteVersionRow, M!ReadVersion,
       M!ReadManifest, M!Reject
  <2>2. CASE Start(r)
    BY <2>1, <2>2 DEF Start, M!Post, M!Put, M!Download, M!tables
  <2>3. QED
    BY <1>1, <2>1, <2>2 DEF HandlerStep, StatementFails, SendChunk, ChunkStored, ChunkRefused,
       Statement, DownloadServed, DownloadFails, FetchChunk, ChunkFetched, ChunkNotFetched
<1>2. ASSUME NEW w \in Worker, WorkerCrash(w) PROVE FALSE
  BY <1>2 DEF WorkerCrash, M!WorkerCrash, M!tables
<1>3. ASSUME NEW s \in Sweeper, SweepStep(s) \/ SweepStops(s)
      PROVE  SweepReap(s) /\ chunkOf[s] = h
  BY <1>3 DEF SweepStep, SweepList, SweepDelete, SweepReap, SweepStops, M!GcList, M!GcReap,
     M!GcStop, M!tables, meta
<1>4. CASE NodeStep \/ UNCHANGED vars
  BY <1>4 DEF NodeStep, meta, vars
<1>5. QED
  BY <1>1, <1>2, <1>3, <1>4 DEF Next

LEMMA AccountedStep ==
    ASSUME MetaInv, CoordInv, HandlerInv, SpaceInv, Next PROVE SpaceAccounted'
<1> SUFFICES ASSUME NEW h \in Chunk, h \notin leaky' \cup tainted', NEW n \in C!Replicas(h),
                    disk'[n][h] # "absent"
             PROVE  h \in counted' \/ \E r \in Req : Writing(r)' /\ h \in Range(body'[r])
  BY DEF SpaceAccounted, C!Holders, C!Replicas
<1>1. h \notin leaky \cup tainted
  BY StepIsMeta, MetaConstants, MP!NewlyKnown, Tracks DEF Track, MetaInv
<1>2. n \in Node
  BY CoordConstants DEF C!Replicas
<1>3. ASSUME NEW r \in Req, Writing(r), h \in Range(body[r])
      PROVE  h \in counted' \/ \E q \in Req : Writing(q)' /\ h \in Range(body'[q])
  BY <1>1, <1>3, WritesOn
<1>4. CASE disk[n][h] = "absent"
  BY <1>1, <1>2, <1>3, <1>4, CopyOfWriter DEF Uncounted
<1>5. CASE disk[n][h] # "absent"
  <2>1. h \in counted \/ \E r \in Req : Writing(r) /\ h \in Range(body[r])
    BY <1>1, <1>5 DEF SpaceInv, SpaceAccounted, C!Holders
  <2>2. ASSUME NEW s \in Sweeper, SweepReap(s), chunkOf[s] = h
        PROVE  \E r \in Req : Uncounted(r, h)
    <3>1. op[s] = "delete" /\ op' = [op EXCEPT ![s] = "none"]
      BY <2>2 DEF SweepReap, C!DeleteDone, C!End
    <3>2. op'[s] # "delete"
      BY <3>1, CallKinds DEF CoordInv, CP!TypeOK
    <3>3. acks[s] = C!Replicas(h)
      BY <2>2, <3>1, <3>2, Tracks DEF Track
    <3>4. QED
      BY <1>1, <1>5, <2>2, <3>1, <3>3 DEF SpaceInv, Cleared
  <2>3. QED
    BY <1>3, <2>1, <2>2, RowStep DEF Uncounted
<1>6. QED
  BY <1>4, <1>5

LEMMA SpaceStep ==
    ASSUME MetaInv, CoordInv, HandlerInv, SpaceInv, [Next]_vars PROVE SpaceInv'
<1>1. CASE Next
  <2>1. LatePuts'
    BY <1>1, Tracks DEF Track, LatePuts
  <2>2. QED
    BY <1>1, <2>1, ClearedStep, AccountedStep DEF SpaceInv
<1>2. CASE UNCHANGED vars
  <2>1. LatePuts'
    BY <1>2 DEF vars, coord, SpaceInv, LatePuts
  <2>2. \A s \in Sweeper : Cleared(s)'
    BY <1>2 DEF vars, meta, coord, SpaceInv, Cleared, Uncounted, Writing
  <2>3. SpaceAccounted'
    BY <1>2 DEF vars, meta, coord, SpaceInv, SpaceAccounted, Writing, C!Holders, C!Replicas
  <2>4. QED
    BY <2>1, <2>2, <2>3 DEF SpaceInv
<1>3. QED
  BY <1>1, <1>2

(* Every copy on a disk has a row of chunk_refcounts or a writer about to  *)
(* add one, so that a sweep finds it in the end, but for the chunks of     *)
(* failed writers, late PUTs, unconfirmed deletes, rows counted anew under *)
(* a sweep, and spoilt counts.                                             *)
THEOREM SpaceStaysAccounted == Spec => []SpaceAccounted
<1>1. Init => SpaceInv
  <2> SUFFICES ASSUME Init PROVE SpaceInv
    OBVIOUS
  <2>1. LatePuts
    BY DEF Init, C!Init, LatePuts
  <2>2. \A s \in Sweeper : Cleared(s)
    BY CallKinds DEF Init, C!Init, Cleared
  <2>3. \A h \in Chunk : C!Holders(h) = {}
    BY CoordConstants DEF Init, C!Init, C!Holders, C!Replicas
  <2>4. QED
    BY <2>1, <2>2, <2>3 DEF SpaceInv, SpaceAccounted
<1>2. StoreInv /\ SpaceInv /\ [Next]_vars => SpaceInv'
  BY SpaceStep DEF StoreInv
<1>3. SpaceInv => SpaceAccounted
  BY DEF SpaceInv
<1>4. QED
  BY <1>1, <1>2, <1>3, StoreAlways, PTL DEF Spec
-----------------------------------------------------------------------------
(* ServedAsSent.  The manifest a download works on is the hash list of one *)
(* upload, every slot of its Promise.all is one of the manifest's entries, *)
(* and what is put together from all of them is the upload (ChunksJoin).   *)

Cut(r) == upload[r] \in Buffer /\ body[r] = ChunkHashes(upload[r])

Collected(r) ==
    /\ \A j \in Slot : op[<<r, j>>] \in Fetches => j \in DOMAIN snap[r]
    /\ pc[r] = "served" => got[r] = DOMAIN snap[r]

ReplyInv == /\ MP!DInv
            /\ upload \in [Req -> Buffer] /\ got \in [Req -> SUBSET Slot]
            /\ \A r \in Req : Cut(r) /\ Collected(r)

(* A body is cut when the request comes in, and never changed. *)
LEMMA UploadStep ==
    ASSUME [Next]_vars
    PROVE  \/ UNCHANGED <<body, upload>>
           \/ \E q \in Req, buf \in Buffer : /\ body' = [body EXCEPT ![q] = ChunkHashes(buf)]
                                             /\ upload' = [upload EXCEPT ![q] = buf]
<1>1. ASSUME NEW r \in Req,
             M!HandlerFails(r) \/ M!Served(r) \/ M!WriterStep(r) \/ M!ReadVersion(r)
             \/ M!ReadManifest(r) \/ M!Reject(r) \/ UNCHANGED meta
      PROVE  UNCHANGED body
  BY <1>1 DEF meta, M!locals, M!HandlerFails, M!Served, M!WriterStep, M!CreateFile,
     M!InsertVersion, M!InsertChunk, M!BumpRefcount, M!SetCurrent, M!SelectVersion,
     M!SelectManifest, M!Decrement, M!DeleteManifest, M!DeleteVersionRow, M!ReadVersion,
     M!ReadManifest, M!Reject
<1>2. ASSUME NEW r \in Req, Start(r)
      PROVE  \/ UNCHANGED <<body, upload>>
             \/ \E buf \in Buffer : /\ body' = [body EXCEPT ![r] = ChunkHashes(buf)]
                                    /\ upload' = [upload EXCEPT ![r] = buf]
  BY <1>1, <1>2 DEF Start, M!Post, M!Put, M!Download
<1>3. ASSUME NEW r \in Req, HandlerStep(r) \/ StatementFails(r) PROVE UNCHANGED <<body, upload>>
  BY <1>1, <1>3 DEF HandlerStep, StatementFails, SendChunk, ChunkStored, ChunkRefused,
     Statement, DownloadServed, DownloadFails, FetchChunk, ChunkFetched, ChunkNotFetched
<1>4. ASSUME NEW w \in Worker, WorkerCrash(w) PROVE UNCHANGED <<body, upload>>
  BY <1>4 DEF WorkerCrash, M!WorkerCrash, M!locals
<1>5. ASSUME NEW s \in Sweeper, SweepStep(s) \/ SweepStops(s) PROVE UNCHANGED <<body, upload>>
  BY <1>5 DEF SweepStep, SweepList, SweepDelete, SweepReap, SweepStops, M!GcList, M!GcReap,
     M!GcStop, M!locals, meta
<1>6. CASE NodeStep \/ UNCHANGED vars
  BY <1>6 DEF NodeStep, meta, vars
<1>7. QED
  BY <1>2, <1>3, <1>4, <1>5, <1>6 DEF Next

(* A 200 takes a full Promise.all. *)
LEMMA ServedStep ==
    ASSUME MetaInv, [Next]_vars, NEW r \in Req, pc'[r] = "served", pc[r] # "served"
    PROVE  DownloadServed(r)
<1>1. pc \in [Req -> MP!Live \cup MP!Over \cup {"idle"}]
  BY DEF MetaInv, MP!TInv, MP!TypeOK
<1>2. ASSUME NEW q \in Req, NEW l, pc' = [pc EXCEPT ![q] = l] PROVE l = "served" /\ q = r
  BY <1>1, <1>2
<1>3. ASSUME NEW q \in Req, M!HandlerFails(q) \/ M!WriterStep(q) \/ M!ReadVersion(q)
             \/ M!ReadManifest(q) \/ M!Reject(q) \/ UNCHANGED meta
      PROVE  FALSE
  <2>1. \/ UNCHANGED pc
        \/ \E l \in MP!Sync \cup {"fetch", "done", "failed"} : pc' = [pc EXCEPT ![q] = l]
    BY <1>3 DEF meta, M!Goto, M!HandlerFails, M!WriterStep, M!CreateFile,
       M!InsertVersion, M!InsertChunk, M!BumpRefcount, M!SetCurrent, M!SelectVersion, M!AfterSelect,
       M!SelectManifest, M!Decrement, M!DeleteManifest, M!DeleteVersionRow, M!ReadVersion,
       M!ReadManifest, M!Reject, MP!Sync
  <2>2. QED
    BY <1>2, <2>1 DEF MP!Sync
<1>4. ASSUME NEW q \in Req, Start(q) PROVE FALSE
  <2>1. CASE M!Reject(q)
    BY <1>3, <2>1
  <2>2. CASE ~M!Reject(q)
    <3>1. PICK l \in {"upload", "readVersion"} : pc' = [pc EXCEPT ![q] = l]
      BY <1>4, <2>2 DEF Start, M!Post, M!Put, M!Download, M!Goto
    <3>2. QED
      BY <1>2, <3>1
  <2>3. QED
    BY <2>1, <2>2
<1>5. ASSUME NEW q \in Req, DownloadServed(q) PROVE q = r
  <2>1. pc' = [pc EXCEPT ![q] = "served"]
    BY <1>5 DEF DownloadServed, M!Served, M!Goto
  <2>2. QED
    BY <1>2, <2>1
<1>6. ASSUME NEW q \in Req, HandlerStep(q) \/ StatementFails(q) PROVE DownloadServed(r)
  BY <1>3, <1>5, <1>6 DEF HandlerStep, StatementFails, SendChunk, ChunkStored, ChunkRefused,
     Statement, DownloadFails, FetchChunk, ChunkFetched, ChunkNotFetched
<1>7. ASSUME NEW w \in Worker, WorkerCrash(w) PROVE FALSE
  BY <1>1, <1>7 DEF WorkerCrash, M!WorkerCrash
<1>8. ASSUME NEW s \in Sweeper, SweepStep(s) \/ SweepStops(s) PROVE FALSE
  BY <1>8 DEF SweepStep, SweepList, SweepDelete, SweepReap, SweepStops, M!GcList, M!GcReap,
     M!GcStop, meta
<1>9. CASE NodeStep \/ UNCHANGED vars
  BY <1>9 DEF NodeStep, meta, vars
<1>10. QED
  BY <1>4, <1>6, <1>7, <1>8, <1>9 DEF Next

LEMMA GotStep ==
    ASSUME [Next]_vars
    PROVE  \/ got' = got
           \/ \E r \in Req, j \in Slot : /\ got' = [got EXCEPT ![r] = @ \cup {j}]
                                         /\ op[<<r, j>>] = "get" /\ UNCHANGED meta
<1>1. ASSUME NEW r \in Req, NEW j \in Slot, ChunkFetched(r, j)
      PROVE  /\ got' = [got EXCEPT ![r] = @ \cup {j}]
             /\ op[<<r, j>>] = "get" /\ UNCHANGED meta
  BY <1>1 DEF ChunkFetched, C!GetServed, C!TryReplica
<1>2. (\E r \in Req, j \in Slot : ChunkFetched(r, j)) \/ got' = got
  BY DEF Next, Start, HandlerStep, SendChunk, ChunkStored, ChunkRefused, Statement,
     StatementFails, DownloadServed, DownloadFails, FetchChunk, ChunkNotFetched, WorkerCrash,
     SweepStep, SweepList, SweepReap, SweepDelete, SweepStops, NodeStep, vars
<1>3. QED
  BY <1>1, <1>2

LEMMA CollectedStep ==
    ASSUME MetaInv, CoordInv, HandlerInv, ReplyInv, [Next]_vars, NEW r \in Req
    PROVE  Collected(r)'
<1>1. MP!TInv /\ [MP!Next]_(MP!vars) /\ Fetching(r) /\ Collected(r) /\ got \in [Req -> SUBSET Slot]
  BY StepIsMeta DEF MetaInv, HandlerInv, ReplyInv
<1>2. pc[r] \in {"fetch", "served", "failed"} => snap'[r] = snap[r]
  BY <1>1, MetaConstants, MP!LabelStep
<1>3. ASSUME NEW j \in Slot, op'[<<r, j>>] \in Fetches PROVE j \in DOMAIN snap'[r]
  <2>1. CASE op[<<r, j>>] \in Fetches
    BY <1>1, <1>2, <2>1 DEF Fetching, Collected
  <2>2. CASE FetchChunk(r, j)
    BY <2>2 DEF FetchChunk, meta
  <2>3. QED
    BY <1>3, <2>1, <2>2, NewCalls
<1>4. ASSUME pc'[r] = "served" PROVE got'[r] = DOMAIN snap'[r]
  <2>1. CASE pc[r] = "served"
    <3>1. got[r] = DOMAIN snap[r] /\ snap'[r] = snap[r]
      BY <1>1, <1>2, <2>1 DEF Collected
    <3>2. ASSUME NEW q \in Req, NEW j \in Slot, got' = [got EXCEPT ![q] = @ \cup {j}],
                 op[<<q, j>>] = "get"
          PROVE  got'[r] = got[r]
      <4>1. CASE q = r
        <5>1. j \in DOMAIN snap[r]
          BY <1>1, <3>2, <4>1 DEF Collected, Fetches
        <5>2. got'[r] = got[r] \cup {j}
          BY <1>1, <3>2, <4>1
        <5>3. QED
          BY <3>1, <5>1, <5>2
      <4>2. CASE q # r
        BY <1>1, <3>2, <4>2
      <4>3. QED
        BY <4>1, <4>2
    <3>3. QED
      BY <3>1, <3>2, GotStep
  <2>2. CASE pc[r] # "served"
    <3>1. DownloadServed(r)
      BY <1>4, <2>2, ServedStep
    <3>2. got'[r] = got[r] /\ got[r] = DOMAIN snap[r] /\ pc[r] = "fetch"
      BY <3>1 DEF DownloadServed, AllFetched, M!Served
    <3>3. QED
      BY <1>2, <3>2
  <2>3. QED
    BY <2>1, <2>2
<1>5. QED
  BY <1>3, <1>4 DEF Collected

LEMMA ReplyStep ==
    ASSUME MetaInv, MetaInv', CoordInv, HandlerInv, ReplyInv, [Next]_vars PROVE ReplyInv'
<1>1. MP!DInv'
  BY StepIsMeta, MetaConstants, MP!ReadsStep DEF MetaInv, ReplyInv
<1>2. /\ upload \in [Req -> Buffer] /\ got \in [Req -> SUBSET Slot] /\ \A r \in Req : Cut(r)
      /\ body \in [Req -> Body]
  BY DEF ReplyInv, MetaInv, MP!TInv, MP!TypeOK
<1>3. upload' \in [Req -> Buffer] /\ \A r \in Req : Cut(r)'
  <2>1. CASE UNCHANGED <<body, upload>>
    BY <1>2, <2>1 DEF Cut
  <2>2. ASSUME NEW q \in Req, NEW buf \in Buffer,
               body' = [body EXCEPT ![q] = ChunkHashes(buf)], upload' = [upload EXCEPT ![q] = buf]
        PROVE  upload' \in [Req -> Buffer] /\ \A r \in Req : Cut(r)'
    <3>1. upload' \in [Req -> Buffer]
      BY <1>2, <2>2
    <3>2. ASSUME NEW r \in Req PROVE Cut(r)'
      <4>1. CASE q = r
        BY <1>2, <2>2, <4>1 DEF Cut
      <4>2. CASE q # r
        BY <1>2, <2>2, <4>2 DEF Cut
      <4>3. QED
        BY <4>1, <4>2
    <3>3. QED
      BY <3>1, <3>2
  <2>3. QED
    BY <2>1, <2>2, UploadStep
<1>4. got' \in [Req -> SUBSET Slot]
  BY <1>2, GotStep
<1>5. QED
  BY <1>1, <1>3, <1>4, CollectedStep DEF ReplyInv

(* What a 200 contains is what one client sent, byte for byte, for bodies  *)
(* of any size: cut into chunks, uploaded, listed in a manifest, fetched   *)
(* in any order and put together again; but for the download that finds    *)
(* nothing left of a version another worker has given back.                *)
THEOREM RepliesAreUploads == Spec => []ServedAsSent
<1>1. Init => ReplyInv
  <2> SUFFICES ASSUME Init PROVE ReplyInv
    OBVIOUS
  <2>1. MP!DInv
    BY MetaConstants, MP!DownloadInit DEF Init, M!Init, MP!Init
  <2>2. upload = [r \in Req |-> <<>>] /\ got = [r \in Req |-> {}] /\ <<>> \in Buffer
    BY StoreAssumption DEF Init
  <2>3. ChunkHashes(<<>>) = <<>>
    <3>1. Passes(0) = {}
      BY DEF Passes
    <3>2. QED
      BY <3>1 DEF ChunkHashes, ChunkBuffer
  <2>4. ASSUME NEW r \in Req PROVE Cut(r) /\ Collected(r)
    <3>1. Cut(r)
      BY <2>2, <2>3 DEF Init, M!Init, Cut
    <3>2. \A j \in Slot : op[<<r, j>>] = "none"
      BY CallKinds DEF Init, C!Init
    <3>3. Collected(r)
      BY <3>2 DEF Init, M!Init, Collected, Fetches
    <3>4. QED
      BY <3>1, <3>3
  <2>5. QED
    BY <2>1, <2>2, <2>4 DEF ReplyInv
<1>2. StoreInv /\ StoreInv' /\ ReplyInv /\ [Next]_vars => ReplyInv'
  BY ReplyStep DEF StoreInv
<1>3. StoreInv /\ ReplyInv => ServedAsSent
  <2> SUFFICES ASSUME StoreInv, ReplyInv, NEW r \in Req, pc[r] = "served"
               PROVE  Reply(r) = upload[prev[r]] \/ (snap[r] = <<>> /\ M!TakenElsewhere(r))
    BY DEF ServedAsSent
  <2>1. prev[r] \in Req
    BY DEF StoreInv, MetaInv, MP!TInv, MP!LocalsOK, MP!Reading
  <2>2. \/ snap[r] = body[prev[r]]
        \/ snap[r] = <<>> /\ MP!TakenElsewhere(r)
    BY DEF ReplyInv, MP!DInv, MP!Reads
  <2>3. MP!TakenElsewhere(r) => M!TakenElsewhere(r)
    BY DEF MP!TakenElsewhere, M!TakenElsewhere
  <2>4. CASE snap[r] = body[prev[r]]
    <3>1. PICK buf \in Buffer : buf = upload[prev[r]] /\ snap[r] = ChunkHashes(buf)
      BY <2>1, <2>4 DEF ReplyInv, Cut
    <3>2. got[r] = DOMAIN snap[r]
      BY DEF ReplyInv, Collected
    <3>3. Reply(r) = FlattenSeq([j \in DOMAIN ChunkHashes(buf) |-> ChunkHashes(buf)[j].sha256])
      <4>1. [j \in DOMAIN snap[r] |-> IF j \in got[r] THEN snap[r][j].sha256 ELSE <<>>]
              = [j \in DOMAIN ChunkHashes(buf) |-> ChunkHashes(buf)[j].sha256]
        BY <3>1, <3>2
      <4>2. QED
        BY <4>1 DEF Reply
    <3>4. buf \in Seq(Range(buf))
      BY StoreAssumption
    <3>5. FlattenSeq([j \in DOMAIN ChunkHashes(buf) |-> ChunkHashes(buf)[j].sha256]) = buf
      BY <3>4, ChunksJoin, Zenon
    <3>6. QED
      BY <3>1, <3>3, <3>5
  <2>5. QED
    BY <2>2, <2>3, <2>4
<1>4. QED
  BY <1>1, <1>2, <1>3, StoreAlways, PTL DEF Spec
-----------------------------------------------------------------------------
(* The composition only restricts its components: it implements both of    *)
(* them, and every theorem about either is one about it.                   *)

(* A sweep without a delete under way has no call state, so that giving up *)
(* a sweep between two deletes is no step of the coordinator.              *)
Resting(s) ==
    /\ i[s] = 1 /\ reason[s] = "no_replicas_configured"
    /\ op[s] # "delete" => acks[s] = {}

LEMMA RestingStep ==
    ASSUME MetaInv, CoordInv, HandlerInv, [Next]_vars, NEW s \in Sweeper, Resting(s)
    PROVE  Resting(s)'
<1> USE DEF Resting
<1>1. /\ s \in Call /\ s \notin Req /\ Role(s) /\ s \notin Fetch
      /\ op \in [Call -> CP!Open \cup {"none", "missing", "unavailable"}]
      /\ acks \in [Call -> SUBSET Node] /\ i \in [Call -> Nat \ {0}]
      /\ reason \in [Call -> CP!Reasons \cup {"no_replicas_configured"}]
      /\ \A c \in Call : wait[c] # {} => op[c] \in {"put", "delete"}
  BY CallKinds DEF HandlerInv, CoordInv, CP!TypeOK
<1>2. op[s] \in {"none", "delete"}
  BY <1>1 DEF Role, Fetches, CP!Open
<1>3. ASSUME NEW c \in Call, c # s, NEW h \in Chunk, CP!PutChunk(c, h) \/ CP!GetChunk(c, h)
      PROVE  Resting(s)'
  BY <1>1, <1>3 DEF CP!PutChunk, CP!GetChunk, CP!Begin
<1>4. ASSUME NEW c \in Call, NEW h \in Chunk, CP!DeleteChunk(c, h) PROVE Resting(s)'
  BY <1>1, <1>4 DEF CP!DeleteChunk, CP!Begin
<1>5. ASSUME NEW c \in Call, CP!CallStep(c) PROVE Resting(s)'
  <2>1. CASE \E why \in CP!Reasons : CP!GetAdvances(c, why)
    <3>1. c # s
      BY <1>2, <2>1 DEF CP!GetAdvances, CP!TryReplica
    <3>2. QED
      BY <1>1, <2>1, <3>1 DEF CP!GetAdvances
  <2>2. CASE \E x : CP!End(c, x)
    BY <1>1, <2>2 DEF CP!End
  <2>3. QED
    BY <1>5, <2>1, <2>2 DEF CP!CallStep, CP!PutOk, CP!PutFailed, CP!DeleteDone, CP!GetServed,
       CP!GetExhausted
<1>6. ASSUME NEW D \in SUBSET Call, CP!Abandon(D) PROVE Resting(s)'
  BY <1>1, <1>6 DEF CP!Abandon
<1>7. CASE CP!NodeStep
  <2>1. ASSUME NEW c \in Call, NEW n \in Node, CP!RequestHandled(c, n) PROVE Resting(s)'
    BY <1>1, <1>2, <2>1 DEF CP!RequestHandled
  <2>2. CASE UNCHANGED <<op, acks, i, reason>>
    BY <2>2
  <2>3. QED
    BY <1>7, <2>1, <2>2 DEF CP!NodeStep, CP!RequestFails, CP!RequestTimesOut, CP!LateHandled,
       CP!LateLost, CP!calls
<1>8. CASE UNCHANGED coord
  BY <1>8 DEF coord
<1>9. ASSUME NEW r \in Req, SendChunk(r) PROVE Resting(s)'
  BY <1>1, <1>3, <1>9, SendBegins
<1>10. ASSUME NEW r \in Req, NEW j \in Slot, FetchChunk(r, j) PROVE Resting(s)'
  <2>1. PICK c \in Call, h \in Chunk : c \in Fetch /\ CP!GetChunk(c, h)
    BY <1>10, FetchBegins, CallKinds
  <2>2. QED
    BY <1>1, <1>3, <2>1
<1>11. ASSUME NEW t \in Sweeper, NEW h \in Chunk, SweepDelete(t, h) PROVE Resting(s)'
  BY <1>4, <1>11, SweepBegins
<1>12. QED
  BY <1>5, <1>6, <1>7, <1>8, <1>9, <1>10, <1>11, WhoBegins DEF Goes

(* Giving up calls of which none is open changes nothing. *)
LEMMA AbandonNothing ==
    ASSUME CoordInv, HandlerInv, \A t \in Sweeper : Resting(t), NEW s \in Sweeper,
           op[s] \notin CP!Open, CP!Abandon({s})
    PROVE  UNCHANGED CP!vars
<1>1. /\ s \in Call /\ wait[s] = {} /\ acks[s] = {} /\ op[s] = "none"
      /\ i[s] = 1 /\ reason[s] = "no_replicas_configured"
      /\ op = [c \in Call |-> op[c]] /\ wait = [c \in Call |-> wait[c]]
      /\ acks = [c \in Call |-> acks[c]] /\ i = [c \in Call |-> i[c]]
      /\ reason = [c \in Call |-> reason[c]]
  BY CallKinds DEF CoordInv, CP!TypeOK, HandlerInv, Role, Fetches, Resting, CP!Open
<1>2. UNCHANGED <<op, wait, acks, i, reason>>
  BY <1>1 DEF CP!Abandon
<1>3. late' = late
  BY <1>1 DEF CP!Abandon
<1>4. QED
  BY <1>2, <1>3 DEF CP!Abandon, CP!vars, CP!calls, CP!history

LEMMA AbandonNobody ==
    ASSUME CoordInv, CP!Abandon({}) PROVE UNCHANGED CP!vars
<1>1. /\ op = [c \in Call |-> op[c]] /\ wait = [c \in Call |-> wait[c]]
      /\ acks = [c \in Call |-> acks[c]] /\ i = [c \in Call |-> i[c]]
      /\ reason = [c \in Call |-> reason[c]]
  BY DEF CoordInv, CP!TypeOK
<1>2. UNCHANGED <<op, wait, acks, i, reason, late>>
  BY <1>1 DEF CP!Abandon
<1>3. QED
  BY <1>2 DEF CP!Abandon, CP!vars, CP!calls, CP!history

LEMMA CoordRefined ==
    ASSUME StoreInv, \A s \in Sweeper : Resting(s), [Next]_vars
    PROVE  [CP!Next]_(CP!vars)
<1>1. MetaInv /\ CoordInv /\ HandlerInv
  BY DEF StoreInv
<1>2. CASE Begins
  BY <1>2 DEF Begins, CP!Next
<1>3. CASE CP!NodeStep \/ \E c \in Call : CP!CallStep(c)
  BY <1>3 DEF CP!Next
<1>4. CASE UNCHANGED coord
  BY <1>4 DEF coord, CP!vars, CP!calls, CP!history
<1>5. ASSUME NEW w \in Worker, WorkerCrash(w) PROVE [CP!Next]_(CP!vars)
  <2>1. PICK D \in SUBSET {c \in Call : op[c] \in CP!Open} : CP!Abandon(D)
    BY <1>5, SameCalls DEF WorkerCrash, Call
  <2>2. CASE D = {}
    BY <1>1, <2>1, <2>2, AbandonNobody
  <2>3. QED
    BY <2>1, <2>2 DEF CP!Next
<1>6. ASSUME NEW s \in Sweeper, SweepStops(s) PROVE [CP!Next]_(CP!vars)
  <2>1. s \in Call /\ CP!Abandon({s})
    BY <1>6, CallKinds, SameCalls DEF SweepStops
  <2>2. CASE op[s] \in CP!Open
    BY <2>1, <2>2 DEF CP!Next
  <2>3. CASE op[s] \notin CP!Open
    BY <1>1, <2>1, <2>3, AbandonNothing
  <2>4. QED
    BY <2>2, <2>3
<1>7. ASSUME NEW r \in Req, SendChunk(r) PROVE Begins
  BY <1>1, <1>7, SendBegins DEF Begins
<1>8. ASSUME NEW r \in Req, NEW j \in Slot, FetchChunk(r, j) PROVE Begins
  BY <1>1, <1>8, FetchBegins DEF Begins
<1>9. ASSUME NEW s \in Sweeper, NEW h \in Chunk, SweepDelete(s, h) PROVE Begins
  BY <1>1, <1>9, SweepBegins DEF Begins
<1>10. ASSUME NEW r \in Req, ChunkStored(r) \/ ChunkRefused(r)
       PROVE  \E c \in Call : CP!CallStep(c)
  BY <1>10, CallKinds, SameCalls DEF ChunkStored, ChunkRefused, CP!CallStep
<1>11. ASSUME NEW r \in Req, NEW j \in Slot, ChunkFetched(r, j) \/ ChunkNotFetched(r, j)
       PROVE  \E c \in Call : CP!CallStep(c)
  BY <1>11, CallKinds, SameCalls DEF ChunkFetched, ChunkNotFetched, CP!CallStep
<1>12. ASSUME NEW s \in Sweeper, SweepReap(s) PROVE \E c \in Call : CP!CallStep(c)
  BY <1>12, CallKinds, SameCalls DEF SweepReap, CP!CallStep
<1>13. CASE NodeStep
  BY <1>3, <1>13, SameNodes DEF NodeStep
<1>14. QED
  BY <1>2, <1>3, <1>4, <1>5, <1>6, <1>7, <1>8, <1>9, <1>10, <1>11, <1>12, <1>13
     DEF Next, Start, HandlerStep, Statement, StatementFails, DownloadServed, DownloadFails,
         SweepStep, SweepList, vars

(* Every behaviour of the store end to end is one of the metadata store    *)
(* and one of the coordinator: handlers that upload before they commit,    *)
(* fetch what a manifest lists and reap what they deleted only choose      *)
(* among the calls each component allows, so that what is proved of either *)
(* alone holds of both together.                                           *)
THEOREM StoreRefinesComponents == Spec => MP!Spec /\ CP!Spec
<1> DEFINE Rested == \A s \in Sweeper : Resting(s)
<1>1. Init => MP!Init /\ CP!Init /\ Rested
  <2>1. Init => MP!Init
    BY DEF Init, M!Init, MP!Init
  <2>2. Init => CP!Init
    BY DEF Init, C!Init, CP!Init
  <2>3. Init => Rested
    BY CallKinds DEF Init, C!Init, Resting
  <2>4. QED
    BY <2>1, <2>2, <2>3
<1>2. StoreInv /\ Rested /\ [Next]_vars => Rested'
  BY RestingStep DEF StoreInv
<1>3. StoreInv /\ Rested /\ [Next]_vars => [MP!Next]_(MP!vars) /\ [CP!Next]_(CP!vars)
  BY StepIsMeta, CoordRefined DEF StoreInv
<1>4. QED
  BY <1>1, <1>2, <1>3, StoreAlways, PTL DEF Spec, MP!Spec, CP!Spec
=============================================================================
