---------------------------- MODULE ObjectStore ----------------------------
(***************************************************************************)
(* The store end to end.  POST and PUT handlers in cluster workers cut     *)
(* their body into chunks, upload them through the coordinator, one after  *)
(* another, and commit them to the metadata store only when every one has  *)
(* reached its quorum; downloads read a version's manifest and fetch all   *)
(* its chunks at once; garbage collector processes delete listed chunks    *)
(* from the replicas and reap their rows.  Composes Chunker, MetadataStore *)
(* and Coordinator: each action is the joint step of a handler and of the  *)
(* component it calls.  The coordinator's callers are the uploads, the     *)
(* sweeps, and each slot of a download's Promise.all.                      *)
(***************************************************************************)
EXTENDS Chunker, FiniteSets, SequencesExt

CONSTANTS Req, Worker, Sweeper, NoFile, NULL, Node, Pref, W, MaxLate,
          Buffer        \* the bodies clients send, as bytes

VARIABLES
    files, versions, manifest, counted, refcount, pc, host, fileOf, body, prev,
    k, snap, gcList, released, tainted,
    disk, op, chunkOf, wait, acks, i, reason, late, stored, clean, missed,
    sent,       \* sent[r]: the chunk r's uploadChunks has come to
    got,        \* got[r]: the slots of r's Promise.all that hold bytes
    \* History, read by properties only:
    upload,     \* upload[r]: the bytes r's client sent
    exposed,    \* requests whose upload or commit overlapped a sweep of one
                \* of their chunks
    leaky       \* chunks a copy of which may be left behind (see SpaceAccounted)

Body  == {ChunkHashes(buf) : buf \in Buffer}
Chunk == UNION {Range(m) : m \in Body}
Slot  == UNION {DOMAIN m : m \in Body}
Fetch == Req \X Slot
Call  == Req \cup Sweeper \cup Fetch

ASSUME StoreAssumption ==
    /\ IsFiniteSet(Req)
    /\ \A buf \in Buffer : buf \in Seq(Range(buf))
    /\ <<>> \in Buffer                  \* "a zero-byte file is a legitimate file"
    /\ NoFile \notin Req /\ NULL \notin Req /\ NoFile # NULL
    /\ Pref \in [Chunk -> Seq(Node)]
    /\ \A h \in Chunk : IsInjective(Pref[h])
    /\ W \in Nat
    /\ Req \cap Sweeper = {} /\ Fetch \cap (Req \cup Sweeper) = {}

M == INSTANCE MetadataStore
C == INSTANCE Coordinator

meta  == <<files, versions, manifest, counted, refcount, pc, host, fileOf, body,
           prev, k, snap, gcList, released, tainted>>
coord == <<disk, op, chunkOf, wait, acks, i, reason, late, stored, clean, missed>>
vars  == <<meta, coord, sent, got, upload, exposed, leaky>>

Init == /\ M!Init
        /\ C!Init /\ \E h \in Chunk : chunkOf = [c \in Call |-> h]
        /\ sent = [r \in Req |-> 1]
        /\ got = [r \in Req |-> {}]
        /\ upload = [r \in Req |-> <<>>]
        /\ exposed = {}
        /\ leaky = {}

(* Between the start of its upload and the end of its commit. *)
Writing(r) == pc[r] \in {"upload", "version", "chunk", "bump"}

(* A sweep of h has listed it and not reaped it, or a DELETE of it is late. *)
Sweeping(h) == \/ \E s \in Sweeper : h \in gcList[s]
               \/ \E n \in Node : <<"delete", n, h>> \in late

(* The history every action keeps up to date.  A chunk is leaky once a     *)
(* writer of it has failed, a PUT of it has outlived its caller, a sweep   *)
(* has reaped it although a replica did not confirm its deletion, or a     *)
(* commit has counted it while a sweep had it listed: if the reference is  *)
(* given back before the sweep gets to reap the row, the row goes although *)
(* the upload came after the DELETEs.                                      *)
Track ==
    /\ exposed' = exposed \cup
          {r \in Req : Writing(r)' /\ \E h \in Range(body'[r]) : Sweeping(h)'}
    /\ leaky' = leaky
          \cup (UNION {Range(body[r]) : r \in {q \in Req : Writing(q) /\ pc'[q] = "failed"}})
          \cup {h \in Chunk : \E n \in Node : <<"put", n, h>> \in late'}
          \cup {chunkOf[s] : s \in {t \in Sweeper :
                   op[t] = "delete" /\ op'[t] # "delete" /\ acks[t] # C!Replicas(chunkOf[t])}}
          \cup {h \in UNION {gcList[s] : s \in Sweeper} : refcount'[h] > refcount[h]}
-----------------------------------------------------------------------------
(* Requests *)

Start(r) ==
    /\ \/ \E buf \in Buffer :
             /\ \/ M!Post(r, ChunkHashes(buf))
                \/ \E f \in Req : M!Put(r, f, ChunkHashes(buf))
             /\ upload' = [upload EXCEPT ![r] = buf]
       \/ (M!Reject(r) \/ \E f \in Req : M!Download(r, f)) /\ UNCHANGED upload
    /\ UNCHANGED <<coord, sent, got>> /\ Track

(* uploadChunks awaits putChunk of one chunk at a time. *)
SendChunk(r) ==
    /\ pc[r] = "upload" /\ sent[r] <= Len(body[r]) /\ M!Free(host[r])
    /\ C!PutChunk(r, body[r][sent[r]])
    /\ UNCHANGED <<meta, sent, got, upload>> /\ Track

ChunkStored(r) ==
    /\ M!Free(host[r])
    /\ C!PutOk(r)
    /\ sent' = [sent EXCEPT ![r] = @ + 1]
    /\ UNCHANGED <<meta, got, upload>> /\ Track

(* QuorumWriteError ends the handler: nothing is committed. *)
ChunkRefused(r) ==
    /\ C!PutFailed(r)
    /\ M!HandlerFails(r)
    /\ UNCHANGED <<sent, got, upload>> /\ Track

(* Mutant: the handler commits without waiting for its last chunk. *)
UploadedButOne(r) == sent[r] >= Len(body[r])

(* The handler resumes after await uploadChunks(buf). *)
Uploaded(r) == sent[r] > Len(body[r])

(* The statements of createFile, commitVersion and deleteVersion, and the  *)
(* SELECTs of a download.                                                  *)
Statement(r) ==
    /\ pc[r] = "upload" => Uploaded(r)
    /\ M!WriterStep(r) \/ M!ReadVersion(r) \/ M!ReadManifest(r)
    /\ UNCHANGED <<coord, sent, got, upload>> /\ Track

(* A statement throws: one of those above, or the first after the upload.  *)
StatementFails(r) ==
    /\ pc[r] \in M!Sync \/ (pc[r] = "upload" /\ Uploaded(r))
    /\ M!HandlerFails(r)
    /\ UNCHANGED <<coord, sent, got, upload>> /\ Track

WorkerCrash(w) ==
    /\ M!WorkerCrash(w)
    /\ C!Abandon({c \in Req : host[c] = w /\ op[c] \in C!Open}
                 \cup {c \in Fetch : host[c[1]] = w /\ op[c] \in C!Open})
    /\ UNCHANGED <<sent, got, upload>> /\ Track
-----------------------------------------------------------------------------
(* Downloads: Promise.all(version.chunkHashes.map(getChunk)) *)

FetchChunk(r, j) ==
    /\ pc[r] = "fetch" /\ j \in DOMAIN snap[r] \ got[r] /\ op[<<r, j>>] = "none"
    /\ C!GetChunk(<<r, j>>, snap[r][j])
    /\ UNCHANGED <<meta, sent, got, upload>> /\ Track

ChunkFetched(r, j) ==
    /\ C!GetServed(<<r, j>>)
    /\ got' = [got EXCEPT ![r] = @ \cup {j}]
    /\ UNCHANGED <<meta, sent, upload>> /\ Track

(* A getChunk tries the next replica or gives up.  One whose download has  *)
(* failed meanwhile goes on all the same.                                  *)
ChunkNotFetched(r, j) ==
    /\ \/ \E why \in C!Reasons : C!GetAdvances(<<r, j>>, why)
       \/ C!GetExhausted(<<r, j>>)
    /\ UNCHANGED <<meta, sent, got, upload>> /\ Track

(* Every slot holds bytes: 200 with Buffer.concat(parts). *)
AllFetched(r) == got[r] = DOMAIN snap[r]

(* getChunk(h) returns nothing but bytes whose hash is h. *)
Reply(r) == FlattenSeq([j \in DOMAIN snap[r] |->
                           IF j \in got[r] THEN snap[r][j].sha256 ELSE <<>>])

DownloadServed(r) ==
    /\ AllFetched(r)
    /\ M!Served(r)
    /\ UNCHANGED <<coord, sent, got, upload>> /\ Track

(* ChunkUnavailableError rejects Promise.all at once; a chunk that no      *)
(* replica has is noticed when all slots are settled.                      *)
DownloadFails(r) ==
    /\ pc[r] = "fetch"
    /\ \/ \E j \in DOMAIN snap[r] : op[<<r, j>>] = "unavailable"
       \/ /\ \E j \in DOMAIN snap[r] : op[<<r, j>>] = "missing"
          /\ \A j \in DOMAIN snap[r] : j \in got[r] \/ op[<<r, j>>] = "missing"
    /\ M!HandlerFails(r)
    /\ UNCHANGED <<coord, sent, got, upload>> /\ Track
-----------------------------------------------------------------------------
(* Sweeps *)

SweepList(s) ==
    /\ M!GcList(s)
    /\ UNCHANGED <<coord, sent, got, upload>> /\ Track

SweepDelete(s, h) ==
    /\ h \in gcList[s]
    /\ C!DeleteChunk(s, h)
    /\ UNCHANGED <<meta, sent, got, upload>> /\ Track

(* deleteChunk returns a count the sweep only reports: the row goes even   *)
(* when no replica answered.                                               *)
SweepReap(s) ==
    /\ C!DeleteDone(s)
    /\ M!GcReap(s, chunkOf[s])
    /\ UNCHANGED <<sent, got, upload>> /\ Track

SweepStops(s) ==
    /\ M!GcStop(s)
    /\ C!Abandon({s})
    /\ UNCHANGED <<sent, got, upload>> /\ Track
-----------------------------------------------------------------------------
NodeStep ==
    /\ C!NodeStep
    /\ UNCHANGED <<meta, sent, got, upload>> /\ Track

(* A request, and a collector, moves on: its handler takes a step, or a    *)
(* replica it waits for answers, fails or is given up.                     *)
HandlerStep(r) ==
    \/ SendChunk(r) \/ ChunkStored(r) \/ ChunkRefused(r) \/ Statement(r)
    \/ DownloadServed(r) \/ DownloadFails(r)
    \/ \E j \in Slot : FetchChunk(r, j) \/ ChunkFetched(r, j) \/ ChunkNotFetched(r, j)

SweepStep(s) == SweepList(s) \/ SweepReap(s) \/ \E h \in Chunk : SweepDelete(s, h)

Outcome(c) == NodeStep /\ wait'[c] # wait[c]

Next ==
    \/ \E r \in Req : Start(r) \/ HandlerStep(r) \/ StatementFails(r)
    \/ \E w \in Worker : WorkerCrash(w)
    \/ \E s \in Sweeper : SweepStep(s) \/ SweepStops(s)
    \/ NodeStep

Spec == Init /\ [][Next]_vars

(* The event loop runs what is ready, SQLite's busy wait ends one way or   *)
(* the other, AbortSignal.timeout gives every request an outcome, and the  *)
(* sidecar's loop starts sweep after sweep and is not killed every time.   *)
(* Nothing is asked of the storage nodes.                                  *)
Fairness ==
    /\ \A r \in Req : WF_vars(HandlerStep(r) \/ Outcome(r))
    /\ \A s \in Sweeper : WF_vars(SweepStep(s) \/ Outcome(s))
    /\ <>[][\A s \in Sweeper : ~SweepStops(s)]_vars

FairSpec == Spec /\ Fairness
-----------------------------------------------------------------------------
(* Properties *)

(* The chunks of a file's current version are on a write quorum of         *)
(* replicas, whatever requests, crashes, timeouts and sweeps do, with two  *)
(* exceptions: a sweep of the chunk was under way while the version was    *)
(* uploaded or committed, or the chunk's refcount had been spoilt (tainted *)
(* in MetadataStore).                                                      *)
UnexposedHeld ==
    \A v \in M!CurrentVersions \ exposed :
        \A h \in M!Hashes(manifest[v]) \ tainted : Cardinality(C!Holders(h)) >= W

(* The sweep's signal is safe: a chunk "ANY live version of ANY file still *)
(* reference[s]" is never deleted from all its replicas.                   *)
ReferencedHeld ==
    \A v \in M!CurrentVersions : \A h \in M!Hashes(manifest[v]) : C!Holders(h) # {}

(* Every copy on a disk is accounted for, by a row of chunk_refcounts that *)
(* a sweep will find in the end or by a writer about to add one, so that   *)
(* space is given back, unless the chunk is leaky or its count was spoilt. *)
SpaceAccounted ==
    \A h \in Chunk \ (leaky \cup tainted) : C!Holders(h) # {} =>
        \/ h \in counted
        \/ \E r \in Req : Writing(r) /\ h \in Range(body[r])

(* A download of a version no sweep has met and nobody has released fails  *)
(* only if W replicas of one of its chunks did not answer it with what     *)
(* they hold, whatever is uploaded, superseded and swept while its fetches *)
(* are under way.                                                          *)
DownloadSurvives ==
    \A r \in Req, j \in Slot :
        /\ op[<<r, j>>] \in {"missing", "unavailable"}
        /\ prev[r] \notin exposed \cup released /\ chunkOf[<<r, j>>] \notin tainted
        => Cardinality(missed[<<r, j>>]) >= W

(* What a 200 contains is what one client sent, byte for byte: cut into    *)
(* chunks, uploaded, listed in a manifest, fetched in any order, and put   *)
(* together again.  The exception is the one DownloadNotPartial allows.    *)
ServedAsSent ==
    \A r \in Req : pc[r] = "served" =>
        \/ Reply(r) = upload[prev[r]]
        \/ snap[r] = <<>> /\ M!TakenElsewhere(r)

(* Every request that was let in ends, and so does every call it made; no  *)
(* request waits for another, for a replica or for a sweep forever.        *)
RequestsEnd ==
    \A r \in Req : pc[r] \in M!Live ~>
        pc[r] \in M!Over /\ \A c \in {r} \cup ({r} \X Slot) : op[c] \notin C!Open

(* A row at or below zero does not stay: it is reaped or counts again,     *)
(* even if no replica ever answers a DELETE.                               *)
OrphansReaped ==
    \A h \in Chunk :
        h \in counted /\ refcount[h] <= 0 ~> ~(h \in counted /\ refcount[h] <= 0)
=============================================================================
