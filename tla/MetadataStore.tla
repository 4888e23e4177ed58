--------------------------- MODULE MetadataStore ---------------------------
(***************************************************************************)
(* The SQLite tables of metadataStore.js and the three programs that run   *)
(* statements on them: the POST/PUT handlers and the download handler of   *)
(* server.js, in any number of cluster workers, and the sweep of gc.js.    *)
(*                                                                         *)
(* No caller opens a transaction, so every statement commits by itself and *)
(* is one action here; pc[r] names the statement request r runs next.      *)
(* Inside one worker a stretch of handler without an await runs to its     *)
(* end: no other handler of that worker starts or resumes meanwhile        *)
(* (Free).  Other workers and the collector are separate processes and     *)
(* interleave at every statement.  A worker may die, and a statement may   *)
(* fail (SQLITE_BUSY once busy_timeout is over), between any two of them.  *)
(*                                                                         *)
(* Ids come from newId, 96 random bits: a version is named after the       *)
(* request that commits it, a file after the POST that creates it.         *)
(***************************************************************************)
EXTENDS Integers, Sequences, FiniteSets

CONSTANTS Req,        \* HTTP requests, each sent once
          Worker,     \* coordinator processes (cluster.js)
          Sweeper,    \* garbage collector processes (gc.js)
          Chunk,      \* chunk hashes
          Body,       \* the chunk-hash lists of the bodies clients send
          NoFile,     \* files[f] when table files has no row for f
          NULL        \* SQL NULL

ASSUME ConstantsAssumption ==
    /\ IsFiniteSet(Req)
    /\ Body \subseteq Seq(Chunk)
    /\ <<>> \in Body                    \* "a zero-byte file is a legitimate file"
    /\ NoFile \notin Req /\ NULL \notin Req /\ NoFile # NULL

VARIABLES
    files,      \* files[f]: NoFile, or the row's current_version_id
    versions,   \* the rows of table versions
    manifest,   \* manifest[v]: the chunk_hash column of v's rows of manifest_chunks, by seq
    counted,    \* the hashes that have a row in chunk_refcounts
    refcount,   \* refcount[h]: that row's refcount, 0 where there is none (getRefcount)
    pc,         \* pc[r]: where the handler of r stands
    host,       \* host[r]: the worker that serves r
    fileOf,     \* fileOf[r]: fileId in r's handler, NULL until it is known
    body,       \* body[r]: chunkHashes, the hashes of r's request body
    prev,       \* prev[r]: previousVersionId of a PUT, the version a download reads
    k,          \* k[r]: position in the loop over chunkHashes
    snap,       \* snap[r]: version.chunkHashes as read by getVersion
    gcList,     \* gcList[s]: the hashes sweep s has listed and not reaped yet
    \* History, read by properties only:
    released,   \* the versions whose references some deleteVersion began to give back
    tainted     \* the hashes with a miscounted reference (see the properties)

tables  == <<files, versions, manifest, counted, refcount>>
locals  == <<host, fileOf, body, prev, k, snap>>
history == <<released, tainted>>
vars    == <<tables, pc, locals, gcList, history>>

(* Handlers in the middle of a stretch without await. *)
Sync == {"version", "chunk", "bump", "select", "manifest", "release", "row",
         "readVersion", "readManifest"}
Live == Sync \cup {"upload", "fetch"}
Over == {"done", "served", "failed"}

(* Mutant: an await between the statements of a handler lets others in.    *)
FreeAlways(w) == TRUE

Free(w) == \A r \in Req : host[r] = w => pc[r] \notin Sync

(* The hashes of a list. *)
Hashes(s) == {s[i] : i \in DOMAIN s}

Init ==
    /\ files = [f \in Req |-> NoFile]
    /\ versions = {}
    /\ manifest = [v \in Req |-> <<>>]
    /\ counted = {}
    /\ refcount = [h \in Chunk |-> 0]
    /\ pc = [r \in Req |-> "idle"]
    /\ host \in [Req -> Worker]
    /\ fileOf = [r \in Req |-> NULL]
    /\ body = [r \in Req |-> <<>>]
    /\ prev = [r \in Req |-> NULL]
    /\ k = [r \in Req |-> 1]
    /\ snap = [r \in Req |-> <<>>]
    /\ gcList = [s \in Sweeper |-> {}]
    /\ released = {}
    /\ tainted = {}

Goto(r, label) == pc' = [pc EXCEPT ![r] = label]
-----------------------------------------------------------------------------
(* Writers: POST /files and PUT /files/:fileId *)

(* Mutant: the 404 check of getFile's result is forgotten. *)
FileFoundUnchecked(f) == TRUE

FileFound(f) == files[f] # NoFile

(* POST: the handler starts and suspends in uploadChunks. *)
Post(r, b) ==
    /\ pc[r] = "idle" /\ Free(host[r])
    /\ body' = [body EXCEPT ![r] = b]
    /\ Goto(r, "upload")
    /\ UNCHANGED <<tables, host, fileOf, prev, k, snap, gcList, history>>

(* PUT: getFile finds the row and remembers its current version, then the  *)
(* handler suspends in uploadChunks.  f is any id a client may put in the  *)
(* path.                                                                   *)
Put(r, f, b) ==
    /\ pc[r] = "idle" /\ Free(host[r])
    /\ FileFound(f)
    /\ fileOf' = [fileOf EXCEPT ![r] = f]
    /\ prev' = [prev EXCEPT ![r] = files[f]]
    /\ body' = [body EXCEPT ![r] = b]
    /\ Goto(r, "upload")
    /\ UNCHANGED <<tables, host, k, snap, gcList, history>>

(* The early returns: 429, 400, and 404 of an id without a row. *)
Reject(r) ==
    /\ pc[r] = "idle" /\ Free(host[r])
    /\ Goto(r, "failed")
    /\ UNCHANGED <<tables, locals, gcList, history>>

(* createFile: a POST's first statement once its chunks are stored. *)
CreateFile(r) ==
    /\ pc[r] = "upload" /\ fileOf[r] = NULL /\ Free(host[r])
    /\ files' = [files EXCEPT ![r] = NULL]
    /\ fileOf' = [fileOf EXCEPT ![r] = r]
    /\ Goto(r, "version")
    /\ UNCHANGED <<versions, manifest, counted, refcount, host, body, prev, k,
                   snap, gcList, history>>

(* commitVersion, first statement; a PUT resumes here after its upload. *)
InsertVersion(r) ==
    /\ \/ pc[r] = "version"
       \/ pc[r] = "upload" /\ fileOf[r] # NULL /\ Free(host[r])
    /\ versions' = versions \cup {r}
    /\ Goto(r, "chunk")
    /\ UNCHANGED <<files, manifest, counted, refcount, locals, gcList, history>>

(* Mutant: the loop over chunkHashes stops one short. *)
ManifestDoneEarly(r) == k[r] >= Len(body[r])

(* chunkHashes.forEach is over. *)
ManifestDone(r) == k[r] > Len(body[r])

InsertChunk(r) ==
    /\ pc[r] = "chunk" /\ ~ManifestDone(r)
    /\ manifest' = [manifest EXCEPT ![r] = Append(@, body[r][k[r]])]
    /\ Goto(r, "bump")
    /\ UNCHANGED <<files, versions, counted, refcount, locals, gcList, history>>

(* Mutant: INSERT OR REPLACE, which forgets the references counted so far. *)
BumpedByReplace(h) == [refcount EXCEPT ![h] = 1]

(* INSERT ... ON CONFLICT DO UPDATE SET refcount = refcount + 1. *)
Bumped(h) == [refcount EXCEPT ![h] = @ + 1]

BumpRefcount(r) ==
    /\ pc[r] = "bump"
    /\ LET h == body[r][k[r]] IN
         /\ counted' = counted \cup {h}
         /\ refcount' = Bumped(h)
    /\ k' = [k EXCEPT ![r] = @ + 1]
    /\ Goto(r, "chunk")
    /\ UNCHANGED <<files, versions, manifest, host, fileOf, body, prev, snap,
                   gcList, history>>

(* UPDATE files SET current_version_id, the end of commitVersion.  Without *)
(* a previous version the handler replies; with one it calls deleteVersion. *)
SetCurrent(r) ==
    /\ pc[r] = "chunk" /\ ManifestDone(r)
    /\ files' = [files EXCEPT ![fileOf[r]] = r]
    /\ Goto(r, IF prev[r] = NULL THEN "done" ELSE "select")
    /\ UNCHANGED <<versions, manifest, counted, refcount, locals, gcList, history>>
-----------------------------------------------------------------------------
(* deleteVersion(previousVersionId), at the end of a PUT *)

(* if (!version) return *)
AfterSelect(r) == IF prev[r] \in versions THEN "manifest" ELSE "done"

(* getVersion, first SELECT. *)
SelectVersion(r) ==
    /\ pc[r] = "select"
    /\ Goto(r, AfterSelect(r))
    /\ UNCHANGED <<tables, locals, gcList, history>>

(* getVersion, second SELECT.  History: a second handler that reaches this *)
(* point for the same version gives the same references back again.        *)
SelectManifest(r) ==
    /\ pc[r] = "manifest"
    /\ snap' = [snap EXCEPT ![r] = manifest[prev[r]]]
    /\ k' = [k EXCEPT ![r] = 1]
    /\ released' = released \cup {prev[r]}
    /\ tainted' = IF prev[r] \in released
                  THEN tainted \cup Hashes(manifest[prev[r]]) ELSE tainted
    /\ Goto(r, "release")
    /\ UNCHANGED <<tables, host, fileOf, body, prev, gcList>>

(* Mutant: the count is kept from reaching zero. *)
DecrementedAboveOne(h) ==
    IF h \in counted /\ refcount[h] > 1 THEN [refcount EXCEPT ![h] = @ - 1] ELSE refcount

(* One UPDATE of _decrementRefcounts: no effect on a hash without a row. *)
Decremented(h) ==
    IF h \in counted THEN [refcount EXCEPT ![h] = @ - 1] ELSE refcount

Decrement(r) ==
    /\ pc[r] = "release" /\ k[r] <= Len(snap[r])
    /\ refcount' = Decremented(snap[r][k[r]])
    /\ k' = [k EXCEPT ![r] = @ + 1]
    /\ UNCHANGED <<files, versions, manifest, counted, pc, host, fileOf, body,
                   prev, snap, gcList, history>>

DeleteManifest(r) ==
    /\ pc[r] = "release" /\ k[r] > Len(snap[r])
    /\ manifest' = [manifest EXCEPT ![prev[r]] = <<>>]
    /\ Goto(r, "row")
    /\ UNCHANGED <<files, versions, counted, refcount, locals, gcList, history>>

DeleteVersionRow(r) ==
    /\ pc[r] = "row"
    /\ versions' = versions \ {prev[r]}
    /\ Goto(r, "done")
    /\ UNCHANGED <<files, manifest, counted, refcount, locals, gcList, history>>
-----------------------------------------------------------------------------
(* GET /files/:fileId/download *)

Download(r, f) ==
    /\ pc[r] = "idle" /\ Free(host[r])
    /\ files[f] \notin {NoFile, NULL}
    /\ prev' = [prev EXCEPT ![r] = files[f]]
    /\ Goto(r, "readVersion")
    /\ UNCHANGED <<tables, host, fileOf, body, k, snap, gcList, history>>

(* getVersion, first SELECT: without a row it returns null and the handler *)
(* throws on version.chunkHashes.                                          *)
ReadVersion(r) ==
    /\ pc[r] = "readVersion"
    /\ Goto(r, IF prev[r] \in versions THEN "readManifest" ELSE "failed")
    /\ UNCHANGED <<tables, locals, gcList, history>>

ReadManifest(r) ==
    /\ pc[r] = "readManifest"
    /\ snap' = [snap EXCEPT ![r] = manifest[prev[r]]]
    /\ Goto(r, "fetch")
    /\ UNCHANGED <<tables, host, fileOf, body, prev, k, gcList, history>>

(* Every getChunk returned bytes: 200 with their concatenation. *)
Served(r) ==
    /\ pc[r] = "fetch" /\ Free(host[r])
    /\ Goto(r, "served")
    /\ UNCHANGED <<tables, locals, gcList, history>>
-----------------------------------------------------------------------------
(* Failures *)

(* A handler throws or answers 500: the quorum was missed, a statement     *)
(* failed, a chunk is unavailable.  What its statements did stays.         *)
HandlerFails(r) ==
    /\ \/ pc[r] \in Sync
       \/ pc[r] \in {"upload", "fetch"} /\ Free(host[r])
    /\ Goto(r, "failed")
    /\ UNCHANGED <<tables, locals, gcList, history>>

(* A worker process dies with every request it serves; cluster.js forks a  *)
(* new one in its place.                                                   *)
WorkerCrash(w) ==
    /\ \E r \in Req : host[r] = w /\ pc[r] \in Live
    /\ pc' = [r \in Req |-> IF host[r] = w /\ pc[r] \in Live THEN "failed" ELSE pc[r]]
    /\ UNCHANGED <<tables, locals, gcList, history>>
-----------------------------------------------------------------------------
(* runGarbageCollection *)

(* Mutant: only counts below zero are collected. *)
OrphanedBelowZero == {h \in counted : refcount[h] < 0}

(* listOrphanedChunks *)
Orphaned == {h \in counted : refcount[h] <= 0}

GcList(s) ==
    /\ gcList[s] = {} /\ Orphaned # {}
    /\ gcList' = [gcList EXCEPT ![s] = Orphaned]
    /\ UNCHANGED <<tables, pc, locals, history>>

(* The replicas were told to delete h (ObjectStore models that); now its   *)
(* row goes, whatever its refcount is by now.  History: the row may have   *)
(* been counting references.                                               *)
GcReap(s, h) ==
    /\ h \in gcList[s]
    /\ counted' = counted \ {h}
    /\ refcount' = [refcount EXCEPT ![h] = 0]
    /\ gcList' = [gcList EXCEPT ![s] = @ \ {h}]
    /\ tainted' = IF refcount[h] > 0 THEN tainted \cup {h} ELSE tainted
    /\ UNCHANGED <<files, versions, manifest, pc, locals, released>>

(* The sweep's process dies or its statement fails; the next sweep starts  *)
(* from a new list.                                                        *)
GcStop(s) ==
    /\ gcList[s] # {}
    /\ gcList' = [gcList EXCEPT ![s] = {}]
    /\ UNCHANGED <<tables, pc, locals, history>>
-----------------------------------------------------------------------------
WriterStep(r) ==
    \/ CreateFile(r) \/ InsertVersion(r) \/ InsertChunk(r) \/ BumpRefcount(r)
    \/ SetCurrent(r) \/ SelectVersion(r) \/ SelectManifest(r) \/ Decrement(r)
    \/ DeleteManifest(r) \/ DeleteVersionRow(r)

ReaderStep(r) == ReadVersion(r) \/ ReadManifest(r) \/ Served(r)

Next ==
    \/ \E r \in Req : \/ \E b \in Body : Post(r, b)
                      \/ \E f \in Req, b \in Body : Put(r, f, b)
                      \/ \E f \in Req : Download(r, f)
                      \/ Reject(r)
                      \/ WriterStep(r)
                      \/ ReaderStep(r)
                      \/ HandlerFails(r)
    \/ \E w \in Worker : WorkerCrash(w)
    \/ \E s \in Sweeper : \/ GcList(s)
                          \/ \E h \in Chunk : GcReap(s, h)
                          \/ GcStop(s)

Spec == Init /\ [][Next]_vars
-----------------------------------------------------------------------------
(* Properties *)

TypeOK ==
    /\ files \in [Req -> Req \cup {NoFile, NULL}]
    /\ versions \subseteq Req
    /\ manifest \in [Req -> Seq(Chunk)]
    /\ counted \subseteq Chunk
    /\ refcount \in [Chunk -> Int]
    /\ \A h \in Chunk \ counted : refcount[h] = 0
    /\ pc \in [Req -> Live \cup Over \cup {"idle"}]
    /\ host \in [Req -> Worker]
    /\ fileOf \in [Req -> Req \cup {NULL}]
    /\ body \in [Req -> Body]
    /\ prev \in [Req -> Req \cup {NULL}]
    /\ k \in [Req -> Nat \ {0}]
    /\ snap \in [Req -> Seq(Chunk)]
    /\ gcList \in [Sweeper -> SUBSET Chunk]
    /\ released \subseteq Req
    /\ tainted \subseteq Chunk

(* References held by manifest rows, all of them and those of versions     *)
(* some file points at.                                                    *)
CurrentVersions == {v \in Req : \E f \in Req : files[f] = v}
RowsOf(V, h) ==
    UNION {{v} \X {i \in DOMAIN manifest[v] : manifest[v][i] = h} : v \in V}

(* A file that has a current version can be read back as it was sent: the  *)
(* version's row exists and its manifest is the whole body of the request  *)
(* that committed it, whatever commits and deletes other workers are in    *)
(* the middle of and wherever earlier ones died.                           *)
CurrentIntact ==
    \A f \in Req : files[f] \in Req =>
        /\ files[f] \in versions
        /\ manifest[files[f]] = body[files[f]]

(* The refcount table never claims more references than manifest_chunks    *)
(* holds, so a row of a chunk that no manifest mentions is never above     *)
(* zero, and the next sweep lists it.                                      *)
NoOvercount ==
    \A h \in Chunk : refcount[h] <= Cardinality(RowsOf(Req, h))

(* A chunk that current versions use is counted at least that often, and   *)
(* so is not orphaned, unless its count was spoilt in one of two ways: two *)
(* handlers released the same version, or a sweep reaped a row that was    *)
(* counting references.  No other interleaving, crash or failed statement  *)
(* makes the store forget a reference.                                     *)
RefcountCoversLive ==
    \A h \in Chunk \ tainted : refcount[h] >= Cardinality(RowsOf(CurrentVersions, h))

(* Between handlers, while no handler has failed, the count of a chunk not *)
(* spoilt so is exactly its number of manifest rows: commits and releases  *)
(* cancel out, and sweeps take nothing away.                               *)
RefcountExact ==
    (\A r \in Req : pc[r] \in {"idle", "upload", "fetch", "done", "served"}) =>
        \A h \in Chunk \ tainted : refcount[h] = Cardinality(RowsOf(Req, h))

(* A download that found its version works on the manifest of the request  *)
(* that wrote it, so what it answers is the body of one upload.            *)
DownloadWhole ==
    \A r \in Req : pc[r] \in {"fetch", "served"} => snap[r] = body[prev[r]]

(* Another worker has given back the version download r reads. *)
TakenElsewhere(r) ==
    prev[r] \in released /\ \E q \in Req : prev[q] = prev[r] /\ host[q] # host[r]

(* Exactly one thing may come in between: a handler of another worker that *)
(* has replaced the version since and deleted its manifest.  The download  *)
(* then finds nothing left of it, but never part of a body.                *)
DownloadNotPartial ==
    \A r \in Req : pc[r] \in {"fetch", "served"} =>
        \/ snap[r] = body[prev[r]]
        \/ snap[r] = <<>> /\ TakenElsewhere(r)

(* What metadataStore.js says of the refcount table: a chunk that a file's *)
(* current version uses is never eligible for deletion.                    *)
ReferencedNotOrphaned ==
    \A v \in CurrentVersions : Hashes(manifest[v]) \cap Orphaned = {}

(* Every superseded version is given back by the PUT that replaced it:     *)
(* once all handlers are over and none has failed, the versions left are   *)
(* the current ones.                                                       *)
SupersededReleased ==
    (\A r \in Req : pc[r] \in {"idle", "done", "served"}) => versions = CurrentVersions

(* What the tables and the handlers amount to for clients: registers       *)
(* written in one step.                                                    *)
ContentOf(f) == IF files[f] \in Req THEN manifest[files[f]] ELSE NULL

PhaseOf(r) ==
    CASE pc[r] \in {"upload", "version", "chunk", "bump"} -> "pending"
      [] pc[r] \in {"select", "manifest", "release", "row"} -> "applied"
      [] pc[r] = "done" -> "acked"
      [] pc[r] = "failed" -> "failed"
      [] OTHER -> "new"

TargetOf(r) == IF fileOf[r] = NULL THEN r ELSE fileOf[r]

Register == INSTANCE FileRegister WITH
    Content   <- Body,
    NoContent <- NULL,
    content   <- [f \in Req |-> ContentOf(f)],
    phase     <- [r \in Req |-> PhaseOf(r)],
    target    <- [r \in Req |-> TargetOf(r)],
    payload   <- body

(* The statements of all workers together implement FileRegister: a file's *)
(* readable contents change only when one request's UPDATE of files takes  *)
(* effect, and then to that request's whole body.                          *)
ImplementsRegister == Register!Spec
=============================================================================
