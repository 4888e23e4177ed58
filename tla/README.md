# Formal models of the distributed object store

TLA+ specifications of the object store in this repository, TLC
configurations that check them on small instances, and TLAPS proofs for
arbitrary instances.  `PROJECT.json` lists the runs, the mutants every property
is tested against, the source lines each definition stands for, the hazards the
properties are aimed at and the theorems.

    tlc -workers 2 -config MetadataStore_safety.cfg MCMetadataStore
    tlapm MetadataStoreProofs.tla

## The system

| Component (source) | State | Operations | Talks to |
|---|---|---|---|
| Coordinator API (`server.js`), one Fastify process per cluster worker | none of its own | POST and PUT `/files`, download, file info, presigned download | metadata store (synchronous SQLite statements), replication coordinator (awaited HTTP), rate limiter |
| Metadata store (`metadataStore.js`) | tables `files`, `versions`, `manifest_chunks`, `chunk_refcounts`, one SQLite file shared by all processes | `createFile`, `commitVersion`, `deleteVersion`, `getVersion`, `listOrphanedChunks`, `reapOrphanedChunk` | SQLite |
| Replication coordinator (`coordinator.js`) | calls in flight | `putChunk`, `getChunk`, `deleteChunk` | storage nodes over HTTP with a 3 s timeout; the ring |
| Storage node (`storageNode.js`, `chunkStore.js`) | one file per chunk | PUT, GET, DELETE `/chunks/:hash` | its disk |
| Garbage collector (`gc.js`) | the list of orphans of one sweep | list, delete from the replicas, reap the row | metadata store, replication coordinator |
| Hash ring (`hashRing.js`) | sorted array of virtual nodes | `addNode`, `removeNode`, `preferenceList` | used by the coordinator |
| Rate limiter (`rateLimiter.js`) | a token bucket per worker and client key | `allow` | the `onRequest` hook |
| Presigning (`presign.js`) | none (an HMAC secret) | `presign`, `verifyPresigned` | two routes of `server.js`, one of which re-enters the server |
| Cluster primary (`cluster.js`) | its workers | fork, fork again on exit, kill on SIGTERM | workers |
| Chunker (`chunker.js`) | none | `chunkBuffer`, `hashChunk` | used by the upload |
| Topology, metrics, benchmarks, scripts | - | - | not modelled, see below |

What is hard about it:

* **Interleaving without transactions.**  Inside a worker, code between two
  awaits runs alone, and SQLite calls are synchronous.  Across workers and the
  collector nothing holds them apart: each SQL statement commits by itself.
* **State read before an await and used after it.**  `previousVersionId` in
  PUT, the list of orphans in a sweep.
* **Partial failure.**  A worker, a sweep or a statement may fail between any
  two statements or requests; a quorum write leaves some replicas with a chunk
  and some without; nothing is rolled back.
* **Late requests.**  A request cut off by its timeout, or left behind by a dead
  worker, may still be handled.
* **Dedup against collection.**  A chunk is shared by hash; a sweep and an
  upload of the same bytes do not know of each other.
* **File-system calls.**  A PUT is existsSync, write, rename; a GET existsSync and
  read; another process on the directory, a crash or an outage may come between
  any two, and nothing is fsynced.
* **Fetches against sweeps.**  A download reads its manifest first and fetches the
  chunks afterwards.
* **Edges.**  The ends of a body that is no multiple of the chunk size; the wrap of the ring and ties on it; a clock that is set back
  under a token bucket.

What makes each part correct: a file's current version is complete and readable
as it was sent (metadata store); a chunk in use is never collected and one not
in use eventually is (reference counts, collector); a quorum write survives what
the quorum is for (coordinator); a chunk's file is whole or not there (chunk
store); what is downloaded is what was uploaded, byte for byte (chunker and both
paths); the preference list is the clockwise walk and
changes little (ring); no bucket grants more than its allowance, or refuses
before the requests that draw on it have spent it (rate limiter); a signed URL
serves its own file, for its own time (presigning).

## Modules

| Module | Models |
|---|---|
| `MetadataStore` | the four tables and every program that runs statements on them: writers, downloads, sweeps, in any number of processes |
| `FileRegister` | abstract: a register per file that each request writes at one instant |
| `MetadataStoreProofs` | theorems about `MetadataStore`, refinement of `FileRegister` included |
| `MetadataCountProofs` | theorems about its reference counts and its downloads |
| `Coordinator` | `coordinator.js` and the storage nodes |
| `CoordinatorProofs` | theorems about `Coordinator` |
| `ChunkStore` | `chunkStore.js` under the routes of `storageNode.js`, one action per file-system call |
| `ChunkDirectory` | abstract: a directory on which each request acts at one instant, on whole chunks |
| `ChunkStoreProofs` | theorems about `ChunkStore`, refinement of `ChunkDirectory` included |
| `Chunker` | `chunker.js`, as operators |
| `ChunkerProofs` | the chunks tile the buffer, and joined they are the buffer |
| `ObjectStore` | composition of `Chunker`, `MetadataStore` and `Coordinator`: uploads, downloads and sweeps end to end |
| `ObjectStoreProofs` | theorems about `ObjectStore`, from those about its components |
| `HashRing` | `hashRing.js` |
| `HashRingProofs` | theorems about `HashRing`: the array, the search, the walk, and what a change of nodes does to a list |
| `Frontend` | rate limiter, `onRequest` hook, presigned routes |
| `FrontendProofs` | theorems about `Frontend` |
| `MC*` | constants and symmetry sets for TLC |

### MetadataStore

A statement is an action.  `pc[r]` names the statement request `r` runs next;
`Sync` is the set of labels inside a stretch without await, and `Free(w)` says
that worker `w` is in no such stretch, so that a handler starts or resumes only
then.  Other workers interleave freely.  `HandlerFails` and `WorkerCrash` may
strike at every label.  Ids are 96 random bits and taken as unique: a version
is named after the request that commits it, a file after the POST that creates
it.  A body is its list of chunk hashes, with repetitions and the empty list.
Sizes and timestamps are left out.  In this module the upload is one label
(`"upload"`), at which the handler may stay as long as it likes; `ObjectStore`
opens it up.

`refcount[h]` is 0 and `h \notin counted` where the table has no row, which is
what `getRefcount` returns; an UPDATE of a missing row has no effect
(`Decremented`).

Two history variables, which no action reads: `released`, the versions some
`deleteVersion` has begun to give back, and `tainted`, the hashes whose count
went wrong in one of the two ways found (a version released twice; a row reaped
while it counted references).  They let the properties say that there is no
third way.

### Coordinator

`putChunk` and `deleteChunk` wait for every replica (`AllSettled`) and then
look at the number of acks; `getChunk` walks the list.  A request is handled, or
fails, or times out and then stays in `late`, from where it may be handled at
any time.  A lost answer is a timeout whose request is handled late.  `late` is a
set, and a member of it stands for one or more requests that are just alike:
handling one (`LateHandled`) may leave the member there.  This admits every
behaviour in which identical requests are outstanding at once, and some in which
one is handled twice, which is sound for the safety properties.  A copy may
rot (`BitRot`); a GET of it answers 409, and bytes damaged on the way fail the
coordinator's own check.  `Abandon` is the death of calling processes.
`stored`, `clean` and `missed` are history.

### ChunkStore and ChunkDirectory

`pc[p]` is the next file-system call of the request process `p` serves; the
calls are synchronous, so within one process a request runs alone, and
interleaving takes a second process on the directory (an old one that has not
quite gone when its successor starts, say).  `writeFileSync` is two steps, so
that a partial file exists in between.  `Fails` is a call that throws, a body
that does not match its hash (422) and the death of the process, at any point.
Below the file system, `medium` is what an outage would leave: it follows `file`
at any time (`Sync`), possibly with the name and without the bytes, since
nothing is fsynced.  `ChunkDirectory` has the same interface and no temporary
files; `ChunkStore` is shown to implement it.  The atomic `Handle` of
`Coordinator` is one PUT, GET or DELETE of `ChunkDirectory` at a node that
suffers no outage.

### Chunker

A buffer is a sequence of bytes, a hash the bytes it was made of under a tag:
SHA-256 is taken as injective.  `Passes` is the set of loop iterations, `Slice`
the `subarray`, `ChunkBuffer` the descriptors.

### ObjectStore

Each action is the joint step of a handler and of the component it calls, built
from the actions of the two instances: `SendChunk` is `PutChunk` on behalf of a
request, `Statement` is a statement that waits for the upload, `SweepReap` is
`DeleteDone` and `GcReap`.  Each slot of a download's `Promise.all` is a caller
of the coordinator of its own; a slot that is rejected fails the download at
once while the others run on, one that finds no copy fails it when all are
settled.  `Reply` is `Buffer.concat(parts)`.

Three history variables: `upload`, the bytes a client sent; `exposed`, the
requests during whose upload or commit a sweep had one of their chunks listed or
a DELETE of it was on its way; `leaky`, the chunks of which a copy may be left
that no row counts: a writer of it failed or died, a PUT of it outlived its
caller, a sweep reaped it although a replica had not confirmed the DELETE, or a
commit counted it while a sweep had it listed.  `SpaceAccounted` says that there
is no fifth way.  The fourth takes four requests: a sweep deletes an orphan from
the replicas, an upload of the same bytes is committed, its version is replaced
and released, and only then does the sweep reap the row, which is back at zero.
The proof of `SpaceAccounted` could not be finished without it, and TLC, given
four requests, shows the behaviour.  Bit rot is left to `Coordinator`.

### HashRing

Where SHA-1 puts virtual nodes is arbitrary, so `pos` is chosen in `Init` and
ties are allowed.  `Sorted` (a stable sort) and `Without` (a filter) give each
entry the place that the number of entries before it says.  `LowerBound` is the
binary search as written, a recursive function of the pair of `lo` and `hi`.
`Turn` is the array as the loop of `preferenceList` reads it, `Walk` inside
`PreferenceList` the list after each iteration; an iteration past the early stop
changes nothing.  The properties compare all this with clockwise distance, a
definition that mentions neither the array nor the search.

### Frontend

Tokens are counted in thousandths so that refilling is integer arithmetic, as
elapsed milliseconds times `refillPerSecond`.  The clock moves both ways.  The
hook and the handler are separate steps, and so is the injected request of a
presigned download.  `Charge` takes every `allow`: the hook's for a request, on
its `client`, and the hook's for an injected one, on `Local`, the loopback
address.  A client on the server's host that sends no `x-client-id` has that key
as well, so `Local` may be one of the clients, and is in `frontend_limits`.

An HMAC stands for the payload it was made from (`Sign`: path and expiry; both
call sites use the method GET, and there is no presigned upload).  The query of a
presigned request combines any signature handed out with any expiry, or has no
signature, and its path is any file's; `Verified` compares as `verifyPresigned` does.

`granted` and `born` are history since a bucket was created; `full`, `own` and
`relayed` since it was last found full: when that was, and how many requests of
the key itself and how many injected ones it has granted since.

## Runs

Passing:

| Run | Instance | Shows |
|---|---|---|
| `metadata_safety` | 3 requests, 2 workers, 1 sweep, 2 chunks, bodies up to 2 | `CurrentIntact`, `NoOvercount`, `RefcountCoversLive`, `RefcountExact`, `DownloadNotPartial`, `ImplementsRegister` |
| `coordinator_quorum` | 3 nodes, W = 2, 2 calls, 1 late request | `StoredHeld`, `ReadsSurvive` |
| `store_held` | 3 requests, 1 worker, 1 sweep, 2 nodes, W = 2, 1 late request, bodies of 0 and 1 chunk | `UnexposedHeld`, `SpaceAccounted`, `DownloadSurvives` |
| `store_transfer` | 2 requests, 1 worker, 1 sweep, 2 nodes, W = 1, bodies of 0 and 3 bytes in chunks of 2, fair | `ServedAsSent`; `RequestsEnd`, `OrphansReaped` |
| `chunk_store` | 3 processes, 2 chunks | `ImplementsDirectory` |
| `ring_walk` | 3 nodes with 2 virtual nodes each on 5 positions | `NearestFirst`, `MinimalDisruption` |
| `frontend_limits` | 3 requests, a remote and a loopback client, 2 files, capacity 4, cost 3, refill 2, URLs good for 1 tick, clock 0..2 | `RateBound`, `RefusedHasSpent`; `PresignedInTime` |

Where the code does not do what a comment or the README says:

| Run | Shows |
|---|---|
| `upload_sweep_race` | A sweep lists an orphan, a client uploads the same bytes (acknowledged by dedup) and commits, the sweep deletes them: a current version has a chunk on no replica. |
| `double_release` | Two PUTs of a file in two workers both decrement the version they replaced: a chunk in use has count 0. |
| `lost_update` | Two overlapping PUTs in one worker replace the same version; the one published first is superseded but never released (the trace's bodies are empty; with chunks, their counts stay). |
| `torn_download` | A download reads a version's row, another worker deletes its manifest, the download answers 200 with no bytes. |
| `shared_bucket` | A client with allowance left is answered 429 because two others' presigned downloads emptied the loopback bucket; no crash is needed. |

Six more were met while modelling and have no run of their own.
(1) `reapOrphanedChunk` removes a row whatever its count is by then, so a row a
commit has just counted up is lost; `tainted` records it.
(2) `putChunk` waits for all replicas (`AllSettled`, `coordinator.js:105`),
although the comment above it says that it does not wait for the slowest.
(3) A node acknowledges a PUT of a chunk whose copy on its disk is corrupt
(`AfterPut`) and keeps that copy.
(4) A sweep reaps a row even if the DELETE of a replica failed (`SweepReap`),
and nothing will look for those bytes again; `leaky` records it.
(5) A sweep may also reap a row that was counted anew and given back since its
DELETEs, and leave the copies of the second upload (`leaky`, fourth case).
(6) A node answers 201 before anything is on its medium (`Outage` in
`ChunkStore`), although `storageNode.js:9` says that it stores durably: a power
loss of W nodes can undo an acknowledged upload.

### Bounds, and why they are enough

* Three requests are the least that contain a file's creation and two writers,
  or a writer and a reader, of it; two workers the least with cross-process
  interleaving; one sweep next to them shows every overlap of a sweep with a
  commit or a release.  Bodies of two chunks contain repetitions of a hash,
  bodies over two hashes the replacement of one by another.  The proofs cover
  any numbers for what they state.
* Three nodes and W = 2 are the defaults of `topology.js`.  `MaxLate` bounds the
  requests that outlive their callers at any one time, not in all.
* In `store_held` W = 2 on two nodes: every copy counts, so that a single one
  lost violates `UnexposedHeld`.  Three requests are a creation, a replacement
  that orphans the chunk, and an upload or a download that meets the sweep.
  They are in one worker, where they interleave at every await, with timeouts
  and late requests; what a second worker adds, two handlers interleaved between
  statements, is in `metadata_safety`.
* In `store_transfer` W = 1, so that a chunk may be on one of the replicas only
  and a fetch has to walk.  The body of 3 bytes has a full and a partial chunk,
  all bytes different, so that order matters.  Two requests are enough to upload
  and download, or to upload, replace and sweep; late requests (`MaxLate = 0`)
  change no handler's progress and are left to `store_held`.
* In `chunk_store` two processes race and a third may delete or read under them;
  the proof covers any number.
* `Size = 5` with six virtual nodes forces ties and wraps in most placements;
  every placement is an initial state.
* `MaxNow` bounds the clock, not the number of times it moves.  In
  `frontend_limits` the capacity is not a multiple of the cost, so remainders
  occur, and a third request finds the loopback bucket drawn on by an injected
  one.  The clock goes past the expiry of a URL handed out at its start, and the
  two files and the expiries up to the end of time let a query be altered in
  either.
  Buckets of different workers share nothing, and all workers sign with the same
  secret, so one worker is enough.
* Symmetry is used in safety runs only.  Requests, workers, chunks, calls,
  clients (but for the loopback address), files and processes are interchangeable
  in every definition; nodes are not, as a read asks them in the order of the
  preference list.

Some properties leave room for what the findings show.  `RefcountCoversLive` and
`RefcountExact` make an exception of `tainted` counts, `UnexposedHeld` of
`exposed` requests, `SpaceAccounted` of `leaky` chunks, and `StoredHeld` of a put
that met a delete: they say that nothing else goes wrong.  The exceptions
themselves are what `ReferencedNotOrphaned` and `ReferencedHeld` refute.  That a
download which a replacement overtakes still serves whole bodies
(`ServedAsSent`) takes three requests and more than `store_transfer` has; the
theorem `RepliesAreUploads` covers it.

`CHECK_DEADLOCK FALSE` stands where requests are finite in number and the system
may come to rest (`MetadataStore`, `ObjectStore`, `Frontend`).  `Coordinator`,
`ChunkStore` and `HashRing` are checked for deadlock.

### Fairness

Stated in `ObjectStore`, for `store_transfer`:

* Weak fairness for each request: if its handler can take a step, or a replica
  it waits for can answer, fail or be given up, one of these happens in the end.
  The event loop runs what is ready, SQLite's busy wait either gets its turn or
  fails, which ends the handler too, and `AbortSignal.timeout` gives every HTTP
  request an outcome.  Nothing is assumed of the nodes.
* Weak fairness for each collector's steps: `k8s/coordinator-deployment.yaml`
  runs it in an endless loop.  Sweeps are killed only finitely often; a collector
  that always dies before it comes to a chunk refutes `OrphansReaped`.

## Proofs

`MetadataStoreProofs`, for any sets of requests (finite), workers, sweepers,
chunks and bodies, from `ConstantsAssumption`:

* **TypeCorrect**: `Spec => []TypeOK`, with `LocalsOK` to make it inductive:
  what a handler's variables hold depends on its label.
* **CurrentStaysIntact**: `Spec => []CurrentIntact`.  Not inductive: it says
  nothing of the versions about to become current or about to be deleted.  The
  invariant `Inv` adds that a handler that is committing has copied exactly the
  prefix of its body that its loop counter says (`Building`), that the previous
  version a writer holds is settled (its own commit is over) and of the same
  file, and current in no file once it is being released (`Superseding`), and
  that the version a file points at has its row and its whole manifest, belongs
  to that file and is settled (`Published`).  The heart of the argument is that a version is written by one
  request only, which publishes it last, and released only by requests that
  found it current before and have replaced it since.  The two other things one
  might expect here, that it is released once and that somebody releases it, do
  not hold; they are the findings `double_release` and `lost_update`.
* **ImplementsFileRegister**: `Spec => ImplementsRegister`, by the refinement
  mapping `ContentOf`, `PhaseOf`, `TargetOf`: `SetCurrent` is the one step that
  maps to `Apply`, and every other step maps to a step that leaves the contents
  alone or to a stutter.  `BInv` adds that a file
  has no row before its POST creates it and has one from then on.

`MetadataCountProofs`, for the same constants and from the same assumption:

* **DownloadsStayWhole**: `Spec => []DownloadNotPartial`.  A download reads the
  version's row and its manifest in one stretch of its worker, so the invariant
  (`DInv`) says that no two handlers of a worker are both inside such a stretch
  (`Alone`) and what a download will find or has found of its version (`Reads`).
  Whoever deletes the manifest in between runs in another worker.
* **NeverOvercounts**: `Spec => []NoOvercount`, and **LiveIsCovered**:
  `Spec => []RefcountCoversLive`.  Neither is inductive, since a count and the
  rows it stands for change in different statements.  The proof keeps the count
  of a chunk between two sets of manifest rows: at most the rows inserted and
  bumped and not given back yet (`Net`), at least the rows somebody relies on or
  will give back (`Owed`, for untainted chunks).  Each statement moves a row in or
  out of these sets as it moves the counter, one at a time.  `RInv` makes this
  work: a handler in the loop of `deleteVersion` works on the manifest as it was,
  and is the only one on these rows unless their counts are tainted.
* **QuietCountsAreExact**: `Spec => []RefcountExact`.  With no handler under way
  the two sets are the same.

`CoordinatorProofs`, for any nodes, chunks, callers, injective preference lists
and quorum size, even one larger than the lists (`CoordinatorAssumption`), and
any number of late requests:

* **TypeCorrect**: `Spec => []TypeOK`.
* **StoredStaysHeld**: `Spec => []StoredHeld`.  Not inductive: it does not say
  that no DELETE of the chunk is left anywhere, nor that the nodes a put has
  counted still hold the chunk when it returns.  `HoldInv` adds both (`Kept`,
  `Acked`) and that a call waits for replicas of its chunk only (`Waits`).  Only
  a DELETE takes a copy away, and a chunk that is stored or cleanly being put
  has none on its way.
* **ReadsStaySafe**: `Spec => []ReadsSurvive`.  `ReadInv` says of a read in
  progress that there is a set of W replicas that hold the chunk and of which
  those already passed have all failed the read.  It must be a set fixed when
  the read began: a late PUT may add a copy on a replica the walk has passed.

`ChunkStoreProofs`, for any processes and chunks:

* **TypeCorrect**: `Spec => []TypeOK`.
* **ImplementsAtomicDirectory**: `Spec => ImplementsDirectory`, with the identity
  as refinement mapping (temporary files and `pc` are dropped).  A request takes
  effect at its last call; earlier ones map to stutters.  `Stage` makes it
  inductive: the next call belongs to the request's kind, and a temporary file
  about to be renamed is whole, which holds because nobody else has its name.

`ChunkerProofs`, for any chunk size but 0 and any buffer:

* **ChunksTile**: chunk `j` is the bytes from `(j - 1) * ChunkSize` on, full if
  another follows and up to the end if not, never empty, without a gap before
  it.
* **ChunksJoin**: `FlattenSeq` of the bytes behind `ChunkHashes(buf)` is `buf`.
  `FlattenSeq` is recursive; `FlattenByPieces` shows that it agrees with the
  prefixes of the buffer by the smallest argument at which the two could differ.
  That there is a smallest one is `LeastNatural`, from the library's
  well-foundedness of `<`.

`ObjectStoreProofs`, from `StoreAssumption`: any finite set of requests, any
workers, collectors, nodes, chunk size, quorum and bodies of any length (the
empty one among them), injective preference lists.  The theorems about
`MetadataStore` and `Coordinator` are taken in through INSTANCE:

* **StoreRefinesComponents**: every step is a step or a stutter of each component.
  What is proved of a component alone therefore holds in the composition.  Not
  immediate in one place only: a sweep that dies between two deletes has no call
  to abandon, and leaves no trace in the coordinator (`Resting`).
* **CurrentStaysHeld** and **DownloadsSurvive**: `StoreInv` has the invariants of
  both components (`MetaInv`, `CoordInv`), which caller makes which call and how
  far it is (`HandlerInv`), and `SafeInv`, which ties the two together.  A writer
  that met no sweep has its chunks so far stored and none of them being swept
  (`Sheltered`).  When its version becomes known this turns into the same about
  the version's manifest (`Safe`), and lasts, because a sweep lists only chunks
  of count zero, and those of a known version that nobody releases are `Owed`
  and count at least one.  A fetch of such a version began on a stored chunk and meets
  no delete (`SafeFetch`), which is what `ReadsStaySafe` asks for.
* **SpaceStaysAccounted**: `SpaceInv` adds that late PUTs are of leaky chunks and
  what a sweep has behind it at any time (`Cleared`): each replica whose answer it
  has counted is without a copy, or a writer that has yet to count the chunk has
  put one back.
* **RepliesAreUploads**: `ReplyInv` adds that a request's body is the hash list of
  the bytes it was sent (`Cut`) and that each slot is an entry of the manifest
  (`Collected`); `DownloadsStayWhole` says whose manifest it is and `ChunksJoin`
  what comes out.

`FrontendProofs`, for any constants that satisfy `FrontendAssumption`:

* **TypeCorrect**.
* **RateIsBounded** and **RefusalIsEarned**, the two sides of the account, for
  every key, the loopback address included, whether or not it is also a
  client's.  `RateBound` is inductive together with `Unused` (a key without a
  bucket has been granted nothing).  `RefusedHasSpent` follows from `Account`: a
  bucket holds at least what is left of its capacity and of the time credited
  since it was last full when the requests that draw on it are paid for.  The
  arithmetic rests on `lastRefill` moving forward only, and on a refill that
  adds the whole elapsed time unless it fills the bucket (`AvailableSum`).
* **PresignedIsInTime**, an action property.  It needs `SignedIssued`: a
  signature that came with a request was handed out, and so carries the file and
  the expiry of a URL the server issued.

`HashRingProofs`, from `RingAssumption`: any finite set of nodes, any number of
virtual nodes and of positions, any placement of the one on the other with any
coincidences, and any series of joins and departures:

* **TypeCorrect**: `Spec => []TypeOK`.  The invariant `Inv` states the order
  between any two entries, not only neighbours.  `RankPlaces` shows that counting
  the predecessors in a finite total order numbers the elements, so that `Sorted`
  permutes the entries and `Without` keeps the others in order.  From this,
  a join or a departure of `x` makes one array the other without the entries of
  `x` (`Embedded`), and the entries of every node are counted along a bijection.
* **PreferenceListNearestFirst**: `Spec => []NearestFirst`.  A sorted array has
  exactly one place that splits it at a position (`Splits`); that the search
  returns it is shown for all its windows at once, by the shortest window at
  which it could fail (`SearchFinds`).  From there the walk meets the entries at or
  behind the key first and then the others, each part in order (`TurnOrder`).
  The walk is a recursive function, so that it has a solution at all has to be
  shown (`RecursionExists`); `Walked` is its loop invariant: what it has
  collected comes first, in order, and unless the list is full nothing
  met so far is missing.  `Lists` is the result in terms of the array: the nodes
  by the first entry of each that is met (`Ahead`).  Met sooner is no farther.
* **ChangesDisruptLittle**: `Spec => MinimalDisruption`.  An embedding keeps
  who is ahead of whom among the nodes other than `x`, and a node's index in a
  list is the number of nodes met no later (`ListsRank`).  A node of the longer
  list has at most `n` such nodes without `x` as well, so the shorter array's list
  cannot be full before it.

That a list names no node twice is what `CoordinatorAssumption` and
`StoreAssumption` ask of `Pref`.

Only model-checked: `RequestsEnd` and `OrphansReaped`, since liveness under
fairness is out of the prover's reach.  Inductions over data are by the least
counterexample (`LeastNatural`, from the library's well-foundedness of `<`),
because the provers cannot instantiate the library's induction theorems.

## Not modelled

* `topology.js`: environment parsing; its result is the constants `Node` and `W`.
* `metrics.js`: counters nothing in the program reads; the sweep's report too.
* The file-info route, `/health`, `/stats`, `/metrics`: they change nothing.
* Temporary files left behind by a dead process: nothing reads or removes them.
* Changes of the ring while the store runs: the program has none, every process
  builds the ring once from its environment.
* Benchmarks and scripts: load generators and a launcher.
* Hash collisions, and ids that repeat.

## Plan

Done: every component that keeps state is modelled and has proofs
(`MetadataStore`, `Coordinator`, `ChunkStore`, `Chunker`, `Frontend`, `HashRing`),
and so has the composition of the data path, `ObjectStore`.  Every safety and
action property that a run checks is proved; liveness is model-checked.

Left for later: the ring's lists as the `Pref` of the composition by INSTANCE
rather than as a constant with its assumption, and a ring that changes while the
store runs, once the program has one.
