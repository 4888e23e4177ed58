---------------------------- MODULE Coordinator ----------------------------
(***************************************************************************)
(* coordinator.js and the storage nodes it talks to (storageNode.js on     *)
(* chunkStore.js): putChunk and deleteChunk fan out to every node of the   *)
(* chunk's preference list and wait for all of them, getChunk walks the    *)
(* list until a replica returns bytes that hash-check.                     *)
(*                                                                         *)
(* A request to a node is handled and answered in one step; it is refused, *)
(* lost or answered with an error (RequestFails), or the 3 s timeout cuts  *)
(* it off while it may still be handled later (RequestTimesOut, then       *)
(* LateHandled or LateLost).  A request whose answer is lost is one that   *)
(* times out and is handled late.                                          *)
(***************************************************************************)
EXTENDS Naturals, Sequences, FiniteSets

CONSTANTS Node,         \* storage nodes
          Chunk,        \* chunk hashes
          Call,         \* callers, each with at most one call at a time
          Pref,         \* Pref[h]: ring.preferenceList(h, n)
          W,            \* writeQuorum
          MaxLate       \* bound on the requests that outlive their timeout at a time

ASSUME CoordinatorAssumption ==
    /\ Pref \in [Chunk -> Seq(Node)]
    /\ \A h \in Chunk : \A i, j \in DOMAIN Pref[h] : Pref[h][i] = Pref[h][j] => i = j
    /\ W \in Nat                        \* nothing keeps it below the number of replicas

VARIABLES
    disk,       \* disk[n][h]: "absent", "good" or "corrupt"
    op,         \* op[c]: the call c has open, "none", or how its last get failed
    chunkOf,    \* chunkOf[c]: its hash argument
    wait,       \* wait[c]: put, delete: the nodes whose result is still awaited
    acks,       \* acks[c]: put, delete: the nodes that answered ok
    i,          \* i[c]: get: position in the preference list
    reason,     \* reason[c]: get: lastReason
    late,       \* PUTs and DELETEs no caller waits for and a node may still handle
    \* History, read by properties only:
    stored,     \* chunks put successfully with no delete in the way, then or since
    clean,      \* clean[c]: c's chunk has met no delete since c's call began
    missed      \* missed[c]: the nodes that failed c's get for want of a good answer

calls == <<op, chunkOf, wait, acks, i, reason>>
history == <<stored, clean, missed>>
vars == <<disk, calls, late, history>>

Replicas(h) == {Pref[h][j] : j \in DOMAIN Pref[h]}
Open == {"put", "get", "delete"}
Holders(h) == {n \in Replicas(h) : disk[n][h] # "absent"}

(* A DELETE of h is on its way. *)
Deleting(h) == \/ \E c \in Call : op[c] = "delete" /\ chunkOf[c] = h
               \/ \E n \in Node : <<"delete", n, h>> \in late

Init == /\ disk = [n \in Node |-> [h \in Chunk |-> "absent"]]
        /\ op = [c \in Call |-> "none"]
        /\ chunkOf \in [Call -> Chunk]
        /\ wait = [c \in Call |-> {}]
        /\ acks = [c \in Call |-> {}]
        /\ i = [c \in Call |-> 1]
        /\ reason = [c \in Call |-> "no_replicas_configured"]
        /\ late = {}
        /\ stored = {}
        /\ clean = [c \in Call |-> FALSE]
        /\ missed = [c \in Call |-> {}]
-----------------------------------------------------------------------------
(* Storage node: what one request does to a node's chunk store *)

(* ChunkStore.put: an existing file, whatever its bytes, is left as it is. *)
AfterPut(x) == IF x = "absent" THEN "good" ELSE x

Handle(kind, n, h) ==
    disk' = [disk EXCEPT ![n][h] = IF kind = "put" THEN AfterPut(@) ELSE "absent"]

(* A copy's bytes change on disk. *)
BitRot(n, h) ==
    /\ disk[n][h] = "good"
    /\ disk' = [disk EXCEPT ![n][h] = "corrupt"]
    /\ UNCHANGED <<calls, late, history>>
-----------------------------------------------------------------------------
(* Calls *)

Begin(c, kind, h) ==
    /\ op[c] \notin Open
    /\ op' = [op EXCEPT ![c] = kind]
    /\ chunkOf' = [chunkOf EXCEPT ![c] = h]
    /\ wait' = [wait EXCEPT ![c] = IF kind = "get" THEN {} ELSE Replicas(h)]
    /\ acks' = [acks EXCEPT ![c] = {}]
    /\ i' = [i EXCEPT ![c] = 1]
    /\ reason' = [reason EXCEPT ![c] = "no_replicas_configured"]
    /\ missed' = [missed EXCEPT ![c] = {}]
    /\ UNCHANGED <<disk, late>>

PutChunk(c, h) ==
    /\ Begin(c, "put", h)
    /\ clean' = [clean EXCEPT ![c] = ~Deleting(h)]
    /\ UNCHANGED stored

GetChunk(c, h) ==
    /\ Begin(c, "get", h)
    /\ clean' = [clean EXCEPT ![c] = h \in stored]
    /\ UNCHANGED stored

DeleteChunk(c, h) ==
    /\ Begin(c, "delete", h)
    /\ stored' = stored \ {h}
    /\ clean' = [d \in Call |-> clean[d] /\ d # c /\ chunkOf[d] # h]

(* The call returns or throws and its local state is gone. *)
End(c, outcome) ==
    /\ op' = [op EXCEPT ![c] = outcome]
    /\ acks' = [acks EXCEPT ![c] = {}]
    /\ i' = [i EXCEPT ![c] = 1]
    /\ reason' = [reason EXCEPT ![c] = "no_replicas_configured"]
    /\ UNCHANGED <<disk, chunkOf, wait, late, clean, missed>>

(* A node handles c's PUT (200 or 201) or DELETE (200) and c hears of it. *)
RequestHandled(c, n) ==
    /\ n \in wait[c]
    /\ Handle(op[c], n, chunkOf[c])
    /\ wait' = [wait EXCEPT ![c] = @ \ {n}]
    /\ acks' = [acks EXCEPT ![c] = @ \cup {n}]
    /\ UNCHANGED <<op, chunkOf, i, reason, late, history>>

(* Connection refused, 5xx, or 422 for bytes that arrive damaged. *)
RequestFails(c, n) ==
    /\ n \in wait[c]
    /\ wait' = [wait EXCEPT ![c] = @ \ {n}]
    /\ UNCHANGED <<disk, op, chunkOf, acks, i, reason, late, history>>

RequestTimesOut(c, n) ==
    /\ n \in wait[c]
    /\ wait' = [wait EXCEPT ![c] = @ \ {n}]
    /\ late' = late \cup {<<op[c], n, chunkOf[c]>>}
    /\ Cardinality(late') <= MaxLate
    /\ UNCHANGED <<disk, op, chunkOf, acks, i, reason, history>>

(* A member of late stands for one or more requests that are just alike,   *)
(* so another may be outstanding when one has been dealt with.             *)
LateHandled(kind, n, h) ==
    /\ <<kind, n, h>> \in late
    /\ late' \in {late, late \ {<<kind, n, h>>}}
    /\ Handle(kind, n, h)
    /\ UNCHANGED <<calls, history>>

LateLost(kind, n, h) ==
    /\ <<kind, n, h>> \in late
    /\ late' = late \ {<<kind, n, h>>}
    /\ UNCHANGED <<disk, calls, history>>

(* Mutant: off by one in the quorum test. *)
QuorumShort(c) == Cardinality(acks[c]) + 1 >= W

(* acks.length < this.w is false *)
Quorum(c) == Cardinality(acks[c]) >= W

(* Mutant: the call returns while requests are still open. *)
SettledEarly(c) == TRUE

(* Promise.all: the results are looked at once every node has one. *)
AllSettled(c) == wait[c] = {}

PutOk(c) ==
    /\ op[c] = "put" /\ AllSettled(c) /\ Quorum(c)
    /\ End(c, "none")
    /\ stored' = IF clean[c] THEN stored \cup {chunkOf[c]} ELSE stored

PutFailed(c) ==
    /\ op[c] = "put" /\ AllSettled(c) /\ ~Quorum(c)
    /\ End(c, "none")
    /\ UNCHANGED stored

DeleteDone(c) ==
    /\ op[c] = "delete" /\ AllSettled(c)
    /\ End(c, "none")
    /\ UNCHANGED stored
-----------------------------------------------------------------------------
(* getChunk *)

(* Mutant: a damaged copy ends the walk instead of advancing it. *)
WalkOnUnlessCorrupt(c, why) ==
    IF why = "corrupt" THEN Len(Pref[chunkOf[c]]) + 1 ELSE i[c] + 1

(* Mutant: a replica that fails is asked again unless it answered 404. *)
WalkRetries(c, why) == IF why = "not_found" THEN i[c] + 1 ELSE i[c]

(* Every failure advances to the next replica. *)
WalkOn(c, why) == i[c] + 1

(* What GET /chunks/:hash may yield for a copy in state x: 404, 409 or the *)
(* bytes; damaged bytes fail the coordinator's own hash check.             *)
GetFailure(x) ==
    {"network_error"} \cup CASE x = "absent"  -> {"not_found"}
                             [] x = "corrupt" -> {"corrupt"}
                             [] x = "good"    -> {"integrity_mismatch"}

TryReplica(c) == op[c] = "get" /\ i[c] <= Len(Pref[chunkOf[c]])

GetServed(c) ==
    /\ TryReplica(c)
    /\ disk[Pref[chunkOf[c]][i[c]]][chunkOf[c]] = "good"
    /\ End(c, "none")
    /\ UNCHANGED stored

GetAdvances(c, why) ==
    /\ TryReplica(c)
    /\ LET n == Pref[chunkOf[c]][i[c]] IN
         /\ why \in GetFailure(disk[n][chunkOf[c]])
         /\ missed' = [missed EXCEPT ![c] =
                         IF why = "not_found" THEN @ ELSE @ \cup {n}]
    /\ i' = [i EXCEPT ![c] = WalkOn(c, why)]
    /\ reason' = [reason EXCEPT ![c] = why]
    /\ UNCHANGED <<disk, op, chunkOf, wait, acks, late, stored, clean>>

(* The list is exhausted: null after a 404 from the last replica, else     *)
(* ChunkUnavailableError.                                                  *)
GetExhausted(c) ==
    /\ op[c] = "get" /\ i[c] > Len(Pref[chunkOf[c]])
    /\ End(c, IF reason[c] = "not_found" THEN "missing" ELSE "unavailable")
    /\ UNCHANGED stored

(* The processes of calls C die; their requests may still reach the nodes. *)
Abandon(C) ==
    /\ op' = [c \in Call |-> IF c \in C THEN "none" ELSE op[c]]
    /\ wait' = [c \in Call |-> IF c \in C THEN {} ELSE wait[c]]
    /\ acks' = [c \in Call |-> IF c \in C THEN {} ELSE acks[c]]
    /\ i' = [c \in Call |-> IF c \in C THEN 1 ELSE i[c]]
    /\ reason' = [c \in Call |-> IF c \in C THEN "no_replicas_configured" ELSE reason[c]]
    /\ \E L \in SUBSET UNION {{<<op[c], n, chunkOf[c]>> : n \in wait[c]} : c \in C} :
          late' = late \cup L
    /\ Cardinality(late') <= MaxLate
    /\ UNCHANGED <<disk, chunkOf, history>>
-----------------------------------------------------------------------------
Reasons == {"network_error", "not_found", "corrupt", "integrity_mismatch"}

(* What happens at and between the nodes, whoever calls. *)
NodeStep ==
    \/ \E c \in Call, n \in Node :
          RequestHandled(c, n) \/ RequestFails(c, n) \/ RequestTimesOut(c, n)
    \/ \E kind \in {"put", "delete"}, n \in Node, h \in Chunk :
          LateHandled(kind, n, h) \/ LateLost(kind, n, h)

CallStep(c) ==
    \/ PutOk(c) \/ PutFailed(c) \/ DeleteDone(c) \/ GetServed(c) \/ GetExhausted(c)
    \/ \E why \in Reasons : GetAdvances(c, why)

Next ==
    \/ NodeStep
    \/ \E n \in Node, h \in Chunk : BitRot(n, h)
    \/ \E C \in (SUBSET {c \in Call : op[c] \in Open}) \ {{}} : Abandon(C)
    \/ \E c \in Call : \/ \E h \in Chunk : PutChunk(c, h) \/ GetChunk(c, h) \/ DeleteChunk(c, h)
                       \/ CallStep(c)

Spec == Init /\ [][Next]_vars
-----------------------------------------------------------------------------
(* Properties *)

TypeOK ==
    /\ disk \in [Node -> [Chunk -> {"absent", "good", "corrupt"}]]
    /\ op \in [Call -> Open \cup {"none", "missing", "unavailable"}]
    /\ chunkOf \in [Call -> Chunk]
    /\ wait \in [Call -> SUBSET Node]
    /\ acks \in [Call -> SUBSET Node]
    /\ \A c \in Call : wait[c] # {} => op[c] \in {"put", "delete"}
    /\ i \in [Call -> Nat \ {0}]
    /\ reason \in [Call -> Reasons \cup {"no_replicas_configured"}]
    /\ late \subseteq {"put", "delete"} \X Node \X Chunk
    /\ stored \subseteq Chunk
    /\ clean \in [Call -> BOOLEAN]
    /\ missed \in [Call -> SUBSET Node]

(* A chunk whose put reached its quorum is on at least W replicas, and     *)
(* stays there through lost answers, timeouts and late PUTs, as long as no *)
(* delete of it overlapped the put or was begun since.                     *)
StoredHeld == \A h \in stored : Cardinality(Holders(h)) >= W

(* Such a chunk can be read while fewer than W replicas are unreachable or *)
(* damaged: a get of it that fails has met W of them.                      *)
ReadsSurvive ==
    \A c \in Call : clean[c] /\ op[c] \in {"missing", "unavailable"} =>
        Cardinality(missed[c]) >= W
=============================================================================
