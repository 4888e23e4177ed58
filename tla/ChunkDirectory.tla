--------------------------- MODULE ChunkDirectory ---------------------------
(***************************************************************************)
(* What a storage node's chunk store promises, without temporary files:    *)
(* PUT, GET and DELETE of a chunk each take effect at one instant, on      *)
(* whole chunks, or not at all.  The promise ends at the operating system: *)
(* a change reaches the medium some time after it was made, maybe in part, *)
(* and an outage takes the directory back to what the medium holds.        *)
(***************************************************************************)
CONSTANTS Proc,         \* processes that serve requests on the directory
          Chunk         \* chunk hashes

VARIABLES dir,          \* dir[h]: "absent", "good" or "corrupt"
          medium,       \* medium[h]: what an outage would leave of it
          kind, hash,   \* kind[p], hash[p]: the request p serves
          reply         \* reply[p]: "open" until p has answered it

vars == <<dir, medium, kind, hash, reply>>

Kind == {"put", "get", "delete"}
Copy == {"absent", "good", "corrupt"}

Init == /\ dir = [h \in Chunk |-> "absent"]
        /\ medium = [h \in Chunk |-> "absent"]
        /\ kind \in [Proc -> Kind]
        /\ hash \in [Proc -> Chunk]
        /\ reply = [p \in Proc |-> "none"]

Invoke(p) ==
    /\ reply[p] # "open"
    /\ \E x \in Kind : kind' = [kind EXCEPT ![p] = x]
    /\ \E h \in Chunk : hash' = [hash EXCEPT ![p] = h]
    /\ reply' = [reply EXCEPT ![p] = "open"]
    /\ UNCHANGED <<dir, medium>>

(* A copy that is there already may be kept, damaged or not, or replaced. *)
Put(p) ==
    /\ kind[p] = "put"
    /\ \E x \in {"good", dir[hash[p]]} \ {"absent"} : dir' = [dir EXCEPT ![hash[p]] = x]
    /\ reply' = [reply EXCEPT ![p] = "stored"]

Get(p) ==
    /\ kind[p] = "get"
    /\ reply' = [reply EXCEPT ![p] = CASE dir[hash[p]] = "absent"  -> "not_found"
                                       [] dir[hash[p]] = "good"    -> "bytes"
                                       [] OTHER -> "corrupt"]
    /\ UNCHANGED dir

Delete(p) ==
    /\ kind[p] = "delete"
    /\ dir' = [dir EXCEPT ![hash[p]] = "absent"]
    /\ reply' = [reply EXCEPT ![p] = "deleted"]

Answer(p) == /\ reply[p] = "open"
             /\ Put(p) \/ Get(p) \/ Delete(p)
             /\ UNCHANGED <<medium, kind, hash>>

(* A request that fails has changed nothing. *)
Fail(p) == /\ reply[p] = "open"
           /\ reply' = [reply EXCEPT ![p] = "error"]
           /\ UNCHANGED <<dir, medium, kind, hash>>

(* A file's name may reach the medium before its bytes. *)
Sync(h) == /\ medium[h] # dir[h]
           /\ \E x \in {dir[h]} \cup (IF dir[h] = "good" THEN {"corrupt"} ELSE {}) :
                 medium' = [medium EXCEPT ![h] = x]
           /\ UNCHANGED <<dir, kind, hash, reply>>

Decay(h) == /\ dir[h] = "good"
            /\ dir' = [dir EXCEPT ![h] = "corrupt"]
            /\ medium' = [medium EXCEPT ![h] = IF @ = "good" THEN "corrupt" ELSE @]
            /\ UNCHANGED <<kind, hash, reply>>

Outage == /\ dir' = medium
          /\ reply' = [p \in Proc |-> IF reply[p] = "open" THEN "error" ELSE reply[p]]
          /\ UNCHANGED <<medium, kind, hash>>

Next == \/ \E p \in Proc : Invoke(p) \/ Answer(p) \/ Fail(p)
        \/ \E h \in Chunk : Sync(h) \/ Decay(h)
        \/ Outage

Spec == Init /\ [][Next]_vars
=============================================================================
