----------------------------- MODULE ChunkStore -----------------------------
(***************************************************************************)
(* chunkStore.js under the routes of storageNode.js, at the level of the   *)
(* file-system calls each request makes.  They are synchronous, so a       *)
(* process serves one request at a time; another process on the same       *)
(* directory, or the process's death, may come between any two of them.    *)
(*                                                                         *)
(* A temporary file has a name of its own (pid and random bytes); one that *)
(* is left behind is never looked at again and is not kept in the state.   *)
(***************************************************************************)
CONSTANTS Proc,         \* storage-node processes on one data directory
          Chunk         \* chunk hashes

VARIABLES
    file,       \* file[h]: what is under the chunk's name: "absent", "good", "corrupt"
    medium,     \* medium[h]: what an outage would leave there
    tmp,        \* tmp[x]: the temporary file x: "none", "partial" or "whole"
    pc,         \* pc[p]: the next file-system call of p's request
    kind, hash, \* kind[p], hash[p]: the request p serves
    reply       \* reply[p]: "open" until p has answered it

vars == <<file, medium, tmp, pc, kind, hash, reply>>

D == INSTANCE ChunkDirectory WITH dir <- file

Init == /\ D!Init
        /\ tmp = [x \in Proc |-> "none"]
        /\ pc = [p \in Proc |-> "idle"]
-----------------------------------------------------------------------------
Goto(p, label) == pc' = [pc EXCEPT ![p] = label] /\ UNCHANGED reply

(* Mutant: a return is missing, and the handler goes on after its reply. *)
FinishWithoutReturn(p, answer) == /\ pc' = [pc EXCEPT ![p] = "open"]
                                  /\ reply' = [reply EXCEPT ![p] = answer]

Finish(p, answer) == /\ pc' = [pc EXCEPT ![p] = "idle"]
                     /\ reply' = [reply EXCEPT ![p] = answer]

Receive(p, x, h) ==
    /\ pc[p] = "idle"
    /\ kind' = [kind EXCEPT ![p] = x]
    /\ hash' = [hash EXCEPT ![p] = h]
    /\ pc' = [pc EXCEPT ![p] = "exists"]
    /\ reply' = [reply EXCEPT ![p] = "open"]
    /\ UNCHANGED <<file, medium, tmp>>

(* fs.existsSync: a PUT of a chunk that is there is done (200, deduped), a *)
(* GET (404) or DELETE (200) of one that is not too.                       *)
Exists(p) ==
    /\ pc[p] = "exists"
    /\ LET there == file[hash[p]] # "absent"
       IN  \/ kind[p] = "put"    /\ there  /\ Finish(p, "stored")
           \/ kind[p] = "put"    /\ ~there /\ Goto(p, "open")
           \/ kind[p] = "get"    /\ there  /\ Goto(p, "read")
           \/ kind[p] = "get"    /\ ~there /\ Finish(p, "not_found")
           \/ kind[p] = "delete" /\ there  /\ Goto(p, "unlink")
           \/ kind[p] = "delete" /\ ~there /\ Finish(p, "deleted")
    /\ UNCHANGED <<file, medium, tmp, kind, hash>>

(* Mutant: writers of a directory share one temporary file. *)
TmpNameShared(p) == CHOOSE q \in Proc : TRUE

(* `.tmp-${process.pid}-${random}` *)
TmpName(p) == p

(* mkdirSync, then writeFileSync: creates or truncates the file ...        *)
OpenTmp(p) ==
    /\ pc[p] = "open"
    /\ tmp' = [tmp EXCEPT ![TmpName(p)] = "partial"]
    /\ Goto(p, "fill")
    /\ UNCHANGED <<file, medium, kind, hash>>

(* ... and fills it. *)
FillTmp(p) ==
    /\ pc[p] = "fill"
    /\ tmp' = [tmp EXCEPT ![TmpName(p)] = "whole"]
    /\ Goto(p, "rename")
    /\ UNCHANGED <<file, medium, kind, hash>>

(* renameSync, whatever is under the chunk's name by now.  A temporary     *)
(* file that is gone makes it throw.                                       *)
Rename(p) ==
    /\ pc[p] = "rename" /\ tmp[TmpName(p)] # "none"
    /\ file' = [file EXCEPT ![hash[p]] =
                  IF tmp[TmpName(p)] = "whole" THEN "good" ELSE "corrupt"]
    /\ tmp' = [tmp EXCEPT ![TmpName(p)] = "none"]
    /\ Finish(p, "stored")
    /\ UNCHANGED <<medium, kind, hash>>

(* readFileSync throws on a file deleted since existsSync (500); bytes     *)
(* that do not hash to the name are refused (409).                         *)
ReadResult(x) == CASE x = "absent"  -> "error"
                   [] x = "good"    -> "bytes"
                   [] OTHER         -> "corrupt"

Read(p) ==
    /\ pc[p] = "read"
    /\ Finish(p, ReadResult(file[hash[p]]))
    /\ UNCHANGED <<file, medium, tmp, kind, hash>>

(* unlinkSync, which throws on a file that is gone since existsSync. *)
Unlink(p) ==
    /\ pc[p] = "unlink"
    /\ Finish(p, IF file[hash[p]] = "absent" THEN "error" ELSE "deleted")
    /\ file' = [file EXCEPT ![hash[p]] = "absent"]
    /\ UNCHANGED <<medium, tmp, kind, hash>>

(* A call throws (500), the bytes of a PUT do not match its hash (422), or *)
(* the process dies and is started again.  Its temporary file stays.       *)
Fails(p) ==
    /\ pc[p] # "idle"
    /\ Finish(p, "error")
    /\ tmp' = [tmp EXCEPT ![TmpName(p)] = "none"]
    /\ UNCHANGED <<file, medium, kind, hash>>
-----------------------------------------------------------------------------
(* The file system and the disk: nothing is fsynced, so the kernel writes  *)
(* back when it likes, and an outage undoes the rest.                      *)

Disk(h) == (D!Sync(h) \/ D!Decay(h)) /\ UNCHANGED <<tmp, pc>>

Outage ==
    /\ D!Outage
    /\ pc' = [p \in Proc |-> "idle"]
    /\ tmp' = [x \in Proc |-> "none"]
-----------------------------------------------------------------------------
Step(p) == \/ Exists(p) \/ OpenTmp(p) \/ FillTmp(p) \/ Rename(p)
           \/ Read(p) \/ Unlink(p) \/ Fails(p)

Next == \/ \E p \in Proc : Step(p) \/ \E x \in D!Kind, h \in Chunk : Receive(p, x, h)
        \/ \E h \in Chunk : Disk(h)
        \/ Outage

Spec == Init /\ [][Next]_vars
-----------------------------------------------------------------------------
(* Properties *)

TypeOK ==
    /\ file \in [Chunk -> D!Copy]
    /\ medium \in [Chunk -> D!Copy]
    /\ tmp \in [Proc -> {"none", "partial", "whole"}]
    /\ pc \in [Proc -> {"idle", "exists", "open", "fill", "rename", "read", "unlink"}]
    /\ kind \in [Proc -> D!Kind]
    /\ hash \in [Proc -> Chunk]
    /\ reply \in [Proc -> {"none", "open", "stored", "bytes", "not_found", "corrupt",
                           "deleted", "error"}]
    /\ \A p \in Proc : pc[p] = "idle" <=> reply[p] # "open"

(* Concurrent writers, readers and deleters of a chunk, dying anywhere,    *)
(* never leave or see a torn file: every request takes effect at one       *)
(* instant on whole chunks, or fails and changes nothing.                  *)
ImplementsDirectory == D!Spec
=============================================================================
