-------------------------- MODULE ChunkStoreProofs --------------------------
(***************************************************************************)
(* ChunkStore for any processes and chunks: types, and that the sequences  *)
(* of file-system calls implement the atomic directory of ChunkDirectory.  *)
(***************************************************************************)
EXTENDS ChunkStore, TLAPS

(* The next call belongs to the request's kind, and a file about to be     *)
(* renamed is complete: nobody else has its name.                          *)
Stage(p) ==
    /\ pc[p] \in {"open", "fill", "rename"} => kind[p] = "put"
    /\ pc[p] = "read" => kind[p] = "get"
    /\ pc[p] = "unlink" => kind[p] = "delete"
    /\ pc[p] = "rename" => tmp[p] = "whole"

Inv == TypeOK /\ \A p \in Proc : Stage(p)

LEMMA InvInit == Init => Inv
  BY DEF Init, Inv, TypeOK, Stage, D!Init, D!Kind, D!Copy

LEMMA InvStep == Inv /\ [Next]_vars => Inv'
<1> SUFFICES ASSUME Inv, [Next]_vars PROVE Inv'
  OBVIOUS
<1> USE DEF Inv, TypeOK, Stage, D!Kind, D!Copy
<1>1. ASSUME NEW p \in Proc, NEW x \in D!Kind, NEW h \in Chunk, Receive(p, x, h)
      PROVE Inv'
  BY <1>1 DEF Receive
<1>2. ASSUME NEW p \in Proc, Exists(p) PROVE Inv'
  BY <1>2 DEF Exists, Goto, Finish
<1>3. ASSUME NEW p \in Proc, OpenTmp(p) PROVE Inv'
  BY <1>3 DEF OpenTmp, Goto, TmpName
<1>4. ASSUME NEW p \in Proc, FillTmp(p) PROVE Inv'
  BY <1>4 DEF FillTmp, Goto, TmpName
<1>5. ASSUME NEW p \in Proc, Rename(p) PROVE Inv'
  BY <1>5 DEF Rename, Finish, TmpName
<1>6. ASSUME NEW p \in Proc, Read(p) PROVE Inv'
  BY <1>6 DEF Read, Finish, ReadResult
<1>7. ASSUME NEW p \in Proc, Unlink(p) PROVE Inv'
  BY <1>7 DEF Unlink, Finish
<1>8. ASSUME NEW p \in Proc, Fails(p) PROVE Inv'
  BY <1>8 DEF Fails, Finish, TmpName
<1>9. ASSUME NEW h \in Chunk, Disk(h) PROVE Inv'
  BY <1>9 DEF Disk, D!Sync, D!Decay
<1>10. CASE Outage
  BY <1>10 DEF Outage, D!Outage
<1>11. CASE UNCHANGED vars
  BY <1>11 DEF vars
<1>12. QED
  BY <1>1, <1>2, <1>3, <1>4, <1>5, <1>6, <1>7, <1>8, <1>9, <1>10, <1>11 DEF Next, Step

LEMMA InvAlways == Spec => []Inv
  BY InvInit, InvStep, PTL DEF Spec

(* Every file stays absent, good or corrupt, and a process has a call to   *)
(* make exactly while it owes an answer.                                   *)
THEOREM TypeCorrect == Spec => []TypeOK
<1>1. Inv => TypeOK
  BY DEF Inv
<1>2. QED
  BY <1>1, InvAlways, PTL
-----------------------------------------------------------------------------
(* What each step is to the directory *)

LEMMA DirectoryInit == Init => D!Init
  BY DEF Init

LEMMA AnswerStep ==
    ASSUME Inv, NEW p \in Proc, pc[p] # "idle", UNCHANGED <<medium, kind, hash>>,
           D!Put(p) \/ D!Get(p) \/ D!Delete(p)
    PROVE  D!Next
  BY DEF Inv, TypeOK, D!Answer, D!Next

LEMMA FailStep ==
    ASSUME Inv, NEW p \in Proc, pc[p] # "idle", UNCHANGED <<file, medium, kind, hash>>,
           reply' = [reply EXCEPT ![p] = "error"]
    PROVE  D!Next
  BY DEF Inv, TypeOK, D!Fail, D!Next

LEMMA DirectoryStep == Inv /\ [Next]_vars => [D!Next]_(D!vars)
<1> SUFFICES ASSUME Inv, [Next]_vars PROVE [D!Next]_(D!vars)
  OBVIOUS
<1>1. ASSUME NEW p \in Proc, NEW x \in D!Kind, NEW h \in Chunk, Receive(p, x, h)
      PROVE D!Next
  BY <1>1 DEF Receive, Inv, TypeOK, D!Invoke, D!Next
<1>2. ASSUME NEW p \in Proc, Exists(p) PROVE [D!Next]_(D!vars)
  <2>1. kind[p] \in {"put", "get", "delete"} /\ file \in [Chunk -> {"absent", "good", "corrupt"}]
        /\ hash[p] \in Chunk
    BY DEF Inv, TypeOK, D!Kind, D!Copy
  <2>2. CASE file[hash[p]] = "absent" /\ kind[p] = "put"
    BY <1>2, <2>2 DEF Exists, Goto, D!vars
  <2>3. CASE file[hash[p]] = "absent" /\ kind[p] = "get"
    <3>1. D!Get(p)
      BY <1>2, <2>3 DEF Exists, Finish, D!Get
    <3>2. QED
      BY <1>2, <3>1, AnswerStep DEF Exists
  <2>4. CASE file[hash[p]] = "absent" /\ kind[p] = "delete"
    <3>1. D!Delete(p)
      BY <1>2, <2>1, <2>4 DEF Exists, Finish, D!Delete
    <3>2. QED
      BY <1>2, <3>1, AnswerStep DEF Exists
  <2>5. CASE file[hash[p]] # "absent" /\ kind[p] = "put"
    <3>1. D!Put(p)
      BY <1>2, <2>1, <2>5 DEF Exists, Finish, D!Put
    <3>2. QED
      BY <1>2, <3>1, AnswerStep DEF Exists
  <2>6. CASE file[hash[p]] # "absent" /\ kind[p] \in {"get", "delete"}
    BY <1>2, <2>6 DEF Exists, Goto, D!vars
  <2>7. QED
    BY <2>1, <2>2, <2>3, <2>4, <2>5, <2>6
<1>3. ASSUME NEW p \in Proc, OpenTmp(p) \/ FillTmp(p) PROVE UNCHANGED D!vars
  BY <1>3 DEF OpenTmp, FillTmp, Goto, D!vars
<1>4. ASSUME NEW p \in Proc, Rename(p) PROVE D!Next
  <2>1. kind[p] = "put" /\ tmp[p] = "whole"
    BY <1>4 DEF Rename, Inv, Stage
  <2>2. D!Put(p)
    BY <1>4, <2>1 DEF Rename, Finish, TmpName, D!Put
  <2>3. QED
    BY <1>4, <2>2, AnswerStep DEF Rename
<1>5. ASSUME NEW p \in Proc, Read(p) PROVE D!Next
  <2>1. kind[p] = "get" /\ file[hash[p]] \in {"absent", "good", "corrupt"}
    BY <1>5 DEF Read, Inv, Stage, TypeOK, D!Copy
  <2>2. CASE file[hash[p]] = "absent"
    BY <1>5, <2>2, FailStep DEF Read, ReadResult, Finish
  <2>3. CASE file[hash[p]] # "absent"
    <3>1. D!Get(p)
      BY <1>5, <2>1, <2>3 DEF Read, ReadResult, Finish, D!Get
    <3>2. QED
      BY <1>5, <3>1, AnswerStep DEF Read
  <2>4. QED
    BY <2>2, <2>3
<1>6. ASSUME NEW p \in Proc, Unlink(p) PROVE D!Next
  <2>1. kind[p] = "delete" /\ file \in [Chunk -> D!Copy] /\ hash[p] \in Chunk
    BY <1>6 DEF Unlink, Inv, Stage, TypeOK
  <2>2. CASE file[hash[p]] = "absent"
    <3>1. UNCHANGED file
      BY <1>6, <2>1, <2>2 DEF Unlink
    <3>2. QED
      BY <1>6, <2>2, <3>1, FailStep DEF Unlink, Finish
  <2>3. CASE file[hash[p]] # "absent"
    <3>1. D!Delete(p)
      BY <1>6, <2>1, <2>3 DEF Unlink, Finish, D!Delete
    <3>2. QED
      BY <1>6, <3>1, AnswerStep DEF Unlink
  <2>4. QED
    BY <2>2, <2>3
<1>7. ASSUME NEW p \in Proc, Fails(p) PROVE D!Next
  BY <1>7, FailStep DEF Fails, Finish
<1>8. ASSUME NEW h \in Chunk, Disk(h) PROVE D!Next
  BY <1>8 DEF Disk, D!Next
<1>9. CASE Outage
  BY <1>9 DEF Outage, D!Next
<1>10. CASE UNCHANGED vars
  BY <1>10 DEF vars, D!vars
<1>11. QED
  BY <1>1, <1>2, <1>3, <1>4, <1>5, <1>6, <1>7, <1>8, <1>9, <1>10 DEF Next, Step

(* Whatever the processes on a data directory do between one another's     *)
(* file-system calls, and wherever they die, each request takes effect at  *)
(* one instant on whole chunks, or fails and has changed nothing.          *)
THEOREM ImplementsAtomicDirectory == Spec => ImplementsDirectory
  BY InvAlways, DirectoryInit, DirectoryStep, PTL DEF Spec, ImplementsDirectory, D!Spec
=============================================================================
