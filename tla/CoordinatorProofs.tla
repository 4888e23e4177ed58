-------------------------- MODULE CoordinatorProofs --------------------------
(***************************************************************************)
(* Coordinator for any nodes, chunks, callers, preference lists and quorum *)
(* size: types, that a quorum write stays on W replicas, and that a read   *)
(* of such a chunk fails only if W replicas fail it.                       *)
(***************************************************************************)
EXTENDS Coordinator, FiniteSetTheorems, TLAPS

LEMMA PrefFacts ==
    ASSUME NEW h \in Chunk
    PROVE  /\ Len(Pref[h]) \in Nat /\ DOMAIN Pref[h] = 1..Len(Pref[h])
           /\ \A j \in 1..Len(Pref[h]) : Pref[h][j] \in Node /\ Pref[h][j] \in Replicas(h)
           /\ Replicas(h) \subseteq Node
           /\ W \in Nat
<1>1. Pref[h] \in Seq(Node)
  BY CoordinatorAssumption
<1>2. QED
  BY <1>1, CoordinatorAssumption DEF Replicas

LEMMA ReplicasFinite == ASSUME NEW h \in Chunk PROVE IsFiniteSet(Replicas(h))
<1> DEFINE n == Len(Pref[h])
           g == [j \in 1..n |-> Pref[h][j]]
<1>1. n \in Nat /\ Replicas(h) = {Pref[h][j] : j \in 1..n}
  BY PrefFacts DEF Replicas
<1>2. IsFiniteSet(1..n)
  BY <1>1, FS_Interval
<1>3. Replicas(h) = {g[j] : j \in 1..n}
  BY <1>1
<1>4. g \in Surjection(1..n, Replicas(h))
  BY <1>3 DEF Surjection
<1>5. QED
  BY <1>2, <1>4, FS_Surjection

(* A set of replicas that lies in another one is no larger. *)
LEMMA NoLarger ==
    ASSUME NEW h \in Chunk, NEW T, T \subseteq Replicas(h), NEW S, S \subseteq T
    PROVE  Cardinality(S) \in Nat /\ Cardinality(T) \in Nat /\ Cardinality(S) <= Cardinality(T)
<1>1. IsFiniteSet(T)
  BY ReplicasFinite, FS_Subset
<1>2. QED
  BY <1>1, FS_Subset, FS_CardinalityType
-----------------------------------------------------------------------------
(* Types *)

LEMMA TypeInit == Init => TypeOK
BY DEF Init, TypeOK

LEMMA TypeAbandon == ASSUME TypeOK, NEW C \in SUBSET Call, Abandon(C) PROVE TypeOK'
<1> USE DEF TypeOK, history
<1>1. late' \subseteq {"put", "delete"} \X Node \X Chunk
  BY DEF Abandon
<1>2. QED
  BY <1>1 DEF Abandon, Reasons

LEMMA TypeStep == TypeOK /\ [Next]_vars => TypeOK'
<1> SUFFICES ASSUME TypeOK, [Next]_vars PROVE TypeOK'
  OBVIOUS
<1> USE DEF TypeOK, calls, history
<1>1. ASSUME NEW c \in Call, NEW h \in Chunk, PutChunk(c, h) \/ GetChunk(c, h) \/ DeleteChunk(c, h)
      PROVE  TypeOK'
  <2>1. Replicas(h) \subseteq Node
    BY PrefFacts
  <2>2. clean' \in [Call -> BOOLEAN] /\ stored' \subseteq Chunk
    <3>1. CASE PutChunk(c, h)
      <4>1. (~Deleting(h)) \in BOOLEAN
        BY Zenon
      <4>2. QED
        BY <3>1, <4>1 DEF PutChunk
    <3>2. CASE GetChunk(c, h)
      BY <3>2 DEF GetChunk
    <3>3. CASE DeleteChunk(c, h)
      <4>1. \A d \in Call : (clean[d] /\ d # c /\ chunkOf[d] # h) \in BOOLEAN
        OBVIOUS
      <4>2. QED
        BY <3>3, <4>1, Zenon DEF DeleteChunk
    <3>4. QED
      BY <1>1, <3>1, <3>2, <3>3
  <2>3. \E kind \in Open : Begin(c, kind, h)
    BY <1>1 DEF PutChunk, GetChunk, DeleteChunk, Open
  <2>4. QED
    BY <2>1, <2>2, <2>3 DEF Begin, Open, Reasons
<1>2. ASSUME NEW c \in Call, NEW n \in Node, RequestHandled(c, n) PROVE TypeOK'
  BY <1>2 DEF RequestHandled, Handle, AfterPut
<1>3. ASSUME NEW c \in Call, NEW n \in Node, RequestFails(c, n) PROVE TypeOK'
  BY <1>3 DEF RequestFails
<1>4. ASSUME NEW c \in Call, NEW n \in Node, RequestTimesOut(c, n) PROVE TypeOK'
  <2>1. op[c] \in {"put", "delete"} /\ chunkOf[c] \in Chunk
    BY <1>4 DEF RequestTimesOut
  <2>2. late' \subseteq {"put", "delete"} \X Node \X Chunk
    BY <1>4, <2>1 DEF RequestTimesOut
  <2>3. QED
    BY <1>4, <2>2 DEF RequestTimesOut
<1>5. ASSUME NEW kind \in {"put", "delete"}, NEW n \in Node, NEW h \in Chunk,
             LateHandled(kind, n, h) \/ LateLost(kind, n, h)
      PROVE  TypeOK'
  <2>1. CASE LateHandled(kind, n, h)
    <3>1. disk' \in [Node -> [Chunk -> {"absent", "good", "corrupt"}]]
      BY <2>1 DEF LateHandled, Handle, AfterPut
    <3>2. QED
      BY <2>1, <3>1 DEF LateHandled
  <2>2. CASE LateLost(kind, n, h)
    BY <2>2 DEF LateLost
  <2>3. QED
    BY <1>5, <2>1, <2>2
<1>6. ASSUME NEW c \in Call, CallStep(c) PROVE TypeOK'
  <2>1. CASE \E why \in Reasons : GetAdvances(c, why)
    <3>1. PICK why \in Reasons : GetAdvances(c, why)
      BY <2>1
    <3>2. /\ chunkOf[c] \in Chunk /\ i[c] \in 1..Len(Pref[chunkOf[c]])
          /\ Pref[chunkOf[c]][i[c]] \in Node
      BY <3>1, PrefFacts DEF GetAdvances, TryReplica
    <3>3. missed' \in [Call -> SUBSET Node] /\ WalkOn(c, why) \in Nat \ {0}
      BY <3>1, <3>2 DEF GetAdvances, WalkOn
    <3>4. QED
      BY <3>1, <3>3 DEF GetAdvances
  <2>2. CASE \E o \in {"none", "missing", "unavailable"} :
               End(c, o) /\ wait[c] = {} /\ stored' \subseteq Chunk
    BY <2>2 DEF End, Reasons
  <2>3. QED
    BY <1>6, <2>1, <2>2 DEF CallStep, PutOk, PutFailed, DeleteDone, GetServed,
         GetExhausted, TryReplica, AllSettled
<1>7. ASSUME NEW n \in Node, NEW h \in Chunk, BitRot(n, h) PROVE TypeOK'
  BY <1>7 DEF BitRot
<1>8. ASSUME NEW C \in SUBSET Call, Abandon(C) PROVE TypeOK'
  BY <1>8, TypeAbandon
<1>9. CASE UNCHANGED vars
  BY <1>9 DEF vars
<1>10. QED
  BY <1>1, <1>2, <1>3, <1>4, <1>5, <1>6, <1>7, <1>8, <1>9 DEF Next, NodeStep

(* Calls, copies and late requests keep their types, and only a put or a   *)
(* delete ever waits for a node.                                           *)
THEOREM TypeCorrect == Spec => []TypeOK
BY TypeInit, TypeStep, PTL DEF Spec
-----------------------------------------------------------------------------
(* Quorum writes.  StoredHeld is not inductive: it does not say that no    *)
(* DELETE of the chunk is left anywhere, nor that the nodes a put has      *)
(* counted still hold the chunk when it returns.                           *)

Waits(c) == wait[c] \subseteq Replicas(chunkOf[c])

Acked(c) ==
    op[c] = "put" /\ clean[c] =>
        ~Deleting(chunkOf[c]) /\ acks[c] \subseteq Holders(chunkOf[c])

Kept(h) == h \in stored => ~Deleting(h) /\ Cardinality(Holders(h)) >= W

HoldInv == /\ \A c \in Call : Waits(c)
           /\ \A c \in Call : Acked(c)
           /\ \A h \in Chunk : Kept(h)

(* A step that starts no delete of h and loses no copy of h keeps what is  *)
(* stored stored.                                                          *)
LEMMA KeptStep ==
    ASSUME TypeOK, TypeOK', NEW h \in Chunk, Kept(h), h \in stored,
           ~Deleting(h)', Holders(h) \subseteq Holders(h)'
    PROVE  Kept(h)'
<1>1. Holders(h)' \subseteq Replicas(h) /\ W \in Nat
  BY PrefFacts DEF Holders
<1>2. Cardinality(Holders(h)) <= Cardinality(Holders(h)') /\ Cardinality(Holders(h)) \in Nat
      /\ Cardinality(Holders(h)') \in Nat
  BY <1>1, NoLarger
<1>3. Cardinality(Holders(h)') >= W
  BY <1>1, <1>2 DEF Kept
<1>4. QED
  BY <1>3 DEF Kept

(* Nodes only lose a copy to a DELETE. *)
LEMMA NodesKeep ==
    ASSUME TypeOK, NEW h \in Chunk, ~Deleting(h),
           \/ UNCHANGED disk
           \/ \E c \in Call, n \in Node : RequestHandled(c, n)
           \/ \E kind \in {"put", "delete"}, n \in Node, x \in Chunk : LateHandled(kind, n, x)
           \/ \E n \in Node, x \in Chunk : BitRot(n, x)
    PROVE  Holders(h) \subseteq Holders(h)'
<1> USE DEF TypeOK
<1> SUFFICES ASSUME NEW m \in Node, disk[m][h] # "absent" PROVE disk'[m][h] # "absent"
  BY PrefFacts DEF Holders
<1>1. CASE UNCHANGED disk
  BY <1>1
<1>2. ASSUME NEW c \in Call, NEW n \in Node, RequestHandled(c, n) PROVE disk'[m][h] # "absent"
  <2>1. disk' = [disk EXCEPT ![n][chunkOf[c]] = IF op[c] = "put" THEN AfterPut(@) ELSE "absent"]
    BY <1>2 DEF RequestHandled, Handle
  <2>2. chunkOf[c] = h => op[c] = "put"
    BY <1>2 DEF RequestHandled, Deleting
  <2>3. QED
    BY <2>1, <2>2 DEF AfterPut
<1>3. ASSUME NEW kind \in {"put", "delete"}, NEW n \in Node, NEW x \in Chunk,
             LateHandled(kind, n, x)
      PROVE  disk'[m][h] # "absent"
  <2>1. disk' = [disk EXCEPT ![n][x] = IF kind = "put" THEN AfterPut(@) ELSE "absent"]
    BY <1>3 DEF LateHandled, Handle
  <2>2. x = h => kind = "put"
    BY <1>3 DEF LateHandled, Deleting
  <2>3. QED
    BY <2>1, <2>2 DEF AfterPut
<1>4. ASSUME NEW n \in Node, NEW x \in Chunk, BitRot(n, x) PROVE disk'[m][h] # "absent"
  BY <1>4 DEF BitRot
<1>5. QED
  BY <1>1, <1>2, <1>3, <1>4

(* Steps of and between the nodes. *)
LEMMA HoldNodeStep ==
    ASSUME TypeOK, TypeOK', HoldInv, NodeStep \/ \E n \in Node, h \in Chunk : BitRot(n, h)
    PROVE  HoldInv'
<1> USE DEF TypeOK
<1>0. ASSUME NEW c \in Call, NEW n \in Node,
             RequestHandled(c, n) \/ RequestFails(c, n) \/ RequestTimesOut(c, n)
      PROVE  /\ UNCHANGED <<op, chunkOf, clean, stored>>
             /\ \A d \in Call : wait'[d] \subseteq wait[d]
             /\ \A m \in Node, h \in Chunk : <<"delete", m, h>> \in late' => Deleting(h)
  <2>1. UNCHANGED <<op, chunkOf, clean, stored>> /\ wait' = [wait EXCEPT ![c] = @ \ {n}]
    BY <1>0 DEF RequestHandled, RequestFails, RequestTimesOut, history
  <2>2. late' \subseteq late \cup {<<op[c], n, chunkOf[c]>>}
    BY <1>0 DEF RequestHandled, RequestFails, RequestTimesOut
  <2>3. QED
    BY <2>1, <2>2 DEF Deleting
<1>1. /\ UNCHANGED <<op, chunkOf, clean, stored>>
      /\ \A d \in Call : wait'[d] \subseteq wait[d]
      /\ \A m \in Node, h \in Chunk : <<"delete", m, h>> \in late' => Deleting(h)
  <2>1. ASSUME NEW kind \in {"put", "delete"}, NEW n \in Node, NEW h \in Chunk,
               LateHandled(kind, n, h) \/ LateLost(kind, n, h) \/ BitRot(n, h)
        PROVE  UNCHANGED <<op, chunkOf, clean, stored, wait>> /\ late' \subseteq late
    BY <2>1 DEF LateHandled, LateLost, BitRot, calls, history
  <2>2. QED
    BY <1>0, <2>1 DEF NodeStep, Deleting
<1>2. \A h \in Chunk : ~Deleting(h) => ~Deleting(h)'
  BY <1>1 DEF Deleting
<1>3. \A h \in Chunk : ~Deleting(h) => Holders(h) \subseteq Holders(h)'
  BY NodesKeep DEF NodeStep, RequestFails, RequestTimesOut, LateLost
<1>4. \A c \in Call : Waits(c)'
  BY <1>1 DEF HoldInv, Waits
<1>5. ASSUME NEW c \in Call, op[c] = "put", clean[c] PROVE acks'[c] \subseteq Holders(chunkOf[c])'
  <2>1. ~Deleting(chunkOf[c]) /\ acks[c] \subseteq Holders(chunkOf[c]) /\ chunkOf[c] \in Chunk
    BY <1>5 DEF HoldInv, Acked, TypeOK
  <2>2. acks[c] \subseteq Holders(chunkOf[c])' /\ UNCHANGED chunkOf
    BY <1>1, <1>3, <2>1 DEF Holders
  <2>3. CASE acks'[c] = acks[c]
    BY <2>2, <2>3
  <2>4. CASE \E n \in Node : RequestHandled(c, n)
    <3>1. PICK n \in Node : RequestHandled(c, n)
      BY <2>4
    <3>2. /\ n \in Replicas(chunkOf[c]) /\ acks'[c] = acks[c] \cup {n}
          /\ disk' = [disk EXCEPT ![n][chunkOf[c]] = AfterPut(@)]
      BY <1>5, <3>1 DEF RequestHandled, Handle, HoldInv, Waits, TypeOK
    <3>3. n \in Holders(chunkOf[c])'
      BY <1>1, <2>1, <3>2 DEF Holders, AfterPut, TypeOK
    <3>4. QED
      BY <2>2, <3>2, <3>3
  <2>5. QED
    BY <2>3, <2>4 DEF NodeStep, RequestHandled, RequestFails, RequestTimesOut, LateHandled,
         LateLost, BitRot, TypeOK, calls
<1>6. \A c \in Call : Acked(c)'
  BY <1>1, <1>2, <1>5 DEF HoldInv, Acked, TypeOK
<1>7. \A h \in Chunk : Kept(h)'
  BY <1>1, <1>2, <1>3, KeptStep DEF HoldInv, Kept
<1>8. QED
  BY <1>4, <1>6, <1>7 DEF HoldInv

(* The beginning of a call. *)
LEMMA HoldBeginStep ==
    ASSUME TypeOK, TypeOK', HoldInv, NEW c \in Call, NEW h \in Chunk,
           PutChunk(c, h) \/ GetChunk(c, h) \/ DeleteChunk(c, h)
    PROVE  HoldInv'
<1> USE DEF TypeOK
<1> DEFINE deletes == DeleteChunk(c, h)
<1>1. PICK kind \in Open : Begin(c, kind, h) /\ (kind = "delete" <=> deletes)
  BY DEF PutChunk, GetChunk, DeleteChunk, Begin, Open
<1>2. /\ op[c] \notin Open
      /\ op' = [op EXCEPT ![c] = kind] /\ chunkOf' = [chunkOf EXCEPT ![c] = h]
      /\ wait' = [wait EXCEPT ![c] = IF kind = "get" THEN {} ELSE Replicas(h)]
      /\ acks' = [acks EXCEPT ![c] = {}]
      /\ UNCHANGED <<disk, late>>
  BY <1>1 DEF Begin
<1>3. /\ stored' \subseteq stored /\ (deletes => h \notin stored')
      /\ \A d \in Call \ {c} : clean'[d] => clean[d] /\ (deletes => chunkOf[d] # h)
      /\ kind = "put" /\ clean'[c] => ~Deleting(h)
  BY <1>1 DEF PutChunk, GetChunk, DeleteChunk, Begin
<1>4. \A x \in Chunk : ~Deleting(x) /\ (deletes => x # h) => ~Deleting(x)'
  BY <1>1, <1>2 DEF Deleting
<1>5. \A x \in Chunk : Holders(x)' = Holders(x)
  BY <1>2 DEF Holders
<1>6. \A d \in Call : Waits(d)'
  BY <1>2 DEF HoldInv, Waits
<1>7. \A d \in Call : Acked(d)'
  <2>1. Acked(c)'
    BY <1>1, <1>2, <1>3, <1>4 DEF Acked
  <2>2. ASSUME NEW d \in Call, d # c PROVE Acked(d)'
    <3>1. /\ op'[d] = op[d] /\ chunkOf'[d] = chunkOf[d] /\ acks'[d] = acks[d]
          /\ chunkOf[d] \in Chunk
      BY <1>2, <2>2
    <3>2. SUFFICES ASSUME op[d] = "put", clean'[d]
                   PROVE  ~Deleting(chunkOf[d])' /\ acks[d] \subseteq Holders(chunkOf[d])'
      BY <3>1 DEF Acked
    <3>3. /\ clean[d] /\ (deletes => chunkOf[d] # h)
          /\ ~Deleting(chunkOf[d]) /\ acks[d] \subseteq Holders(chunkOf[d])
      BY <1>3, <2>2, <3>2 DEF HoldInv, Acked
    <3>4. PICK x \in Chunk : x = chunkOf[d] /\ x = chunkOf'[d]
      BY <3>1
    <3>5. ~Deleting(x)' /\ Holders(x)' = Holders(x)
      BY <1>4, <1>5, <3>3, <3>4
    <3>6. Deleting(chunkOf[d])' = Deleting(x)'
      BY <3>4 DEF Deleting
    <3>7. Holders(chunkOf[d])' = Holders(x)' /\ Holders(chunkOf[d]) = Holders(x)
      BY <3>4 DEF Holders
    <3>8. QED
      BY <3>3, <3>5, <3>6, <3>7
  <2>3. QED
    BY <2>1, <2>2
<1>8. \A x \in Chunk : Kept(x)'
  BY <1>3, <1>4, <1>5 DEF HoldInv, Kept
<1>9. QED
  BY <1>6, <1>7, <1>8 DEF HoldInv

(* Steps of a call, its end included, and the death of callers. *)
LEMMA HoldCallStep ==
    ASSUME TypeOK, TypeOK', HoldInv,
           \/ \E c \in Call : CallStep(c)
           \/ \E C \in SUBSET Call : Abandon(C)
    PROVE  HoldInv'
<1> USE DEF TypeOK
<1> DEFINE Quiet == /\ UNCHANGED <<disk, chunkOf, clean>>
                    /\ \A d \in Call : /\ wait'[d] \subseteq wait[d]
                                       /\ op'[d] \in Open => op'[d] = op[d]
                                       /\ op'[d] = "put" => acks'[d] = acks[d]
           NoNew == \A m \in Node, h \in Chunk : <<"delete", m, h>> \in late' => Deleting(h)
           Stores == \A h \in Chunk : h \in stored' \ stored =>
                        \E c \in Call : /\ op[c] = "put" /\ clean[c] /\ chunkOf[c] = h
                                        /\ Cardinality(acks[c]) >= W
<1>1. ASSUME NEW c \in Call, NEW o \in {"none", "missing", "unavailable"}, End(c, o)
      PROVE  Quiet /\ NoNew
  BY <1>1 DEF End, Open, Deleting
<1>2. ASSUME NEW c \in Call, NEW why \in Reasons, GetAdvances(c, why)
      PROVE  Quiet /\ NoNew /\ Stores
  BY <1>2 DEF GetAdvances, Deleting
<1>3. ASSUME NEW C \in SUBSET Call, Abandon(C) PROVE Quiet /\ NoNew /\ Stores
  <2>1. Quiet /\ Stores
    BY <1>3 DEF Abandon, history, Open
  <2>2. PICK L \in SUBSET UNION {{<<op[c], n, chunkOf[c]>> : n \in wait[c]} : c \in C} :
          late' = late \cup L
    BY <1>3 DEF Abandon
  <2>3. ASSUME NEW m \in Node, NEW h \in Chunk, <<"delete", m, h>> \in late' PROVE Deleting(h)
    <3>1. CASE <<"delete", m, h>> \in late
      BY <3>1 DEF Deleting
    <3>2. CASE <<"delete", m, h>> \in L
      <4>1. PICK c \in C : <<"delete", m, h>> \in {<<op[c], n, chunkOf[c]>> : n \in wait[c]}
        BY <3>2
      <4>2. c \in Call /\ op[c] = "delete" /\ chunkOf[c] = h
        BY <4>1
      <4>3. QED
        BY <4>2 DEF Deleting
    <3>3. QED
      BY <2>2, <2>3, <3>1, <3>2
  <2>4. QED
    BY <2>1, <2>3
<1>4. ASSUME NEW c \in Call, CallStep(c) PROVE Quiet /\ NoNew /\ Stores
  <2>1. CASE PutOk(c)
    <3>1. Stores
      BY <2>1 DEF PutOk, Quorum
    <3>2. QED
      BY <1>1, <2>1, <3>1 DEF PutOk
  <2>2. CASE PutFailed(c) \/ DeleteDone(c) \/ GetServed(c) \/ GetExhausted(c)
    <3>1. UNCHANGED stored /\ \E o \in {"none", "missing", "unavailable"} : End(c, o)
      BY <2>2 DEF PutFailed, DeleteDone, GetServed, GetExhausted
    <3>2. QED
      BY <1>1, <3>1
  <2>3. QED
    BY <1>2, <1>4, <2>1, <2>2 DEF CallStep
<1>5. Quiet /\ NoNew /\ Stores
  BY <1>3, <1>4
<1> HIDE DEF Quiet, NoNew, Stores
<1>6. \A h \in Chunk : ~Deleting(h) => ~Deleting(h)'
  BY <1>5 DEF Deleting, Quiet, NoNew, Open
<1>7. \A h \in Chunk : Holders(h)' = Holders(h)
  BY <1>5 DEF Holders, Quiet
<1>8. \A d \in Call : Waits(d)'
  BY <1>5 DEF HoldInv, Waits, Quiet
<1>9. ASSUME NEW d \in Call PROVE Acked(d)'
  <2>1. SUFFICES ASSUME op'[d] = "put", clean'[d]
                 PROVE  ~Deleting(chunkOf[d])' /\ acks'[d] \subseteq Holders(chunkOf[d])'
    BY DEF Acked
  <2>2. /\ op[d] = "put" /\ clean[d] /\ chunkOf' = chunkOf /\ acks'[d] = acks[d]
        /\ chunkOf[d] \in Chunk
    BY <1>5, <2>1 DEF Quiet, Open
  <2>3. ~Deleting(chunkOf[d]) /\ acks[d] \subseteq Holders(chunkOf[d])
    BY <2>2 DEF HoldInv, Acked
  <2>4. QED
    BY <1>6, <1>7, <2>2, <2>3 DEF Holders, Deleting
<1>10. ASSUME NEW h \in Chunk PROVE Kept(h)'
  <2>1. CASE h \in stored
    BY <1>6, <1>7, <2>1, KeptStep DEF HoldInv, Kept
  <2>2. CASE h \in stored' \ stored
    <3>1. PICK c \in Call : /\ op[c] = "put" /\ clean[c] /\ chunkOf[c] = h
                            /\ Cardinality(acks[c]) >= W
      BY <1>5, <2>2 DEF Stores
    <3>2. ~Deleting(h) /\ acks[c] \subseteq Holders(h)
      BY <3>1 DEF HoldInv, Acked
    <3>3. Holders(h) \subseteq Replicas(h) /\ W \in Nat
      BY PrefFacts DEF Holders
    <3>4. Cardinality(Holders(h)) >= W
      <4>1. /\ Cardinality(acks[c]) \in Nat /\ Cardinality(Holders(h)) \in Nat
            /\ Cardinality(acks[c]) <= Cardinality(Holders(h))
        BY <3>2, <3>3, NoLarger
      <4>2. QED
        BY <3>1, <3>3, <4>1
    <3>5. QED
      BY <1>6, <1>7, <3>2, <3>4 DEF Kept
  <2>3. CASE h \notin stored'
    BY <2>3 DEF Kept
  <2>4. QED
    BY <2>1, <2>2, <2>3
<1>11. QED
  BY <1>8, <1>9, <1>10 DEF HoldInv

LEMMA HoldStep == ASSUME TypeOK, TypeOK', HoldInv, [Next]_vars PROVE HoldInv'
<1>1. CASE UNCHANGED vars
  BY <1>1 DEF vars, calls, history, HoldInv, Waits, Acked, Kept, Holders, Deleting
<1>2. QED
  BY <1>1, HoldNodeStep, HoldBeginStep, HoldCallStep DEF Next

LEMMA HoldAlways == Spec => []HoldInv
<1>1. Init => HoldInv
  BY DEF Init, HoldInv, Waits, Acked, Kept
<1>2. TypeOK /\ TypeOK' /\ HoldInv /\ [Next]_vars => HoldInv'
  BY HoldStep
<1>3. QED
  BY <1>1, <1>2, TypeCorrect, PTL DEF Spec

(* A chunk whose put reached its quorum stays on at least W replicas while *)
(* no delete of it is begun, through lost answers, timeouts, late          *)
(* requests, bit rot and the death of callers.                             *)
THEOREM StoredStaysHeld == Spec => []StoredHeld
<1>1. HoldInv /\ TypeOK => StoredHeld
  BY DEF HoldInv, Kept, StoredHeld, TypeOK
<1>2. QED
  BY <1>1, HoldAlways, TypeCorrect, PTL
-----------------------------------------------------------------------------
(* Reads.  What a walk over the replicas has behind it: W replicas that    *)
(* held the chunk when the read began hold it still, and those of them     *)
(* already asked have failed the read.  Copies may appear on replicas the  *)
(* walk has passed, so the current holders would not do for that set.      *)

MissedOK(c) ==
    op[c] \in {"get", "missing", "unavailable"} => missed[c] \subseteq Replicas(chunkOf[c])

Passed(h, H, M, n) ==
    \A j \in 1..Len(Pref[h]) : j < n /\ Pref[h][j] \in H => Pref[h][j] \in M

Walk(c) ==
    op[c] = "get" /\ clean[c] =>
        /\ chunkOf[c] \in stored
        /\ \E H \in SUBSET Holders(chunkOf[c]) :
              Cardinality(H) >= W /\ Passed(chunkOf[c], H, missed[c], i[c])

Survives(c) ==
    clean[c] /\ op[c] \in {"missing", "unavailable"} => Cardinality(missed[c]) >= W

ReadInv == \A c \in Call : MissedOK(c) /\ Walk(c) /\ Survives(c)

(* A step that leaves c's read alone. *)
LEMMA ReadKept ==
    ASSUME TypeOK, ReadInv, NEW c \in Call,
           op'[c] = op[c], chunkOf'[c] = chunkOf[c], i'[c] = i[c], missed'[c] = missed[c],
           clean'[c] => clean[c],
           op[c] = "get" /\ clean'[c] =>
               chunkOf[c] \in stored' /\ Holders(chunkOf[c]) \subseteq Holders(chunkOf[c])'
    PROVE  MissedOK(c)' /\ Walk(c)' /\ Survives(c)'
<1>1. MissedOK(c) /\ Walk(c) /\ Survives(c)
  BY DEF ReadInv
<1>2. MissedOK(c)' /\ Survives(c)'
  BY <1>1 DEF MissedOK, Survives
<1>3. ASSUME op[c] = "get", clean'[c]
      PROVE  chunkOf'[c] \in stored' /\ \E H \in SUBSET Holders(chunkOf[c])' :
                Cardinality(H) >= W /\ Passed(chunkOf'[c], H, missed'[c], i'[c])
  <2>1. PICK H \in SUBSET Holders(chunkOf[c]) :
          Cardinality(H) >= W /\ Passed(chunkOf[c], H, missed[c], i[c])
    BY <1>1, <1>3 DEF Walk
  <2>2. H \in SUBSET Holders(chunkOf[c])' /\ chunkOf'[c] \in stored'
    BY <1>3, <2>1
  <2>3. QED
    BY <2>1, <2>2
<1>4. Walk(c)'
  <2>1. (op[c] = "get")' => op[c] = "get"
    OBVIOUS
  <2>2. QED
    BY <1>3, <2>1 DEF Walk, Passed
<1>5. QED
  BY <1>2, <1>4

(* A call that is not reading, or no longer. *)
LEMMA NotReading ==
    ASSUME NEW c \in Call, op'[c] \notin {"get", "missing", "unavailable"}
    PROVE  MissedOK(c)' /\ Walk(c)' /\ Survives(c)'
BY DEF MissedOK, Walk, Survives

(* Steps of and between the nodes. *)
LEMMA ReadNodeStep ==
    ASSUME TypeOK, TypeOK', HoldInv, ReadInv,
           NodeStep \/ \E n \in Node, h \in Chunk : BitRot(n, h)
    PROVE  ReadInv'
<1> USE DEF TypeOK
<1>1. UNCHANGED <<op, chunkOf, i, missed, clean, stored>>
  BY DEF NodeStep, RequestHandled, RequestFails, RequestTimesOut, LateHandled, LateLost,
         BitRot, calls, history
<1>2. \A h \in Chunk : ~Deleting(h) => Holders(h) \subseteq Holders(h)'
  BY NodesKeep DEF NodeStep, RequestFails, RequestTimesOut, LateLost
<1>3. SUFFICES ASSUME NEW c \in Call PROVE MissedOK(c)' /\ Walk(c)' /\ Survives(c)'
  BY DEF ReadInv
<1>4. ASSUME op[c] = "get", clean'[c]
      PROVE  chunkOf[c] \in stored' /\ Holders(chunkOf[c]) \subseteq Holders(chunkOf[c])'
  <2>1. chunkOf[c] \in stored /\ chunkOf[c] \in Chunk
    BY <1>1, <1>4 DEF ReadInv, Walk
  <2>2. Holders(chunkOf[c]) \subseteq {n \in Replicas(chunkOf[c]) : disk'[n][chunkOf[c]] # "absent"}
    BY <1>2, <2>1 DEF HoldInv, Kept, Holders
  <2>3. QED
    BY <1>1, <2>1, <2>2 DEF Holders
<1>5. QED
  BY <1>1, <1>4, ReadKept

(* The beginning of a call. *)
LEMMA ReadBeginStep ==
    ASSUME TypeOK, TypeOK', HoldInv, ReadInv, NEW c \in Call, NEW h \in Chunk,
           PutChunk(c, h) \/ GetChunk(c, h) \/ DeleteChunk(c, h)
    PROVE  ReadInv'
<1> USE DEF TypeOK
<1>1. PICK kind \in Open : Begin(c, kind, h) /\ (kind = "get" => GetChunk(c, h))
  BY DEF PutChunk, GetChunk, DeleteChunk, Begin, Open
<1>2. /\ op' = [op EXCEPT ![c] = kind] /\ chunkOf' = [chunkOf EXCEPT ![c] = h]
      /\ i' = [i EXCEPT ![c] = 1] /\ missed' = [missed EXCEPT ![c] = {}]
      /\ UNCHANGED disk
  BY <1>1 DEF Begin
<1>3. \A d \in Call \ {c} : /\ clean'[d] => clean[d]
                            /\ clean'[d] /\ chunkOf[d] \in stored => chunkOf[d] \in stored'
  BY DEF PutChunk, GetChunk, DeleteChunk
<1>4. ASSUME NEW d \in Call, d # c PROVE MissedOK(d)' /\ Walk(d)' /\ Survives(d)'
  <2>1. /\ op'[d] = op[d] /\ chunkOf'[d] = chunkOf[d] /\ i'[d] = i[d]
        /\ missed'[d] = missed[d]
        /\ clean'[d] => clean[d]
    BY <1>2, <1>3, <1>4
  <2>2. Holders(chunkOf[d]) \subseteq Holders(chunkOf[d])'
    BY <1>2, <2>1 DEF Holders
  <2>3. op[d] = "get" /\ clean'[d] => chunkOf[d] \in stored'
    BY <1>3, <1>4, <2>1 DEF ReadInv, Walk
  <2>4. QED
    BY <2>1, <2>2, <2>3, ReadKept
<1>5. MissedOK(c)' /\ Walk(c)' /\ Survives(c)'
  <2>1. CASE kind # "get"
    BY <1>2, <2>1, NotReading DEF Open
  <2>2. CASE kind = "get"
    <3>1. /\ op'[c] = "get" /\ chunkOf'[c] = h /\ i'[c] = 1 /\ missed'[c] = {}
          /\ clean'[c] => h \in stored
          /\ stored' = stored
      BY <1>1, <1>2, <2>2 DEF GetChunk
    <3>2. MissedOK(c)' /\ Survives(c)'
      BY <3>1 DEF MissedOK, Survives
    <3>3. ASSUME clean'[c]
          PROVE  \E H \in SUBSET Holders(chunkOf[c])' :
                    Cardinality(H) >= W /\ Passed(h, H, {}, 1)
      <4>1. Cardinality(Holders(h)) >= W
        BY <3>1, <3>3 DEF HoldInv, Kept
      <4>2. Holders(chunkOf[c])' = Holders(h)
        BY <1>2, <3>1 DEF Holders
      <4>3. Passed(h, Holders(h), {}, 1)
        BY PrefFacts DEF Passed
      <4>4. QED
        BY <4>1, <4>2, <4>3
    <3>4. Walk(c)'
      BY <3>1, <3>3 DEF Walk, Passed
    <3>5. QED
      BY <3>2, <3>4
  <2>3. QED
    BY <2>1, <2>2
<1>6. QED
  BY <1>4, <1>5 DEF ReadInv

(* A replica fails the read: one that holds the chunk is counted for it. *)
LEMMA ReadAdvances ==
    ASSUME TypeOK, TypeOK', ReadInv, NEW c \in Call, NEW why \in Reasons, GetAdvances(c, why)
    PROVE  MissedOK(c)' /\ Walk(c)' /\ Survives(c)'
<1> USE DEF TypeOK
<1> DEFINE h == chunkOf[c]
           n == Pref[h][i[c]]
<1>1. /\ op[c] = "get" /\ op'[c] = "get" /\ h \in Chunk /\ chunkOf'[c] = h
      /\ i[c] \in 1..Len(Pref[h]) /\ i'[c] = i[c] + 1
      /\ UNCHANGED <<disk, stored, clean>>
  BY PrefFacts DEF GetAdvances, TryReplica, WalkOn
<1>2. /\ why \in GetFailure(disk[n][h])
      /\ missed'[c] = IF why = "not_found" THEN missed[c] ELSE missed[c] \cup {n}
  BY DEF GetAdvances
<1>3. n \in Replicas(h)
  BY <1>1, PrefFacts
<1>4. disk[n][h] # "absent" => n \in missed'[c]
  <2>1. n \in Node
    BY <1>1, PrefFacts
  <2>2. disk[n][h] \in {"absent", "good", "corrupt"}
    BY <1>1, <2>1
  <2>3. disk[n][h] # "absent" => why # "not_found"
    BY <1>2, <2>2 DEF GetFailure
  <2>4. QED
    BY <1>2, <2>3
<1>5. MissedOK(c)' /\ Survives(c)'
  BY <1>1, <1>2, <1>3 DEF ReadInv, MissedOK, Survives
<1>6. ASSUME clean[c]
      PROVE  h \in stored /\ \E H \in SUBSET Holders(h) :
                Cardinality(H) >= W /\ Passed(h, H, missed'[c], i[c] + 1)
  <2>1. h \in stored
    BY <1>1, <1>6 DEF ReadInv, Walk
  <2>2. PICK H \in SUBSET Holders(h) : Cardinality(H) >= W /\ Passed(h, H, missed[c], i[c])
    BY <1>1, <1>6 DEF ReadInv, Walk
  <2>3. ASSUME NEW j \in 1..Len(Pref[h]), j < i[c] + 1, Pref[h][j] \in H
        PROVE  Pref[h][j] \in missed'[c]
    <3>1. CASE j = i[c]
      BY <1>4, <2>3, <3>1 DEF Holders
    <3>2. CASE j < i[c]
      BY <1>2, <2>2, <2>3, <3>2 DEF Passed
    <3>3. Len(Pref[h]) \in Nat
      BY <1>1, PrefFacts
    <3>4. QED
      BY <1>1, <2>3, <3>1, <3>2, <3>3
  <2>4. Passed(h, H, missed'[c], i[c] + 1)
    BY <2>3 DEF Passed
  <2>5. QED
    BY <2>1, <2>2, <2>4
<1>7. Holders(chunkOf[c])' = Holders(h)
  BY <1>1 DEF Holders
<1>8. Walk(c)'
  <2>1. SUFFICES ASSUME clean[c]
                 PROVE  /\ chunkOf'[c] \in stored'
                        /\ \E H \in SUBSET Holders(chunkOf[c])' :
                              Cardinality(H) >= W /\ Passed(chunkOf'[c], H, missed'[c], i'[c])
    BY <1>1 DEF Walk, Passed
  <2>2. PICK H \in SUBSET Holders(h) :
          Cardinality(H) >= W /\ Passed(h, H, missed'[c], i[c] + 1)
    BY <1>6, <2>1
  <2>3. Passed(chunkOf'[c], H, missed'[c], i'[c])
    BY <1>1, <2>2
  <2>4. QED
    BY <1>1, <1>6, <1>7, <2>1, <2>2, <2>3
<1>9. QED
  BY <1>5, <1>8

(* The list is exhausted: every replica of the set has failed the read. *)
LEMMA ReadExhausted ==
    ASSUME TypeOK, TypeOK', ReadInv, NEW c \in Call, GetExhausted(c)
    PROVE  MissedOK(c)' /\ Walk(c)' /\ Survives(c)'
<1> USE DEF TypeOK
<1> DEFINE h == chunkOf[c]
<1>1. /\ op[c] = "get" /\ op'[c] \in {"missing", "unavailable"} /\ h \in Chunk
      /\ chunkOf'[c] = h /\ missed'[c] = missed[c] /\ clean'[c] = clean[c]
      /\ i[c] > Len(Pref[h])
  BY DEF GetExhausted, End
<1>2. MissedOK(c)' /\ missed[c] \subseteq Replicas(h)
  BY <1>1 DEF ReadInv, MissedOK
<1>3. ASSUME clean[c] PROVE Cardinality(missed[c]) >= W
  <2>1. PICK H \in SUBSET Holders(h) : Cardinality(H) >= W /\ Passed(h, H, missed[c], i[c])
    BY <1>1, <1>3 DEF ReadInv, Walk
  <2>2. \A j \in 1..Len(Pref[h]) : j < i[c]
    BY <1>1, PrefFacts
  <2>3. Replicas(h) = {Pref[h][j] : j \in 1..Len(Pref[h])}
    BY <1>1, PrefFacts DEF Replicas
  <2>4. ASSUME NEW m \in H PROVE m \in missed[c]
    <3>1. PICK j \in 1..Len(Pref[h]) : m = Pref[h][j]
      BY <2>3 DEF Holders
    <3>2. QED
      BY <2>1, <2>2, <3>1 DEF Passed
  <2>5. /\ Cardinality(H) \in Nat /\ Cardinality(missed[c]) \in Nat
        /\ Cardinality(H) <= Cardinality(missed[c]) /\ W \in Nat
    BY <1>1, <1>2, <2>4, NoLarger, PrefFacts
  <2>6. QED
    BY <2>1, <2>5
<1>4. Walk(c)' /\ Survives(c)'
  BY <1>1, <1>3 DEF Walk, Survives
<1>5. QED
  BY <1>2, <1>4

(* Steps of a call, its end included, and the death of callers. *)
LEMMA ReadCallStep ==
    ASSUME TypeOK, TypeOK', ReadInv,
           \/ \E c \in Call : CallStep(c)
           \/ \E C \in SUBSET Call : Abandon(C)
    PROVE  ReadInv'
<1> USE DEF TypeOK
<1>1. UNCHANGED <<disk, chunkOf, clean>> /\ stored \subseteq stored'
  BY DEF CallStep, PutOk, PutFailed, DeleteDone, GetServed, GetExhausted, GetAdvances, End,
         Abandon, history
<1>2. ASSUME NEW d \in Call, op'[d] = op[d], i'[d] = i[d], missed'[d] = missed[d]
      PROVE  MissedOK(d)' /\ Walk(d)' /\ Survives(d)'
  <2>1. Holders(chunkOf[d])' = Holders(chunkOf[d])
    BY <1>1 DEF Holders
  <2>2. op[d] = "get" /\ clean'[d] => chunkOf[d] \in stored'
    BY <1>1 DEF ReadInv, Walk
  <2>3. QED
    BY <1>1, <1>2, <2>1, <2>2, ReadKept
<1>3. ASSUME NEW c \in Call, CallStep(c), NEW d \in Call
      PROVE  MissedOK(d)' /\ Walk(d)' /\ Survives(d)'
  <2>1. CASE d # c
    <3>1. op'[d] = op[d] /\ i'[d] = i[d] /\ missed'[d] = missed[d]
      <4>1. CASE \E why \in Reasons : GetAdvances(c, why)
        BY <2>1, <4>1 DEF GetAdvances
      <4>2. \A x : End(c, x) => op'[d] = op[d] /\ i'[d] = i[d] /\ missed'[d] = missed[d]
        BY <2>1 DEF End
      <4>3. CASE PutOk(c) \/ PutFailed(c) \/ DeleteDone(c)
        BY <4>2, <4>3 DEF PutOk, PutFailed, DeleteDone
      <4>4. CASE GetServed(c) \/ GetExhausted(c)
        BY <4>2, <4>4 DEF GetServed, GetExhausted
      <4>5. QED
        BY <1>3, <4>1, <4>3, <4>4 DEF CallStep
    <3>2. QED
      BY <1>2, <3>1
  <2>2. CASE d = c /\ End(c, "none")
    BY <2>2, NotReading DEF End
  <2>3. CASE d = c /\ ~End(c, "none")
    BY <1>3, <2>3, ReadAdvances, ReadExhausted DEF CallStep, PutOk, PutFailed, DeleteDone,
         GetServed
  <2>4. QED
    BY <2>1, <2>2, <2>3
<1>4. ASSUME NEW C \in SUBSET Call, Abandon(C), NEW d \in Call
      PROVE  MissedOK(d)' /\ Walk(d)' /\ Survives(d)'
  <2>1. CASE d \in C
    BY <1>4, <2>1, NotReading DEF Abandon
  <2>2. CASE d \notin C
    <3>1. op'[d] = op[d] /\ i'[d] = i[d] /\ missed'[d] = missed[d]
      BY <1>4, <2>2 DEF Abandon, history
    <3>2. QED
      BY <1>2, <3>1
  <2>3. QED
    BY <2>1, <2>2
<1>5. QED
  BY <1>3, <1>4 DEF ReadInv

LEMMA ReadStep ==
    ASSUME TypeOK, TypeOK', HoldInv, ReadInv, [Next]_vars
    PROVE  ReadInv'
<1>1. CASE UNCHANGED vars
  BY <1>1 DEF vars, calls, history, ReadInv, MissedOK, Walk, Survives, Holders, Passed
<1>2. QED
  BY <1>1, ReadNodeStep, ReadBeginStep, ReadCallStep DEF Next

(* A get that began on a chunk a quorum write had stored, and met no       *)
(* delete, fails only after W replicas failed it (unreachable, damaged or  *)
(* cut off): below W failures every such read is served.                   *)
THEOREM ReadsStaySafe == Spec => []ReadsSurvive
<1>1. Init => ReadInv
  BY DEF Init, ReadInv, MissedOK, Walk, Survives
<1>2. TypeOK /\ TypeOK' /\ HoldInv /\ ReadInv /\ [Next]_vars => ReadInv'
  BY ReadStep
<1>3. ReadInv => ReadsSurvive
  BY DEF ReadInv, Survives, ReadsSurvive
<1>4. QED
  BY <1>1, <1>2, <1>3, TypeCorrect, HoldAlways, PTL DEF Spec
-----------------------------------------------------------------------------
(* What a module that composes Coordinator needs to know of a step. *)

(* A step that begins no call: no chunk is lost from what is stored, calls *)
(* stay as they are or end, and no new DELETE gets on its way.             *)
LEMMA QuietCalls ==
    ASSUME TypeOK,
           \/ NodeStep
           \/ \E c \in Call : CallStep(c)
           \/ \E C \in SUBSET Call : Abandon(C)
    PROVE  /\ UNCHANGED <<chunkOf, clean>> /\ stored \subseteq stored'
           /\ \A c \in Call : \/ op'[c] = op[c]
                              \/ op'[c] = "none"
                              \/ op[c] = "get" /\ op'[c] \in {"missing", "unavailable"}
           /\ \A n \in Node, h \in Chunk : <<"delete", n, h>> \in late' => Deleting(h)
<1> USE DEF TypeOK
<1> DEFINE Quiet ==
      /\ UNCHANGED <<chunkOf, clean>> /\ stored \subseteq stored'
      /\ \A c \in Call : \/ op'[c] = op[c]
                         \/ op'[c] = "none"
                         \/ op[c] = "get" /\ op'[c] \in {"missing", "unavailable"}
      /\ \A n \in Node, h \in Chunk : <<"delete", n, h>> \in late' => Deleting(h)
<1>1. ASSUME NEW c \in Call, NEW n \in Node,
             RequestHandled(c, n) \/ RequestFails(c, n) \/ RequestTimesOut(c, n)
      PROVE  Quiet
  <2>1. UNCHANGED <<op, chunkOf, clean, stored>>
    BY <1>1 DEF RequestHandled, RequestFails, RequestTimesOut, history
  <2>2. late' \subseteq late \cup {<<op[c], n, chunkOf[c]>>}
    BY <1>1 DEF RequestHandled, RequestFails, RequestTimesOut
  <2>3. QED
    BY <2>1, <2>2 DEF Deleting
<1>2. ASSUME NEW kind \in {"put", "delete"}, NEW n \in Node, NEW h \in Chunk,
             LateHandled(kind, n, h) \/ LateLost(kind, n, h)
      PROVE  Quiet
  <2>1. UNCHANGED <<op, chunkOf, clean, stored>> /\ late' \subseteq late
    BY <1>2 DEF LateHandled, LateLost, calls, history
  <2>2. QED
    BY <2>1 DEF Deleting
<1>3. ASSUME NEW c \in Call, CallStep(c) PROVE Quiet
  <2>1. UNCHANGED <<chunkOf, clean, late>> /\ stored \subseteq stored'
    BY <1>3 DEF CallStep, PutOk, PutFailed, DeleteDone, GetServed, GetAdvances, GetExhausted, End
  <2>2. \A d \in Call : \/ op'[d] = op[d]
                        \/ op'[d] = "none"
                        \/ op[d] = "get" /\ op'[d] \in {"missing", "unavailable"}
    BY <1>3 DEF CallStep, PutOk, PutFailed, DeleteDone, GetServed, GetAdvances, GetExhausted, End
  <2>3. QED
    BY <2>1, <2>2 DEF Deleting
<1>4. ASSUME NEW C \in SUBSET Call, Abandon(C) PROVE Quiet
  <2>1. /\ UNCHANGED <<chunkOf, clean, stored>>
        /\ op' = [c \in Call |-> IF c \in C THEN "none" ELSE op[c]]
    BY <1>4 DEF Abandon, history
  <2>2. PICK L \in SUBSET UNION {{<<op[c], n, chunkOf[c]>> : n \in wait[c]} : c \in C} :
          late' = late \cup L
    BY <1>4 DEF Abandon
  <2>3. ASSUME NEW n \in Node, NEW h \in Chunk, <<"delete", n, h>> \in L PROVE Deleting(h)
    <3>1. PICK c \in C : <<"delete", n, h>> \in {<<op[c], m, chunkOf[c]>> : m \in wait[c]}
      BY <2>3
    <3>2. c \in Call /\ op[c] = "delete" /\ chunkOf[c] = h
      BY <3>1
    <3>3. QED
      BY <3>2 DEF Deleting
  <2>4. QED
    BY <2>1, <2>2, <2>3 DEF Deleting
<1>5. QED
  BY <1>1, <1>2, <1>3, <1>4 DEF NodeStep

(* A copy comes from a PUT that somebody waits for or that is late. *)
LEMMA NewCopy ==
    ASSUME TypeOK, NodeStep, NEW n \in Node, NEW h \in Chunk,
           disk[n][h] = "absent", disk'[n][h] # "absent"
    PROVE  \/ \E c \in Call : op[c] = "put" /\ chunkOf[c] = h
           \/ <<"put", n, h>> \in late
<1> USE DEF TypeOK
<1>1. ASSUME NEW c \in Call, NEW m \in Node, RequestHandled(c, m)
      PROVE  op[c] = "put" /\ chunkOf[c] = h
  BY <1>1 DEF RequestHandled, Handle
<1>2. ASSUME NEW kind \in {"put", "delete"}, NEW m \in Node, NEW x \in Chunk,
             LateHandled(kind, m, x)
      PROVE  <<"put", n, h>> \in late
  <2>1. disk' = [disk EXCEPT ![m][x] = IF kind = "put" THEN AfterPut(@) ELSE "absent"]
    BY <1>2 DEF LateHandled, Handle
  <2>2. m = n /\ x = h /\ kind = "put"
    BY <2>1
  <2>3. QED
    BY <1>2, <2>2 DEF LateHandled
<1>3. CASE UNCHANGED disk
  BY <1>3
<1>4. QED
  BY <1>1, <1>2, <1>3 DEF NodeStep, RequestFails, RequestTimesOut, LateLost

(* A node that a delete counts as done has just dropped its copy, or was   *)
(* counted before.                                                         *)
LEMMA DeleteAcked ==
    ASSUME TypeOK, NodeStep, NEW c \in Call, op[c] = "delete", NEW n \in acks'[c]
    PROVE  n \in acks[c] \/ disk'[n][chunkOf[c]] = "absent"
<1> USE DEF TypeOK
<1>1. ASSUME NEW d \in Call, NEW m \in Node, RequestHandled(d, m)
      PROVE  n \in acks[c] \/ disk'[n][chunkOf[c]] = "absent"
  <2>1. CASE d = c
    BY <1>1, <2>1 DEF RequestHandled, Handle
  <2>2. CASE d # c
    BY <1>1, <2>2 DEF RequestHandled
  <2>3. QED
    BY <2>1, <2>2
<1>2. CASE UNCHANGED acks
  BY <1>2
<1>3. QED
  BY <1>1, <1>2 DEF NodeStep, RequestFails, RequestTimesOut, LateHandled, LateLost, calls
=============================================================================
