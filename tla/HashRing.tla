------------------------------ MODULE HashRing ------------------------------
(***************************************************************************)
(* hashRing.js: a sorted array of virtual nodes, the binary search for a   *)
(* key's place in it, and the clockwise walk that collects the preference  *)
(* list.  Positions are the numbers below Size (2^32 in the code); where   *)
(* SHA-1 puts the virtual nodes is arbitrary, so pos is chosen once, and   *)
(* two of them may coincide.                                               *)
(***************************************************************************)
EXTENDS Naturals, Sequences, FiniteSets, SequencesExt

CONSTANTS Node,         \* node ids
          VNodes,       \* virtualNodesPerPhysicalNode
          Size          \* positions on the ring

ASSUME RingAssumption == IsFiniteSet(Node) /\ VNodes \in Nat \ {0} /\ Size \in Nat \ {0}

Position == 0..(Size - 1)

VARIABLES pos,          \* pos[n][j]: positionFor of n's j-th virtual node
          ring,         \* the array of [position, node] entries
          nodes         \* the set of nodes

vars == <<pos, ring, nodes>>

Init == /\ pos \in [Node -> [1..VNodes -> Position]]
        /\ ring = <<>>
        /\ nodes = {}
-----------------------------------------------------------------------------
(* The entries of s at the indices in DOMAIN place, each at its place. *)
Listed(s, place) ==
    [r \in 1..Cardinality(DOMAIN place) |-> s[CHOOSE i \in DOMAIN place : place[i] = r]]

(* Mutant: the array is not sorted again. *)
Unsorted(s) == s

(* Array.prototype.sort by position is stable: an entry's place is the     *)
(* number of entries before it, those of its own position in their order.  *)
Sorted(s) ==
    Listed(s, [i \in DOMAIN s |-> Cardinality(
        {j \in DOMAIN s : \/ s[j].position < s[i].position
                          \/ s[j].position = s[i].position /\ j <= i})])

(* push of every virtual node, then sort. *)
AddNode(n) ==
    /\ n \notin nodes
    /\ nodes' = nodes \cup {n}
    /\ ring' = Sorted(ring \o [j \in 1..VNodes |-> [position |-> pos[n][j], node |-> n]])
    /\ UNCHANGED pos

(* Mutant: only the first of the node's entries goes. *)
WithoutFirst(s, n) == RemoveFirstMatch(s, LAMBDA x : x.node = n)

(* Array.prototype.filter keeps the order of what it keeps. *)
Without(s, n) ==
    LET kept == {i \in DOMAIN s : s[i].node # n}
    IN  Listed(s, [i \in kept |-> Cardinality({j \in kept : j <= i})])

RemoveNode(n) ==
    /\ n \in nodes
    /\ nodes' = nodes \ {n}
    /\ ring' = Without(ring, n)
    /\ UNCHANGED pos
-----------------------------------------------------------------------------
(* Mutant: hi starts at the last index, so a key behind every entry does   *)
(* not wrap.                                                               *)
SearchEndShort(s) == Len(s) - 1

(* let hi = this.ring.length *)
SearchEnd(s) == Len(s)

(* The binary search over indices from 0, for the first entry not before   *)
(* p; its state is the pair of lo and hi.                                  *)
LowerBound(s, p) ==
    LET Search[w \in (0..Len(s)) \X (0..Len(s))] ==
          LET lo  == w[1]
              hi  == w[2]
              mid == (lo + hi) \div 2
          IN  IF lo >= hi THEN lo
              ELSE IF s[mid + 1].position < p THEN Search[<<mid + 1, hi>>]
              ELSE Search[<<lo, mid>>]
    IN  Search[<<0, SearchEnd(s)>>]

StartIdx(s, p) == LET lo == LowerBound(s, p) IN IF lo = Len(s) THEN 0 ELSE lo

(* The entries in the order the walk meets them, from the key's place on. *)
Turn(s, p) == [j \in 1..Len(s) |-> s[((StartIdx(s, p) + j - 1) % Len(s)) + 1]]

(* One step of the walk: skip a node already seen, stop at n nodes. *)
Collect(n, result, e) ==
    IF Len(result) >= n \/ e.node \in ToSet(result) THEN result ELSE Append(result, e.node)

(* preferenceList for a key at position p. *)
PreferenceList(s, p, n) ==
    LET turn == Turn(s, p)
        Walk[j \in 0..Len(s)] == IF j = 0 THEN <<>> ELSE Collect(n, Walk[j - 1], turn[j])
    IN  Walk[Len(s)]
-----------------------------------------------------------------------------
Next == \E n \in Node : AddNode(n) \/ RemoveNode(n)

Spec == Init /\ [][Next]_vars
-----------------------------------------------------------------------------
(* Properties *)

Replicas == 1..(Cardinality(Node) + 1)

(* The array holds the virtual nodes of the present nodes, each once, in  *)
(* the order the binary search relies on, after any series of changes.     *)
TypeOK ==
    /\ pos \in [Node -> [1..VNodes -> Position]]
    /\ ring \in Seq([position : Position, node : Node])
    /\ nodes \subseteq Node
    /\ \A j \in 1..(Len(ring) - 1) : ring[j].position <= ring[j + 1].position
    /\ \A n \in Node, p \in Position :
          Cardinality({j \in DOMAIN ring : ring[j] = [position |-> p, node |-> n]})
            = IF n \in nodes THEN Cardinality({j \in 1..VNodes : pos[n][j] = p}) ELSE 0

(* Clockwise distance from p to the nearest virtual node of n. *)
Clockwise(p, q) == (q + Size - p) % Size
Distance(n, p) ==
    CHOOSE d \in Position : /\ \E j \in 1..VNodes : Clockwise(p, pos[n][j]) = d
                            /\ \A j \in 1..VNodes : Clockwise(p, pos[n][j]) >= d

(* A key's preference list names distinct nodes, as many as are asked for  *)
(* or there are, and they are the ones nearest to the key going clockwise, *)
(* nearest first, wherever the key falls and however the ring came about.  *)
NearestFirst ==
    \A p \in Position, n \in Replicas :
        LET list == PreferenceList(ring, p, n)
            in   == ToSet(list)
        IN  /\ in \subseteq nodes /\ IsInjective(list)
            /\ Len(list) = IF n <= Cardinality(nodes) THEN n ELSE Cardinality(nodes)
            /\ \A j \in 1..(Len(list) - 1) : Distance(list[j], p) <= Distance(list[j + 1], p)
            /\ \A x \in in, y \in nodes \ in : Distance(x, p) <= Distance(y, p)

(* A chunk's replicas are looked for where they were put: a node that      *)
(* joins only pushes others back in the lists it enters, one that leaves   *)
(* only lets those behind it move up, and the rest keep their order.       *)
SameButFor(x, list, other) ==
    \A j \in DOMAIN list : list[j] # x =>
        LET q == Cardinality({i \in 1..j : list[i] # x})
        IN  q \in DOMAIN other /\ other[q] = list[j]
MinimalDisruption ==
    [][\A p \in Position, n \in Replicas :
          LET before == PreferenceList(ring, p, n)
              after  == PreferenceList(ring', p, n)
          IN  /\ \A x \in nodes' \ nodes : SameButFor(x, after, before)
              /\ \A x \in nodes \ nodes' : SameButFor(x, before, after)]_vars
=============================================================================
