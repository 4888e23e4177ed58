--------------------------- MODULE HashRingProofs ---------------------------
(***************************************************************************)
(* HashRing for any nodes, any number of virtual nodes and positions, any  *)
(* placement of them, and any series of joins and departures.              *)
(***************************************************************************)
EXTENDS HashRing, FiniteSetTheorems, SequenceTheorems, WellFoundedInduction, TLAPS

Entry == [position : Position, node : Node]

(* The order the binary search relies on. *)
Ordered(s) == \A i, j \in DOMAIN s : i <= j => s[i].position <= s[j].position

(* What the entries of an array are. *)
LEMMA Entries ==
    ASSUME NEW s \in Seq(Entry)
    PROVE  /\ Len(s) \in Nat /\ DOMAIN s = 1..Len(s)
           /\ \A i \in 1..Len(s) : s[i] \in Entry /\ s[i].position \in Position /\ s[i].node \in Node
<1>1. Len(s) \in Nat /\ DOMAIN s = 1..Len(s) /\ \A i \in 1..Len(s) : s[i] \in Entry
  OBVIOUS
<1>2. \A e \in Entry : e.position \in Position /\ e.node \in Node
  BY DEF Entry
<1>3. QED
  BY <1>1, <1>2

(* A position is a number below Size. *)
LEMMA Positions == \A p \in Position : p \in Nat /\ p < Size
BY RingAssumption DEF Position
-----------------------------------------------------------------------------
(* Numbers and recursive functions *)

(* A nonempty set of naturals has a least member; every induction below is *)
(* by the least counterexample.                                            *)
LEMMA LeastNatural == ASSUME NEW S, S \subseteq Nat, S # {} PROVE \E x \in S : \A y \in S : x <= y
<1> DEFINE R == {ss \in Nat \X Nat : ss[1] < ss[2]}
<1>1. IsWellFoundedOn(R, Nat)
  BY NatLessThanWellFounded DEF OpToRel
<1>2. \A a, b \in Nat : a < b => <<a, b>> \in R
  OBVIOUS
<1> HIDE DEF R
<1>3. PICK x \in S : \A y \in S : ~(<<y, x>> \in R)
  BY <1>1, WFMin
<1>4. ASSUME NEW y \in S PROVE x <= y
  <2>1. x \in Nat /\ y \in Nat /\ ~(y < x)
    BY <1>2, <1>3
  <2>2. QED
    BY <2>1
<1>5. QED
  BY <1>4

(* The remainder of a number below twice the modulus, as in the index of   *)
(* the walk and the clockwise distance.                                    *)
LEMMA SmallMod ==
    ASSUME NEW a \in Nat, NEW m \in Nat \ {0}
    PROVE  /\ a < m => a % m = a
           /\ m <= a /\ a < m + m => a % m = a - m
<1> DEFINE q == a \div m
<1>1. m \in Nat /\ m > 0
  OBVIOUS
<1>2. q \in Nat /\ a = m * q + (a % m) /\ a % m \in Nat /\ a % m < m
  BY <1>1
<1> HIDE DEF q
<1>3. q >= 1 => m * q >= m
  BY <1>2
<1>4. q >= 2 => m * q >= m + m
  BY <1>2
<1>5. q = 0 => m * q = 0
  BY <1>2
<1>6. q = 1 => m * q = m
  BY <1>2
<1>7. QED
  BY <1>2, <1>3, <1>4, <1>5, <1>6

(* A recursion on the naturals up to n, with its step given as a function. *)
Steps(step, n, S) == step \in [(1..n) \X S -> S]

Recursion(f, S, base, n, step) ==
    f \in [0..n -> S] /\ f[0] = base /\ \A j \in 1..n : f[j] = step[<<j, f[j - 1]>>]

(* Such a recursion has a solution. *)
LEMMA RecursionExists ==
    ASSUME NEW S, NEW base \in S, NEW n \in Nat, NEW step, Steps(step, n, S)
    PROVE  \E f : Recursion(f, S, base, n, step)
<1> USE DEF Steps
<1> DEFINE Solves(f, m) == f[0] = base /\ \A j \in 1..m : f[j] = step[<<j, f[j - 1]>>]
           None == {m \in 0..n : ~\E f \in [0..m -> S] : Solves(f, m)}
<1>1. ASSUME None # {} PROVE FALSE
  <2>1. PICK m \in None : \A y \in None : m <= y
    <3>1. None \subseteq Nat
      OBVIOUS
    <3> HIDE DEF None
    <3>2. QED
      BY <1>1, <3>1, LeastNatural
  <2>2. m \in 0..n /\ ~\E f \in [0..m -> S] : Solves(f, m)
    OBVIOUS
  <2>3. m # 0
    <3> SUFFICES ASSUME m = 0 PROVE FALSE
      OBVIOUS
    <3>1. [x \in 0..0 |-> base] \in [0..0 -> S] /\ Solves([x \in 0..0 |-> base], 0)
      OBVIOUS
    <3> HIDE DEF Solves
    <3>2. QED
      BY <2>2, <3>1
  <2>4. m - 1 \in 0..n /\ m - 1 \notin None
    <3>1. m - 1 \in 0..n /\ ~(m <= m - 1)
      BY <2>2, <2>3
    <3> HIDE DEF None
    <3>2. QED
      BY <2>1, <3>1
  <2>5. PICK f \in [0..(m - 1) -> S] : Solves(f, m - 1)
    BY <2>4
  <2> DEFINE g == [x \in 0..m |-> IF x = m THEN step[<<m, f[m - 1]>>] ELSE f[x]]
  <2>6. f[m - 1] \in S /\ <<m, f[m - 1]>> \in (1..n) \X S
    BY <2>2, <2>3
  <2>7. g \in [0..m -> S]
    BY <2>2, <2>3, <2>6
  <2>8. g[0] = base
    BY <2>2, <2>3, <2>5
  <2>9. ASSUME NEW j \in 1..m PROVE g[j] = step[<<j, g[j - 1]>>]
    <3>1. CASE j = m
      <4>1. g[m] = step[<<m, f[m - 1]>>] /\ g[m - 1] = f[m - 1]
        BY <2>2, <2>3
      <4>2. QED
        BY <3>1, <4>1
    <3>2. CASE j # m
      <4>1. j \in 1..(m - 1) /\ g[j] = f[j] /\ g[j - 1] = f[j - 1]
        BY <2>2, <2>3, <3>2
      <4>2. QED
        BY <2>5, <4>1
    <3>3. QED
      BY <3>1, <3>2
  <2>10. QED
    BY <2>2, <2>7, <2>8, <2>9
<1>2. n \in 0..n /\ n \notin None
  <2>1. n \in 0..n /\ None = {}
    BY <1>1
  <2> HIDE DEF None
  <2>2. QED
    BY <2>1
<1>3. QED
  BY <1>2 DEF Recursion
-----------------------------------------------------------------------------
(* The binary search *)

(* The place the search looks for: before it the smaller positions, from   *)
(* it on the others.                                                       *)
Splits(s, p, lb) ==
    /\ lb \in 0..Len(s)
    /\ \A i \in 1..Len(s) : s[i].position < p <=> i <= lb

(* A sorted array has such a place. *)
LEMMA SplitExists ==
    ASSUME NEW s \in Seq(Entry), Ordered(s), NEW p \in Position
    PROVE  \E lb : Splits(s, p, lb)
<1> DEFINE S == {x \in 0..Len(s) : x = Len(s) \/ s[x + 1].position >= p}
<1>1. /\ Len(s) \in Nat /\ DOMAIN s = 1..Len(s) /\ p \in Int
      /\ \A i \in 1..Len(s) : s[i].position \in Int
  BY Entries, Positions
<1>2. PICK lb \in S : \A y \in S : lb <= y
  <2>1. S \subseteq Nat /\ Len(s) \in S
    BY <1>1
  <2> HIDE DEF S
  <2>2. QED
    BY <2>1, LeastNatural
<1>3. lb \in 0..Len(s) /\ (lb = Len(s) \/ s[lb + 1].position >= p)
  OBVIOUS
<1> HIDE DEF S
<1>4. ASSUME NEW i \in 1..Len(s), i <= lb PROVE s[i].position < p
  <2>1. i - 1 \in 0..Len(s) /\ ~(lb <= i - 1) /\ i - 1 # Len(s) /\ (i - 1) + 1 = i
    <3>1. Len(s) \in Nat /\ lb \in 0..Len(s) /\ i <= lb
      BY <1>1, <1>3, <1>4
    <3>2. QED
      BY <3>1
  <2>2. i - 1 \notin S
    BY <1>2, <2>1
  <2>3. ~(s[(i - 1) + 1].position >= p)
    BY <2>1, <2>2 DEF S
  <2>4. QED
    BY <1>1, <2>1, <2>3
<1>5. ASSUME NEW i \in 1..Len(s), ~(i <= lb) PROVE ~(s[i].position < p)
  <2>1. lb + 1 \in 1..Len(s) /\ lb + 1 <= i /\ s[lb + 1].position >= p
    <3>1. Len(s) \in Nat /\ lb \in 0..Len(s) /\ ~(i <= lb)
      BY <1>1, <1>3, <1>5
    <3>2. lb + 1 \in 1..Len(s) /\ lb + 1 <= i /\ lb # Len(s)
      BY <3>1
    <3>3. QED
      BY <1>3, <3>2
  <2>2. s[lb + 1].position <= s[i].position
    BY <1>1, <2>1 DEF Ordered
  <2>3. QED
    BY <1>1, <2>1, <2>2
<1>6. QED
  BY <1>3, <1>4, <1>5 DEF Splits

(* The binary search of preferenceList finds it: in a window of the array  *)
(* it returns that place, or the end of the window nearest to it.          *)
LEMMA SearchFinds ==
    ASSUME NEW s \in Seq(Entry), NEW p \in Position, NEW lb, Splits(s, p, lb)
    PROVE  LowerBound(s, p) = lb
<1> DEFINE N == Len(s)
           I == 0..N
           Clamp(lo, hi) == IF lo >= hi \/ lb < lo THEN lo ELSE IF lb > hi THEN hi ELSE lb
           Mid(w) == (w[1] + w[2]) \div 2
           Body(f, w) ==
               IF w[1] >= w[2] THEN w[1]
               ELSE IF s[Mid(w) + 1].position < p THEN f[<<Mid(w) + 1, w[2]>>]
               ELSE f[<<w[1], Mid(w)>>]
           Solves(f) == f = [w \in I \X I |-> Body(f, w)]
           Search == CHOOSE f : Solves(f)
           g == [w \in I \X I |-> Clamp(w[1], w[2])]
<1>1. N \in Nat /\ lb \in I /\ \A k \in 1..N : s[k].position < p <=> k <= lb
  BY Entries DEF Splits
<1>2. LowerBound(s, p) = Search[<<0, N>>]
  BY DEF LowerBound, SearchEnd
<1>3. ASSUME NEW lo \in I, NEW hi \in I, lo < hi, NEW mid \in Int, mid = (lo + hi) \div 2
      PROVE  /\ mid \in I /\ mid + 1 \in I /\ lo <= mid /\ mid < hi
             /\ s[mid + 1].position < p => Clamp(mid + 1, hi) = Clamp(lo, hi)
             /\ ~(s[mid + 1].position < p) => Clamp(lo, mid) = Clamp(lo, hi)
  <2>1. mid \in I /\ mid + 1 \in 1..N /\ lo <= mid /\ mid < hi
    <3>1. N \in Nat
      BY <1>1
    <3> HIDE DEF N
    <3>2. QED
      BY <1>3, <3>1
  <2>2. s[mid + 1].position < p <=> mid + 1 <= lb
    BY <1>1, <2>1
  <2>3. N \in Nat /\ lb \in 0..N
    BY <1>1
  <2> HIDE DEF N
  <2>4. mid + 1 <= lb => Clamp(mid + 1, hi) = Clamp(lo, hi)
    BY <1>3, <2>1, <2>3
  <2>5. ~(mid + 1 <= lb) => Clamp(lo, mid) = Clamp(lo, hi)
    BY <1>3, <2>1, <2>3
  <2>6. mid + 1 \in I
    BY <2>1, <2>3
  <2> HIDE DEF Clamp
  <2>7. QED
    BY <2>1, <2>2, <2>4, <2>5, <2>6
<1> HIDE DEF Clamp
<1>4. ASSUME NEW w \in I \X I
      PROVE  /\ w[1] \in I /\ w[2] \in I /\ w = <<w[1], w[2]>>
             /\ w[1] >= w[2] => Clamp(w[1], w[2]) = w[1]
             /\ ~(w[1] >= w[2]) =>
                   /\ Mid(w) \in I /\ Mid(w) + 1 \in I /\ w[1] <= Mid(w) /\ Mid(w) < w[2]
                   /\ s[Mid(w) + 1].position < p => Clamp(Mid(w) + 1, w[2]) = Clamp(w[1], w[2])
                   /\ ~(s[Mid(w) + 1].position < p) => Clamp(w[1], Mid(w)) = Clamp(w[1], w[2])
  <2>1. w[1] \in I /\ w[2] \in I /\ w = <<w[1], w[2]>>
    OBVIOUS
  <2>2. w[1] >= w[2] => Clamp(w[1], w[2]) = w[1]
    BY DEF Clamp
  <2>3. ~(w[1] >= w[2]) => w[1] < w[2]
    BY <1>1, <2>1
  <2>4. Mid(w) = (w[1] + w[2]) \div 2
    OBVIOUS
  <2> HIDE DEF Mid, N, I
  <2>5. ASSUME ~(w[1] >= w[2])
        PROVE  /\ Mid(w) \in I /\ Mid(w) + 1 \in I /\ w[1] <= Mid(w) /\ Mid(w) < w[2]
               /\ s[Mid(w) + 1].position < p => Clamp(Mid(w) + 1, w[2]) = Clamp(w[1], w[2])
               /\ ~(s[Mid(w) + 1].position < p) => Clamp(w[1], Mid(w)) = Clamp(w[1], w[2])
    <3>1. Mid(w) \in Int /\ w[1] < w[2]
      BY <1>1, <2>1, <2>3, <2>4, <2>5 DEF I
    <3>2. QED
      BY <1>3, <2>1, <2>4, <3>1
  <2>6. QED
    BY <2>1, <2>2, <2>5, Zenon
<1> HIDE DEF N, Mid
<1>5. ASSUME NEW w \in I \X I PROVE Body(g, w) = Clamp(w[1], w[2])
  <2>1. CASE w[1] >= w[2]
    BY <1>4, <2>1
  <2>2. CASE ~(w[1] >= w[2])
    <3>1. /\ g[<<Mid(w) + 1, w[2]>>] = Clamp(Mid(w) + 1, w[2])
          /\ g[<<w[1], Mid(w)>>] = Clamp(w[1], Mid(w))
      BY <1>4, <2>2
    <3> HIDE DEF g
    <3>2. QED
      BY <1>4, <2>2, <3>1
  <2>3. QED
    BY <2>1, <2>2
<1>6. Solves(g)
  <2>1. g = [w \in I \X I |-> Body(g, w)]
    <3> HIDE DEF Body
    <3>1. QED
      BY <1>5
  <2>2. QED
    BY <2>1
<1>7. Solves(Search)
  <2> HIDE DEF Solves
  <2>1. QED
    BY <1>6
<1> HIDE DEF Search, g
<1>8. \A w \in I \X I : Search[w] = Body(Search, w)
  BY <1>7
<1> DEFINE Wrong == {d \in Nat : \E w \in I \X I : w[2] - w[1] = d /\ Search[w] # Clamp(w[1], w[2])}
<1>9. ASSUME Wrong # {} PROVE FALSE
  <2>1. PICK d \in Wrong : \A y \in Wrong : d <= y
    <3>1. Wrong \subseteq Nat
      OBVIOUS
    <3> HIDE DEF Wrong
    <3>2. QED
      BY <1>9, <3>1, LeastNatural
  <2>2. PICK w \in I \X I : w[2] - w[1] = d /\ Search[w] # Clamp(w[1], w[2])
    OBVIOUS
  <2>3. ASSUME NEW v \in I \X I, v[2] - v[1] < d, v[1] <= v[2]
        PROVE  Search[v] = Clamp(v[1], v[2])
    <3>1. v[2] - v[1] \in Nat /\ d \in Nat /\ ~(d <= v[2] - v[1])
      BY <1>1, <1>4, <2>3
    <3>2. v[2] - v[1] \notin Wrong
      <4> HIDE DEF Wrong
      <4>1. QED
        BY <2>1, <3>1
    <3>3. QED
      BY <3>1, <3>2
  <2>4. CASE w[1] >= w[2]
    BY <1>4, <1>8, <2>2, <2>4
  <2>5. CASE ~(w[1] >= w[2])
    <3>1. /\ Mid(w) \in I /\ Mid(w) + 1 \in I /\ w[1] \in I /\ w[2] \in I
          /\ w[1] <= Mid(w) /\ Mid(w) < w[2]
      BY <1>4, <2>5
    <3>2. /\ <<Mid(w) + 1, w[2]>> \in I \X I /\ <<w[1], Mid(w)>> \in I \X I
          /\ w[2] - (Mid(w) + 1) < d /\ Mid(w) + 1 <= w[2] /\ Mid(w) - w[1] < d
      BY <1>1, <2>2, <3>1
    <3>3. Search[<<Mid(w) + 1, w[2]>>] = Clamp(Mid(w) + 1, w[2])
      BY <2>3, <3>1, <3>2
    <3>4. Search[<<w[1], Mid(w)>>] = Clamp(w[1], Mid(w))
      BY <2>3, <3>1, <3>2
    <3>5. QED
      BY <1>4, <1>8, <2>2, <2>5, <3>3, <3>4
  <2>6. QED
    BY <2>4, <2>5
<1>10. Search[<<0, N>>] = Clamp(0, N)
  <2>1. <<0, N>> \in I \X I /\ N - 0 = N /\ N \in Nat
    BY <1>1
  <2>2. N \notin Wrong
    <3> HIDE DEF Wrong
    <3>1. QED
      BY <1>9
  <2>3. QED
    BY <2>1, <2>2
<1>11. Clamp(0, N) = lb
  BY <1>1 DEF Clamp
<1>12. QED
  BY <1>2, <1>10, <1>11
-----------------------------------------------------------------------------
(* Places in an order *)

(* Sets in bijection have one size. *)
LEMMA SameSize ==
    ASSUME NEW S, NEW T, IsFiniteSet(S), NEW f \in [S -> T],
           \A a, b \in S : f[a] = f[b] => a = b,
           \A b \in T : \E a \in S : f[a] = b
    PROVE  IsFiniteSet(T) /\ Cardinality(T) = Cardinality(S)
<1>1. f \in Surjection(S, T)
  BY DEF Surjection
<1>2. f \in Injection(S, T)
  BY DEF Injection, IsInjective
<1>3. QED
  BY <1>1, <1>2, FS_Surjection

(* place numbers the members of I from 1 to n. *)
Numbers(place, I, n) ==
    /\ place \in [I -> 1..n]
    /\ \A i, j \in I : place[i] = place[j] => i = j
    /\ \A r \in 1..n : \E i \in I : place[i] = r

TotalOrder(R, I) ==
    /\ \A i \in I : <<i, i>> \in R
    /\ \A i, j \in I : <<i, j>> \in R \/ <<j, i>> \in R
    /\ \A i, j \in I : <<i, j>> \in R /\ <<j, i>> \in R => i = j
    /\ \A i, j, k \in I : <<i, j>> \in R /\ <<j, k>> \in R => <<i, k>> \in R

Rank(R, I) == [i \in I |-> Cardinality({j \in I : <<j, i>> \in R})]

(* In a finite total order, counting the elements up to each of them       *)
(* numbers them in that order.                                             *)
LEMMA RankPlaces ==
    ASSUME NEW I, IsFiniteSet(I), NEW R, TotalOrder(R, I)
    PROVE  /\ Cardinality(I) \in Nat /\ Numbers(Rank(R, I), I, Cardinality(I))
           /\ \A i, j \in I : <<i, j>> \in R <=> Rank(R, I)[i] <= Rank(R, I)[j]
<1> DEFINE place == Rank(R, I)
<1> USE DEF TotalOrder
<1> DEFINE Down(i) == {j \in I : <<j, i>> \in R}
<1>1. place = [i \in I |-> Cardinality(Down(i))]
  BY DEF Rank
<1>2. \A i \in I : Down(i) \subseteq I /\ i \in Down(i) /\ Down(i) # {}
  OBVIOUS
<1>3. ASSUME NEW i \in I, NEW j \in I, <<i, j>> \in R
      PROVE  Down(i) \subseteq Down(j) /\ (j \in Down(i) => i = j)
  BY <1>3
<1>4. \A i \in I : place[i] = Cardinality(Down(i))
  <2> HIDE DEF Down, place
  <2>1. QED
    BY <1>1
<1> HIDE DEF Down, place
<1>5. Cardinality(I) \in Nat
  BY FS_CardinalityType
<1>6. ASSUME NEW i \in I
      PROVE  IsFiniteSet(Down(i)) /\ place[i] \in 1..Cardinality(I)
  <2>1. IsFiniteSet(Down(i)) /\ Cardinality(Down(i)) <= Cardinality(I)
    BY <1>2, FS_Subset
  <2>2. Cardinality(Down(i)) \in Nat /\ Cardinality(Down(i)) # 0
    BY <1>2, <2>1, FS_CardinalityType, FS_EmptySet
  <2>3. QED
    BY <1>4, <1>5, <2>1, <2>2
<1>7. ASSUME NEW i \in I, NEW j \in I, <<i, j>> \in R
      PROVE  place[i] <= place[j] /\ (place[i] = place[j] => i = j)
  <2>1. Down(i) \in SUBSET Down(j)
    BY <1>3, <1>7
  <2>2. /\ Cardinality(Down(i)) <= Cardinality(Down(j))
        /\ Cardinality(Down(j)) = Cardinality(Down(i)) => Down(j) = Down(i)
    BY <1>6, <2>1, FS_Subset
  <2>3. QED
    BY <1>4, <1>2, <1>3, <1>7, <2>2
<1>8. ASSUME NEW i \in I, NEW j \in I, place[i] = place[j] PROVE i = j
  BY <1>7, <1>8
<1>9. ASSUME NEW i \in I, NEW j \in I, ~(<<i, j>> \in R) PROVE ~(place[i] <= place[j])
  <2>1. <<j, i>> \in R /\ i # j
    BY <1>9
  <2>2. place[j] <= place[i] /\ place[i] # place[j]
    BY <1>7, <2>1
  <2>3. place[i] \in Int /\ place[j] \in Int
    BY <1>5, <1>6
  <2>4. QED
    BY <2>2, <2>3
<1>10. place \in [I -> 1..Cardinality(I)]
  BY <1>1, <1>6
<1>11. ASSUME NEW r \in 1..Cardinality(I) PROVE \E i \in I : place[i] = r
  <2>1. place \in Injection(I, 1..Cardinality(I))
    BY <1>8, <1>10 DEF Injection, IsInjective
  <2>2. IsFiniteSet(1..Cardinality(I)) /\ Cardinality(1..Cardinality(I)) = Cardinality(I)
    BY <1>5, FS_Interval
  <2>3. place \in Surjection(I, 1..Cardinality(I))
    BY <2>1, <2>2, FS_Injection
  <2>4. QED
    BY <2>3 DEF Surjection
<1>12. \A i, j \in I : <<i, j>> \in R <=> place[i] <= place[j]
  BY <1>7, <1>9
<1>13. Numbers(place, I, Cardinality(I))
  BY <1>8, <1>10, <1>11 DEF Numbers
<1>14. QED
  BY <1>5, <1>12, <1>13 DEF place

(* What Listed builds from such a numbering. *)
LEMMA ListedAt ==
    ASSUME NEW s, NEW I, NEW n \in Nat, n = Cardinality(I), NEW place, Numbers(place, I, n),
           \A i \in I : s[i] \in Entry
    PROVE  /\ Listed(s, place) \in Seq(Entry) /\ Len(Listed(s, place)) = n
           /\ \A i \in I : Listed(s, place)[place[i]] = s[i]
<1> DEFINE At(r) == CHOOSE i \in I : place[i] = r
           l == [r \in 1..n |-> s[At(r)]]
<1> USE DEF Numbers
<1>1. Listed(s, place) = l
  BY DEF Listed
<1>2. \A r \in 1..n : At(r) \in I /\ place[At(r)] = r
  OBVIOUS
<1>3. \A i \in I : At(place[i]) = i
  BY <1>2
<1> HIDE DEF At
<1>4. l \in [1..n -> Entry]
  BY <1>2
<1>5. l \in Seq(Entry) /\ Len(l) = n
  <2> HIDE DEF l
  <2>1. QED
    BY <1>4
<1>6. \A i \in I : l[place[i]] = s[i]
  BY <1>3
<1>7. QED
  BY <1>1, <1>5, <1>6

Precedes(s, i, j) == \/ s[i].position < s[j].position
                     \/ s[i].position = s[j].position /\ i <= j

(* place says where in sorted each entry of s is. *)
Sorts(s, sorted, place) ==
    /\ Numbers(place, 1..Len(s), Len(s))
    /\ \A i \in 1..Len(s) : sorted[place[i]] = s[i]
    /\ \A i, j \in 1..Len(s) : Precedes(s, i, j) <=> place[i] <= place[j]

(* The sort of addNode permutes the entries, into the order of Precedes. *)
LEMMA SortedAt ==
    ASSUME NEW s \in Seq(Entry)
    PROVE  /\ Sorted(s) \in Seq(Entry) /\ Len(Sorted(s)) = Len(s)
           /\ \E place : Sorts(s, Sorted(s), place)
<1> DEFINE I == 1..Len(s)
           R == {w \in I \X I : Precedes(s, w[1], w[2])}
           Up(i) == {j \in I : \/ s[j].position < s[i].position
                               \/ s[j].position = s[i].position /\ j <= i}
           place == [i \in I |-> Cardinality(Up(i))]
<1>1. /\ Len(s) \in Nat /\ DOMAIN s = I
      /\ \A i \in I : s[i] \in Entry /\ s[i].position \in Int /\ i \in Int
  BY Entries, Positions
<1>2. Sorted(s) = Listed(s, place)
  BY <1>1 DEF Sorted
<1>3. \A i, j \in I : <<i, j>> \in R <=> Precedes(s, i, j)
  OBVIOUS
<1>4. \A i \in I : Up(i) = {j \in I : <<j, i>> \in R}
  BY <1>3 DEF Precedes
<1>5. place = Rank(R, I)
  BY <1>4 DEF Rank
<1>6. /\ \A i \in I : Precedes(s, i, i)
      /\ \A i, j \in I : Precedes(s, i, j) \/ Precedes(s, j, i)
      /\ \A i, j \in I : Precedes(s, i, j) /\ Precedes(s, j, i) => i = j
      /\ \A i, j, k \in I : Precedes(s, i, j) /\ Precedes(s, j, k) => Precedes(s, i, k)
  <2> HIDE DEF I
  <2>1. QED
    BY <1>1 DEF Precedes
<1>7. Len(s) \in Nat /\ IsFiniteSet(I) /\ Cardinality(I) = Len(s)
  <2>1. Len(s) \in Nat
    BY <1>1
  <2>2. QED
    BY <2>1, FS_Interval
<1> HIDE DEF I, R, place
<1>8. TotalOrder(R, I)
  BY <1>3, <1>6 DEF TotalOrder
<1>9. Numbers(place, I, Len(s)) /\ \A i, j \in I : <<i, j>> \in R <=> place[i] <= place[j]
  BY <1>5, <1>7, <1>8, RankPlaces
<1>10. /\ Listed(s, place) \in Seq(Entry) /\ Len(Listed(s, place)) = Len(s)
       /\ \A i \in I : Listed(s, place)[place[i]] = s[i]
  <2>1. Len(s) \in Nat /\ Len(s) = Cardinality(I) /\ \A i \in I : s[i] \in Entry
    BY <1>1, <1>7
  <2>2. QED
    BY <1>9, <2>1, ListedAt
<1>11. Sorts(s, Sorted(s), place)
  BY <1>2, <1>3, <1>9, <1>10 DEF I, Sorts
<1>12. QED
  BY <1>2, <1>10, <1>11

Kept(s, x) == {i \in 1..Len(s) : s[i].node # x}

(* The filter of removeNode keeps the other entries, in their order. *)
LEMMA WithoutAt ==
    ASSUME NEW s \in Seq(Entry), NEW x
    PROVE  /\ Without(s, x) \in Seq(Entry)
           /\ \E place : /\ Numbers(place, Kept(s, x), Len(Without(s, x)))
                         /\ \A i \in Kept(s, x) : Without(s, x)[place[i]] = s[i]
                         /\ \A i, j \in Kept(s, x) : i <= j <=> place[i] <= place[j]
<1> DEFINE I == Kept(s, x)
           R == {w \in I \X I : w[1] <= w[2]}
           place == [i \in I |-> Cardinality({j \in I : j <= i})]
<1>1. Len(s) \in Nat /\ DOMAIN s = 1..Len(s) /\ \A i \in I : s[i] \in Entry /\ i \in Int
  BY Entries DEF Kept
<1>2. Without(s, x) = Listed(s, place)
  BY <1>1 DEF Without, Kept
<1>3. \A i, j \in I : <<i, j>> \in R <=> i <= j
  OBVIOUS
<1>4. \A i \in I : {j \in I : j <= i} = {j \in I : <<j, i>> \in R}
  BY <1>3
<1>5. place = Rank(R, I)
  BY <1>4 DEF Rank
<1>6. IsFiniteSet(I)
  <2>1. IsFiniteSet(1..Len(s)) /\ I \subseteq 1..Len(s)
    BY <1>1, FS_Interval DEF Kept
  <2>2. QED
    BY <2>1, FS_Subset
<1> HIDE DEF I, R, place
<1>7. /\ \A i \in I : i <= i
      /\ \A i, j \in I : i <= j \/ j <= i
      /\ \A i, j \in I : i <= j /\ j <= i => i = j
      /\ \A i, j, k \in I : i <= j /\ j <= k => i <= k
  BY <1>1
<1>8. TotalOrder(R, I)
  BY <1>3, <1>7 DEF TotalOrder
<1>9. /\ Cardinality(I) \in Nat /\ Numbers(place, I, Cardinality(I))
      /\ \A i, j \in I : <<i, j>> \in R <=> place[i] <= place[j]
  BY <1>5, <1>6, <1>8, RankPlaces
<1>10. /\ Listed(s, place) \in Seq(Entry) /\ Len(Listed(s, place)) = Cardinality(I)
       /\ \A i \in I : Listed(s, place)[place[i]] = s[i]
  <2>1. \A i \in I : s[i] \in Entry
    BY <1>1
  <2>2. QED
    BY <1>9, <2>1, ListedAt
<1>11. \A i, j \in I : i <= j <=> place[i] <= place[j]
  BY <1>3, <1>9
<1>12. QED
  BY <1>2, <1>9, <1>10, <1>11 DEF I
-----------------------------------------------------------------------------
(* What a join and a departure do to the array *)

(* small is large without the entries of x, in the same order; e says     *)
(* where each entry of small is in large.                                  *)
Embedded(small, large, x, e) ==
    /\ e \in [1..Len(small) -> 1..Len(large)]
    /\ \A i, j \in 1..Len(small) : i < j <=> e[i] < e[j]
    /\ \A i \in 1..Len(small) : large[e[i]] = small[i] /\ small[i].node # x
    /\ \A k \in 1..Len(large) : large[k].node # x => \E i \in 1..Len(small) : e[i] = k

(* So the array after removeNode is embedded in the one before. *)
LEMMA WithoutEmbeds ==
    ASSUME NEW s \in Seq(Entry), NEW x
    PROVE  Without(s, x) \in Seq(Entry) /\ \E e : Embedded(Without(s, x), s, x, e)
<1> DEFINE small == Without(s, x)
           kept == Kept(s, x)
<1>1. PICK place : /\ Numbers(place, kept, Len(small))
                   /\ \A i \in kept : small[place[i]] = s[i]
                   /\ \A i, j \in kept : i <= j <=> place[i] <= place[j]
  BY WithoutAt
<1> DEFINE At(r) == CHOOSE i \in kept : place[i] = r
           e == [r \in 1..Len(small) |-> At(r)]
<1>2. small \in Seq(Entry) /\ Len(small) \in Nat
  BY WithoutAt
<1>3. kept \subseteq 1..Len(s) /\ \A i \in kept : s[i].node # x
  BY DEF Kept
<1>4. \A i \in 1..Len(s) : s[i].node # x => i \in kept
  BY DEF Kept
<1>5. Len(s) \in Nat
  BY Entries
<1> HIDE DEF kept, small
<1>6. \A r \in 1..Len(small) : At(r) \in kept /\ place[At(r)] = r
  BY <1>1 DEF Numbers
<1>7. \A i \in kept : place[i] \in 1..Len(small) /\ At(place[i]) = i
  BY <1>1, <1>6 DEF Numbers
<1> HIDE DEF At
<1>8. e \in [1..Len(small) -> 1..Len(s)]
  BY <1>3, <1>6
<1>9. \A r \in 1..Len(small) : e[r] \in kept /\ place[e[r]] = r
  BY <1>6
<1>10. \A i \in kept : e[place[i]] = i
  BY <1>7
<1> HIDE DEF e
<1>11. ASSUME NEW i \in 1..Len(small), NEW j \in 1..Len(small) PROVE i < j <=> e[i] < e[j]
  <2>1. e[j] <= e[i] <=> j <= i
    BY <1>1, <1>9
  <2>2. i \in Int /\ j \in Int /\ e[i] \in Int /\ e[j] \in Int
    BY <1>2, <1>8, <1>5
  <2>3. QED
    BY <2>1, <2>2
<1>12. \A r \in 1..Len(small) : s[e[r]] = small[r] /\ small[r].node # x
  BY <1>1, <1>3, <1>9
<1>13. \A k \in 1..Len(s) : s[k].node # x => \E r \in 1..Len(small) : e[r] = k
  BY <1>4, <1>7, <1>10
<1>14. Embedded(small, s, x, e)
  BY <1>8, <1>11, <1>12, <1>13 DEF Embedded
<1>15. QED
  BY <1>2, <1>14 DEF small

(* f says where the entries of x, at the positions P, are in large. *)
Placed(large, x, P, f) ==
    /\ f \in [1..VNodes -> 1..Len(large)]
    /\ \A i, j \in 1..VNodes : f[i] = f[j] => i = j
    /\ \A j \in 1..VNodes : large[f[j]] = [position |-> P[j], node |-> x]
    /\ \A k \in 1..Len(large) : large[k].node = x => \E j \in 1..VNodes : f[j] = k

VEntries(x, P) == [j \in 1..VNodes |-> [position |-> P[j], node |-> x]]

(* The array before addNode is embedded in the one after, which is sorted  *)
(* and holds the new node's entries besides.                               *)
LEMMA SortedEmbeds ==
    ASSUME NEW s \in Seq(Entry), Ordered(s), NEW x \in Node, NEW P \in [1..VNodes -> Position],
           \A i \in 1..Len(s) : s[i].node # x,
           NEW large, large = Sorted(s \o VEntries(x, P))
    PROVE  /\ large \in Seq(Entry) /\ Ordered(large)
           /\ \E e : Embedded(s, large, x, e)
           /\ \E f : Placed(large, x, P, f)
<1> DEFINE v == VEntries(x, P)
           t == s \o v
<1>1. /\ v \in Seq(Entry) /\ Len(v) = VNodes
      /\ \A j \in 1..VNodes : v[j] = [position |-> P[j], node |-> x]
  <2>1. v \in [1..VNodes -> Entry] /\ \A j \in 1..VNodes : v[j] = [position |-> P[j], node |-> x]
    BY DEF Entry, VEntries
  <2>2. VNodes \in Nat
    BY RingAssumption
  <2> HIDE DEF v
  <2>3. QED
    BY <2>1, <2>2
<1> HIDE DEF v
<1>2. v \in Seq(Entry) /\ Len(v) = VNodes
  BY <1>1
<1>3. t \in Seq(Entry) /\ Len(t) \in Nat /\ Len(t) = Len(s) + Len(v)
  <2>1. t \in Seq(Entry) /\ Len(t) = Len(s) + Len(v)
    BY <1>2, ConcatProperties
  <2> HIDE DEF t
  <2>2. Len(t) \in Nat
    BY <2>1
  <2>3. QED
    BY <2>1, <2>2
<1>4. Len(s) \in Nat /\ VNodes \in Nat /\ Len(t) = Len(s) + VNodes
  BY <1>2, <1>3, RingAssumption
<1>5. \A i \in 1..Len(s) : i \in 1..Len(t) /\ t[i] = s[i] /\ i <= Len(s) /\ i \in Int
  BY <1>2, <1>4
<1>6. \A j \in 1..VNodes : Len(s) + j \in 1..Len(t) /\ t[Len(s) + j] = v[j]
  BY <1>2, <1>4
<1>7. \A k \in 1..Len(t) : k \in 1..Len(s) \/ \E j \in 1..VNodes : k = Len(s) + j
  <2>1. ASSUME NEW k \in 1..Len(t), ~(k \in 1..Len(s)) PROVE \E j \in 1..VNodes : k = Len(s) + j
    <3>1. k - Len(s) \in 1..VNodes /\ k = Len(s) + (k - Len(s))
      <4> HIDE DEF t
      <4>1. QED
        BY <1>4, <2>1
    <3>2. QED
      BY <3>1
  <2>2. QED
    BY <2>1
<1> HIDE DEF t
<1>8. large = Sorted(t)
  BY DEF t, v
<1>9. large \in Seq(Entry) /\ Len(large) = Len(t)
  BY <1>3, <1>8, SortedAt
<1>10. PICK place : Sorts(t, large, place)
  BY <1>3, <1>8, SortedAt
<1>11. /\ Numbers(place, 1..Len(t), Len(t))
       /\ \A i \in 1..Len(t) : large[place[i]] = t[i]
       /\ \A i, j \in 1..Len(t) : Precedes(t, i, j) <=> place[i] <= place[j]
  BY <1>10 DEF Sorts
<1>12. /\ \A i \in 1..Len(t) : place[i] \in 1..Len(large) /\ place[i] \in Int
       /\ \A i, j \in 1..Len(t) : place[i] = place[j] => i = j
       /\ \A k \in 1..Len(large) : \E i \in 1..Len(t) : place[i] = k
  <2>1. Len(t) \in Nat /\ Len(large) = Len(t)
    BY <1>3, <1>9
  <2>2. place \in [1..Len(t) -> 1..Len(t)]
    BY <1>11 DEF Numbers
  <2>3. \A i \in 1..Len(t) : place[i] \in 1..Len(large) /\ place[i] \in Int
    BY <2>1, <2>2
  <2>4. QED
    BY <1>11, <2>1, <2>3 DEF Numbers
<1>13. \A i \in 1..Len(t) : t[i].position \in Int
  BY <1>3, Entries, Positions
<1>14. Ordered(large)
  <2> SUFFICES ASSUME NEW a \in 1..Len(large), NEW b \in 1..Len(large), a <= b
               PROVE  large[a].position <= large[b].position
    BY <1>9, Entries DEF Ordered
  <2>1. PICK i \in 1..Len(t) : place[i] = a
    BY <1>12
  <2>2. PICK j \in 1..Len(t) : place[j] = b
    BY <1>12
  <2>3. Precedes(t, i, j) /\ large[a] = t[i] /\ large[b] = t[j]
    BY <1>11, <2>1, <2>2
  <2>4. QED
    BY <1>13, <2>3 DEF Precedes
<1>15. \E e : Embedded(s, large, x, e)
  <2> DEFINE e == [i \in 1..Len(s) |-> place[i]]
  <2>1. e \in [1..Len(s) -> 1..Len(large)] /\ \A i \in 1..Len(s) : e[i] = place[i]
    BY <1>5, <1>12
  <2> HIDE DEF e
  <2>2. ASSUME NEW i \in 1..Len(s), NEW j \in 1..Len(s) PROVE i <= j <=> Precedes(t, i, j)
    <3>1. i <= j => s[i].position <= s[j].position
      BY Entries DEF Ordered
    <3>2. ~(i <= j) => s[j].position <= s[i].position
      <4>1. ~(i <= j) => j <= i
        BY <1>5
      <4>2. QED
        BY <4>1, Entries DEF Ordered
    <3>3. t[i] = s[i] /\ t[j] = s[j] /\ s[i].position \in Int /\ s[j].position \in Int
      BY <1>5, <1>13
    <3>4. QED
      BY <3>1, <3>2, <3>3 DEF Precedes
  <2>3. ASSUME NEW i \in 1..Len(s), NEW j \in 1..Len(s) PROVE i < j <=> e[i] < e[j]
    <3>1. j <= i <=> place[j] <= place[i]
      BY <1>5, <1>11, <2>2
    <3>2. i \in Int /\ j \in Int /\ place[i] \in Int /\ place[j] \in Int
      BY <1>5, <1>12
    <3>3. QED
      BY <2>1, <3>1, <3>2
  <2>4. \A i \in 1..Len(s) : large[e[i]] = s[i] /\ s[i].node # x
    BY <1>5, <1>11, <2>1
  <2>5. ASSUME NEW k \in 1..Len(large), large[k].node # x PROVE \E i \in 1..Len(s) : e[i] = k
    <3>1. PICK i \in 1..Len(t) : place[i] = k
      BY <1>12
    <3>2. CASE i \in 1..Len(s)
      BY <2>1, <3>1, <3>2
    <3>3. CASE \E j \in 1..VNodes : i = Len(s) + j
      <4>1. PICK j \in 1..VNodes : i = Len(s) + j
        BY <3>3
      <4>2. large[k] = v[j] /\ v[j].node = x
        <5>1. large[k] = t[i] /\ t[i] = v[j]
          BY <1>6, <1>11, <3>1, <4>1
        <5>2. v[j].node = x
          BY <1>1
        <5>3. QED
          BY <5>1, <5>2
      <4>3. QED
        BY <2>5, <4>2
    <3>4. QED
      BY <1>7, <3>2, <3>3
  <2>6. Embedded(s, large, x, e)
    BY <2>1, <2>3, <2>4, <2>5 DEF Embedded
  <2>7. QED
    BY <2>6
<1>16. \E f : Placed(large, x, P, f)
  <2> DEFINE f == [j \in 1..VNodes |-> place[Len(s) + j]]
  <2>1. f \in [1..VNodes -> 1..Len(large)] /\ \A j \in 1..VNodes : f[j] = place[Len(s) + j]
    BY <1>6, <1>12
  <2> HIDE DEF f
  <2>2. ASSUME NEW i \in 1..VNodes, NEW j \in 1..VNodes, f[i] = f[j] PROVE i = j
    <3>1. Len(s) + i = Len(s) + j
      <4>1. Len(s) + i \in 1..Len(t) /\ Len(s) + j \in 1..Len(t)
        BY <1>6
      <4>2. place[Len(s) + i] = place[Len(s) + j]
        BY <2>1, <2>2
      <4>3. QED
        BY <1>12, <4>1, <4>2
    <3>2. i \in Int /\ j \in Int /\ Len(s) \in Int
      BY <1>4
    <3>3. QED
      BY <3>1, <3>2
  <2>3. \A j \in 1..VNodes : large[f[j]] = [position |-> P[j], node |-> x]
    BY <1>1, <1>6, <1>11, <2>1
  <2>4. ASSUME NEW k \in 1..Len(large), large[k].node = x PROVE \E j \in 1..VNodes : f[j] = k
    <3>1. PICK i \in 1..Len(t) : place[i] = k
      BY <1>12
    <3>2. i \notin 1..Len(s)
      BY <1>5, <1>11, <2>4, <3>1
    <3>3. QED
      BY <1>7, <2>1, <3>1, <3>2
  <2>5. Placed(large, x, P, f)
    BY <2>1, <2>2, <2>3, <2>4 DEF Placed
  <2>6. QED
    BY <2>5
<1>17. QED
  BY <1>9, <1>14, <1>15, <1>16

(* Part of a sorted array is sorted. *)
LEMMA EmbeddedOrdered ==
    ASSUME NEW small \in Seq(Entry), NEW large \in Seq(Entry), Ordered(large), NEW x, NEW e,
           Embedded(small, large, x, e)
    PROVE  Ordered(small)
<1>1. /\ DOMAIN small = 1..Len(small) /\ Len(small) \in Nat
      /\ DOMAIN large = 1..Len(large) /\ Len(large) \in Nat
  BY Entries
<1>2. SUFFICES ASSUME NEW i \in 1..Len(small), NEW j \in 1..Len(small), i <= j
               PROVE  small[i].position <= small[j].position
  BY <1>1 DEF Ordered
<1>3. /\ e[i] \in 1..Len(large) /\ e[j] \in 1..Len(large)
      /\ large[e[i]] = small[i] /\ large[e[j]] = small[j]
      /\ i < j => e[i] < e[j]
  BY DEF Embedded
<1>4. e[i] <= e[j]
  BY <1>1, <1>2, <1>3
<1>5. QED
  BY <1>1, <1>3, <1>4 DEF Ordered

Held(s, n, p) == {j \in DOMAIN s : s[j] = [position |-> p, node |-> n]}

(* The number of entries of every other node is the same in both. *)
LEMMA EmbeddedCounts ==
    ASSUME NEW small \in Seq(Entry), NEW large \in Seq(Entry), NEW x, NEW e,
           Embedded(small, large, x, e), NEW n, NEW p
    PROVE  /\ n # x => Cardinality(Held(large, n, p)) = Cardinality(Held(small, n, p))
           /\ n = x => Cardinality(Held(small, n, p)) = 0
<1>1. /\ DOMAIN small = 1..Len(small) /\ Len(small) \in Nat
      /\ DOMAIN large = 1..Len(large) /\ Len(large) \in Nat
  BY Entries
<1> DEFINE r == [position |-> p, node |-> n]
<1>2. r.node = n
  OBVIOUS
<1> HIDE DEF r
<1>3. /\ \A i : i \in Held(small, n, p) <=> i \in 1..Len(small) /\ small[i] = r
      /\ \A i : i \in Held(large, n, p) <=> i \in 1..Len(large) /\ large[i] = r
  BY <1>1 DEF Held, r
<1>4. ASSUME n = x PROVE Cardinality(Held(small, n, p)) = 0
  <2>1. Held(small, n, p) = {}
    BY <1>2, <1>3, <1>4 DEF Embedded
  <2>2. QED
    BY <2>1, FS_EmptySet
<1>5. ASSUME n # x PROVE Cardinality(Held(large, n, p)) = Cardinality(Held(small, n, p))
  <2> DEFINE S == Held(small, n, p)
             T == Held(large, n, p)
             f == [i \in S |-> e[i]]
  <2>1. IsFiniteSet(S)
    <3>1. IsFiniteSet(1..Len(small)) /\ S \in SUBSET (1..Len(small))
      BY <1>1, <1>3, FS_Interval
    <3>2. QED
      BY <3>1, FS_Subset
  <2>2. f \in [S -> T]
    BY <1>3 DEF Embedded
  <2>3. ASSUME NEW a \in S, NEW b \in S, f[a] = f[b] PROVE a = b
    <3>1. a \in 1..Len(small) /\ b \in 1..Len(small) /\ e[a] = e[b] /\ e[a] \in Int /\ e[b] \in Int
      BY <1>1, <1>3, <2>3 DEF Embedded
    <3>2. ~(a < b) /\ ~(b < a)
      BY <3>1 DEF Embedded
    <3>3. QED
      BY <1>1, <3>1, <3>2
  <2>4. ASSUME NEW b \in T PROVE \E a \in S : f[a] = b
    <3>1. PICK i \in 1..Len(small) : e[i] = b
      BY <1>2, <1>3, <1>5 DEF Embedded
    <3>2. i \in S
      BY <1>3, <3>1 DEF Embedded
    <3>3. QED
      BY <3>1, <3>2
  <2> HIDE DEF S, T, f
  <2>5. QED
    BY <2>1, <2>2, <2>3, <2>4, SameSize DEF S, T
<1>6. QED
  BY <1>4, <1>5

(* The new node has the entries it should have. *)
LEMMA PlacedCounts ==
    ASSUME NEW large \in Seq(Entry), NEW x, NEW P, NEW f, Placed(large, x, P, f), NEW p
    PROVE  Cardinality(Held(large, x, p)) = Cardinality({j \in 1..VNodes : P[j] = p})
<1>1. DOMAIN large = 1..Len(large) /\ VNodes \in Nat
  BY Entries, RingAssumption
<1> DEFINE S == {j \in 1..VNodes : P[j] = p}
           T == Held(large, x, p)
           g == [j \in S |-> f[j]]
<1>2. \A i : i \in T <=> i \in 1..Len(large) /\ large[i] = [position |-> p, node |-> x]
  BY <1>1 DEF Held
<1>3. IsFiniteSet(S)
  <2>1. IsFiniteSet(1..VNodes) /\ S \in SUBSET (1..VNodes)
    BY <1>1, FS_Interval
  <2> HIDE DEF S
  <2>2. QED
    BY <2>1, FS_Subset
<1>4. g \in [S -> T] /\ \A a \in S : g[a] = f[a]
  BY <1>2 DEF Placed
<1>5. \A a, b \in S : g[a] = g[b] => a = b
  BY DEF Placed
<1>6. ASSUME NEW b \in T PROVE \E a \in S : g[a] = b
  <2>1. b \in 1..Len(large) /\ large[b].node = x /\ large[b].position = p
    BY <1>2
  <2>2. PICK j \in 1..VNodes : f[j] = b
    BY <2>1 DEF Placed
  <2>3. P[j] = p
    <3>1. large[b] = [position |-> P[j], node |-> x]
      BY <2>2 DEF Placed
    <3>2. large[b].position = P[j]
      BY <3>1
    <3>3. QED
      BY <2>1, <3>2
  <2>4. QED
    BY <2>2, <2>3
<1> HIDE DEF S, T, g
<1>7. QED
  BY <1>3, <1>4, <1>5, <1>6, SameSize DEF S, T
-----------------------------------------------------------------------------
(* The array after any series of joins and departures *)

Inv == TypeOK /\ Ordered(ring)

(* The array holds entries of the present nodes only, and all of them. *)
LEMMA Contents ==
    ASSUME TypeOK
    PROVE  /\ ring \in Seq(Entry)
           /\ \A i \in 1..Len(ring) :
                 /\ ring[i].node \in nodes
                 /\ \E j \in 1..VNodes : pos[ring[i].node][j] = ring[i].position
           /\ \A n \in nodes, j \in 1..VNodes :
                 \E i \in 1..Len(ring) : ring[i] = [position |-> pos[n][j], node |-> n]
<1> DEFINE Want(n, p) == {j \in 1..VNodes : pos[n][j] = p}
<1>1. /\ ring \in Seq(Entry) /\ nodes \subseteq Node /\ pos \in [Node -> [1..VNodes -> Position]]
      /\ \A n \in Node, p \in Position :
            Cardinality(Held(ring, n, p)) = IF n \in nodes THEN Cardinality(Want(n, p)) ELSE 0
  BY DEF TypeOK, Entry, Held
<1>2. DOMAIN ring = 1..Len(ring) /\ Len(ring) \in Nat
  BY <1>1, Entries
<1>3. \A n, p : IsFiniteSet(Want(n, p)) /\ IsFiniteSet(Held(ring, n, p))
  <2>1. IsFiniteSet(1..VNodes) /\ IsFiniteSet(1..Len(ring))
    BY <1>2, RingAssumption, FS_Interval
  <2>2. \A n, p : Want(n, p) \in SUBSET (1..VNodes) /\ Held(ring, n, p) \in SUBSET (1..Len(ring))
    BY <1>2 DEF Held
  <2> HIDE DEF Want
  <2>3. QED
    BY <2>1, <2>2, FS_Subset
<1> HIDE DEF Want
<1>4. \A n \in Node, p \in Position :
         /\ n \in nodes => (Held(ring, n, p) = {} <=> Want(n, p) = {})
         /\ n \notin nodes => Held(ring, n, p) = {}
  BY <1>1, <1>3, FS_EmptySet
<1>5. ASSUME NEW i \in 1..Len(ring)
      PROVE  /\ ring[i].node \in nodes
             /\ \E j \in 1..VNodes : pos[ring[i].node][j] = ring[i].position
  <2>1. ring[i] \in Entry /\ ring[i].node \in Node /\ ring[i].position \in Position
    BY <1>1, Entries
  <2>2. ring[i] = [position |-> ring[i].position, node |-> ring[i].node]
    BY <2>1 DEF Entry
  <2>3. i \in Held(ring, ring[i].node, ring[i].position)
    BY <1>2, <2>2 DEF Held
  <2>4. ring[i].node \in nodes /\ Want(ring[i].node, ring[i].position) # {}
    BY <1>4, <2>1, <2>3
  <2>5. QED
    BY <2>4 DEF Want
<1>6. ASSUME NEW n \in nodes, NEW j \in 1..VNodes
      PROVE  \E i \in 1..Len(ring) : ring[i] = [position |-> pos[n][j], node |-> n]
  <2>1. n \in Node /\ pos[n][j] \in Position
    BY <1>1
  <2>2. j \in Want(n, pos[n][j])
    BY DEF Want
  <2>3. Held(ring, n, pos[n][j]) # {}
    BY <1>4, <2>1, <2>2
  <2>4. QED
    BY <1>2, <2>3 DEF Held
<1>7. QED
  BY <1>1, <1>5, <1>6

(* A join embeds the old array in the new one, a departure the new one in  *)
(* the old.                                                                *)
LEMMA JoinEmbeds ==
    ASSUME Inv, NEW x \in Node, AddNode(x)
    PROVE  /\ ring \in Seq(Entry) /\ ring' \in Seq(Entry) /\ Ordered(ring')
           /\ \E e : Embedded(ring, ring', x, e)
           /\ \E f : Placed(ring', x, pos[x], f)
<1>1. /\ ring \in Seq(Entry) /\ Ordered(ring) /\ x \notin nodes /\ pos[x] \in [1..VNodes -> Position]
      /\ ring' = Sorted(ring \o VEntries(x, pos[x]))
  BY DEF Inv, TypeOK, AddNode, Entry, VEntries
<1>2. \A i \in 1..Len(ring) : ring[i].node # x
  BY <1>1, Contents DEF Inv
<1>3. QED
  BY <1>1, <1>2, SortedEmbeds

(* The same for removeNode. *)
LEMMA DepartureEmbeds ==
    ASSUME Inv, NEW x \in Node, RemoveNode(x)
    PROVE  /\ ring \in Seq(Entry) /\ ring' \in Seq(Entry) /\ Ordered(ring')
           /\ \E e : Embedded(ring', ring, x, e)
<1>1. ring \in Seq(Entry) /\ Ordered(ring) /\ ring' = Without(ring, x)
  BY DEF Inv, TypeOK, RemoveNode, Entry
<1>2. ring' \in Seq(Entry) /\ \E e : Embedded(ring', ring, x, e)
  BY <1>1, WithoutEmbeds
<1>3. QED
  BY <1>1, <1>2, EmbeddedOrdered

(* Ordered and Held say of the array what TypeOK says of it. *)
LEMMA TypeOKFrom ==
    ASSUME NEW r \in Seq(Entry), Ordered(r)
    PROVE  \A j \in 1..(Len(r) - 1) : r[j].position <= r[j + 1].position
<1>1. Len(r) \in Nat /\ DOMAIN r = 1..Len(r)
  BY Entries
<1>2. \A j \in 1..(Len(r) - 1) : j \in 1..Len(r) /\ j + 1 \in 1..Len(r) /\ j <= j + 1
  BY <1>1
<1>3. QED
  BY <1>1, <1>2 DEF Ordered

(* The empty array of the constructor. *)
LEMMA InvInit == Init => Inv
<1> SUFFICES ASSUME Init PROVE Inv
  OBVIOUS
<1>1. ring = <<>> /\ nodes = {} /\ pos \in [Node -> [1..VNodes -> Position]]
  BY DEF Init
<1>2. ring \in Seq([position : Position, node : Node]) /\ DOMAIN ring = {} /\ Len(ring) = 0
  BY <1>1
<1>3. Ordered(ring) /\ \A j \in 1..(Len(ring) - 1) : ring[j].position <= ring[j + 1].position
  BY <1>2 DEF Ordered
<1>4. \A n, p : {j \in DOMAIN ring : ring[j] = [position |-> p, node |-> n]} = {}
  BY <1>2
<1>5. \A n \in Node, p \in Position :
         Cardinality({j \in DOMAIN ring : ring[j] = [position |-> p, node |-> n]}) = 0
  BY <1>4, FS_EmptySet
<1>6. QED
  BY <1>1, <1>2, <1>3, <1>5 DEF Inv, TypeOK

(* A step on a node x keeps what TypeOK says of the number of entries. *)
LEMMA InvNext == Inv /\ [Next]_vars => Inv'
<1> SUFFICES ASSUME Inv, [Next]_vars PROVE Inv'
  OBVIOUS
<1> DEFINE Want(n, p) == {j \in 1..VNodes : pos[n][j] = p}
           Right(r, N) == \A n \in Node, p \in Position :
               Cardinality(Held(r, n, p)) = IF n \in N THEN Cardinality(Want(n, p)) ELSE 0
<1>1. /\ pos \in [Node -> [1..VNodes -> Position]] /\ nodes \subseteq Node /\ Right(ring, nodes)
      /\ ring \in Seq(Entry)
  BY DEF Inv, TypeOK, Held, Entry
<1>2. SUFFICES ASSUME pos' = pos, nodes' \subseteq Node, ring' \in Seq(Entry), Ordered(ring'),
                      Right(ring', nodes')
               PROVE  Inv'
  <2>1. ASSUME NEW x \in Node, AddNode(x)
        PROVE  /\ pos' = pos /\ nodes' \subseteq Node /\ ring' \in Seq(Entry) /\ Ordered(ring')
               /\ Right(ring', nodes')
    <3>1. pos' = pos /\ x \notin nodes /\ nodes' = nodes \cup {x}
      BY <2>1 DEF AddNode
    <3>2. ring' \in Seq(Entry) /\ Ordered(ring')
      BY <2>1, JoinEmbeds
    <3>3. PICK e : Embedded(ring, ring', x, e)
      BY <2>1, JoinEmbeds
    <3>4. PICK f : Placed(ring', x, pos[x], f)
      BY <2>1, JoinEmbeds
    <3>5. ASSUME NEW n \in Node, NEW p \in Position
          PROVE  Cardinality(Held(ring', n, p)) = IF n \in nodes' THEN Cardinality(Want(n, p)) ELSE 0
      <4>1. CASE n = x
        <5>1. Cardinality(Held(ring', x, p)) = Cardinality(Want(x, p))
          BY <3>2, <3>4, PlacedCounts
        <5>2. QED
          BY <3>1, <4>1, <5>1
      <4>2. CASE n # x
        <5>1. Cardinality(Held(ring', n, p)) = Cardinality(Held(ring, n, p))
          BY <1>1, <3>2, <3>3, <4>2, EmbeddedCounts
        <5> HIDE DEF Want
        <5>2. QED
          BY <1>1, <3>1, <4>2, <5>1
      <4>3. QED
        BY <4>1, <4>2
    <3> HIDE DEF Want
    <3>6. QED
      BY <1>1, <3>1, <3>2, <3>5
  <2>2. ASSUME NEW x \in Node, RemoveNode(x)
        PROVE  /\ pos' = pos /\ nodes' \subseteq Node /\ ring' \in Seq(Entry) /\ Ordered(ring')
               /\ Right(ring', nodes')
    <3>1. pos' = pos /\ nodes' = nodes \ {x}
      BY <2>2 DEF RemoveNode
    <3>2. ring' \in Seq(Entry) /\ Ordered(ring')
      BY <2>2, DepartureEmbeds
    <3>3. PICK e : Embedded(ring', ring, x, e)
      BY <2>2, DepartureEmbeds
    <3>4. ASSUME NEW n \in Node, NEW p \in Position
          PROVE  Cardinality(Held(ring', n, p)) = IF n \in nodes' THEN Cardinality(Want(n, p)) ELSE 0
      <4>1. /\ n # x => Cardinality(Held(ring, n, p)) = Cardinality(Held(ring', n, p))
            /\ n = x => Cardinality(Held(ring', n, p)) = 0
        BY <1>1, <3>2, <3>3, EmbeddedCounts
      <4> HIDE DEF Want
      <4>2. QED
        BY <1>1, <3>1, <4>1
    <3> HIDE DEF Want
    <3>5. QED
      BY <1>1, <3>1, <3>2, <3>4
  <2>3. CASE UNCHANGED vars
    <3>1. pos' = pos /\ nodes' = nodes /\ ring' = ring /\ Ordered(ring)
      BY <2>3 DEF vars, Inv
    <3> HIDE DEF Right
    <3>2. QED
      BY <1>1, <1>2, <3>1
  <2>4. CASE Next
    <3> HIDE DEF Right
    <3>1. QED
      BY <1>2, <2>1, <2>2, <2>4 DEF Next
  <2>5. QED
    BY <2>3, <2>4
<1>3. \A j \in 1..(Len(ring') - 1) : ring'[j].position <= ring'[j + 1].position
  BY <1>2, TypeOKFrom
<1>4. TypeOK'
  BY <1>1, <1>2, <1>3 DEF TypeOK, Held, Entry
<1>5. QED
  BY <1>2, <1>4 DEF Inv

(* Inv holds after any series of addNode and removeNode. *)
LEMMA InvAlways == Spec => []Inv
<1>1. QED
  BY InvInit, InvNext, PTL DEF Spec

(* TypeOK: whatever nodes join and leave, in whatever order, the array     *)
(* addNode and removeNode keep is sorted and holds exactly the virtual     *)
(* nodes of the present nodes.                                             *)
THEOREM TypeCorrect == Spec => []TypeOK
<1>1. Inv => TypeOK
  BY DEF Inv
<1>2. QED
  BY InvAlways, <1>1, PTL
-----------------------------------------------------------------------------
(* The order in which the walk from p meets the entries *)

Near(s, p, i) == s[i].position >= p

Meets(s, p, i, k) ==
    \/ Near(s, p, i) /\ ~Near(s, p, k)
    \/ (Near(s, p, i) <=> Near(s, p, k)) /\ i < k

(* The walk meets every entry once, those at or after p first, each part   *)
(* in the order of the array.                                              *)
LEMMA TurnOrder ==
    ASSUME NEW s \in Seq(Entry), Ordered(s), NEW p \in Position
    PROVE  /\ Turn(s, p) \in Seq(Entry) /\ Len(Turn(s, p)) = Len(s)
           /\ \E t : /\ Numbers(t, 1..Len(s), Len(s))
                     /\ \A j \in 1..Len(s) : Turn(s, p)[j] = s[t[j]]
                     /\ \A j, k \in 1..Len(s) : j < k <=> Meets(s, p, t[j], t[k])
<1> DEFINE N == Len(s)
           start == StartIdx(s, p)
           t == [j \in 1..N |-> IF start + j <= N THEN start + j ELSE start + j - N]
<1>1. PICK lb : Splits(s, p, lb)
  BY SplitExists
<1>2. N \in Nat /\ lb \in 0..N
  BY <1>1, Entries DEF Splits
<1>3. start = IF lb = N THEN 0 ELSE lb
  BY <1>1, SearchFinds DEF StartIdx
<1>4. \A i \in 1..N : Near(s, p, i) <=> lb < i
  <2> SUFFICES ASSUME NEW i \in 1..N PROVE Near(s, p, i) <=> lb < i
    OBVIOUS
  <2>1. s[i].position < p <=> i <= lb
    BY <1>1 DEF Splits
  <2>2. s[i].position \in Int /\ p \in Int
    BY Entries, Positions
  <2>3. Near(s, p, i) <=> ~(s[i].position < p)
    BY <2>2 DEF Near
  <2>4. ~(i <= lb) <=> lb < i
    BY <1>2
  <2>5. QED
    BY <2>1, <2>3, <2>4
<1> HIDE DEF N, start
<1>5. start \in Nat /\ (N > 0 => start < N)
  BY <1>2, <1>3
<1>6. \A j \in 1..N : /\ t[j] = IF start + j <= N THEN start + j ELSE start + j - N
                      /\ t[j] \in 1..N
  BY <1>2, <1>5
<1>7. t \in [1..N -> 1..N]
  BY <1>6
<1> HIDE DEF t
<1>8. ASSUME NEW j \in 1..N PROVE Turn(s, p)[j] = s[t[j]]
  <2> DEFINE a == start + j - 1
             m == a % N
  <2>1. a \in Nat /\ N \in Nat \ {0} /\ a < N + N /\ a = start + j - 1
    BY <1>2, <1>5
  <2> HIDE DEF a
  <2>2. m = IF a < N THEN a ELSE a - N
    <3>1. N <= a \/ a < N
      BY <2>1
    <3>2. QED
      BY <2>1, <3>1, SmallMod
  <2> HIDE DEF m
  <2>3. m + 1 = t[j]
    BY <1>2, <1>5, <1>6, <2>1, <2>2
  <2>4. Turn(s, p)[j] = s[((start + j - 1) % N) + 1]
    BY DEF Turn, start, N
  <2>5. QED
    BY <2>3, <2>4 DEF m, a
<1>9. ASSUME NEW j \in 1..N, NEW k \in 1..N PROVE j < k <=> Meets(s, p, t[j], t[k])
  <2>1. (Near(s, p, t[j]) <=> lb < t[j]) /\ (Near(s, p, t[k]) <=> lb < t[k])
    BY <1>4, <1>6
  <2>2. j < k <=> \/ lb < t[j] /\ ~(lb < t[k])
                  \/ (lb < t[j] <=> lb < t[k]) /\ t[j] < t[k]
    <3>1. /\ t[j] = IF start + j <= N THEN start + j ELSE start + j - N
          /\ t[k] = IF start + k <= N THEN start + k ELSE start + k - N
          /\ t[j] \in 1..N /\ t[k] \in 1..N
      BY <1>6
    <3>2. CASE lb = N
      <4>1. t[j] = j /\ t[k] = k
        BY <1>2, <1>3, <3>1, <3>2
      <4>2. QED
        BY <1>2, <3>2, <4>1
    <3>3. CASE lb # N
      <4>1. start = lb
        BY <1>3, <3>3
      <4>2. /\ lb < t[j] <=> lb + j <= N
            /\ lb < t[k] <=> lb + k <= N
        BY <1>2, <3>1, <4>1
      <4>3. QED
        BY <1>2, <3>1, <4>1, <4>2
    <3>4. QED
      BY <3>2, <3>3
  <2>3. QED
    BY <2>1, <2>2 DEF Meets
<1>10. \A j, k \in 1..N : t[j] = t[k] => j = k
  BY <1>2, <1>5, <1>6
<1>11. ASSUME NEW r \in 1..N PROVE \E j \in 1..N : t[j] = r
  <2> DEFINE j == IF start < r THEN r - start ELSE r + N - start
  <2>1. j \in 1..N /\ t[j] = r
    <3>1. j \in 1..N
      BY <1>2, <1>5
    <3>2. t[j] = IF start + j <= N THEN start + j ELSE start + j - N
      BY <1>6, <3>1
    <3>3. QED
      BY <1>2, <1>5, <3>1, <3>2
  <2> HIDE DEF j
  <2>2. QED
    BY <2>1
<1>12. Turn(s, p) \in Seq(Entry) /\ Len(Turn(s, p)) = N
  <2>1. Turn(s, p) = [j \in 1..N |-> Turn(s, p)[j]]
    BY DEF Turn, N
  <2>2. \A j \in 1..N : Turn(s, p)[j] \in Entry
    BY <1>6, <1>8, Entries DEF N
  <2>3. Turn(s, p) \in [1..N -> Entry]
    BY <2>1, <2>2
  <2>4. QED
    BY <1>2, <2>3
<1>13. Numbers(t, 1..N, N)
  BY <1>7, <1>10, <1>11 DEF Numbers
<1>14. QED
  BY <1>8, <1>9, <1>12, <1>13 DEF N
-----------------------------------------------------------------------------
(* The walk *)

(* Some entry of a comes before every entry of b. *)
First(turn, a, b) ==
    \E i \in 1..Len(turn) : /\ turn[i].node = a
                            /\ \A k \in 1..Len(turn) : turn[k].node = b => i < k

(* What the walk has collected after j entries. *)
Walked(turn, n, j, w) ==
    /\ w \in Seq(Node) /\ Len(w) <= n
    /\ Len(w) < n => \A i \in 1..j : \E a \in 1..Len(w) : w[a] = turn[i].node
    /\ \A a \in 1..Len(w) : \E i \in 1..Len(turn) : turn[i].node = w[a]
    /\ \A a, b \in 1..Len(w) : a < b => First(turn, w[a], w[b])
    /\ \A a \in 1..Len(w), y \in Node : (\A b \in 1..Len(w) : w[b] # y) => First(turn, w[a], y)

(* One iteration of the walk keeps Walked. *)
LEMMA WalkStep ==
    ASSUME NEW turn \in Seq(Entry), NEW n \in Nat, NEW j \in 1..Len(turn), NEW w,
           Walked(turn, n, j - 1, w)
    PROVE  Walked(turn, n, j, Collect(n, w, turn[j]))
<1> DEFINE z == turn[j].node
           v == Append(w, z)
<1>1. z \in Node /\ Len(turn) \in Nat /\ j \in Int
  BY Entries
<1>2. w \in Seq(Node) /\ Len(w) \in Nat /\ DOMAIN w = 1..Len(w) /\ Len(w) <= n
  BY DEF Walked
<1>3. z \in ToSet(w) <=> \E a \in 1..Len(w) : w[a] = z
  BY <1>2 DEF ToSet
<1>4. \A i \in 1..j : i \in 1..(j - 1) \/ i = j
  BY <1>1
<1>5. CASE Len(w) >= n \/ z \in ToSet(w)
  <2>1. Collect(n, w, turn[j]) = w
    BY <1>5 DEF Collect
  <2>2. Len(w) < n => \A i \in 1..j : \E a \in 1..Len(w) : w[a] = turn[i].node
    <3>1. Len(w) < n => z \in ToSet(w)
      BY <1>2, <1>5
    <3>2. QED
      BY <1>3, <1>4, <3>1 DEF Walked
  <2>3. QED
    BY <2>1, <2>2 DEF Walked
<1>6. CASE ~(Len(w) >= n \/ z \in ToSet(w))
  <2>1. Collect(n, w, turn[j]) = v
    BY <1>6 DEF Collect
  <2>2. /\ v \in Seq(Node) /\ Len(v) = Len(w) + 1 /\ v[Len(w) + 1] = z
        /\ \A a \in 1..Len(w) : v[a] = w[a]
    BY <1>1, <1>2
  <2> HIDE DEF v
  <2>3. /\ Len(w) < n /\ Len(v) <= n
        /\ \A a \in 1..Len(v) : a \in 1..Len(w) \/ a = Len(w) + 1
        /\ \A a \in 1..Len(w) : a \in 1..Len(v) /\ ~(Len(w) + 1 < a)
        /\ Len(w) + 1 \in 1..Len(v) /\ ~(Len(w) + 1 < Len(w) + 1)
    BY <1>2, <1>6, <2>2
  <2>4. \A i \in 1..j : \E a \in 1..Len(v) : v[a] = turn[i].node
    <3>1. \A i \in 1..(j - 1) : \E a \in 1..Len(w) : w[a] = turn[i].node
      BY <2>3 DEF Walked
    <3>2. QED
      BY <1>4, <2>2, <2>3, <3>1
  <2>5. \A a \in 1..Len(v) : \E i \in 1..Len(turn) : turn[i].node = v[a]
    BY <2>2, <2>3 DEF Walked
  <2>6. \A a \in 1..Len(w) : First(turn, w[a], z)
    BY <1>1, <1>3, <1>6 DEF Walked
  <2>7. ASSUME NEW a \in 1..Len(v), NEW b \in 1..Len(v), a < b PROVE First(turn, v[a], v[b])
    <3>1. a \in 1..Len(w)
      <4>1. b \in 1..Len(w) \/ b = Len(w) + 1
        BY <2>3
      <4>2. a # Len(w) + 1
        BY <2>3, <2>7, <4>1
      <4>3. QED
        BY <2>3, <4>2
    <3>2. CASE b \in 1..Len(w)
      BY <2>2, <2>7, <3>1, <3>2 DEF Walked
    <3>3. CASE b = Len(w) + 1
      BY <2>2, <2>6, <3>1, <3>3
    <3>4. QED
      BY <2>3, <3>2, <3>3
  <2>8. ASSUME NEW a \in 1..Len(v), NEW y \in Node, \A b \in 1..Len(v) : v[b] # y
        PROVE  First(turn, v[a], y)
    <3>1. (\A b \in 1..Len(w) : w[b] # y) /\ y # z
      BY <2>2, <2>3, <2>8
    <3>2. CASE a \in 1..Len(w)
      BY <2>2, <3>1, <3>2 DEF Walked
    <3>3. CASE a = Len(w) + 1
      <4>1. \A k \in 1..j : turn[k].node # y
        BY <2>4, <2>8
      <4>2. \A k \in 1..Len(turn) : turn[k].node = y => j < k
        <5>1. \A k \in 1..Len(turn) : k \in 1..j \/ j < k
          BY <1>1
        <5>2. QED
          BY <4>1, <5>1
      <4>3. First(turn, z, y)
        BY <4>2 DEF First
      <4>4. QED
        BY <2>2, <3>3, <4>3
    <3>4. QED
      BY <2>3, <3>2, <3>3
  <2>9. Walked(turn, n, j, v)
    BY <2>2, <2>3, <2>4, <2>5, <2>7, <2>8 DEF Walked
  <2>10. QED
    BY <2>1, <2>9
<1>7. QED
  BY <1>5, <1>6

(* So it holds of the list preferenceList returns, after the array's last  *)
(* entry.                                                                  *)
LEMMA WalkLists ==
    ASSUME NEW s \in Seq(Entry), NEW p \in Position, NEW n \in Nat,
           Turn(s, p) \in Seq(Entry), Len(Turn(s, p)) = Len(s)
    PROVE  Walked(Turn(s, p), n, Len(s), PreferenceList(s, p, n))
<1> DEFINE turn == Turn(s, p)
           N == Len(s)
           Solves(f) == f = [j \in 0..N |-> IF j = 0 THEN <<>> ELSE Collect(n, f[j - 1], turn[j])]
           Walk == CHOOSE f : Solves(f)
           step == [y \in (1..N) \X Seq(Node) |-> Collect(n, y[2], turn[y[1]])]
<1>1. PreferenceList(s, p, n) = Walk[N]
  BY DEF PreferenceList
<1>2. N \in Nat /\ turn \in Seq(Entry) /\ Len(turn) = N
  BY Entries
<1> HIDE DEF turn, N
<1>3. \A j \in 1..N : turn[j].node \in Node
  BY <1>2, Entries
<1>4. step \in [(1..N) \X Seq(Node) -> Seq(Node)]
  <2>1. ASSUME NEW y \in (1..N) \X Seq(Node) PROVE Collect(n, y[2], turn[y[1]]) \in Seq(Node)
    <3>1. y[1] \in 1..N /\ y[2] \in Seq(Node)
      OBVIOUS
    <3>2. QED
      BY <1>3, <3>1 DEF Collect
  <2>2. QED
    BY <2>1
<1>5. \A j \in 1..N, w \in Seq(Node) : step[<<j, w>>] = Collect(n, w, turn[j])
  OBVIOUS
<1> HIDE DEF step
<1>6. PICK g \in [0..N -> Seq(Node)] : g[0] = <<>> /\ \A j \in 1..N : g[j] = step[<<j, g[j - 1]>>]
  <2> DEFINE S == Seq(Node)
             empty == <<>>
  <2>1. empty \in S /\ N \in Nat /\ Steps(step, N, S)
    BY <1>2, <1>4 DEF Steps
  <2> HIDE DEF S, empty
  <2>2. \E g : Recursion(g, S, empty, N, step)
    BY <2>1, RecursionExists
  <2>3. QED
    BY <2>2 DEF S, empty, Recursion
<1>7. Solves(g)
  <2>1. ASSUME NEW j \in 0..N PROVE g[j] = IF j = 0 THEN <<>> ELSE Collect(n, g[j - 1], turn[j])
    <3>1. j # 0 => j \in 1..N /\ j - 1 \in 0..N
      BY <1>2
    <3>2. j # 0 => g[j - 1] \in Seq(Node)
      BY <3>1
    <3>3. QED
      BY <1>5, <1>6, <3>1, <3>2
  <2>2. QED
    BY <2>1
<1>8. Solves(Walk)
  <2> HIDE DEF Solves
  <2>1. QED
    BY <1>7
<1> HIDE DEF Walk
<1>9. Walk[0] = <<>> /\ \A j \in 1..N : Walk[j] = Collect(n, Walk[j - 1], turn[j])
  BY <1>2, <1>8
<1> DEFINE Wrong == {j \in 0..N : ~Walked(turn, n, j, Walk[j])}
<1>10. ASSUME Wrong # {} PROVE FALSE
  <2>1. PICK j \in Wrong : \A y \in Wrong : j <= y
    <3>1. Wrong \subseteq Nat
      OBVIOUS
    <3> HIDE DEF Wrong
    <3>2. QED
      BY <1>10, <3>1, LeastNatural
  <2>2. j \in 0..N /\ ~Walked(turn, n, j, Walk[j])
    OBVIOUS
  <2>3. j # 0
    <3>1. Walked(turn, n, 0, <<>>)
      BY DEF Walked
    <3>2. QED
      BY <1>9, <2>2, <3>1
  <2>4. j \in 1..N /\ j - 1 \in 0..N /\ ~(j <= j - 1)
    BY <1>2, <2>2, <2>3
  <2>5. j - 1 \notin Wrong
    <3> HIDE DEF Wrong
    <3>1. QED
      BY <2>1, <2>4
  <2>6. Walked(turn, n, j - 1, Walk[j - 1])
    BY <2>4, <2>5
  <2>7. Walked(turn, n, j, Collect(n, Walk[j - 1], turn[j]))
    BY <1>2, <2>4, <2>6, WalkStep
  <2>8. QED
    BY <1>9, <2>2, <2>4, <2>7
<1>11. Walked(turn, n, N, Walk[N])
  <2>1. N \in 0..N
    BY <1>2
  <2>2. N \notin Wrong
    <3> HIDE DEF Wrong
    <3>1. QED
      BY <1>10
  <2>3. QED
    BY <2>1, <2>2
<1>12. QED
  BY <1>1, <1>11 DEF turn, N
-----------------------------------------------------------------------------
(* Preference lists *)

Has(s, a) == \E i \in 1..Len(s) : s[i].node = a

(* Going round from p, some entry of a is met before every entry of b. *)
Ahead(s, p, a, b) ==
    \E i \in 1..Len(s) : /\ s[i].node = a
                         /\ \A k \in 1..Len(s) : s[k].node = b => Meets(s, p, i, k)

(* What a preference list is: the nodes of the array by the order in which *)
(* the first entry of each is met, up to the n-th.                         *)
Lists(s, p, n, list) ==
    /\ list \in Seq(Node) /\ Len(list) \in Nat /\ Len(list) <= n
    /\ Len(list) < n => \A a : Has(s, a) => \E j \in 1..Len(list) : list[j] = a
    /\ \A j \in 1..Len(list) : Has(s, list[j])
    /\ \A j, k \in 1..Len(list) : j < k => Ahead(s, p, list[j], list[k])
    /\ \A j \in 1..Len(list), b \in Node :
          (\A k \in 1..Len(list) : list[k] # b) => Ahead(s, p, list[j], b)

(* What preferenceList returns, in terms of the array. *)
LEMMA PreferenceLists ==
    ASSUME NEW s \in Seq(Entry), Ordered(s), NEW p \in Position, NEW n \in Nat
    PROVE  Lists(s, p, n, PreferenceList(s, p, n))
<1> DEFINE turn == Turn(s, p)
           list == PreferenceList(s, p, n)
<1>1. turn \in Seq(Entry) /\ Len(turn) = Len(s)
  BY TurnOrder
<1>2. PICK t : /\ Numbers(t, 1..Len(s), Len(s))
               /\ \A j \in 1..Len(s) : turn[j] = s[t[j]]
               /\ \A j, k \in 1..Len(s) : j < k <=> Meets(s, p, t[j], t[k])
  BY TurnOrder
<1>3. Walked(turn, n, Len(s), list)
  BY <1>1, WalkLists
<1> HIDE DEF turn, list
<1>4. /\ \A j \in 1..Len(s) : t[j] \in 1..Len(s)
      /\ \A i \in 1..Len(s) : \E j \in 1..Len(s) : t[j] = i
  BY <1>2 DEF Numbers
<1>5. ASSUME NEW a, NEW b, First(turn, a, b) PROVE Ahead(s, p, a, b)
  <2>1. PICK j \in 1..Len(s) : turn[j].node = a /\ \A k \in 1..Len(s) : turn[k].node = b => j < k
    BY <1>1, <1>5 DEF First
  <2>2. t[j] \in 1..Len(s) /\ s[t[j]].node = a
    BY <1>2, <1>4, <2>1
  <2>3. ASSUME NEW i \in 1..Len(s), s[i].node = b PROVE Meets(s, p, t[j], i)
    <3>1. PICK k \in 1..Len(s) : t[k] = i
      BY <1>4
    <3>2. j < k
      BY <1>2, <2>1, <2>3, <3>1
    <3>3. QED
      BY <1>2, <3>1, <3>2
  <2>4. QED
    BY <2>2, <2>3 DEF Ahead
<1>6. ASSUME NEW a PROVE Has(s, a) <=> \E j \in 1..Len(s) : turn[j].node = a
  <2>1. ASSUME NEW i \in 1..Len(s), s[i].node = a PROVE \E j \in 1..Len(s) : turn[j].node = a
    <3>1. PICK j \in 1..Len(s) : t[j] = i
      BY <1>4
    <3>2. turn[j] = s[i]
      BY <1>2, <3>1
    <3>3. QED
      BY <2>1, <3>2
  <2>2. ASSUME NEW j \in 1..Len(s), turn[j].node = a PROVE Has(s, a)
    <3>1. t[j] \in 1..Len(s) /\ turn[j] = s[t[j]]
      BY <1>2, <1>4
    <3>2. QED
      BY <2>2, <3>1 DEF Has
  <2>3. QED
    BY <2>1, <2>2 DEF Has
<1>7. list \in Seq(Node) /\ Len(list) \in Nat /\ Len(list) <= n
  BY <1>3 DEF Walked
<1>8. Len(list) < n => \A a : Has(s, a) => \E j \in 1..Len(list) : list[j] = a
  BY <1>3, <1>6 DEF Walked
<1>9. \A j \in 1..Len(list) : Has(s, list[j])
  BY <1>1, <1>3, <1>6 DEF Walked
<1>10. \A j, k \in 1..Len(list) : j < k => Ahead(s, p, list[j], list[k])
  BY <1>3, <1>5 DEF Walked
<1>11. \A j \in 1..Len(list), b \in Node :
          (\A k \in 1..Len(list) : list[k] # b) => Ahead(s, p, list[j], b)
  BY <1>3, <1>5 DEF Walked
<1>12. Lists(s, p, n, list)
  BY <1>7, <1>8, <1>9, <1>10, <1>11 DEF Lists
<1>13. QED
  BY <1>12 DEF list

(* Of two nodes only one is ahead. *)
LEMMA AheadAsymmetric ==
    ASSUME NEW s \in Seq(Entry), NEW p, NEW a, NEW b, Ahead(s, p, a, b)
    PROVE  ~Ahead(s, p, b, a)
<1> SUFFICES ASSUME Ahead(s, p, b, a) PROVE FALSE
  OBVIOUS
<1>1. PICK i \in 1..Len(s) : s[i].node = a /\ \A k \in 1..Len(s) : s[k].node = b => Meets(s, p, i, k)
  BY DEF Ahead
<1>2. PICK j \in 1..Len(s) : s[j].node = b /\ \A k \in 1..Len(s) : s[k].node = a => Meets(s, p, j, k)
  BY DEF Ahead
<1>3. Meets(s, p, i, j) /\ Meets(s, p, j, i)
  BY <1>1, <1>2
<1>4. i \in Int /\ j \in Int
  BY Entries
<1>5. ~(i < j /\ j < i)
  BY <1>4
<1>6. QED
  BY <1>3, <1>5 DEF Meets

(* A list names no node twice. *)
LEMMA ListsDistinct ==
    ASSUME NEW s \in Seq(Entry), NEW p, NEW n, NEW list, Lists(s, p, n, list)
    PROVE  \A j, k \in 1..Len(list) : list[j] = list[k] => j = k
<1> SUFFICES ASSUME NEW j \in 1..Len(list), NEW k \in 1..Len(list), list[j] = list[k], j # k
             PROVE  FALSE
  OBVIOUS
<1>1. j < k \/ k < j
  BY DEF Lists
<1>2. Ahead(s, p, list[j], list[j])
  BY <1>1 DEF Lists
<1>3. QED
  BY <1>2, AheadAsymmetric

(* The first m nodes of a list. *)
UpTo(list, m) == {list[i] : i \in 1..m}

(* They are m nodes. *)
LEMMA CountFirst ==
    ASSUME NEW list \in Seq(Node), NEW m \in 0..Len(list),
           \A j, k \in 1..Len(list) : list[j] = list[k] => j = k
    PROVE  IsFiniteSet(UpTo(list, m)) /\ Cardinality(UpTo(list, m)) = m
<1> DEFINE T == UpTo(list, m)
           f == [i \in 1..m |-> list[i]]
<1>1. m \in Nat /\ Len(list) \in Nat /\ m <= Len(list)
  OBVIOUS
<1>2. IsFiniteSet(1..m) /\ Cardinality(1..m) = m
  BY <1>1, FS_Interval
<1>3. \A i \in 1..m : i \in 1..Len(list)
  BY <1>1
<1>4. /\ f \in [1..m -> T] /\ (\A a, b \in 1..m : f[a] = f[b] => a = b)
      /\ \A b \in T : \E a \in 1..m : f[a] = b
  BY <1>3 DEF UpTo
<1> HIDE DEF T, f
<1>5. IsFiniteSet(T) /\ Cardinality(T) = Cardinality(1..m)
  BY <1>2, <1>4, SameSize
<1>6. QED
  BY <1>2, <1>5 DEF T

(* Going clockwise from p, an entry met sooner is no farther. *)
LEMMA MetSooner ==
    ASSUME NEW s \in Seq(Entry), Ordered(s), NEW p \in Position,
           NEW i \in 1..Len(s), NEW k \in 1..Len(s), Meets(s, p, i, k)
    PROVE  Clockwise(p, s[i].position) <= Clockwise(p, s[k].position)
<1> DEFINE q == s[i].position
           r == s[k].position
<1>1. q \in Nat /\ r \in Nat /\ p \in Nat /\ q < Size /\ r < Size /\ p < Size /\ Size \in Nat \ {0}
  BY Entries, Positions, RingAssumption
<1>2. i < k => q <= r
  <2>1. i < k => i <= k
    BY Entries
  <2>2. QED
    BY <2>1, Entries DEF Ordered
<1>3. (Near(s, p, i) <=> q >= p) /\ (Near(s, p, k) <=> r >= p)
  BY DEF Near
<1> HIDE DEF q, r
<1>4. (q >= p /\ ~(r >= p)) \/ ((q >= p <=> r >= p) /\ q <= r)
  BY <1>2, <1>3 DEF Meets
<1>5. ASSUME NEW y \in Nat, y < Size
      PROVE  Clockwise(p, y) = IF y >= p THEN y - p ELSE y + Size - p
  <2> DEFINE z == y + Size - p
  <2>1. z \in Nat /\ Size \in Nat \ {0} /\ z < Size + Size /\ z = y + Size - p
    BY <1>1, <1>5
  <2>2. Clockwise(p, y) = z % Size
    BY DEF Clockwise
  <2> HIDE DEF z
  <2>3. (z < Size => z % Size = z) /\ (Size <= z => z % Size = z - Size)
    BY <2>1, SmallMod
  <2>4. y >= p => Size <= z /\ z - Size = y - p
    BY <1>1, <2>1
  <2>5. ~(y >= p) => z < Size
    BY <1>1, <2>1
  <2>6. QED
    BY <2>1, <2>2, <2>3, <2>4, <2>5
<1>6. Clockwise(p, q) <= Clockwise(p, r)
  <2>1. /\ Clockwise(p, q) = IF q >= p THEN q - p ELSE q + Size - p
        /\ Clockwise(p, r) = IF r >= p THEN r - p ELSE r + Size - p
    BY <1>1, <1>5
  <2>2. QED
    BY <1>1, <1>4, <2>1
<1>7. QED
  BY <1>6 DEF q, r

(* Distance is the least of the clockwise distances. *)
LEMMA DistanceIs ==
    ASSUME TypeOK, NEW n \in Node, NEW p \in Position
    PROVE  /\ Distance(n, p) \in Position
           /\ \E j \in 1..VNodes : Clockwise(p, pos[n][j]) = Distance(n, p)
           /\ \A j \in 1..VNodes : Clockwise(p, pos[n][j]) >= Distance(n, p)
<1> DEFINE D == {Clockwise(p, pos[n][j]) : j \in 1..VNodes}
           Least(d) == /\ \E j \in 1..VNodes : Clockwise(p, pos[n][j]) = d
                       /\ \A j \in 1..VNodes : Clockwise(p, pos[n][j]) >= d
<1>1. pos[n] \in [1..VNodes -> Position] /\ 1 \in 1..VNodes
  BY RingAssumption DEF TypeOK
<1>2. \A q \in Position : Clockwise(p, q) \in Position
  <2> SUFFICES ASSUME NEW q \in Position PROVE Clockwise(p, q) \in Position
    OBVIOUS
  <2> DEFINE z == q + Size - p
  <2>1. z \in Nat /\ Size \in Nat /\ Size > 0
    BY Positions, RingAssumption
  <2> HIDE DEF z
  <2>2. z % Size \in 0..(Size - 1)
    BY <2>1
  <2>3. QED
    BY <2>2 DEF Clockwise, Position, z
<1>3. D \subseteq Nat /\ D # {} /\ D \subseteq Position
  BY <1>1, <1>2, Positions
<1> HIDE DEF D
<1>4. PICK d \in D : \A y \in D : d <= y
  BY <1>3, LeastNatural
<1>5. d \in Position /\ Least(d)
  <2>1. \E j \in 1..VNodes : Clockwise(p, pos[n][j]) = d
    BY <1>4 DEF D
  <2>2. ASSUME NEW j \in 1..VNodes PROVE Clockwise(p, pos[n][j]) >= d
    <3>1. Clockwise(p, pos[n][j]) \in D
      BY DEF D
    <3>2. Clockwise(p, pos[n][j]) \in Nat /\ d \in Nat /\ d <= Clockwise(p, pos[n][j])
      BY <1>3, <1>4, <3>1
    <3>3. QED
      BY <3>2
  <2>3. QED
    BY <1>3, <1>4, <2>1, <2>2
<1>6. Distance(n, p) = CHOOSE c \in Position : Least(c)
  BY DEF Distance
<1> HIDE DEF Least
<1>7. Distance(n, p) \in Position /\ Least(Distance(n, p))
  BY <1>5, <1>6
<1>8. QED
  BY <1>7 DEF Least

(* A node met sooner is no farther. *)
LEMMA AheadNearer ==
    ASSUME Inv, NEW p \in Position, NEW a \in nodes, NEW b \in nodes, Ahead(ring, p, a, b)
    PROVE  Distance(a, p) <= Distance(b, p)
<1>1. ring \in Seq(Entry) /\ Ordered(ring) /\ TypeOK /\ a \in Node /\ b \in Node
  BY Contents DEF Inv, TypeOK
<1>2. PICK i \in 1..Len(ring) :
         ring[i].node = a /\ \A k \in 1..Len(ring) : ring[k].node = b => Meets(ring, p, i, k)
  BY DEF Ahead
<1>3. PICK j \in 1..VNodes : pos[a][j] = ring[i].position
  BY <1>1, <1>2, Contents
<1>4. PICK l \in 1..VNodes : Clockwise(p, pos[b][l]) = Distance(b, p)
  BY <1>1, DistanceIs
<1>5. PICK k \in 1..Len(ring) : ring[k] = [position |-> pos[b][l], node |-> b]
  BY <1>1, Contents
<1>6. ring[k].node = b /\ ring[k].position = pos[b][l]
  BY <1>5
<1>7. Clockwise(p, ring[i].position) <= Clockwise(p, ring[k].position)
  BY <1>1, <1>2, <1>6, MetSooner
<1>8. Clockwise(p, ring[i].position) >= Distance(a, p)
  BY <1>1, <1>3, DistanceIs
<1>9. Distance(a, p) \in Int /\ Distance(b, p) \in Int /\ Clockwise(p, ring[k].position) = Distance(b, p)
  BY <1>1, <1>4, <1>6, DistanceIs, Positions
<1>10. Clockwise(p, ring[i].position) \in Int
  <2>1. ring[i].position \in Int /\ p \in Int /\ Size \in Int /\ Size > 0
    BY <1>1, Entries, Positions, RingAssumption
  <2>2. QED
    BY <2>1 DEF Clockwise
<1>11. QED
  BY <1>7, <1>8, <1>9, <1>10

(* The numbers of replicas asked for. *)
LEMMA ReplicaCounts == Replicas \subseteq Nat
BY RingAssumption, FS_CardinalityType DEF Replicas

(* NearestFirst follows from Inv. *)
LEMMA InvNearestFirst == Inv => NearestFirst
<1> SUFFICES ASSUME Inv, NEW p \in Position, NEW n \in Replicas
             PROVE  LET list == PreferenceList(ring, p, n)
                        in   == ToSet(list)
                    IN  /\ in \subseteq nodes /\ IsInjective(list)
                        /\ Len(list) = IF n <= Cardinality(nodes) THEN n ELSE Cardinality(nodes)
                        /\ \A j \in 1..(Len(list) - 1) : Distance(list[j], p) <= Distance(list[j + 1], p)
                        /\ \A x \in in, y \in nodes \ in : Distance(x, p) <= Distance(y, p)
  BY DEF NearestFirst
<1> DEFINE list == PreferenceList(ring, p, n)
           in   == ToSet(list)
<1>1. ring \in Seq(Entry) /\ Ordered(ring) /\ nodes \subseteq Node /\ n \in Nat
  BY Contents, ReplicaCounts DEF Inv, TypeOK
<1>2. Lists(ring, p, n, list)
  BY <1>1, PreferenceLists
<1> HIDE DEF list
<1>3. /\ list \in Seq(Node) /\ Len(list) \in Nat /\ Len(list) <= n /\ DOMAIN list = 1..Len(list)
  BY <1>2 DEF Lists
<1>4. \A a : Has(ring, a) <=> a \in nodes
  <2>1. \A a : Has(ring, a) => a \in nodes
    BY Contents DEF Inv, Has
  <2>2. ASSUME NEW a \in nodes PROVE Has(ring, a)
    <3>1. 1 \in 1..VNodes
      BY RingAssumption
    <3>2. PICK i \in 1..Len(ring) : ring[i] = [position |-> pos[a][1], node |-> a]
      BY <3>1, Contents DEF Inv
    <3>3. ring[i].node = a
      BY <3>2
    <3>4. QED
      BY <3>3 DEF Has
  <2>3. QED
    BY <2>1, <2>2
<1>5. \A a : a \in in <=> \E j \in 1..Len(list) : list[j] = a
  BY <1>3 DEF ToSet
<1>6. in \subseteq nodes
  BY <1>2, <1>4, <1>5 DEF Lists
<1>7. IsInjective(list)
  BY <1>1, <1>2, <1>3, ListsDistinct DEF IsInjective
<1>8. Len(list) = IF n <= Cardinality(nodes) THEN n ELSE Cardinality(nodes)
  <2>1. IsFiniteSet(nodes) /\ Cardinality(nodes) \in Nat
    BY <1>1, RingAssumption, FS_Subset, FS_CardinalityType
  <2>2. in = UpTo(list, Len(list))
    BY <1>3 DEF ToSet, UpTo
  <2>3. Len(list) \in 0..Len(list) /\ \A j, k \in 1..Len(list) : list[j] = list[k] => j = k
    BY <1>1, <1>2, <1>3, ListsDistinct
  <2>4. Cardinality(in) = Len(list)
    BY <1>3, <2>2, <2>3, CountFirst
  <2> HIDE DEF in
  <2>5. Cardinality(in) <= Cardinality(nodes)
    BY <1>6, <2>1, FS_Subset
  <2>6. Len(list) < n => in = nodes
    BY <1>2, <1>4, <1>5, <1>6 DEF Lists
  <2>7. /\ Len(list) \in Nat /\ n \in Nat /\ Cardinality(nodes) \in Nat /\ Len(list) <= n
        /\ Len(list) <= Cardinality(nodes) /\ (Len(list) < n => Len(list) = Cardinality(nodes))
    BY <1>1, <1>3, <2>1, <2>4, <2>5, <2>6
  <2>8. QED
    BY <2>7
<1>9. ASSUME NEW j \in 1..(Len(list) - 1) PROVE Distance(list[j], p) <= Distance(list[j + 1], p)
  <2>1. j \in 1..Len(list) /\ j + 1 \in 1..Len(list) /\ j < j + 1
    BY <1>3
  <2>2. Ahead(ring, p, list[j], list[j + 1]) /\ list[j] \in nodes /\ list[j + 1] \in nodes
    BY <1>2, <1>4, <2>1 DEF Lists
  <2>3. QED
    BY <2>2, AheadNearer
<1>10. ASSUME NEW x \in in, NEW y \in nodes \ in PROVE Distance(x, p) <= Distance(y, p)
  <2>1. PICK j \in 1..Len(list) : list[j] = x
    BY <1>5
  <2>2. \A k \in 1..Len(list) : list[k] # y
    BY <1>5
  <2>3. Ahead(ring, p, x, y)
    BY <1>1, <1>2, <2>1, <2>2 DEF Lists
  <2>4. QED
    BY <1>6, <2>3, AheadNearer
<1>11. QED
  BY <1>6, <1>7, <1>8, <1>9, <1>10 DEF list

(* NearestFirst: for every key and every number of replicas, the binary    *)
(* search and the walk of preferenceList give the distinct nodes nearest   *)
(* clockwise, nearest first.                                               *)
THEOREM PreferenceListNearestFirst == Spec => []NearestFirst
<1>1. QED
  BY InvAlways, InvNearestFirst, PTL
-----------------------------------------------------------------------------
(* Lists before and after a join or a departure *)

(* The nodes met no later than a. *)
NotAfter(s, p, a) == {y \in Node : y = a \/ Ahead(s, p, y, a)}

(* A node's index in a list is the number of the nodes met no later. *)
LEMMA ListsRank ==
    ASSUME NEW s \in Seq(Entry), NEW p, NEW n, NEW list, Lists(s, p, n, list),
           NEW j \in 1..Len(list)
    PROVE  NotAfter(s, p, list[j]) = UpTo(list, j)
<1>1. list \in Seq(Node) /\ Len(list) \in Nat /\ list[j] \in Node
  BY DEF Lists
<1>2. \A i \in 1..j : i \in 1..Len(list) /\ (i = j \/ i < j)
  BY <1>1
<1>3. ASSUME NEW i \in 1..j PROVE list[i] \in NotAfter(s, p, list[j])
  BY <1>1, <1>2 DEF Lists, NotAfter
<1>4. ASSUME NEW y \in NotAfter(s, p, list[j]) PROVE y \in UpTo(list, j)
  <2>1. CASE y = list[j]
    <3>1. j \in 1..j
      BY <1>1
    <3>2. QED
      BY <2>1, <3>1 DEF UpTo
  <2>2. CASE y # list[j]
    <3>1. y \in Node /\ Ahead(s, p, y, list[j])
      BY <2>2 DEF NotAfter
    <3>2. ~Ahead(s, p, list[j], y)
      BY <3>1, AheadAsymmetric
    <3>3. PICK i \in 1..Len(list) : list[i] = y
      BY <3>1, <3>2 DEF Lists
    <3>4. ~(j < i)
      BY <3>2, <3>3 DEF Lists
    <3>5. i \in 1..j
      BY <1>1, <3>4
    <3>6. QED
      BY <3>3, <3>5 DEF UpTo
  <2>3. QED
    BY <2>1, <2>2
<1>5. QED
  BY <1>3, <1>4 DEF UpTo

(* Two entries are met in the same order in both arrays. *)
LEMMA EmbeddedMeets ==
    ASSUME NEW small \in Seq(Entry), NEW large \in Seq(Entry), NEW x, NEW e,
           Embedded(small, large, x, e), NEW p,
           NEW i \in 1..Len(small), NEW k \in 1..Len(small)
    PROVE  Meets(small, p, i, k) <=> Meets(large, p, e[i], e[k])
<1>1. large[e[i]] = small[i] /\ large[e[k]] = small[k] /\ (i < k <=> e[i] < e[k])
  BY DEF Embedded
<1>2. (Near(small, p, i) <=> Near(large, p, e[i])) /\ (Near(small, p, k) <=> Near(large, p, e[k]))
  BY <1>1 DEF Near
<1>3. QED
  BY <1>1, <1>2 DEF Meets

(* The other nodes keep their order. *)
LEMMA EmbeddedAhead ==
    ASSUME NEW small \in Seq(Entry), NEW large \in Seq(Entry), NEW x, NEW e,
           Embedded(small, large, x, e), NEW p, NEW a, a # x
    PROVE  /\ Has(small, a) <=> Has(large, a)
           /\ \A b : b # x => (Ahead(small, p, a, b) <=> Ahead(large, p, a, b))
<1>1. \A i \in 1..Len(small) : e[i] \in 1..Len(large) /\ large[e[i]] = small[i]
  BY DEF Embedded
<1>2. \A k \in 1..Len(large) : large[k].node # x => \E i \in 1..Len(small) : e[i] = k
  BY DEF Embedded
<1>3. Has(small, a) <=> Has(large, a)
  <2>1. ASSUME NEW i \in 1..Len(small), small[i].node = a PROVE Has(large, a)
    <3>1. e[i] \in 1..Len(large) /\ large[e[i]].node = a
      BY <1>1, <2>1
    <3>2. QED
      BY <3>1 DEF Has
  <2>2. ASSUME NEW k \in 1..Len(large), large[k].node = a PROVE Has(small, a)
    <3>1. PICK i \in 1..Len(small) : e[i] = k
      BY <1>2, <2>2
    <3>2. small[i].node = a
      BY <1>1, <2>2, <3>1
    <3>3. QED
      BY <3>2 DEF Has
  <2>3. QED
    BY <2>1, <2>2 DEF Has
<1>4. ASSUME NEW b, b # x, Ahead(small, p, a, b) PROVE Ahead(large, p, a, b)
  <2>1. PICK i \in 1..Len(small) :
           small[i].node = a /\ \A k \in 1..Len(small) : small[k].node = b => Meets(small, p, i, k)
    BY <1>4 DEF Ahead
  <2>2. e[i] \in 1..Len(large) /\ large[e[i]].node = a
    BY <1>1, <2>1
  <2>3. ASSUME NEW k \in 1..Len(large), large[k].node = b PROVE Meets(large, p, e[i], k)
    <3>1. PICK l \in 1..Len(small) : e[l] = k
      BY <1>2, <1>4, <2>3
    <3>2. small[l].node = b
      BY <1>1, <2>3, <3>1
    <3>3. Meets(small, p, i, l)
      BY <2>1, <3>2
    <3>4. QED
      BY <3>1, <3>3, EmbeddedMeets
  <2>4. QED
    BY <2>2, <2>3 DEF Ahead
<1>5. ASSUME NEW b, b # x, Ahead(large, p, a, b) PROVE Ahead(small, p, a, b)
  <2>1. PICK m \in 1..Len(large) :
           large[m].node = a /\ \A k \in 1..Len(large) : large[k].node = b => Meets(large, p, m, k)
    BY <1>5 DEF Ahead
  <2>2. PICK i \in 1..Len(small) : e[i] = m
    BY <1>2, <2>1
  <2>3. small[i].node = a
    BY <1>1, <2>1, <2>2
  <2>4. ASSUME NEW k \in 1..Len(small), small[k].node = b PROVE Meets(small, p, i, k)
    <3>1. e[k] \in 1..Len(large) /\ large[e[k]].node = b
      BY <1>1, <2>4
    <3>2. Meets(large, p, e[i], e[k])
      BY <2>1, <2>2, <3>1
    <3>3. QED
      BY <3>2, EmbeddedMeets
  <2>5. QED
    BY <2>3, <2>4 DEF Ahead
<1>6. QED
  BY <1>3, <1>4, <1>5

(* A list of the larger array is one of the smaller, but for x. *)
LEMMA SameButForOne ==
    ASSUME NEW small \in Seq(Entry), NEW large \in Seq(Entry), NEW x, NEW e,
           Embedded(small, large, x, e), NEW p, NEW n \in Nat, NEW list, NEW other,
           Lists(large, p, n, list), Lists(small, p, n, other)
    PROVE  SameButFor(x, list, other)
<1>1. /\ list \in Seq(Node) /\ DOMAIN list = 1..Len(list) /\ Len(list) \in Nat /\ Len(list) <= n
      /\ other \in Seq(Node) /\ DOMAIN other = 1..Len(other) /\ Len(other) \in Nat /\ Len(other) <= n
  BY DEF Lists
<1>2. SUFFICES ASSUME NEW j \in 1..Len(list), list[j] # x,
                      NEW I, I = {i \in 1..j : list[i] # x}
               PROVE  Cardinality(I) \in DOMAIN other /\ other[Cardinality(I)] = list[j]
  BY <1>1 DEF SameButFor
<1> DEFINE a == list[j]
           D == NotAfter(small, p, a)
           f == [i \in I |-> list[i]]
<1>3. a \in Node /\ a # x /\ Has(large, a) /\ Has(small, a)
  BY <1>1, <1>2, EmbeddedAhead DEF Lists
<1>4. \A y \in Node : Ahead(small, p, y, a) => y # x
  BY DEF Ahead, Embedded
<1>5. ASSUME NEW y PROVE y \in D <=> y \in UpTo(list, j) /\ y # x
  <2>1. y \in UpTo(list, j) <=> y \in Node /\ (y = a \/ Ahead(large, p, y, a))
    BY ListsRank DEF NotAfter
  <2>2. y # x => (Ahead(small, p, y, a) <=> Ahead(large, p, y, a))
    BY <1>3, EmbeddedAhead
  <2>3. y \in D <=> y \in Node /\ (y = a \/ Ahead(small, p, y, a))
    BY DEF NotAfter
  <2> HIDE DEF D, a
  <2>4. QED
    BY <1>3, <1>4, <2>1, <2>2, <2>3
<1>6. IsFiniteSet(I) /\ Cardinality(I) \in Nat /\ Cardinality(I) <= n
  <2>1. IsFiniteSet(1..j) /\ Cardinality(1..j) = j /\ I \in SUBSET (1..j) /\ j \in Nat /\ j <= n
    BY <1>1, <1>2, FS_Interval
  <2>2. IsFiniteSet(I) /\ Cardinality(I) <= j
    BY <2>1, FS_Subset
  <2>3. Cardinality(I) \in Nat
    BY <2>2, FS_CardinalityType
  <2>4. QED
    BY <2>1, <2>2, <2>3
<1>7. IsFiniteSet(D) /\ Cardinality(D) = Cardinality(I)
  <2>1. \A i \in I : i \in 1..j /\ i \in 1..Len(list) /\ list[i] # x
    BY <1>1, <1>2
  <2>2. \A y \in UpTo(list, j) : \E i \in 1..j : list[i] = y
    BY DEF UpTo
  <2>3. \A i \in 1..j : list[i] \in UpTo(list, j)
    BY DEF UpTo
  <2> HIDE DEF D
  <2>4. f \in [I -> D]
    BY <1>5, <2>1, <2>3
  <2>5. \A i, k \in I : f[i] = f[k] => i = k
    BY <2>1, ListsDistinct
  <2>6. ASSUME NEW y \in D PROVE \E i \in I : f[i] = y
    <3>1. PICK i \in 1..j : list[i] = y
      BY <1>5, <2>2
    <3>2. i \in I
      BY <1>2, <1>5, <3>1
    <3>3. QED
      BY <3>1, <3>2
  <2> HIDE DEF f
  <2>7. QED
    BY <1>6, <2>4, <2>5, <2>6, SameSize
<1>8. PICK k \in 1..Len(other) : other[k] = a
  <2> SUFFICES ASSUME \A k \in 1..Len(other) : other[k] # a PROVE FALSE
    OBVIOUS
  <2>1. Len(other) = n
    <3>1. Len(other) < n => \A b : Has(small, b) => \E k \in 1..Len(other) : other[k] = b
      BY DEF Lists
    <3> HIDE DEF a
    <3>2. ~(Len(other) < n)
      BY <1>3, <3>1
    <3>3. Len(other) \in Nat /\ n \in Nat /\ Len(other) <= n
      BY <1>1
    <3>4. QED
      BY <3>2, <3>3
  <2>2. \A k \in 1..Len(other) : Ahead(small, p, other[k], a)
    BY <1>3 DEF Lists
  <2> DEFINE U == UpTo(other, Len(other))
  <2>3. \A y \in U : y \in Node /\ y # a /\ Ahead(small, p, y, a)
    BY <1>1, <2>2 DEF UpTo
  <2>4. U \cup {a} \subseteq D /\ a \notin U
    BY <1>3, <2>3 DEF NotAfter
  <2>5. Len(other) \in 0..Len(other) /\ \A i, k \in 1..Len(other) : other[i] = other[k] => i = k
    BY <1>1, ListsDistinct
  <2>6. IsFiniteSet(U) /\ Cardinality(U) = Len(other)
    BY <1>1, <2>5, CountFirst
  <2> HIDE DEF U, D
  <2>7. Cardinality(U \cup {a}) = Len(other) + 1
    BY <2>4, <2>6, FS_AddElement
  <2>8. Cardinality(U \cup {a}) <= Cardinality(D)
    BY <1>7, <2>4, FS_Subset
  <2>9. n + 1 <= Cardinality(I) /\ Cardinality(I) \in Nat /\ Cardinality(I) <= n
    BY <1>6, <1>7, <2>1, <2>7, <2>8
  <2>10. QED
    BY <2>9
<1>9. Cardinality(D) = k
  <2>1. D = UpTo(other, k)
    BY <1>8, ListsRank
  <2>2. k \in 0..Len(other) /\ \A i, l \in 1..Len(other) : other[i] = other[l] => i = l
    BY <1>1, ListsDistinct
  <2> HIDE DEF D
  <2>3. QED
    BY <1>1, <2>1, <2>2, CountFirst
<1>10. QED
  BY <1>1, <1>7, <1>8, <1>9

(* What MinimalDisruption says of a step follows from Inv. *)
LEMMA InvMinimalDisruption ==
    ASSUME Inv, [Next]_vars, NEW p \in Position, NEW n \in Replicas
    PROVE  LET before == PreferenceList(ring, p, n)
               after  == PreferenceList(ring', p, n)
           IN  /\ \A x \in nodes' \ nodes : SameButFor(x, after, before)
               /\ \A x \in nodes \ nodes' : SameButFor(x, before, after)
<1> DEFINE before == PreferenceList(ring, p, n)
           after  == PreferenceList(ring', p, n)
           Calm == /\ \A x \in nodes' \ nodes : SameButFor(x, after, before)
                   /\ \A x \in nodes \ nodes' : SameButFor(x, before, after)
<1>1. n \in Nat /\ Ordered(ring)
  BY ReplicaCounts DEF Inv
<1>2. ASSUME NEW x \in Node, AddNode(x) PROVE Calm
  <2>1. ring \in Seq(Entry) /\ ring' \in Seq(Entry) /\ Ordered(ring')
    BY <1>2, JoinEmbeds
  <2>2. PICK e : Embedded(ring, ring', x, e)
    BY <1>2, JoinEmbeds
  <2>3. Lists(ring, p, n, before) /\ Lists(ring', p, n, after)
    BY <1>1, <2>1, PreferenceLists
  <2> HIDE DEF before, after
  <2>4. SameButFor(x, after, before)
    BY <1>1, <2>1, <2>2, <2>3, SameButForOne
  <2>5. nodes' \ nodes \subseteq {x} /\ nodes \ nodes' = {}
    BY <1>2 DEF AddNode
  <2>6. QED
    BY <2>4, <2>5
<1>3. ASSUME NEW x \in Node, RemoveNode(x) PROVE Calm
  <2>1. ring \in Seq(Entry) /\ ring' \in Seq(Entry) /\ Ordered(ring')
    BY <1>3, DepartureEmbeds
  <2>2. PICK e : Embedded(ring', ring, x, e)
    BY <1>3, DepartureEmbeds
  <2>3. Lists(ring, p, n, before) /\ Lists(ring', p, n, after)
    BY <1>1, <2>1, PreferenceLists
  <2> HIDE DEF before, after
  <2>4. SameButFor(x, before, after)
    BY <1>1, <2>1, <2>2, <2>3, SameButForOne
  <2>5. nodes \ nodes' \subseteq {x} /\ nodes' \ nodes = {}
    BY <1>3 DEF RemoveNode
  <2>6. QED
    BY <2>4, <2>5
<1>4. CASE UNCHANGED vars
  <2>1. nodes' = nodes
    BY <1>4 DEF vars
  <2> HIDE DEF before, after
  <2>2. Calm
    BY <2>1
  <2>3. QED
    BY <2>2 DEF before, after
<1>5. CASE Next
  <2> HIDE DEF Calm
  <2>1. Calm
    BY <1>2, <1>3, <1>5 DEF Next
  <2>2. QED
    BY <2>1 DEF Calm
<1>6. QED
  BY <1>4, <1>5

(* MinimalDisruption: a node that joins or leaves changes a key's          *)
(* preference list only by its own entry and by what that pushes out or    *)
(* lets in at the end; the other nodes keep their order.                   *)
THEOREM ChangesDisruptLittle == Spec => MinimalDisruption
<1> DEFINE Calm == \A p \in Position, n \in Replicas :
               LET before == PreferenceList(ring, p, n)
                   after  == PreferenceList(ring', p, n)
               IN  /\ \A x \in nodes' \ nodes : SameButFor(x, after, before)
                   /\ \A x \in nodes \ nodes' : SameButFor(x, before, after)
<1>1. Inv /\ [Next]_vars => [Calm]_vars
  BY InvMinimalDisruption
<1>2. MinimalDisruption <=> [][Calm]_vars
  BY DEF MinimalDisruption
<1> HIDE DEF Calm
<1>3. QED
  BY InvAlways, <1>1, <1>2, PTL DEF Spec
=============================================================================
