--------------------------- MODULE FrontendProofs ---------------------------
(***************************************************************************)
(* Frontend for any number of requests, workers, clients and files, and    *)
(* any capacity, refill rate and clock: its type invariant, both sides of  *)
(* the token-bucket account, for the loopback key too, and that a          *)
(* presigned download is in time for a URL the server signed.              *)
(***************************************************************************)
EXTENDS Frontend, TLAPS

(* Only a bucket that exists has granted anything. *)
Unused == \A w \in Worker : \A c \in Key \ buckets[w] : granted[w][c] = 0

(* What a bucket holds is at least what it would hold had only the         *)
(* requests that draw on it been charged since it was last full.           *)
Account ==
    \A w \in Worker : \A c \in buckets[w] :
        tokens[w][c] >= Capacity + (lastRefill[w][c] - full[w][c]) * Refill
                            - Drawn(w, c) * Cost

(* A signature that came with a request was handed out. *)
SignedIssued ==
    \A r \in Req : query[r].sig # NoSig => \E i \in issued : query[r].sig = SignatureOf(i)

LEMMA Distribute ==
    ASSUME NEW a \in Int, NEW b \in Int, NEW m \in Int
    PROVE  (a + b) * m = a * m + b * m
OBVIOUS

(* What tryConsume finds is within the bucket's bounds, and no less than   *)
(* it held.                                                                *)
LEMMA AvailableType ==
    ASSUME TypeOK, NEW w \in Worker, NEW c \in Key
    PROVE  /\ Available(w, c) \in 0..Capacity
           /\ c \in buckets[w] => Available(w, c) >= tokens[w][c]
<1> DEFINE e == now - lastRefill[w][c]
<1>1. /\ tokens[w][c] \in 0..Capacity /\ lastRefill[w][c] \in Nat /\ now \in Nat
      /\ Capacity \in Nat /\ Refill \in Nat
  BY FrontendAssumption DEF TypeOK
<1>2. now > lastRefill[w][c] => e * Refill \in Nat
  <2>1. SUFFICES ASSUME NEW a \in Nat, NEW b \in Nat PROVE a * b \in Nat
    BY <1>1, <2>1
  <2>2. QED
    OBVIOUS
<1>3. QED
  BY <1>1, <1>2 DEF Available, Refilled, AtMost

LEMMA ChargeType ==
    ASSUME TypeOK, NEW w \in Worker, NEW c \in Key, NEW b \in BOOLEAN, Charge(w, c, b)
    PROVE  /\ buckets' \in [Worker -> SUBSET Key]
           /\ tokens' \in [Worker -> [Key -> 0..Capacity]]
           /\ lastRefill' \in [Worker -> [Key -> Nat]]
           /\ granted' \in [Worker -> [Key -> Nat]]
           /\ born' \in [Worker -> [Key -> Nat]]
           /\ full' \in [Worker -> [Key -> Nat]]
           /\ own' \in [Worker -> [Key -> Nat]]
           /\ relayed' \in [Worker -> [Key -> Nat]]
<1>1. Available(w, c) \in 0..Capacity /\ Capacity \in Nat /\ Cost \in Nat
  BY AvailableType, FrontendAssumption
<1>2. Available(w, c) - (IF Allowed(w, c) THEN Cost ELSE 0) \in 0..Capacity
  BY <1>1 DEF Allowed
<1>3. CreditedTo(w, c) \in Nat /\ now \in Nat
  BY DEF CreditedTo, RefilledAt, TypeOK
<1>4. Since(own, w, c, ~b) \in Nat /\ Since(relayed, w, c, b) \in Nat
  BY DEF Since, TypeOK
<1>5. /\ buckets' \in [Worker -> SUBSET Key]
      /\ tokens' \in [Worker -> [Key -> 0..Capacity]]
      /\ lastRefill' \in [Worker -> [Key -> Nat]]
  BY <1>2, <1>3 DEF Charge, TypeOK
<1>6. /\ granted' \in [Worker -> [Key -> Nat]]
      /\ born' \in [Worker -> [Key -> Nat]]
      /\ full' \in [Worker -> [Key -> Nat]]
  BY <1>3 DEF Charge, TypeOK
<1>7. own' \in [Worker -> [Key -> Nat]] /\ relayed' \in [Worker -> [Key -> Nat]]
  BY <1>4 DEF Charge, TypeOK
<1>8. QED
  BY <1>5, <1>6, <1>7

LEMMA PresentableType ==
    ASSUME TypeOK, NEW r \in Req, NEW q \in Presentable(r)
    PROVE  q \in Query
<1>1. MaxNow \in Nat /\ Ttl \in Nat
  BY FrontendAssumption
<1>2. \A i \in issued : SignatureOf(i) \in Payload
  BY <1>1 DEF TypeOK, SignatureOf, Sign, Payload
<1>3. 0..(MaxNow + Ttl) \subseteq Nat
  BY <1>1
<1>4. CASE route[r] = "presigned"
  <2>1. [expires |-> MaxNow + Ttl, sig |-> NoSig] \in Query
    BY <1>1 DEF Query
  <2>2. [expires : 0..(MaxNow + Ttl), sig : {SignatureOf(i) : i \in issued}] \subseteq Query
    BY <1>2, <1>3 DEF Query
  <2>3. QED
    BY <1>4, <2>1, <2>2 DEF Presentable
<1>5. CASE route[r] # "presigned"
  BY <1>5 DEF Presentable, TypeOK
<1>6. QED
  BY <1>4, <1>5

LEMMA TypeInit == Init => TypeOK
BY FrontendAssumption DEF Init, TypeOK, Each, Query, Route

LEMMA TypeStep == TypeOK /\ [Next]_vars => TypeOK'
<1> SUFFICES ASSUME TypeOK, [Next]_vars PROVE TypeOK'
  OBVIOUS
<1> USE DEF Goto, bucketVars, args
<1>1. ASSUME NEW r \in Req, NEW q \in Presentable(r), Arrive(r, q) PROVE TypeOK'
  <2>1. host[r] \in Worker /\ client[r] \in Key
    BY DEF TypeOK, Key
  <2>2. Charge(host[r], client[r], FALSE)
    BY <1>1 DEF Arrive
  <2>3. /\ query' \in [Req -> Query]
        /\ pc' = [pc EXCEPT ![r] = IF Allowed(host[r], client[r]) THEN "admitted" ELSE "429"]
        /\ UNCHANGED <<now, host, client, route, path, issued>>
    BY <1>1, PresentableType DEF Arrive, TypeOK
  <2>4. QED
    BY <2>1, <2>2, <2>3, ChargeType DEF TypeOK
<1>2. ASSUME NEW r \in Req, HandlePlain(r) PROVE TypeOK'
  BY <1>2 DEF HandlePlain, TypeOK
<1>3. ASSUME NEW r \in Req, HandlePresign(r) PROVE TypeOK'
  <2>1. issued' \subseteq [file : File, at : Nat]
    BY <1>3 DEF HandlePresign, TypeOK
  <2>2. QED
    BY <1>3, <2>1 DEF HandlePresign, TypeOK
<1>4. ASSUME NEW r \in Req, HandlePresigned(r) PROVE TypeOK'
  BY <1>4 DEF HandlePresigned, TypeOK
<1>5. ASSUME NEW r \in Req, Inject(r) PROVE TypeOK'
  <2>1. /\ host[r] \in Worker /\ InjectKey(r) \in Key
        /\ Charge(host[r], InjectKey(r), TRUE)
    BY <1>5 DEF Inject, InjectKey, TypeOK, Key
  <2>2. QED
    BY <1>5, <2>1, ChargeType DEF Inject, TypeOK
<1>6. ASSUME NEW w \in Worker, WorkerCrash(w) PROVE TypeOK'
  BY <1>6, FrontendAssumption DEF WorkerCrash, TypeOK
<1>7. CASE Tick \/ SetBack
  BY <1>7 DEF Tick, SetBack, TypeOK
<1>8. CASE UNCHANGED vars
  BY <1>8 DEF vars, TypeOK
<1>9. QED
  BY <1>1, <1>2, <1>3, <1>4, <1>5, <1>6, <1>7, <1>8 DEF Next

(* Bucket contents, histories and requests keep their types; in particular *)
(* a bucket never holds more than its capacity or less than nothing.       *)
THEOREM TypeCorrect == Spec => []TypeOK
BY TypeInit, TypeStep, PTL DEF Spec
-----------------------------------------------------------------------------
(* The account of the buckets *)

BucketInv == Unused /\ RateBound /\ Account

(* A bucket that is not found full holds what it held and what the time    *)
(* credited now is worth.                                                  *)
LEMMA AvailableSum ==
    ASSUME TypeOK, NEW w \in Worker, NEW c \in Key, c \in buckets[w]
    PROVE  LET e == RefilledAt(w, c) - lastRefill[w][c]
           IN  /\ e \in Int /\ e * Refill \in Int
               /\ Available(w, c) <= tokens[w][c] + e * Refill
               /\ Available(w, c) # Capacity => Available(w, c) = tokens[w][c] + e * Refill
<1> DEFINE e == RefilledAt(w, c) - lastRefill[w][c]
<1>1. /\ tokens[w][c] \in 0..Capacity /\ lastRefill[w][c] \in Nat /\ now \in Nat
      /\ Capacity \in Nat /\ Refill \in Nat
  BY FrontendAssumption DEF TypeOK
<1>2. e \in Int /\ e * Refill \in Int
  BY <1>1 DEF RefilledAt
<1>3. CASE now > lastRefill[w][c]
  <2>1. e = now - lastRefill[w][c]
    BY <1>3 DEF RefilledAt
  <2>2. Available(w, c) = AtMost(Capacity, tokens[w][c] + e * Refill)
    BY <1>3, <2>1 DEF Available, Refilled
  <2> HIDE DEF e
  <2>3. QED
    BY <1>1, <1>2, <2>2 DEF AtMost, e
<1>4. CASE ~(now > lastRefill[w][c])
  <2>1. e = 0
    BY <1>1, <1>4 DEF RefilledAt
  <2>2. e * Refill = 0
    BY <1>1, <2>1
  <2>3. Available(w, c) = tokens[w][c]
    BY <1>4 DEF Available, Refilled
  <2>4. QED
    BY <1>1, <1>2, <2>2, <2>3
<1>5. QED
  BY <1>3, <1>4

LEMMA ChargeAccount ==
    ASSUME TypeOK, BucketInv, NEW w \in Worker, NEW c \in Key, NEW b \in BOOLEAN,
           Charge(w, c, b), b => c = Local
    PROVE  BucketInv'
<1> DEFINE paid == IF Allowed(w, c) THEN 1 ELSE 0
           e == RefilledAt(w, c) - lastRefill[w][c]
<1>1. /\ Available(w, c) \in 0..Capacity /\ Capacity \in Nat /\ Cost \in Nat /\ Refill \in Nat
      /\ paid \in Nat /\ now \in Nat /\ paid * Cost \in Int
      /\ (IF Allowed(w, c) THEN Cost ELSE 0) = paid * Cost
  BY AvailableType, FrontendAssumption DEF TypeOK
<1>2. /\ tokens[w][c] \in 0..Capacity /\ granted[w][c] \in Nat /\ own[w][c] \in Nat
      /\ relayed[w][c] \in Nat /\ full[w][c] \in Nat
      /\ lastRefill[w][c] \in Nat /\ born[w][c] \in Nat /\ RefilledAt(w, c) \in Nat
  BY DEF TypeOK, RefilledAt
<1>3. /\ buckets'[w] = buckets[w] \cup {c}
      /\ tokens'[w][c] = Available(w, c) - paid * Cost
      /\ granted'[w][c] = granted[w][c] + paid
      /\ lastRefill'[w][c] = CreditedTo(w, c)
      /\ born'[w][c] = IF c \in buckets[w] THEN born[w][c] ELSE now
  BY <1>1 DEF Charge, TypeOK
<1>4. \A v \in Worker, x \in Key : <<v, x>> # <<w, c>> =>
        /\ x \in buckets'[v] <=> x \in buckets[v]
        /\ tokens'[v][x] = tokens[v][x] /\ granted'[v][x] = granted[v][x]
        /\ own'[v][x] = own[v][x] /\ relayed'[v][x] = relayed[v][x]
        /\ lastRefill'[v][x] = lastRefill[v][x]
        /\ born'[v][x] = born[v][x] /\ full'[v][x] = full[v][x]
  BY DEF Charge, TypeOK
<1>5. tokens'[w][c] + granted'[w][c] * Cost
        <= Capacity + (lastRefill'[w][c] - born'[w][c]) * Refill
  <2>1. (granted[w][c] + paid) * Cost = granted[w][c] * Cost + paid * Cost
    BY <1>1, <1>2, Distribute
  <2>2. CASE c \notin buckets[w]
    <3>1. granted[w][c] = 0 /\ Available(w, c) = Capacity
      BY <2>2 DEF BucketInv, Unused, Available
    <3>2. lastRefill'[w][c] - born'[w][c] = 0
      BY <1>1, <1>3, <2>2 DEF CreditedTo
    <3>3. (lastRefill'[w][c] - born'[w][c]) * Refill = 0 /\ granted'[w][c] = paid
      BY <1>1, <1>3, <3>1, <3>2
    <3>4. granted'[w][c] * Cost = paid * Cost
      BY <3>3
    <3>5. tokens'[w][c] = Capacity - paid * Cost
      BY <1>3, <3>1
    <3> HIDE DEF paid
    <3>6. QED
      BY <1>1, <3>3, <3>4, <3>5
  <2>3. CASE c \in buckets[w]
    <3> DEFINE a == lastRefill[w][c] - born[w][c]
    <3>1. e \in Int /\ a \in Int /\ e + a = RefilledAt(w, c) - born[w][c]
      BY <1>2
    <3>2. (e + a) * Refill = e * Refill + a * Refill
      BY <1>1, <3>1, Distribute
    <3>3. Available(w, c) <= tokens[w][c] + e * Refill
      BY <2>3, AvailableSum
    <3>4. tokens[w][c] + granted[w][c] * Cost <= Capacity + a * Refill
      BY <2>3 DEF BucketInv, RateBound
    <3>5. e * Refill \in Int /\ a * Refill \in Int /\ granted[w][c] * Cost \in Int
      BY <1>1, <1>2, <3>1
    <3>6. lastRefill'[w][c] - born'[w][c] = e + a
      BY <1>3, <2>3, <3>1 DEF CreditedTo
    <3>7. (lastRefill'[w][c] - born'[w][c]) * Refill = e * Refill + a * Refill
      BY <3>2, <3>6
    <3>8. granted'[w][c] * Cost = granted[w][c] * Cost + paid * Cost
      BY <1>3, <2>1
    <3> HIDE DEF e, a, paid
    <3>9. QED
      BY <1>1, <1>2, <1>3, <3>3, <3>4, <3>5, <3>7, <3>8
  <2>4. QED
    BY <2>2, <2>3
<1>6. tokens'[w][c] >= Capacity + (lastRefill'[w][c] - full'[w][c]) * Refill
                        - Drawn(w, c)' * Cost
  <2>1. Drawn(w, c)' = (IF Available(w, c) = Capacity THEN 0 ELSE Drawn(w, c)) + paid
    <3>1. own'[w][c] = Since(own, w, c, ~b) /\ relayed'[w][c] = Since(relayed, w, c, b)
      BY DEF Charge, TypeOK
    <3>2. Drawn(w, c)' = own'[w][c] + (IF c = Local THEN relayed'[w][c] ELSE 0)
      BY DEF Drawn
    <3>3. QED
      BY <1>2, <3>1, <3>2 DEF Drawn, Since
  <2>2. full'[w][c] = IF Available(w, c) = Capacity THEN CreditedTo(w, c) ELSE full[w][c]
    BY DEF Charge, TypeOK
  <2>3. CASE Available(w, c) = Capacity
    <3>1. CreditedTo(w, c) \in Nat
      BY <1>1, <1>2 DEF CreditedTo
    <3>2. lastRefill'[w][c] - full'[w][c] = 0
      BY <1>3, <2>2, <2>3, <3>1
    <3>3. (lastRefill'[w][c] - full'[w][c]) * Refill = 0
      BY <1>1, <3>2
    <3>4. Drawn(w, c)' = paid
      BY <1>1, <2>1, <2>3
    <3> HIDE DEF paid
    <3>5. QED
      BY <1>1, <1>3, <2>3, <3>3, <3>4
  <2>4. CASE Available(w, c) # Capacity
    <3> DEFINE a == lastRefill[w][c] - full[w][c]
               n == Drawn(w, c)
    <3>1. c \in buckets[w]
      BY <2>4 DEF Available
    <3>2. n \in Nat
      BY <1>2 DEF Drawn
    <3>3. e \in Int /\ a \in Int /\ lastRefill'[w][c] - full'[w][c] = e + a
      BY <1>2, <1>3, <2>2, <2>4, <3>1 DEF CreditedTo
    <3>4. (e + a) * Refill = e * Refill + a * Refill
      BY <1>1, <3>3, Distribute
    <3>5. (n + paid) * Cost = n * Cost + paid * Cost
      BY <1>1, <3>2, Distribute
    <3>6. Available(w, c) = tokens[w][c] + e * Refill
      BY <2>4, <3>1, AvailableSum
    <3>7. tokens[w][c] >= Capacity + a * Refill - n * Cost
      BY <3>1 DEF BucketInv, Account
    <3>8. e * Refill \in Int /\ a * Refill \in Int /\ n * Cost \in Int
      BY <1>1, <3>2, <3>3
    <3>9. Drawn(w, c)' * Cost = n * Cost + paid * Cost
      BY <2>1, <2>4, <3>5
    <3>10. (lastRefill'[w][c] - full'[w][c]) * Refill = e * Refill + a * Refill
      BY <3>3, <3>4
    <3> HIDE DEF e, a, n, paid
    <3>11. QED
      BY <1>1, <1>2, <1>3, <3>6, <3>7, <3>8, <3>9, <3>10
  <2>5. QED
    BY <2>3, <2>4
<1>7. QED
  <2>1. Unused'
    BY <1>3, <1>4 DEF BucketInv, Unused
  <2>2. buckets' \in [Worker -> SUBSET Key]
    BY ChargeType
  <2>3. RateBound'
    BY <1>4, <1>5, <2>2 DEF BucketInv, RateBound
  <2>4. Account'
    <3> SUFFICES ASSUME NEW v \in Worker, NEW x \in buckets'[v]
                 PROVE  tokens'[v][x] >= Capacity + (lastRefill'[v][x] - full'[v][x]) * Refill
                                            - Drawn(v, x)' * Cost
      BY DEF Account
    <3>1. x \in Key
      BY <2>2
    <3>2. CASE <<v, x>> = <<w, c>>
      BY <1>6, <3>2
    <3>3. CASE <<v, x>> # <<w, c>>
      <4>1. Drawn(v, x)' = Drawn(v, x)
        BY <1>4, <3>1, <3>3 DEF Drawn
      <4>2. x \in buckets[v]
        BY <1>4, <3>1, <3>3
      <4>3. tokens[v][x] >= Capacity + (lastRefill[v][x] - full[v][x]) * Refill
                                - Drawn(v, x) * Cost
        BY <4>2 DEF BucketInv, Account
      <4>4. QED
        BY <1>4, <3>1, <3>3, <4>1, <4>3
    <3>4. QED
      BY <3>2, <3>3
  <2>5. QED
    BY <2>1, <2>3, <2>4 DEF BucketInv

LEMMA BucketStep == ASSUME TypeOK, BucketInv, [Next]_vars PROVE BucketInv'
<1>1. ASSUME NEW r \in Req, NEW q \in Presentable(r), Arrive(r, q) PROVE BucketInv'
  BY <1>1, ChargeAccount DEF Arrive, TypeOK, Key
<1>2. ASSUME NEW r \in Req, Inject(r) PROVE BucketInv'
  BY <1>2, ChargeAccount DEF Inject, InjectKey, TypeOK, Key
<1>3. ASSUME NEW w \in Worker, WorkerCrash(w) PROVE BucketInv'
  <2>1. /\ buckets'[w] = {}
        /\ \A c \in Key : granted'[w][c] = 0
        /\ \A v \in Worker \ {w} :
              /\ buckets'[v] = buckets[v] /\ tokens'[v] = tokens[v]
              /\ lastRefill'[v] = lastRefill[v] /\ granted'[v] = granted[v]
              /\ born'[v] = born[v] /\ full'[v] = full[v]
              /\ own'[v] = own[v] /\ relayed'[v] = relayed[v]
    BY <1>3 DEF WorkerCrash, TypeOK
  <2>2. Unused'
    BY <2>1 DEF BucketInv, Unused
  <2>3. RateBound'
    BY <2>1 DEF BucketInv, RateBound
  <2>4. Account'
    BY <2>1 DEF BucketInv, Account, Drawn
  <2>5. QED
    BY <2>2, <2>3, <2>4 DEF BucketInv
<1>4. CASE UNCHANGED bucketVars
  BY <1>4 DEF bucketVars, BucketInv, Unused, RateBound, Account, Drawn
<1>5. QED
  BY <1>1, <1>2, <1>3, <1>4
     DEF Next, HandlePlain, HandlePresign, HandlePresigned, Tick, SetBack, vars

LEMMA BucketInit == Init => BucketInv
BY DEF Init, Each, BucketInv, Unused, RateBound, Account

LEMMA BucketAlways == Spec => [](TypeOK /\ BucketInv)
<1>1. TypeOK /\ BucketInv /\ [Next]_vars => BucketInv'
  BY BucketStep
<1>2. QED
  BY <1>1, BucketInit, TypeCorrect, PTL DEF Spec

(* No bucket grants more than its capacity and the time it has credited    *)
(* are worth, for any clock, set back or not, and any order of requests.   *)
THEOREM RateIsBounded == Spec => []RateBound
<1>1. BucketInv => RateBound
  BY DEF BucketInv
<1>2. QED
  BY <1>1, BucketAlways, PTL

(* A key is refused only when the requests that draw on its bucket, which  *)
(* for the loopback key are the injected ones too, have used up what the   *)
(* bucket held and got since it was last full.                             *)
THEOREM RefusalIsEarned == Spec => []RefusedHasSpent
<1>1. ASSUME TypeOK, BucketInv, NEW w \in Worker, NEW c \in buckets[w], ~Allowed(w, c)
      PROVE  (Drawn(w, c) + 1) * Cost
                > Capacity + (RefilledAt(w, c) - full[w][c]) * Refill
  <2> DEFINE e == RefilledAt(w, c) - lastRefill[w][c]
             a == lastRefill[w][c] - full[w][c]
             n == Drawn(w, c)
  <2>1. /\ c \in Key /\ Capacity \in Nat /\ Cost \in Nat /\ Refill \in Nat
        /\ Cost <= Capacity
    BY <1>1, FrontendAssumption DEF TypeOK
  <2>2. /\ tokens[w][c] \in 0..Capacity /\ own[w][c] \in Nat /\ relayed[w][c] \in Nat
        /\ full[w][c] \in Nat /\ lastRefill[w][c] \in Nat /\ RefilledAt(w, c) \in Nat
    BY <1>1, <2>1 DEF TypeOK, RefilledAt
  <2>3. Available(w, c) \in 0..Capacity /\ Available(w, c) < Cost
    BY <1>1, <2>1, AvailableType DEF Allowed
  <2>4. Available(w, c) = tokens[w][c] + e * Refill
    BY <1>1, <2>1, <2>3, AvailableSum
  <2>5. tokens[w][c] >= Capacity + a * Refill - n * Cost
    BY <1>1 DEF BucketInv, Account
  <2>6. e \in Int /\ a \in Int /\ n \in Nat /\ e + a = RefilledAt(w, c) - full[w][c]
    BY <2>2 DEF Drawn
  <2>7. /\ (e + a) * Refill = e * Refill + a * Refill
        /\ (n + 1) * Cost = n * Cost + 1 * Cost
    BY <2>1, <2>6, Distribute
  <2>8. e * Refill \in Int /\ a * Refill \in Int /\ n * Cost \in Int
    BY <2>1, <2>6
  <2>9. (RefilledAt(w, c) - full[w][c]) * Refill = e * Refill + a * Refill
    BY <2>6, <2>7
  <2> HIDE DEF e, a
  <2>10. (n + 1) * Cost > Capacity + (RefilledAt(w, c) - full[w][c]) * Refill
    <3> HIDE DEF n
    <3>1. QED
      BY <2>1, <2>2, <2>3, <2>4, <2>5, <2>7, <2>8, <2>9
  <2>11. QED
    BY <2>10
<1>2. TypeOK /\ BucketInv => RefusedHasSpent
  BY <1>1 DEF RefusedHasSpent
<1>3. QED
  BY <1>2, BucketAlways, PTL
-----------------------------------------------------------------------------
(* Presigned downloads *)

LEMMA SignStep == ASSUME TypeOK, SignedIssued, [Next]_vars PROVE SignedIssued'
<1>1. ASSUME NEW r \in Req, NEW q \in Presentable(r), Arrive(r, q) PROVE SignedIssued'
  <2>1. q.sig # NoSig => \E i \in issued : q.sig = SignatureOf(i)
    <3>1. CASE route[r] = "presigned"
      BY <3>1 DEF Presentable
    <3>2. CASE route[r] # "presigned"
      BY <3>2 DEF Presentable, SignedIssued
    <3>3. QED
      BY <3>1, <3>2
  <2>2. query' = [query EXCEPT ![r] = q] /\ issued' = issued
    BY <1>1 DEF Arrive
  <2>3. QED
    BY <2>1, <2>2 DEF SignedIssued, SignatureOf, TypeOK
<1>2. CASE UNCHANGED query /\ issued \subseteq issued'
  BY <1>2 DEF SignedIssued, SignatureOf
<1>3. QED
  BY <1>1, <1>2 DEF Next, HandlePlain, HandlePresign, HandlePresigned, Inject,
                    WorkerCrash, Tick, SetBack, vars, args

LEMMA InTimeStep ==
    ASSUME TypeOK, SignedIssued, [Next]_vars, NEW r \in Req,
           pc[r] # "inject", pc'[r] = "inject", NoSig \notin Payload
    PROVE  \E i \in issued : i.file = path[r] /\ now <= i.at + Ttl
<1>1. HandlePresigned(r) /\ Verified(query[r], path[r])
  <2> USE DEF Goto, TypeOK
  <2>1. ASSUME NEW x \in Req, NEW q \in Presentable(x) PROVE ~Arrive(x, q)
    BY <2>1 DEF Arrive
  <2>2. ASSUME NEW x \in Req
        PROVE  ~HandlePlain(x) /\ ~HandlePresign(x) /\ ~Inject(x)
    BY <2>2 DEF HandlePlain, HandlePresign, Inject
  <2>3. ASSUME NEW w \in Worker PROVE ~WorkerCrash(w)
    BY <2>3 DEF WorkerCrash
  <2>4. ~Tick /\ ~SetBack /\ ~UNCHANGED vars
    BY DEF Tick, SetBack, vars
  <2>5. PICK x \in Req : HandlePresigned(x)
    BY <2>1, <2>2, <2>3, <2>4 DEF Next
  <2>6. QED
    BY <2>5 DEF HandlePresigned
<1>2. query[r].expires \in Nat /\ path[r] \in File
  BY DEF TypeOK, Query
<1>3. query[r].sig # NoSig
  BY <1>1, <1>2 DEF Verified, Sign, Payload
<1>4. PICK i \in issued : query[r].sig = SignatureOf(i)
  BY <1>3 DEF SignedIssued
<1>5. i.file = path[r] /\ i.at + Ttl = query[r].expires
  BY <1>1, <1>4 DEF Verified, SignatureOf, Sign
<1>6. QED
  BY <1>1, <1>5 DEF Verified

(* A presigned download goes ahead only within Ttl of a presign-download   *)
(* request for that very file, whatever its query combines.                *)
THEOREM PresignedIsInTime == Spec => PresignedInTime
<1>1. Init => SignedIssued
  BY DEF Init, SignedIssued
<1>2. TypeOK /\ SignedIssued /\ [Next]_vars => SignedIssued'
  BY SignStep
<1>3. TypeOK /\ SignedIssued /\ [Next]_vars =>
        [\A r \in Req : pc[r] # "inject" /\ pc'[r] = "inject" =>
            \E i \in issued : i.file = path[r] /\ now <= i.at + Ttl]_vars
  BY InTimeStep, FrontendAssumption DEF Payload
<1>4. QED
  BY <1>1, <1>2, <1>3, TypeCorrect, PTL DEF Spec, PresignedInTime
=============================================================================
