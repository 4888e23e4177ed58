------------------------------ MODULE Frontend ------------------------------
(***************************************************************************)
(* What server.js does with a request before and around its handler: the   *)
(* onRequest hook, which charges the client's token bucket                 *)
(* (rateLimiter.js), and the two presigned-download routes (presign.js).   *)
(* GET download-presigned re-enters the server through app.inject, so the  *)
(* hook runs a second time for it, with no x-client-id header and the      *)
(* loopback address.                                                       *)
(*                                                                         *)
(* Time is the reading of Date.now(), which may also be set back.  Tokens  *)
(* are counted in thousandths, so that refilling is exact: a millisecond   *)
(* adds refillPerSecond of them and a request costs 1000.  A token bucket  *)
(* belongs to one worker process and is gone when that process dies.       *)
(***************************************************************************)
EXTENDS Integers

CONSTANTS Req,              \* requests, each sent once
          Worker,           \* coordinator processes
          Client,           \* x-client-id values and addresses of clients
          Local,            \* the loopback address, req.ip of an injected request
          File,             \* file ids
          Capacity, Refill, Cost,   \* of a bucket, a tick and a request
          Ttl,              \* ticks until a signed URL expires
          NoSig,            \* a sig that is missing or is no signature of the server
          MaxNow            \* bound on the clock

ASSUME FrontendAssumption ==
    /\ Capacity \in Nat /\ Refill \in Nat /\ Cost \in Nat
    /\ Cost <= Capacity
    /\ Ttl \in Nat /\ MaxNow \in Nat
    /\ NoSig \notin [file : File, expires : Nat]

(* A client on the server's own host that sends no x-client-id has the key *)
(* Local too, so Local may be in Client.                                   *)
Key     == Client \cup {Local}
Route   == {"plain", "presign", "presigned"}
Payload == [file : File, expires : Nat]
Query   == [expires : Nat, sig : Payload \cup {NoSig}]

VARIABLES
    now,            \* Date.now()
    buckets,        \* buckets[w]: the keys of w's Map of buckets
    tokens,         \* tokens[w][c], where c \in buckets[w]
    lastRefill,     \* lastRefill[w][c], likewise
    pc,             \* pc[r]: "idle", "admitted", "inject", "ok", or how r was refused
    host, client, route,    \* of request r, once it has arrived
    path,           \* path[r]: fileId in r's path
    query,          \* query[r]: req.query of a presigned request
    issued,         \* the signed URLs handed out: for which file, and when
    \* History, read by properties only:
    granted, born,  \* tries of bucket [w][c] that succeeded, and when it was created
    full,           \* full[w][c]: lastRefill when the bucket was last found full
    own, relayed    \* tries granted since then: to c's requests, to injected ones

bucketVars == <<buckets, tokens, lastRefill, granted, born, full, own, relayed>>
args       == <<host, client, route, path, query>>
vars       == <<now, bucketVars, pc, args, issued>>

Each(x) == [w \in Worker |-> [c \in Key |-> x]]

Init ==
    /\ now = 0
    /\ buckets = [w \in Worker |-> {}]
    /\ tokens = Each(Capacity)
    /\ lastRefill = Each(0)
    /\ pc = [r \in Req |-> "idle"]
    /\ host \in [Req -> Worker] /\ client \in [Req -> Client]
    /\ route \in [Req -> Route] /\ path \in [Req -> File]
    /\ query = [r \in Req |-> [expires |-> 0, sig |-> NoSig]]
    /\ issued = {}
    /\ granted = Each(0) /\ born = Each(0)
    /\ full = Each(0) /\ own = Each(0) /\ relayed = Each(0)
-----------------------------------------------------------------------------
(* Rate limiter *)

AtMost(x, y) == IF x <= y THEN x ELSE y

(* Mutant: the elapsed time stays credited when the clock is read again.   *)
RefilledAtStale(w, c) == lastRefill[w][c]

(* _refill moves lastRefill forward only. *)
RefilledAt(w, c) == IF now > lastRefill[w][c] THEN now ELSE lastRefill[w][c]

(* Mutant: a clock that was set back takes tokens away. *)
RefilledAnyway(w, c) == AtMost(Capacity, tokens[w][c] + (now - lastRefill[w][c]) * Refill)

(* _refill: nothing unless the clock has moved on. *)
Refilled(w, c) ==
    IF now > lastRefill[w][c]
    THEN AtMost(Capacity, tokens[w][c] + (now - lastRefill[w][c]) * Refill)
    ELSE tokens[w][c]

(* What tryConsume finds; a key without a bucket gets a full one first. *)
Available(w, c) == IF c \in buckets[w] THEN Refilled(w, c) ELSE Capacity

(* Mutant: a remainder of a token is enough. *)
AllowedOnRemainder(w, c) == Available(w, c) > 0

(* tryConsume succeeds. *)
Allowed(w, c) == Available(w, c) >= Cost

(* lastRefill once tryConsume has refilled the bucket. *)
CreditedTo(w, c) == IF c \in buckets[w] THEN RefilledAt(w, c) ELSE now

(* The grants of one kind (f is own or relayed) since the bucket was full. *)
Since(f, w, c, kind) ==
    (IF Available(w, c) = Capacity THEN 0 ELSE f[w][c])
        + (IF Allowed(w, c) /\ kind THEN 1 ELSE 0)

(* allow(c) in worker w, for a request of c itself or for an injected one. *)
Charge(w, c, injected) ==
    /\ buckets' = [buckets EXCEPT ![w] = @ \cup {c}]
    /\ lastRefill' = [lastRefill EXCEPT ![w][c] = CreditedTo(w, c)]
    /\ tokens' = [tokens EXCEPT ![w][c] =
                    Available(w, c) - (IF Allowed(w, c) THEN Cost ELSE 0)]
    /\ granted' = [granted EXCEPT ![w][c] = @ + (IF Allowed(w, c) THEN 1 ELSE 0)]
    /\ born' = [born EXCEPT ![w][c] = IF c \in buckets[w] THEN @ ELSE now]
    /\ full' = [full EXCEPT ![w][c] = IF Available(w, c) = Capacity
                                      THEN CreditedTo(w, c) ELSE @]
    /\ own' = [own EXCEPT ![w][c] = Since(own, w, c, ~injected)]
    /\ relayed' = [relayed EXCEPT ![w][c] = Since(relayed, w, c, injected)]
-----------------------------------------------------------------------------
(* Requests *)

Goto(r, label) == pc' = [pc EXCEPT ![r] = label]

(* The onRequest hook: 429, or on to the handler. *)
Arrive(r, q) ==
    /\ pc[r] = "idle"
    /\ query' = [query EXCEPT ![r] = q]
    /\ Charge(host[r], client[r], FALSE)
    /\ Goto(r, IF Allowed(host[r], client[r]) THEN "admitted" ELSE "429")
    /\ UNCHANGED <<now, host, client, route, path, issued>>

(* A route that has no dealings with the limiter or with signatures. *)
HandlePlain(r) ==
    /\ pc[r] = "admitted" /\ route[r] = "plain"
    /\ Goto(r, "ok")
    /\ UNCHANGED <<now, bucketVars, args, issued>>

(* Mutant: the signature leaves the expiry out. *)
SignPathOnly(f, e) == [file |-> f, expires |-> 0]

(* sign: the HMAC stands for the payload it was made from, here the path   *)
(* and the expiry; the method is GET on both sides.                        *)
Sign(f, e) == [file |-> f, expires |-> e]

(* POST presign-download: 404, or a URL for this file that expires at      *)
(* now + Ttl.                                                              *)
HandlePresign(r) ==
    /\ pc[r] = "admitted" /\ route[r] = "presign"
    /\ \/ Goto(r, "404") /\ UNCHANGED issued
       \/ /\ Goto(r, "ok")
          /\ issued' = issued \cup {[file |-> path[r], at |-> now]}
    /\ UNCHANGED <<now, bucketVars, args>>

(* The signature in the URL that was handed out as i. *)
SignatureOf(i) == Sign(i.file, i.at + Ttl)

(* verifyPresigned: not expired by the query's own expiry, and the         *)
(* signature is the one for this path and that expiry.                     *)
Verified(q, f) == now <= q.expires /\ q.sig = Sign(f, q.expires)

HandlePresigned(r) ==
    /\ pc[r] = "admitted" /\ route[r] = "presigned"
    /\ Goto(r, IF Verified(query[r], path[r]) THEN "inject" ELSE "403")
    /\ UNCHANGED <<now, bucketVars, args, issued>>

(* app.inject sends no x-client-id, so req.ip is the key. *)
InjectKey(r) == Local

(* The injected GET download meets the hook; its status is passed on. *)
Inject(r) ==
    /\ pc[r] = "inject"
    /\ Charge(host[r], InjectKey(r), TRUE)
    /\ Goto(r, IF Allowed(host[r], InjectKey(r)) THEN "ok" ELSE "inner429")
    /\ UNCHANGED <<now, args, issued>>
-----------------------------------------------------------------------------
(* Environment *)

Tick == /\ now < MaxNow
        /\ now' = now + 1
        /\ UNCHANGED <<bucketVars, pc, args, issued>>

SetBack == /\ now > 0
           /\ now' = now - 1
           /\ UNCHANGED <<bucketVars, pc, args, issued>>

(* A worker dies; the one forked in its place starts with no buckets. *)
WorkerCrash(w) ==
    /\ buckets[w] # {}
    /\ buckets' = [buckets EXCEPT ![w] = {}]
    /\ tokens' = [tokens EXCEPT ![w] = [c \in Key |-> Capacity]]
    /\ lastRefill' = [lastRefill EXCEPT ![w] = [c \in Key |-> 0]]
    /\ granted' = [granted EXCEPT ![w] = [c \in Key |-> 0]]
    /\ born' = [born EXCEPT ![w] = [c \in Key |-> 0]]
    /\ full' = [full EXCEPT ![w] = [c \in Key |-> 0]]
    /\ own' = [own EXCEPT ![w] = [c \in Key |-> 0]]
    /\ relayed' = [relayed EXCEPT ![w] = [c \in Key |-> 0]]
    /\ pc' = [r \in Req |-> IF host[r] = w /\ pc[r] \in {"admitted", "inject"}
                            THEN "lost" ELSE pc[r]]
    /\ UNCHANGED <<now, args, issued>>

(* The queries a presigned request may come with: any signature handed     *)
(* out, whatever file it was for, with any expiry, or no signature.  Other *)
(* routes do not read the query.                                           *)
Presentable(r) ==
    IF route[r] = "presigned"
    THEN [expires : 0..(MaxNow + Ttl), sig : {SignatureOf(i) : i \in issued}]
            \cup {[expires |-> MaxNow + Ttl, sig |-> NoSig]}
    ELSE {query[r]}

Next ==
    \/ \E r \in Req : \/ \E q \in Presentable(r) : Arrive(r, q)
                      \/ HandlePlain(r) \/ HandlePresign(r) \/ HandlePresigned(r)
                      \/ Inject(r)
    \/ \E w \in Worker : WorkerCrash(w)
    \/ Tick \/ SetBack

Spec == Init /\ [][Next]_vars
-----------------------------------------------------------------------------
(* Properties *)

TypeOK ==
    /\ now \in Nat
    /\ buckets \in [Worker -> SUBSET Key]
    /\ tokens \in [Worker -> [Key -> 0..Capacity]]
    /\ lastRefill \in [Worker -> [Key -> Nat]]
    /\ pc \in [Req -> {"idle", "admitted", "inject", "ok", "404", "403", "429",
                       "inner429", "lost"}]
    /\ host \in [Req -> Worker] /\ client \in [Req -> Client]
    /\ route \in [Req -> Route] /\ path \in [Req -> File]
    /\ query \in [Req -> Query]
    /\ issued \subseteq [file : File, at : Nat]
    /\ granted \in [Worker -> [Key -> Nat]] /\ born \in [Worker -> [Key -> Nat]]
    /\ full \in [Worker -> [Key -> Nat]]
    /\ own \in [Worker -> [Key -> Nat]] /\ relayed \in [Worker -> [Key -> Nat]]

(* What a bucket has granted, and still holds, never exceeds its capacity  *)
(* and what the time it has credited is worth, however the clock jumps and *)
(* however often it is read: no interval is credited twice.                *)
RateBound ==
    \A w \in Worker : \A c \in buckets[w] :
        tokens[w][c] + granted[w][c] * Cost
            <= Capacity + (lastRefill[w][c] - born[w][c]) * Refill

(* Who draws on bucket [w][c]: the requests whose key is c and, if c is    *)
(* the loopback address, the injected ones.                                *)
Drawn(w, c) == own[w][c] + (IF c = Local THEN relayed[w][c] ELSE 0)

(* The other side of it: the hook refuses a key only when the requests     *)
(* that draw on its bucket have used up, since the bucket was last full,   *)
(* the capacity and all that the time credited since then is worth.  No    *)
(* other key's requests and no reading of the clock cost it anything, but  *)
(* a loopback client shares its bucket with every presigned download.      *)
RefusedHasSpent ==
    \A w \in Worker : \A c \in buckets[w] : ~Allowed(w, c) =>
        (Drawn(w, c) + 1) * Cost
            > Capacity + (RefilledAt(w, c) - full[w][c]) * Refill

(* "neither can be used past its expiry" (presign.js): a presigned         *)
(* download goes ahead only within Ttl of a presign-download request for   *)
(* that very file, whatever expiry and signature its query combines and    *)
(* however long the request waited.                                        *)
PresignedInTime ==
    [][\A r \in Req : pc[r] # "inject" /\ pc'[r] = "inject" =>
          \E i \in issued : i.file = path[r] /\ now <= i.at + Ttl]_vars

(* "each client's allowance is fully independent": a request that the hook *)
(* is about to answer 429, on its way in or injected, is one of a client   *)
(* that has spent its own allowance in that worker.                        *)
Independent ==
    \A r \in Req :
        \/ pc[r] = "idle" /\ ~Allowed(host[r], client[r])
        \/ pc[r] = "inject" /\ ~Allowed(host[r], InjectKey(r))
        => (own[host[r]][client[r]] + 1) * Cost > Capacity
=============================================================================
