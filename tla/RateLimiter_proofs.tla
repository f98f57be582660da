-------------------------- MODULE RateLimiter_proofs --------------------------
(***************************************************************************)
(* Proofs of the safety properties of RateLimiter for any clients,         *)
(* proxies, requests, storages, limits, window and cleanup interval.       *)
(***************************************************************************)
EXTENDS RateLimiter, FiniteSetTheorems, TLAPS

(***************************************************************************)
(* 1. The client's address                                                 *)
(***************************************************************************)

\* Whatever a request has on its way, it is counted under the address it comes from.
LEMMA ResolvesToOrigin ==
    ASSUME NEW request \in Requests
    PROVE  ResolveClientIp(request) = request.origin /\ request.origin \in Clients
<1>. /\ request.origin \in Clients /\ request.origin \notin Proxies /\ request.origin # None
     /\ request.hops \in Seq(STRING) /\ Arrives(request)
  BY RequestsArrive, ClientsAreNoProxies
<1>1. CASE request.direct = request.origin
  BY <1>1 DEF ResolveClientIp
<1>2. ASSUME request.direct \in Proxies,
             NEW i \in DOMAIN request.hops, request.hops[i] = request.origin,
             \A j \in DOMAIN request.hops : j > i => request.hops[j] \in Proxies
      PROVE  ResolveClientIp(request) = request.origin
  <2>. DOMAIN request.hops \subseteq Nat
    OBVIOUS
  <2>1. i \in Untrusted(request.hops) /\ \A j \in Untrusted(request.hops) : j <= i
    BY <1>2 DEF Untrusted
  <2>2. \A k \in Untrusted(request.hops) :
           (\A j \in Untrusted(request.hops) : j <= k) => k = i
    BY <2>1 DEF Untrusted
  <2>3. (CHOOSE k \in Untrusted(request.hops) : \A j \in Untrusted(request.hops) : j <= k) = i
    BY <2>1, <2>2
  <2>4. Rightmost(request.hops) = request.origin
    BY <1>2, <2>3 DEF Rightmost
  <2>. QED BY <1>2, <2>1, <2>4 DEF ResolveClientIp
<1>3. ASSUME request.direct \in Proxies, request.hops = <<>>, request.real = request.origin
      PROVE  ResolveClientIp(request) = request.origin
  <2>1. Untrusted(request.hops) = {}
    BY <1>3 DEF Untrusted
  <2>. QED BY <1>3, <2>1 DEF ResolveClientIp
<1>. QED BY <1>1, <1>2, <1>3 DEF Arrives

(***************************************************************************)
(* 2. Types, times, callers and locks                                      *)
(***************************************************************************)

\* The clock's bound is a number, and so is every time noted.
LEMMA Times ==
    ASSUME TypeOK
    PROVE  /\ now \in Nat /\ MaxTime \in Nat /\ Window \in Nat \ {0}
           /\ \A c \in Calls : since[c] \in Nat /\ stamp[c] \in Nat
BY LimitsArePositive DEF TypeOK

\* What is recorded is a call and a time not later than now.
LEMMA PrunedStored ==
    ASSUME TypeOK, NEW c \in Calls
    PROVE  Pruned(c) \subseteq stored
BY DEF Pruned, CleanedUp

\* Every step keeps the types.
LEMMA NextType ==
    ASSUME TypeOK, KeysAreOrigins, Next
    PROVE  TypeOK'
<1>. now \in Nat /\ MaxTime \in Nat /\ now \in 0 .. MaxTime
  BY Times DEF TypeOK
<1>1. ASSUME NEW c \in Calls, NEW request \in Requests, NEW s \in Stores, Ask(c, request, s)
      PROVE  TypeOK'
  BY <1>1, ResolvesToOrigin DEF Ask, TypeOK, Statements
<1>2. ASSUME NEW c \in Calls, MemoryRefuse(c)
      PROVE  TypeOK'
  BY <1>2, PrunedStored DEF MemoryRefuse, MemorySweep, Answer, TypeOK, Statements, callers
<1>3. ASSUME NEW c \in Calls, MemoryAllow(c)
      PROVE  TypeOK'
  <2>1. stored' \subseteq Calls
    BY <1>3, PrunedStored DEF MemoryAllow, Record, CleanedUp, TypeOK
  <2>. QED BY <1>3, <2>1
           DEF MemoryAllow, Record, MemorySweep, Answer, TypeOK, Statements, callers
<1>4. ASSUME NEW c \in Calls, NEW k \in Clients, MemoryEvict(c, k)
      PROVE  TypeOK'
  <2>1. stored' \subseteq Calls /\ evicted' \subseteq Calls
    BY <1>4, PrunedStored DEF MemoryEvict, Record, CleanedUp, Within, TypeOK
  <2>2. /\ pc' = [pc EXCEPT ![c] = "allowed"] /\ stamp' = [stamp EXCEPT ![c] = now]
        /\ swept' = [swept EXCEPT ![store[c]] = now] \/ swept' = swept
        /\ UNCHANGED <<storage, now, callers, since, locked>>
    BY <1>4 DEF MemoryEvict, Record, MemorySweep, Answer
  <2>. QED BY <2>1, <2>2 DEF TypeOK, Statements, callers
<1>5. ASSUME NEW c \in Calls, SharedAcquire(c) \/ SharedFail(c)
      PROVE  TypeOK'
  <2>1. store[c] \in Stores
    BY <1>5 DEF SharedAcquire, SharedFail, KeysAreOrigins
  <2>. QED BY <1>5, <2>1 DEF SharedAcquire, SharedFail, Leave, Answer, TypeOK, Statements, callers
<1>6. ASSUME NEW c \in Calls, NEW t \in 0 .. MaxTime,
             SharedCleanup(c, t) \/ SharedRefuse(c, t) \/ SharedAllow(c, t)
      PROVE  TypeOK'
  <2>1. stored' \subseteq Calls
    BY <1>6 DEF SharedCleanup, SharedRefuse, SharedAllow, Record, Kept, TypeOK
  <2>. QED BY <1>6, <2>1 DEF SharedCleanup, SharedRefuse, SharedAllow, Record, Leave, Answer,
                            TypeOK, Statements, callers
<1>7. ASSUME Tick
      PROVE  TypeOK'
  BY <1>7 DEF Tick, TypeOK, callers
<1>. QED BY <1>1, <1>2, <1>3, <1>4, <1>5, <1>6, <1>7 DEF Next, Proceed

\* A call keeps the store and the key it was given when it came.
LEMMA NextCallers ==
    ASSUME TypeOK, KeysAreOrigins, Next
    PROVE  KeysAreOrigins'
<1>1. ASSUME NEW c \in Calls, NEW request \in Requests, NEW s \in Stores, Ask(c, request, s)
      PROVE  KeysAreOrigins'
  BY <1>1, ResolvesToOrigin DEF Ask, TypeOK, KeysAreOrigins
<1>2. ASSUME NEW c \in Calls, Proceed(c)
      PROVE  KeysAreOrigins'
  <2>1. UNCHANGED callers /\ pc[c] # "idle" /\ \A d \in Calls \ {c} : pc'[d] = pc[d]
    BY <1>2 DEF Proceed, MemoryRefuse, MemoryAllow, MemoryEvict, SharedAcquire, SharedCleanup,
                SharedRefuse, SharedAllow, SharedFail, Record, Answer, TypeOK
  <2>. QED BY <2>1 DEF KeysAreOrigins, callers
<1>3. ASSUME Tick
      PROVE  KeysAreOrigins'
  BY <1>3 DEF Tick, callers, KeysAreOrigins
<1>. QED BY <1>1, <1>2, <1>3 DEF Next

\* No time noted is in the future.
LEMMA NextTimes ==
    ASSUME TypeOK, TimesOK, Next
    PROVE  TimesOK'
<1>. now \in Nat /\ \A c \in Calls : since[c] \in Nat /\ stamp[c] \in Nat
  BY Times
<1>1. ASSUME NEW c \in Calls, NEW request \in Requests, NEW s \in Stores, Ask(c, request, s)
      PROVE  TimesOK'
  BY <1>1 DEF Ask, TimesOK
<1>2. ASSUME NEW c \in Calls, Proceed(c)
      PROVE  TimesOK'
  <2>1. /\ now' = now
        /\ since' = [since EXCEPT ![c] = now] \/ since' = [since EXCEPT ![c] = 0] \/ since' = since
        /\ stamp' = stamp \/ \E t \in 0 .. now : stamp' = [stamp EXCEPT ![c] = t]
    BY <1>2 DEF Proceed, MemoryRefuse, MemoryAllow, MemoryEvict, SharedAcquire, SharedCleanup,
                SharedRefuse, SharedAllow, SharedFail, Record, Leave
  <2>. QED BY <2>1 DEF TimesOK, TypeOK
<1>3. ASSUME Tick
      PROVE  TimesOK'
  BY <1>3 DEF Tick, TimesOK
<1>. QED BY <1>1, <1>2, <1>3 DEF Next

\* Locks are taken and released with the statements they guard.
LEMMA NextLocks ==
    ASSUME TypeOK, KeysAreOrigins, LocksAreOwned, Next
    PROVE  LocksAreOwned'
<1>1. ASSUME NEW c \in Calls, NEW request \in Requests, NEW s \in Stores, Ask(c, request, s)
      PROVE  LocksAreOwned'
  <2>1. /\ pc'[c] = "waiting" /\ pc[c] = "idle"
        /\ \A d \in Calls \ {c} : pc'[d] = pc[d] /\ store'[d] = store[d]
        /\ locked' = locked /\ storage' = storage
    BY <1>1 DEF Ask, TypeOK
  <2>. QED BY <2>1 DEF LocksAreOwned, AtWork
<1>2. ASSUME NEW c \in Calls, MemoryRefuse(c) \/ MemoryAllow(c) \/ \E k \in Clients : MemoryEvict(c, k)
      PROVE  LocksAreOwned'
  <2>1. /\ pc'[c] \in {"allowed", "refused"} /\ pc[c] = "waiting"
        /\ \A d \in Calls \ {c} : pc'[d] = pc[d]
        /\ store' = store /\ locked' = locked /\ storage' = storage
    BY <1>2 DEF MemoryRefuse, MemoryAllow, MemoryEvict, Record, Answer, callers, TypeOK
  <2>. QED BY <2>1 DEF LocksAreOwned, AtWork
<1>3. ASSUME NEW c \in Calls, SharedAcquire(c)
      PROVE  LocksAreOwned'
  <2>1. /\ pc'[c] \in {"cleaning", "counting"} /\ pc[c] = "waiting"
        /\ \A d \in Calls \ {c} : pc'[d] = pc[d]
        /\ store' = store /\ locked' = locked \cup {store[c]} /\ store[c] \notin locked
        /\ storage = "shared" /\ storage' = storage /\ store[c] \in Stores
    BY <1>3 DEF SharedAcquire, Answer, callers, TypeOK, KeysAreOrigins
  <2>2. \A d \in Calls : AtWork(d) => store[d] # store[c]
    BY <2>1 DEF LocksAreOwned
  <2>. QED BY <2>1, <2>2 DEF LocksAreOwned, AtWork
<1>4. ASSUME NEW c \in Calls, NEW t \in 0 .. MaxTime, SharedCleanup(c, t)
      PROVE  LocksAreOwned'
  <2>1. /\ pc'[c] = "counting" /\ pc[c] = "cleaning"
        /\ \A d \in Calls \ {c} : pc'[d] = pc[d]
        /\ store' = store /\ locked' = locked /\ storage' = storage
    BY <1>4 DEF SharedCleanup, Answer, callers, TypeOK
  <2>2. \A d \in Calls : AtWork(d)' <=> AtWork(d)
    BY <2>1 DEF AtWork
  <2>. QED BY <2>1, <2>2 DEF LocksAreOwned
<1>5. ASSUME NEW c \in Calls,
             SharedFail(c) \/ \E t \in 0 .. MaxTime : SharedRefuse(c, t) \/ SharedAllow(c, t)
      PROVE  LocksAreOwned'
  <2>1. /\ pc'[c] \in {"failed", "refused", "allowed"} /\ pc[c] \in {"cleaning", "counting"}
        /\ \A d \in Calls \ {c} : pc'[d] = pc[d]
        /\ store' = store /\ locked' = locked \ {store[c]} /\ storage' = storage
    BY <1>5 DEF SharedFail, SharedRefuse, SharedAllow, Record, Leave, Answer, callers, TypeOK
  <2>2. \A d \in Calls \ {c} : AtWork(d) => store[d] # store[c]
    BY <2>1 DEF LocksAreOwned, AtWork
  <2>. QED BY <2>1, <2>2 DEF LocksAreOwned, AtWork
<1>6. ASSUME Tick
      PROVE  LocksAreOwned'
  BY <1>6 DEF Tick, callers, LocksAreOwned, AtWork
<1>. QED BY <1>1, <1>2, <1>3, <1>4, <1>5, <1>6 DEF Next, Proceed

(***************************************************************************)
(* 3. What is kept and what is forgotten                                   *)
(***************************************************************************)

\* A step keeps StoreOK if it drops only what has expired or is evicted.
LEMMA Forgets ==
    ASSUME TypeOK, TypeOK', StoreOK, now <= now',
           evicted \subseteq evicted', stored' \subseteq Admitted',
           \A d \in Admitted : stamp'[d] = stamp[d],
           \A d \in Admitted' : d \in Admitted \/ d \in stored',
           \A d \in stored : d \in stored' \/ d \in evicted' \/ Expired(d, now)
    PROVE  StoreOK'
<1>. SUFFICES ASSUME NEW d \in Admitted', d \notin evicted', ~Expired(d, now)'
              PROVE  d \in stored'
  BY DEF StoreOK
<1>. now \in Nat /\ now' \in Nat /\ Window \in Nat /\ d \in Calls /\ stamp[d] \in Nat
  BY LimitsArePositive DEF TypeOK, Admitted
<1>. SUFFICES ASSUME d \in Admitted
              PROVE  d \in stored'
  OBVIOUS
<1>1. ~Expired(d, now)
  BY DEF Expired
<1>2. d \in stored
  BY <1>1 DEF StoreOK
<1>. QED BY <1>1, <1>2

\* What memory prunes has expired.
LEMMA PrunedDrops ==
    ASSUME NEW c \in Calls
    PROVE  /\ Pruned(c) \subseteq stored
           /\ \A d \in stored : d \in Pruned(c) \/ Expired(d, now)
BY DEF Pruned, CleanedUp

\* A call that was expired at an earlier time is now.
LEMMA ExpiredLater ==
    ASSUME TypeOK, NEW c \in Calls, NEW t \in 0 .. now, Expired(c, t)
    PROVE  Expired(c, now)
BY Times DEF Expired

\* Every step drops only what has expired or is evicted, and records what is allowed.
LEMMA NextStore ==
    ASSUME TypeOK, TypeOK', KeysAreOrigins, TimesOK, StoreOK, Next
    PROVE  StoreOK'
<1>. now \in Nat /\ stored \subseteq Calls /\ stored \subseteq Admitted
  BY Times DEF TypeOK, StoreOK
<1>1. ASSUME NEW c \in Calls, NEW request \in Requests, NEW s \in Stores, Ask(c, request, s)
      PROVE  StoreOK'
  <2>1. Admitted' = Admitted
    BY <1>1 DEF Ask, Admitted, TypeOK
  <2>. QED BY <1>1, <2>1, Forgets DEF Ask
<1>2. ASSUME NEW c \in Calls, pc[c] # "allowed", pc' = [pc EXCEPT ![c] = "allowed"],
             NEW t, stamp' = [stamp EXCEPT ![c] = t],
             NEW rows \in SUBSET stored, stored' = rows \cup {c}, now' = now,
             evicted \subseteq evicted',
             \A d \in stored : d \in rows \/ d \in evicted' \/ Expired(d, now)
      PROVE  StoreOK'
  <2>1. Admitted' = Admitted \cup {c} /\ c \notin Admitted
    BY <1>2 DEF Admitted, TypeOK
  <2>2. \A d \in Admitted : stamp'[d] = stamp[d]
    BY <1>2, <2>1 DEF Admitted, TypeOK
  <2>. QED BY <1>2, <2>1, <2>2, Forgets
<1>3. ASSUME NEW c \in Calls, pc[c] # "allowed", NEW answer, answer # "allowed",
             pc' = [pc EXCEPT ![c] = answer], UNCHANGED <<stamp, now, evicted>>,
             stored' \subseteq stored, \A d \in stored : d \in stored' \/ Expired(d, now)
      PROVE  StoreOK'
  <2>1. Admitted' = Admitted
    BY <1>3 DEF Admitted, TypeOK
  <2>. QED BY <1>3, <2>1, Forgets
<1>4. ASSUME NEW c \in Calls, MemoryRefuse(c)
      PROVE  StoreOK'
  BY <1>3, <1>4, PrunedDrops DEF MemoryRefuse, Answer
<1>5. ASSUME NEW c \in Calls, MemoryAllow(c)
      PROVE  StoreOK'
  <2>1. PICK rows : /\ rows = Pruned(c) \/ rows = CleanedUp(Pruned(c), store[c])
                    /\ Record(rows, c, now)
    BY <1>5 DEF MemoryAllow
  <2>2. rows \subseteq stored /\ \A d \in stored : d \in rows \/ Expired(d, now)
    BY <2>1, PrunedDrops DEF CleanedUp
  <2>. QED BY <1>2, <1>5, <2>1, <2>2 DEF MemoryAllow, Record, Answer
<1>6. ASSUME NEW c \in Calls, NEW k \in Clients, MemoryEvict(c, k)
      PROVE  StoreOK'
  <2>1. PICK rows, victim : /\ rows = CleanedUp(Pruned(c), store[c])
                            /\ Record(rows \ victim, c, now)
                            /\ evicted' = evicted \cup victim
    BY <1>6 DEF MemoryEvict
  <2>2. rows \subseteq stored /\ \A d \in stored : d \in rows \/ Expired(d, now)
    BY <2>1, PrunedDrops DEF CleanedUp
  <2>3. /\ pc[c] # "allowed" /\ now' = now
        /\ stored' = (rows \ victim) \cup {c} /\ stamp' = [stamp EXCEPT ![c] = now]
        /\ pc' = [pc EXCEPT ![c] = "allowed"]
    BY <1>6, <2>1 DEF MemoryEvict, Record, Answer
  <2>. QED BY <1>2, <2>1, <2>2, <2>3
<1>7. ASSUME NEW c \in Calls, SharedAcquire(c) \/ SharedFail(c)
      PROVE  StoreOK'
  <2>1. PICK answer : answer # "allowed" /\ pc' = [pc EXCEPT ![c] = answer]
    BY <1>7 DEF SharedAcquire, SharedFail, Answer
  <2>. QED BY <1>3, <1>7, <2>1 DEF SharedAcquire, SharedFail
<1>8. ASSUME NEW c \in Calls, NEW t \in 0 .. MaxTime, SharedCleanup(c, t) \/ SharedRefuse(c, t)
      PROVE  StoreOK'
  <2>1. t \in 0 .. now
    BY <1>8, Times DEF SharedCleanup, SharedRefuse
  <2>2. stored' \subseteq stored /\ \A d \in stored : d \in stored' \/ Expired(d, t)
    BY <1>8 DEF SharedCleanup, SharedRefuse, Kept
  <2>3. \A d \in stored : d \in stored' \/ Expired(d, now)
    BY <2>1, <2>2, ExpiredLater
  <2>4. PICK answer : answer # "allowed" /\ pc' = [pc EXCEPT ![c] = answer]
    BY <1>8 DEF SharedCleanup, SharedRefuse, Answer
  <2>. QED BY <1>3, <1>8, <2>2, <2>3, <2>4 DEF SharedCleanup, SharedRefuse
<1>9. ASSUME NEW c \in Calls, NEW t \in 0 .. MaxTime, SharedAllow(c, t)
      PROVE  StoreOK'
  <2>1. t \in 0 .. now
    BY <1>9, Times DEF SharedAllow
  <2>2. Kept(c, t) \subseteq stored /\ \A d \in stored : d \in Kept(c, t) \/ Expired(d, t)
    BY DEF Kept
  <2>3. \A d \in stored : d \in Kept(c, t) \/ Expired(d, now)
    BY <2>1, <2>2, ExpiredLater
  <2>. QED BY <1>2, <1>9, <2>2, <2>3 DEF SharedAllow, Record, Answer
<1>10. ASSUME Tick
       PROVE  StoreOK'
  <2>1. Admitted' = Admitted
    BY <1>10 DEF Tick, Admitted
  <2>. QED BY <1>10, <2>1, Forgets DEF Tick
<1>. QED BY <1>1, <1>4, <1>5, <1>6, <1>7, <1>8, <1>9, <1>10 DEF Next, Proceed

(***************************************************************************)
(* 4. The bound on tracked keys                                            *)
(***************************************************************************)

\* The keys of stored calls are clients, finitely many.
LEMMA KeysFinite ==
    ASSUME KeysAreOrigins, NEW rows, rows \subseteq Admitted, NEW s
    PROVE  /\ Keys(rows, s) \subseteq Clients /\ IsFiniteSet(Keys(rows, s))
           /\ Cardinality(Keys(rows, s)) \in Nat
<1>1. Keys(rows, s) \subseteq Clients
  BY DEF Keys, Within, KeysAreOrigins, Admitted
<1>2. IsFiniteSet(Keys(rows, s))
  BY <1>1, FS_Subset, ClientsAreNoProxies
<1>. QED BY <1>1, <1>2, FS_CardinalityType

\* Fewer timestamps have no more keys.
LEMMA FewerKeys ==
    ASSUME KeysAreOrigins, stored \subseteq Admitted, NEW keys, NEW s, keys \subseteq Keys(stored, s)
    PROVE  IsFiniteSet(keys) /\ Cardinality(keys) \in Nat
           /\ Cardinality(keys) <= Cardinality(Keys(stored, s))
BY KeysFinite, FS_Subset, FS_CardinalityType

\* A new key takes a free place, or that of the key evicted.
LEMMA NextKeys ==
    ASSUME IInv, Next
    PROVE  KeysAreBounded'
<1>. /\ TypeOK /\ KeysAreOrigins /\ stored \subseteq Admitted /\ KeysAreBounded
     /\ MaxTrackedKeys \in Nat
  BY LimitsArePositive DEF IInv, StoreOK
<1>. SUFFICES ASSUME storage' = "memory", NEW s \in Stores
              PROVE  Cardinality(Keys(stored, s)') <= MaxTrackedKeys
  BY DEF KeysAreBounded
<1>0. storage = "memory" /\ Cardinality(Keys(stored, s)) \in Nat
      /\ Cardinality(Keys(stored, s)) <= MaxTrackedKeys
  <2>1. storage' = storage
    BY DEF Next, Ask, Proceed, MemoryRefuse, MemoryAllow, MemoryEvict, SharedAcquire,
           SharedCleanup, SharedRefuse, SharedAllow, SharedFail, Tick
  <2>. QED BY <2>1, KeysFinite DEF KeysAreBounded
<1>1. \A c \in Calls : ~AtWork(c)
  BY <1>0 DEF IInv, LocksAreOwned, KeysAreOrigins, AtWork
<1>2. ASSUME Keys(stored, s)' \subseteq Keys(stored, s)
      PROVE  Cardinality(Keys(stored, s)') <= MaxTrackedKeys
  <2>1. /\ Cardinality(Keys(stored, s)') \in Nat
        /\ Cardinality(Keys(stored, s)') <= Cardinality(Keys(stored, s))
    BY <1>2, FewerKeys
  <2>. QED BY <1>0, <2>1
<1>3. ASSUME UNCHANGED callers, stored' \subseteq stored
      PROVE  Keys(stored, s)' \subseteq Keys(stored, s)
  BY <1>0, <1>3 DEF Keys, Within, callers
<1>4. ASSUME NEW c \in Calls, NEW request \in Requests, NEW r \in Stores, Ask(c, request, r)
      PROVE  Keys(stored, s)' \subseteq Keys(stored, s)
  <2>1. c \notin stored
    BY <1>4 DEF Ask, Admitted
  <2>2. \A d \in stored : key'[d] = key[d] /\ store'[d] = store[d]
    BY <1>4, <2>1 DEF Ask, TypeOK
  <2>. QED BY <1>0, <1>4, <2>2 DEF Ask, Keys, Within
<1>5. ASSUME NEW c \in Calls, NEW rows \in SUBSET stored, stored' = rows \cup {c},
             UNCHANGED callers, store[c] = s,
             OfClient(rows, c) = {} => Cardinality(Keys(rows, s)) < MaxTrackedKeys
      PROVE  Cardinality(Keys(stored, s)') <= MaxTrackedKeys
  <2>1. Keys(rows, s) \subseteq Keys(stored, s)
    BY DEF Keys, Within
  <2>2. Keys(stored, s)' = Keys(rows, s) \cup {key[c]}
    BY <1>0, <1>5 DEF Keys, Within, callers
  <2>3. CASE OfClient(rows, c) # {}
    <3>1. key[c] \in Keys(rows, s)
      BY <1>5, <2>3 DEF OfClient, Keys
    <3>. QED BY <1>2, <2>1, <2>2, <3>1
  <2>4. CASE Cardinality(Keys(rows, s)) < MaxTrackedKeys
    <3>1. IsFiniteSet(Keys(rows, s)) /\ Cardinality(Keys(rows, s)) \in Nat
      BY <2>1, FewerKeys
    <3>2. \A k : \/ Cardinality(Keys(rows, s) \cup {k}) = Cardinality(Keys(rows, s))
                 \/ Cardinality(Keys(rows, s) \cup {k}) = Cardinality(Keys(rows, s)) + 1
      BY <3>1, FS_AddElement
    <3>3. \/ Cardinality(Keys(stored, s)') = Cardinality(Keys(rows, s))
          \/ Cardinality(Keys(stored, s)') = Cardinality(Keys(rows, s)) + 1
      BY <2>2, <3>2
    <3>. QED BY <2>4, <3>1, <3>3
  <2>. QED BY <1>5, <2>3, <2>4
<1>6. ASSUME NEW c \in Calls, NEW rows \in SUBSET stored, stored' = rows \cup {c},
             UNCHANGED callers, store[c] # s
      PROVE  Keys(stored, s)' \subseteq Keys(stored, s)
  BY <1>0, <1>6 DEF Keys, Within, callers
<1>7. ASSUME NEW c \in Calls, MemoryRefuse(c)
      PROVE  stored' \subseteq stored /\ UNCHANGED callers
  BY <1>7, PrunedDrops DEF MemoryRefuse
<1>8. ASSUME NEW c \in Calls, MemoryAllow(c)
      PROVE  Cardinality(Keys(stored, s)') <= MaxTrackedKeys
  <2>1. PICK rows : /\ rows = Pruned(c) \/ rows = CleanedUp(Pruned(c), store[c])
                    /\ ~Crowded(rows, c) /\ Record(rows, c, now) /\ UNCHANGED callers
    BY <1>8 DEF MemoryAllow
  <2>2. rows \subseteq stored /\ stored' = rows \cup {c}
    BY <2>1, PrunedDrops DEF CleanedUp, Record
  <2>3. Keys(rows, s) \subseteq Keys(stored, s)
    BY <2>2 DEF Keys, Within
  <2>4. Cardinality(Keys(rows, s)) \in Nat
    BY <2>3, FewerKeys
  <2>5. store[c] = s /\ OfClient(rows, c) = {} => Cardinality(Keys(rows, s)) < MaxTrackedKeys
    BY <2>1, <2>4 DEF Crowded
  <2>. QED BY <1>2, <1>5, <1>6, <2>1, <2>2, <2>5
<1>9. ASSUME NEW c \in Calls, NEW k \in Clients, MemoryEvict(c, k)
      PROVE  Cardinality(Keys(stored, s)') <= MaxTrackedKeys
  <2>1. PICK rows, victim :
           /\ rows = CleanedUp(Pruned(c), store[c])
           /\ victim = {d \in Within(rows, store[c]) : key[d] = k}
           /\ k \in Keys(rows, store[c]) /\ Record(rows \ victim, c, now) /\ UNCHANGED callers
    BY <1>9 DEF MemoryEvict, Oldest
  <2>2. rows \subseteq stored /\ stored' = (rows \ victim) \cup {c}
    BY <2>1, PrunedDrops DEF CleanedUp, Record
  <2>3. CASE store[c] = s
    <3>1. Keys(rows \ victim, s) \subseteq Keys(stored, s) \ {k} /\ k \in Keys(stored, s)
      BY <2>1, <2>2, <2>3 DEF Keys, Within
    <3>2. IsFiniteSet(Keys(stored, s))
      BY KeysFinite
    <3>3. /\ IsFiniteSet(Keys(stored, s) \ {k})
          /\ Cardinality(Keys(stored, s) \ {k}) = Cardinality(Keys(stored, s)) - 1
      BY <3>1, <3>2, FS_RemoveElement
    <3>4. Cardinality(Keys(rows \ victim, s)) <= Cardinality(Keys(stored, s) \ {k})
      BY <3>1, <3>3, FS_Subset
    <3>5. Cardinality(Keys(rows \ victim, s)) \in Nat
      BY <3>1, FewerKeys
    <3>6. Cardinality(Keys(rows \ victim, s)) < MaxTrackedKeys
      BY <1>0, <3>3, <3>4, <3>5
    <3>. QED BY <1>5, <2>1, <2>2, <2>3, <3>6
  <2>4. CASE store[c] # s
    BY <1>2, <1>6, <2>1, <2>2, <2>4
  <2>. QED BY <2>3, <2>4
<1>10. ASSUME NEW c \in Calls, SharedAcquire(c)
       PROVE  FALSE
  BY <1>0, <1>10 DEF SharedAcquire
<1>11. ASSUME NEW c \in Calls, NEW t,
              SharedFail(c) \/ SharedCleanup(c, t) \/ SharedRefuse(c, t) \/ SharedAllow(c, t)
       PROVE  FALSE
  BY <1>1, <1>11 DEF SharedFail, SharedCleanup, SharedRefuse, SharedAllow, AtWork
<1>12. ASSUME Tick
       PROVE  stored' \subseteq stored /\ UNCHANGED callers
  BY <1>12 DEF Tick
<1>. QED BY <1>2, <1>3, <1>4, <1>7, <1>8, <1>9, <1>10, <1>11, <1>12 DEF Next, Proceed

(***************************************************************************)
(* 5. The theorems                                                         *)
(***************************************************************************)

\* Every step keeps the invariant.
LEMMA NextInvariant ==
    ASSUME IInv, [Next]_vars
    PROVE  IInv'
<1>1. CASE Next
  BY <1>1, NextType, NextTimes, NextCallers, NextStore, NextLocks, NextKeys DEF IInv
<1>2. CASE UNCHANGED vars
  BY <1>2 DEF vars, callers, IInv, TypeOK, TimesOK, KeysAreOrigins, StoreOK, LocksAreOwned,
              KeysAreBounded, AtWork, Admitted, Expired, Keys, Within
<1>. QED BY <1>1, <1>2

\* The invariant holds initially.
LEMMA InitInvariant == Init => IInv
<1>. SUFFICES ASSUME Init PROVE IInv
  OBVIOUS
<1>. MaxTime \in Nat /\ MaxTrackedKeys \in Nat
  BY LimitsArePositive
<1>1. TypeOK /\ TimesOK /\ KeysAreOrigins
  BY DEF Init, TypeOK, Statements, TimesOK, KeysAreOrigins
<1>2. StoreOK /\ LocksAreOwned
  BY DEF Init, StoreOK, Admitted, LocksAreOwned, AtWork
<1>3. KeysAreBounded
  <2>1. \A s \in Stores : Keys(stored, s) = {}
    BY DEF Init, Keys, Within
  <2>. QED BY <2>1, FS_EmptySet DEF KeysAreBounded
<1>. QED BY <1>1, <1>2, <1>3 DEF IInv

\* The invariant holds throughout: no timestamp within the window is lost, and each is
\* counted under the address its request came from.
THEOREM InvariantHolds == Spec => []IInv
BY InitInvariant, NextInvariant, PTL DEF Spec

\* A locked storage object has one call at work in it.
THEOREM LocksOwned == Spec => []LocksAreOwned
<1>1. IInv => LocksAreOwned
  BY DEF IInv
<1>. QED BY <1>1, InvariantHolds, PTL

\* No storage object in memory tracks more than max_tracked_keys clients.
THEOREM KeysBounded == Spec => []KeysAreBounded
<1>1. IInv => KeysAreBounded
  BY DEF IInv
<1>. QED BY <1>1, InvariantHolds, PTL

\* The timestamps a call counts are those of calls allowed to its sender, and finite.
LEMMA CountsOwn ==
    ASSUME IInv, NEW c \in Calls, pc[c] # "idle", NEW rows \in SUBSET stored
    PROVE  /\ OfClient(rows, c) \subseteq Earlier(c)
           /\ IsFiniteSet(OfClient(rows, c)) /\ IsFiniteSet(Earlier(c))
           /\ Cardinality(OfClient(rows, c)) \in Nat
<1>1. OfClient(rows, c) \subseteq Earlier(c)
  BY DEF IInv, StoreOK, Admitted, OfClient, Within, Earlier, KeysAreOrigins
<1>2. IsFiniteSet(Earlier(c))
  BY FS_Subset, CallsAreNumbered DEF Earlier, Admitted
<1>. QED BY <1>1, <1>2, FS_Subset, FS_CardinalityType

\* A call counts every timestamp of its sender within the window.
LEMMA CountsAll ==
    ASSUME IInv, NEW c \in Calls, pc[c] # "idle", NEW rows \in SUBSET stored,
           ~Full(rows, c), \A d \in stored : d \in rows \/ Expired(d, now)
    PROVE  Cardinality({d \in Earlier(c) \ evicted : ~Expired(d, now)}) < MaxRequests[store[c]]
<1>. DEFINE live == {d \in Earlier(c) \ evicted : ~Expired(d, now)}
<1>1. live \subseteq OfClient(rows, c)
  BY DEF IInv, StoreOK, Earlier, Admitted, OfClient, Within, KeysAreOrigins
<1>2. Cardinality(OfClient(rows, c)) \in Nat /\ IsFiniteSet(OfClient(rows, c))
  BY CountsOwn
<1>3. Cardinality(live) \in Nat /\ Cardinality(live) <= Cardinality(OfClient(rows, c))
  BY <1>1, <1>2, FS_Subset, FS_CardinalityType
<1>4. MaxRequests[store[c]] \in Nat
  BY LimitsArePositive DEF IInv, KeysAreOrigins
<1>5. Cardinality(OfClient(rows, c)) < MaxRequests[store[c]]
  BY <1>2, <1>4 DEF Full
<1>. QED BY <1>2, <1>3, <1>4, <1>5

\* Only the step of a call itself changes what becomes of it.
LEMMA OneCallMoves ==
    ASSUME TypeOK, NEW c \in Calls, NEW answer, pc' = [pc EXCEPT ![c] = answer],
           NEW d \in Calls, pc'[d] # pc[d]
    PROVE  d = c /\ pc'[d] = answer
BY DEF TypeOK

\* Every step that allows a call does so within the limit.
LEMMA StepHoldsLimit ==
    ASSUME IInv, Next, NEW d \in Calls, pc[d] # "allowed", pc'[d] = "allowed"
    PROVE  Cardinality({e \in Earlier(d) \ evicted : ~Expired(e, now)}) < MaxRequests[store[d]]
<1>. TypeOK /\ pc'[d] # pc[d]
  BY DEF IInv
<1>1. ASSUME NEW c \in Calls, MemoryAllow(c) \/ \E k \in Clients : MemoryEvict(c, k)
      PROVE  /\ d = c /\ pc[c] # "idle" /\ ~Full(Pruned(c), c)
             /\ Pruned(c) \subseteq stored
             /\ \A e \in stored : e \in Pruned(c) \/ Expired(e, now)
  BY <1>1, OneCallMoves, PrunedDrops DEF MemoryAllow, MemoryEvict, Record, Answer
<1>2. ASSUME NEW c \in Calls, NEW t \in 0 .. MaxTime, SharedAllow(c, t)
      PROVE  /\ d = c /\ pc[c] # "idle" /\ ~Full(Kept(c, t), c)
             /\ Kept(c, t) \subseteq stored
             /\ \A e \in stored : e \in Kept(c, t) \/ Expired(e, now)
  <2>1. t \in 0 .. now /\ stored \subseteq Calls
    BY <1>2, Times DEF SharedAllow, TypeOK
  <2>2. \A e \in stored : e \in Kept(c, t) \/ Expired(e, t)
    BY DEF Kept
  <2>3. \A e \in stored : e \in Kept(c, t) \/ Expired(e, now)
    BY <2>1, <2>2, ExpiredLater
  <2>. QED BY <1>2, <2>3, OneCallMoves DEF SharedAllow, Record, Answer, Kept
<1>3. ASSUME NEW c \in Calls,
             \/ \E request \in Requests, s \in Stores : Ask(c, request, s)
             \/ MemoryRefuse(c) \/ SharedAcquire(c) \/ SharedFail(c)
             \/ \E t \in 0 .. MaxTime : SharedCleanup(c, t) \/ SharedRefuse(c, t)
      PROVE  FALSE
  <2>1. PICK answer : answer # "allowed" /\ pc' = [pc EXCEPT ![c] = answer]
    BY <1>3 DEF Ask, MemoryRefuse, SharedAcquire, SharedFail, SharedCleanup, SharedRefuse, Answer
  <2>. QED BY <2>1, OneCallMoves
<1>4. ASSUME Tick
      PROVE  FALSE
  BY <1>4 DEF Tick
<1>. QED BY <1>1, <1>2, <1>3, <1>4, CountsAll DEF Next, Proceed

\* Nobody is allowed more than the limit within a window, on however many processes,
\* whatever headers the requests carry, unless evicted.
THEOREM Limit == Spec => LimitHolds
<1>1. IInv /\ [Next]_vars =>
         [\A c \in Calls :
             pc[c] # "allowed" /\ pc'[c] = "allowed" =>
                Cardinality({d \in Earlier(c) \ evicted : ~Expired(d, now)})
                   < MaxRequests[store[c]]]_vars
  BY StepHoldsLimit
<1>. QED BY <1>1, InvariantHolds, PTL DEF Spec, LimitHolds

\* A refusal counted requests of its own sender only.
LEMMA StepRefusesFull ==
    ASSUME IInv, Next, NEW d \in Calls, pc[d] # "refused", pc'[d] = "refused"
    PROVE  Cardinality({e \in Earlier(d) : ~Expired(e, IF storage = "shared" THEN since[d] ELSE now)})
              >= MaxRequests[store[d]]
<1>. TypeOK /\ pc'[d] # pc[d]
  BY DEF IInv
<1>1. ASSUME NEW rows \in SUBSET stored, pc[d] # "idle", Full(rows, d), NEW t,
             \A e \in OfClient(rows, d) : ~Expired(e, t)
      PROVE  Cardinality({e \in Earlier(d) : ~Expired(e, t)}) >= MaxRequests[store[d]]
  <2>. DEFINE live == {e \in Earlier(d) : ~Expired(e, t)}
  <2>1. /\ OfClient(rows, d) \subseteq live /\ live \subseteq Earlier(d)
        /\ IsFiniteSet(Earlier(d)) /\ Cardinality(OfClient(rows, d)) \in Nat
    BY <1>1, CountsOwn
  <2>2. IsFiniteSet(live)
    BY <2>1, FS_Subset
  <2>3. Cardinality(live) \in Nat /\ Cardinality(OfClient(rows, d)) <= Cardinality(live)
    BY <2>1, <2>2, FS_Subset, FS_CardinalityType
  <2>4. MaxRequests[store[d]] \in Nat
    BY <1>1, LimitsArePositive DEF IInv, KeysAreOrigins
  <2>. QED BY <1>1, <2>1, <2>3, <2>4 DEF Full
<1>2. ASSUME NEW c \in Calls, MemoryRefuse(c)
      PROVE  /\ d = c /\ pc[d] # "idle" /\ storage = "memory" /\ Full(Pruned(d), d)
             /\ \A e \in OfClient(Pruned(d), d) : ~Expired(e, now)
  <2>1. d = c
    BY <1>2, OneCallMoves DEF MemoryRefuse, Answer
  <2>. QED BY <1>2, <2>1 DEF MemoryRefuse, Pruned, OfClient, Within
<1>3. ASSUME NEW c \in Calls, NEW t \in 0 .. MaxTime, SharedRefuse(c, t)
      PROVE  /\ d = c /\ pc[d] # "idle" /\ storage = "shared" /\ Full(Kept(d, t), d)
             /\ Kept(d, t) \subseteq stored
             /\ \A e \in OfClient(Kept(d, t), d) : ~Expired(e, since[d])
  <2>1. d = c
    BY <1>3, OneCallMoves DEF SharedRefuse, Answer
  <2>2. storage = "shared"
    BY <1>3 DEF SharedRefuse, IInv, TypeOK, LocksAreOwned, AtWork, KeysAreOrigins
  <2>3. ASSUME NEW e \in OfClient(Kept(d, t), d)
        PROVE  ~Expired(e, since[d])
    <3>1. ~Expired(e, t) /\ e \in Calls
      BY DEF Kept, OfClient, Within, TypeOK
    <3>2. since[d] <= t /\ since[d] \in Nat /\ stamp[e] \in Nat /\ Window \in Nat /\ t \in Nat
      BY <1>3, <2>1, <3>1, Times DEF SharedRefuse
    <3>. QED BY <3>1, <3>2 DEF Expired
  <2>. QED BY <1>3, <2>1, <2>2, <2>3 DEF SharedRefuse, Kept
<1>4. ASSUME NEW c \in Calls,
             \/ \E request \in Requests, s \in Stores : Ask(c, request, s)
             \/ MemoryAllow(c) \/ \E k \in Clients : MemoryEvict(c, k)
             \/ SharedAcquire(c) \/ SharedFail(c)
             \/ \E t \in 0 .. MaxTime : SharedCleanup(c, t) \/ SharedAllow(c, t)
      PROVE  FALSE
  <2>1. PICK answer : answer # "refused" /\ pc' = [pc EXCEPT ![c] = answer]
    BY <1>4 DEF Ask, MemoryAllow, MemoryEvict, SharedAcquire, SharedFail, SharedCleanup,
                SharedAllow, Record, Answer
  <2>. QED BY <2>1, OneCallMoves
<1>5. ASSUME Tick
      PROVE  FALSE
  BY <1>5 DEF Tick
<1>6. ASSUME NEW c \in Calls, MemoryRefuse(c)
      PROVE  Cardinality({e \in Earlier(d) : ~Expired(e, now)}) >= MaxRequests[store[d]]
  BY <1>1, <1>2, <1>6, PrunedDrops
<1>7. ASSUME NEW c \in Calls, NEW t \in 0 .. MaxTime, SharedRefuse(c, t)
      PROVE  Cardinality({e \in Earlier(d) : ~Expired(e, since[d])}) >= MaxRequests[store[d]]
  BY <1>1, <1>3, <1>7
<1>. QED BY <1>2, <1>3, <1>4, <1>5, <1>6, <1>7 DEF Next, Proceed

\* Nobody is refused for what others, or old requests, have used.
THEOREM RefusedWhenFull == Spec => RefusedOnlyWhenFull
<1>1. IInv /\ [Next]_vars =>
         [\A c \in Calls :
             pc[c] # "refused" /\ pc'[c] = "refused" =>
                Cardinality({d \in Earlier(c) :
                               ~Expired(d, IF storage = "shared" THEN since[c] ELSE now)})
                   >= MaxRequests[store[c]]]_vars
  BY StepRefusesFull
<1>. QED BY <1>1, InvariantHolds, PTL DEF Spec, RefusedOnlyWhenFull

\* Whoever is evicted was seen no later than any other key of a full storage.
LEMMA StepEvictsOldest ==
    ASSUME IInv, Next, NEW d \in evicted' \ evicted
    PROVE  Cardinality(SeenSince(d)) >= MaxTrackedKeys
<1>1. ASSUME \A c \in Calls, k \in Clients : ~MemoryEvict(c, k)
      PROVE  evicted' = evicted
  BY <1>1 DEF Next, Proceed, Ask, MemoryRefuse, MemoryAllow, SharedAcquire, SharedFail,
              SharedCleanup, SharedRefuse, SharedAllow, Tick
<1>2. PICK c \in Calls, k \in Clients : MemoryEvict(c, k)
  BY <1>1
<1>. DEFINE s    == store[c]
            rows == CleanedUp(Pruned(c), s)
<1>3. /\ storage = "memory"
      /\ Cardinality(Keys(rows, s)) >= MaxTrackedKeys
      /\ Oldest(rows, s, k)
      /\ d \in Within(rows, s) /\ key[d] = k
  BY <1>2 DEF MemoryEvict, Crowded
<1>4. rows \subseteq Admitted /\ \A e \in Within(rows, s) : store[e] = s /\ ~Expired(e, now)
  BY <1>3, PrunedDrops DEF CleanedUp, Within, IInv, StoreOK
<1>5. Keys(rows, s) \subseteq SeenSince(d)
  <2>. SUFFICES ASSUME NEW other \in Keys(rows, s)
                PROVE  other \in SeenSince(d)
    OBVIOUS
  <2>1. PICK e \in Within(rows, s) : key[e] = other /\ stamp[d] <= stamp[e]
    BY <1>3 DEF Oldest
  <2>2. e \in Admitted /\ d \in Admitted
    BY <1>3, <1>4 DEF Within
  <2>3. stamp[e] \in Nat /\ stamp[d] \in Nat
    BY <2>2 DEF IInv, TypeOK, Admitted
  <2>. QED BY <1>3, <1>4, <2>1, <2>2, <2>3 DEF SeenSince
<1>6. SeenSince(d) \subseteq Clients
  BY DEF SeenSince, IInv, KeysAreOrigins, Admitted
<1>7. IsFiniteSet(SeenSince(d))
  BY <1>6, FS_Subset, ClientsAreNoProxies
<1>8. /\ Cardinality(Keys(rows, s)) \in Nat /\ Cardinality(SeenSince(d)) \in Nat
      /\ Cardinality(Keys(rows, s)) <= Cardinality(SeenSince(d))
  BY <1>5, <1>7, FS_Subset, FS_CardinalityType
<1>. QED BY <1>3, <1>8, LimitsArePositive

\* Memory pressure forgets only the key least recently seen, and only when it must.
THEOREM EvictsOldest == Spec => EvictedUnderPressure
<1>1. IInv /\ [Next]_vars =>
         [\A d \in evicted' \ evicted : Cardinality(SeenSince(d)) >= MaxTrackedKeys]_vars
  BY StepEvictsOldest
<1>. QED BY <1>1, InvariantHolds, PTL DEF Spec, EvictedUnderPressure
=============================================================================
