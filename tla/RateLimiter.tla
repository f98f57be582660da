------------------------------ MODULE RateLimiter ------------------------------
(***************************************************************************)
(* The decorator rate_limit of app/core/rate_limit.py on several routes    *)
(* and server processes, over either storage: MemoryRateLimitStorage, one  *)
(* per route and process, or SharedFileRateLimitStorage, whose objects     *)
(* all write to one SQLite file.                                           *)
(*                                                                         *)
(* A timestamp in a storage is the call it was recorded for; the file      *)
(* tells them apart by client only.                                        *)
(***************************************************************************)
EXTENDS Naturals, Sequences, FiniteSets

CONSTANTS
    Calls,         \* requests to limited routes, numbered as they arrive
    Clients,       \* addresses requests come from
    Proxies,       \* TRUSTED_PROXIES
    Requests,      \* what a request shows of its way: see Arrives
    Stores,        \* the storage objects: a route on a process
    MaxRequests,   \* of the route of a store
    Window, CleanupInterval, MaxTrackedKeys,
    None,
    MaxTime        \* bound on the clock

\* Each proxy appends the address it was called from to X-Forwarded-For, or sets
\* X-Real-IP.  What the client itself has put into a header comes first.
Arrives(request) ==
    \/ request.direct = request.origin
    \/ /\ request.direct \in Proxies
       /\ \E i \in DOMAIN request.hops :
             /\ request.hops[i] = request.origin
             /\ \A j \in DOMAIN request.hops : j > i => request.hops[j] \in Proxies
    \/ /\ request.direct \in Proxies
       /\ request.hops = <<>>
       /\ request.real = request.origin

ASSUME CallsAreNumbered == Calls \subseteq Nat /\ IsFiniteSet(Calls)
ASSUME RequestsArrive ==
    \A request \in Requests :
       request.origin \in Clients /\ request.hops \in Seq(STRING) /\ Arrives(request)
ASSUME ClientsAreNoProxies ==
    IsFiniteSet(Clients) /\ Clients \cap Proxies = {} /\ None \notin Clients
ASSUME LimitsArePositive ==
    /\ MaxRequests \in [Stores -> Nat \ {0}] /\ MaxTrackedKeys \in Nat \ {0}
    /\ Window \in Nat \ {0} /\ CleanupInterval \in Nat
    /\ MaxTime \in Nat

VARIABLES
    storage,       \* RATE_LIMIT_STORAGE_TYPE
    now,           \* the clock of the host
    pc,            \* how far a call of is_allowed is
    origin, key,   \* where a call comes from, and its client_ip
    store,         \* the storage object a call uses
    since,         \* when a call entered its present transaction
    stamp,         \* the timestamp recorded for a call
    stored,        \* calls whose timestamp is in a storage
    evicted,       \* calls whose key was evicted for another
    locked,        \* storage objects whose asyncio.Lock is held
    swept          \* _last_cleanup

callers == <<origin, key, store>>
vars == <<storage, now, pc, callers, since, stamp, stored, evicted, locked, swept>>

Statements == {"idle", "waiting", "cleaning", "counting", "allowed", "refused", "failed"}

TypeOK ==
    /\ storage \in {"memory", "shared"}
    /\ now \in 0 .. MaxTime
    /\ pc \in [Calls -> Statements]
    /\ origin \in [Calls -> Clients \cup {None}]
    /\ key \in [Calls -> Clients \cup {None}]
    /\ store \in [Calls -> Stores \cup {None}]
    /\ since \in [Calls -> 0 .. MaxTime]
    /\ stamp \in [Calls -> 0 .. MaxTime]
    /\ stored \subseteq Calls /\ evicted \subseteq Calls
    /\ locked \subseteq Stores
    /\ swept \in [Stores -> 0 .. MaxTime]

Init ==
    /\ storage \in {"memory", "shared"}
    /\ now = 0
    /\ pc = [c \in Calls |-> "idle"]
    /\ origin = [c \in Calls |-> None] /\ key = [c \in Calls |-> None]
    /\ store = [c \in Calls |-> None]
    /\ since = [c \in Calls |-> 0] /\ stamp = [c \in Calls |-> 0]
    /\ stored = {} /\ evicted = {}
    /\ locked = {}
    /\ swept = [s \in Stores |-> 0]

-----------------------------------------------------------------------------
(* The client's address *)

Untrusted(hops) == {i \in DOMAIN hops : hops[i] \notin Proxies}

\* Fault: the first hop is believed.
LeftmostHop(request) ==
    IF request.direct \notin Proxies \/ request.hops = <<>> THEN request.direct
    ELSE request.hops[1]

\* Fault: the headers of a trusted proxy are not read.
SocketHost(request) == request.direct

Rightmost(hops) ==
    hops[CHOOSE i \in Untrusted(hops) : \A j \in Untrusted(hops) : j <= i]

\* From the right, the first hop that is no trusted proxy.
ResolveClientIp(request) ==
    LET hops == request.hops
    IN  CASE request.direct \notin Proxies -> request.direct
          [] request.direct \in Proxies /\ Untrusted(hops) # {} -> Rightmost(hops)
          [] request.direct \in Proxies /\ Untrusted(hops) = {} /\ hops # <<>> -> hops[1]
          [] request.direct \in Proxies /\ hops = <<>> /\ request.real # None -> request.real
          [] OTHER -> request.direct

-----------------------------------------------------------------------------
(* What both storages share *)

Expired(c, t) == stamp[c] + Window <= t

\* The timestamps a storage object works on.
Within(rows, s) == {d \in rows : storage = "shared" \/ store[d] = s}

\* The timestamps of the client of c there.
OfClient(rows, c) == {d \in Within(rows, store[c]) : key[d] = key[c]}

\* Fault: one request too many.
NearlyFull(rows, c) == Cardinality(OfClient(rows, c)) > MaxRequests[store[c]]

Full(rows, c) == Cardinality(OfClient(rows, c)) >= MaxRequests[store[c]]

Answer(c, answer) == pc' = [pc EXCEPT ![c] = answer]

Record(rows, c, t) ==
    /\ stored' = rows \cup {c}
    /\ stamp' = [stamp EXCEPT ![c] = t]
    /\ Answer(c, "allowed")

\* A request reaches a limited route.
Ask(c, request, s) ==
    /\ pc[c] = "idle"
    /\ \A d \in Calls : d < c => pc[d] # "idle"
    /\ pc' = [pc EXCEPT ![c] = "waiting"]
    /\ origin' = [origin EXCEPT ![c] = request.origin]
    /\ key' = [key EXCEPT ![c] = ResolveClientIp(request)]
    /\ store' = [store EXCEPT ![c] = s]
    /\ UNCHANGED <<storage, now, since, stamp, stored, evicted, locked, swept>>

-----------------------------------------------------------------------------
(* MemoryRateLimitStorage.is_allowed awaits nothing, so it is one action. *)

Keys(rows, s) == {key[d] : d \in Within(rows, s)}

Due(s) == swept[s] + CleanupInterval <= now

\* _cleanup_locked
CleanedUp(rows, s) == rows \ {d \in Within(rows, s) : Expired(d, now)}

\* The inline cleanup if it is due, and the client's own expired timestamps.
Pruned(c) ==
    LET rows == IF Due(store[c]) THEN CleanedUp(stored, store[c]) ELSE stored
    IN  rows \ {d \in OfClient(rows, c) : Expired(d, now)}

MemorySweep(c) == swept' = IF Due(store[c]) THEN [swept EXCEPT ![store[c]] = now] ELSE swept

\* Fault: room for one key more.
NearlyCrowded(rows, c) ==
    OfClient(rows, c) = {} /\ Cardinality(Keys(rows, store[c])) > MaxTrackedKeys

\* A new key, and no room for it.
Crowded(rows, c) ==
    OfClient(rows, c) = {} /\ Cardinality(Keys(rows, store[c])) >= MaxTrackedKeys

\* Fault: any key goes.
AnyKey(rows, s, k) == k \in Keys(rows, s)

\* A key whose latest timestamp is the least.
Oldest(rows, s, k) ==
    /\ k \in Keys(rows, s)
    /\ \A other \in Keys(rows, s) : \E e \in Within(rows, s) :
          /\ key[e] = other
          /\ \A d \in Within(rows, s) : key[d] = k => stamp[d] <= stamp[e]

MemoryRefuse(c) ==
    /\ storage = "memory" /\ pc[c] = "waiting"
    /\ Full(Pruned(c), c)
    /\ stored' = Pruned(c)
    /\ MemorySweep(c)
    /\ Answer(c, "refused")
    /\ UNCHANGED <<storage, now, callers, since, stamp, evicted, locked>>

MemoryAllow(c) ==
    LET rows == IF Crowded(Pruned(c), c) THEN CleanedUp(Pruned(c), store[c]) ELSE Pruned(c)
    IN  /\ storage = "memory" /\ pc[c] = "waiting"
        /\ ~Full(Pruned(c), c)
        /\ ~Crowded(rows, c)
        /\ Record(rows, c, now)
        /\ MemorySweep(c)
        /\ UNCHANGED <<storage, now, callers, since, evicted, locked>>

MemoryEvict(c, k) ==
    LET rows   == CleanedUp(Pruned(c), store[c])
        victim == {d \in Within(rows, store[c]) : key[d] = k}
    IN  /\ storage = "memory" /\ pc[c] = "waiting"
        /\ ~Full(Pruned(c), c)
        /\ Crowded(rows, c)
        /\ Oldest(rows, store[c], k)
        /\ Record(rows \ victim, c, now)
        /\ evicted' = evicted \cup victim
        /\ MemorySweep(c)
        /\ UNCHANGED <<storage, now, callers, since, locked>>

-----------------------------------------------------------------------------
(* SharedFileRateLimitStorage.is_allowed.  Each transaction begins IMMEDIATE, so *)
(* that it is one action; the time it works with was noted before it waited.     *)

SharedAcquire(c) ==
    /\ storage = "shared" /\ pc[c] = "waiting"
    /\ store[c] \notin locked
    /\ locked' = locked \cup {store[c]}
    /\ since' = [since EXCEPT ![c] = now]
    /\ Answer(c, IF Due(store[c]) THEN "cleaning" ELSE "counting")
    /\ UNCHANGED <<storage, now, callers, stamp, stored, evicted, swept>>

\* _sync_cleanup
SharedCleanup(c, t) ==
    /\ pc[c] = "cleaning"
    /\ t \in since[c] .. now
    /\ stored' = {d \in stored : ~Expired(d, t)}
    /\ swept' = [swept EXCEPT ![store[c]] = since[c]]
    /\ since' = [since EXCEPT ![c] = now]
    /\ Answer(c, "counting")
    /\ UNCHANGED <<storage, now, callers, stamp, evicted, locked>>

\* The lock is released, and the time noted forgotten.
Leave(c) ==
    /\ locked' = locked \ {store[c]}
    /\ since' = [since EXCEPT ![c] = 0]

\* What the DELETE of _sync_is_allowed leaves.
Kept(c, t) == stored \ {d \in OfClient(stored, c) : Expired(d, t)}

SharedRefuse(c, t) ==
    /\ pc[c] = "counting"
    /\ t \in since[c] .. now
    /\ Full(Kept(c, t), c)
    /\ stored' = Kept(c, t)
    /\ Answer(c, "refused")
    /\ Leave(c)
    /\ UNCHANGED <<storage, now, callers, stamp, evicted, swept>>

SharedAllow(c, t) ==
    /\ pc[c] = "counting"
    /\ t \in since[c] .. now
    /\ ~Full(Kept(c, t), c)
    /\ Record(Kept(c, t), c, t)
    /\ Leave(c)
    /\ UNCHANGED <<storage, now, callers, evicted, swept>>

\* Fault: the exception leaves the lock behind.
SharedFailLocked(c) ==
    /\ pc[c] \in {"cleaning", "counting"}
    /\ Answer(c, "failed")
    /\ UNCHANGED <<storage, now, callers, since, stamp, stored, evicted, locked, swept>>

\* The file stays busy, or the disk fails: rolled back, and raised.
SharedFail(c) ==
    /\ pc[c] \in {"cleaning", "counting"}
    /\ Answer(c, "failed")
    /\ Leave(c)
    /\ UNCHANGED <<storage, now, callers, stamp, stored, evicted, swept>>

-----------------------------------------------------------------------------
Tick ==
    /\ now < MaxTime
    /\ now' = now + 1
    /\ UNCHANGED <<storage, pc, callers, since, stamp, stored, evicted, locked, swept>>

Proceed(c) ==
    \/ MemoryRefuse(c) \/ MemoryAllow(c) \/ \E k \in Clients : MemoryEvict(c, k)
    \/ SharedAcquire(c) \/ SharedFail(c)
    \/ \E t \in 0 .. MaxTime : SharedCleanup(c, t) \/ SharedRefuse(c, t) \/ SharedAllow(c, t)

Next ==
    \/ \E c \in Calls :
          \/ \E request \in Requests, s \in Stores : Ask(c, request, s)
          \/ Proceed(c)
    \/ Tick

Spec == Init /\ [][Next]_vars

-----------------------------------------------------------------------------
Admitted == {d \in Calls : pc[d] = "allowed"}

\* Admitted calls of the origin of c that its storage counts together.
Earlier(c) ==
    {d \in Admitted : origin[d] = origin[c] /\ (storage = "shared" \/ store[d] = store[c])}

\* However requests on several processes interleave and whatever their headers say,
\* none is allowed when its sender has been allowed max_requests within the window
\* that ends now, but for a sender whose key was evicted.
LimitHolds ==
    [][\A c \in Calls :
          pc[c] # "allowed" /\ pc'[c] = "allowed" =>
             Cardinality({d \in Earlier(c) \ evicted : ~Expired(d, now)})
                < MaxRequests[store[c]]]_vars

\* A request is refused for requests of its own sender only, and only for so many
\* within a window that ends after it came.
RefusedOnlyWhenFull ==
    [][\A c \in Calls :
          pc[c] # "refused" /\ pc'[c] = "refused" =>
             Cardinality({d \in Earlier(c) : ~Expired(d, IF storage = "shared" THEN since[c] ELSE now)})
                >= MaxRequests[store[c]]]_vars

\* Memory stays bounded: no storage object tracks more than max_tracked_keys.
KeysAreBounded ==
    storage = "memory" =>
       \A s \in Stores : Cardinality(Keys(stored, s)) <= MaxTrackedKeys

\* The clients seen in the window that ends now, and no less recently than d came.
SeenSince(d) ==
    {key[e] : e \in {f \in Admitted :
                       store[f] = store[d] /\ ~Expired(f, now) /\ stamp[f] >= stamp[d]}}

\* A client is forgotten early only when max_tracked_keys clients, itself included, have
\* been seen in the window, and none of the others less recently.
EvictedUnderPressure ==
    [][\A d \in evicted' \ evicted : Cardinality(SeenSince(d)) >= MaxTrackedKeys]_vars

\* Whatever a transaction ends with, its lock goes with it: a storage object is locked
\* exactly while one call, and no other, is at work in it, and never in memory mode.
AtWork(c) == pc[c] \in {"cleaning", "counting"}

LocksAreOwned ==
    /\ \A s \in Stores : s \in locked <=> \E c \in Calls : AtWork(c) /\ store[c] = s
    /\ \A c, d \in Calls : AtWork(c) /\ AtWork(d) /\ store[c] = store[d] => c = d
    /\ storage = "memory" => locked = {}

-----------------------------------------------------------------------------
(* The inductive invariant *)

\* Times noted are past.
TimesOK == \A c \in Calls : since[c] <= now /\ stamp[c] <= now

\* The address a call is counted under is where it comes from.
KeysAreOrigins ==
    \A c \in Calls : pc[c] # "idle" =>
       key[c] = origin[c] /\ key[c] \in Clients /\ store[c] \in Stores

\* Only the memory of calls allowed is kept, and none of them is lost in the window.
StoreOK ==
    /\ stored \subseteq Admitted
    /\ \A d \in Admitted \ evicted : ~Expired(d, now) => d \in stored

IInv ==
    /\ TypeOK /\ TimesOK
    /\ KeysAreOrigins /\ StoreOK
    /\ LocksAreOwned /\ KeysAreBounded
=============================================================================
