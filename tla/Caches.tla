-------------------------------- MODULE Caches --------------------------------
(***************************************************************************)
(* DataCache (gui_do/data/data_cache.py) and ObjectPool                    *)
(* (gui_do/data/object_pool.py), each used by several threads.             *)
(*                                                                         *)
(* A call holds the lock for its changes and lets it go to load a value,   *)
(* to emit a signal and to reset or make an object.  What is loaded is a   *)
(* version of the data at its source, which the program counts up before   *)
(* it invalidates the key; entries expire when the time of one is up.      *)
(***************************************************************************)
EXTENDS Integers, SequencesExt, FiniteSets, SequenceFilter

CONSTANTS
    CacheThreads, \* threads that use the cache and the pool
    CacheKeys,    \* keys
    CacheSize,    \* max_size of the cache
    MaxVersion,   \* bound: changes of the data at the source
    MaxExpired,   \* bound: entries that expire
    MaxCached,    \* bound: calls of get_or_load()
    PoolSize,     \* max_size of the pool
    MaxObjects,   \* bound: objects after which preallocate() is not called
    MaxAcquired   \* bound: calls of acquire()

ASSUME CachesAssumption ==
    /\ IsFiniteSet(CacheThreads)
    /\ {CacheSize, PoolSize} \subseteq Nat \ {0}
    /\ {MaxVersion, MaxExpired, MaxCached, MaxObjects, MaxAcquired} \subseteq Nat

VARIABLES
    store,      \* _store: entries, the least recently used first
    version,    \* the version of each key's data at its source
    cacheCall,  \* what each thread is at
    counts,     \* _hits, _misses, _evictions, _invalidations
    expiries,   \* history: entries that expired and were removed
    inserted,   \* history: entries added
    announced,  \* history: signals emitted
    lookups,    \* history: gets so far
    staleRace   \* history: keys that were invalidated while they were loaded

VARIABLES
    pool,       \* _pool: objects, by the order they were made in
    poolCall,   \* what each thread is at
    held,       \* history: the objects each thread has acquired
    made,       \* history: objects made so far
    dropped,    \* history: the objects discarded or cleared
    poolCounts, \* _hits, _misses, _discards
    acquired    \* calls of acquire() so far

cacheVars == <<store, version, cacheCall, counts, expiries, inserted, announced, lookups, staleRace>>
poolVars  == <<pool, poolCall, held, made, dropped, poolCounts, acquired>>

Idle == [at |-> "idle"]
KeysOf(s) == {s[i].key : i \in DOMAIN s}
EntryOf(k) == CHOOSE i \in DOMAIN store : store[i].key = k

(* What is stored for the keys, and what is left when it is removed.       *)
EntriesOf(keys) == {store[i] : i \in {j \in DOMAIN store : store[j].key \in keys}}
StoreWithout(keys) == Excluding(store, EntriesOf(keys))

-----------------------------------------------------------------------------
(* The data cache.                                                         *)

(* get() of get_or_load(): an entry that expired is removed, one that has  *)
(* not becomes the most recently used.                                     *)
GetOrLoad(t, k) ==
    LET found == k \in KeysOf(store)
        e     == store[EntryOf(k)]
        hit   == found /\ ~e.expired
    IN
    /\ cacheCall[t] = Idle
    /\ lookups < MaxCached
    /\ lookups' = lookups + 1
    /\ store' = IF hit THEN Append(StoreWithout({k}), e) ELSE StoreWithout({k})
    /\ counts' = IF hit THEN [counts EXCEPT !.hits = @ + 1] ELSE [counts EXCEPT !.misses = @ + 1]
    /\ expiries' = IF found /\ ~hit THEN expiries + 1 ELSE expiries
    /\ cacheCall' = IF hit THEN cacheCall ELSE [cacheCall EXCEPT ![t] = [at |-> "load", key |-> k]]
    /\ UNCHANGED <<version, inserted, announced, staleRace>>

(* The loader reads the source.                                            *)
Load(t) ==
    /\ cacheCall[t].at = "load"
    /\ cacheCall' = [cacheCall EXCEPT ![t] = [at |-> "put", key |-> @.key, version |-> version[@.key]]]
    /\ UNCHANGED <<store, version, counts, expiries, inserted, announced, lookups, staleRace>>

(* put(): the least recently used entry gives way.                         *)
Put(t) ==
    LET k   == cacheCall[t].key
        new == [key |-> k, version |-> cacheCall[t].version, expired |-> FALSE]
        now == Append(StoreWithout({k}), new)
        over == Len(now) > CacheSize
    IN
    /\ cacheCall[t].at = "put"
    /\ store' = IF over THEN Tail(now) ELSE now
    /\ inserted' = IF k \in KeysOf(store) THEN inserted ELSE inserted + 1
    /\ counts' = IF over THEN [counts EXCEPT !.evictions = @ + 1] ELSE counts
    /\ cacheCall' = [cacheCall EXCEPT ![t] = IF over THEN [at |-> "emit", left |-> 1] ELSE Idle]
    /\ UNCHANGED <<version, expiries, announced, lookups, staleRace>>

(* The program changes the data at its source, then invalidates the keys.  *)
ChangeSource(t, keys) ==
    /\ cacheCall[t] = Idle
    /\ \A k \in keys : version[k] < MaxVersion
    /\ version' = [k \in CacheKeys |-> IF k \in keys THEN version[k] + 1 ELSE version[k]]
    /\ cacheCall' = [cacheCall EXCEPT ![t] = [at |-> "changed", keys |-> keys]]
    /\ UNCHANGED <<store, counts, expiries, inserted, announced, lookups, staleRace>>

(* invalidate(), and invalidate_all() when all keys have changed; expired  *)
(* entries are invalidated like others.                                    *)
Invalidate(t) ==
    LET keys == cacheCall[t].keys
        gone == keys \cap KeysOf(store)
    IN
    /\ cacheCall[t].at = "changed"
    /\ store' = StoreWithout(keys)
    /\ counts' = [counts EXCEPT !.invalidations = @ + Cardinality(gone)]
    /\ staleRace' = staleRace \cup
          {k \in keys : \E u \in CacheThreads :
              cacheCall[u].at = "put" /\ cacheCall[u].key = k /\ cacheCall[u].version < version[k]}
    /\ cacheCall' = [cacheCall EXCEPT ![t] = IF gone = {} THEN Idle
                                             ELSE [at |-> "emit", left |-> Cardinality(gone)]]
    /\ UNCHANGED <<version, expiries, inserted, announced, lookups>>

(* The signals are emitted when the lock is let go.                        *)
EmitSignal(t) ==
    /\ cacheCall[t].at = "emit"
    /\ announced' = announced + 1
    /\ cacheCall' = [cacheCall EXCEPT ![t] = IF @.left > 1 THEN [at |-> "emit", left |-> @.left - 1] ELSE Idle]
    /\ UNCHANGED <<store, version, counts, expiries, inserted, lookups, staleRace>>

(* contains() removes an entry that expired; nobody is told.               *)
CheckContains(t, k) ==
    /\ cacheCall[t] = Idle
    /\ k \in KeysOf(store) /\ store[EntryOf(k)].expired
    /\ store' = StoreWithout({k})
    /\ expiries' = expiries + 1
    /\ UNCHANGED <<version, cacheCall, counts, inserted, announced, lookups, staleRace>>

Expire(k) ==
    /\ k \in KeysOf(store) /\ ~store[EntryOf(k)].expired
    /\ Cardinality({i \in DOMAIN store : store[i].expired}) + expiries < MaxExpired
    /\ store' = [store EXCEPT ![EntryOf(k)].expired = TRUE]
    /\ UNCHANGED <<version, cacheCall, counts, expiries, inserted, announced, lookups, staleRace>>

CacheInit ==
    /\ store = <<>> /\ version = [k \in CacheKeys |-> 0]
    /\ cacheCall = [t \in CacheThreads |-> Idle]
    /\ counts = [hits |-> 0, misses |-> 0, evictions |-> 0, invalidations |-> 0]
    /\ expiries = 0 /\ inserted = 0 /\ announced = 0 /\ lookups = 0 /\ staleRace = {}

CacheNext ==
    \/ \E t \in CacheThreads, k \in CacheKeys : GetOrLoad(t, k) \/ CheckContains(t, k) \/ ChangeSource(t, {k})
    \/ \E t \in CacheThreads :
          Load(t) \/ Put(t) \/ ChangeSource(t, CacheKeys) \/ Invalidate(t) \/ EmitSignal(t)
    \/ \E k \in CacheKeys : Expire(k)

CacheSpec == CacheInit /\ [][CacheNext]_cacheVars

CacheTypeOK ==
    /\ store \in Seq([key : CacheKeys, version : 0 .. MaxVersion, expired : BOOLEAN])
    /\ version \in [CacheKeys -> 0 .. MaxVersion]
    /\ \A t \in CacheThreads : cacheCall[t].at \in {"idle", "load", "put", "changed", "emit"}
    /\ counts \in [{"hits", "misses", "evictions", "invalidations"} -> Nat]
    /\ {expiries, inserted, announced} \subseteq Nat /\ lookups \in 0 .. MaxCached
    /\ staleRace \subseteq CacheKeys

(* The signals that calls are still to emit.                               *)
SignalsOf(t) == IF cacheCall[t].at = "emit" THEN {t} \X (1 .. cacheCall[t].left) ELSE {}
SignalsOwed  == UNION {SignalsOf(t) : t \in CacheThreads}

(* A key has one entry at most and the cache no more than its size; the    *)
(* version of an entry is that of the source when nobody is about to       *)
(* invalidate it, unless an invalidation came between a load and its put;  *)
(* every entry that was added is there, or counted as evicted or           *)
(* invalidated and announced when the call returns, or it had expired; and *)
(* every lookup is a hit or a miss.                                        *)
CacheSafe ==
    /\ Len(store) <= CacheSize /\ Cardinality(KeysOf(store)) = Len(store)
    /\ \A i \in DOMAIN store :
          LET k == store[i].key IN
          store[i].version = version[k] \/ k \in staleRace
          \/ \E t \in CacheThreads : cacheCall[t].at = "changed" /\ k \in cacheCall[t].keys
    /\ inserted = Len(store) + counts.evictions + counts.invalidations + expiries
    /\ announced + Cardinality(SignalsOwed) = counts.evictions + counts.invalidations
    /\ counts.hits + counts.misses = lookups

-----------------------------------------------------------------------------
(* The object pool.  The program releases what it has acquired, once.      *)

(* acquire() takes the object released last; of an empty pool, the miss is *)
(* counted after the lock is let go.                                       *)
Acquire(t) ==
    /\ poolCall[t] = Idle
    /\ acquired < MaxAcquired
    /\ acquired' = acquired + 1
    /\ IF pool # <<>>
       THEN /\ pool' = Front(pool)
            /\ held' = [held EXCEPT ![t] = @ \cup {Last(pool)}]
            /\ poolCounts' = [poolCounts EXCEPT !.hits = @ + 1]
            /\ UNCHANGED poolCall
       ELSE /\ poolCall' = [poolCall EXCEPT ![t] = [at |-> "miss"]]
            /\ UNCHANGED <<pool, held, poolCounts>>
    /\ UNCHANGED <<made, dropped>>

(* The count is read and written in steps that those of other threads may  *)
(* come between.                                                           *)
ReadMisses(t) ==
    /\ poolCall[t].at = "miss"
    /\ poolCall' = [poolCall EXCEPT ![t] = [at |-> "make", misses |-> poolCounts.misses]]
    /\ UNCHANGED <<pool, held, made, dropped, poolCounts, acquired>>

MakeObject(t) ==
    /\ poolCall[t].at = "make"
    /\ poolCounts' = [poolCounts EXCEPT !.misses = poolCall[t].misses + 1]
    /\ made' = made + 1
    /\ held' = [held EXCEPT ![t] = @ \cup {made + 1}]
    /\ poolCall' = [poolCall EXCEPT ![t] = Idle]
    /\ UNCHANGED <<pool, dropped, acquired>>

(* An object comes back with the lock: there is room, or it is discarded.  *)
TakeBack(o) ==
    IF Len(pool) < PoolSize
    THEN pool' = Append(pool, o) /\ UNCHANGED <<dropped, poolCounts>>
    ELSE /\ dropped' = dropped \cup {o}
         /\ poolCounts' = [poolCounts EXCEPT !.discards = @ + 1]
         /\ UNCHANGED pool

(* release() resets the object before it takes the lock.                   *)
BeginRelease(t, o) ==
    /\ poolCall[t] = Idle
    /\ o \in held[t]
    /\ held' = [held EXCEPT ![t] = @ \ {o}]
    /\ poolCall' = [poolCall EXCEPT ![t] = [at |-> "release", object |-> o]]
    /\ UNCHANGED <<pool, made, dropped, poolCounts, acquired>>

EndRelease(t) ==
    /\ poolCall[t].at = "release"
    /\ TakeBack(poolCall[t].object)
    /\ poolCall' = [poolCall EXCEPT ![t] = Idle]
    /\ UNCHANGED <<held, made, acquired>>

(* preallocate() finds how many are needed, lets the lock go, and makes    *)
(* and releases them one by one.                                           *)
Preallocate(t) ==
    /\ poolCall[t] = Idle
    /\ made < MaxObjects /\ Len(pool) < PoolSize
    /\ poolCall' = [poolCall EXCEPT ![t] = [at |-> "fill", left |-> PoolSize - Len(pool)]]
    /\ UNCHANGED <<pool, held, made, dropped, poolCounts, acquired>>

FillPool(t) ==
    /\ poolCall[t].at = "fill"
    /\ made' = made + 1
    /\ TakeBack(made + 1)
    /\ poolCall' = [poolCall EXCEPT ![t] = IF @.left > 1 THEN [at |-> "fill", left |-> @.left - 1] ELSE Idle]
    /\ UNCHANGED <<held, acquired>>

ClearPool ==
    /\ pool # <<>>
    /\ dropped' = dropped \cup ToSet(pool)
    /\ pool' = <<>>
    /\ UNCHANGED <<poolCall, held, made, poolCounts, acquired>>

PoolInit ==
    /\ pool = <<>> /\ made = 0 /\ dropped = {} /\ acquired = 0
    /\ poolCall = [t \in CacheThreads |-> Idle] /\ held = [t \in CacheThreads |-> {}]
    /\ poolCounts = [hits |-> 0, misses |-> 0, discards |-> 0]

PoolNext ==
    \/ \E t \in CacheThreads :
          \/ Acquire(t) \/ ReadMisses(t) \/ MakeObject(t) \/ EndRelease(t) \/ Preallocate(t) \/ FillPool(t)
          \/ \E o \in held[t] : BeginRelease(t, o)
    \/ ClearPool

PoolSpec == PoolInit /\ [][PoolNext]_poolVars

PoolTypeOK ==
    /\ pool \in Seq(1 .. made)
    /\ \A t \in CacheThreads : poolCall[t].at \in {"idle", "miss", "make", "release", "fill"}
    /\ held \in [CacheThreads -> SUBSET (1 .. made)]
    /\ dropped \subseteq 1 .. made
    /\ poolCounts \in [{"hits", "misses", "discards"} -> Nat]
    /\ acquired \in 0 .. MaxAcquired

(* Threads that found the pool empty, those that bring an object back, and *)
(* where an object is.                                                     *)
AboutToMiss   == {t \in CacheThreads : poolCall[t].at \in {"miss", "make"}}
Releasing == {t \in CacheThreads : poolCall[t].at = "release"}
PlacesOf(o) ==
    {<<"pool", i>> : i \in {j \in DOMAIN pool : pool[j] = o}}
    \cup {<<"held", t>> : t \in {u \in CacheThreads : o \in held[u]}}
    \cup {<<"released", t>> : t \in {u \in Releasing : poolCall[u].object = o}}
    \cup {<<"dropped", d>> : d \in dropped \cap {o}}

(* The pool keeps to its size, also when it is filled by several threads   *)
(* at once; every object that was made is in one place: in the pool, with  *)
(* one thread, or dropped; and the counts are those of what happened,      *)
(* except that threads that miss together may count as one.                *)
PoolSafe ==
    /\ Len(pool) <= PoolSize
    /\ \A o \in 1 .. made : \E p \in PlacesOf(o) : PlacesOf(o) = {p}
    /\ poolCounts.hits + poolCounts.misses + Cardinality(AboutToMiss) <= acquired
    /\ poolCounts.discards <= Cardinality(dropped)
=============================================================================
