------------------------------ MODULE DataProofs ------------------------------
(***************************************************************************)
(* Proofs about Caches, AsyncForms and DataProvider: what is used by       *)
(* several threads at once, or answered late.  Each component has its      *)
(* inductive invariant, and a lemma that its steps keep it; FeaturesProofs *)
(* puts them together.                                                     *)
(***************************************************************************)
EXTENDS Caches, AsyncForms, DataProvider, SequenceLemmas

-----------------------------------------------------------------------------
(* What is assumed of the sizes.                                           *)
LEMMA CacheSetting ==
    /\ IsFiniteSet(CacheThreads) /\ PoolSize \in Nat \ {0} /\ CacheSize \in Nat \ {0}
  BY CachesAssumption DEF CachesAssumption

-----------------------------------------------------------------------------
(* The data cache.                                                         *)

Entry == [key : CacheKeys, version : Nat, expired : BOOLEAN]

(* Entries have different keys.                                            *)
Keyed(s) == IsInjective(s) /\ \A x, y \in ToSet(s) : x.key = y.key => x = y

(* The version is the newest one, or the cache will be told it is not, or  *)
(* it was told too early.                                                  *)
Fresh(k, v) ==
    \/ v = version[k] \/ k \in staleRace
    \/ \E t \in CacheThreads : cacheCall[t].at = "changed" /\ k \in cacheCall[t].keys

CacheCalls ==
    {Idle} \cup [at : {"load"}, key : CacheKeys] \cup [at : {"put"}, key : CacheKeys, version : Nat]
           \cup [at : {"changed"}, keys : SUBSET CacheKeys] \cup [at : {"emit"}, left : Nat \ {0}]
CacheCounts == [hits : Nat, misses : Nat, evictions : Nat, invalidations : Nat]

CacheTypes ==
    /\ store \in Seq(Entry) /\ version \in [CacheKeys -> Nat]
    /\ cacheCall \in [CacheThreads -> CacheCalls] /\ counts \in CacheCounts
    /\ expiries \in Nat /\ inserted \in Nat /\ announced \in Nat /\ lookups \in Nat

(* What is stored, and what is about to be.                                *)
AllFresh ==
    /\ \A e \in ToSet(store) : Fresh(e.key, e.version)
    /\ \A t \in CacheThreads : cacheCall[t].at = "put" =>
          /\ cacheCall[t].version <= version[cacheCall[t].key]
          /\ Fresh(cacheCall[t].key, cacheCall[t].version)

Balanced ==
    /\ inserted = Len(store) + counts.evictions + counts.invalidations + expiries
    /\ announced + Cardinality(SignalsOwed) = counts.evictions + counts.invalidations
    /\ counts.hits + counts.misses = lookups

CacheInv == CacheTypes /\ Keyed(store) /\ Len(store) <= CacheSize /\ AllFresh /\ Balanced

(* Keys are counted by the entries.                                        *)
LEMMA KeyedParts ==
    ASSUME NEW s \in Seq(Entry), Keyed(s)
    PROVE  /\ KeysOf(s) = {e.key : e \in ToSet(s)}
           /\ IsFiniteSet(KeysOf(s)) /\ Cardinality(KeysOf(s)) = Len(s)
<1>1. KeysOf(s) = {e.key : e \in ToSet(s)}
  BY DEF KeysOf, ToSet
<1> DEFINE keys == [i \in 1 .. Len(s) |-> s[i].key]
<1>2. keys \in Seq(CacheKeys) /\ DOMAIN keys = 1 .. Len(s) /\ Len(keys) = Len(s) /\ Len(s) \in Nat
      /\ DOMAIN s = 1 .. Len(s)
  <2>1. Len(s) \in Nat /\ DOMAIN s = 1 .. Len(s) /\ \A i \in 1 .. Len(s) : s[i] \in Entry
    OBVIOUS
  <2>2. keys \in [1 .. Len(s) -> CacheKeys]
    BY <2>1 DEF Entry
  <2> HIDE DEF keys
  <2> QED BY <2>1, <2>2
<1>3. \A i \in 1 .. Len(s) : keys[i] = s[i].key
  OBVIOUS
<1> HIDE DEF keys
<1>4. ToSet(keys) = KeysOf(s)
  BY <1>2, <1>3 DEF ToSet, KeysOf
<1>5. IsInjective(keys)
  <2> SUFFICES ASSUME NEW i \in 1 .. Len(s), NEW j \in 1 .. Len(s), s[i].key = s[j].key
               PROVE  i = j
    BY <1>2, <1>3 DEF IsInjective
  <2>1. s[i] = s[j]
    BY <1>2 DEF Keyed, ToSet
  <2> QED BY <1>2, <2>1 DEF Keyed, IsInjective
<1> QED BY <1>1, <1>2, <1>4, <1>5, DistinctCount

(* An entry with a new key is added.                                       *)
LEMMA KeyedWith ==
    ASSUME NEW s \in Seq(Entry), Keyed(s), NEW e \in Entry, e.key \notin KeysOf(s)
    PROVE  /\ Append(s, e) \in Seq(Entry) /\ Keyed(Append(s, e)) /\ Len(Append(s, e)) = Len(s) + 1
           /\ ToSet(Append(s, e)) = ToSet(s) \cup {e}
<1>1. \A x \in ToSet(s) : x.key # e.key
  BY KeyedParts
<1>2. e \notin ToSet(s)
  BY <1>1
<1>3. /\ Append(s, e) \in Seq(Entry) /\ IsInjective(Append(s, e))
      /\ ToSet(Append(s, e)) = ToSet(s) \cup {e}
  BY <1>2, DistinctWith DEF Keyed
<1>4. Keyed(Append(s, e))
  BY <1>1, <1>3 DEF Keyed
<1>5. Len(Append(s, e)) = Len(s) + 1
  OBVIOUS
<1> QED BY <1>3, <1>4, <1>5

(* The entries of some keys are removed.                                   *)
LEMMA StoreWithoutParts ==
    ASSUME CacheInv, NEW keys
    PROVE  /\ StoreWithout(keys) \in Seq(Entry) /\ Keyed(StoreWithout(keys))
           /\ ToSet(StoreWithout(keys)) = {e \in ToSet(store) : e.key \notin keys}
           /\ KeysOf(StoreWithout(keys)) = KeysOf(store) \ keys
           /\ IsFiniteSet(keys \cap KeysOf(store)) /\ Cardinality(keys \cap KeysOf(store)) \in Nat
           /\ Len(StoreWithout(keys)) \in Nat /\ Len(store) \in Nat
           /\ Len(store) = Len(StoreWithout(keys)) + Cardinality(keys \cap KeysOf(store))
<1> DEFINE w == StoreWithout(keys)
<1>1. store \in Seq(Entry) /\ Keyed(store)
  BY DEF CacheInv, CacheTypes
<1>2. EntriesOf(keys) = {e \in ToSet(store) : e.key \in keys}
  BY DEF EntriesOf, ToSet
<1>3. w \in Seq(Entry) /\ IsInjective(w) /\ ToSet(w) = ToSet(store) \ EntriesOf(keys)
  BY <1>1, DistinctWithout DEF StoreWithout, Keyed
<1> HIDE DEF w
<1>4. ToSet(w) = {e \in ToSet(store) : e.key \notin keys}
  BY <1>2, <1>3
<1>5. Keyed(w)
  BY <1>1, <1>3, <1>4 DEF Keyed
<1>6. KeysOf(w) = {e.key : e \in ToSet(w)} /\ Cardinality(KeysOf(w)) = Len(w) /\ Len(w) \in Nat
  BY <1>3, <1>5, KeyedParts
<1>7. /\ KeysOf(store) = {e.key : e \in ToSet(store)} /\ IsFiniteSet(KeysOf(store))
      /\ Cardinality(KeysOf(store)) = Len(store) /\ Len(store) \in Nat
  BY <1>1, KeyedParts
<1>8. KeysOf(w) = KeysOf(store) \ keys
  BY <1>4, <1>6, <1>7
<1>9. IsFiniteSet(keys \cap KeysOf(store)) /\ Cardinality(keys \cap KeysOf(store)) \in Nat
  BY <1>7, FS_Intersection, FS_CardinalityType
<1>10. Cardinality(KeysOf(store) \ keys) = Cardinality(KeysOf(store)) - Cardinality(KeysOf(store) \cap keys)
  BY <1>7, FS_Difference
<1>11. KeysOf(store) \cap keys = keys \cap KeysOf(store)
  OBVIOUS
<1>12. Len(store) = Len(w) + Cardinality(keys \cap KeysOf(store))
  <2>1. Len(w) = Cardinality(KeysOf(store) \ keys)
    BY <1>6, <1>8
  <2>2. Len(w) = Len(store) - Cardinality(keys \cap KeysOf(store))
    BY <1>7, <1>10, <1>11, <2>1
  <2> QED BY <1>6, <1>7, <1>9, <2>2
<1> QED BY <1>3, <1>4, <1>5, <1>6, <1>7, <1>8, <1>9, <1>12 DEF w

LEMMA EntryTypes ==
    ASSUME CacheTypes
    PROVE  \A e \in ToSet(store) : e \in Entry
<1>1. store \in Seq(Entry)
  BY DEF CacheTypes
<1> QED BY <1>1 DEF ToSet

(* One key: its entry is there or not.                                     *)
LEMMA StoreWithoutKey ==
    ASSUME CacheInv, NEW k
    PROVE  /\ k \in KeysOf(store) =>
                /\ Len(StoreWithout({k})) = Len(store) - 1
                /\ store[EntryOf(k)] \in ToSet(store) /\ store[EntryOf(k)].key = k
                /\ EntryOf(k) \in DOMAIN store
           /\ k \notin KeysOf(store) => Len(StoreWithout({k})) = Len(store)
<1>1. /\ Len(StoreWithout({k})) \in Nat /\ Len(store) \in Nat
      /\ Len(store) = Len(StoreWithout({k})) + Cardinality({k} \cap KeysOf(store))
  BY StoreWithoutParts
<1>2. CASE k \in KeysOf(store)
  <2>1. {k} \cap KeysOf(store) = {k}
    BY <1>2
  <2>2. Cardinality({k} \cap KeysOf(store)) = 1
    BY <2>1, FS_Singleton
  <2>3. EntryOf(k) \in DOMAIN store /\ store[EntryOf(k)].key = k
    BY <1>2 DEF KeysOf, EntryOf
  <2>4. store[EntryOf(k)] \in ToSet(store)
    BY <2>3 DEF ToSet
  <2>5. Len(StoreWithout({k})) = Len(store) - 1
    BY <1>1, <2>2
  <2> QED BY <1>2, <2>3, <2>4, <2>5
<1>3. CASE k \notin KeysOf(store)
  <2>1. {k} \cap KeysOf(store) = {}
    BY <1>3
  <2>2. Cardinality({k} \cap KeysOf(store)) = 0
    BY <2>1, FS_EmptySet
  <2> QED BY <1>1, <1>3, <2>2
<1> QED BY <1>2, <1>3

(* The signals that are owed: those of one thread, and those of others.    *)
SignalsLeft(t) == IF cacheCall[t].at = "emit" THEN cacheCall[t].left ELSE 0
OwedByOthers(t) == UNION {SignalsOf(u) : u \in CacheThreads \ {t}}

LEMMA CacheCallKinds ==
    ASSUME CacheTypes, NEW t \in CacheThreads
    PROVE  /\ cacheCall[t].at \in {"idle", "load", "put", "changed", "emit"}
           /\ cacheCall[t].at = "load" => cacheCall[t].key \in CacheKeys
           /\ cacheCall[t].at = "put" => cacheCall[t].key \in CacheKeys /\ cacheCall[t].version \in Nat
           /\ cacheCall[t].at = "changed" => cacheCall[t].keys \in SUBSET CacheKeys
           /\ cacheCall[t].at = "emit" => cacheCall[t].left \in Nat \ {0}
           /\ SignalsLeft(t) \in Nat
<1>1. cacheCall[t] \in CacheCalls
  BY DEF CacheTypes
<1> QED BY <1>1 DEF CacheCalls, Idle, SignalsLeft

LEMMA SignalsOfParts ==
    ASSUME CacheTypes, NEW t \in CacheThreads
    PROVE  IsFiniteSet(SignalsOf(t)) /\ Cardinality(SignalsOf(t)) = SignalsLeft(t)
<1>1. CASE cacheCall[t].at = "emit"
  <2> DEFINE n == cacheCall[t].left
  <2>1. n \in Nat
    BY <1>1, CacheCallKinds
  <2> HIDE DEF n
  <2>2. IsFiniteSet(1 .. n) /\ Cardinality(1 .. n) = n
    BY <2>1, FS_Interval
  <2>3. IsFiniteSet({t}) /\ Cardinality({t}) = 1
    BY FS_Singleton
  <2>4. IsFiniteSet({t} \X (1 .. n)) /\ Cardinality({t} \X (1 .. n)) = Cardinality({t}) * Cardinality(1 .. n)
    BY <2>2, <2>3, FS_Product
  <2> QED BY <1>1, <2>1, <2>2, <2>3, <2>4 DEF SignalsOf, SignalsLeft, n
<1>2. CASE cacheCall[t].at # "emit"
  BY <1>2, FS_EmptySet DEF SignalsOf, SignalsLeft
<1> QED BY <1>1, <1>2

OwedAdds ==
    \A t \in CacheThreads :
        /\ Cardinality(OwedByOthers(t)) \in Nat
        /\ Cardinality(SignalsOwed) = Cardinality(OwedByOthers(t)) + SignalsLeft(t)

LEMMA OwedParts ==
    CacheTypes => OwedAdds
<1> SUFFICES ASSUME CacheTypes, NEW t \in CacheThreads
             PROVE  /\ Cardinality(OwedByOthers(t)) \in Nat
                    /\ Cardinality(SignalsOwed) = Cardinality(OwedByOthers(t)) + SignalsLeft(t)
  BY DEF OwedAdds
<1> DEFINE R == {SignalsOf(u) : u \in CacheThreads \ {t}}
<1>1. IsFiniteSet(R)
  <2>1. IsFiniteSet(CacheThreads \ {t})
    BY CacheSetting, FS_RemoveElement
  <2>2. [u \in CacheThreads \ {t} |-> SignalsOf(u)] \in Surjection(CacheThreads \ {t}, R)
    BY DEF Surjection
  <2> HIDE DEF R
  <2> QED BY <2>1, <2>2, FS_Surjection
<1>2. \A S \in R : IsFiniteSet(S)
  BY SignalsOfParts
<1>3. IsFiniteSet(OwedByOthers(t))
  BY <1>1, <1>2, FS_UNION DEF OwedByOthers
<1>4. SignalsOwed = OwedByOthers(t) \cup SignalsOf(t)
  BY DEF SignalsOwed, OwedByOthers
<1>5. OwedByOthers(t) \cap SignalsOf(t) = {}
  <2>1. \A u \in CacheThreads : \A x \in SignalsOf(u) : x[1] = u
    BY DEF SignalsOf
  <2> QED BY <2>1 DEF OwedByOthers
<1>6. Cardinality(OwedByOthers(t)) \in Nat
  BY <1>3, FS_CardinalityType
<1>7. IsFiniteSet(SignalsOf(t)) /\ Cardinality(SignalsOf(t)) = SignalsLeft(t) /\ SignalsLeft(t) \in Nat
  BY SignalsOfParts, CacheCallKinds
<1>8. Cardinality(OwedByOthers(t) \cup SignalsOf(t)) =
         Cardinality(OwedByOthers(t)) + Cardinality(SignalsOf(t)) - Cardinality(OwedByOthers(t) \cap SignalsOf(t))
  BY <1>3, <1>7, FS_Union
<1>9. Cardinality(OwedByOthers(t) \cap SignalsOf(t)) = 0
  BY <1>5, FS_EmptySet
<1> QED BY <1>4, <1>6, <1>7, <1>8, <1>9

(* A thread goes on to another call.                                       *)
LEMMA OwedChanges ==
    ASSUME CacheTypes, CacheTypes', NEW t \in CacheThreads, NEW call,
           cacheCall' = [cacheCall EXCEPT ![t] = call]
    PROVE  /\ cacheCall'[t] = call /\ \A u \in CacheThreads : u # t => cacheCall'[u] = cacheCall[u]
           /\ \E n \in Nat :
                /\ Cardinality(SignalsOwed) = n + SignalsLeft(t)
                /\ Cardinality(SignalsOwed') = n + SignalsLeft(t)'
<1>1. cacheCall'[t] = call /\ \A u \in CacheThreads : u # t => cacheCall'[u] = cacheCall[u]
  BY DEF CacheTypes
<1>2. OwedByOthers(t)' = OwedByOthers(t)
  BY <1>1 DEF OwedByOthers, SignalsOf
<1>3. /\ Cardinality(OwedByOthers(t)) \in Nat
      /\ Cardinality(SignalsOwed) = Cardinality(OwedByOthers(t)) + SignalsLeft(t)
  BY OwedParts DEF OwedAdds
<1>4. Cardinality(SignalsOwed') = Cardinality(OwedByOthers(t)') + SignalsLeft(t)'
  <2>1. CacheTypes' => OwedAdds'
    BY OwedParts, PTL
  <2> QED BY <2>1 DEF OwedAdds
<1> QED BY <1>1, <1>2, <1>3, <1>4

LEMMA CacheIsSafe ==
    ASSUME CacheInv
    PROVE  CacheSafe
<1>1. store \in Seq(Entry) /\ Keyed(store) /\ Len(store) <= CacheSize
  BY DEF CacheInv, CacheTypes
<1>2. Cardinality(KeysOf(store)) = Len(store)
  BY <1>1, KeyedParts
<1>3. \A i \in DOMAIN store : Fresh(store[i].key, store[i].version)
  BY DEF CacheInv, AllFresh, ToSet
<1>4. Balanced
  BY DEF CacheInv
<1> QED BY <1>1, <1>2, <1>3, <1>4 DEF CacheSafe, Fresh, Balanced

LEMMA CacheInitInv ==
    ASSUME CacheInit
    PROVE  CacheInv
<1> USE DEF CacheInit
<1>1. CacheTypes
  BY DEF CacheTypes, CacheCalls, CacheCounts
<1>2. Keyed(store) /\ ToSet(store) = {}
  BY DEF Keyed, IsInjective, ToSet
<1>3. AllFresh
  BY <1>2 DEF AllFresh, Idle
<1>4. SignalsOwed = {}
  BY DEF SignalsOwed, SignalsOf, Idle
<1>5. Balanced
  BY <1>4, FS_EmptySet DEF Balanced
<1>6. Len(store) <= CacheSize
  BY CacheSetting
<1> QED BY <1>1, <1>2, <1>3, <1>5, <1>6 DEF CacheInv

(* What was fresh stays so when a thread that was not about to invalidate  *)
(* goes on.                                                                *)
LEMMA FreshKept ==
    ASSUME CacheTypes, UNCHANGED <<version, staleRace>>, NEW t \in CacheThreads, NEW call,
           cacheCall' = [cacheCall EXCEPT ![t] = call], cacheCall[t].at # "changed"
    PROVE  \A k, v : Fresh(k, v) => Fresh(k, v)'
<1>1. \A u \in CacheThreads : cacheCall[u].at = "changed" => cacheCall'[u] = cacheCall[u]
  BY DEF CacheTypes
<1> QED BY <1>1 DEF Fresh

LEMMA CountsParts ==
    ASSUME CacheTypes
    PROVE  /\ counts.hits \in Nat /\ counts.misses \in Nat /\ counts.evictions \in Nat
           /\ counts.invalidations \in Nat /\ expiries \in Nat /\ inserted \in Nat /\ announced \in Nat
           /\ lookups \in Nat /\ Len(store) \in Nat
           /\ counts = [hits |-> counts.hits, misses |-> counts.misses, evictions |-> counts.evictions,
                        invalidations |-> counts.invalidations]
  BY DEF CacheTypes, CacheCounts

(* get() finds an entry that has not expired.                              *)
LEMMA HitStep ==
    ASSUME CacheInv, NEW t \in CacheThreads, NEW k \in CacheKeys, GetOrLoad(t, k),
           k \in KeysOf(store), ~store[EntryOf(k)].expired
    PROVE  CacheInv'
<1>0. CacheTypes /\ Keyed(store) /\ Len(store) <= CacheSize /\ AllFresh /\ Balanced
  BY DEF CacheInv
<1> DEFINE e == store[EntryOf(k)]
           w == StoreWithout({k})
<1>1. /\ store' = Append(w, e) /\ lookups' = lookups + 1
      /\ counts' = [counts EXCEPT !.hits = @ + 1]
      /\ UNCHANGED <<version, cacheCall, expiries, inserted, announced, staleRace>>
  BY DEF GetOrLoad
<1>2. e \in ToSet(store) /\ e.key = k /\ Len(w) = Len(store) - 1
  BY StoreWithoutKey
<1>3. /\ w \in Seq(Entry) /\ Keyed(w) /\ ToSet(w) = {x \in ToSet(store) : x.key \notin {k}}
      /\ KeysOf(w) = KeysOf(store) \ {k} /\ Len(w) \in Nat /\ Len(store) \in Nat
  BY StoreWithoutParts
<1> HIDE DEF e, w
<1>4. e \in Entry
  BY <1>0, <1>2, EntryTypes
<1>5. /\ store' \in Seq(Entry) /\ Keyed(store') /\ Len(store') = Len(store)
      /\ ToSet(store') \subseteq ToSet(store)
  <2>1. /\ Append(w, e) \in Seq(Entry) /\ Keyed(Append(w, e)) /\ Len(Append(w, e)) = Len(w) + 1
        /\ ToSet(Append(w, e)) = ToSet(w) \cup {e}
    BY <1>2, <1>3, <1>4, KeyedWith
  <2>2. Len(w) + 1 = Len(store)
    BY <1>2, <1>3
  <2> QED BY <1>1, <1>2, <1>3, <2>1, <2>2
<1>6. CacheTypes'
  <2>0. counts \in CacheCounts
    BY <1>0 DEF CacheTypes
  <2>1. counts' \in CacheCounts
    BY <1>1, <2>0 DEF CacheCounts
  <2>2. lookups' \in Nat
    BY <1>1 DEF CacheInv, CacheTypes
  <2> QED BY <1>1, <1>5, <2>1, <2>2 DEF CacheInv, CacheTypes
<1>7. AllFresh'
  BY <1>1, <1>5 DEF CacheInv, AllFresh, Fresh
<1>8. Balanced'
  <2>1. SignalsOwed' = SignalsOwed
    BY <1>1 DEF SignalsOwed, SignalsOf
  <2>2. /\ counts'.hits = counts.hits + 1 /\ counts'.misses = counts.misses
        /\ counts'.evictions = counts.evictions /\ counts'.invalidations = counts.invalidations
    BY <1>1 DEF CacheInv, CacheTypes
  <2>3. counts.hits \in Nat /\ counts.misses \in Nat /\ lookups \in Nat
    BY CountsParts DEF CacheInv
  <2> QED BY <1>1, <1>5, <2>1, <2>2, <2>3 DEF CacheInv, Balanced
<1>9. Len(store') <= CacheSize
  BY <1>5 DEF CacheInv
<1> QED BY <1>5, <1>6, <1>7, <1>8, <1>9 DEF CacheInv

(* get() finds none, or removes one that has expired.                      *)
LEMMA MissStep ==
    ASSUME CacheInv, NEW t \in CacheThreads, NEW k \in CacheKeys, GetOrLoad(t, k),
           ~(k \in KeysOf(store) /\ ~store[EntryOf(k)].expired)
    PROVE  CacheInv'
<1>0. CacheTypes /\ Keyed(store) /\ Len(store) <= CacheSize /\ AllFresh /\ Balanced
  BY DEF CacheInv
<1> DEFINE w == StoreWithout({k})
           call == [at |-> "load", key |-> k]
<1>1. /\ cacheCall[t] = Idle
      /\ store' = w /\ lookups' = lookups + 1
      /\ counts' = [counts EXCEPT !.misses = @ + 1]
      /\ expiries' = IF k \in KeysOf(store) THEN expiries + 1 ELSE expiries
      /\ cacheCall' = [cacheCall EXCEPT ![t] = call]
      /\ UNCHANGED <<version, inserted, announced, staleRace>>
  BY Zenon DEF GetOrLoad
<1>2. /\ w \in Seq(Entry) /\ Keyed(w) /\ ToSet(w) \subseteq ToSet(store)
      /\ Len(w) \in Nat /\ Len(store) \in Nat
      /\ k \in KeysOf(store) => Len(w) = Len(store) - 1
      /\ k \notin KeysOf(store) => Len(w) = Len(store)
  BY StoreWithoutParts, StoreWithoutKey
<1> HIDE DEF w
<1>3. CacheTypes'
  <2>0. counts \in CacheCounts
    BY <1>0 DEF CacheTypes
  <2>1. counts' \in CacheCounts
    BY <1>1, <2>0 DEF CacheCounts
  <2>2. lookups' \in Nat /\ expiries' \in Nat
    BY <1>1 DEF CacheInv, CacheTypes
  <2>3. cacheCall' \in [CacheThreads -> CacheCalls]
    <3>1. call \in CacheCalls
      BY DEF CacheCalls
    <3> QED BY <1>0, <1>1, <3>1 DEF CacheTypes
  <2> QED BY <1>1, <1>2, <2>1, <2>2, <2>3 DEF CacheInv, CacheTypes
<1>4. CacheTypes
  BY DEF CacheInv
<1>5. /\ cacheCall'[t] = call /\ \A u \in CacheThreads : u # t => cacheCall'[u] = cacheCall[u]
      /\ \E n \in Nat : /\ Cardinality(SignalsOwed) = n + SignalsLeft(t)
                        /\ Cardinality(SignalsOwed') = n + SignalsLeft(t)'
  BY <1>1, <1>3, <1>4, OwedChanges
<1>6. AllFresh'
  <2>0. cacheCall[t].at # "changed"
    BY <1>1 DEF Idle
  <2>1. \A x, v : Fresh(x, v) => Fresh(x, v)'
    <3> HIDE DEF call
    <3> QED BY <1>0, <1>1, <2>0, FreshKept
  <2>2. \A e \in ToSet(store') : Fresh(e.key, e.version)'
    BY <1>1, <1>2, <2>1 DEF CacheInv, AllFresh
  <2>3. \A u \in CacheThreads : cacheCall'[u].at = "put" => cacheCall'[u] = cacheCall[u]
    BY <1>5
  <2> QED BY <1>1, <2>1, <2>2, <2>3 DEF CacheInv, AllFresh
<1>7. Balanced'
  <2>1. Cardinality(SignalsOwed') = Cardinality(SignalsOwed)
    BY <1>1, <1>5 DEF SignalsLeft, Idle
  <2>2. /\ counts.hits \in Nat /\ counts.misses \in Nat /\ counts.evictions \in Nat
        /\ counts.invalidations \in Nat /\ expiries \in Nat /\ inserted \in Nat /\ lookups \in Nat
    BY <1>0, CountsParts
  <2>3. expiries' \in Nat /\ inserted' \in Nat /\ lookups' \in Nat
    BY <1>3 DEF CacheTypes
  <2>4. /\ counts'.hits = counts.hits /\ counts'.misses = counts.misses + 1
        /\ counts'.evictions = counts.evictions /\ counts'.invalidations = counts.invalidations
    BY <1>0, <1>1 DEF CacheTypes, CacheCounts
  <2>5. /\ store' = w /\ lookups' = lookups + 1 /\ inserted' = inserted
        /\ expiries' = IF k \in KeysOf(store) THEN expiries + 1 ELSE expiries
    BY <1>1
  <2>6. /\ inserted = Len(store) + counts.evictions + counts.invalidations + expiries
        /\ counts.hits + counts.misses = lookups
    BY <1>0 DEF Balanced
  <2> DEFINE n == Len(store)    n2 == Len(store')   x == expiries            x2 == expiries'
             v == counts.evictions     v2 == counts'.evictions
             d == counts.invalidations d2 == counts'.invalidations
             h == counts.hits h2 == counts'.hits m == counts.misses m2 == counts'.misses
  <2>7. n2 + x2 = n + x /\ n2 \in Nat /\ n \in Nat
    BY <1>2, <2>2, <2>3, <2>5
  <2>8. inserted' = n2 + v2 + d2 + x2
    <3> HIDE DEF call, n, n2, x, x2, v, v2, d, d2
    <3>1. /\ v2 = v /\ d2 = d /\ v \in Nat /\ d \in Nat /\ x \in Nat /\ x2 \in Nat
      BY <2>2, <2>3, <2>4 DEF x, x2, v, v2, d, d2
    <3>2. inserted' = n + v + d + x
      BY <2>5, <2>6 DEF n, v, d, x
    <3> QED BY <2>7, <3>1, <3>2
  <2>9. h2 + m2 = lookups'
    <3> HIDE DEF call, h, h2, m, m2
    <3>1. h2 = h /\ m2 = m + 1 /\ h \in Nat /\ m \in Nat /\ lookups' = h + m + 1
      BY <2>2, <2>4, <2>5, <2>6 DEF h, h2, m, m2
    <3> QED BY <3>1
  <2> QED BY <1>0, <1>1, <2>1, <2>4, <2>5, <2>6, <2>8, <2>9 DEF Balanced
<1>8. Keyed(store') /\ Len(store') <= CacheSize
  BY <1>1, <1>2, CacheSetting DEF CacheInv
<1> QED BY <1>3, <1>6, <1>7, <1>8 DEF CacheInv

(* The loader.                                                             *)
LEMMA LoadStep ==
    ASSUME CacheInv, NEW t \in CacheThreads, Load(t)
    PROVE  CacheInv'
<1>0. CacheTypes /\ Keyed(store) /\ Len(store) <= CacheSize /\ AllFresh /\ Balanced
  BY DEF CacheInv
<1> DEFINE k == cacheCall[t].key
           call == [at |-> "put", key |-> k, version |-> version[k]]
<1>1. /\ cacheCall[t].at = "load" /\ cacheCall' = [cacheCall EXCEPT ![t] = call]
      /\ UNCHANGED <<store, version, counts, expiries, inserted, announced, lookups, staleRace>>
  BY DEF Load
<1>2. CacheTypes
  BY DEF CacheInv
<1>3. k \in CacheKeys /\ version[k] \in Nat
  BY <1>1, <1>2, CacheCallKinds DEF CacheTypes
<1> HIDE DEF k
<1>4. CacheTypes'
  <2>1. call \in CacheCalls
    BY <1>3 DEF CacheCalls
  <2> HIDE DEF call
  <2>2. cacheCall' \in [CacheThreads -> CacheCalls]
    BY <1>1, <1>2, <2>1 DEF CacheTypes
  <2> QED BY <1>1, <1>2, <2>2 DEF CacheTypes
<1>5. /\ cacheCall'[t] = call /\ \A u \in CacheThreads : u # t => cacheCall'[u] = cacheCall[u]
      /\ \E n \in Nat : /\ Cardinality(SignalsOwed) = n + SignalsLeft(t)
                        /\ Cardinality(SignalsOwed') = n + SignalsLeft(t)'
  BY <1>1, <1>2, <1>4, OwedChanges
<1>6. AllFresh'
  <2>1. \A x, v : Fresh(x, v) => Fresh(x, v)'
    BY <1>1, <1>2, FreshKept
  <2>2. \A e \in ToSet(store') : Fresh(e.key, e.version)'
    BY <1>1, <2>1 DEF CacheInv, AllFresh
  <2>3. \A u \in CacheThreads \ {t} : cacheCall'[u].at = "put" =>
           /\ cacheCall'[u].version <= version'[cacheCall'[u].key]
           /\ Fresh(cacheCall[u].key, cacheCall[u].version)'
    BY <1>1, <1>5, <2>1 DEF CacheInv, AllFresh
  <2>4. cacheCall'[t].version = version'[cacheCall'[t].key]
    BY <1>1, <1>5
  <2>5. Fresh(cacheCall[t].key, cacheCall[t].version)'
    BY <2>4 DEF Fresh
  <2>6. cacheCall'[t].version <= version'[cacheCall'[t].key]
    BY <1>1, <1>3, <1>5
  <2> QED BY <2>2, <2>3, <2>5, <2>6 DEF AllFresh
<1>7. Balanced'
  <2>1. Cardinality(SignalsOwed') = Cardinality(SignalsOwed)
    BY <1>1, <1>5 DEF SignalsLeft
  <2> QED BY <1>1, <2>1 DEF CacheInv, Balanced
<1>8. Keyed(store') /\ Len(store') <= CacheSize
  BY <1>1 DEF CacheInv
<1> QED BY <1>4, <1>6, <1>7, <1>8 DEF CacheInv

(* put()                                                                   *)
LEMMA PutStep ==
    ASSUME CacheInv, NEW t \in CacheThreads, Put(t)
    PROVE  CacheInv'
<1>0. CacheTypes /\ Keyed(store) /\ Len(store) <= CacheSize /\ AllFresh /\ Balanced
  BY DEF CacheInv
<1> DEFINE k    == cacheCall[t].key
           new  == [key |-> k, version |-> cacheCall[t].version, expired |-> FALSE]
           w    == StoreWithout({k})
           now  == Append(w, new)
           over == Len(now) > CacheSize
           call == IF over THEN [at |-> "emit", left |-> 1] ELSE Idle
<1>1. /\ cacheCall[t].at = "put"
      /\ store' = IF over THEN Tail(now) ELSE now
      /\ inserted' = IF k \in KeysOf(store) THEN inserted ELSE inserted + 1
      /\ counts' = IF over THEN [counts EXCEPT !.evictions = @ + 1] ELSE counts
      /\ cacheCall' = [cacheCall EXCEPT ![t] = call]
      /\ UNCHANGED <<version, expiries, announced, lookups, staleRace>>
  BY DEF Put
<1>2. k \in CacheKeys /\ cacheCall[t].version \in Nat
  BY <1>0, <1>1, CacheCallKinds
<1>3. new \in Entry /\ new.key = k /\ new.version = cacheCall[t].version
  BY <1>2 DEF Entry
<1>4. /\ w \in Seq(Entry) /\ Keyed(w) /\ ToSet(w) = {x \in ToSet(store) : x.key \notin {k}}
      /\ KeysOf(w) = KeysOf(store) \ {k} /\ Len(w) \in Nat /\ Len(store) \in Nat
  BY StoreWithoutParts
<1>5. /\ k \in KeysOf(store) => Len(w) = Len(store) - 1
      /\ k \notin KeysOf(store) => Len(w) = Len(store)
  BY StoreWithoutKey
<1>6. call \in CacheCalls /\ call.at \notin {"changed", "put"}
      /\ call = IF over THEN [at |-> "emit", left |-> 1] ELSE Idle
  BY DEF CacheCalls, Idle
<1> HIDE DEF k, new, w, now, over, call
<1>7. now \in Seq(Entry) /\ Keyed(now) /\ Len(now) = Len(w) + 1 /\ ToSet(now) = ToSet(w) \cup {new}
  BY <1>3, <1>4, KeyedWith DEF now
<1>8. /\ store' \in Seq(Entry) /\ Keyed(store') /\ ToSet(store') \subseteq ToSet(store) \cup {new}
      /\ over => Len(store') = Len(w)
      /\ ~over => Len(store') = Len(w) + 1
      /\ Len(store') <= CacheSize
  <2>1. ToSet(now) \subseteq ToSet(store) \cup {new}
    BY <1>4, <1>7
  <2>2. CASE over
    <3>1. now # <<>>
      BY <1>4, <1>7
    <3>2. /\ Tail(now) \in Seq(Entry) /\ IsInjective(Tail(now)) /\ Len(Tail(now)) = Len(now) - 1
          /\ ToSet(Tail(now)) \subseteq ToSet(now)
      BY <1>7, <3>1, DistinctTail DEF Keyed
    <3>3. Keyed(Tail(now))
      BY <1>7, <3>2 DEF Keyed
    <3>4. Len(Tail(now)) = Len(w)
      BY <1>4, <1>7, <3>2
    <3>5. Len(w) <= CacheSize
      BY <1>0, <1>4, <1>5, CacheSetting
    <3>6. store' = Tail(now)
      BY <1>1, <2>2
    <3> QED BY <2>1, <2>2, <3>2, <3>3, <3>4, <3>5, <3>6
  <2>3. CASE ~over
    <3>1. store' = now
      BY <1>1, <2>3
    <3>2. Len(now) <= CacheSize
      BY <1>4, <1>7, <2>3, CacheSetting DEF over
    <3> QED BY <1>7, <2>1, <2>3, <3>1, <3>2
  <2> QED BY <2>2, <2>3
<1>9. CacheTypes'
  <2>1. counts \in CacheCounts
    BY <1>0 DEF CacheTypes
  <2>2. counts' \in CacheCounts
    BY <1>1, <2>1 DEF CacheCounts
  <2>3. cacheCall' \in [CacheThreads -> CacheCalls]
    BY <1>0, <1>1, <1>6 DEF CacheTypes
  <2>4. inserted' \in Nat
    BY <1>0, <1>1 DEF CacheTypes
  <2> QED BY <1>0, <1>1, <1>8, <2>2, <2>3, <2>4 DEF CacheTypes
<1>10. /\ cacheCall'[t] = call /\ \A u \in CacheThreads : u # t => cacheCall'[u] = cacheCall[u]
       /\ \E n \in Nat : /\ Cardinality(SignalsOwed) = n + SignalsLeft(t)
                         /\ Cardinality(SignalsOwed') = n + SignalsLeft(t)'
  BY <1>0, <1>1, <1>9, OwedChanges
<1>11. AllFresh'
  <2>1. \A x, v : Fresh(x, v) => Fresh(x, v)'
    BY <1>0, <1>1, FreshKept
  <2>2. Fresh(new.key, new.version)
    BY <1>0, <1>1, <1>3 DEF AllFresh, k
  <2>3. \A e \in ToSet(store') : Fresh(e.key, e.version)'
    BY <1>0, <1>8, <2>1, <2>2 DEF AllFresh
  <2>4. \A u \in CacheThreads : cacheCall'[u].at = "put" => cacheCall'[u] = cacheCall[u]
    BY <1>6, <1>10
  <2> QED BY <1>0, <1>1, <2>1, <2>3, <2>4 DEF AllFresh
<1>12. Balanced'
  <2>1. /\ counts.hits \in Nat /\ counts.misses \in Nat /\ counts.evictions \in Nat
        /\ counts.invalidations \in Nat /\ expiries \in Nat /\ inserted \in Nat /\ announced \in Nat
    BY <1>0, CountsParts
  <2>2. counts'.evictions \in Nat /\ counts'.invalidations \in Nat /\ inserted' \in Nat
    BY <1>9 DEF CacheTypes, CacheCounts
  <2>3. SignalsLeft(t) = 0 /\ SignalsLeft(t)' = IF over THEN 1 ELSE 0
    BY <1>1, <1>6, <1>10 DEF SignalsLeft, Idle
  <2>4. /\ Cardinality(SignalsOwed) \in Nat
        /\ Cardinality(SignalsOwed') = Cardinality(SignalsOwed) + IF over THEN 1 ELSE 0
    BY <1>10, <2>3
  <2>5. /\ counts'.hits = counts.hits /\ counts'.misses = counts.misses
        /\ counts'.evictions = counts.evictions + IF over THEN 1 ELSE 0
        /\ counts'.invalidations = counts.invalidations
    BY <1>0, <1>1, <2>1 DEF CacheTypes, CacheCounts
  <2>6. /\ inserted' = IF k \in KeysOf(store) THEN inserted ELSE inserted + 1
        /\ expiries' = expiries /\ announced' = announced /\ lookups' = lookups
    BY <1>1
  <2>7. /\ inserted = Len(store) + counts.evictions + counts.invalidations + expiries
        /\ announced + Cardinality(SignalsOwed) = counts.evictions + counts.invalidations
        /\ counts.hits + counts.misses = lookups
    BY <1>0 DEF Balanced
  <2>8. inserted' = Len(store') + counts'.evictions + counts'.invalidations + expiries'
    <3>1. Len(w) \in Nat /\ Len(store) \in Nat /\ Len(store') \in Nat
      BY <1>4, <1>8
    <3>2. inserted' + Len(store) = inserted + Len(w) + 1
      BY <1>5, <2>1, <2>2, <2>6, <3>1, SMTT(30)
    <3> DEFINE n == Len(store)  n2 == Len(store')  nw == Len(w)  more == IF over THEN 1 ELSE 0
               v == counts.evictions v2 == counts'.evictions d == counts.invalidations d2 == counts'.invalidations
    <3>3. n2 + more = nw + 1 /\ more \in Nat
      BY <1>8, <3>1
    <3> DEFINE x == expiries  a == inserted  a2 == inserted'
    <3> HIDE DEF n, n2, nw, more, v, v2, d, d2, x, a, a2
    <3>4. /\ v2 = v + more /\ d2 = d /\ v \in Nat /\ d \in Nat /\ x \in Nat
          /\ a \in Nat /\ a2 \in Nat /\ n \in Nat /\ n2 \in Nat /\ nw \in Nat
      BY <2>1, <2>2, <2>5, <3>1 DEF n, n2, nw, more, v, v2, d, d2, x, a, a2
    <3>5. a = n + v + d + x /\ a2 + n = a + nw + 1
      BY <2>7, <3>2 DEF n, nw, v, d, x, a, a2
    <3>6. a2 = n2 + v2 + d2 + x
      BY <3>3, <3>4, <3>5
    <3> QED BY <2>6, <3>6 DEF n2, v2, d2, x, a2
  <2>9. announced' + Cardinality(SignalsOwed') = counts'.evictions + counts'.invalidations
    BY <2>1, <2>2, <2>4, <2>5, <2>6, <2>7, SMTT(30)
  <2> QED BY <2>5, <2>6, <2>7, <2>8, <2>9 DEF Balanced
<1> QED BY <1>8, <1>9, <1>11, <1>12 DEF CacheInv

(* The data changes at its source.                                         *)
LEMMA ChangeSourceStep ==
    ASSUME CacheInv, NEW t \in CacheThreads, NEW keys \in SUBSET CacheKeys, ChangeSource(t, keys)
    PROVE  CacheInv'
<1>0. CacheTypes /\ Keyed(store) /\ Len(store) <= CacheSize /\ AllFresh /\ Balanced
  BY DEF CacheInv
<1> DEFINE call == [at |-> "changed", keys |-> keys]
<1>1. /\ cacheCall[t] = Idle
      /\ version' = [k \in CacheKeys |-> IF k \in keys THEN version[k] + 1 ELSE version[k]]
      /\ cacheCall' = [cacheCall EXCEPT ![t] = call]
      /\ UNCHANGED <<store, counts, expiries, inserted, announced, lookups, staleRace>>
  BY DEF ChangeSource
<1>2. call \in CacheCalls /\ call.at = "changed" /\ call.keys = keys /\ cacheCall[t].at = "idle"
  BY <1>1 DEF CacheCalls, Idle
<1> HIDE DEF call
<1>3. /\ version \in [CacheKeys -> Nat] /\ version' \in [CacheKeys -> Nat]
      /\ \A k \in CacheKeys : version[k] <= version'[k] /\ (k \notin keys => version'[k] = version[k])
  <2>1. version \in [CacheKeys -> Nat]
    BY <1>0 DEF CacheTypes
  <2> QED BY <1>1, <2>1
<1>4. CacheTypes'
  <2>1. cacheCall' \in [CacheThreads -> CacheCalls]
    BY <1>0, <1>1, <1>2 DEF CacheTypes
  <2> QED BY <1>0, <1>1, <1>3, <2>1 DEF CacheTypes
<1>5. /\ cacheCall'[t] = call /\ \A u \in CacheThreads : u # t => cacheCall'[u] = cacheCall[u]
      /\ \E n \in Nat : /\ Cardinality(SignalsOwed) = n + SignalsLeft(t)
                        /\ Cardinality(SignalsOwed') = n + SignalsLeft(t)'
  BY <1>0, <1>1, <1>4, OwedChanges
<1>6. AllFresh'
  <2>1. \A k \in CacheKeys : \A v : Fresh(k, v) => Fresh(k, v)'
    <3> SUFFICES ASSUME NEW k \in CacheKeys, NEW v, Fresh(k, v) PROVE Fresh(k, v)'
      OBVIOUS
    <3>1. CASE k \in keys
      BY <1>2, <1>5, <3>1 DEF Fresh
    <3>2. CASE k \notin keys
      <4>1. version'[k] = version[k] /\ staleRace' = staleRace
        BY <1>1, <1>3, <3>2
      <4>2. \A u \in CacheThreads : cacheCall[u].at = "changed" => cacheCall'[u] = cacheCall[u]
        BY <1>2, <1>5
      <4> QED BY <4>1, <4>2 DEF Fresh
    <3> QED BY <3>1, <3>2
  <2>2. \A e \in ToSet(store') : Fresh(e.key, e.version)'
    <3>1. \A e \in ToSet(store) : e.key \in CacheKeys
      BY <1>0, EntryTypes DEF Entry
    <3> QED BY <1>0, <1>1, <2>1, <3>1 DEF AllFresh
  <2>3. ASSUME NEW u \in CacheThreads, cacheCall'[u].at = "put"
        PROVE  /\ cacheCall'[u].version <= version'[cacheCall'[u].key]
               /\ Fresh(cacheCall[u].key, cacheCall[u].version)'
    <3>1. cacheCall'[u] = cacheCall[u]
      BY <1>2, <1>5, <2>3
    <3>2. cacheCall[u].key \in CacheKeys /\ cacheCall[u].version \in Nat
      BY <1>0, <2>3, <3>1, CacheCallKinds
    <3>3. /\ cacheCall[u].version <= version[cacheCall[u].key]
          /\ Fresh(cacheCall[u].key, cacheCall[u].version)
      BY <1>0, <2>3, <3>1 DEF AllFresh
    <3>4. cacheCall[u].version <= version'[cacheCall[u].key]
      BY <1>3, <3>2, <3>3
    <3> QED BY <2>1, <3>1, <3>2, <3>3, <3>4
  <2> QED BY <2>2, <2>3 DEF AllFresh
<1>7. Balanced'
  <2>1. SignalsLeft(t) = 0 /\ SignalsLeft(t)' = 0
    BY <1>2, <1>5 DEF SignalsLeft
  <2>2. Cardinality(SignalsOwed') = Cardinality(SignalsOwed)
    BY <1>5, <2>1
  <2> QED BY <1>0, <1>1, <2>2 DEF Balanced
<1>8. Keyed(store') /\ Len(store') <= CacheSize
  BY <1>0, <1>1
<1> QED BY <1>4, <1>6, <1>7, <1>8 DEF CacheInv

(* invalidate()                                                            *)
LEMMA InvalidateStep ==
    ASSUME CacheInv, NEW t \in CacheThreads, Invalidate(t)
    PROVE  CacheInv'
<1>0. CacheTypes /\ Keyed(store) /\ Len(store) <= CacheSize /\ AllFresh /\ Balanced
  BY DEF CacheInv
<1> DEFINE keys == cacheCall[t].keys
           gone == keys \cap KeysOf(store)
           w    == StoreWithout(keys)
           call == IF gone = {} THEN Idle ELSE [at |-> "emit", left |-> Cardinality(gone)]
           late == {k \in keys : \E u \in CacheThreads :
                       cacheCall[u].at = "put" /\ cacheCall[u].key = k /\ cacheCall[u].version < version[k]}
<1>1. /\ cacheCall[t].at = "changed"
      /\ store' = w
      /\ counts' = [counts EXCEPT !.invalidations = @ + Cardinality(gone)]
      /\ staleRace' = staleRace \cup late
      /\ cacheCall' = [cacheCall EXCEPT ![t] = call]
      /\ UNCHANGED <<version, expiries, inserted, announced, lookups>>
  BY DEF Invalidate
<1>2. /\ w \in Seq(Entry) /\ Keyed(w) /\ ToSet(w) = {x \in ToSet(store) : x.key \notin keys}
      /\ IsFiniteSet(gone) /\ Cardinality(gone) \in Nat
      /\ Len(w) \in Nat /\ Len(store) \in Nat /\ Len(store) = Len(w) + Cardinality(gone)
  BY StoreWithoutParts
<1>3. /\ call \in CacheCalls /\ call.at \notin {"changed", "put"}
      /\ IF call.at = "emit" THEN call.left = Cardinality(gone) ELSE Cardinality(gone) = 0
  <2>1. gone = {} <=> Cardinality(gone) = 0
    BY <1>2, FS_EmptySet
  <2> HIDE DEF gone
  <2> QED BY <1>2, <2>1 DEF CacheCalls, Idle
<1>4. \A k \in late : k \in keys
  OBVIOUS
<1>5. ASSUME NEW u \in CacheThreads, cacheCall[u].at = "put", cacheCall[u].key \in keys,
             cacheCall[u].version # version[cacheCall[u].key]
      PROVE  cacheCall[u].key \in late
  <2>1. cacheCall[u].version <= version[cacheCall[u].key]
    BY <1>0, <1>5 DEF AllFresh
  <2>2. cacheCall[u].version \in Nat /\ version[cacheCall[u].key] \in Nat
    BY <1>0, <1>5, CacheCallKinds DEF CacheTypes
  <2>3. cacheCall[u].version < version[cacheCall[u].key]
    BY <1>5, <2>1, <2>2
  <2> QED BY <1>5, <2>3
<1> HIDE DEF gone, w, call, late
<1>6. CacheTypes'
  <2>1. counts' \in CacheCounts
    <3>1. counts \in CacheCounts
      BY <1>0 DEF CacheTypes
    <3> QED BY <1>1, <1>2, <3>1, SMTT(30) DEF CacheCounts
  <2>2. cacheCall' \in [CacheThreads -> CacheCalls]
    BY <1>0, <1>1, <1>3 DEF CacheTypes
  <2> QED BY <1>0, <1>1, <1>2, <2>1, <2>2 DEF CacheTypes
<1>7. /\ cacheCall'[t] = call /\ \A u \in CacheThreads : u # t => cacheCall'[u] = cacheCall[u]
      /\ \E n \in Nat : /\ Cardinality(SignalsOwed) = n + SignalsLeft(t)
                        /\ Cardinality(SignalsOwed') = n + SignalsLeft(t)'
  BY <1>0, <1>1, <1>6, OwedChanges
<1>8. AllFresh'
  <2>1. \A k, v : Fresh(k, v) /\ (k \notin keys \/ v = version[k] \/ k \in late) => Fresh(k, v)'
    <3> SUFFICES ASSUME NEW k, NEW v, Fresh(k, v), k \notin keys \/ v = version[k] \/ k \in late
                 PROVE  Fresh(k, v)'
      OBVIOUS
    <3>1. CASE v = version[k] \/ k \in staleRace \/ k \in late
      <4>1. version' = version /\ staleRace' = staleRace \cup late
        BY <1>1
      <4> QED BY <3>1, <4>1 DEF Fresh
    <3>2. CASE ~(v = version[k] \/ k \in staleRace \/ k \in late)
      <4>1. PICK u \in CacheThreads : cacheCall[u].at = "changed" /\ k \in cacheCall[u].keys
        BY <3>2 DEF Fresh
      <4>2. u # t
        BY <3>2, <4>1
      <4>3. cacheCall'[u] = cacheCall[u]
        BY <1>7, <4>2
      <4> QED BY <4>1, <4>3 DEF Fresh
    <3> QED BY <3>1, <3>2
  <2> HIDE DEF keys
  <2>2. \A e \in ToSet(store') : Fresh(e.key, e.version)'
    BY <1>0, <1>1, <1>2, <2>1 DEF AllFresh
  <2>3. ASSUME NEW u \in CacheThreads, cacheCall'[u].at = "put"
        PROVE  /\ cacheCall'[u].version <= version'[cacheCall'[u].key]
               /\ Fresh(cacheCall[u].key, cacheCall[u].version)'
    <3>1. cacheCall'[u] = cacheCall[u]
      BY <1>3, <1>7, <2>3
    <3>2. /\ cacheCall[u].version <= version[cacheCall[u].key]
          /\ Fresh(cacheCall[u].key, cacheCall[u].version)
      BY <1>0, <2>3, <3>1 DEF AllFresh
    <3>3. \/ cacheCall[u].key \notin keys \/ cacheCall[u].version = version[cacheCall[u].key]
          \/ cacheCall[u].key \in late
      BY <1>5, <2>3, <3>1
    <3>4. Fresh(cacheCall[u].key, cacheCall[u].version)'
      BY <2>1, <3>1, <3>2, <3>3
    <3> QED BY <1>1, <3>1, <3>2, <3>4
  <2> QED BY <2>2, <2>3 DEF AllFresh
<1>9. Balanced'
  <2>1. /\ counts.hits \in Nat /\ counts.misses \in Nat /\ counts.evictions \in Nat
        /\ counts.invalidations \in Nat /\ expiries \in Nat /\ inserted \in Nat /\ announced \in Nat
    BY <1>0, CountsParts
  <2>2. /\ counts'.hits = counts.hits /\ counts'.misses = counts.misses
        /\ counts'.evictions = counts.evictions
        /\ counts'.invalidations = counts.invalidations + Cardinality(gone)
    BY <1>0, <1>1 DEF CacheTypes, CacheCounts
  <2>3. SignalsLeft(t) = 0 /\ SignalsLeft(t)' = Cardinality(gone)
    BY <1>1, <1>3, <1>7 DEF SignalsLeft
  <2>4. /\ Cardinality(SignalsOwed) \in Nat
        /\ Cardinality(SignalsOwed') = Cardinality(SignalsOwed) + Cardinality(gone)
    BY <1>2, <1>7, <2>3
  <2>5. /\ inserted = Len(store) + counts.evictions + counts.invalidations + expiries
        /\ announced + Cardinality(SignalsOwed) = counts.evictions + counts.invalidations
        /\ counts.hits + counts.misses = lookups
    BY <1>0 DEF Balanced
  <2> DEFINE n == Len(store)   n2 == Len(w)    g == Cardinality(gone)
             o == Cardinality(SignalsOwed)     o2 == Cardinality(SignalsOwed')
             v == counts.evictions  d == counts.invalidations  d2 == counts'.invalidations
  <2>6. n = n2 + g /\ n \in Nat /\ n2 \in Nat /\ g \in Nat
    BY <1>2
  <2> HIDE DEF n, n2, g, o, o2, v, d, d2
  <2>7. v \in Nat /\ d \in Nat /\ d2 = d + g /\ o \in Nat /\ o2 = o + g
    BY <2>1, <2>2, <2>4 DEF v, d, d2, o, o2, g
  <2>8. inserted = n + v + d + expiries /\ announced + o = v + d
    BY <2>5 DEF n, v, d, o
  <2>9. inserted = n2 + v + d2 + expiries /\ announced + o2 = v + d2
    BY <2>1, <2>6, <2>7, <2>8
  <2> QED BY <1>1, <2>2, <2>5, <2>9 DEF Balanced, n2, v, d2, o2
<1>10. Keyed(store') /\ Len(store') <= CacheSize
  BY <1>0, <1>1, <1>2, CacheSetting
<1> QED BY <1>6, <1>8, <1>9, <1>10 DEF CacheInv

(* A signal is emitted.                                                    *)
LEMMA EmitSignalStep ==
    ASSUME CacheInv, NEW t \in CacheThreads, EmitSignal(t)
    PROVE  CacheInv'
<1>0. CacheTypes /\ Keyed(store) /\ Len(store) <= CacheSize /\ AllFresh /\ Balanced
  BY DEF CacheInv
<1> DEFINE left == cacheCall[t].left
           call == IF left > 1 THEN [at |-> "emit", left |-> left - 1] ELSE Idle
<1>1. /\ cacheCall[t].at = "emit" /\ announced' = announced + 1
      /\ cacheCall' = [cacheCall EXCEPT ![t] = call]
      /\ UNCHANGED <<store, version, counts, expiries, inserted, lookups, staleRace>>
  BY DEF EmitSignal
<1>2. left \in Nat \ {0}
  BY <1>0, <1>1, CacheCallKinds
<1> HIDE DEF left
<1>3. /\ call \in CacheCalls /\ call.at \in {"emit", "idle"}
      /\ IF call.at = "emit" THEN call.left = left - 1 ELSE left = 1
  BY <1>2 DEF CacheCalls, Idle
<1> HIDE DEF call
<1>4. CacheTypes'
  <2>1. cacheCall' \in [CacheThreads -> CacheCalls]
    BY <1>0, <1>1, <1>3 DEF CacheTypes
  <2>2. announced' \in Nat
    BY <1>0, <1>1 DEF CacheTypes
  <2> QED BY <1>0, <1>1, <2>1, <2>2 DEF CacheTypes
<1>5. /\ cacheCall'[t] = call /\ \A u \in CacheThreads : u # t => cacheCall'[u] = cacheCall[u]
      /\ \E n \in Nat : /\ Cardinality(SignalsOwed) = n + SignalsLeft(t)
                        /\ Cardinality(SignalsOwed') = n + SignalsLeft(t)'
  BY <1>0, <1>1, <1>4, OwedChanges
<1>6. AllFresh'
  <2>1. \A x, v : Fresh(x, v) => Fresh(x, v)'
    BY <1>0, <1>1, FreshKept
  <2>2. \A e \in ToSet(store') : Fresh(e.key, e.version)'
    BY <1>0, <1>1, <2>1 DEF AllFresh
  <2>3. \A u \in CacheThreads : cacheCall'[u].at = "put" => cacheCall'[u] = cacheCall[u]
    BY <1>3, <1>5
  <2> QED BY <1>0, <1>1, <2>1, <2>2, <2>3 DEF AllFresh
<1>7. Balanced'
  <2>1. SignalsLeft(t) = left /\ SignalsLeft(t)' = left - 1
    BY <1>1, <1>3, <1>5 DEF SignalsLeft, left
  <2>2. /\ Cardinality(SignalsOwed') \in Nat /\ announced \in Nat
        /\ Cardinality(SignalsOwed) = Cardinality(SignalsOwed') + 1
    BY <1>0, <1>2, <1>5, <2>1, CountsParts
  <2>3. announced' + Cardinality(SignalsOwed') = announced + Cardinality(SignalsOwed)
    BY <1>1, <2>2
  <2> QED BY <1>0, <1>1, <2>3 DEF Balanced
<1>8. Keyed(store') /\ Len(store') <= CacheSize
  BY <1>0, <1>1
<1> QED BY <1>4, <1>6, <1>7, <1>8 DEF CacheInv

(* contains() removes an entry that has expired.                           *)
LEMMA CheckContainsStep ==
    ASSUME CacheInv, NEW t \in CacheThreads, NEW k \in CacheKeys, CheckContains(t, k)
    PROVE  CacheInv'
<1>0. CacheTypes /\ Keyed(store) /\ Len(store) <= CacheSize /\ AllFresh /\ Balanced
  BY DEF CacheInv
<1> DEFINE w == StoreWithout({k})
<1>1. /\ k \in KeysOf(store) /\ store' = w /\ expiries' = expiries + 1
      /\ UNCHANGED <<version, cacheCall, counts, inserted, announced, lookups, staleRace>>
  BY DEF CheckContains
<1>2. /\ w \in Seq(Entry) /\ Keyed(w) /\ ToSet(w) \subseteq ToSet(store)
      /\ Len(w) \in Nat /\ Len(store) \in Nat /\ Len(w) = Len(store) - 1
  BY <1>1, StoreWithoutParts, StoreWithoutKey
<1> HIDE DEF w
<1>3. CacheTypes'
  <2>1. expiries' \in Nat
    BY <1>0, <1>1 DEF CacheTypes
  <2> QED BY <1>0, <1>1, <1>2, <2>1 DEF CacheTypes
<1>4. AllFresh'
  BY <1>0, <1>1, <1>2 DEF AllFresh, Fresh
<1>5. Balanced'
  <2>1. SignalsOwed' = SignalsOwed
    BY <1>1 DEF SignalsOwed, SignalsOf
  <2> DEFINE n == Len(store)  n2 == Len(w)  v == counts.evictions  d == counts.invalidations
  <2>2. v \in Nat /\ d \in Nat /\ n = n2 + 1 /\ n \in Nat /\ n2 \in Nat /\ expiries \in Nat
    BY <1>0, <1>2, CountsParts
  <2>3. inserted = n + v + d + expiries
    BY <1>0 DEF Balanced
  <2> HIDE DEF n, n2, v, d
  <2>4. inserted' = n2 + v + d + expiries'
    BY <1>1, <2>2, <2>3
  <2> QED BY <1>0, <1>1, <2>1, <2>4 DEF Balanced, n2, v, d
<1>6. Keyed(store') /\ Len(store') <= CacheSize
  BY <1>0, <1>1, <1>2, CacheSetting
<1> QED BY <1>3, <1>4, <1>5, <1>6 DEF CacheInv

(* An entry expires.                                                       *)
LEMMA ExpireStep ==
    ASSUME CacheInv, NEW k \in CacheKeys, Expire(k)
    PROVE  CacheInv'
<1>0. CacheTypes /\ Keyed(store) /\ Len(store) <= CacheSize /\ AllFresh /\ Balanced
  BY DEF CacheInv
<1> DEFINE i == EntryOf(k)
<1>1. /\ k \in KeysOf(store) /\ store' = [store EXCEPT ![i].expired = TRUE]
      /\ UNCHANGED <<version, cacheCall, counts, expiries, inserted, announced, lookups, staleRace>>
  BY DEF Expire
<1>2. i \in DOMAIN store
  BY <1>1, StoreWithoutKey
<1> HIDE DEF i
<1>3. store \in Seq(Entry) /\ DOMAIN store = 1 .. Len(store) /\ Len(store) \in Nat
      /\ \A j \in 1 .. Len(store) : store[j] \in Entry
  BY <1>0 DEF CacheTypes
<1>4. /\ DOMAIN store' = 1 .. Len(store)
      /\ \A j \in 1 .. Len(store) : /\ store'[j] \in Entry /\ store'[j].key = store[j].key
                                   /\ store'[j].version = store[j].version
  BY <1>1, <1>2, <1>3 DEF Entry
<1>5. store' \in Seq(Entry) /\ Len(store') = Len(store)
  <2>1. store' \in [1 .. Len(store) -> Entry]
    BY <1>1, <1>3, <1>4
  <2> QED BY <1>3, <2>1
<1>6. Keyed(store')
  <2>1. ASSUME NEW a \in 1 .. Len(store), NEW b \in 1 .. Len(store), store'[a].key = store'[b].key
        PROVE  a = b
    <3>1. store[a].key = store[b].key
      BY <1>4, <2>1
    <3>2. store[a] \in ToSet(store) /\ store[b] \in ToSet(store)
      BY <1>3 DEF ToSet
    <3>3. store[a] = store[b]
      BY <1>0, <3>1, <3>2 DEF Keyed
    <3> QED BY <1>0, <1>3, <3>3 DEF Keyed, IsInjective
  <2>2. IsInjective(store')
    BY <1>4, <2>1 DEF IsInjective
  <2>3. \A x, y \in ToSet(store') : x.key = y.key => x = y
    BY <1>4, <2>1 DEF ToSet
  <2> QED BY <2>2, <2>3 DEF Keyed
<1>7. CacheTypes'
  BY <1>0, <1>1, <1>5 DEF CacheTypes
<1>8. AllFresh'
  <2>1. \A j \in 1 .. Len(store) : Fresh(store[j].key, store[j].version)
    BY <1>0, <1>3 DEF AllFresh, ToSet
  <2>2. \A x, y : Fresh(x, y) => Fresh(x, y)'
    BY <1>1 DEF Fresh
  <2>3. \A e \in ToSet(store') : Fresh(e.key, e.version)'
    BY <1>4, <2>1, <2>2 DEF ToSet
  <2> QED BY <1>0, <1>1, <2>2, <2>3 DEF AllFresh
<1>9. SignalsOwed' = SignalsOwed
  BY <1>1 DEF SignalsOwed, SignalsOf
<1>10. Balanced'
  BY <1>0, <1>1, <1>5, <1>9 DEF Balanced
<1> QED BY <1>0, <1>5, <1>6, <1>7, <1>8, <1>10 DEF CacheInv

(* The steps of other components.                                          *)
LEMMA CacheStays ==
    ASSUME CacheInv, UNCHANGED cacheVars
    PROVE  CacheInv'
  BY DEF CacheInv, CacheTypes, AllFresh, Fresh, Balanced, SignalsOwed, SignalsOf, cacheVars

LEMMA CacheNextInv ==
    ASSUME CacheInv, CacheNext
    PROVE  CacheInv'
<1>1. ASSUME NEW t \in CacheThreads, NEW k \in CacheKeys, GetOrLoad(t, k)
      PROVE  CacheInv'
  BY <1>1, HitStep, MissStep
<1>2. ASSUME NEW t \in CacheThreads, NEW k \in CacheKeys, CheckContains(t, k) \/ ChangeSource(t, {k})
      PROVE  CacheInv'
  <2>1. {k} \in SUBSET CacheKeys
    OBVIOUS
  <2> QED BY <1>2, <2>1, CheckContainsStep, ChangeSourceStep
<1>3. ASSUME NEW t \in CacheThreads,
             Load(t) \/ Put(t) \/ ChangeSource(t, CacheKeys) \/ Invalidate(t) \/ EmitSignal(t)
      PROVE  CacheInv'
  <2>1. CacheKeys \in SUBSET CacheKeys
    OBVIOUS
  <2> QED BY <1>3, <2>1, LoadStep, PutStep, ChangeSourceStep, InvalidateStep, EmitSignalStep
<1>4. ASSUME NEW k \in CacheKeys, Expire(k)
      PROVE  CacheInv'
  BY <1>4, ExpireStep
<1> QED BY <1>1, <1>2, <1>3, <1>4 DEF CacheNext

-----------------------------------------------------------------------------
(* The object pool.                                                        *)

(* What a thread has in its hands: what it acquired, and what it is about  *)
(* to give back.                                                           *)
Hands(t) == held[t] \cup IF poolCall[t].at = "release" THEN {poolCall[t].object} ELSE {}

(* The types; the objects are numbered as they were made.                  *)
PoolTypes ==
    /\ made \in Nat /\ acquired \in Nat
    /\ pool \in Seq(Nat) /\ dropped \in SUBSET Nat
    /\ held \in [CacheThreads -> SUBSET Nat]
    /\ poolCall \in [CacheThreads -> {Idle} \cup [at : {"miss"}] \cup [at : {"make"}, misses : Nat]
                                     \cup [at : {"release"}, object : Nat] \cup [at : {"fill"}, left : Nat]]
    /\ poolCounts \in [hits : Nat, misses : Nat, discards : Nat]

(* Everything that was made is somewhere, and nothing in two places.       *)
Apart ==
    /\ IsInjective(pool)
    /\ \A o : o \in 1 .. made <=> o \in ToSet(pool) \/ o \in dropped \/ \E t \in CacheThreads : o \in Hands(t)
    /\ ToSet(pool) \cap dropped = {}
    /\ \A t \in CacheThreads :
          /\ Hands(t) \cap (ToSet(pool) \cup dropped) = {}
          /\ \A u \in CacheThreads : t # u => Hands(t) \cap Hands(u) = {}
          /\ poolCall[t].at = "release" => poolCall[t].object \notin held[t]

(* No thread will write a count of misses greater than those of the calls. *)
PoolCounted ==
    /\ poolCounts.hits + poolCounts.misses + Cardinality(AboutToMiss) <= acquired
    /\ \A t \in CacheThreads : poolCall[t].at = "make" =>
          poolCounts.hits + poolCall[t].misses + Cardinality(AboutToMiss) <= acquired
    /\ poolCounts.discards <= Cardinality(dropped)

PoolInv == PoolTypes /\ Apart /\ PoolCounted /\ Len(pool) <= PoolSize

(* The kinds of call.                                                      *)
LEMMA PoolCallKinds ==
    ASSUME PoolTypes, NEW t \in CacheThreads
    PROVE  /\ poolCall[t].at = "make" => poolCall[t].misses \in Nat
           /\ poolCall[t].at = "release" => poolCall[t].object \in Nat
           /\ poolCall[t].at = "fill" => poolCall[t].left \in Nat
           /\ poolCall[t].at \in {"idle", "miss", "make", "release", "fill"}
<1>1. poolCall[t] \in {Idle} \cup [at : {"miss"}] \cup [at : {"make"}, misses : Nat]
                      \cup [at : {"release"}, object : Nat] \cup [at : {"fill"}, left : Nat]
  BY DEF PoolTypes
<1> QED BY <1>1 DEF Idle

(* An object is in one place only.                                         *)
LEMMA OnePlace ==
    ASSUME PoolInv, NEW o \in 1 .. made
    PROVE  \E p \in PlacesOf(o) : PlacesOf(o) = {p}
<1> USE DEF PoolInv
<1> DEFINE inPool     == {<<"pool", i>> : i \in {j \in DOMAIN pool : pool[j] = o}}
           inHand     == {<<"held", t>> : t \in {u \in CacheThreads : o \in held[u]}}
           onTheWay   == {<<"released", t>> : t \in {u \in Releasing : poolCall[u].object = o}}
           thrownAway == {<<"dropped", d>> : d \in dropped \cap {o}}
<1>1. PlacesOf(o) = inPool \cup inHand \cup onTheWay \cup thrownAway
  BY DEF PlacesOf
<1>2. \A t \in CacheThreads : o \in Hands(t) <=>
         o \in held[t] \/ (t \in Releasing /\ poolCall[t].object = o)
  BY DEF Hands, Releasing
<1>3. o \in ToSet(pool) \/ o \in dropped \/ \E t \in CacheThreads : o \in Hands(t)
  BY DEF Apart
<1>4. CASE o \in ToSet(pool)
  <2>1. PICK i \in DOMAIN pool : pool[i] = o
    BY <1>4 DEF ToSet
  <2>2. inPool = {<<"pool", i>>}
    BY <2>1 DEF Apart, IsInjective
  <2>3. inHand = {} /\ onTheWay = {} /\ thrownAway = {}
    <3>1. o \notin dropped /\ \A t \in CacheThreads : o \notin Hands(t)
      BY <1>4 DEF Apart
    <3>2. thrownAway = {}
      BY <3>1
    <3>3. inHand = {} /\ onTheWay = {}
      BY <1>2, <3>1 DEF Releasing
    <3> QED BY <3>2, <3>3
  <2> QED BY <1>1, <2>2, <2>3
<1>5. CASE o \in dropped
  <2>1. thrownAway = {<<"dropped", o>>}
    BY <1>5
  <2>2. o \notin ToSet(pool) /\ \A t \in CacheThreads : o \notin Hands(t)
    BY <1>5 DEF Apart
  <2>3. inHand = {} /\ onTheWay = {}
    BY <1>2, <2>2 DEF Releasing
  <2>4. inPool = {}
    BY <2>2 DEF ToSet
  <2> QED BY <1>1, <2>1, <2>3, <2>4
<1>6. CASE \E t \in CacheThreads : o \in Hands(t)
  <2>1. PICK t \in CacheThreads : o \in Hands(t)
    BY <1>6
  <2>2. \A u \in CacheThreads : o \in Hands(u) => u = t
    BY <2>1 DEF Apart
  <2>3. o \notin ToSet(pool) /\ o \notin dropped
    BY <2>1 DEF Apart
  <2>4. inPool = {} /\ thrownAway = {}
    BY <2>3 DEF ToSet
  <2>5. CASE o \in held[t]
    <3>1. inHand = {<<"held", t>>}
      BY <1>2, <2>2, <2>5
    <3>2. onTheWay = {}
      BY <1>2, <2>2, <2>5 DEF Releasing, Apart
    <3> QED BY <1>1, <2>4, <3>1, <3>2
  <2>6. CASE o \notin held[t]
    <3>1. t \in Releasing /\ poolCall[t].object = o
      BY <1>2, <2>1, <2>6
    <3>2. onTheWay = {<<"released", t>>}
      BY <1>2, <2>2, <3>1 DEF Releasing
    <3>3. inHand = {}
      BY <1>2, <2>2, <2>6
    <3> QED BY <1>1, <2>4, <3>2, <3>3
  <2> QED BY <2>5, <2>6
<1> QED BY <1>3, <1>4, <1>5, <1>6

LEMMA PoolIsSafe ==
    ASSUME PoolInv
    PROVE  PoolSafe
  BY OnePlace DEF PoolInv, PoolCounted, PoolSafe

LEMMA PoolInitInv ==
    ASSUME PoolInit
    PROVE  PoolInv
<1> USE DEF PoolInit
<1>1. PoolTypes
  BY DEF PoolTypes
<1>2. Apart
  BY DEF Apart, Hands, Idle, IsInjective, ToSet
<1>3. AboutToMiss = {}
  BY DEF AboutToMiss, Idle
<1>4. PoolCounted
  BY <1>3, FS_EmptySet DEF PoolCounted, Idle
<1>5. Len(pool) <= PoolSize
  BY CacheSetting
<1> QED BY <1>1, <1>2, <1>4, <1>5 DEF PoolInv

(* The threads that have found the pool empty.                             *)
LEMMA AboutToMissParts ==
    /\ IsFiniteSet(AboutToMiss) /\ Cardinality(AboutToMiss) \in Nat
    /\ \A t : /\ IsFiniteSet(AboutToMiss \cup {t}) /\ IsFiniteSet(AboutToMiss \ {t})
              /\ t \notin AboutToMiss => Cardinality(AboutToMiss \cup {t}) = Cardinality(AboutToMiss) + 1
              /\ t \in AboutToMiss => Cardinality(AboutToMiss \ {t}) = Cardinality(AboutToMiss) - 1
<1>1. IsFiniteSet(AboutToMiss)
  <2>1. AboutToMiss \in SUBSET CacheThreads
    BY DEF AboutToMiss
  <2> QED BY <2>1, CacheSetting, FS_Subset
<1> QED BY <1>1, FS_CardinalityType, FS_AddElement, FS_RemoveElement

LEMMA DroppedParts ==
    ASSUME PoolInv
    PROVE  IsFiniteSet(dropped) /\ Cardinality(dropped) \in Nat
<1>1. dropped \in SUBSET (1 .. made)
  BY DEF PoolInv, Apart
<1>2. IsFiniteSet(1 .. made)
  BY FS_Interval DEF PoolInv, PoolTypes
<1> QED BY <1>1, <1>2, FS_Subset, FS_CardinalityType

(* acquire()                                                               *)
LEMMA AcquireStep ==
    ASSUME PoolInv, NEW t \in CacheThreads, Acquire(t)
    PROVE  PoolInv'
<1> USE DEF PoolInv
<1>1. /\ poolCall[t] = Idle /\ acquired' = acquired + 1 /\ UNCHANGED <<made, dropped>>
  BY DEF Acquire
<1>2. CASE pool # <<>>
  <2>1. /\ pool' = Front(pool)
        /\ held' = [held EXCEPT ![t] = @ \cup {Last(pool)}]
        /\ poolCounts' = [poolCounts EXCEPT !.hits = @ + 1]
        /\ UNCHANGED poolCall
    BY <1>2 DEF Acquire
  <2> DEFINE z == Last(pool)
  <2>2. /\ pool' \in Seq(Nat) /\ IsInjective(pool') /\ Len(pool') = Len(pool) - 1
        /\ z \in ToSet(pool) /\ ToSet(pool') = ToSet(pool) \ {z} /\ z \in Nat
    BY <1>2, <2>1, DistinctFront, FrontParts DEF PoolTypes, Apart
  <2> HIDE DEF z
  <2>3. PoolTypes'
    <3>1. held' \in [CacheThreads -> SUBSET Nat]
      BY <2>1, <2>2 DEF PoolTypes, z
    <3>2. poolCounts' \in [hits : Nat, misses : Nat, discards : Nat]
      BY <2>1 DEF PoolTypes
    <3>3. acquired' \in Nat
      BY <1>1 DEF PoolTypes
    <3> QED BY <1>1, <2>1, <2>2, <3>1, <3>2, <3>3 DEF PoolTypes
  <2>4. /\ held'[t] = held[t] \cup {z} /\ Hands(t)' = Hands(t) \cup {z}
        /\ \A u \in CacheThreads : u # t => held'[u] = held[u] /\ Hands(u)' = Hands(u)
    BY <1>1, <2>1 DEF PoolTypes, Hands, Idle, z
  <2>5. Apart'
    <3>1. poolCall[t].at # "release"
      BY <1>1 DEF Idle
    <3>2. z \in 1 .. made /\ z \notin dropped /\ \A u \in CacheThreads : z \notin Hands(u)
      BY <2>2 DEF Apart
    <3>3. \A o : o \in 1 .. made' <=> o \in ToSet(pool') \/ o \in dropped' \/ \E u \in CacheThreads : o \in Hands(u)'
      BY <1>1, <2>2, <2>4, <3>2 DEF Apart
    <3>4. \A u \in CacheThreads :
             /\ Hands(u)' \cap (ToSet(pool') \cup dropped') = {}
             /\ \A v \in CacheThreads : u # v => Hands(u)' \cap Hands(v)' = {}
             /\ poolCall'[u].at = "release" => poolCall'[u].object \notin held'[u]
      BY <1>1, <2>1, <2>2, <2>4, <3>1, <3>2 DEF Apart
    <3> QED BY <1>1, <2>2, <3>3, <3>4 DEF Apart
  <2>6. PoolCounted'
    <3>1. AboutToMiss' = AboutToMiss /\ Cardinality(AboutToMiss) \in Nat
      BY <2>1, AboutToMissParts DEF AboutToMiss
    <3>2. poolCounts'.hits = poolCounts.hits + 1 /\ poolCounts'.misses = poolCounts.misses
          /\ poolCounts'.discards = poolCounts.discards
          /\ poolCounts.hits \in Nat /\ poolCounts.misses \in Nat /\ acquired \in Nat
      BY <2>1 DEF PoolTypes
    <3>3. \A u \in CacheThreads : poolCall[u].at = "make" => poolCall[u].misses \in Nat
      BY PoolCallKinds
    <3> QED BY <1>1, <2>1, <3>1, <3>2, <3>3, SMTT(30) DEF PoolCounted
  <2>7. Len(pool') <= PoolSize
    BY <2>2, CacheSetting DEF PoolTypes
  <2> QED BY <2>3, <2>5, <2>6, <2>7
<1>3. CASE pool = <<>>
  <2>1. /\ poolCall' = [poolCall EXCEPT ![t] = [at |-> "miss"]]
        /\ UNCHANGED <<pool, held, poolCounts>>
    BY <1>3 DEF Acquire
  <2>2. /\ poolCall'[t] = [at |-> "miss"] /\ \A u \in CacheThreads : u # t => poolCall'[u] = poolCall[u]
    BY <2>1 DEF PoolTypes
  <2>3. PoolTypes'
    BY <1>1, <2>1 DEF PoolTypes
  <2>4. \A u \in CacheThreads : Hands(u)' = Hands(u)
    BY <1>1, <2>1, <2>2 DEF Hands, Idle
  <2>5. Apart'
    BY <1>1, <2>1, <2>2, <2>4 DEF Apart
  <2>6. PoolCounted'
    <3>1. AboutToMiss' = AboutToMiss \cup {t} /\ t \notin AboutToMiss
      BY <1>1, <2>2 DEF AboutToMiss, Idle
    <3>2. Cardinality(AboutToMiss') = Cardinality(AboutToMiss) + 1 /\ Cardinality(AboutToMiss) \in Nat
      BY <3>1, AboutToMissParts
    <3>3. poolCounts.hits \in Nat /\ poolCounts.misses \in Nat /\ acquired \in Nat
      BY DEF PoolTypes
    <3>4. \A u \in CacheThreads : poolCall[u].at = "make" => poolCall[u].misses \in Nat
      BY PoolCallKinds
    <3> QED BY <1>1, <2>1, <2>2, <3>2, <3>3, <3>4, SMTT(30) DEF PoolCounted
  <2> QED BY <2>1, <2>3, <2>5, <2>6
<1> QED BY <1>2, <1>3

(* The count of the misses is read.                                        *)
LEMMA ReadMissesStep ==
    ASSUME PoolInv, NEW t \in CacheThreads, ReadMisses(t)
    PROVE  PoolInv'
<1> USE DEF PoolInv
<1>1. /\ poolCall[t].at = "miss" /\ UNCHANGED <<pool, held, made, dropped, poolCounts, acquired>>
      /\ poolCall' = [poolCall EXCEPT ![t] = [at |-> "make", misses |-> poolCounts.misses]]
  BY DEF ReadMisses
<1>2. /\ poolCall'[t] = [at |-> "make", misses |-> poolCounts.misses]
      /\ \A u \in CacheThreads : u # t => poolCall'[u] = poolCall[u]
  BY <1>1 DEF PoolTypes
<1>3. PoolTypes'
  BY <1>1 DEF PoolTypes
<1>4. \A u \in CacheThreads : Hands(u)' = Hands(u)
  BY <1>1, <1>2 DEF Hands
<1>5. Apart'
  BY <1>1, <1>2, <1>4 DEF Apart
<1>6. AboutToMiss' = AboutToMiss
  BY <1>1, <1>2 DEF AboutToMiss
<1>7. PoolCounted'
  BY <1>1, <1>2, <1>6 DEF PoolCounted
<1> QED BY <1>1, <1>3, <1>5, <1>7

(* The object is made, and the count written.                              *)
LEMMA MakeObjectStep ==
    ASSUME PoolInv, NEW t \in CacheThreads, MakeObject(t)
    PROVE  PoolInv'
<1> USE DEF PoolInv
<1>1. /\ poolCall[t].at = "make" /\ UNCHANGED <<pool, dropped, acquired>>
      /\ poolCounts' = [poolCounts EXCEPT !.misses = poolCall[t].misses + 1]
      /\ made' = made + 1
      /\ held' = [held EXCEPT ![t] = @ \cup {made + 1}]
      /\ poolCall' = [poolCall EXCEPT ![t] = Idle]
  BY DEF MakeObject
<1>2. /\ poolCall'[t] = Idle /\ \A u \in CacheThreads : u # t => poolCall'[u] = poolCall[u]
  BY <1>1 DEF PoolTypes
<1>3. poolCall[t].misses \in Nat
  BY <1>1, PoolCallKinds
<1>4. PoolTypes'
  BY <1>1, <1>3, SMTT(30) DEF PoolTypes
<1>5. /\ Hands(t)' = Hands(t) \cup {made + 1}
      /\ \A u \in CacheThreads : u # t => held'[u] = held[u] /\ Hands(u)' = Hands(u)
  BY <1>1, <1>2 DEF Hands, Idle, PoolTypes
<1>6. Apart'
  <2>1. \A o : o \in 1 .. made' <=> o \in 1 .. made \/ o = made + 1
    BY <1>1 DEF PoolTypes
  <2>2. /\ made + 1 \notin ToSet(pool) /\ made + 1 \notin dropped
        /\ \A u \in CacheThreads : made + 1 \notin Hands(u)
    <3>1. made + 1 \notin 1 .. made
      BY DEF PoolTypes
    <3> QED BY <3>1 DEF Apart
  <2>3. \A o : o \in 1 .. made' <=> o \in ToSet(pool') \/ o \in dropped' \/ \E u \in CacheThreads : o \in Hands(u)'
    BY <1>1, <1>5, <2>1 DEF Apart
  <2>4. \A u \in CacheThreads :
           /\ Hands(u)' \cap (ToSet(pool') \cup dropped') = {}
           /\ \A v \in CacheThreads : u # v => Hands(u)' \cap Hands(v)' = {}
           /\ poolCall'[u].at = "release" => poolCall'[u].object \notin held'[u]
    BY <1>1, <1>2, <1>5, <2>2 DEF Apart, Idle
  <2> QED BY <1>1, <2>3, <2>4 DEF Apart
<1>7. PoolCounted'
  <2>1. AboutToMiss' = AboutToMiss \ {t} /\ t \in AboutToMiss
    BY <1>1, <1>2 DEF AboutToMiss, Idle
  <2>2. Cardinality(AboutToMiss') = Cardinality(AboutToMiss) - 1 /\ Cardinality(AboutToMiss) \in Nat
    BY <2>1, AboutToMissParts
  <2>3. /\ poolCounts.hits \in Nat /\ poolCounts.misses \in Nat /\ acquired \in Nat
        /\ poolCounts'.hits = poolCounts.hits /\ poolCounts'.misses = poolCall[t].misses + 1
        /\ poolCounts'.discards = poolCounts.discards
    BY <1>1 DEF PoolTypes
  <2>4. \A u \in CacheThreads : poolCall[u].at = "make" => poolCall[u].misses \in Nat
    BY PoolCallKinds
  <2>5. \A u \in CacheThreads : poolCall[u].at = "make" =>
           poolCounts.hits + poolCall[u].misses + Cardinality(AboutToMiss) <= acquired
    BY DEF PoolCounted
  <2>6. poolCounts'.hits + poolCounts'.misses + Cardinality(AboutToMiss') <= acquired'
    BY <1>1, <2>2, <2>3, <2>4, <2>5, SMTT(30)
  <2>7. \A u \in CacheThreads : poolCall'[u].at = "make" =>
           poolCounts'.hits + poolCall'[u].misses + Cardinality(AboutToMiss') <= acquired'
    <3> SUFFICES ASSUME NEW u \in CacheThreads, poolCall'[u].at = "make"
                 PROVE  poolCounts'.hits + poolCall'[u].misses + Cardinality(AboutToMiss') <= acquired'
      OBVIOUS
    <3>1. u # t /\ poolCall'[u] = poolCall[u]
      BY <1>2 DEF Idle
    <3> QED BY <1>1, <2>2, <2>3, <2>4, <2>5, <3>1, SMTT(30)
  <2>8. poolCounts'.discards <= Cardinality(dropped')
    BY <1>1, <2>3 DEF PoolCounted
  <2> QED BY <2>6, <2>7, <2>8 DEF PoolCounted
<1> QED BY <1>1, <1>4, <1>6, <1>7

(* What comes back is in the pool, which keeps to its size, or dropped.    *)
LEMMA BackInPlace ==
    ASSUME PoolInv, NEW o \in Nat, o \notin ToSet(pool), o \notin dropped, TakeBack(o)
    PROVE  /\ pool' \in Seq(Nat) /\ dropped' \in SUBSET Nat
           /\ poolCounts' \in [hits : Nat, misses : Nat, discards : Nat]
           /\ IsInjective(pool') /\ Len(pool') <= PoolSize
           /\ ToSet(pool') \cap dropped' = {}
           /\ \A x : x \in ToSet(pool') \/ x \in dropped' <=> x \in ToSet(pool) \/ x \in dropped \/ x = o
           /\ poolCounts'.hits = poolCounts.hits /\ poolCounts'.misses = poolCounts.misses
           /\ poolCounts'.discards <= Cardinality(dropped')
<1> USE DEF PoolInv
<1>1. /\ pool \in Seq(Nat) /\ Len(pool) \in Nat /\ IsInjective(pool) /\ ToSet(pool) \cap dropped = {}
      /\ dropped \in SUBSET Nat /\ poolCounts \in [hits : Nat, misses : Nat, discards : Nat]
  BY DEF PoolTypes, Apart
<1>2. CASE Len(pool) < PoolSize
  <2>1. pool' = Append(pool, o) /\ UNCHANGED <<dropped, poolCounts>>
    BY <1>2 DEF TakeBack
  <2>2. pool' \in Seq(Nat) /\ IsInjective(pool') /\ ToSet(pool') = ToSet(pool) \cup {o}
    BY <1>1, <2>1, DistinctWith
  <2>3. Len(pool') = Len(pool) + 1
    BY <1>1, <2>1
  <2>4. Len(pool') <= PoolSize
    BY <1>1, <1>2, <2>3, CacheSetting
  <2> QED BY <1>1, <2>1, <2>2, <2>4 DEF PoolCounted
<1>3. CASE ~(Len(pool) < PoolSize)
  <2>1. /\ dropped' = dropped \cup {o} /\ UNCHANGED pool
        /\ poolCounts' = [poolCounts EXCEPT !.discards = @ + 1]
    BY <1>3 DEF TakeBack
  <2>2. /\ poolCounts' \in [hits : Nat, misses : Nat, discards : Nat]
        /\ poolCounts'.hits = poolCounts.hits /\ poolCounts'.misses = poolCounts.misses
        /\ poolCounts'.discards = poolCounts.discards + 1 /\ poolCounts.discards \in Nat
    BY <1>1, <2>1
  <2>3. Cardinality(dropped') = Cardinality(dropped) + 1 /\ Cardinality(dropped) \in Nat
    BY <2>1, DroppedParts, FS_AddElement
  <2>4. poolCounts'.discards <= Cardinality(dropped')
    BY <2>2, <2>3 DEF PoolCounted
  <2> QED BY <1>1, <2>1, <2>2, <2>4
<1> QED BY <1>2, <1>3

(* release(): the object is reset.                                         *)
LEMMA BeginReleaseStep ==
    ASSUME PoolInv, NEW t \in CacheThreads, NEW o \in held[t], BeginRelease(t, o)
    PROVE  PoolInv'
<1> USE DEF PoolInv
<1>1. /\ poolCall[t] = Idle /\ UNCHANGED <<pool, made, dropped, poolCounts, acquired>>
      /\ held' = [held EXCEPT ![t] = @ \ {o}]
      /\ poolCall' = [poolCall EXCEPT ![t] = [at |-> "release", object |-> o]]
  BY DEF BeginRelease
<1>2. o \in Nat
  BY DEF PoolTypes
<1>3. /\ poolCall'[t] = [at |-> "release", object |-> o]
      /\ \A u \in CacheThreads : u # t => poolCall'[u] = poolCall[u]
      /\ held'[t] = held[t] \ {o}
      /\ \A u \in CacheThreads : u # t => held'[u] = held[u]
  BY <1>1 DEF PoolTypes
<1>4. PoolTypes'
  BY <1>1, <1>2 DEF PoolTypes
<1>5. \A u \in CacheThreads : Hands(u)' = Hands(u)
  BY <1>1, <1>3 DEF Hands, Idle
<1>6. Apart'
  BY <1>1, <1>3, <1>5 DEF Apart
<1>7. AboutToMiss' = AboutToMiss
  BY <1>1, <1>3 DEF AboutToMiss, Idle
<1>8. PoolCounted'
  BY <1>1, <1>3, <1>7 DEF PoolCounted
<1> QED BY <1>1, <1>4, <1>6, <1>8

(* release(): the object is taken back.                                    *)
LEMMA EndReleaseStep ==
    ASSUME PoolInv, NEW t \in CacheThreads, EndRelease(t)
    PROVE  PoolInv'
<1> USE DEF PoolInv
<1> DEFINE o == poolCall[t].object
<1>1. /\ poolCall[t].at = "release" /\ TakeBack(o) /\ UNCHANGED <<held, made, acquired>>
      /\ poolCall' = [poolCall EXCEPT ![t] = Idle]
  BY DEF EndRelease
<1>2. o \in Nat /\ o \in Hands(t) /\ o \notin held[t]
  BY <1>1, PoolCallKinds DEF Hands, Apart
<1> HIDE DEF o
<1>3. /\ pool' \in Seq(Nat) /\ dropped' \in SUBSET Nat
      /\ poolCounts' \in [hits : Nat, misses : Nat, discards : Nat]
      /\ IsInjective(pool') /\ Len(pool') <= PoolSize
      /\ ToSet(pool') \cap dropped' = {}
      /\ \A x : x \in ToSet(pool') \/ x \in dropped' <=> x \in ToSet(pool) \/ x \in dropped \/ x = o
      /\ poolCounts'.hits = poolCounts.hits /\ poolCounts'.misses = poolCounts.misses
      /\ poolCounts'.discards <= Cardinality(dropped')
  <2>1. o \notin ToSet(pool) /\ o \notin dropped
    BY <1>2 DEF Apart
  <2> QED BY <1>1, <1>2, <2>1, BackInPlace
<1>4. /\ poolCall'[t] = Idle /\ \A u \in CacheThreads : u # t => poolCall'[u] = poolCall[u]
  BY <1>1 DEF PoolTypes
<1>5. PoolTypes'
  BY <1>1, <1>3 DEF PoolTypes
<1>6. Hands(t)' = Hands(t) \ {o} /\ \A u \in CacheThreads : u # t => Hands(u)' = Hands(u)
  BY <1>1, <1>2, <1>4 DEF Hands, Idle, o
<1>7. Apart'
  <2>1. \A u \in CacheThreads : u # t => o \notin Hands(u)
    BY <1>2 DEF Apart
  <2>2. \A x : x \in 1 .. made' <=> x \in ToSet(pool') \/ x \in dropped' \/ \E u \in CacheThreads : x \in Hands(u)'
    BY <1>1, <1>2, <1>3, <1>6, <2>1 DEF Apart
  <2>3. \A u \in CacheThreads :
           /\ Hands(u)' \cap (ToSet(pool') \cup dropped') = {}
           /\ \A v \in CacheThreads : u # v => Hands(u)' \cap Hands(v)' = {}
           /\ poolCall'[u].at = "release" => poolCall'[u].object \notin held'[u]
    BY <1>1, <1>3, <1>4, <1>6, <2>1 DEF Apart, Idle
  <2> QED BY <1>3, <2>2, <2>3 DEF Apart
<1>8. AboutToMiss' = AboutToMiss
  BY <1>1, <1>4 DEF AboutToMiss, Idle
<1>9. PoolCounted'
  BY <1>1, <1>3, <1>4, <1>8 DEF PoolCounted, Idle
<1> QED BY <1>3, <1>5, <1>7, <1>9

(* preallocate(): how many are needed.                                     *)
LEMMA PreallocateStep ==
    ASSUME PoolInv, NEW t \in CacheThreads, Preallocate(t)
    PROVE  PoolInv'
<1> USE DEF PoolInv
<1>1. /\ poolCall[t] = Idle /\ UNCHANGED <<pool, held, made, dropped, poolCounts, acquired>>
      /\ Len(pool) < PoolSize
      /\ poolCall' = [poolCall EXCEPT ![t] = [at |-> "fill", left |-> PoolSize - Len(pool)]]
  BY DEF Preallocate
<1>2. /\ poolCall'[t] = [at |-> "fill", left |-> PoolSize - Len(pool)]
      /\ \A u \in CacheThreads : u # t => poolCall'[u] = poolCall[u]
  BY <1>1 DEF PoolTypes
<1>3. PoolTypes'
  <2>1. PoolSize - Len(pool) \in Nat
    BY <1>1, CacheSetting DEF PoolTypes
  <2> QED BY <1>1, <2>1 DEF PoolTypes
<1>4. \A u \in CacheThreads : Hands(u)' = Hands(u)
  BY <1>1, <1>2 DEF Hands, Idle
<1>5. Apart'
  BY <1>1, <1>2, <1>4 DEF Apart
<1>6. AboutToMiss' = AboutToMiss
  BY <1>1, <1>2 DEF AboutToMiss, Idle
<1>7. PoolCounted'
  BY <1>1, <1>2, <1>6 DEF PoolCounted
<1> QED BY <1>1, <1>3, <1>5, <1>7

(* preallocate(): one more is made and released.                           *)
LEMMA FillPoolStep ==
    ASSUME PoolInv, NEW t \in CacheThreads, FillPool(t)
    PROVE  PoolInv'
<1> USE DEF PoolInv
<1> DEFINE o == made + 1
           rest == IF poolCall[t].left > 1 THEN [at |-> "fill", left |-> poolCall[t].left - 1] ELSE Idle
<1>1. /\ poolCall[t].at = "fill" /\ TakeBack(o) /\ made' = made + 1 /\ UNCHANGED <<held, acquired>>
      /\ poolCall' = [poolCall EXCEPT ![t] = rest]
  BY DEF FillPool
<1>2. o \in Nat /\ o \notin ToSet(pool) /\ o \notin dropped /\ \A u \in CacheThreads : o \notin Hands(u)
  <2>1. o \notin 1 .. made /\ o \in Nat
    BY DEF PoolTypes
  <2> HIDE DEF o
  <2> QED BY <2>1 DEF Apart
<1>3. rest \in {Idle} \cup [at : {"fill"}, left : Nat]
  <2>1. poolCall[t] \in [at : {"fill"}, left : Nat]
    BY <1>1 DEF PoolTypes, Idle
  <2> QED BY <2>1
<1>4. \A x : x \in 1 .. made' <=> x \in 1 .. made \/ x = o
  BY <1>1 DEF PoolTypes
<1> HIDE DEF o, rest
<1>5. /\ pool' \in Seq(Nat) /\ dropped' \in SUBSET Nat
      /\ poolCounts' \in [hits : Nat, misses : Nat, discards : Nat]
      /\ IsInjective(pool') /\ Len(pool') <= PoolSize
      /\ ToSet(pool') \cap dropped' = {}
      /\ \A x : x \in ToSet(pool') \/ x \in dropped' <=> x \in ToSet(pool) \/ x \in dropped \/ x = o
      /\ poolCounts'.hits = poolCounts.hits /\ poolCounts'.misses = poolCounts.misses
      /\ poolCounts'.discards <= Cardinality(dropped')
  BY <1>1, <1>2, BackInPlace
<1>6. /\ poolCall'[t] = rest /\ \A u \in CacheThreads : u # t => poolCall'[u] = poolCall[u]
      /\ rest.at \in {"idle", "fill"}
  BY <1>1, <1>3 DEF PoolTypes, Idle
<1>7. PoolTypes'
  <2>1. poolCall' \in [CacheThreads -> {Idle} \cup [at : {"miss"}] \cup [at : {"make"}, misses : Nat]
                                     \cup [at : {"release"}, object : Nat] \cup [at : {"fill"}, left : Nat]]
    BY <1>1, <1>3 DEF PoolTypes
  <2>2. made' \in Nat
    BY <1>1 DEF PoolTypes
  <2> QED BY <1>1, <1>5, <2>1, <2>2 DEF PoolTypes
<1>8. \A u \in CacheThreads : Hands(u)' = Hands(u)
  BY <1>1, <1>6 DEF Hands
<1>9. Apart'
  <2>1. \A x : x \in 1 .. made' <=> x \in ToSet(pool') \/ x \in dropped' \/ \E u \in CacheThreads : x \in Hands(u)'
    BY <1>4, <1>5, <1>8 DEF Apart
  <2>2. \A u \in CacheThreads :
           /\ Hands(u)' \cap (ToSet(pool') \cup dropped') = {}
           /\ \A v \in CacheThreads : u # v => Hands(u)' \cap Hands(v)' = {}
           /\ poolCall'[u].at = "release" => poolCall'[u].object \notin held'[u]
    BY <1>1, <1>2, <1>5, <1>6, <1>8 DEF Apart
  <2> QED BY <1>5, <2>1, <2>2 DEF Apart
<1>10. AboutToMiss' = AboutToMiss
  BY <1>1, <1>6 DEF AboutToMiss
<1>11. PoolCounted'
  BY <1>1, <1>5, <1>6, <1>10 DEF PoolCounted
<1> QED BY <1>5, <1>7, <1>9, <1>11

(* clear()                                                                 *)
LEMMA ClearPoolStep ==
    ASSUME PoolInv, ClearPool
    PROVE  PoolInv'
<1> USE DEF PoolInv
<1>1. /\ dropped' = dropped \cup ToSet(pool) /\ pool' = <<>>
      /\ UNCHANGED <<poolCall, held, made, poolCounts, acquired>>
  BY DEF ClearPool
<1>2. ToSet(pool') = {} /\ ToSet(pool) \in SUBSET Nat /\ IsInjective(pool')
  BY <1>1 DEF ToSet, PoolTypes, IsInjective
<1>3. PoolTypes'
  <2>1. pool' \in Seq(Nat)
    BY <1>1
  <2>2. dropped' \in SUBSET Nat
    BY <1>1, <1>2 DEF PoolTypes
  <2> QED BY <1>1, <2>1, <2>2 DEF PoolTypes
<1>4. \A u \in CacheThreads : Hands(u)' = Hands(u)
  BY <1>1 DEF Hands
<1>5. Apart'
  BY <1>1, <1>2, <1>4 DEF Apart
<1>6. PoolCounted'
  <2>1. AboutToMiss' = AboutToMiss
    BY <1>1 DEF AboutToMiss
  <2>2. dropped' \in SUBSET (1 .. made) /\ IsFiniteSet(1 .. made)
    <3>1. dropped' \in SUBSET (1 .. made)
      BY <1>1 DEF Apart
    <3>2. 1 \in Int /\ made \in Int
      BY DEF PoolTypes
    <3> QED BY <3>1, <3>2, FS_Interval
  <2>3. IsFiniteSet(dropped') /\ dropped \in SUBSET dropped'
    BY <1>1, <2>2, FS_Subset
  <2>4. Cardinality(dropped) <= Cardinality(dropped') /\ Cardinality(dropped) \in Nat /\ Cardinality(dropped') \in Nat
    BY <2>3, DroppedParts, FS_Subset, FS_CardinalityType
  <2>5. poolCounts.discards \in Nat
    BY DEF PoolTypes
  <2> QED BY <1>1, <2>1, <2>4, <2>5 DEF PoolCounted
<1>7. Len(pool') <= PoolSize
  BY <1>1, CacheSetting
<1> QED BY <1>3, <1>5, <1>6, <1>7

(* The steps of other components.                                          *)
LEMMA PoolStays ==
    ASSUME PoolInv, UNCHANGED poolVars
    PROVE  PoolInv'
  BY DEF PoolInv, PoolTypes, Apart, PoolCounted, Hands, AboutToMiss, poolVars

LEMMA PoolNextInv ==
    ASSUME PoolInv, PoolNext
    PROVE  PoolInv'
  BY AcquireStep, ReadMissesStep, MakeObjectStep, EndReleaseStep, PreallocateStep, FillPoolStep,
     BeginReleaseStep, ClearPoolStep DEF PoolNext

-----------------------------------------------------------------------------
(* The asynchronous form.                                                  *)

Check == [field : Fields, no : Nat, value : FieldValues, started : BOOLEAN]

FormTypes ==
    /\ fieldValue \in [Fields -> FieldValues] /\ checkNo \in [Fields -> Nat]
    /\ edited \subseteq Fields /\ Awaiting \subseteq Fields /\ DOMAIN slot \subseteq Fields
    /\ threads \subseteq Check
    /\ \A i \in DOMAIN slot : slot[i] \in [no : Nat, refused : BOOLEAN]
    /\ closed \in BOOLEAN /\ anyFlag \in BOOLEAN
    /\ IF step = "" THEN turn = 0
       ELSE turn \in Fields /\ step \in {"collect", "refused", "passed", "debounce", "clear", "start"}

(* No answer is newer than the newest check.                               *)
NoNewerAnswers ==
    /\ \A t \in threads : t.no <= checkNo[t.field]
    /\ \A i \in DOMAIN slot : slot[i].no <= checkNo[i]

(* A field that is not awaiting its check says what is wrong with its      *)
(* value, is being checked, or the refusal is about to be stored.          *)
ErrorsKnown ==
    /\ \A i \in edited : i \notin localError => fieldValue[i] \notin Malformed
    /\ \A i \in edited \ Awaiting :
          \/ fieldValue[i] \notin Taken \/ i \in validating \cup asyncError
          \/ turn = i /\ step = "refused"

(* The newest answers are about the values that the fields have.           *)
AnswersCurrent ==
    /\ \A i \in DOMAIN slot \ Awaiting :
          slot[i].no = checkNo[i] /\ fieldValue[i] \in Taken => slot[i].refused
    /\ \A t \in threads : t.no = checkNo[t.field] /\ t.field \notin Awaiting => t.value = fieldValue[t.field]
    /\ step = "passed" => turn \in Awaiting \/ fieldValue[turn] \notin Taken

Flags ==
    /\ step \in {"clear", "start"} => turn \in validating
    /\ anyFlag = (validating # {})

FormsInv ==
    FormTypes /\ (~closed => NoNewerAnswers /\ ErrorsKnown /\ AnswersCurrent /\ Flags)

LEMMA FieldSetting ==
    /\ 0 \notin Fields /\ \A i \in Fields : 1 \in Fields
    /\ \A i \in Fields : i # Cardinality(Fields) => i + 1 \in Fields
<1> DEFINE n == Cardinality(Fields)
<1>1. n \in Nat /\ Fields = 1 .. n
  BY FormsAssumption DEF FormsAssumption, Numbered
<1> HIDE DEF n
<1>2. \A i \in Fields : i # n => i + 1 \in Fields
  BY <1>1
<1>3. 0 \notin Fields /\ \A i \in Fields : 1 \in Fields
  BY <1>1
<1> QED BY <1>2, <1>3 DEF n

LEMMA FormsIsSafe ==
    ASSUME FormsInv
    PROVE  FormsSafe
<1> SUFFICES ASSUME turn = 0, ~closed
             PROVE  /\ \A i \in edited : Valid(i) => fieldValue[i] \notin Malformed \cup Taken
                    /\ anyFlag = (validating # {})
  BY DEF FormsSafe
<1>1. FormTypes /\ ErrorsKnown /\ Flags
  BY DEF FormsInv
<1>2. \A i \in edited : i # turn
  <2>1. edited \subseteq Fields
    BY <1>1 DEF FormTypes
  <2> QED BY <2>1, FieldSetting
<1> QED BY <1>1, <1>2 DEF ErrorsKnown, Flags, Valid

LEMMA FormsInitInv ==
    ASSUME FormsInit
    PROVE  FormsInv
<1>1. /\ DOMAIN pendingAsync = {} /\ DOMAIN slot = {} /\ threads = {} /\ edited = {}
      /\ closed = FALSE /\ anyFlag = FALSE /\ turn = 0 /\ step = ""
      /\ checkNo = [i \in Fields |-> 0]
  <2>1. DOMAIN <<>> = {}
    OBVIOUS
  <2>2. pendingAsync = <<>> /\ slot = <<>>
    BY DEF FormsInit
  <2>3. DOMAIN pendingAsync = {} /\ DOMAIN slot = {}
    BY <2>1, <2>2
  <2>4. /\ threads = {} /\ edited = {}
        /\ closed = FALSE /\ anyFlag = FALSE /\ turn = 0 /\ step = ""
        /\ checkNo = [i \in Fields |-> 0]
    BY DEF FormsInit
  <2> QED BY <2>3, <2>4
<1>2. PICK v \in FieldValues : fieldValue = [i \in Fields |-> v]
  BY DEF FormsInit
<1>3. FormTypes
  BY <1>1, <1>2 DEF FormTypes, Awaiting
<1>4. validating = {}
  BY DEF FormsInit
<1> QED BY <1>1, <1>3, <1>4 DEF FormsInv, NoNewerAnswers, ErrorsKnown, AnswersCurrent, Flags

LEMMA WithWithout ==
    ASSUME NEW f, NEW x, NEW v
    PROVE  /\ DOMAIN With(f, x, v) = DOMAIN f \cup {x} /\ With(f, x, v)[x] = v
           /\ \A y \in DOMAIN f : y # x => With(f, x, v)[y] = f[y]
           /\ DOMAIN Without(f, x) = DOMAIN f \ {x}
           /\ \A y \in DOMAIN f \ {x} : Without(f, x)[y] = f[y]
  BY DEF With, Without

(* A field is changed.                                                     *)
LEMMA EditStep ==
    ASSUME FormsInv, NEW i \in Fields, NEW v \in FieldValues, Edit(i, v)
    PROVE  FormsInv'
<1>1. /\ fieldValue' = [fieldValue EXCEPT ![i] = v] /\ edited' = edited \cup {i}
      /\ UNCHANGED <<asyncError, validating, anyFlag, checkNo, threads, slot, turn, step, observers, closed>>
  BY DEF Edit, checkVars, turnVars
<1>2. FormTypes
  BY DEF FormsInv
<1>3. CASE closed
  <2>1. UNCHANGED pendingAsync
    BY <1>3 DEF Edit
  <2>2. FormTypes'
    BY <1>1, <1>2, <2>1 DEF FormTypes, Awaiting
  <2> QED BY <1>1, <1>3, <2>2 DEF FormsInv
<1>4. CASE ~closed
  <2>1. /\ localError' = IF v \in Malformed THEN localError \cup {i} ELSE localError \ {i}
        /\ pendingAsync' = With(pendingAsync, i, 0)
    BY <1>4 DEF Edit
  <2>2. Awaiting' = Awaiting \cup {i}
    BY <2>1, WithWithout DEF Awaiting
  <2>3. /\ fieldValue'[i] = v /\ \A j \in Fields : j # i => fieldValue'[j] = fieldValue[j]
        /\ fieldValue' \in [Fields -> FieldValues]
    BY <1>1, <1>2 DEF FormTypes
  <2>4. FormTypes'
    BY <1>1, <1>2, <2>2, <2>3 DEF FormTypes
  <2>5. NoNewerAnswers /\ ErrorsKnown /\ AnswersCurrent /\ Flags
    BY <1>4 DEF FormsInv
  <2>6. NoNewerAnswers'
    BY <1>1, <2>5 DEF NoNewerAnswers
  <2>7. ErrorsKnown'
    BY <1>1, <1>2, <2>1, <2>2, <2>3, <2>5 DEF ErrorsKnown, FormTypes
  <2>8. AnswersCurrent'
    BY <1>1, <1>2, <2>2, <2>3, <2>5 DEF AnswersCurrent, FormTypes, Check
  <2>9. Flags'
    BY <1>1, <2>5 DEF Flags
  <2> QED BY <2>4, <2>6, <2>7, <2>8, <2>9 DEF FormsInv
<1> QED BY <1>3, <1>4

(* update() begins.                                                        *)
LEMMA BeginFormUpdateStep ==
    ASSUME FormsInv, BeginFormUpdate
    PROVE  FormsInv'
<1>1. /\ turn = 0 /\ turn' = 1 /\ step' = "collect"
      /\ Awaiting # {} \/ DOMAIN slot # {}
      /\ UNCHANGED <<localError, fieldValue, pendingAsync, edited, asyncError, validating, anyFlag,
                     checkNo, threads, slot, closed>>
  BY DEF BeginFormUpdate, Go, fieldVars, checkVars
<1>2. FormTypes
  BY DEF FormsInv
<1>3. 1 \in Fields /\ step = ""
  <2>1. Fields # {}
    BY <1>1, <1>2 DEF FormTypes
  <2>2. step = ""
    BY <1>1, <1>2, FieldSetting DEF FormTypes
  <2> QED BY <2>1, <2>2, FieldSetting
<1>4. Awaiting' = Awaiting
  BY <1>1 DEF Awaiting
<1>5. FormTypes'
  BY <1>1, <1>2, <1>3, <1>4 DEF FormTypes
<1>6. ASSUME ~closed PROVE NoNewerAnswers' /\ ErrorsKnown' /\ AnswersCurrent' /\ Flags'
  BY <1>1, <1>3, <1>4, <1>6 DEF FormsInv, NoNewerAnswers, ErrorsKnown, AnswersCurrent, Flags
<1> QED BY <1>1, <1>5, <1>6 DEF FormsInv

(* An answer is collected.                                                 *)
LEMMA CollectResultStep ==
    ASSUME FormsInv, CollectResult
    PROVE  FormsInv'
<1>1. /\ step = "collect"
      /\ UNCHANGED <<localError, fieldValue, pendingAsync, edited, closed>>
  BY DEF CollectResult, fieldVars
<1>2. FormTypes /\ turn \in Fields
  BY <1>1 DEF FormsInv, FormTypes
<1>3. Awaiting' = Awaiting
  BY <1>1 DEF Awaiting
<1>4. CASE turn \notin DOMAIN slot
  <2>1. /\ turn' = turn /\ step' = "debounce"
        /\ UNCHANGED <<asyncError, validating, anyFlag, checkNo, threads, slot>>
    BY <1>4 DEF CollectResult, Go, checkVars
  <2>2. FormTypes'
    BY <1>1, <1>2, <1>3, <2>1 DEF FormTypes
  <2>3. ASSUME ~closed PROVE NoNewerAnswers' /\ ErrorsKnown' /\ AnswersCurrent' /\ Flags'
    BY <1>1, <1>3, <2>1, <2>3 DEF FormsInv, NoNewerAnswers, ErrorsKnown, AnswersCurrent, Flags
  <2> QED BY <1>1, <2>2, <2>3 DEF FormsInv
<1>5. CASE turn \in DOMAIN slot
  <2>1. /\ slot' = Without(slot, turn) /\ turn' = turn
        /\ UNCHANGED <<asyncError, checkNo, threads>>
    BY <1>5 DEF CollectResult, Go
  <2>2. DOMAIN slot' = DOMAIN slot \ {turn} /\ \A i \in DOMAIN slot' : slot'[i] = slot[i]
    BY <2>1 DEF Without
  <2>3. CASE ~NewestAnswer(turn)
    <3>1. step' = "debounce" /\ UNCHANGED <<validating, anyFlag, observers>>
      BY <1>5, <2>3 DEF CollectResult, Go
    <3>2. FormTypes'
      BY <1>1, <1>2, <1>3, <2>1, <2>2, <3>1 DEF FormTypes
    <3>3. ASSUME ~closed PROVE NoNewerAnswers' /\ ErrorsKnown' /\ AnswersCurrent' /\ Flags'
      BY <1>1, <1>3, <2>1, <2>2, <3>1, <3>3 DEF FormsInv, NoNewerAnswers, ErrorsKnown, AnswersCurrent, Flags
    <3> QED BY <1>1, <3>2, <3>3 DEF FormsInv
  <2>4. CASE NewestAnswer(turn)
    <3>1. /\ validating' = validating \ {turn}
          /\ observers' = (validating' # validating)
          /\ anyFlag' = IF observers' /\ ~closed THEN validating' # {} ELSE anyFlag
          /\ step' = IF slot[turn].refused THEN "refused" ELSE "passed"
      BY <1>5, <2>4 DEF CollectResult, Go, SetValidating
    <3>2. anyFlag' \in BOOLEAN
      BY <1>2, <3>1 DEF FormTypes
    <3>3. step' \in {"refused", "passed"}
      BY <3>1
    <3>4. FormTypes'
      BY <1>1, <1>2, <1>3, <2>1, <2>2, <3>2, <3>3 DEF FormTypes
    <3>5. ASSUME ~closed PROVE NoNewerAnswers' /\ ErrorsKnown' /\ AnswersCurrent' /\ Flags'
      <4>1. NoNewerAnswers /\ ErrorsKnown /\ AnswersCurrent /\ Flags
        BY <3>5 DEF FormsInv
      <4>2. slot[turn].no = checkNo[turn]
        BY <2>4 DEF NewestAnswer
      <4>3. step' = "passed" => turn \in Awaiting \/ fieldValue[turn] \notin Taken
        BY <1>5, <3>1, <4>1, <4>2 DEF AnswersCurrent
      <4>4. NoNewerAnswers'
        BY <2>1, <2>2, <4>1 DEF NoNewerAnswers
      <4>5. ErrorsKnown'
        BY <1>1, <1>3, <2>1, <3>1, <3>3, <4>1, <4>3 DEF ErrorsKnown
      <4>6. AnswersCurrent'
        BY <1>1, <1>3, <2>1, <2>2, <4>1, <4>3 DEF AnswersCurrent
      <4>7. Flags'
        BY <1>1, <3>1, <3>3, <3>5, <4>1 DEF Flags
      <4> QED BY <4>4, <4>5, <4>6, <4>7
    <3> QED BY <1>1, <3>4, <3>5 DEF FormsInv
  <2> QED BY <2>3, <2>4
<1> QED BY <1>4, <1>5

(* The answer is stored.                                                   *)
LEMMA StoreResultStep ==
    ASSUME FormsInv, StoreResult
    PROVE  FormsInv'
<1>1. /\ step \in {"refused", "passed"}
      /\ asyncError' = IF step = "refused" THEN asyncError \cup {turn} ELSE asyncError \ {turn}
      /\ turn' = turn /\ step' = "debounce"
      /\ UNCHANGED <<localError, fieldValue, pendingAsync, edited, validating, anyFlag, checkNo, threads, slot, closed>>
  BY DEF StoreResult, SetError, Go, fieldVars
<1>2. FormTypes
  BY DEF FormsInv
<1>3. Awaiting' = Awaiting
  BY <1>1 DEF Awaiting
<1>4. FormTypes'
  BY <1>1, <1>2, <1>3 DEF FormTypes
<1>5. ASSUME ~closed PROVE NoNewerAnswers' /\ ErrorsKnown' /\ AnswersCurrent' /\ Flags'
  BY <1>1, <1>3, <1>5 DEF FormsInv, NoNewerAnswers, ErrorsKnown, AnswersCurrent, Flags
<1> QED BY <1>1, <1>4, <1>5 DEF FormsInv

(* The next field, or the end of the update.                               *)
LEMMA NextFieldParts ==
    ASSUME FormTypes, step # "", NextField
    PROVE  /\ IF step' = "" THEN turn' = 0 ELSE turn' \in Fields
           /\ step' \in {"", "collect"}
<1>1. turn \in Fields /\ (turn # Cardinality(Fields) => turn + 1 \in Fields)
  BY FieldSetting DEF FormTypes
<1>2. CASE turn = Cardinality(Fields)
  BY <1>2 DEF NextField, Go
<1>3. CASE turn # Cardinality(Fields)
  BY <1>1, <1>3 DEF NextField, Go
<1> QED BY <1>2, <1>3

(* The timer: nothing is due, or a check is made.                          *)
LEMMA WaitStep ==
    ASSUME FormsInv, step = "debounce", NextField, Awaiting' = Awaiting,
           UNCHANGED <<localError, fieldValue, edited, asyncError, validating, anyFlag, checkNo,
                       threads, slot, closed>>
    PROVE  FormsInv'
<1>1. FormTypes
  BY DEF FormsInv
<1>2. /\ IF step' = "" THEN turn' = 0 ELSE turn' \in Fields
      /\ step' \in {"", "collect"}
  BY <1>1, NextFieldParts
<1>3. FormTypes'
  BY <1>1, <1>2 DEF FormTypes
<1>4. ASSUME ~closed PROVE NoNewerAnswers' /\ ErrorsKnown' /\ AnswersCurrent' /\ Flags'
  BY <1>2, <1>4 DEF FormsInv, NoNewerAnswers, ErrorsKnown, AnswersCurrent, Flags
<1> QED BY <1>3, <1>4 DEF FormsInv

LEMMA LaunchStep ==
    ASSUME FormsInv, DebounceField, turn \in Awaiting, ~(pendingAsync[turn] + 1 < Debounce)
    PROVE  FormsInv'
<1> DEFINE new == [field |-> turn, no |-> checkNo'[turn], value |-> fieldValue[turn], started |-> FALSE]
<1>1. /\ step = "debounce"
      /\ pendingAsync' = Without(pendingAsync, turn)
      /\ checkNo' = [checkNo EXCEPT ![turn] = @ + 1]
      /\ threads' = threads \cup {new}
      /\ validating' = validating \cup {turn}
      /\ observers' = (validating' # validating)
      /\ anyFlag' = IF observers' /\ ~closed THEN validating' # {} ELSE anyFlag
      /\ turn' = turn /\ step' = "clear"
      /\ UNCHANGED <<asyncError, slot, localError, fieldValue, edited, closed>>
  BY DEF DebounceField, SetValidating, Go
<1>2. FormTypes /\ turn \in Fields
  BY <1>1 DEF FormsInv, FormTypes
<1>3. Awaiting' = Awaiting \ {turn}
  BY <1>1, WithWithout DEF Awaiting
<1>4. /\ checkNo' \in [Fields -> Nat] /\ checkNo'[turn] = checkNo[turn] + 1 /\ checkNo[turn] \in Nat
      /\ \A i \in Fields : i # turn => checkNo'[i] = checkNo[i]
  BY <1>1, <1>2 DEF FormTypes
<1>5. /\ new \in Check /\ new.field = turn /\ new.no = checkNo'[turn] /\ new.value = fieldValue[turn]
  BY <1>2, <1>4 DEF Check, FormTypes
<1> HIDE DEF new
<1>6. FormTypes'
  <2>1. anyFlag' \in BOOLEAN
    BY <1>1, <1>2 DEF FormTypes
  <2> QED BY <1>1, <1>2, <1>3, <1>4, <1>5, <2>1 DEF FormTypes
<1>7. ASSUME ~closed PROVE NoNewerAnswers' /\ ErrorsKnown' /\ AnswersCurrent' /\ Flags'
  <2>1. NoNewerAnswers /\ ErrorsKnown /\ AnswersCurrent /\ Flags
    BY <1>7 DEF FormsInv
  <2>2. \A t \in threads : t.field \in Fields /\ t.no \in Nat /\ (t.field = turn => t.no # checkNo'[turn])
                           /\ t.no <= checkNo'[t.field]
    <3> SUFFICES ASSUME NEW t \in threads
                 PROVE  /\ t.field \in Fields /\ t.no \in Nat /\ (t.field = turn => t.no # checkNo'[turn])
                        /\ t.no <= checkNo'[t.field]
      OBVIOUS
    <3>1. t.field \in Fields /\ t.no \in Nat
      BY <1>2 DEF FormTypes, Check
    <3>2. t.no <= checkNo[t.field]
      BY <2>1 DEF NoNewerAnswers
    <3>3. CASE t.field = turn
      BY <1>4, <3>1, <3>2, <3>3
    <3>4. CASE t.field # turn
      BY <1>4, <3>1, <3>2, <3>4
    <3> QED BY <3>3, <3>4
  <2>3. \A i \in DOMAIN slot : i \in Fields /\ slot[i].no \in Nat /\ (i = turn => slot[i].no # checkNo'[turn])
                               /\ slot[i].no <= checkNo'[i]
    <3> SUFFICES ASSUME NEW i \in DOMAIN slot
                 PROVE  /\ i \in Fields /\ slot[i].no \in Nat /\ (i = turn => slot[i].no # checkNo'[turn])
                        /\ slot[i].no <= checkNo'[i]
      OBVIOUS
    <3>1. i \in Fields /\ slot[i].no \in Nat
      BY <1>2 DEF FormTypes
    <3>2. slot[i].no <= checkNo[i]
      BY <2>1 DEF NoNewerAnswers
    <3>3. CASE i = turn
      BY <1>4, <3>1, <3>2, <3>3
    <3>4. CASE i # turn
      BY <1>4, <3>1, <3>2, <3>4
    <3> QED BY <3>3, <3>4
  <2>4. NoNewerAnswers'
    BY <1>1, <1>4, <1>5, <2>2, <2>3 DEF NoNewerAnswers
  <2>5. ErrorsKnown'
    BY <1>1, <1>3, <2>1 DEF ErrorsKnown
  <2>6. \A i \in DOMAIN slot' \ Awaiting' :
           slot'[i].no = checkNo'[i] /\ fieldValue'[i] \in Taken => slot'[i].refused
    BY <1>1, <1>3, <1>4, <2>1, <2>3 DEF AnswersCurrent
  <2>7. \A t \in threads' : t.no = checkNo'[t.field] /\ t.field \notin Awaiting' => t.value = fieldValue'[t.field]
    BY <1>1, <1>3, <1>4, <1>5, <2>1, <2>2 DEF AnswersCurrent
  <2>8. Flags'
    BY <1>1, <1>7, <2>1 DEF Flags
  <2> QED BY <1>1, <2>4, <2>5, <2>6, <2>7, <2>8 DEF AnswersCurrent
<1> QED BY <1>1, <1>6, <1>7 DEF FormsInv

LEMMA DebounceFieldStep ==
    ASSUME FormsInv, DebounceField
    PROVE  FormsInv'
<1>1. step = "debounce" /\ UNCHANGED <<localError, fieldValue, edited, closed>>
  BY DEF DebounceField
<1>2. CASE turn \notin Awaiting
  <2>1. NextField /\ UNCHANGED <<pendingAsync, asyncError, validating, anyFlag, checkNo, threads, slot>>
    BY <1>2 DEF DebounceField, checkVars
  <2>2. Awaiting' = Awaiting
    BY <2>1 DEF Awaiting
  <2> QED BY <1>1, <2>1, <2>2, WaitStep
<1>3. CASE turn \in Awaiting /\ pendingAsync[turn] + 1 < Debounce
  <2>1. /\ NextField /\ pendingAsync' = [pendingAsync EXCEPT ![turn] = @ + 1]
        /\ UNCHANGED <<asyncError, validating, anyFlag, checkNo, threads, slot>>
    BY <1>3 DEF DebounceField, checkVars
  <2>2. Awaiting' = Awaiting
    BY <2>1 DEF Awaiting
  <2> QED BY <1>1, <2>1, <2>2, WaitStep
<1> QED BY <1>2, <1>3, LaunchStep

(* The error of the check before is cleared.                               *)
LEMMA ClearErrorStep ==
    ASSUME FormsInv, ClearError
    PROVE  FormsInv'
<1>1. /\ step = "clear" /\ asyncError' = asyncError \ {turn} /\ turn' = turn /\ step' = "start"
      /\ UNCHANGED <<localError, fieldValue, pendingAsync, edited, validating, anyFlag, checkNo, threads, slot, closed>>
  BY DEF ClearError, SetError, Go, fieldVars
<1>2. Awaiting' = Awaiting
  BY <1>1 DEF Awaiting
<1>3. FormTypes'
  BY <1>1, <1>2 DEF FormsInv, FormTypes
<1>4. ASSUME ~closed PROVE NoNewerAnswers' /\ ErrorsKnown' /\ AnswersCurrent' /\ Flags'
  BY <1>1, <1>2, <1>4 DEF FormsInv, NoNewerAnswers, ErrorsKnown, AnswersCurrent, Flags
<1> QED BY <1>1, <1>3, <1>4 DEF FormsInv

(* The thread is started.                                                  *)
LEMMA StartThreadStep ==
    ASSUME FormsInv, StartThread
    PROVE  FormsInv'
<1>1. /\ step = "start" /\ NextField
      /\ threads' = {IF t.field = turn THEN [t EXCEPT !.started = TRUE] ELSE t : t \in threads}
      /\ UNCHANGED <<localError, fieldValue, pendingAsync, edited, asyncError, validating, anyFlag, checkNo, slot, closed>>
  BY DEF StartThread, fieldVars
<1>2. FormTypes
  BY DEF FormsInv
<1>3. Awaiting' = Awaiting
  BY <1>1 DEF Awaiting
<1>4. /\ IF step' = "" THEN turn' = 0 ELSE turn' \in Fields
      /\ step' \in {"", "collect"}
  BY <1>1, <1>2, NextFieldParts
<1>5. \A s \in threads' : s \in Check /\ \E t \in threads :
         s.field = t.field /\ s.no = t.no /\ s.value = t.value
  BY <1>1, <1>2 DEF FormTypes, Check
<1>6. FormTypes'
  BY <1>1, <1>2, <1>3, <1>4, <1>5 DEF FormTypes
<1>7. ASSUME ~closed PROVE NoNewerAnswers' /\ ErrorsKnown' /\ AnswersCurrent' /\ Flags'
  <2>1. NoNewerAnswers /\ ErrorsKnown /\ AnswersCurrent /\ Flags
    BY <1>7 DEF FormsInv
  <2>2. NoNewerAnswers'
    BY <1>1, <1>5, <2>1 DEF NoNewerAnswers
  <2>3. ErrorsKnown'
    BY <1>1, <1>3, <1>4, <2>1 DEF ErrorsKnown
  <2>4. AnswersCurrent'
    <3>1. \A s \in threads' : s.no = checkNo[s.field] /\ s.field \notin Awaiting => s.value = fieldValue[s.field]
      BY <1>5, <2>1 DEF AnswersCurrent
    <3>2. \A i \in DOMAIN slot \ Awaiting :
             slot[i].no = checkNo[i] /\ fieldValue[i] \in Taken => slot[i].refused
      BY <2>1 DEF AnswersCurrent
    <3> QED BY <1>1, <1>3, <1>4, <3>1, <3>2 DEF AnswersCurrent
  <2>5. Flags'
    BY <1>1, <1>4, <2>1 DEF Flags
  <2> QED BY <2>2, <2>3, <2>4, <2>5
<1> QED BY <1>1, <1>6, <1>7 DEF FormsInv

(* A thread answers.                                                       *)
LEMMA AnswerStep ==
    ASSUME FormsInv, NEW t \in threads, Answer(t)
    PROVE  FormsInv'
<1>1. PICK raises \in BOOLEAN :
         slot' = With(slot, t.field, [no |-> t.no, refused |-> raises \/ t.value \in Taken])
  BY DEF Answer
<1> DEFINE new == [no |-> t.no, refused |-> raises \/ t.value \in Taken]
<1>2. /\ threads' = threads \ {t} /\ UNCHANGED closed
      /\ UNCHANGED <<localError, fieldValue, pendingAsync, edited, asyncError, validating, anyFlag, checkNo, turn, step>>
  BY DEF Answer, fieldVars, turnVars
<1>3. FormTypes /\ t \in Check
  BY DEF FormsInv, FormTypes
<1>4. new \in [no : Nat, refused : BOOLEAN] /\ new.no = t.no /\ (t.value \in Taken => new.refused)
  BY <1>3 DEF Check
<1>5. /\ DOMAIN slot' = DOMAIN slot \cup {t.field} /\ slot'[t.field] = new
      /\ \A i \in DOMAIN slot : i # t.field => slot'[i] = slot[i]
  BY <1>1 DEF With
<1> HIDE DEF new
<1>6. Awaiting' = Awaiting
  BY <1>2 DEF Awaiting
<1>7. FormTypes'
  BY <1>2, <1>3, <1>4, <1>5, <1>6 DEF FormTypes, Check
<1>8. ASSUME ~closed PROVE NoNewerAnswers' /\ ErrorsKnown' /\ AnswersCurrent' /\ Flags'
  <2>1. NoNewerAnswers /\ ErrorsKnown /\ AnswersCurrent /\ Flags
    BY <1>8 DEF FormsInv
  <2>2. NoNewerAnswers'
    BY <1>2, <1>4, <1>5, <2>1 DEF NoNewerAnswers
  <2>3. ErrorsKnown'
    BY <1>2, <1>6, <2>1 DEF ErrorsKnown
  <2>4. AnswersCurrent'
    BY <1>2, <1>4, <1>5, <1>6, <2>1 DEF AnswersCurrent
  <2>5. Flags'
    BY <1>2, <2>1 DEF Flags
  <2> QED BY <2>2, <2>3, <2>4, <2>5
<1> QED BY <1>2, <1>7, <1>8 DEF FormsInv

(* dispose()                                                               *)
LEMMA CloseStep ==
    ASSUME FormsInv, Close
    PROVE  FormsInv'
<1>1. /\ closed' = TRUE /\ checkNo' = [i \in Fields |-> checkNo[i] + 1]
      /\ UNCHANGED <<fieldValue, pendingAsync, edited, anyFlag, threads, slot, turn, step>>
  BY DEF Close, fieldVars, turnVars
<1>2. Awaiting' = Awaiting
  BY <1>1 DEF Awaiting
<1>3. FormTypes'
  <2>1. FormTypes
    BY DEF FormsInv
  <2>2. checkNo' \in [Fields -> Nat]
    <3>1. checkNo \in [Fields -> Nat]
      BY <2>1 DEF FormTypes
    <3> QED BY <1>1, <3>1
  <2> QED BY <1>1, <1>2, <2>1, <2>2 DEF FormTypes
<1> QED BY <1>1, <1>3 DEF FormsInv

(* The steps of other components.                                          *)
LEMMA FormsStay ==
    ASSUME FormsInv, UNCHANGED formVars
    PROVE  FormsInv'
  BY DEF FormsInv, FormTypes, NoNewerAnswers, ErrorsKnown, AnswersCurrent, Flags, Awaiting,
         formVars, fieldVars, checkVars, turnVars

LEMMA FormsNextInv ==
    ASSUME FormsInv, FormsNext
    PROVE  FormsInv'
  BY EditStep, BeginFormUpdateStep, CollectResultStep, StoreResultStep, DebounceFieldStep,
     ClearErrorStep, StartThreadStep, AnswerStep, CloseStep DEF FormsNext

-----------------------------------------------------------------------------
(* The data provider.                                                      *)

ProviderTypes ==
  /\ jobStage \in [{Job} -> Life!Stages]
  /\ jobOwed \subseteq {Job} /\ jobStored \subseteq {Job} /\ jobFailed \subseteq {Job}
  /\ holds \in BOOLEAN /\ strayed \in BOOLEAN

(* The provider holds its task exactly while it is loading.                *)
HeldAsLoading == holds <=> loadState = "loading"

(* Nothing is left in the scheduler when it is not.                        *)
NothingLeft ==
  loadState # "loading" =>
    jobStage[Job] = "absent" /\ jobOwed = {} /\ jobStored = {} /\ jobFailed = {}

(* A task that has an outcome has ended, and has one outcome.              *)
OneOutcome ==
  /\ jobOwed # {} => jobStored = {} /\ jobFailed = {} /\ jobStage[Job] = "absent"
  /\ jobStored # {} => jobFailed = {} /\ jobStage[Job] = "absent"
  /\ jobFailed # {} => jobStage[Job] = "absent"

(* The result that is stored, and the data, are those of the newest load;  *)
(* while calls are under way no result is stored.                          *)
OfNewestLoad ==
  /\ jobStored # {} => storedLoad = loads /\ loadCalls = <<>>
  /\ loadState = "loaded" => data = loads

ProviderInv ==
  /\ ProviderTypes
  /\ ~strayed => HeldAsLoading /\ NothingLeft /\ OneOutcome /\ OfNewestLoad

LEMMA ProviderIsSafe == ProviderInv => ProviderSafe
BY DEF ProviderInv, ProviderTypes, HeldAsLoading, NothingLeft, OneOutcome, OfNewestLoad, ProviderSafe

LEMMA ProviderInitInv == ProviderInit => ProviderInv
BY DEF ProviderInit, Life!Init, Life!Stages, ProviderInv, ProviderTypes, HeldAsLoading,
       NothingLeft, OneOutcome, OfNewestLoad

LEMMA ProviderStays == ProviderInv /\ UNCHANGED providerVars => ProviderInv'
BY DEF ProviderInv, ProviderTypes, HeldAsLoading, NothingLeft, OneOutcome, OfNewestLoad,
       providerVars, jobVars, ownVars

LEMMA ProviderNextInv ==
  ASSUME ProviderInv, ProviderNext
  PROVE  ProviderInv'
<1> USE DEF ProviderInv, ProviderTypes, HeldAsLoading, NothingLeft, OneOutcome, OfNewestLoad
<1> DEFINE None == jobOwed' = {} /\ jobStored' = {} /\ jobFailed' = {}
<1> DEFINE Gone == jobStage' = [t \in {Job} |-> "absent"] /\ None
<1>stages. {"absent", "pending", "suspended", "queued", "executing", "succeeded", "raised"}
             = Life!Stages
  BY DEF Life!Stages, Life!Occupied
<1>1. ASSUME NEW reload \in BOOLEAN, jobOwed = {}, CancelLoad(reload)
      PROVE  ProviderInv'
  <2>1. holds' = FALSE /\ loadState' = "idle" /\ strayed' = strayed /\ UNCHANGED <<loads, storedLoad>>
    BY <1>1 DEF CancelLoad, SetState
  <2>2. LetGo
    BY <1>1 DEF CancelLoad
  <2>3. CASE holds
    <3>1. Gone
      BY <2>2, <2>3 DEF LetGo, Life!Remove, Life!Move
    <3> QED
      BY <3>1, <2>1, <1>stages
  <2>4. CASE ~holds
    <3>1. UNCHANGED <<jobStage, jobOwed, jobStored, jobFailed>>
      BY <2>2, <2>4 DEF LetGo
    <3> QED
      BY <3>1, <2>1, <2>4
  <2> QED
    BY <2>3, <2>4
<1>2. ASSUME AddLoad, jobOwed = {}
      PROVE  ProviderInv'
  <2>1. /\ loadCalls # <<>> /\ holds' = TRUE /\ loadState' = "loading" /\ strayed' = strayed
        /\ jobStage' = [t \in {Job} |-> "pending"]
        /\ jobOwed' = {} /\ jobStored' \subseteq jobStored /\ jobFailed' = {}
    BY <1>2 DEF AddLoad, SetState, Life!Add, Life!Move
  <2> QED
    BY <2>1, <1>stages
<1>3. ASSUME ResetLoad, jobOwed = {}
      PROVE  ProviderInv'
  <2>1. holds' = FALSE /\ loadState' = "idle" /\ strayed' = strayed /\ UNCHANGED <<loads, storedLoad>>
    BY <1>3 DEF ResetLoad
  <2>2. LetGo
    BY <1>3 DEF ResetLoad
  <2>3. CASE holds
    <3>1. Gone
      BY <2>2, <2>3 DEF LetGo, Life!Remove, Life!Move
    <3> QED
      BY <3>1, <2>1, <1>stages
  <2>4. CASE ~holds
    <3>1. UNCHANGED <<jobStage, jobOwed, jobStored, jobFailed>>
      BY <2>2, <2>4 DEF LetGo
    <3> QED
      BY <3>1, <2>1, <2>4
  <2> QED
    BY <2>3, <2>4
<1>4. ASSUME PollLoad, jobOwed = {}
      PROVE  ProviderInv'
  <2>1. /\ holds' = FALSE /\ jobStored' = {} /\ UNCHANGED <<jobStage, jobOwed, loads, storedLoad>>
        /\ jobFailed' = IF jobStored # {} THEN jobFailed ELSE {}
        /\ strayed' = (strayed \/ jobStage[Job] = "suspended")
    BY <1>4 DEF PollLoad, Life!Read
  <2>2. \/ loadState' = "loaded" /\ data' = storedLoad /\ jobStored # {}
        \/ loadState' \in {"failed", "idle"}
    BY <1>4 DEF PollLoad, SetState
  <2>3. jobStage[Job] \in {"absent", "suspended"}
    BY <1>4 DEF PollLoad
  <2> QED
    BY <2>1, <2>2, <2>3, <1>4
<1>5. ASSUME TellListener \/ ListenerReturns, jobOwed = {}
      PROVE  ProviderInv'
  <2>1. loadCalls # <<>> /\ UNCHANGED <<jobVars, loadState, data, holds, loads, strayed>>
    BY <1>5 DEF TellListener, ListenerReturns
  <2> QED
    BY <2>1 DEF jobVars
<1>6. ASSUME Works
      PROVE  ProviderInv'
  <2>1. /\ jobStage[Job] \in {"queued", "executing"}
        /\ \E s \in Life!Stages : s # "absent" /\ jobStage' = [t \in {Job} |-> s]
        /\ UNCHANGED <<jobOwed, jobStored, jobFailed>>
    BY <1>6, <1>stages DEF Works, Life!Execute, Life!End, Life!Move, Life!told
  <2> QED
    BY <2>1, <1>6 DEF Works, ownVars
<1>7. ASSUME CollectLoad
      PROVE  ProviderInv'
  <2> DEFINE at == jobStage[Job]
  <2>1. /\ loadCalls = <<>> /\ jobOwed = {} /\ UNCHANGED ownVars /\ jobFailed' = jobFailed
        /\ jobOwed' = jobOwed \cup {t \in {Job} : jobStage[t] = "raised"}
        /\ jobStored' = jobStored \cup {t \in {Job} : jobStage[t] = "succeeded"}
        /\ jobStage' = [t \in {Job} |-> IF t \in {u \in {Job} : jobStage[u] \in {"succeeded", "raised"}}
                                        THEN "absent" ELSE jobStage[t]]
        /\ storedLoad' = IF at = "succeeded" THEN loads ELSE storedLoad
    BY <1>7 DEF CollectLoad, Life!Collect, Life!At, Life!Move
  <2>2. CASE at = "succeeded"
    BY <2>1, <2>2, <1>stages DEF ownVars
  <2>3. CASE at = "raised"
    BY <2>1, <2>3, <1>stages DEF ownVars
  <2>4. CASE at \notin {"succeeded", "raised"}
    <3>1. UNCHANGED <<jobOwed, jobStored, jobStage, storedLoad>>
      BY <2>1, <2>4
    <3> QED
      BY <3>1, <2>1 DEF ownVars
  <2> QED
    BY <2>2, <2>3, <2>4
<1>8. ASSUME TellLoad
      PROVE  ProviderInv'
  <2>1. /\ jobOwed = {Job} /\ jobOwed' = {} /\ jobFailed' = {Job} /\ jobStored' = jobStored
        /\ jobStage' = [t \in {Job} |-> "absent"] /\ UNCHANGED <<ownVars, storedLoad>>
    BY <1>8 DEF TellLoad, Life!TellFailures, Life!Move
  <2> QED
    BY <2>1, <1>stages DEF ownVars
<1>9. ASSUME Schedules
      PROVE  ProviderInv'
  <2>1. loadCalls = <<>> /\ jobOwed = {} /\ UNCHANGED <<ownVars, storedLoad>>
    BY <1>9 DEF Schedules
  <2>2. CASE Life!RemoveAll
    <3>1. /\ jobStage' = [t \in {Job} |-> "absent"] /\ jobOwed' = {} /\ jobStored' = {}
          /\ jobFailed' = jobFailed
      BY <2>1, <2>2 DEF Life!RemoveAll, Life!Move
    <3> QED
      BY <3>1, <2>1, <1>stages DEF ownVars
  <2>3. CASE Life!Submit(Job) \/ Life!Suspend({Job}) \/ Life!Resume({Job})
    <3>1. /\ UNCHANGED <<jobOwed, jobStored, jobFailed>>
          /\ jobStage' \in [{Job} -> Life!Stages]
          /\ jobStage[Job] = "absent" <=> jobStage'[Job] = "absent"
      BY <2>3, <1>stages DEF Life!Submit, Life!Suspend, Life!Resume, Life!Move, Life!At, Life!told
    <3> QED
      BY <3>1, <2>1 DEF ownVars
  <2> QED
    BY <1>9, <2>2, <2>3 DEF Schedules
<1> QED
  BY <1>1, <1>2, <1>3, <1>4, <1>5, <1>6, <1>7, <1>8, <1>9 DEF ProviderNext

=============================================================================
