-------------------------- MODULE TableCache_proofs -------------------------
(***************************************************************************)
(* The table cache for every set of threads, keys and handles, every hash  *)
(* and every limit: its chains, lists and counts agree, no slot of a       *)
(* limiter is lost or given twice, the number of cached tables is bounded, *)
(* and a cache with some capacity implements module Cache.  The first      *)
(* part states what each operation of the LRU cache does to the records,   *)
(* the chains, the lists and the counts.                                   *)
(***************************************************************************)
EXTENDS TableCache, SequenceTheorems, FiniteSetTheorems, TLAPS

----------------------------------------------------------------------------
(* Induction, by way of the least counterexample.                          *)

Below == {p \in Nat \X Nat : p[1] < p[2]}

\* Every nonempty set of naturals has a least element.
LEMMA LeastNatural ==
  ASSUME NEW S \in SUBSET Nat, S # {}
  PROVE  \E m \in S : \A k \in S : m <= k
<1>1. OpToRel(<, Nat) = Below
  BY DEF OpToRel, Below
<1>2. IsWellFoundedOn(OpToRel(<, Nat), Nat)
  BY NatLessThanWellFounded
<1>3. PICK m \in S : \A k \in S : ~(<<k, m>> \in Below)
  BY <1>1, <1>2, WFMin
<1>4. ASSUME NEW k \in S
      PROVE  m <= k
  <2>1. <<k, m>> \notin Below
    BY <1>3
  <2>2. k \in Nat /\ m \in Nat
    OBVIOUS
  <2> QED
    BY <2>1, <2>2 DEF Below
<1> QED
  BY <1>4

----------------------------------------------------------------------------
(* The list lru_.                                                          *)

\* Unlinking a handle that is on the list once.
LEMMA Unlinked ==
  ASSUME NEW S, NEW s \in Seq(S), IsInjective(s), NEW e \in ToSet(s)
  PROVE  /\ RemoveFirst(s, e) \in Seq(S)
         /\ IsInjective(RemoveFirst(s, e))
         /\ ToSet(RemoveFirst(s, e)) = ToSet(s) \ {e}
         /\ Len(RemoveFirst(s, e)) = Len(s) - 1
<1>1. PICK i \in 1..Len(s) : s[i] = e
  BY DEF ToSet
<1>2. {j \in 1..Len(s) : s[j] = e} = {i}
  BY <1>1 DEF IsInjective
<1>3. Min({i}) = i
  BY DEF Min
<1>4. SelectInSeq(s, LAMBDA v : v = e) = i
  BY <1>2, <1>3 DEF SelectInSeq
<1>5. RemoveFirst(s, e) = RemoveAt(s, i)
  BY <1>1, <1>4 DEF RemoveFirst
<1> DEFINE before == SubSeq(s, 1, i - 1)
           behind == SubSeq(s, i + 1, Len(s))
           r == before \o behind
<1>a. /\ before \in Seq(S) /\ Len(before) = i - 1
      /\ \A j \in 1..(i - 1) : before[j] = s[j]
  BY <1>1, SubSeqProperties
<1>b. /\ behind \in Seq(S) /\ Len(behind) = Len(s) - i
      /\ \A j \in 1..(Len(s) - i) : behind[j] = s[i + j]
  BY <1>1, SubSeqProperties
<1>c. RemoveFirst(s, e) = r
  BY <1>5 DEF RemoveAt
<1> HIDE DEF before, behind
<1>d. /\ r \in Seq(S)
      /\ Len(r) = Len(before) + Len(behind)
      /\ \A j \in 1..(Len(before) + Len(behind)) :
           r[j] = IF j <= Len(before) THEN before[j] ELSE behind[j - Len(before)]
  BY <1>a, <1>b, ConcatProperties
<1> HIDE DEF r
<1>6. r \in Seq(S) /\ Len(r) = Len(s) - 1
  BY <1>1, <1>a, <1>b, <1>d
<1>7. \A j \in 1..(Len(s) - 1) : r[j] = IF j < i THEN s[j] ELSE s[j + 1]
  <2> TAKE j \in 1..(Len(s) - 1)
  <2>1. CASE j < i
    <3>1. j \in 1..(i - 1) /\ j \in 1..(Len(before) + Len(behind)) /\ j <= Len(before)
      BY <2>1, <1>1, <1>a, <1>b
    <3>2. r[j] = before[j] /\ before[j] = s[j]
      BY <3>1, <1>a, <1>d
    <3> QED
      BY <3>2, <2>1
  <2>2. CASE ~(j < i)
    <3>1. r[j] = behind[j - (i - 1)]
      BY <2>2, <1>1, <1>a, <1>b, <1>d
    <3>2. j - (i - 1) \in 1..(Len(s) - i) /\ i + (j - (i - 1)) = j + 1
      BY <2>2, <1>1
    <3>3. behind[j - (i - 1)] = s[i + (j - (i - 1))]
      BY <3>2, <1>b
    <3> QED
      BY <3>1, <3>2, <3>3, <2>2
  <2> QED
    BY <2>1, <2>2
<1>8. IsInjective(r)
  <2> SUFFICES ASSUME NEW j \in 1..(Len(s) - 1), NEW k \in 1..(Len(s) - 1), r[j] = r[k]
               PROVE  j = k
    BY <1>6 DEF IsInjective
  <2>1. \A a, b \in 1..Len(s) : s[a] = s[b] => a = b
    BY DEF IsInjective
  <2> QED
    BY <1>7, <2>1, <1>1
<1>9. ToSet(r) \subseteq ToSet(s) \ {e}
  <2>1. ASSUME NEW j \in 1..(Len(s) - 1)
        PROVE  r[j] \in ToSet(s) \ {e}
    BY <1>7, <1>1, <2>1 DEF IsInjective, ToSet
  <2> QED
    BY <2>1, <1>6 DEF ToSet
<1>10. ASSUME NEW g \in ToSet(s) \ {e}
       PROVE  g \in ToSet(r)
  <2>1. PICK j \in 1..Len(s) : s[j] = g
    BY DEF ToSet
  <2>2. CASE j < i
    <3>1. j \in 1..(Len(s) - 1) /\ r[j] = g
      BY <2>1, <2>2, <1>7
    <3> QED
      BY <3>1, <1>6 DEF ToSet
  <2>3. CASE j > i
    <3>1. j - 1 \in 1..(Len(s) - 1) /\ r[j - 1] = g
      BY <2>1, <2>3, <1>7
    <3> QED
      BY <3>1, <1>6 DEF ToSet
  <2> QED
    BY <2>1, <2>2, <2>3, <1>1
<1> QED
  BY <1>c, <1>6, <1>8, <1>9, <1>10

\* Unlinking a handle that is not there leaves the list alone.
LEMMA NotLinked ==
  ASSUME NEW S, NEW s \in Seq(S), NEW e, e \notin ToSet(s)
  PROVE  RemoveFirst(s, e) = s
BY DEF RemoveFirst, ToSet

\* A handle linked at the end.
LEMMA Linked ==
  ASSUME NEW S, NEW s \in Seq(S), IsInjective(s), NEW e \in S, e \notin ToSet(s)
  PROVE  /\ Append(s, e) \in Seq(S)
         /\ IsInjective(Append(s, e))
         /\ ToSet(Append(s, e)) = ToSet(s) \cup {e}
<1> DEFINE r == Append(s, e)
<1>1. r \in Seq(S) /\ Len(r) = Len(s) + 1
  OBVIOUS
<1>2. \A j \in 1..Len(s) : r[j] = s[j]
  OBVIOUS
<1>3. r[Len(s) + 1] = e
  OBVIOUS
<1> HIDE DEF r
<1>4. IsInjective(r)
  BY <1>1, <1>2, <1>3 DEF IsInjective, ToSet
<1>5. ToSet(r) \subseteq ToSet(s) \cup {e}
  BY <1>1, <1>2, <1>3 DEF ToSet
<1>6. ToSet(s) \subseteq ToSet(r)
  BY <1>1, <1>2 DEF ToSet
<1>7. e \in ToSet(r)
  <2>1. Len(s) + 1 \in DOMAIN r
    BY <1>1
  <2> QED
    BY <2>1, <1>3 DEF ToSet
<1> QED
  BY <1>1, <1>4, <1>5, <1>6, <1>7 DEF r

----------------------------------------------------------------------------
(* The state of a cache, part by part.                                     *)

HandleRecords == [key : Keys \cup {Null}, refs : Nat, in_cache : BOOLEAN]

ChainLists == UNION {[0..(n - 1) -> SUBSET Handles] : n \in Nat \ {0}}

Caches ==
  [handles : [Handles -> HandleRecords],
   table : [list : ChainLists, element_num : Int],
   lru : Seq(Handles), in_use : SUBSET Handles, usage : Int]

CachedIn(H) == {h \in Handles : H[h].in_cache}

\* The records: a freed one is blank, one of the cache has a key of its own.
RecordInv(H) ==
  /\ \A h \in Handles : H[h].refs = 0 => H[h] = Freed
  /\ \A h \in CachedIn(H) : H[h].key \in Keys
  /\ \A g, h \in CachedIn(H) : H[g].key = H[h].key => g = h

\* Every record of the cache is in the chain of its hash, and in no other.
Distributed(H, L, n) ==
  /\ L \in [0..(n - 1) -> SUBSET Handles]
  /\ \A b \in 0..(n - 1) : L[b] = {h \in CachedIn(H) : Hash[H[h].key] % n = b}

ChainInv(H, L) == \E n \in Nat \ {0} : Distributed(H, L, n)

\* An idle record is a candidate for eviction, the others are in use.
ListInv(H, lru, in_use) ==
  /\ IsInjective(lru)
  /\ ToSet(lru) = {h \in CachedIn(H) : H[h].refs = 1}
  /\ in_use = {h \in CachedIn(H) : H[h].refs # 1}

CountInv(H, element_num, usage) ==
  /\ element_num = Cardinality(CachedIn(H))
  /\ usage = Cardinality(CachedIn(H))

PartsInv(H, table, lru, in_use, usage) ==
  /\ H \in [Handles -> HandleRecords]
  /\ table \in [list : ChainLists, element_num : Int]
  /\ lru \in Seq(Handles)
  /\ RecordInv(H)
  /\ ChainInv(H, table.list)
  /\ ListInv(H, lru, in_use)
  /\ CountInv(H, table.element_num, usage)

CacheInv(c) ==
  /\ c \in Caches
  /\ PartsInv(c.handles, c.table, c.lru, c.in_use, c.usage)

\* A cache made of parts that agree.
LEMMA CacheOfParts ==
  ASSUME NEW H, NEW table, NEW lru, NEW in_use, NEW usage,
         PartsInv(H, table, lru, in_use, usage), NEW c,
         c = [handles |-> H, table |-> table, lru |-> lru, in_use |-> in_use, usage |-> usage]
  PROVE  CacheInv(c)
<1>1. /\ c.handles = H /\ c.table = table /\ c.lru = lru
      /\ c.in_use = in_use /\ c.usage = usage
  OBVIOUS
<1>2. in_use \in SUBSET Handles
  BY DEF PartsInv, ListInv, CachedIn
<1>3. usage \in Int
  <2>1. IsFiniteSet(CachedIn(H))
    <3>1. CachedIn(H) \in SUBSET Handles
      BY DEF CachedIn
    <3> QED
      BY <3>1, LRUCacheAssumption, FS_Subset
  <2>2. Cardinality(CachedIn(H)) \in Nat
    BY <2>1, FS_CardinalityType
  <2> QED
    BY <2>2 DEF PartsInv, CountInv
<1>4. c \in Caches
  BY <1>2, <1>3 DEF Caches, PartsInv
<1> QED
  BY <1>1, <1>4 DEF CacheInv

\* The number of chains is the length of the bucket array.
LEMMA BucketsOfTable ==
  ASSUME NEW n \in Nat \ {0}, NEW t, DOMAIN t.list = 0..(n - 1)
  PROVE  Buckets(t) = n
<1>1. Cardinality(0..(n - 1)) = n
  BY FS_Interval
<1> QED
  BY <1>1 DEF Buckets

LEMMA BucketOfKey ==
  ASSUME NEW k \in Keys, NEW n \in Nat \ {0}
  PROVE  Hash[k] % n \in 0..(n - 1)
BY LRUCacheAssumption

LEMMA CacheInvImpliesConsistent ==
  ASSUME NEW c, CacheInv(c)
  PROVE  Consistent(c)
<1> DEFINE H == c.handles
           L == c.table.list
<1>1. PICK n \in Nat \ {0} : Distributed(H, L, n)
  BY DEF CacheInv, PartsInv, ChainInv
<1>2. DOMAIN L = 0..(n - 1) /\ Buckets(c.table) = n
  BY <1>1, BucketsOfTable DEF Distributed
<1>3. \A h \in CachedIn(H) : Hash[H[h].key] % n \in 0..(n - 1)
  <2>1. \A h \in CachedIn(H) : H[h].key \in Keys
    BY DEF CacheInv, PartsInv, RecordInv
  <2> QED
    BY <2>1, BucketOfKey
<1>4. UNION {L[b] : b \in DOMAIN L} = CachedIn(H)
  <2>1. ASSUME NEW h \in CachedIn(H)
        PROVE  \E b \in 0..(n - 1) : h \in L[b]
    BY <1>1, <1>3 DEF Distributed
  <2>2. \A b \in 0..(n - 1) : L[b] \subseteq CachedIn(H)
    BY <1>1 DEF Distributed
  <2> HIDE DEF L, H
  <2> QED
    BY <1>2, <2>1, <2>2
<1>5. \A b \in DOMAIN L : \A h \in L[b] : Bucket(c.table, H[h].key) = b
  BY <1>1, <1>2 DEF Distributed, Bucket
<1>6. CachedIn(H) = {h \in Handles : c.handles[h].in_cache}
  BY DEF CachedIn
<1>7. c.in_use = CachedIn(H) \ ToSet(c.lru)
  BY DEF CacheInv, PartsInv, ListInv
<1> QED
  BY <1>4, <1>5, <1>6, <1>7 DEF CacheInv, PartsInv, RecordInv, ListInv, CountInv, Consistent

\* Lookup finds the record of the cache with the key, if there is one.
LEMMA LookupFinds ==
  ASSUME NEW c, CacheInv(c), NEW k \in Keys
  PROVE  /\ TableLookup(c, k) # Null =>
              /\ TableLookup(c, k) \in CachedIn(c.handles)
              /\ c.handles[TableLookup(c, k)].key = k
         /\ \A h \in CachedIn(c.handles) : c.handles[h].key = k => TableLookup(c, k) = h
<1> DEFINE H == c.handles
           L == c.table.list
           with == {h \in CachedIn(H) : H[h].key = k}
<1>1. PICK n \in Nat \ {0} : Distributed(H, L, n)
  BY DEF CacheInv, PartsInv, ChainInv
<1>2. DOMAIN L = 0..(n - 1) /\ Buckets(c.table) = n
  BY <1>1, BucketsOfTable DEF Distributed
<1>3. Hash[k] % n \in 0..(n - 1)
  BY BucketOfKey
<1>4. Bucket(c.table, k) = Hash[k] % n
  BY <1>2 DEF Bucket
<1>5. L[Bucket(c.table, k)] = {h \in CachedIn(H) : Hash[H[h].key] % n = Hash[k] % n}
  BY <1>1, <1>3, <1>4 DEF Distributed
<1>6. Find(c, k) = with
  BY <1>5 DEF Find
<1>7. \A g, h \in with : g = h
  BY DEF CacheInv, PartsInv, RecordInv
<1>8. \A h \in with : h # Null
  BY LRUCacheAssumption DEF CachedIn, Null
<1>9. TableLookup(c, k) = IF with = {} THEN Null ELSE CHOOSE h \in with : TRUE
  BY <1>6 DEF TableLookup
<1> HIDE DEF with
<1>10. TableLookup(c, k) # Null => TableLookup(c, k) \in with
  BY <1>9
<1>11. \A h \in with : TableLookup(c, k) = h
  BY <1>7, <1>9
<1> QED
  BY <1>10, <1>11 DEF with

----------------------------------------------------------------------------
(* The operations.                                                         *)

\* The chains depend on the cached records and their keys only.
LEMMA ChainsKept ==
  ASSUME NEW G, NEW H, NEW L, ChainInv(H, L), CachedIn(G) = CachedIn(H),
         \A h \in CachedIn(H) : G[h].key = H[h].key
  PROVE  ChainInv(G, L)
<1>1. PICK n \in Nat \ {0} : Distributed(H, L, n)
  BY DEF ChainInv
<1>2. ASSUME NEW b \in 0..(n - 1)
      PROVE  L[b] = {h \in CachedIn(G) : Hash[G[h].key] % n = b}
  <2>1. L[b] = {h \in CachedIn(H) : Hash[H[h].key] % n = b}
    BY <1>1 DEF Distributed
  <2> QED
    BY <2>1
<1>3. Distributed(G, L, n)
  BY <1>1, <1>2 DEF Distributed
<1> QED
  BY <1>3 DEF ChainInv

\* A record of the cache has a reference, the cache's own.
LEMMA CachedHasRefs ==
  ASSUME NEW H \in [Handles -> HandleRecords], RecordInv(H), NEW e \in CachedIn(H)
  PROVE  H[e].refs \in Nat \ {0}
<1>1. e \in Handles /\ H[e].in_cache
  BY DEF CachedIn
<1>2. H[e].refs \in Nat
  BY <1>1 DEF HandleRecords
<1>3. H[e].refs = 0 => H[e] = Freed
  BY <1>1 DEF RecordInv
<1>4. H[e] # Freed
  BY <1>1 DEF Freed
<1> QED
  BY <1>2, <1>3, <1>4

\* A client's reference to a record of the cache.
LEMMA RefKeeps ==
  ASSUME NEW H, NEW table, NEW lru, NEW in_use, NEW usage,
         PartsInv(H, table, lru, in_use, usage),
         NEW e \in CachedIn(H),
         NEW G, G = [H EXCEPT ![e].refs = @ + 1]
  PROVE  PartsInv(G, table, IF H[e].refs = 1 THEN RemoveFirst(lru, e) ELSE lru,
                  IF H[e].refs = 1 THEN in_use \cup {e} ELSE in_use, usage)
<1>1. e \in Handles /\ H[e].in_cache
  BY DEF CachedIn
<1>2. H \in [Handles -> HandleRecords] /\ lru \in Seq(Handles)
  BY DEF PartsInv
<1>3. RecordInv(H) /\ ChainInv(H, table.list) /\ ListInv(H, lru, in_use)
        /\ CountInv(H, table.element_num, usage)
  BY DEF PartsInv
<1>4. /\ G \in [Handles -> HandleRecords]
      /\ \A h \in Handles \ {e} : G[h] = H[h]
      /\ G[e].key = H[e].key /\ G[e].in_cache = H[e].in_cache /\ G[e].refs = H[e].refs + 1
  <2>1. \A h \in Handles \ {e} : G[h] = H[h]
    BY <1>2
  <2>2. G[e] = [H[e] EXCEPT !.refs = @ + 1]
    BY <1>1, <1>2
  <2>3. H[e] \in HandleRecords
    BY <1>1, <1>2
  <2>4. /\ G[e] \in HandleRecords
        /\ G[e].key = H[e].key /\ G[e].in_cache = H[e].in_cache /\ G[e].refs = H[e].refs + 1
    BY <2>2, <2>3 DEF HandleRecords
  <2>5. G \in [Handles -> HandleRecords]
    BY <2>4, <2>1, <1>2
  <2> QED
    BY <2>1, <2>4, <2>5
<1>5. H[e].refs \in Nat \ {0}
  BY <1>2, <1>3, CachedHasRefs
<1>6. CachedIn(G) = CachedIn(H) /\ \A h \in CachedIn(H) : G[h].key = H[h].key
  <2>1. \A h \in Handles : G[h].in_cache <=> H[h].in_cache
    BY <1>4
  <2>2. \A h \in Handles : G[h].key = H[h].key
    BY <1>4
  <2> QED
    BY <2>1, <2>2 DEF CachedIn
<1>7. RecordInv(G)
  <2>1. \A h \in Handles : G[h].refs = 0 => G[h] = Freed
    BY <1>4, <1>5, <1>3 DEF RecordInv
  <2> QED
    BY <2>1, <1>6, <1>3 DEF RecordInv
<1>8. ChainInv(G, table.list)
  BY <1>6, <1>3, ChainsKept
<1>9. CountInv(G, table.element_num, usage)
  BY <1>6, <1>3 DEF CountInv
<1>10. CASE H[e].refs = 1
  <2>1. e \in ToSet(lru)
    BY <1>10, <1>3 DEF ListInv
  <2>2. /\ IsInjective(RemoveFirst(lru, e)) /\ RemoveFirst(lru, e) \in Seq(Handles)
        /\ ToSet(RemoveFirst(lru, e)) = ToSet(lru) \ {e}
    BY <2>1, <1>2, <1>3, Unlinked DEF ListInv
  <2>3. ToSet(lru) \ {e} = {h \in CachedIn(G) : G[h].refs = 1}
    BY <1>10, <1>3, <1>4, <1>6 DEF ListInv, CachedIn
  <2>4. in_use \cup {e} = {h \in CachedIn(G) : G[h].refs # 1}
    BY <1>10, <1>1, <1>3, <1>4, <1>6 DEF ListInv, CachedIn
  <2>5. ListInv(G, RemoveFirst(lru, e), in_use \cup {e})
    BY <2>2, <2>3, <2>4 DEF ListInv
  <2> QED
    BY <1>10, <2>2, <2>5, <1>4, <1>7, <1>8, <1>9 DEF PartsInv
<1>11. CASE H[e].refs # 1
  <2>1. \A h \in CachedIn(H) : G[h].refs = 1 <=> H[h].refs = 1
    BY <1>11, <1>4, <1>5 DEF CachedIn
  <2>2. ListInv(G, lru, in_use)
    BY <2>1, <1>3, <1>6 DEF ListInv
  <2> QED
    BY <1>11, <1>2, <2>2, <1>4, <1>7, <1>8, <1>9 DEF PartsInv
<1> QED
  BY <1>10, <1>11

LEMMA RefEffect ==
  ASSUME NEW c, CacheInv(c), NEW e \in CachedIn(c.handles)
  PROVE  /\ CacheInv(Ref(c, e))
         /\ Ref(c, e).handles = [c.handles EXCEPT ![e].refs = @ + 1]
<1> DEFINE G == [c.handles EXCEPT ![e].refs = @ + 1]
           lru == IF c.handles[e].refs = 1 THEN RemoveFirst(c.lru, e) ELSE c.lru
           in_use == IF c.handles[e].refs = 1 THEN c.in_use \cup {e} ELSE c.in_use
<1>1. e \in Handles /\ c.handles[e].in_cache /\ c \in Caches
  BY DEF CachedIn, CacheInv
<1>2. Ref(c, e) = [handles |-> G, table |-> c.table, lru |-> lru,
                   in_use |-> in_use, usage |-> c.usage]
  <2> DEFINE d == Ref(c, e)
  <2>1. d.handles = G
    BY <1>1 DEF Ref, Caches
  <2>2. d.table = c.table /\ d.usage = c.usage
    BY <1>1 DEF Ref, Caches
  <2>3. d.lru = lru
    BY <1>1 DEF Ref, Caches
  <2>4. d.in_use = in_use
    BY <1>1 DEF Ref, Caches
  <2>5. ASSUME NEW x, x = Ref(c, e)
        PROVE  x = [handles |-> x.handles, table |-> x.table, lru |-> x.lru,
                    in_use |-> x.in_use, usage |-> x.usage]
    BY <2>5, <1>1 DEF Ref, Caches
  <2> HIDE DEF d, G, lru, in_use
  <2> QED
    BY <2>1, <2>2, <2>3, <2>4, <2>5 DEF d
<1>3. PartsInv(G, c.table, lru, in_use, c.usage)
  <2>1. PartsInv(c.handles, c.table, c.lru, c.in_use, c.usage)
    BY DEF CacheInv
  <2> QED
    BY <2>1, RefKeeps
<1> HIDE DEF G, lru, in_use
<1>4. CacheInv(Ref(c, e))
  BY <1>2, <1>3, CacheOfParts
<1>5. Ref(c, e).handles = G
  BY <1>2
<1> QED
  BY <1>4, <1>5 DEF G

\* One reference less of a record that keeps another: the cache's own makes it
\* idle.
LEMMA UnrefKeeps ==
  ASSUME NEW H, NEW table, NEW lru, NEW in_use, NEW usage,
         PartsInv(H, table, lru, in_use, usage),
         NEW e \in Handles, H[e].refs > 1,
         NEW G, G = [H EXCEPT ![e].refs = H[e].refs - 1],
         NEW last, last = (H[e].refs - 1 = 1 /\ H[e].in_cache)
  PROVE  PartsInv(G, table, IF last THEN Append(lru, e) ELSE lru,
                  IF last THEN in_use \ {e} ELSE in_use, usage)
<1>2. H \in [Handles -> HandleRecords] /\ lru \in Seq(Handles)
  BY DEF PartsInv
<1>3. RecordInv(H) /\ ChainInv(H, table.list) /\ ListInv(H, lru, in_use)
        /\ CountInv(H, table.element_num, usage)
  BY DEF PartsInv
<1>1. H[e].refs \in Nat
  BY <1>2 DEF HandleRecords
<1>4. /\ G \in [Handles -> HandleRecords]
      /\ \A h \in Handles \ {e} : G[h] = H[h]
      /\ G[e].key = H[e].key /\ G[e].in_cache = H[e].in_cache /\ G[e].refs = H[e].refs - 1
  <2>1. \A h \in Handles \ {e} : G[h] = H[h]
    BY <1>2
  <2>2. G[e] = [H[e] EXCEPT !.refs = H[e].refs - 1]
    BY <1>2
  <2>3. H[e] \in HandleRecords
    BY <1>2
  <2>4. /\ G[e] \in HandleRecords
        /\ G[e].key = H[e].key /\ G[e].in_cache = H[e].in_cache /\ G[e].refs = H[e].refs - 1
    BY <2>2, <2>3, <1>1 DEF HandleRecords
  <2>5. G \in [Handles -> HandleRecords]
    BY <2>4, <2>1, <1>2
  <2> QED
    BY <2>1, <2>4, <2>5
<1>6. CachedIn(G) = CachedIn(H) /\ \A h \in CachedIn(H) : G[h].key = H[h].key
  <2>1. \A h \in Handles : G[h].in_cache <=> H[h].in_cache
    BY <1>4
  <2>2. \A h \in Handles : G[h].key = H[h].key
    BY <1>4
  <2> QED
    BY <2>1, <2>2 DEF CachedIn
<1>7. RecordInv(G)
  <2>1. \A h \in Handles : G[h].refs = 0 => G[h] = Freed
    BY <1>4, <1>1, <1>3 DEF RecordInv
  <2> QED
    BY <2>1, <1>6, <1>3 DEF RecordInv
<1>8. ChainInv(G, table.list)
  BY <1>6, <1>3, ChainsKept
<1>9. CountInv(G, table.element_num, usage)
  BY <1>6, <1>3 DEF CountInv
<1>10. CASE last
  <2>a. H[e].refs - 1 = 1 /\ H[e].in_cache
    BY <1>10, Zenon
  <2>0. H[e].refs = 2 /\ e \in CachedIn(H)
    BY <2>a, <1>1 DEF CachedIn
  <2>1. e \notin ToSet(lru)
    BY <2>0, <1>3 DEF ListInv
  <2>2. /\ IsInjective(Append(lru, e)) /\ Append(lru, e) \in Seq(Handles)
        /\ ToSet(Append(lru, e)) = ToSet(lru) \cup {e}
    BY <2>1, <1>2, <1>3, Linked DEF ListInv
  <2>3. ToSet(lru) \cup {e} = {h \in CachedIn(G) : G[h].refs = 1}
    BY <2>0, <1>3, <1>4, <1>6 DEF ListInv, CachedIn
  <2>4. in_use \ {e} = {h \in CachedIn(G) : G[h].refs # 1}
    BY <2>0, <1>3, <1>4, <1>6 DEF ListInv, CachedIn
  <2>5. ListInv(G, Append(lru, e), in_use \ {e})
    BY <2>2, <2>3, <2>4 DEF ListInv
  <2> QED
    BY <1>10, <2>2, <2>5, <1>4, <1>7, <1>8, <1>9 DEF PartsInv
<1>11. CASE ~last
  <2>0. e \in CachedIn(H) => H[e].refs - 1 # 1
    BY <1>11 DEF CachedIn
  <2>1. \A h \in CachedIn(H) : G[h].refs = 1 <=> H[h].refs = 1
    BY <2>0, <1>4, <1>1 DEF CachedIn
  <2>2. ListInv(G, lru, in_use)
    BY <2>1, <1>3, <1>6 DEF ListInv
  <2> QED
    BY <1>11, <1>2, <2>2, <1>4, <1>7, <1>8, <1>9 DEF PartsInv
<1> QED
  BY <1>10, <1>11

\* A record that is not in the cache is freed or made.
LEMMA UncachedKeeps ==
  ASSUME NEW H, NEW table, NEW lru, NEW in_use, NEW usage,
         PartsInv(H, table, lru, in_use, usage),
         NEW e \in Handles, e \notin CachedIn(H),
         NEW r \in HandleRecords, ~r.in_cache, r.refs = 0 => r = Freed,
         NEW G, G = [H EXCEPT ![e] = r]
  PROVE  PartsInv(G, table, lru, in_use, usage)
<1>2. H \in [Handles -> HandleRecords] /\ lru \in Seq(Handles)
  BY DEF PartsInv
<1>3. RecordInv(H) /\ ChainInv(H, table.list) /\ ListInv(H, lru, in_use)
        /\ CountInv(H, table.element_num, usage)
  BY DEF PartsInv
<1>4. /\ G \in [Handles -> HandleRecords]
      /\ \A h \in Handles \ {e} : G[h] = H[h]
      /\ G[e] = r
  BY <1>2
<1>6. CachedIn(G) = CachedIn(H) /\ \A h \in CachedIn(H) : G[h] = H[h]
  <2>1. \A h \in Handles \ {e} : G[h] = H[h]
    BY <1>4
  <2>2. ~G[e].in_cache
    BY <1>4
  <2> QED
    BY <2>1, <2>2 DEF CachedIn
<1>7. RecordInv(G)
  <2>1. \A h \in Handles : G[h].refs = 0 => G[h] = Freed
    BY <1>4, <1>3 DEF RecordInv
  <2> QED
    BY <2>1, <1>6, <1>3 DEF RecordInv
<1>8. ChainInv(G, table.list)
  BY <1>6, <1>3, ChainsKept
<1>9. CountInv(G, table.element_num, usage) /\ ListInv(G, lru, in_use)
  BY <1>6, <1>3 DEF CountInv, ListInv
<1> QED
  BY <1>4, <1>7, <1>8, <1>9 DEF PartsInv

\* What Unref leaves of the handles.
Unreferenced(H, e) ==
  IF H[e].refs = 1 THEN [H EXCEPT ![e] = Freed] ELSE [H EXCEPT ![e].refs = H[e].refs - 1]

LEMMA UnrefEffect ==
  ASSUME NEW c, CacheInv(c), NEW e \in Handles, c.handles[e].refs > 0,
         e \in CachedIn(c.handles) => c.handles[e].refs > 1
  PROVE  /\ CacheInv(Unref(c, e))
         /\ Unref(c, e).handles = Unreferenced(c.handles, e)
<1>0. PartsInv(c.handles, c.table, c.lru, c.in_use, c.usage) /\ c \in Caches
  BY DEF CacheInv
<1>1. c.handles[e].refs \in Nat
  BY <1>0 DEF PartsInv, HandleRecords
<1>2. CASE c.handles[e].refs = 1
  <2> DEFINE G == [c.handles EXCEPT ![e] = Freed]
  <2>1. Unref(c, e) = [handles |-> G, table |-> c.table, lru |-> c.lru,
                       in_use |-> c.in_use, usage |-> c.usage]
    <3> DEFINE d == Unref(c, e)
    <3>0. d = [c EXCEPT !.handles[e] = Freed]
      BY <1>2 DEF Unref
    <3>1. d.handles = G
      BY <1>0, <3>0 DEF Caches
    <3>2. d.table = c.table /\ d.usage = c.usage /\ d.lru = c.lru /\ d.in_use = c.in_use
      BY <1>0, <3>0 DEF Caches
    <3>3. ASSUME NEW x, x = [c EXCEPT !.handles[e] = Freed]
          PROVE  x = [handles |-> x.handles, table |-> x.table, lru |-> x.lru,
                      in_use |-> x.in_use, usage |-> x.usage]
      BY <3>3, <1>0 DEF Caches
    <3> HIDE DEF d, G
    <3> QED
      BY <3>0, <3>1, <3>2, <3>3 DEF d
  <2>2. PartsInv(G, c.table, c.lru, c.in_use, c.usage)
    <3>1. Freed \in HandleRecords /\ ~Freed.in_cache
      BY DEF Freed, HandleRecords
    <3> QED
      BY <3>1, <1>0, <1>2, UncachedKeeps
  <2> HIDE DEF G
  <2>3. CacheInv(Unref(c, e)) /\ Unref(c, e).handles = G
    BY <2>1, <2>2, CacheOfParts
  <2> QED
    BY <2>3, <1>2 DEF G, Unreferenced
<1>3. CASE c.handles[e].refs # 1
  <2> DEFINE G == [c.handles EXCEPT ![e].refs = c.handles[e].refs - 1]
             last == c.handles[e].refs - 1 = 1 /\ c.handles[e].in_cache
             lru == IF last THEN Append(c.lru, e) ELSE c.lru
             in_use == IF last THEN c.in_use \ {e} ELSE c.in_use
  <2>1. Unref(c, e) = [handles |-> G, table |-> c.table, lru |-> lru,
                       in_use |-> in_use, usage |-> c.usage]
    <3> DEFINE d == Unref(c, e)
    <3>0. d = [c EXCEPT !.handles[e].refs = c.handles[e].refs - 1,
                        !.lru = lru, !.in_use = in_use]
      BY <1>1, <1>3 DEF Unref
    <3> HIDE DEF lru, in_use
    <3>1. d.handles = G
      BY <1>0, <3>0 DEF Caches
    <3>2. d.table = c.table /\ d.usage = c.usage
      BY <1>0, <3>0 DEF Caches
    <3>3. d.lru = lru /\ d.in_use = in_use
      BY <1>0, <3>0 DEF Caches
    <3>4. ASSUME NEW x, x = [c EXCEPT !.handles[e].refs = c.handles[e].refs - 1,
                                      !.lru = lru, !.in_use = in_use]
          PROVE  x = [handles |-> x.handles, table |-> x.table, lru |-> x.lru,
                      in_use |-> x.in_use, usage |-> x.usage]
      BY <3>4, <1>0 DEF Caches
    <3> HIDE DEF d, G
    <3> QED
      BY <3>0, <3>1, <3>2, <3>3, <3>4 DEF d
  <2>2. PartsInv(G, c.table, lru, in_use, c.usage)
    <3>1. c.handles[e].refs > 1
      BY <1>1, <1>3
    <3> QED
      BY <1>0, <3>1, UnrefKeeps
  <2> HIDE DEF G, lru, in_use
  <2>3. CacheInv(Unref(c, e)) /\ Unref(c, e).handles = G
    BY <2>1, <2>2, CacheOfParts
  <2> QED
    BY <2>3, <1>3 DEF G, Unreferenced
<1> QED
  BY <1>2, <1>3

\* The chains once a record has left its own.
LEMMA ChainWithout ==
  ASSUME NEW H, NEW G, NEW L, NEW n \in Nat \ {0}, Distributed(H, L, n),
         NEW e \in CachedIn(H), H[e].key \in Keys,
         CachedIn(G) = CachedIn(H) \ {e},
         \A h \in CachedIn(G) : G[h].key = H[h].key
  PROVE  Distributed(G, [L EXCEPT ![Hash[H[e].key] % n] = @ \ {e}], n)
<1> DEFINE a == Hash[H[e].key] % n
           M == [L EXCEPT ![a] = @ \ {e}]
<1>1. a \in 0..(n - 1)
  BY BucketOfKey
<1>2. L \in [0..(n - 1) -> SUBSET Handles]
  BY DEF Distributed
<1>3. M \in [0..(n - 1) -> SUBSET Handles]
  BY <1>1, <1>2
<1>4. ASSUME NEW b \in 0..(n - 1)
      PROVE  M[b] = {h \in CachedIn(G) : Hash[G[h].key] % n = b}
  <2>1. L[b] = {h \in CachedIn(H) : Hash[H[h].key] % n = b}
    BY DEF Distributed
  <2>2. M[b] = L[b] \ {e}
    <3>1. CASE b = a
      BY <3>1, <1>1, <1>2
    <3>2. CASE b # a
      BY <3>2, <1>1, <1>2, <2>1
    <3> QED
      BY <3>1, <3>2
  <2> QED
    BY <2>1, <2>2
<1> HIDE DEF M
<1>5. Distributed(G, M, n)
  BY <1>3, <1>4 DEF Distributed
<1> QED
  BY <1>5 DEF M

\* Finitely many records are cached.
LEMMA CachedFinite ==
  ASSUME NEW H
  PROVE  IsFiniteSet(CachedIn(H)) /\ Cardinality(CachedIn(H)) \in Nat
<1>1. CachedIn(H) \in SUBSET Handles
  BY DEF CachedIn
<1>2. IsFiniteSet(CachedIn(H))
  BY <1>1, LRUCacheAssumption, FS_Subset
<1> QED
  BY <1>2, FS_CardinalityType

\* A record leaves the cache.
LEMMA EraseKeeps ==
  ASSUME NEW H, NEW table, NEW lru, NEW in_use, NEW usage,
         PartsInv(H, table, lru, in_use, usage),
         NEW e \in CachedIn(H), NEW n \in Nat \ {0}, Distributed(H, table.list, n),
         NEW G \in [Handles -> HandleRecords],
         \A h \in Handles \ {e} : G[h] = H[h],
         ~G[e].in_cache, G[e].refs = 0 => G[e] = Freed
  PROVE  PartsInv(G, [list |-> [table.list EXCEPT ![Hash[H[e].key] % n] = @ \ {e}],
                      element_num |-> table.element_num - 1],
                  RemoveFirst(lru, e), in_use \ {e}, usage - 1)
<1> DEFINE L == [table.list EXCEPT ![Hash[H[e].key] % n] = @ \ {e}]
           T == [list |-> L, element_num |-> table.element_num - 1]
<1>1. H \in [Handles -> HandleRecords] /\ lru \in Seq(Handles) /\ table.element_num \in Int
  BY DEF PartsInv
<1>2. RecordInv(H) /\ ListInv(H, lru, in_use) /\ CountInv(H, table.element_num, usage)
  BY DEF PartsInv
<1>3. e \in Handles /\ H[e].key \in Keys
  BY <1>2 DEF CachedIn, RecordInv
<1>4. CachedIn(G) = CachedIn(H) \ {e}
  BY <1>3 DEF CachedIn
<1>5. \A h \in CachedIn(G) : G[h] = H[h]
  BY <1>4 DEF CachedIn
<1>6. Distributed(G, L, n)
  BY <1>3, <1>4, <1>5, ChainWithout
<1> HIDE DEF L
<1>7. ChainInv(G, L) /\ L \in ChainLists
  BY <1>6 DEF ChainInv, Distributed, ChainLists
<1>8. RecordInv(G)
  <2>1. \A h \in Handles : G[h].refs = 0 => G[h] = Freed
    BY <1>2 DEF RecordInv
  <2> QED
    BY <2>1, <1>4, <1>5, <1>2 DEF RecordInv
<1>9. CountInv(G, table.element_num - 1, usage - 1)
  <2>1. Cardinality(CachedIn(H) \ {e}) = Cardinality(CachedIn(H)) - 1
    BY CachedFinite, FS_RemoveElement
  <2> QED
    BY <2>1, <1>4, <1>2 DEF CountInv
<1>10. ListInv(G, RemoveFirst(lru, e), in_use \ {e}) /\ RemoveFirst(lru, e) \in Seq(Handles)
  <2>1. CASE e \in ToSet(lru)
    <3>1. /\ IsInjective(RemoveFirst(lru, e)) /\ RemoveFirst(lru, e) \in Seq(Handles)
          /\ ToSet(RemoveFirst(lru, e)) = ToSet(lru) \ {e}
      BY <2>1, <1>1, <1>2, Unlinked DEF ListInv
    <3>2. ToSet(lru) \ {e} = {h \in CachedIn(G) : G[h].refs = 1}
      BY <1>2, <1>4, <1>5 DEF ListInv
    <3>3. in_use \ {e} = {h \in CachedIn(G) : G[h].refs # 1}
      BY <1>2, <1>4, <1>5 DEF ListInv
    <3> QED
      BY <3>1, <3>2, <3>3 DEF ListInv
  <2>2. CASE e \notin ToSet(lru)
    <3>1. RemoveFirst(lru, e) = lru
      BY <2>2, <1>1, NotLinked
    <3>2. ToSet(lru) = {h \in CachedIn(G) : G[h].refs = 1}
      BY <2>2, <1>2, <1>4, <1>5 DEF ListInv
    <3>3. in_use \ {e} = {h \in CachedIn(G) : G[h].refs # 1}
      BY <1>2, <1>4, <1>5 DEF ListInv
    <3> QED
      BY <3>1, <3>2, <3>3, <1>1, <1>2 DEF ListInv
  <2> QED
    BY <2>1, <2>2
<1>11. /\ T \in [list : ChainLists, element_num : Int]
       /\ T.list = L /\ T.element_num = table.element_num - 1
  BY <1>1, <1>7
<1> HIDE DEF T
<1>12. PartsInv(G, T, RemoveFirst(lru, e), in_use \ {e}, usage - 1)
  BY <1>7, <1>8, <1>9, <1>10, <1>11 DEF PartsInv
<1> QED
  BY <1>12 DEF T, L

\* What FinishErase leaves of a record.
Dropped(r) ==
  IF r.refs = 1 THEN Freed ELSE [[r EXCEPT !.in_cache = FALSE] EXCEPT !.refs = r.refs - 1]

\* FinishErase, part by part.
LEMMA FinishEraseParts ==
  ASSUME NEW c \in Caches, NEW e \in Handles, c.handles[e].refs > 0
  PROVE  FinishErase(c, e) =
           [handles |-> [c.handles EXCEPT ![e] = Dropped(c.handles[e])],
            table |-> c.table, lru |-> RemoveFirst(c.lru, e),
            in_use |-> c.in_use \ {e}, usage |-> c.usage - 1]
<1> DEFINE r == c.handles[e]
           lru == RemoveFirst(c.lru, e)
           b == [c EXCEPT !.lru = RemoveFirst(c.lru, e), !.in_use = c.in_use \ {e},
                          !.handles[e].in_cache = FALSE, !.usage = c.usage - 1]
<1>1. e # Null
  BY LRUCacheAssumption DEF Null
<1>2. FinishErase(c, e) = Unref(b, e)
  BY <1>1 DEF FinishErase
<1>3. r \in HandleRecords /\ r.refs \in Nat
  BY DEF Caches, HandleRecords
<1>4. b.handles = [c.handles EXCEPT ![e].in_cache = FALSE]
  BY DEF Caches
<1>5. b.table = c.table /\ b.usage = c.usage - 1
  BY DEF Caches
<1>6. b.in_use = c.in_use \ {e} /\ b.lru = lru
  BY DEF Caches
<1>7. ASSUME NEW x, x = b
      PROVE  x = [handles |-> x.handles, table |-> x.table, lru |-> x.lru,
                  in_use |-> x.in_use, usage |-> x.usage]
  BY <1>7 DEF Caches
<1> HIDE DEF b, lru
<1>8. b = [handles |-> [c.handles EXCEPT ![e].in_cache = FALSE], table |-> c.table,
           lru |-> lru, in_use |-> c.in_use \ {e}, usage |-> c.usage - 1]
  BY <1>4, <1>5, <1>6, <1>7
<1> DEFINE B == [c.handles EXCEPT ![e].in_cache = FALSE]
<1>9a. B[e] = [r EXCEPT !.in_cache = FALSE]
  BY DEF Caches
<1>9. B[e] \in HandleRecords /\ B[e].key = r.key /\ B[e].refs = r.refs /\ ~B[e].in_cache
  BY <1>9a, <1>3 DEF HandleRecords
<1>10. B \in [Handles -> HandleRecords]
  BY <1>9, <1>3 DEF Caches, HandleRecords
<1>11. c.handles \in [Handles -> HandleRecords]
  BY DEF Caches
<1>12. \A h \in Handles \ {e} : B[h] = c.handles[h]
  BY <1>11
<1> HIDE DEF B
<1>13. ASSUME NEW q
       PROVE  [B EXCEPT ![e] = q] = [c.handles EXCEPT ![e] = q]
  BY <1>10, <1>11, <1>12
<1>14. CASE r.refs = 1
  <2>1. Unref(b, e) = [b EXCEPT !.handles[e] = Freed]
    BY <1>14, <1>8, <1>9 DEF Unref, B
  <2>2. Unref(b, e) = [b EXCEPT !.handles = [B EXCEPT ![e] = Freed]]
    BY <2>1, <1>8 DEF B
  <2>3. [B EXCEPT ![e] = Freed] = [c.handles EXCEPT ![e] = Dropped(r)]
    BY <1>14, <1>13 DEF Dropped
  <2> QED
    BY <1>2, <2>2, <2>3, <1>8 DEF lru
<1>15. CASE r.refs # 1
  <2>1. B[e].refs = r.refs /\ ~B[e].in_cache
    BY <1>9
  <2>2. b.handles[e].refs = r.refs /\ ~b.handles[e].in_cache
    BY <2>1, <1>8 DEF B
  <2>3. Unref(b, e) = [handles |-> [B EXCEPT ![e] = [B[e] EXCEPT !.refs = r.refs - 1]],
                       table |-> b.table, lru |-> b.lru, in_use |-> b.in_use, usage |-> b.usage]
    <3>1. Unref(b, e) = [b EXCEPT !.handles[e].refs = r.refs - 1,
                                  !.lru = b.lru, !.in_use = b.in_use]
      BY <1>15, <1>3, <2>2 DEF Unref
    <3>2. b.handles = B
      BY <1>8 DEF B
    <3> DEFINE d == [b EXCEPT !.handles[e].refs = r.refs - 1, !.lru = b.lru, !.in_use = b.in_use]
    <3>3. d.handles = [B EXCEPT ![e] = [B[e] EXCEPT !.refs = r.refs - 1]]
      BY <3>2, <1>8
    <3>4. d.table = b.table /\ d.usage = b.usage /\ d.lru = b.lru /\ d.in_use = b.in_use
      BY <1>8
    <3>5. ASSUME NEW x, x = d
          PROVE  x = [handles |-> x.handles, table |-> x.table, lru |-> x.lru,
                      in_use |-> x.in_use, usage |-> x.usage]
      BY <3>5, <1>8
    <3> HIDE DEF d
    <3> QED
      BY <3>1, <3>3, <3>4, <3>5 DEF d
  <2>4. [B[e] EXCEPT !.refs = r.refs - 1] = Dropped(r)
    BY <1>15, <1>9a DEF Dropped
  <2>5. [B EXCEPT ![e] = Dropped(r)] = [c.handles EXCEPT ![e] = Dropped(r)]
    BY <1>13
  <2> QED
    BY <1>2, <2>3, <2>4, <2>5, <1>5, <1>6 DEF lru
<1> QED
  BY <1>14, <1>15

\* What is left of a dropped record.
LEMMA DroppedRecord ==
  ASSUME NEW H \in [Handles -> HandleRecords], NEW e \in Handles, H[e].refs > 0
  PROVE  /\ [H EXCEPT ![e] = Dropped(H[e])] \in [Handles -> HandleRecords]
         /\ ~Dropped(H[e]).in_cache
         /\ Dropped(H[e]).refs = H[e].refs - 1
         /\ Dropped(H[e]).refs = 0 => Dropped(H[e]) = Freed
<1> DEFINE r == H[e]
<1>1. r \in HandleRecords /\ r.refs \in Nat /\ r.refs > 0
  BY DEF HandleRecords
<1>2. CASE r.refs = 1
  <2>1. Dropped(r) = Freed
    BY <1>2 DEF Dropped
  <2>2. Freed \in HandleRecords /\ ~Freed.in_cache /\ Freed.refs = 0
    BY DEF Freed, HandleRecords
  <2> QED
    BY <2>1, <2>2, <1>2
<1>3. CASE r.refs # 1
  <2> DEFINE s == [r EXCEPT !.in_cache = FALSE]
             t == [s EXCEPT !.refs = r.refs - 1]
  <2>1. s \in HandleRecords /\ ~s.in_cache
    BY <1>1 DEF HandleRecords
  <2> HIDE DEF s
  <2>2. r.refs - 1 \in Nat \ {0}
    BY <1>1, <1>3
  <2>3. t \in HandleRecords /\ ~t.in_cache /\ t.refs = r.refs - 1
    BY <2>1, <2>2 DEF HandleRecords
  <2> HIDE DEF t
  <2>4. Dropped(r) = t
    BY <1>3 DEF Dropped, t, s
  <2> QED
    BY <2>2, <2>3, <2>4
<1> QED
  BY <1>2, <1>3

\* TableRemove, part by part.
LEMMA TableRemoveParts ==
  ASSUME NEW c \in Caches, NEW k, TableLookup(c, k) # Null, NEW a, a = Bucket(c.table, k),
         NEW e, e = TableLookup(c, k)
  PROVE  TableRemove(c, k) =
           [handles |-> c.handles,
            table |-> [list |-> [c.table.list EXCEPT ![a] = @ \ {e}],
                       element_num |-> c.table.element_num - 1],
            lru |-> c.lru, in_use |-> c.in_use, usage |-> c.usage]
<1> DEFINE d == [c EXCEPT !.table.list[a] = @ \ {e}, !.table.element_num = @ - 1]
<1>1. TableRemove(c, k) = d
  BY DEF TableRemove
<1>2. c.table \in [list : ChainLists, element_num : Int]
  BY DEF Caches
<1>3. d.table = [list |-> [c.table.list EXCEPT ![a] = @ \ {e}],
                 element_num |-> c.table.element_num - 1]
  BY <1>2 DEF Caches
<1>4. d.handles = c.handles /\ d.lru = c.lru /\ d.in_use = c.in_use /\ d.usage = c.usage
  BY DEF Caches
<1>5. ASSUME NEW x, x = d
      PROVE  x = [handles |-> x.handles, table |-> x.table, lru |-> x.lru,
                  in_use |-> x.in_use, usage |-> x.usage]
  BY <1>5 DEF Caches
<1> HIDE DEF d
<1> QED
  BY <1>1, <1>3, <1>4, <1>5

\* Erase drops the record with the key, if there is one.
LEMMA EraseEffect ==
  ASSUME NEW c, CacheInv(c), NEW k \in Keys, NEW e, e = TableLookup(c, k)
  PROVE  /\ e = Null => Erase(c, k) = c
         /\ e # Null =>
              /\ CacheInv(Erase(c, k))
              /\ Erase(c, k).handles = [c.handles EXCEPT ![e] = Dropped(c.handles[e])]
              /\ Erase(c, k).lru = RemoveFirst(c.lru, e)
              /\ Erase(c, k).usage = c.usage - 1
<1>1. CASE e = Null
  BY <1>1 DEF Erase, TableRemove, FinishErase
<1>2. CASE e # Null
  <2>0. c \in Caches /\ PartsInv(c.handles, c.table, c.lru, c.in_use, c.usage)
    BY DEF CacheInv
  <2> DEFINE H == c.handles
             G == [c.handles EXCEPT ![e] = Dropped(c.handles[e])]
  <2>1. e \in CachedIn(H) /\ H[e].key = k
    BY <1>2, LookupFinds
  <2>2. H \in [Handles -> HandleRecords] /\ RecordInv(H)
    BY <2>0 DEF PartsInv
  <2>3. H[e].refs \in Nat \ {0} /\ e \in Handles
    BY <2>1, <2>2, CachedHasRefs DEF CachedIn
  <2>4. PICK n \in Nat \ {0} : Distributed(H, c.table.list, n)
    BY <2>0 DEF PartsInv, ChainInv
  <2>5. Buckets(c.table) = n
    BY <2>4, BucketsOfTable DEF Distributed
  <2>6. Bucket(c.table, k) = Hash[H[e].key] % n
    BY <2>1, <2>5 DEF Bucket
  <2> DEFINE T == [list |-> [c.table.list EXCEPT ![Hash[H[e].key] % n] = @ \ {e}],
                   element_num |-> c.table.element_num - 1]
             b == TableRemove(c, k)
  <2>7. b = [handles |-> H, table |-> T, lru |-> c.lru, in_use |-> c.in_use, usage |-> c.usage]
    <3>1. \A a : a = Bucket(c.table, k) =>
            b = [handles |-> c.handles,
                 table |-> [list |-> [c.table.list EXCEPT ![a] = @ \ {e}],
                            element_num |-> c.table.element_num - 1],
                 lru |-> c.lru, in_use |-> c.in_use, usage |-> c.usage]
      BY <1>2, <2>0, TableRemoveParts
    <3> QED
      BY <2>6, <3>1
  <2>8. /\ G \in [Handles -> HandleRecords]
        /\ \A h \in Handles \ {e} : G[h] = H[h]
        /\ G[e] = Dropped(H[e])
    BY <2>2, <2>3, DroppedRecord
  <2>9. ~G[e].in_cache /\ (G[e].refs = 0 => G[e] = Freed)
    BY <2>2, <2>3, <2>8, DroppedRecord
  <2> HIDE DEF G
  <2>10. PartsInv(G, T, RemoveFirst(c.lru, e), c.in_use \ {e}, c.usage - 1)
    BY <2>0, <2>1, <2>4, <2>8, <2>9, EraseKeeps
  <2>11. T \in [list : ChainLists, element_num : Int]
    BY <2>10 DEF PartsInv
  <2> HIDE DEF T
  <2>12. b \in Caches
    BY <2>0, <2>7, <2>11 DEF Caches
  <2> HIDE DEF b
  <2>13. /\ b.handles = c.handles /\ b.table = T /\ b.lru = c.lru
         /\ b.in_use = c.in_use /\ b.usage = c.usage
    BY <2>7
  <2>14. b.handles[e].refs > 0
    BY <2>3, <2>13
  <2>15. FinishErase(b, e) =
           [handles |-> [b.handles EXCEPT ![e] = Dropped(b.handles[e])],
            table |-> b.table, lru |-> RemoveFirst(b.lru, e),
            in_use |-> b.in_use \ {e}, usage |-> b.usage - 1]
    BY <2>3, <2>12, <2>14, FinishEraseParts
  <2>16. Erase(c, k) = FinishErase(b, e)
    BY DEF Erase, b
  <2>17. Erase(c, k) = [handles |-> G, table |-> T, lru |-> RemoveFirst(c.lru, e),
                        in_use |-> c.in_use \ {e}, usage |-> c.usage - 1]
    BY <2>13, <2>15, <2>16 DEF G
  <2>18. CacheInv(Erase(c, k))
    BY <2>10, <2>17, CacheOfParts
  <2> QED
    BY <1>2, <2>17, <2>18 DEF G
<1> QED
  BY <1>1, <1>2

----------------------------------------------------------------------------
(* Eviction.                                                               *)

\* One turn of the loop frees the oldest idle record.
LEMMA EvictOldestEffect ==
  ASSUME NEW c, CacheInv(c), c.lru # <<>>, NEW e, e = Head(c.lru)
  PROVE  /\ CacheInv(EvictOldest(c))
         /\ e \in CachedIn(c.handles) /\ c.handles[e].refs = 1
         /\ EvictOldest(c).handles = [c.handles EXCEPT ![e] = Freed]
         /\ Len(EvictOldest(c).lru) = Len(c.lru) - 1
         /\ EvictOldest(c).usage = c.usage - 1
<1>1. PartsInv(c.handles, c.table, c.lru, c.in_use, c.usage)
  BY DEF CacheInv
<1>2. c.lru \in Seq(Handles) /\ ListInv(c.handles, c.lru, c.in_use) /\ RecordInv(c.handles)
  BY <1>1 DEF PartsInv
<1>3. e \in ToSet(c.lru)
  <2>1. 1 \in DOMAIN c.lru /\ c.lru[1] = e
    BY <1>2
  <2> QED
    BY <2>1 DEF ToSet
<1>4. e \in CachedIn(c.handles) /\ c.handles[e].refs = 1
  BY <1>2, <1>3 DEF ListInv
<1>5. c.handles[e].key \in Keys
  BY <1>2, <1>4 DEF RecordInv
<1>6. TableLookup(c, c.handles[e].key) = e
  BY <1>4, <1>5, LookupFinds
<1>7. e # Null
  BY <1>4, LRUCacheAssumption DEF CachedIn, Null
<1>8. EvictOldest(c) = Erase(c, c.handles[e].key)
  BY DEF EvictOldest
<1>9. /\ CacheInv(EvictOldest(c))
      /\ EvictOldest(c).handles = [c.handles EXCEPT ![e] = Dropped(c.handles[e])]
      /\ EvictOldest(c).lru = RemoveFirst(c.lru, e)
      /\ EvictOldest(c).usage = c.usage - 1
  BY <1>5, <1>6, <1>7, <1>8, EraseEffect
<1>10. Dropped(c.handles[e]) = Freed
  BY <1>4 DEF Dropped
<1>11. Len(RemoveFirst(c.lru, e)) = Len(c.lru) - 1
  BY <1>2, <1>3, Unlinked DEF ListInv
<1> QED
  BY <1>4, <1>9, <1>10, <1>11

\* The states of the loop, turn by turn.
IsRun(c, n, f) == f = [i \in 0..n |-> IF i = 0 THEN c ELSE EvictOldest(f[i - 1])]

LEMMA RunExists ==
  ASSUME NEW c, NEW n \in Nat
  PROVE  \E f : IsRun(c, n, f)
<1> DEFINE Bad == {k \in Nat : ~ \E f : IsRun(c, k, f)}
<1>1. SUFFICES ASSUME Bad # {}
               PROVE  FALSE
  OBVIOUS
<1>2. PICK m \in Bad : \A k \in Bad : m <= k
  <2>1. Bad \in SUBSET Nat
    OBVIOUS
  <2> HIDE DEF Bad
  <2> QED
    BY <1>1, <2>1, LeastNatural
<1>3. m # 0
  <2>1. IsRun(c, 0, [i \in 0..0 |-> c])
    BY DEF IsRun
  <2> QED
    BY <2>1
<1>4. m - 1 \in Nat /\ m - 1 \notin Bad
  BY <1>2, <1>3
<1>5. PICK g : IsRun(c, m - 1, g)
  BY <1>4
<1> DEFINE f == [i \in 0..m |-> IF i < m THEN g[i] ELSE EvictOldest(g[m - 1])]
<1>6. IsRun(c, m, f)
  <2>1. \A i \in 0..(m - 1) : g[i] = IF i = 0 THEN c ELSE EvictOldest(g[i - 1])
    BY <1>5 DEF IsRun
  <2>2. ASSUME NEW i \in 0..m
        PROVE  f[i] = IF i = 0 THEN c ELSE EvictOldest(f[i - 1])
    <3>1. CASE i = 0
      BY <3>1, <2>1, <1>3
    <3>2. CASE i # 0
      <4>1. f[i - 1] = g[i - 1]
        BY <3>2
      <4>2. f[i] = EvictOldest(g[i - 1])
        <5>1. CASE i < m
          BY <5>1, <2>1, <3>2
        <5>2. CASE i = m
          BY <5>2
        <5> QED
          BY <5>1, <5>2
      <4> QED
        BY <4>1, <4>2, <3>2
    <3> QED
      BY <3>1, <3>2
  <2>3. f = [i \in 0..m |-> f[i]]
    OBVIOUS
  <2> HIDE DEF f
  <2> QED
    BY <2>2, <2>3 DEF IsRun
<1> QED
  BY <1>6

\* What any number of turns do: they free idle records and nothing else.
EvictedFrom(c, d, i) ==
  /\ CacheInv(d)
  /\ Len(d.lru) = Len(c.lru) - i
  /\ d.usage = c.usage - i
  /\ \A h \in Handles :
       \/ d.handles[h] = c.handles[h]
       \/ h \in CachedIn(c.handles) /\ c.handles[h].refs = 1 /\ d.handles[h] = Freed

LEMMA OneMoreTurn ==
  ASSUME NEW c, CacheInv(c), NEW d, NEW i \in Nat, EvictedFrom(c, d, i), i < Len(c.lru)
  PROVE  EvictedFrom(c, EvictOldest(d), i + 1)
<1>1. CacheInv(d) /\ Len(d.lru) = Len(c.lru) - i /\ d.usage = c.usage - i
  BY DEF EvictedFrom
<1>2. c \in Caches /\ d \in Caches
  BY <1>1 DEF CacheInv
<1>3. Len(c.lru) \in Nat /\ c.usage \in Int /\ d.handles \in [Handles -> HandleRecords]
  BY <1>2 DEF Caches
<1>4. d.lru # <<>>
  BY <1>1, <1>2, <1>3 DEF Caches
<1> DEFINE e == Head(d.lru)
<1>5. /\ CacheInv(EvictOldest(d))
      /\ e \in CachedIn(d.handles) /\ d.handles[e].refs = 1
      /\ EvictOldest(d).handles = [d.handles EXCEPT ![e] = Freed]
      /\ Len(EvictOldest(d).lru) = Len(d.lru) - 1
      /\ EvictOldest(d).usage = d.usage - 1
  BY <1>1, <1>4, EvictOldestEffect
<1>6. /\ Len(EvictOldest(d).lru) = Len(c.lru) - (i + 1)
      /\ EvictOldest(d).usage = c.usage - (i + 1)
  BY <1>1, <1>3, <1>5
<1> HIDE DEF e
<1>7. e \in Handles /\ d.handles[e].in_cache
  BY <1>5 DEF CachedIn
<1>8. d.handles[e] # Freed
  BY <1>7 DEF Freed
<1>9. ASSUME NEW h \in Handles
      PROVE  \/ EvictOldest(d).handles[h] = c.handles[h]
             \/ /\ h \in CachedIn(c.handles) /\ c.handles[h].refs = 1
                /\ EvictOldest(d).handles[h] = Freed
  <2>1. \/ d.handles[h] = c.handles[h]
        \/ h \in CachedIn(c.handles) /\ c.handles[h].refs = 1 /\ d.handles[h] = Freed
    BY DEF EvictedFrom
  <2>2. CASE h = e
    <3>1. d.handles[h] = c.handles[h]
      BY <2>1, <2>2, <1>8
    <3>2. c.handles[h].in_cache
      BY <3>1, <2>2, <1>7
    <3>3. h \in CachedIn(c.handles) /\ c.handles[h].refs = 1
      BY <3>1, <3>2, <2>2, <1>5 DEF CachedIn
    <3>4. EvictOldest(d).handles[h] = Freed
      BY <2>2, <1>3, <1>5, <1>7
    <3> QED
      BY <3>3, <3>4
  <2>3. CASE h # e
    <3>1. EvictOldest(d).handles[h] = d.handles[h]
      BY <2>3, <1>3, <1>5, <1>7
    <3> QED
      BY <2>1, <3>1
  <2> QED
    BY <2>2, <2>3
<1> QED
  BY <1>5, <1>6, <1>9 DEF EvictedFrom

LEMMA EvictedEffect ==
  ASSUME NEW c, CacheInv(c), NEW n \in Nat, n <= Len(c.lru)
  PROVE  EvictedFrom(c, Evicted(c, n), n)
<1>0. Len(c.lru) \in Nat /\ c.usage \in Int
  BY DEF CacheInv, Caches
<1> DEFINE f == CHOOSE f : f = [i \in 0..n |-> IF i = 0 THEN c ELSE EvictOldest(f[i - 1])]
<1>1. IsRun(c, n, f)
  BY RunExists DEF IsRun
<1>2. Evicted(c, n) = f[n]
  BY DEF Evicted
<1> HIDE DEF f
<1>3. \A i \in 0..n : f[i] = IF i = 0 THEN c ELSE EvictOldest(f[i - 1])
  BY <1>1 DEF IsRun
<1> DEFINE Bad == {i \in 0..n : ~EvictedFrom(c, f[i], i)}
<1>4. Bad = {}
  <2>1. SUFFICES ASSUME Bad # {}
                 PROVE  FALSE
    OBVIOUS
  <2>2. PICK m \in Bad : \A k \in Bad : m <= k
    <3>1. Bad \in SUBSET Nat
      OBVIOUS
    <3> HIDE DEF Bad
    <3> QED
      BY <2>1, <3>1, LeastNatural
  <2>3. m # 0
    <3>1. f[0] = c
      BY <1>3
    <3>2. Len(c.lru) = Len(c.lru) - 0 /\ c.usage = c.usage - 0
      BY <1>0
    <3>3. EvictedFrom(c, c, 0)
      BY <3>2 DEF EvictedFrom
    <3> QED
      BY <3>1, <3>3
  <2>4. m - 1 \in 0..n /\ m - 1 \in Nat /\ m - 1 < Len(c.lru) /\ m = (m - 1) + 1 /\ m \in 0..n
    BY <2>3, <1>0
  <2>5. EvictedFrom(c, f[m - 1], m - 1)
    BY <2>2, <2>4
  <2>6. EvictedFrom(c, EvictOldest(f[m - 1]), (m - 1) + 1)
    BY <2>4, <2>5, OneMoreTurn
  <2>7. f[m] = EvictOldest(f[m - 1])
    BY <2>3, <2>4, <1>3
  <2> QED
    BY <2>4, <2>6, <2>7
<1>5. EvictedFrom(c, f[n], n)
  BY <1>4
<1> QED
  BY <1>2, <1>5

\* The loop ends because the usage fits or because nothing is idle.
LEMMA EvictEffect ==
  ASSUME NEW c, CacheInv(c)
  PROVE  /\ \E i \in Nat : EvictedFrom(c, Evict(c), i)
         /\ Evict(c).usage <= Capacity \/ Evict(c).lru = <<>>
<1>0. Len(c.lru) \in Nat /\ c.usage \in Int /\ Capacity \in Nat
  BY LRUCacheAssumption DEF CacheInv, Caches
<1> DEFINE len == Len(c.lru)
           excess == IF c.usage > Capacity THEN c.usage - Capacity ELSE 0
           n == Turns(c, Capacity)
<1>1. n = Min({len, excess})
  BY DEF Turns
<1>2. excess \in Nat /\ c.usage <= Capacity + excess
  BY <1>0
<1> HIDE DEF len, excess, n
<1>3. n \in {len, excess} /\ n <= len /\ n <= excess
  <2>1. len \in Nat /\ excess \in Nat
    BY <1>0, <1>2 DEF len
  <2>2. \E x \in {len, excess} : \A y \in {len, excess} : x <= y
    BY <2>1
  <2>3. n \in {len, excess} /\ \A y \in {len, excess} : n <= y
    BY <1>1, <2>2 DEF Min
  <2> QED
    BY <2>3
<1>4. n \in Nat /\ n <= Len(c.lru)
  BY <1>0, <1>2, <1>3 DEF len
<1>5. EvictedFrom(c, Evict(c), n)
  BY <1>4, EvictedEffect DEF Evict, n
<1>6. CASE n = len
  <2>1. Len(Evict(c).lru) = 0 /\ Evict(c).lru \in Seq(Handles)
    BY <1>0, <1>5, <1>6 DEF EvictedFrom, len, CacheInv, Caches
  <2> QED
    BY <2>1, <1>4, <1>5
<1>7. CASE n = excess
  <2>1. Evict(c).usage = c.usage - n
    BY <1>5 DEF EvictedFrom
  <2>2. Evict(c).usage <= Capacity
    BY <2>1, <1>0, <1>2, <1>7
  <2> QED
    BY <2>2, <1>4, <1>5
<1> QED
  BY <1>3, <1>6, <1>7

----------------------------------------------------------------------------
(* Insertion.                                                              *)

\* The capacities tried by Resize, in turn.
IsDoubling(n, f) == f = [i \in 0..n |-> IF i = 0 THEN InitialBuckets ELSE 2 * f[i - 1]]

LEMMA DoublingExists ==
  ASSUME NEW n \in Nat
  PROVE  \E f : IsDoubling(n, f)
<1> DEFINE Bad == {k \in Nat : ~ \E f : IsDoubling(k, f)}
<1>1. SUFFICES ASSUME Bad # {}
               PROVE  FALSE
  OBVIOUS
<1>2. PICK m \in Bad : \A k \in Bad : m <= k
  <2>1. Bad \in SUBSET Nat
    OBVIOUS
  <2> HIDE DEF Bad
  <2> QED
    BY <1>1, <2>1, LeastNatural
<1>3. m # 0
  <2>1. IsDoubling(0, [i \in 0..0 |-> InitialBuckets])
    BY DEF IsDoubling
  <2> QED
    BY <2>1
<1>4. m - 1 \in Nat /\ m - 1 \notin Bad
  BY <1>2, <1>3
<1>5. PICK g : IsDoubling(m - 1, g)
  BY <1>4
<1> DEFINE f == [i \in 0..m |-> IF i < m THEN g[i] ELSE 2 * g[m - 1]]
<1>6. IsDoubling(m, f)
  <2>1. \A i \in 0..(m - 1) : g[i] = IF i = 0 THEN InitialBuckets ELSE 2 * g[i - 1]
    BY <1>5 DEF IsDoubling
  <2>2. ASSUME NEW i \in 0..m
        PROVE  f[i] = IF i = 0 THEN InitialBuckets ELSE 2 * f[i - 1]
    <3>1. CASE i = 0
      BY <3>1, <2>1, <1>3
    <3>2. CASE i # 0
      <4>1. f[i - 1] = g[i - 1]
        BY <3>2
      <4>2. f[i] = 2 * g[i - 1]
        <5>1. CASE i < m
          BY <5>1, <2>1, <3>2
        <5>2. CASE i = m
          BY <5>2
        <5> QED
          BY <5>1, <5>2
      <4> QED
        BY <4>1, <4>2, <3>2
    <3> QED
      BY <3>1, <3>2
  <2>3. f = [i \in 0..m |-> f[i]]
    OBVIOUS
  <2> HIDE DEF f
  <2> QED
    BY <2>2, <2>3 DEF IsDoubling
<1> QED
  BY <1>6

\* Doubling reaches any number of records, so Resize ends, with enough chains.
LEMMA NewCapacityIsEnough ==
  ASSUME NEW n \in Nat
  PROVE  NewCapacity(n) \in Nat \ {0} /\ NewCapacity(n) >= n
<1> DEFINE f == CHOOSE f : f = [i \in 0..n |-> IF i = 0 THEN InitialBuckets ELSE 2 * f[i - 1]]
           enough == {i \in 0..n : f[i] >= n}
<1>1. IsDoubling(n, f)
  BY DoublingExists DEF IsDoubling
<1>2. NewCapacity(n) = f[Min(enough)]
  BY DEF NewCapacity
<1> HIDE DEF f
<1>3. \A i \in 0..n : f[i] = IF i = 0 THEN InitialBuckets ELSE 2 * f[i - 1]
  BY <1>1 DEF IsDoubling
<1> DEFINE Bad == {i \in 0..n : ~(f[i] \in Nat /\ f[i] > i)}
<1>4. Bad = {}
  <2>1. SUFFICES ASSUME Bad # {}
                 PROVE  FALSE
    OBVIOUS
  <2>2. PICK m \in Bad : \A k \in Bad : m <= k
    <3>1. Bad \in SUBSET Nat
      OBVIOUS
    <3> HIDE DEF Bad
    <3> QED
      BY <2>1, <3>1, LeastNatural
  <2>3. m # 0
    <3>1. f[0] = InitialBuckets
      BY <1>3
    <3> QED
      BY <3>1, LRUCacheAssumption
  <2>4. m - 1 \in 0..n /\ m \in 0..n
    BY <2>3
  <2>5. f[m - 1] \in Nat /\ f[m - 1] > m - 1
    BY <2>2, <2>4
  <2>6. f[m] = 2 * f[m - 1]
    BY <2>3, <2>4, <1>3
  <2>7. f[m] \in Nat /\ f[m] > m
    BY <2>3, <2>4, <2>5, <2>6
  <2> QED
    BY <2>7
<1>5. \A i \in 0..n : f[i] \in Nat /\ f[i] > i
  BY <1>4
<1>6. n \in enough /\ enough \in SUBSET Nat
  BY <1>5
<1> HIDE DEF enough
<1>7. \E m \in enough : \A k \in enough : m <= k
  BY <1>6, LeastNatural
<1>8. Min(enough) \in enough
  BY <1>7 DEF Min
<1>9. Min(enough) \in 0..n /\ f[Min(enough)] >= n
  BY <1>8 DEF enough
<1>10. f[Min(enough)] \in Nat /\ f[Min(enough)] > 0
  BY <1>5, <1>9
<1> QED
  BY <1>2, <1>9, <1>10

\* The chains once a record has joined its own.
LEMMA ChainWith ==
  ASSUME NEW H, NEW G, NEW L, NEW n \in Nat \ {0}, Distributed(H, L, n),
         NEW e \in Handles, NEW k \in Keys,
         CachedIn(G) = CachedIn(H) \cup {e}, G[e].key = k,
         \A h \in CachedIn(H) : G[h].key = H[h].key
  PROVE  Distributed(G, [L EXCEPT ![Hash[k] % n] = @ \cup {e}], n)
<1> DEFINE a == Hash[k] % n
           M == [L EXCEPT ![a] = @ \cup {e}]
<1>1. a \in 0..(n - 1)
  BY BucketOfKey
<1>2. L \in [0..(n - 1) -> SUBSET Handles]
  BY DEF Distributed
<1>3. M \in [0..(n - 1) -> SUBSET Handles]
  BY <1>1, <1>2
<1>4. ASSUME NEW b \in 0..(n - 1)
      PROVE  M[b] = {h \in CachedIn(G) : Hash[G[h].key] % n = b}
  <2>1. L[b] = {h \in CachedIn(H) : Hash[H[h].key] % n = b}
    BY DEF Distributed
  <2>2. CASE b = a
    <3>1. M[b] = L[b] \cup {e}
      BY <2>2, <1>1, <1>2
    <3> QED
      BY <2>1, <2>2, <3>1
  <2>3. CASE b # a
    <3>1. M[b] = L[b]
      BY <2>3, <1>1, <1>2
    <3>2. e \in CachedIn(H) => Hash[H[e].key] % n # b
      BY <2>3
    <3> QED
      BY <2>1, <2>3, <3>1, <3>2
  <2> QED
    BY <2>2, <2>3
<1> HIDE DEF M
<1>5. Distributed(G, M, n)
  BY <1>3, <1>4 DEF Distributed
<1> QED
  BY <1>5 DEF M

\* A new record joins the cache, in use.
LEMMA AddKeeps ==
  ASSUME NEW H, NEW table, NEW lru, NEW in_use, NEW usage,
         PartsInv(H, table, lru, in_use, usage),
         NEW n \in Nat \ {0}, Distributed(H, table.list, n),
         NEW e \in Handles, e \notin CachedIn(H), NEW k \in Keys,
         \A h \in CachedIn(H) : H[h].key # k,
         NEW G \in [Handles -> HandleRecords],
         \A h \in Handles \ {e} : G[h] = H[h],
         G[e].in_cache, G[e].key = k, G[e].refs = 2
  PROVE  PartsInv(G, [list |-> [table.list EXCEPT ![Hash[k] % n] = @ \cup {e}],
                      element_num |-> table.element_num + 1],
                  lru, in_use \cup {e}, usage + 1)
<1> DEFINE L == [table.list EXCEPT ![Hash[k] % n] = @ \cup {e}]
           T == [list |-> L, element_num |-> table.element_num + 1]
<1>1. H \in [Handles -> HandleRecords] /\ lru \in Seq(Handles) /\ table.element_num \in Int
  BY DEF PartsInv
<1>2. RecordInv(H) /\ ListInv(H, lru, in_use) /\ CountInv(H, table.element_num, usage)
  BY DEF PartsInv
<1>4. CachedIn(G) = CachedIn(H) \cup {e}
  BY DEF CachedIn
<1>5. \A h \in CachedIn(H) : G[h] = H[h]
  BY DEF CachedIn
<1>6. Distributed(G, L, n)
  BY <1>4, <1>5, ChainWith
<1> HIDE DEF L
<1>7. ChainInv(G, L) /\ L \in ChainLists
  BY <1>6 DEF ChainInv, Distributed, ChainLists
<1>8. RecordInv(G)
  <2>1. \A h \in Handles : G[h].refs = 0 => G[h] = Freed
    BY <1>2 DEF RecordInv
  <2>2. \A h \in CachedIn(G) : G[h].key \in Keys
    BY <1>2, <1>4, <1>5 DEF RecordInv
  <2>3. \A g, h \in CachedIn(G) : G[g].key = G[h].key => g = h
    BY <1>2, <1>4, <1>5 DEF RecordInv
  <2> QED
    BY <2>1, <2>2, <2>3 DEF RecordInv
<1>9. CountInv(G, table.element_num + 1, usage + 1)
  <2>1. Cardinality(CachedIn(H) \cup {e}) = Cardinality(CachedIn(H)) + 1
    BY CachedFinite, FS_AddElement
  <2> QED
    BY <2>1, <1>4, <1>2 DEF CountInv
<1>10. ListInv(G, lru, in_use \cup {e})
  <2>1. ToSet(lru) = {h \in CachedIn(G) : G[h].refs = 1}
    BY <1>2, <1>4, <1>5 DEF ListInv
  <2>2. in_use \cup {e} = {h \in CachedIn(G) : G[h].refs # 1}
    BY <1>2, <1>4, <1>5 DEF ListInv
  <2> QED
    BY <2>1, <2>2, <1>2 DEF ListInv
<1>11. /\ T \in [list : ChainLists, element_num : Int]
       /\ T.list = L /\ T.element_num = table.element_num + 1
  BY <1>1, <1>7
<1> HIDE DEF T
<1>12. PartsInv(G, T, lru, in_use \cup {e}, usage + 1)
  BY <1>1, <1>7, <1>8, <1>9, <1>10, <1>11 DEF PartsInv
<1> QED
  BY <1>12 DEF T, L

\* Resize distributes the records over the new chains.
LEMMA ResizeKeeps ==
  ASSUME NEW H, NEW table, NEW lru, NEW in_use, NEW usage,
         PartsInv(H, table, lru, in_use, usage), NEW m \in Nat \ {0},
         NEW L, L = [b \in 0..(m - 1) |->
                       {h \in UNION {table.list[a] : a \in DOMAIN table.list} : Hash[H[h].key] % m = b}]
  PROVE  PartsInv(H, [list |-> L, element_num |-> table.element_num], lru, in_use, usage)
<1>1. PICK n \in Nat \ {0} : Distributed(H, table.list, n)
  BY DEF PartsInv, ChainInv
<1> DEFINE all == UNION {table.list[a] : a \in DOMAIN table.list}
           T == [list |-> L, element_num |-> table.element_num]
<1>2. all = CachedIn(H)
  <2>1. DOMAIN table.list = 0..(n - 1)
    BY <1>1 DEF Distributed
  <2>2. ASSUME NEW h \in CachedIn(H)
        PROVE  \E a \in 0..(n - 1) : h \in table.list[a]
    <3>1. H[h].key \in Keys
      BY DEF PartsInv, RecordInv
    <3>2. Hash[H[h].key] % n \in 0..(n - 1)
      BY <3>1, BucketOfKey
    <3> QED
      BY <3>2, <1>1 DEF Distributed
  <2>3. \A a \in 0..(n - 1) : table.list[a] \subseteq CachedIn(H)
    BY <1>1 DEF Distributed
  <2> QED
    BY <2>1, <2>2, <2>3
<1>3. L = [b \in 0..(m - 1) |-> {h \in CachedIn(H) : Hash[H[h].key] % m = b}]
  BY <1>2
<1> HIDE DEF all
<1>4. Distributed(H, L, m)
  BY <1>3 DEF Distributed, CachedIn
<1>5. ChainInv(H, L) /\ L \in ChainLists
  BY <1>4 DEF ChainInv, Distributed, ChainLists
<1>6. /\ T \in [list : ChainLists, element_num : Int]
      /\ T.list = L /\ T.element_num = table.element_num
  BY <1>5 DEF PartsInv
<1> HIDE DEF T
<1>7. PartsInv(H, T, lru, in_use, usage)
  BY <1>5, <1>6 DEF PartsInv
<1> QED
  BY <1>7 DEF T

LEMMA ResizeParts ==
  ASSUME NEW c \in Caches, NEW m, m = NewCapacity(c.table.element_num)
  PROVE  Resize(c) =
           [handles |-> c.handles,
            table |-> [list |-> [b \in 0..(m - 1) |->
                                   {h \in UNION {c.table.list[a] : a \in DOMAIN c.table.list} :
                                      Hash[c.handles[h].key] % m = b}],
                       element_num |-> c.table.element_num],
            lru |-> c.lru, in_use |-> c.in_use, usage |-> c.usage]
<1> DEFINE L == [b \in 0..(m - 1) |->
                   {h \in UNION {c.table.list[a] : a \in DOMAIN c.table.list} :
                      Hash[c.handles[h].key] % m = b}]
           d == [c EXCEPT !.table.list = L]
<1>1. Resize(c) = d
  BY DEF Resize
<1> HIDE DEF L
<1>2. c.table \in [list : ChainLists, element_num : Int]
  BY DEF Caches
<1>3. d.table = [list |-> L, element_num |-> c.table.element_num]
  BY <1>2 DEF Caches
<1>4. d.handles = c.handles /\ d.lru = c.lru /\ d.in_use = c.in_use /\ d.usage = c.usage
  BY DEF Caches
<1>5. ASSUME NEW x, x = d
      PROVE  x = [handles |-> x.handles, table |-> x.table, lru |-> x.lru,
                  in_use |-> x.in_use, usage |-> x.usage]
  BY <1>5 DEF Caches
<1> HIDE DEF d
<1> QED
  BY <1>1, <1>3, <1>4, <1>5 DEF L

\* The lookup does not see a record that is in no chain.
LEMMA LookupKept ==
  ASSUME NEW c, CacheInv(c), NEW x, x.table = c.table,
         \A h \in CachedIn(c.handles) : x.handles[h] = c.handles[h], NEW k \in Keys
  PROVE  TableLookup(x, k) = TableLookup(c, k)
<1>1. PICK n \in Nat \ {0} : Distributed(c.handles, c.table.list, n)
  BY DEF CacheInv, PartsInv, ChainInv
<1>2. Buckets(c.table) = n
  BY <1>1, BucketsOfTable DEF Distributed
<1>3. Bucket(c.table, k) \in 0..(n - 1)
  BY <1>2, BucketOfKey DEF Bucket
<1>4. c.table.list[Bucket(c.table, k)] \subseteq CachedIn(c.handles)
  BY <1>1, <1>3 DEF Distributed
<1>5. Find(x, k) = Find(c, k)
  BY <1>4 DEF Find
<1> QED
  BY <1>5 DEF TableLookup

\* HandleTable::Insert, part by part.
LEMMA TableInsertReplaces ==
  ASSUME NEW c \in Caches, NEW e \in Handles, NEW k, k = c.handles[e].key,
         NEW old, old = TableLookup(c, k), old # Null, NEW a, a = Bucket(c.table, k)
  PROVE  TableInsert(c, e) =
           [handles |-> c.handles,
            table |-> [list |-> [c.table.list EXCEPT ![a] = (@ \ {old}) \cup {e}],
                       element_num |-> c.table.element_num],
            lru |-> c.lru, in_use |-> c.in_use, usage |-> c.usage]
<1> DEFINE d == [c EXCEPT !.table.list[a] = (@ \ {old}) \cup {e}]
<1>1. TableInsert(c, e) = d
  BY DEF TableInsert
<1>2. c.table \in [list : ChainLists, element_num : Int]
  BY DEF Caches
<1>3. d.table = [list |-> [c.table.list EXCEPT ![a] = (@ \ {old}) \cup {e}],
                 element_num |-> c.table.element_num]
  BY <1>2 DEF Caches
<1>4. d.handles = c.handles /\ d.lru = c.lru /\ d.in_use = c.in_use /\ d.usage = c.usage
  BY DEF Caches
<1>5. ASSUME NEW x, x = d
      PROVE  x = [handles |-> x.handles, table |-> x.table, lru |-> x.lru,
                  in_use |-> x.in_use, usage |-> x.usage]
  BY <1>5 DEF Caches
<1> HIDE DEF d
<1> QED
  BY <1>1, <1>3, <1>4, <1>5

LEMMA TableInsertAdds ==
  ASSUME NEW c \in Caches, NEW e \in Handles, NEW k, k = c.handles[e].key,
         TableLookup(c, k) = Null, NEW a, a = Bucket(c.table, k),
         NEW d, d = [handles |-> c.handles,
                     table |-> [list |-> [c.table.list EXCEPT ![a] = @ \cup {e}],
                                element_num |-> c.table.element_num + 1],
                     lru |-> c.lru, in_use |-> c.in_use, usage |-> c.usage]
  PROVE  TableInsert(c, e) \in {d, Resize(d)}
<1> DEFINE x == [c EXCEPT !.table.list[a] = @ \cup {e}, !.table.element_num = @ + 1]
<1>1. TableInsert(c, e) = IF x.table.element_num > Buckets(c.table) THEN Resize(x) ELSE x
  BY DEF TableInsert
<1>2. c.table \in [list : ChainLists, element_num : Int]
  BY DEF Caches
<1>3. x.table = [list |-> [c.table.list EXCEPT ![a] = @ \cup {e}],
                 element_num |-> c.table.element_num + 1]
  BY <1>2 DEF Caches
<1>4. x.handles = c.handles /\ x.lru = c.lru /\ x.in_use = c.in_use /\ x.usage = c.usage
  BY DEF Caches
<1>5. ASSUME NEW y, y = x
      PROVE  y = [handles |-> y.handles, table |-> y.table, lru |-> y.lru,
                  in_use |-> y.in_use, usage |-> y.usage]
  BY <1>5 DEF Caches
<1> HIDE DEF x
<1>6. x = d
  BY <1>3, <1>4, <1>5
<1> QED
  BY <1>1, <1>6

NewRecord(k) == [key |-> k, refs |-> 2, in_cache |-> TRUE]

LEMMA NewRecordIs ==
  ASSUME NEW k \in Keys
  PROVE  /\ NewRecord(k) \in HandleRecords
         /\ NewRecord(k).key = k /\ NewRecord(k).refs = 2 /\ NewRecord(k).in_cache
BY DEF NewRecord, HandleRecords

\* x is c with a new record e under k that is in no chain yet.
WithNew(c, k, e, x) ==
  /\ x.handles = [c.handles EXCEPT ![e] = NewRecord(k)]
  /\ x.table = c.table /\ x.lru = c.lru
  /\ x.in_use = c.in_use \cup {e} /\ x.usage = c.usage + 1

\* The first half of Insert under a key the cache does not have.
LEMMA InsertAdds ==
  ASSUME NEW c, CacheInv(c), NEW k \in Keys, NEW e \in Handles, c.handles[e].refs = 0,
         TableLookup(c, k) = Null,
         NEW x \in Caches, WithNew(c, k, e, x)
  PROVE  /\ CacheInv(TableInsert(x, e))
         /\ TableInsert(x, e).handles = [c.handles EXCEPT ![e] = NewRecord(k)]
<1> DEFINE H == c.handles
           G == [c.handles EXCEPT ![e] = NewRecord(k)]
<1>1. c \in Caches /\ PartsInv(H, c.table, c.lru, c.in_use, c.usage)
  BY DEF CacheInv
<1>2. H \in [Handles -> HandleRecords] /\ RecordInv(H)
  BY <1>1 DEF PartsInv
<1>3. e \notin CachedIn(H)
  BY <1>2, CachedHasRefs
<1>4. \A h \in CachedIn(H) : H[h].key # k
  <2>1. \A h \in CachedIn(H) : h # Null
    BY LRUCacheAssumption DEF CachedIn, Null
  <2> QED
    BY <2>1, LookupFinds
<1>5. G \in [Handles -> HandleRecords] /\ (\A h \in Handles \ {e} : G[h] = H[h]) /\ G[e] = NewRecord(k)
  BY <1>2, NewRecordIs
<1>6. G[e].key = k /\ G[e].refs = 2 /\ G[e].in_cache
  BY <1>5, NewRecordIs
<1>7. PICK n \in Nat \ {0} : Distributed(H, c.table.list, n)
  BY <1>1 DEF PartsInv, ChainInv
<1>8. Buckets(c.table) = n
  BY <1>7, BucketsOfTable DEF Distributed
<1> DEFINE T == [list |-> [c.table.list EXCEPT ![Hash[k] % n] = @ \cup {e}],
                 element_num |-> c.table.element_num + 1]
           d == [handles |-> G, table |-> T, lru |-> c.lru,
                 in_use |-> c.in_use \cup {e}, usage |-> c.usage + 1]
<1> HIDE DEF G
<1>9. PartsInv(G, T, c.lru, c.in_use \cup {e}, c.usage + 1)
  BY <1>1, <1>3, <1>4, <1>5, <1>6, <1>7, AddKeeps
<1>10. /\ x.handles = G /\ x.table = c.table /\ x.lru = c.lru
       /\ x.in_use = c.in_use \cup {e} /\ x.usage = c.usage + 1
  BY DEF G, WithNew
<1>11. x \in Caches
  OBVIOUS
<1>12. TableLookup(x, k) = Null
  <2>1. \A h \in CachedIn(H) : x.handles[h] = c.handles[h]
    BY <1>3, <1>5, <1>10 DEF CachedIn
  <2> QED
    BY <2>1, <1>10, LookupKept
<1>13. TableInsert(x, e) \in {d, Resize(d)}
  <2>1. k = x.handles[e].key /\ Hash[k] % n = Bucket(x.table, k)
    BY <1>6, <1>8, <1>10 DEF Bucket
  <2>2. d = [handles |-> x.handles,
             table |-> [list |-> [x.table.list EXCEPT ![Hash[k] % n] = @ \cup {e}],
                        element_num |-> x.table.element_num + 1],
             lru |-> x.lru, in_use |-> x.in_use, usage |-> x.usage]
    BY <1>10
  <2> HIDE DEF d
  <2> QED
    BY <2>1, <2>2, <1>11, <1>12, TableInsertAdds
<1> HIDE DEF T
<1>14. CacheInv(d) /\ d.handles = G
  BY <1>9, CacheOfParts
<1>15. /\ d \in Caches /\ d.handles = G /\ d.table = T /\ d.lru = c.lru
       /\ d.in_use = c.in_use \cup {e} /\ d.usage = c.usage + 1
  BY <1>14 DEF CacheInv
<1> HIDE DEF d
<1>16. CacheInv(Resize(d)) /\ Resize(d).handles = G
  <2> DEFINE m == NewCapacity(T.element_num)
             L == [b \in 0..(m - 1) |->
                     {h \in UNION {T.list[a] : a \in DOMAIN T.list} : Hash[G[h].key] % m = b}]
             U == [list |-> L, element_num |-> T.element_num]
  <2>1. T.element_num \in Nat
    BY <1>9, CachedFinite DEF PartsInv, CountInv
  <2>2. m \in Nat \ {0}
    BY <2>1, NewCapacityIsEnough
  <2>3. Resize(d) = [handles |-> G, table |-> U, lru |-> c.lru,
                     in_use |-> c.in_use \cup {e}, usage |-> c.usage + 1]
    <3>1. m = NewCapacity(d.table.element_num)
      BY <1>15
    <3> HIDE DEF m
    <3>2. Resize(d) =
           [handles |-> d.handles,
            table |-> [list |-> [b \in 0..(m - 1) |->
                                   {h \in UNION {d.table.list[a] : a \in DOMAIN d.table.list} :
                                      Hash[d.handles[h].key] % m = b}],
                       element_num |-> d.table.element_num],
            lru |-> d.lru, in_use |-> d.in_use, usage |-> d.usage]
      BY <3>1, <1>15, ResizeParts
    <3> QED
      BY <3>2, <1>15
  <2> HIDE DEF m
  <2>4. PartsInv(G, U, c.lru, c.in_use \cup {e}, c.usage + 1)
    BY <2>2, <1>9, ResizeKeeps
  <2> HIDE DEF U
  <2> QED
    BY <2>3, <2>4, CacheOfParts
<1> QED
  BY <1>13, <1>14, <1>16 DEF G

\* The first half of Insert under a key the cache has: the record is displaced.
LEMMA InsertReplaces ==
  ASSUME NEW c, CacheInv(c), NEW k \in Keys, NEW e \in Handles, c.handles[e].refs = 0,
         NEW old, old = TableLookup(c, k), old # Null,
         NEW x \in Caches, WithNew(c, k, e, x),
         NEW y, y = FinishErase(TableInsert(x, e), old)
  PROVE  /\ CacheInv(y)
         /\ y.handles[e] = NewRecord(k)
         /\ y.handles[old] = Dropped(c.handles[old])
         /\ \A h \in Handles \ {e, old} : y.handles[h] = c.handles[h]
<1> DEFINE H == c.handles
           G == [c.handles EXCEPT ![e] = NewRecord(k)]
<1>1. c \in Caches /\ PartsInv(H, c.table, c.lru, c.in_use, c.usage)
  BY DEF CacheInv
<1>2. H \in [Handles -> HandleRecords] /\ RecordInv(H)
  BY <1>1 DEF PartsInv
<1>3. e \notin CachedIn(H)
  BY <1>2, CachedHasRefs
<1>4. old \in CachedIn(H) /\ H[old].key = k
  BY LookupFinds
<1>5. old \in Handles /\ old # e /\ H[old].refs \in Nat \ {0}
  BY <1>2, <1>3, <1>4, CachedHasRefs DEF CachedIn
<1>6. G \in [Handles -> HandleRecords] /\ (\A h \in Handles \ {e} : G[h] = H[h]) /\ G[e] = NewRecord(k)
  BY <1>2, NewRecordIs
<1>7. PICK n \in Nat \ {0} : Distributed(H, c.table.list, n)
  BY <1>1 DEF PartsInv, ChainInv
<1>8. Buckets(c.table) = n
  BY <1>7, BucketsOfTable DEF Distributed
<1> DEFINE a == Hash[k] % n
           H1 == [H EXCEPT ![old] = Dropped(H[old])]
           T1 == [list |-> [c.table.list EXCEPT ![a] = @ \ {old}],
                  element_num |-> c.table.element_num - 1]
<1>9. /\ H1 \in [Handles -> HandleRecords]
      /\ \A h \in Handles \ {old} : H1[h] = H[h]
      /\ H1[old] = Dropped(H[old])
  BY <1>2, <1>5, DroppedRecord
<1>10. ~H1[old].in_cache /\ (H1[old].refs = 0 => H1[old] = Freed)
  BY <1>2, <1>5, <1>9, DroppedRecord
<1>11. a \in 0..(n - 1)
  BY BucketOfKey
<1> HIDE DEF H1
<1>12. PartsInv(H1, T1, RemoveFirst(c.lru, old), c.in_use \ {old}, c.usage - 1)
  BY <1>1, <1>4, <1>7, <1>9, <1>10, EraseKeeps
<1>13. CachedIn(H1) = CachedIn(H) \ {old}
  BY <1>5, <1>9, <1>10 DEF CachedIn
<1>14. \A h \in CachedIn(H1) : H1[h] = H[h]
  BY <1>9, <1>13 DEF CachedIn
<1>15. Distributed(H1, T1.list, n)
  <2>1. Distributed(H1, [c.table.list EXCEPT ![Hash[H[old].key] % n] = @ \ {old}], n)
    BY ZenonT(30), <1>2, <1>4, <1>7, <1>13, <1>14, ChainWithout DEF RecordInv
  <2> QED
    BY <2>1, <1>4
<1>16. \A h \in CachedIn(H1) : H1[h].key # k
  BY <1>2, <1>4, <1>13, <1>14 DEF RecordInv
<1> DEFINE H2 == [H1 EXCEPT ![e] = NewRecord(k)]
           T2 == [list |-> [T1.list EXCEPT ![a] = @ \cup {e}], element_num |-> T1.element_num + 1]
<1>17. /\ H2 \in [Handles -> HandleRecords]
       /\ \A h \in Handles \ {e} : H2[h] = H1[h]
       /\ H2[e] = NewRecord(k)
  BY <1>9, NewRecordIs
<1>18. H2[e].in_cache /\ H2[e].key = k /\ H2[e].refs = 2
  BY <1>17, NewRecordIs
<1> HIDE DEF H2, T1
<1>19. PartsInv(H2, T2, RemoveFirst(c.lru, old), (c.in_use \ {old}) \cup {e}, (c.usage - 1) + 1)
  BY <1>3, <1>12, <1>13, <1>15, <1>16, <1>17, <1>18, AddKeeps
<1>20. T2 = [list |-> [c.table.list EXCEPT ![a] = (@ \ {old}) \cup {e}],
             element_num |-> c.table.element_num]
  <2>1. c.table.list \in [0..(n - 1) -> SUBSET Handles]
    BY <1>7 DEF Distributed
  <2>2. [[c.table.list EXCEPT ![a] = @ \ {old}] EXCEPT ![a] = @ \cup {e}]
          = [c.table.list EXCEPT ![a] = (@ \ {old}) \cup {e}]
    BY <2>1, <1>11
  <2>3. (c.table.element_num - 1) + 1 = c.table.element_num
    BY <1>1 DEF PartsInv
  <2>4. T1.list = [c.table.list EXCEPT ![a] = @ \ {old}] /\ T1.element_num = c.table.element_num - 1
    BY DEF T1
  <2> QED
    BY <2>2, <2>3, <2>4
<1>21. /\ x.handles = G /\ x.table = c.table /\ x.lru = c.lru
       /\ x.in_use = c.in_use \cup {e} /\ x.usage = c.usage + 1
  BY DEF WithNew
<1>22. x \in Caches
  OBVIOUS
<1> HIDE DEF G, T2
<1>23. old = TableLookup(x, k)
  <2>1. \A h \in CachedIn(H) : x.handles[h] = c.handles[h]
    BY <1>3, <1>6, <1>21 DEF CachedIn
  <2> QED
    BY <2>1, <1>21, LookupKept
<1> DEFINE z == TableInsert(x, e)
<1>24. z = [handles |-> x.handles,
            table |-> [list |-> [x.table.list EXCEPT ![a] = (@ \ {old}) \cup {e}],
                       element_num |-> x.table.element_num],
            lru |-> x.lru, in_use |-> x.in_use, usage |-> x.usage]
  <2>1. k = x.handles[e].key /\ a = Bucket(x.table, k)
    BY <1>6, <1>8, <1>21, NewRecordIs DEF Bucket
  <2> HIDE DEF a, z
  <2>2. TableInsert(x, e) =
          [handles |-> x.handles,
           table |-> [list |-> [x.table.list EXCEPT ![a] = (@ \ {old}) \cup {e}],
                      element_num |-> x.table.element_num],
           lru |-> x.lru, in_use |-> x.in_use, usage |-> x.usage]
    BY <2>1, <1>22, <1>23, TableInsertReplaces
  <2> QED
    BY <2>2 DEF z
<1>25. z = [handles |-> G, table |-> T2, lru |-> c.lru, in_use |-> c.in_use \cup {e},
            usage |-> c.usage + 1]
  BY <1>20, <1>21, <1>24
<1>26. z \in Caches
  <2>1. T2 \in [list : ChainLists, element_num : Int]
    BY <1>19 DEF PartsInv
  <2> QED
    BY <2>1, <1>1, <1>6, <1>25 DEF Caches
<1>27. /\ z.handles = G /\ z.table = T2 /\ z.lru = c.lru
       /\ z.in_use = c.in_use \cup {e} /\ z.usage = c.usage + 1
  BY <1>25
<1> HIDE DEF z
<1>28. z.handles[old] = H[old] /\ z.handles[old].refs > 0
  BY <1>5, <1>6, <1>27
<1>29. y = [handles |-> [z.handles EXCEPT ![old] = Dropped(z.handles[old])],
            table |-> z.table, lru |-> RemoveFirst(z.lru, old),
            in_use |-> z.in_use \ {old}, usage |-> z.usage - 1]
  BY <1>5, <1>26, <1>28, FinishEraseParts DEF z
<1>30. [z.handles EXCEPT ![old] = Dropped(z.handles[old])] = H2
  <2>1. z.handles[old] = H[old] /\ z.handles = G
    BY <1>27, <1>28
  <2>2. [G EXCEPT ![old] = Dropped(H[old])] = H2
    <3>1. H2 = [h \in Handles |-> H2[h]]
      BY <1>17
    <3>2. \A h \in Handles : [G EXCEPT ![old] = Dropped(H[old])][h] = H2[h]
      BY <1>5, <1>6, <1>9, <1>17
    <3> QED
      BY <3>1, <3>2, <1>6
  <2> QED
    BY <2>1, <2>2
<1>31. /\ z.in_use \ {old} = (c.in_use \ {old}) \cup {e}
       /\ z.usage - 1 = (c.usage - 1) + 1
  BY <1>1, <1>5, <1>27 DEF Caches
<1>32. y = [handles |-> H2, table |-> T2, lru |-> RemoveFirst(c.lru, old),
            in_use |-> (c.in_use \ {old}) \cup {e}, usage |-> (c.usage - 1) + 1]
  BY <1>27, <1>29, <1>30, <1>31
<1>33. CacheInv(y) /\ y.handles = H2
  BY <1>19, <1>32, CacheOfParts
<1> QED
  BY <1>5, <1>9, <1>17, <1>33

\* What Insert does: the new record e is in use under k, the record that had the
\* key is displaced, idle records may be evicted, and nothing else changes.
Inserted(c, k, e, d) ==
  LET old == TableLookup(c, k)
  IN  /\ CacheInv(d)
      /\ d.handles[e] = NewRecord(k)
      /\ old # Null => d.handles[old] = Dropped(c.handles[old])
      /\ \A h \in Handles \ {e, old} :
           \/ d.handles[h] = c.handles[h]
           \/ h \in CachedIn(c.handles) /\ c.handles[h].refs = 1 /\ d.handles[h] = Freed
      /\ d.usage <= Capacity \/ d.lru = <<>>

LEMMA InsertEffect ==
  ASSUME NEW c, CacheInv(c), NEW k \in Keys, NEW e \in Handles, c.handles[e].refs = 0,
         Capacity # 0
  PROVE  Inserted(c, k, e, Insert(c, k, e))
<1> DEFINE old == TableLookup(c, k)
           x == [c EXCEPT !.handles[e] = [key |-> k, refs |-> 2, in_cache |-> TRUE],
                          !.in_use = @ \cup {e}, !.usage = @ + 1]
           y == FinishErase(TableInsert(x, e), old)
<1>1. Insert(c, k, e) = Evict(y)
  BY DEF Insert
<1>2. c \in Caches /\ c.handles \in [Handles -> HandleRecords] /\ RecordInv(c.handles)
  BY DEF CacheInv, PartsInv
<1>3. x = [c EXCEPT !.handles[e] = NewRecord(k), !.in_use = @ \cup {e}, !.usage = @ + 1]
  BY DEF NewRecord
<1> HIDE DEF x
<1>4. x.handles = [c.handles EXCEPT ![e] = NewRecord(k)]
  BY <1>2, <1>3 DEF Caches
<1>5. x.table = c.table /\ x.lru = c.lru /\ x.in_use = c.in_use \cup {e} /\ x.usage = c.usage + 1
  BY <1>2, <1>3 DEF Caches
<1>6. WithNew(c, k, e, x)
  BY <1>4, <1>5 DEF WithNew
<1>7. ASSUME NEW v, v = x
      PROVE  v = [handles |-> v.handles, table |-> v.table, lru |-> v.lru,
                  in_use |-> v.in_use, usage |-> v.usage]
  BY <1>7, <1>3, <1>2 DEF Caches
<1>8. x \in Caches
  <2>1. x.handles \in [Handles -> HandleRecords]
    BY <1>2, <1>4, NewRecordIs
  <2>2. /\ x.table \in [list : ChainLists, element_num : Int]
        /\ x.lru \in Seq(Handles) /\ x.in_use \in SUBSET Handles /\ x.usage \in Int
    BY <1>2, <1>5 DEF Caches
  <2>3. x = [handles |-> x.handles, table |-> x.table, lru |-> x.lru,
             in_use |-> x.in_use, usage |-> x.usage]
    BY <1>7
  <2> QED
    BY <2>1, <2>2, <2>3 DEF Caches
<1>9. /\ CacheInv(y) /\ y.handles[e] = NewRecord(k)
      /\ old # Null => y.handles[old] = Dropped(c.handles[old])
      /\ \A h \in Handles \ {e, old} : y.handles[h] = c.handles[h]
  <2>1. CASE old = Null
    <3>1. y = TableInsert(x, e)
      BY <2>1 DEF FinishErase
    <3>2. CacheInv(TableInsert(x, e))
            /\ TableInsert(x, e).handles = [c.handles EXCEPT ![e] = NewRecord(k)]
      BY <2>1, <1>6, <1>8, InsertAdds
    <3> HIDE DEF y
    <3> QED
      BY <2>1, <3>1, <3>2, <1>2
  <2>2. CASE old # Null
    <3> HIDE DEF old, y
    <3>1. old = TableLookup(c, k) /\ y = FinishErase(TableInsert(x, e), old)
      BY DEF old, y
    <3> QED
      BY <2>2, <3>1, <1>6, <1>8, InsertReplaces
  <2> QED
    BY <2>1, <2>2
<1> HIDE DEF y
<1> DEFINE d == Evict(y)
<1>10. PICK i \in Nat : EvictedFrom(y, d, i)
  BY <1>9, EvictEffect
<1>11. d.usage <= Capacity \/ d.lru = <<>>
  BY <1>9, EvictEffect
<1> HIDE DEF d
<1>12. CacheInv(d)
  BY <1>10 DEF EvictedFrom
<1>13. \A h \in Handles :
         \/ d.handles[h] = y.handles[h]
         \/ h \in CachedIn(y.handles) /\ y.handles[h].refs = 1 /\ d.handles[h] = Freed
  BY <1>10 DEF EvictedFrom
<1>14. d.handles[e] = NewRecord(k)
  <2>1. y.handles[e].refs = 2
    BY <1>9, NewRecordIs
  <2> QED
    BY <2>1, <1>9, <1>13
<1>15. ASSUME old # Null
       PROVE  d.handles[old] = Dropped(c.handles[old])
  <2>1. old \in CachedIn(c.handles)
    BY <1>15, LookupFinds
  <2>2. old \in Handles /\ c.handles[old].refs > 0
    BY <2>1, <1>2, CachedHasRefs DEF CachedIn
  <2>3. y.handles[old] = Dropped(c.handles[old])
    BY <1>9, <1>15
  <2>4. ~y.handles[old].in_cache
    BY <2>2, <2>3, <1>2, DroppedRecord
  <2>5. old \notin CachedIn(y.handles)
    BY <2>4 DEF CachedIn
  <2> QED
    BY <2>2, <2>3, <2>5, <1>13
<1>16. ASSUME NEW h \in Handles \ {e, old}
       PROVE  \/ d.handles[h] = c.handles[h]
              \/ h \in CachedIn(c.handles) /\ c.handles[h].refs = 1 /\ d.handles[h] = Freed
  <2>1. y.handles[h] = c.handles[h]
    BY <1>9
  <2>2. h \in CachedIn(y.handles) => h \in CachedIn(c.handles)
    BY <2>1 DEF CachedIn
  <2> QED
    BY <2>1, <2>2, <1>13
<1>17. Inserted(c, k, e, d)
  BY <1>11, <1>12, <1>14, <1>15, <1>16 DEF Inserted
<1> QED
  BY <1>1, <1>17 DEF d

\* Without capacity Insert only makes the record.
LEMMA InsertWithoutCapacity ==
  ASSUME NEW c, CacheInv(c), NEW k \in Keys, NEW e \in Handles, c.handles[e].refs = 0,
         Capacity = 0, NEW d, d = Insert(c, k, e)
  PROVE  /\ CacheInv(d)
         /\ d.handles[e].refs = 1 /\ ~d.handles[e].in_cache
         /\ \A h \in Handles \ {e} : d.handles[h] = c.handles[h]
         /\ d.usage = c.usage
<1> DEFINE r == [key |-> k, refs |-> 1, in_cache |-> FALSE]
           G == [c.handles EXCEPT ![e] = r]
<1>1. d = [c EXCEPT !.handles[e] = r]
  BY DEF Insert
<1>2. c \in Caches /\ PartsInv(c.handles, c.table, c.lru, c.in_use, c.usage)
  BY DEF CacheInv
<1>3. c.handles \in [Handles -> HandleRecords] /\ RecordInv(c.handles)
  BY <1>2 DEF PartsInv
<1>4. r \in HandleRecords /\ ~r.in_cache /\ r.refs = 1
  BY DEF HandleRecords
<1> HIDE DEF r
<1>5. d.handles = G
  BY <1>1, <1>2 DEF Caches
<1>6. d.table = c.table /\ d.lru = c.lru /\ d.in_use = c.in_use /\ d.usage = c.usage
  BY <1>1, <1>2 DEF Caches
<1>7. d = [handles |-> d.handles, table |-> d.table, lru |-> d.lru,
           in_use |-> d.in_use, usage |-> d.usage]
  BY <1>1, <1>2 DEF Caches
<1>8. e \notin CachedIn(c.handles)
  BY <1>3, CachedHasRefs
<1>9. PartsInv(G, c.table, c.lru, c.in_use, c.usage)
  BY <1>2, <1>4, <1>8, UncachedKeeps
<1>10. G[e] = r /\ \A h \in Handles \ {e} : G[h] = c.handles[h]
  BY <1>3
<1> HIDE DEF G
<1>11. d = [handles |-> G, table |-> c.table, lru |-> c.lru, in_use |-> c.in_use, usage |-> c.usage]
  BY <1>5, <1>6, <1>7
<1>12. CacheInv(d)
  BY <1>9, <1>11, CacheOfParts
<1> QED
  BY <1>4, <1>5, <1>6, <1>10, <1>12

----------------------------------------------------------------------------
(* Making and destroying a cache.                                          *)

LEMMA EmptyCacheInv == CacheInv(EmptyCache)
<1> DEFINE H == [h \in Handles |-> Freed]
           n == InitialBuckets
           L == [b \in 0..(n - 1) |-> {}]
           T == [list |-> L, element_num |-> 0]
<1>1. Freed \in HandleRecords /\ ~Freed.in_cache
  BY DEF Freed, HandleRecords
<1>2. H \in [Handles -> HandleRecords] /\ CachedIn(H) = {}
  BY <1>1 DEF CachedIn
<1>3. RecordInv(H)
  BY <1>2 DEF RecordInv
<1>4. n \in Nat \ {0}
  BY LRUCacheAssumption
<1>5. Distributed(H, L, n)
  BY <1>2, <1>4 DEF Distributed
<1> HIDE DEF L, H
<1>6. ChainInv(H, L) /\ L \in ChainLists
  BY <1>4, <1>5 DEF ChainInv, ChainLists, Distributed
<1>7. ListInv(H, <<>>, {}) /\ <<>> \in Seq(Handles)
  BY <1>2 DEF ListInv, IsInjective, ToSet
<1>8. CountInv(H, 0, 0)
  BY <1>2, FS_EmptySet DEF CountInv
<1>9. T \in [list : ChainLists, element_num : Int] /\ T.list = L /\ T.element_num = 0
  BY <1>6
<1> HIDE DEF T
<1>10. PartsInv(H, T, <<>>, {}, 0)
  BY <1>2, <1>3, <1>6, <1>7, <1>8, <1>9 DEF PartsInv
<1>11. EmptyCache = [handles |-> H, table |-> T, lru |-> <<>>, in_use |-> {}, usage |-> 0]
  BY DEF EmptyCache, EmptyTable, H, T, L
<1> QED
  BY <1>10, <1>11, CacheOfParts

\* A cache no client has a handle of is destroyed without a trace.
LEMMA DestroyEffect ==
  ASSUME NEW c, CacheInv(c),
         \A h \in Handles : c.handles[h].refs > 0 => h \in CachedIn(c.handles) /\ c.handles[h].refs = 1
  PROVE  Destroy(c) = EmptyCache
<1> DEFINE F == [h \in Handles |->
                   IF \E i \in DOMAIN c.lru : c.lru[i] = h THEN Freed ELSE c.handles[h]]
<1>1. c.handles \in [Handles -> HandleRecords] /\ RecordInv(c.handles)
        /\ ListInv(c.handles, c.lru, c.in_use)
  BY DEF CacheInv, PartsInv
<1>2. ASSUME NEW h \in Handles
      PROVE  F[h] = Freed
  <2>1. c.handles[h].refs \in Nat
    BY <1>1 DEF HandleRecords
  <2>2. CASE c.handles[h].refs = 0
    BY <2>2, <1>1 DEF RecordInv
  <2>3. CASE c.handles[h].refs > 0
    <3>1. h \in ToSet(c.lru)
      BY <2>3, <1>1 DEF ListInv
    <3>2. \E i \in DOMAIN c.lru : c.lru[i] = h
      BY <3>1 DEF ToSet
    <3> QED
      BY <3>2
  <2> QED
    BY <2>1, <2>2, <2>3
<1>3. F = [h \in Handles |-> Freed]
  <2>1. F = [h \in Handles |-> F[h]]
    OBVIOUS
  <2> HIDE DEF F
  <2> QED
    BY <2>1, <1>2
<1>4. Destroy(c) = [EmptyCache EXCEPT !.handles = F]
  BY DEF Destroy
<1> HIDE DEF F
<1>5. Destroy(c) = [EmptyCache EXCEPT !.handles = [h \in Handles |-> Freed]]
  BY <1>3, <1>4
<1> QED
  BY <1>5 DEF EmptyCache

----------------------------------------------------------------------------
(* The inductive invariant.                                                *)

Count(S, f, x) == Cardinality({s \in S : f[s] = x})

One(P) == IF P THEN 1 ELSE 0

Same(x, y) == IF x = y THEN 1 ELSE 0

Labels ==
  {"idle", "miss", "map", "mmap_refused", "pread", "pread_refused", "open", "reading"}

VarsInv ==
  /\ file \in [Handles -> Files]
  /\ pc \in [Threads -> Labels]
  /\ want \in [Threads -> Keys \cup {Null}]
  /\ opening \in [Threads -> Files]
  /\ hold \in [Threads -> Handles \cup {Null}]
  /\ mmap_remains \in Int /\ pread_remains \in Int /\ fds \in Int

\* What a thread has in hand is told by where it is.
PcInv ==
  \A t \in Threads :
    /\ pc[t] = "open" <=> opening[t] # "none"
    /\ pc[t] = "reading" <=> hold[t] # Null
    /\ pc[t] = "idle" <=> want[t] = Null

\* A reference for each handle a thread has, and one for the cache.
RefsAgree(H, hd) ==
  \A h \in Handles : H[h].refs = One(H[h].in_cache) + Count(Threads, hd, h)

\* A record has a file until it is deleted.
FilesAgree(H, fl) == \A h \in Handles : fl[h] # "none" <=> H[h].refs > 0

\* Every decrement of a limiter belongs to a file or to a thread between the two
\* steps of Acquire.
MmapInv ==
  /\ Count(Handles, file, "mapped") + Count(Threads, opening, "mapped")
       + Count(Threads, pc, "map") <= MaxMmap
  /\ mmap_remains = MaxMmap - Count(Handles, file, "mapped") - Count(Threads, opening, "mapped")
                     - Count(Threads, pc, "map") - Count(Threads, pc, "mmap_refused")

PreadInv ==
  /\ Count(Handles, file, "fd") + Count(Threads, opening, "fd") <= MaxPread
  /\ pread_remains = MaxPread - Count(Handles, file, "fd") - Count(Threads, opening, "fd")
                      - Count(Threads, pc, "pread_refused")

\* A descriptor for each file read through one and each thread that is about to
\* use it; the ones a refused pread leaks are beyond.
FdsInv ==
  /\ fds <= MaxFds
  /\ fds >= Count(Handles, file, "fd") + Count(Threads, opening, "fd")
             + Count(Threads, pc, "map") + Count(Threads, pc, "mmap_refused")
             + Count(Threads, pc, "pread")

MostCached == IF Capacity > Cardinality(Threads) THEN Capacity ELSE Cardinality(Threads)

IInv ==
  /\ CacheInv(cache)
  /\ VarsInv
  /\ PcInv
  /\ RefsAgree(cache.handles, hold)
  /\ FilesAgree(cache.handles, file)
  /\ MmapInv
  /\ PreadInv
  /\ FdsInv
  /\ Cardinality(CachedIn(cache.handles)) <= MostCached

----------------------------------------------------------------------------
(* Counting.                                                               *)

LEMMA OneIsNat ==
  ASSUME NEW P
  PROVE  One(P) \in {0, 1}
BY DEF One, Same

\* Counts are natural numbers, none greater than the size of the set.
LEMMA CountIsNat ==
  ASSUME NEW S, IsFiniteSet(S), NEW f, NEW x
  PROVE  /\ IsFiniteSet({s \in S : f[s] = x})
         /\ Count(S, f, x) \in Nat
         /\ Count(S, f, x) <= Cardinality(S)
<1>1. {s \in S : f[s] = x} \subseteq S
  OBVIOUS
<1> QED
  BY <1>1, FS_Subset, FS_CardinalityType DEF Count

\* A count is positive when there is something to count.
LEMMA CountPositive ==
  ASSUME NEW S, IsFiniteSet(S), NEW f, NEW x
  PROVE  Count(S, f, x) > 0 <=> \E s \in S : f[s] = x
<1> DEFINE T == {s \in S : f[s] = x}
<1>0. T \in SUBSET S
  OBVIOUS
<1>1. IsFiniteSet(T) /\ Cardinality(T) \in Nat
  BY <1>0, FS_Subset, FS_CardinalityType
<1>2. Cardinality(T) = 0 <=> T = {}
  BY <1>1, FS_EmptySet
<1> QED
  BY <1>1, <1>2 DEF Count

\* One thread's move takes it out of one count and into another.
LEMMA CountAfter ==
  ASSUME NEW S, IsFiniteSet(S), NEW f, NEW g, NEW t \in S,
         \A s \in S \ {t} : g[s] = f[s], NEW x
  PROVE  Count(S, g, x) = Count(S, f, x) - Same(f[t], x) + Same(g[t], x)
<1> DEFINE T == {s \in S : f[s] = x}
           U == {s \in S : g[s] = x}
<1>0. T \in SUBSET S
  OBVIOUS
<1>1. IsFiniteSet(T) /\ Cardinality(T) \in Nat
  BY <1>0, FS_Subset, FS_CardinalityType
<1>2. IsFiniteSet(T \ {t}) /\ Cardinality(T \ {t}) = IF t \in T THEN Cardinality(T) - 1 ELSE Cardinality(T)
  BY <1>1, FS_RemoveElement
<1>3. Cardinality((T \ {t}) \cup {t}) = Cardinality(T \ {t}) + 1
  BY <1>2, FS_AddElement
<1>4. U = IF g[t] = x THEN (T \ {t}) \cup {t} ELSE T \ {t}
  OBVIOUS
<1>5. t \in T <=> f[t] = x
  OBVIOUS
<1> HIDE DEF T, U
<1>6. Cardinality(U) = Cardinality(T) - Same(f[t], x) + Same(g[t], x)
  BY <1>1, <1>2, <1>3, <1>4, <1>5 DEF One, Same
<1> QED
  BY <1>6 DEF Count, T, U
\* g is f with v for thread t.
Moved(f, g, t, v) == g[t] = v /\ \A s \in Threads \ {t} : g[s] = f[s]

LEMMA ExceptMoves ==
  ASSUME NEW V, NEW f \in [Threads -> V], NEW t \in Threads, NEW v
  PROVE  Moved(f, [f EXCEPT ![t] = v], t, v)
BY DEF Moved

----------------------------------------------------------------------------
(* Reference counts.                                                       *)

\* Two threads of a handle are two references to it.
LEMMA HoldersType ==
  ASSUME NEW hd, NEW h
  PROVE  Count(Threads, hd, h) \in Nat
BY TableCacheAssumption, CountIsNat

LEMMA ThreadCount ==
  ASSUME NEW hd, NEW g, NEW t \in Threads, NEW e, Moved(hd, g, t, e), NEW h
  PROVE  Count(Threads, g, h) = Count(Threads, hd, h) - Same(hd[t], h) + Same(e, h)
<1>1. g[t] = e /\ \A s \in Threads \ {t} : g[s] = hd[s]
  BY DEF Moved
<1>2. Count(Threads, g, h) = Count(Threads, hd, h) - Same(hd[t], h) + Same(g[t], h)
  BY <1>1, TableCacheAssumption, CountAfter
<1> QED
  BY <1>1, <1>2

LEMMA RefsOfLookup ==
  ASSUME NEW H \in [Handles -> HandleRecords], NEW hd \in [Threads -> Handles \cup {Null}],
         RefsAgree(H, hd), NEW t \in Threads, hd[t] = Null,
         NEW e \in Handles, NEW G, G = [H EXCEPT ![e].refs = @ + 1],
         NEW g, Moved(hd, g, t, e)
  PROVE  RefsAgree(G, g)
<1> SUFFICES ASSUME NEW h \in Handles
             PROVE  G[h].refs = One(G[h].in_cache) + Count(Threads, g, h)
  BY DEF RefsAgree
<1>1. Count(Threads, g, h)
        = Count(Threads, hd, h) - Same(hd[t], h) + Same(e, h)
  BY ThreadCount
<1>2. h # Null
  BY LRUCacheAssumption DEF Null
<1>3. H[h].refs = One(H[h].in_cache) + Count(Threads, hd, h)
  BY DEF RefsAgree
<1>4. G[h].in_cache = H[h].in_cache /\ G[h].refs = H[h].refs + Same(e, h)
  BY DEF HandleRecords, Same
<1>5. Count(Threads, hd, h) \in Nat
  BY HoldersType
<1> QED
  BY <1>1, <1>2, <1>3, <1>4, <1>5, OneIsNat DEF One, Same

LEMMA RefsOfRelease ==
  ASSUME NEW H \in [Handles -> HandleRecords], NEW hd \in [Threads -> Handles \cup {Null}],
         RefsAgree(H, hd), NEW t \in Threads, NEW e \in Handles, hd[t] = e,
         NEW G, G = Unreferenced(H, e), NEW g, Moved(hd, g, t, Null)
  PROVE  /\ H[e].refs > 0
         /\ H[e].in_cache => H[e].refs > 1
         /\ RefsAgree(G, g)
<1>0. Count(Threads, hd, e) > 0
  BY TableCacheAssumption, CountPositive
<1>1. \A h \in Handles : /\ H[h].refs = One(H[h].in_cache) + Count(Threads, hd, h)
                         /\ Count(Threads, hd, h) \in Nat
  BY HoldersType DEF RefsAgree
<1>2. H[e].refs > 0
  BY <1>0, <1>1, OneIsNat DEF One, Same
<1>3. H[e].in_cache => H[e].refs > 1
  BY <1>0, <1>1 DEF One, Same
<1>4. ASSUME NEW h \in Handles
      PROVE  G[h].refs = One(G[h].in_cache) + Count(Threads, g, h)
  <2>1. Count(Threads, g, h)
          = Count(Threads, hd, h) - Same(hd[t], h) + Same(Null, h)
    BY ThreadCount
  <2>2. h # Null
    BY LRUCacheAssumption DEF Null
  <2>3. H[h].refs \in Nat /\ H[h].in_cache \in BOOLEAN
    BY DEF HandleRecords
  <2>4. CASE h # e
    <3>1. G[h] = H[h]
      BY <2>4 DEF Unreferenced
    <3> QED
      BY <2>1, <2>2, <2>4, <3>1, <1>1 DEF One, Same
  <2>5. CASE h = e /\ H[e].refs = 1
    <3>1. ~H[e].in_cache
      BY <1>3, <2>5
    <3>2. G[h] = Freed
      BY <2>5 DEF Unreferenced
    <3>3. G[h].refs = 0 /\ ~G[h].in_cache
      BY <3>2 DEF Freed
    <3> QED
      BY <2>1, <2>2, <2>5, <3>1, <3>3, <1>1 DEF One, Same
  <2>6. CASE h = e /\ H[e].refs # 1
    <3>1. G[h].refs = H[h].refs - 1 /\ G[h].in_cache = H[h].in_cache
      BY <2>6 DEF Unreferenced, HandleRecords
    <3> QED
      BY <2>1, <2>2, <2>3, <2>6, <3>1, <1>1 DEF One, Same
  <2> QED
    BY <2>4, <2>5, <2>6
<1> QED
  BY <1>2, <1>3, <1>4 DEF RefsAgree

\* The cache drops its own reference to a record.
LEMMA RefsOfDropped ==
  ASSUME NEW H \in [Handles -> HandleRecords], NEW hd, RefsAgree(H, hd),
         NEW e \in CachedIn(H)
  PROVE  /\ H[e].refs > 0
         /\ ~Dropped(H[e]).in_cache
         /\ Dropped(H[e]).refs = Count(Threads, hd, e)
<1>1. H[e].refs = 1 + Count(Threads, hd, e) /\ Count(Threads, hd, e) \in Nat
  BY HoldersType DEF RefsAgree, CachedIn, One
<1>2. H[e].refs > 0
  BY <1>1
<1>3. e \in Handles
  BY DEF CachedIn
<1>4. ~Dropped(H[e]).in_cache /\ Dropped(H[e]).refs = H[e].refs - 1
  BY <1>2, <1>3, DroppedRecord
<1> QED
  BY <1>1, <1>2, <1>4

LEMMA RefsOfErase ==
  ASSUME NEW H \in [Handles -> HandleRecords], NEW hd, RefsAgree(H, hd),
         NEW e \in CachedIn(H), NEW G, G = [H EXCEPT ![e] = Dropped(H[e])]
  PROVE  RefsAgree(G, hd)
<1> SUFFICES ASSUME NEW h \in Handles
             PROVE  G[h].refs = One(G[h].in_cache) + Count(Threads, hd, h)
  BY DEF RefsAgree
<1>1. CASE h = e
  <2>1. G[h] = Dropped(H[e])
    BY <1>1
  <2>2. Count(Threads, hd, e) \in Nat
    BY HoldersType
  <2> QED
    BY <1>1, <2>1, <2>2, RefsOfDropped DEF One, Same
<1>2. CASE h # e
  <2>1. G[h] = H[h]
    BY <1>2
  <2> QED
    BY <2>1 DEF RefsAgree
<1> QED
  BY <1>1, <1>2

\* Insert: the new record belongs to the cache and to its thread, a displaced
\* one keeps the references of its threads, an evicted one had none.
LEMMA RefsOfInsert ==
  ASSUME NEW c, CacheInv(c), NEW hd, RefsAgree(c.handles, hd),
         NEW t \in Threads, hd[t] = Null, NEW k \in Keys,
         NEW e \in Handles, c.handles[e].refs = 0,
         NEW d, Inserted(c, k, e, d), NEW g, Moved(hd, g, t, e)
  PROVE  RefsAgree(d.handles, g)
<1> DEFINE old == TableLookup(c, k)
<1>0. c.handles \in [Handles -> HandleRecords]
  BY DEF CacheInv, Caches
<1> SUFFICES ASSUME NEW h \in Handles
             PROVE  d.handles[h].refs = One(d.handles[h].in_cache) + Count(Threads, g, h)
  BY DEF RefsAgree
<1>1. Count(Threads, g, h) = Count(Threads, hd, h) - Same(hd[t], h) + Same(e, h)
  BY ThreadCount
<1>2. Same(hd[t], h) = 0
  BY LRUCacheAssumption DEF Null, Same
<1>3. /\ c.handles[h].refs = One(c.handles[h].in_cache) + Count(Threads, hd, h)
      /\ Count(Threads, hd, h) \in Nat
  BY HoldersType DEF RefsAgree
<1>4. One(c.handles[h].in_cache) \in {0, 1}
  BY OneIsNat
<1>5. CASE h = e
  <2>1. Count(Threads, hd, h) = 0
    BY <1>3, <1>4, <1>5
  <2>2. d.handles[e] = NewRecord(k)
    BY DEF Inserted
  <2>3. d.handles[e].refs = 2 /\ One(d.handles[e].in_cache) = 1
    BY <2>2, NewRecordIs DEF One
  <2> QED
    BY <1>1, <1>2, <1>5, <2>1, <2>3 DEF Same
<1>6. CASE h # e /\ h = old
  <2>1. h # Null
    BY LRUCacheAssumption DEF Null
  <2>2. h \in CachedIn(c.handles) /\ d.handles[h] = Dropped(c.handles[h])
    BY <1>6, <2>1, LookupFinds DEF Inserted
  <2>3. ~d.handles[h].in_cache /\ d.handles[h].refs = Count(Threads, hd, h)
    BY <1>0, <2>2, RefsOfDropped
  <2> QED
    BY <1>1, <1>2, <1>3, <1>6, <2>3 DEF One, Same
<1>7. CASE h # e /\ h # old
  <2>1. \/ d.handles[h] = c.handles[h]
        \/ h \in CachedIn(c.handles) /\ c.handles[h].refs = 1 /\ d.handles[h] = Freed
    BY <1>7 DEF Inserted
  <2>2. Count(Threads, g, h) = Count(Threads, hd, h)
    BY <1>1, <1>2, <1>3, <1>7 DEF Same
  <2>3. CASE d.handles[h] = c.handles[h]
    BY <1>3, <2>2, <2>3
  <2>4. CASE h \in CachedIn(c.handles) /\ c.handles[h].refs = 1 /\ d.handles[h] = Freed
    <3>1. Count(Threads, hd, h) = 0
      BY <1>3, <2>4 DEF One, CachedIn
    <3>2. d.handles[h].refs = 0 /\ ~d.handles[h].in_cache
      BY <2>4 DEF Freed
    <3> QED
      BY <2>2, <3>1, <3>2 DEF One
  <2> QED
    BY <2>1, <2>3, <2>4
<1> QED
  BY <1>5, <1>6, <1>7

\* The same without capacity: the record is its thread's alone.
LEMMA RefsOfInsertWithoutCapacity ==
  ASSUME NEW H, NEW hd, RefsAgree(H, hd),
         NEW t \in Threads, hd[t] = Null,
         NEW e \in Handles, H[e].refs = 0,
         NEW G, G[e].refs = 1, ~G[e].in_cache, \A h \in Handles \ {e} : G[h] = H[h],
         NEW g, Moved(hd, g, t, e)
  PROVE  RefsAgree(G, g)
<1> SUFFICES ASSUME NEW h \in Handles
             PROVE  G[h].refs = One(G[h].in_cache) + Count(Threads, g, h)
  BY DEF RefsAgree
<1>1. Count(Threads, g, h) = Count(Threads, hd, h) - Same(hd[t], h) + Same(e, h)
  BY ThreadCount
<1>2. Same(hd[t], h) = 0
  BY LRUCacheAssumption DEF Null, Same
<1>3. H[h].refs = One(H[h].in_cache) + Count(Threads, hd, h) /\ Count(Threads, hd, h) \in Nat
  BY HoldersType DEF RefsAgree
<1>4. One(H[h].in_cache) \in {0, 1}
  BY OneIsNat
<1>5. CASE h = e
  <2>1. Count(Threads, hd, h) = 0
    BY <1>3, <1>4, <1>5
  <2> QED
    BY <1>1, <1>2, <1>5, <2>1 DEF One, Same
<1>6. CASE h # e
  <2>1. G[h] = H[h]
    BY <1>6
  <2> QED
    BY <1>1, <1>2, <1>3, <1>6, <2>1 DEF Same
<1> QED
  BY <1>5, <1>6

\* When no record is idle, each cached one is held by a thread of its own.
LEMMA NoneIdle ==
  ASSUME NEW c, CacheInv(c), NEW hd, RefsAgree(c.handles, hd), c.lru = <<>>
  PROVE  Cardinality(CachedIn(c.handles)) <= Cardinality(Threads)
<1> DEFINE C == CachedIn(c.handles)
           f == [h \in C |-> CHOOSE t \in Threads : hd[t] = h]
<1>1. ASSUME NEW h \in C
      PROVE  \E t \in Threads : hd[t] = h
  <2>1. ToSet(c.lru) = {}
    BY DEF ToSet
  <2>2. c.handles[h].refs # 1
    BY <2>1 DEF CacheInv, PartsInv, ListInv
  <2>3. h \in Handles /\ c.handles[h].refs = 1 + Count(Threads, hd, h)
    BY DEF CachedIn, RefsAgree, One
  <2>4. Count(Threads, hd, h) \in Nat
    BY HoldersType
  <2>5. Count(Threads, hd, h) > 0
    BY <2>2, <2>3, <2>4
  <2> QED
    BY <2>5, TableCacheAssumption, CountPositive
<1>2. \A h \in C : f[h] \in Threads /\ hd[f[h]] = h
  BY <1>1
<1>3. f \in Injection(C, Threads)
  BY <1>2 DEF Injection, IsInjective
<1> QED
  BY <1>3, TableCacheAssumption, FS_Injection

----------------------------------------------------------------------------
(* Files.                                                                  *)

AliveIn(H) == {h \in Handles : H[h].refs > 0}

Tagged(A, fl) == {<<h, fl[h]>> : h \in A}

Slots(closed, x) == Cardinality({f \in closed : f[2] = x})

\* Each closed file is counted once.
LEMMA ClosedCount ==
  ASSUME NEW A \in SUBSET Handles, NEW fl, NEW x
  PROVE  Count(A, fl, x) \in Nat /\ Slots(Tagged(A, fl), x) = Count(A, fl, x)
<1> DEFINE D == {h \in A : fl[h] = x}
           P == {f \in {<<h, fl[h]>> : h \in A} : f[2] = x}
           b == [h \in D |-> <<h, fl[h]>>]
<1>1. D \in SUBSET Handles
  OBVIOUS
<1>2. IsFiniteSet(D)
  BY <1>1, LRUCacheAssumption, FS_Subset
<1>3. b \in [D -> P]
  OBVIOUS
<1>4. \A g, h \in D : b[g] = b[h] => g = h
  OBVIOUS
<1>5. \A p \in P : \E h \in D : b[h] = p
  OBVIOUS
<1>6. b \in Bijection(D, P)
  BY <1>3, <1>4, <1>5 DEF Bijection, Injection, IsInjective, Surjection
<1>7. ExistsBijection(D, P)
  BY <1>6 DEF ExistsBijection
<1> HIDE DEF D, P, b
<1>8. Cardinality(P) = Cardinality(D)
  BY <1>2, <1>7, FS_Bijection
<1> QED
  BY <1>2, <1>8, FS_CardinalityType DEF D, P, Count, Slots, Tagged

\* What DeleteEntries leaves of the files: of the records A those in B keep
\* theirs, and the new one, e, has its own.
Kept(A, B, fl, e, kind, fm) ==
  /\ \A h \in Handles : fl[h] # "none" <=> h \in A
  /\ e \notin A /\ B \subseteq A \cup {e}
  /\ \A h \in Handles : fm[h] = IF h = e THEN kind ELSE IF h \in B THEN fl[h] ELSE "none"

IfNew(e, n) == IF e \in Handles THEN n ELSE 0

LEMMA FilesAfter ==
  ASSUME NEW A \in SUBSET Handles, NEW B \in SUBSET Handles,
         NEW fl, NEW e, NEW kind, NEW fm, Kept(A, B, fl, e, kind, fm),
         NEW x, x # "none"
  PROVE  Count(Handles, fm, x)
           = Count(Handles, fl, x) - Count(A \ B, fl, x) + IfNew(e, Same(kind, x))
<1> USE DEF Kept, IfNew
<1> DEFINE T == {h \in Handles : fl[h] = x}
           D == {h \in A \ B : fl[h] = x}
           U == {h \in Handles : fm[h] = x}
<1>1. T \in SUBSET Handles /\ D \in SUBSET T
  OBVIOUS
<1>2. IsFiniteSet(T) /\ IsFiniteSet(D) /\ Cardinality(T) \in Nat /\ Cardinality(D) \in Nat
  BY <1>1, LRUCacheAssumption, FS_Subset, FS_CardinalityType
<1>3. T \cap D = D
  BY <1>1
<1>4. IsFiniteSet(T \ D) /\ Cardinality(T \ D) = Cardinality(T) - Cardinality(D)
  BY <1>2, <1>3, FS_Difference
<1>5. e \notin T
  OBVIOUS
<1>6. Cardinality((T \ D) \cup {e}) = Cardinality(T \ D) + 1
  BY <1>4, <1>5, FS_AddElement
<1>7. U = IF e \in Handles /\ kind = x THEN (T \ D) \cup {e} ELSE T \ D
  <2>1. ASSUME NEW h \in Handles, h # e
        PROVE  h \in U <=> h \in T \ D
    <3>1. CASE h \in B
      BY <2>1, <3>1
    <3>2. CASE h \notin B
      BY <2>1, <3>2
    <3> QED
      BY <3>1, <3>2
  <2>2. e \in Handles => (e \in U <=> kind = x)
    OBVIOUS
  <2>3. U \subseteq Handles /\ T \ D \subseteq Handles /\ e \notin T \ D
    BY <1>5
  <2> HIDE DEF U, T, D
  <2> QED
    BY <2>1, <2>2, <2>3
<1> HIDE DEF T, D, U
<1>8. Cardinality(U) = Cardinality(T) - Cardinality(D) + IfNew(e, Same(kind, x))
  BY <1>2, <1>4, <1>6, <1>7 DEF Same
<1> QED
  BY <1>8 DEF Count, T, D, U

----------------------------------------------------------------------------
(* The steps that leave the cache alone.                                   *)

LEMMA CountsAreNat ==
  \A x : /\ Count(Handles, file, x) \in Nat
         /\ Count(Threads, opening, x) \in Nat
         /\ Count(Threads, pc, x) \in Nat
BY CountIsNat, LRUCacheAssumption, TableCacheAssumption

LEMMA StepMoves ==
  ASSUME VarsInv, NEW t \in Threads, NEW from, NEW to \in Labels, Step(t, from, to)
  PROVE  /\ pc' \in [Threads -> Labels]
         /\ pc[t] = from /\ pc'[t] = to /\ \A s \in Threads \ {t} : pc'[s] = pc[s]
         /\ \A x : Count(Threads, pc', x) = Count(Threads, pc, x) - Same(from, x) + Same(to, x)
<1>1. pc \in [Threads -> Labels] /\ pc[t] = from /\ pc' = [pc EXCEPT ![t] = to]
  BY DEF VarsInv, Step
<1>2. pc' \in [Threads -> Labels] /\ pc'[t] = to /\ \A s \in Threads \ {t} : pc'[s] = pc[s]
  BY <1>1
<1>3. Moved(pc, pc', t, to)
  BY <1>2 DEF Moved
<1>4. ASSUME NEW x
      PROVE  Count(Threads, pc', x) = Count(Threads, pc, x) - Same(from, x) + Same(to, x)
  BY <1>1, <1>3, ThreadCount
<1> QED
  BY <1>1, <1>2, <1>4

\* A thread opens a file, or gives it up or away.
LEMMA OpeningMoves ==
  ASSUME VarsInv, NEW t \in Threads, NEW kind \in Files,
         opening' = [opening EXCEPT ![t] = kind]
  PROVE  /\ opening' \in [Threads -> Files]
         /\ opening'[t] = kind /\ \A s \in Threads \ {t} : opening'[s] = opening[s]
         /\ \A x : Count(Threads, opening', x)
                     = Count(Threads, opening, x) - Same(opening[t], x) + Same(kind, x)
<1>1. opening \in [Threads -> Files]
  BY DEF VarsInv
<1>2. /\ opening' \in [Threads -> Files]
      /\ opening'[t] = kind /\ \A s \in Threads \ {t} : opening'[s] = opening[s]
  BY <1>1
<1>3. Moved(opening, opening', t, kind)
  BY <1>2 DEF Moved
<1>4. ASSUME NEW x
      PROVE  Count(Threads, opening', x)
               = Count(Threads, opening, x) - Same(opening[t], x) + Same(kind, x)
  BY <1>3, ThreadCount
<1> QED
  BY <1>2, <1>4

\* The file that a thread gives up has at most one slot.
LEMMA OneFileClosed ==
  ASSUME NEW t, NEW kind
  PROVE  /\ MmapSlots({<<t, kind>>}) = Same(kind, "mapped")
         /\ PreadSlots({<<t, kind>>}) = Same(kind, "fd")
<1>1. ASSUME NEW x
      PROVE  Cardinality({f \in {<<t, kind>>} : f[2] = x}) = Same(kind, x)
  <2>1. CASE kind = x
    <3>1. {f \in {<<t, kind>>} : f[2] = x} = {<<t, kind>>}
      BY <2>1
    <3> QED
      BY <2>1, <3>1, FS_Singleton DEF Same
  <2>2. CASE kind # x
    <3>1. {f \in {<<t, kind>>} : f[2] = x} = {}
      BY <2>2
    <3> QED
      BY <2>2, <3>1, FS_EmptySet DEF Same
  <2> QED
    BY <2>1, <2>2
<1> QED
  BY <1>1 DEF MmapSlots, PreadSlots

LEMMA OpenFailsKeeps ==
  ASSUME IInv, NEW t \in Threads, OpenFails(t)
  PROVE  IInv'
<1>1. Step(t, "miss", "idle") /\ want' = [want EXCEPT ![t] = Null]
  BY DEF OpenFails, GiveUp
<1>2. UNCHANGED <<cache, file, opening, hold, mmap_remains, pread_remains, fds>>
  BY DEF OpenFails
<1>3. VarsInv
  BY DEF IInv
<1>4. /\ pc' \in [Threads -> Labels]
      /\ pc[t] = "miss" /\ pc'[t] = "idle" /\ \A s \in Threads \ {t} : pc'[s] = pc[s]
      /\ \A x : Count(Threads, pc', x) = Count(Threads, pc, x) - Same("miss", x) + Same("idle", x)
  BY <1>1, <1>3, StepMoves DEF Labels
<1>5. VarsInv'
  BY <1>1, <1>2, <1>3, <1>4 DEF VarsInv
<1>6. PcInv'
  BY <1>1, <1>2, <1>3, <1>4 DEF VarsInv, PcInv, IInv
<1>7. /\ Count(Threads, pc, "map")' = Count(Threads, pc, "map")
      /\ Count(Threads, pc, "mmap_refused")' = Count(Threads, pc, "mmap_refused")
      /\ Count(Threads, pc, "pread")' = Count(Threads, pc, "pread")
      /\ Count(Threads, pc, "pread_refused")' = Count(Threads, pc, "pread_refused")
  BY <1>4, CountsAreNat DEF Same
<1>8. MmapInv' /\ PreadInv' /\ FdsInv'
  BY <1>2, <1>7 DEF IInv, MmapInv, PreadInv, FdsInv
<1> QED
  BY <1>2, <1>5, <1>6, <1>8 DEF IInv

LEMMA OpenFileKeeps ==
  ASSUME IInv, NEW t \in Threads, OpenFile(t)
  PROVE  IInv'
<1>1. /\ fds < MaxFds /\ fds' = fds + 1 /\ mmap_remains' = mmap_remains - 1
      /\ UNCHANGED <<cache, file, want, opening, hold, pread_remains>>
  BY DEF OpenFile
<1>2. PICK to \in {"map", "mmap_refused"} :
        Step(t, "miss", to) /\ (to = "map" <=> mmap_remains > 0)
  BY DEF OpenFile, Granted
<1>3. VarsInv
  BY DEF IInv
<1>4. /\ pc' \in [Threads -> Labels]
      /\ pc[t] = "miss" /\ pc'[t] = to /\ \A s \in Threads \ {t} : pc'[s] = pc[s]
      /\ \A x : Count(Threads, pc', x) = Count(Threads, pc, x) - Same("miss", x) + Same(to, x)
  BY <1>2, <1>3, StepMoves DEF Labels
<1>5. VarsInv'
  BY <1>1, <1>3, <1>4 DEF VarsInv
<1>6. PcInv'
  BY <1>1, <1>3, <1>4 DEF VarsInv, PcInv, IInv
<1>7. /\ Count(Threads, pc, "map")' = Count(Threads, pc, "map") + Same(to, "map")
      /\ Count(Threads, pc, "mmap_refused")'
           = Count(Threads, pc, "mmap_refused") + Same(to, "mmap_refused")
      /\ Count(Threads, pc, "pread")' = Count(Threads, pc, "pread")
      /\ Count(Threads, pc, "pread_refused")' = Count(Threads, pc, "pread_refused")
  BY <1>4, CountsAreNat DEF Same
<1>8. Same(to, "map") + Same(to, "mmap_refused") = 1 /\ (Same(to, "map") = 1 <=> mmap_remains > 0)
      /\ Same(to, "map") \in {0, 1} /\ Same(to, "mmap_refused") \in {0, 1}
  BY <1>2 DEF Same
<1>9. mmap_remains \in Int /\ fds \in Int /\ MaxMmap \in Nat /\ MaxFds \in Nat
  BY <1>3, TableCacheAssumption DEF VarsInv
<1>10. MmapInv'
  BY <1>1, <1>7, <1>8, <1>9, CountsAreNat DEF IInv, MmapInv
<1>11. PreadInv'
  BY <1>1, <1>7 DEF IInv, PreadInv
<1>12. FdsInv'
  BY <1>1, <1>7, <1>8, <1>9, CountsAreNat DEF IInv, FdsInv
<1> QED
  BY <1>1, <1>5, <1>6, <1>10, <1>11, <1>12 DEF IInv

LEMMA MapKeeps ==
  ASSUME IInv, NEW t \in Threads, Map(t)
  PROVE  IInv'
<1>1. fds' = fds - 1 /\ UNCHANGED <<cache, file, hold, pread_remains>>
  BY DEF Map
<1>2. VarsInv
  BY DEF IInv
<1>3. mmap_remains \in Int /\ fds \in Int /\ MaxMmap \in Nat /\ MaxFds \in Nat
  BY <1>2, TableCacheAssumption DEF VarsInv
<1>4. CASE /\ Step(t, "map", "open")
           /\ opening' = [opening EXCEPT ![t] = "mapped"]
           /\ UNCHANGED <<want, mmap_remains>>
  <2>1. /\ pc' \in [Threads -> Labels]
        /\ pc[t] = "map" /\ pc'[t] = "open" /\ \A s \in Threads \ {t} : pc'[s] = pc[s]
        /\ \A x : Count(Threads, pc', x) = Count(Threads, pc, x) - Same("map", x) + Same("open", x)
    BY <1>2, <1>4, StepMoves DEF Labels
  <2>2. /\ opening' \in [Threads -> Files]
        /\ opening'[t] = "mapped" /\ \A s \in Threads \ {t} : opening'[s] = opening[s]
        /\ \A x : Count(Threads, opening', x)
                    = Count(Threads, opening, x) - Same(opening[t], x) + Same("mapped", x)
    BY <1>2, <1>4, OpeningMoves DEF Files
  <2>3. opening[t] = "none"
    BY <2>1 DEF IInv, PcInv
  <2>4. VarsInv'
    BY <1>1, <1>2, <1>4, <2>1, <2>2 DEF VarsInv
  <2>5. PcInv'
    BY <1>1, <1>2, <1>4, <2>1, <2>2 DEF VarsInv, PcInv, IInv
  <2>6. /\ Count(Threads, pc, "map")' = Count(Threads, pc, "map") - 1
        /\ Count(Threads, pc, "mmap_refused")' = Count(Threads, pc, "mmap_refused")
        /\ Count(Threads, pc, "pread")' = Count(Threads, pc, "pread")
        /\ Count(Threads, pc, "pread_refused")' = Count(Threads, pc, "pread_refused")
    BY <2>1, CountsAreNat DEF Same
  <2>7. /\ Count(Threads, opening, "mapped")' = Count(Threads, opening, "mapped") + 1
        /\ Count(Threads, opening, "fd")' = Count(Threads, opening, "fd")
    BY <2>2, <2>3, CountsAreNat DEF Same
  <2>8. MmapInv'
    BY <1>1, <1>3, <1>4, <2>6, <2>7, CountsAreNat DEF IInv, MmapInv
  <2>9. PreadInv'
    BY <1>1, <2>6, <2>7 DEF IInv, PreadInv
  <2>10. FdsInv'
    BY <1>1, <1>3, <2>6, <2>7, CountsAreNat DEF IInv, FdsInv
  <2> QED
    BY <1>1, <2>4, <2>5, <2>8, <2>9, <2>10 DEF IInv
<1>5. CASE /\ GiveUp(t, "map")
           /\ mmap_remains' = mmap_remains + 1
           /\ UNCHANGED opening
  <2>1. Step(t, "map", "idle") /\ want' = [want EXCEPT ![t] = Null]
    BY <1>5 DEF GiveUp
  <2>2. /\ pc' \in [Threads -> Labels]
        /\ pc[t] = "map" /\ pc'[t] = "idle" /\ \A s \in Threads \ {t} : pc'[s] = pc[s]
        /\ \A x : Count(Threads, pc', x) = Count(Threads, pc, x) - Same("map", x) + Same("idle", x)
    BY <1>2, <2>1, StepMoves DEF Labels
  <2>3. /\ want' \in [Threads -> Keys \cup {Null}] /\ opening' = opening
        /\ mmap_remains' \in Int /\ fds' \in Int
    BY <1>1, <1>2, <1>3, <1>5, <2>1 DEF VarsInv
  <2>4. VarsInv'
    BY <1>1, <1>2, <2>2, <2>3 DEF VarsInv
  <2>5. PcInv'
    BY <1>1, <1>2, <1>5, <2>1, <2>2 DEF VarsInv, PcInv, IInv
  <2>6. /\ Count(Threads, pc, "map")' = Count(Threads, pc, "map") - 1
        /\ Count(Threads, pc, "mmap_refused")' = Count(Threads, pc, "mmap_refused")
        /\ Count(Threads, pc, "pread")' = Count(Threads, pc, "pread")
        /\ Count(Threads, pc, "pread_refused")' = Count(Threads, pc, "pread_refused")
    BY <2>2, CountsAreNat DEF Same
  <2>7. /\ Count(Threads, opening, "mapped")' = Count(Threads, opening, "mapped")
        /\ Count(Threads, opening, "fd")' = Count(Threads, opening, "fd")
    BY <1>5
  <2>8. MmapInv'
    BY <1>1, <1>3, <1>5, <2>6, <2>7, CountsAreNat DEF IInv, MmapInv
  <2>9. PreadInv'
    BY <1>1, <2>6, <2>7 DEF IInv, PreadInv
  <2>10. FdsInv'
    BY <1>1, <1>3, <2>6, <2>7, CountsAreNat DEF IInv, FdsInv
  <2> QED
    BY <1>1, <2>4, <2>5, <2>8, <2>9, <2>10 DEF IInv
<1> QED
  BY <1>4, <1>5 DEF Map

LEMMA MmapRefusedKeeps ==
  ASSUME IInv, NEW t \in Threads, MmapRefused(t)
  PROVE  IInv'
<1>1. /\ Step(t, "mmap_refused", "pread") /\ mmap_remains' = mmap_remains + 1
      /\ UNCHANGED <<cache, file, want, opening, hold, pread_remains, fds>>
  BY DEF MmapRefused
<1>2. VarsInv
  BY DEF IInv
<1>3. mmap_remains \in Int /\ fds \in Int /\ MaxMmap \in Nat /\ MaxFds \in Nat
  BY <1>2, TableCacheAssumption DEF VarsInv
<1>4. /\ pc' \in [Threads -> Labels]
      /\ pc[t] = "mmap_refused" /\ pc'[t] = "pread" /\ \A s \in Threads \ {t} : pc'[s] = pc[s]
      /\ \A x : Count(Threads, pc', x)
                  = Count(Threads, pc, x) - Same("mmap_refused", x) + Same("pread", x)
  BY <1>1, <1>2, StepMoves DEF Labels
<1>5. VarsInv'
  BY <1>1, <1>2, <1>4 DEF VarsInv
<1>6. PcInv'
  BY <1>1, <1>2, <1>4 DEF VarsInv, PcInv, IInv
<1>7. /\ Count(Threads, pc, "map")' = Count(Threads, pc, "map")
      /\ Count(Threads, pc, "mmap_refused")' = Count(Threads, pc, "mmap_refused") - 1
      /\ Count(Threads, pc, "pread")' = Count(Threads, pc, "pread") + 1
      /\ Count(Threads, pc, "pread_refused")' = Count(Threads, pc, "pread_refused")
  BY <1>4, CountsAreNat DEF Same
<1>8. MmapInv'
  BY <1>1, <1>3, <1>7, CountsAreNat DEF IInv, MmapInv
<1>9. PreadInv'
  BY <1>1, <1>7 DEF IInv, PreadInv
<1>10. FdsInv'
  BY <1>1, <1>3, <1>7, CountsAreNat DEF IInv, FdsInv
<1> QED
  BY <1>1, <1>5, <1>6, <1>8, <1>9, <1>10 DEF IInv

LEMMA PreadKeeps ==
  ASSUME IInv, NEW t \in Threads, Pread(t)
  PROVE  IInv'
<1>1. /\ pread_remains' = pread_remains - 1
      /\ UNCHANGED <<cache, file, want, hold, mmap_remains, fds>>
  BY DEF Pread
<1>2. VarsInv
  BY DEF IInv
<1>3. pread_remains \in Int /\ fds \in Int /\ MaxPread \in Nat /\ MaxFds \in Nat
  BY <1>2, TableCacheAssumption DEF VarsInv
<1>4. CASE /\ Granted(pread_remains)
           /\ Step(t, "pread", "open")
           /\ opening' = [opening EXCEPT ![t] = "fd"]
  <2>1. /\ pc' \in [Threads -> Labels]
        /\ pc[t] = "pread" /\ pc'[t] = "open" /\ \A s \in Threads \ {t} : pc'[s] = pc[s]
        /\ \A x : Count(Threads, pc', x) = Count(Threads, pc, x) - Same("pread", x) + Same("open", x)
    BY <1>2, <1>4, StepMoves DEF Labels
  <2>2. /\ opening' \in [Threads -> Files]
        /\ opening'[t] = "fd" /\ \A s \in Threads \ {t} : opening'[s] = opening[s]
        /\ \A x : Count(Threads, opening', x)
                    = Count(Threads, opening, x) - Same(opening[t], x) + Same("fd", x)
    BY <1>2, <1>4, OpeningMoves DEF Files
  <2>3. opening[t] = "none" /\ pread_remains > 0
    BY <1>4, <2>1 DEF IInv, PcInv, Granted
  <2>4. VarsInv'
    BY <1>1, <1>2, <2>1, <2>2 DEF VarsInv
  <2>5. PcInv'
    BY <1>1, <1>2, <2>1, <2>2 DEF VarsInv, PcInv, IInv
  <2>6. /\ Count(Threads, pc, "map")' = Count(Threads, pc, "map")
        /\ Count(Threads, pc, "mmap_refused")' = Count(Threads, pc, "mmap_refused")
        /\ Count(Threads, pc, "pread")' = Count(Threads, pc, "pread") - 1
        /\ Count(Threads, pc, "pread_refused")' = Count(Threads, pc, "pread_refused")
    BY <2>1, CountsAreNat DEF Same
  <2>7. /\ Count(Threads, opening, "mapped")' = Count(Threads, opening, "mapped")
        /\ Count(Threads, opening, "fd")' = Count(Threads, opening, "fd") + 1
    BY <2>2, <2>3, CountsAreNat DEF Same
  <2>8. MmapInv'
    BY <1>1, <2>6, <2>7 DEF IInv, MmapInv
  <2>9. PreadInv'
    BY <1>1, <1>3, <2>3, <2>6, <2>7, CountsAreNat DEF IInv, PreadInv
  <2>10. FdsInv'
    BY <1>1, <1>3, <2>6, <2>7, CountsAreNat DEF IInv, FdsInv
  <2> QED
    BY <1>1, <2>4, <2>5, <2>8, <2>9, <2>10 DEF IInv
<1>5. CASE /\ ~Granted(pread_remains)
           /\ Step(t, "pread", "pread_refused")
           /\ UNCHANGED opening
  <2>1. /\ pc' \in [Threads -> Labels]
        /\ pc[t] = "pread" /\ pc'[t] = "pread_refused" /\ \A s \in Threads \ {t} : pc'[s] = pc[s]
        /\ \A x : Count(Threads, pc', x)
                    = Count(Threads, pc, x) - Same("pread", x) + Same("pread_refused", x)
    BY <1>2, <1>5, StepMoves DEF Labels
  <2>2. opening' = opening /\ pread_remains' \in Int
    BY <1>1, <1>3, <1>5
  <2>4. VarsInv'
    BY <1>1, <1>2, <2>1, <2>2 DEF VarsInv
  <2>5. PcInv'
    BY <1>1, <1>2, <2>1, <2>2 DEF VarsInv, PcInv, IInv
  <2>6. /\ Count(Threads, pc, "map")' = Count(Threads, pc, "map")
        /\ Count(Threads, pc, "mmap_refused")' = Count(Threads, pc, "mmap_refused")
        /\ Count(Threads, pc, "pread")' = Count(Threads, pc, "pread") - 1
        /\ Count(Threads, pc, "pread_refused")' = Count(Threads, pc, "pread_refused") + 1
    BY <2>1, CountsAreNat DEF Same
  <2>8. MmapInv'
    BY <1>1, <2>2, <2>6 DEF IInv, MmapInv
  <2>9. PreadInv'
    BY <1>1, <1>3, <2>2, <2>6, CountsAreNat DEF IInv, PreadInv
  <2>10. FdsInv'
    BY <1>1, <1>3, <2>2, <2>6, CountsAreNat DEF IInv, FdsInv
  <2> QED
    BY <1>1, <2>4, <2>5, <2>8, <2>9, <2>10 DEF IInv
<1> QED
  BY <1>4, <1>5 DEF Pread

LEMMA PreadRefusedKeeps ==
  ASSUME IInv, NEW t \in Threads, PreadRefused(t)
  PROVE  IInv'
<1>1. /\ Step(t, "pread_refused", "open") /\ pread_remains' = pread_remains + 1
      /\ opening' = [opening EXCEPT ![t] = "reopen"]
      /\ UNCHANGED <<cache, file, want, hold, mmap_remains, fds>>
  BY DEF PreadRefused
<1>2. VarsInv
  BY DEF IInv
<1>3. pread_remains \in Int /\ fds \in Int /\ MaxPread \in Nat /\ MaxFds \in Nat
  BY <1>2, TableCacheAssumption DEF VarsInv
<1>4. /\ pc' \in [Threads -> Labels]
      /\ pc[t] = "pread_refused" /\ pc'[t] = "open" /\ \A s \in Threads \ {t} : pc'[s] = pc[s]
      /\ \A x : Count(Threads, pc', x)
                  = Count(Threads, pc, x) - Same("pread_refused", x) + Same("open", x)
  BY <1>1, <1>2, StepMoves DEF Labels
<1>5. /\ opening' \in [Threads -> Files]
      /\ opening'[t] = "reopen" /\ \A s \in Threads \ {t} : opening'[s] = opening[s]
      /\ \A x : Count(Threads, opening', x)
                  = Count(Threads, opening, x) - Same(opening[t], x) + Same("reopen", x)
  BY <1>1, <1>2, OpeningMoves DEF Files
<1>6. opening[t] = "none"
  BY <1>4 DEF IInv, PcInv
<1>7. VarsInv'
  BY <1>1, <1>2, <1>4, <1>5 DEF VarsInv
<1>8. PcInv'
  BY <1>1, <1>2, <1>4, <1>5 DEF VarsInv, PcInv, IInv
<1>9. /\ Count(Threads, pc, "map")' = Count(Threads, pc, "map")
      /\ Count(Threads, pc, "mmap_refused")' = Count(Threads, pc, "mmap_refused")
      /\ Count(Threads, pc, "pread")' = Count(Threads, pc, "pread")
      /\ Count(Threads, pc, "pread_refused")' = Count(Threads, pc, "pread_refused") - 1
  BY <1>4, CountsAreNat DEF Same
<1>10. /\ Count(Threads, opening, "mapped")' = Count(Threads, opening, "mapped")
       /\ Count(Threads, opening, "fd")' = Count(Threads, opening, "fd")
  BY <1>5, <1>6, CountsAreNat DEF Same
<1>11. MmapInv' /\ FdsInv'
  BY <1>1, <1>9, <1>10 DEF IInv, MmapInv, FdsInv
<1>12. PreadInv'
  BY <1>1, <1>3, <1>9, <1>10, CountsAreNat DEF IInv, PreadInv
<1> QED
  BY <1>1, <1>7, <1>8, <1>11, <1>12 DEF IInv

LEMMA TableIsBadKeeps ==
  ASSUME IInv, NEW t \in Threads, TableIsBad(t)
  PROVE  IInv'
<1>1. /\ Step(t, "open", "idle") /\ want' = [want EXCEPT ![t] = Null]
      /\ opening' = [opening EXCEPT ![t] = "none"]
      /\ UNCHANGED <<cache, file, hold>>
  BY DEF TableIsBad, GiveUp
<1>2. VarsInv
  BY DEF IInv
<1>3. /\ mmap_remains \in Int /\ pread_remains \in Int /\ fds \in Int
      /\ MaxMmap \in Nat /\ MaxPread \in Nat /\ MaxFds \in Nat
  BY <1>2, TableCacheAssumption DEF VarsInv
<1>4. /\ mmap_remains' = mmap_remains + Same(opening[t], "mapped")
      /\ pread_remains' = pread_remains + Same(opening[t], "fd")
      /\ fds' = fds - Same(opening[t], "fd")
  BY OneFileClosed DEF TableIsBad, CloseFiles
<1>5. Same(opening[t], "mapped") \in {0, 1} /\ Same(opening[t], "fd") \in {0, 1}
  BY DEF Same
<1>6. /\ pc' \in [Threads -> Labels]
      /\ pc[t] = "open" /\ pc'[t] = "idle" /\ \A s \in Threads \ {t} : pc'[s] = pc[s]
      /\ \A x : Count(Threads, pc', x) = Count(Threads, pc, x) - Same("open", x) + Same("idle", x)
  BY <1>1, <1>2, StepMoves DEF Labels
<1>7. /\ opening' \in [Threads -> Files]
      /\ opening'[t] = "none" /\ \A s \in Threads \ {t} : opening'[s] = opening[s]
      /\ \A x : Count(Threads, opening', x)
                  = Count(Threads, opening, x) - Same(opening[t], x) + Same("none", x)
  BY <1>1, <1>2, OpeningMoves DEF Files
<1>8. want' \in [Threads -> Keys \cup {Null}] /\ want'[t] = Null
      /\ \A s \in Threads \ {t} : want'[s] = want[s]
  BY <1>1, <1>2 DEF VarsInv
<1>9. mmap_remains' \in Int /\ pread_remains' \in Int /\ fds' \in Int
  BY <1>3, <1>4, <1>5
<1>10. VarsInv'
  BY <1>1, <1>2, <1>6, <1>7, <1>8, <1>9 DEF VarsInv
<1>11. PcInv'
  BY <1>1, <1>2, <1>6, <1>7, <1>8 DEF VarsInv, PcInv, IInv
<1>12. /\ Count(Threads, pc, "map")' = Count(Threads, pc, "map")
       /\ Count(Threads, pc, "mmap_refused")' = Count(Threads, pc, "mmap_refused")
       /\ Count(Threads, pc, "pread")' = Count(Threads, pc, "pread")
       /\ Count(Threads, pc, "pread_refused")' = Count(Threads, pc, "pread_refused")
  BY <1>6, CountsAreNat DEF Same
<1>13. /\ Count(Threads, opening, "mapped")' = Count(Threads, opening, "mapped") - Same(opening[t], "mapped")
       /\ Count(Threads, opening, "fd")' = Count(Threads, opening, "fd") - Same(opening[t], "fd")
  <2>1. Same("none", "mapped") = 0 /\ Same("none", "fd") = 0
    BY DEF Same
  <2> QED
    BY <1>5, <1>7, <2>1, CountsAreNat
<1>14. MmapInv'
  BY <1>1, <1>3, <1>4, <1>5, <1>12, <1>13, CountsAreNat DEF IInv, MmapInv
<1>15. PreadInv'
  BY <1>1, <1>3, <1>4, <1>5, <1>12, <1>13, CountsAreNat DEF IInv, PreadInv
<1>16. FdsInv'
  BY <1>1, <1>3, <1>4, <1>5, <1>12, <1>13, CountsAreNat DEF IInv, FdsInv
<1> QED
  BY <1>1, <1>10, <1>11, <1>14, <1>15, <1>16 DEF IInv

----------------------------------------------------------------------------
(* The steps that change the cache.                                        *)

\* The slots and descriptors given back are those of the files that are gone.
LEMMA DeleteEntriesEffect ==
  ASSUME IInv, NEW e, NEW kind \in Files, DeleteEntries(e, kind),
         e \notin Alive(cache), Alive(cache)' \subseteq Alive(cache) \cup {e},
         e \in Handles => e \in Alive(cache)' /\ kind # "none"
  PROVE  /\ file' \in [Handles -> Files]
         /\ FilesAgree(cache.handles, file)'
         /\ mmap_remains' \in Int /\ pread_remains' \in Int
         /\ mmap_remains' >= mmap_remains /\ pread_remains' >= pread_remains
         /\ Count(Handles, file, "mapped")'
              = Count(Handles, file, "mapped") - (mmap_remains' - mmap_remains)
                 + IfNew(e, Same(kind, "mapped"))
         /\ Count(Handles, file, "fd")'
              = Count(Handles, file, "fd") - (pread_remains' - pread_remains)
                 + IfNew(e, Same(kind, "fd"))
         /\ fds' = fds - (pread_remains' - pread_remains)
<1> DEFINE A == Alive(cache)
           B == Alive(cache)'
           gone(x) == Count(A \ B, file, x)
<1>1. /\ file \in [Handles -> Files]
      /\ mmap_remains \in Int /\ pread_remains \in Int /\ fds \in Int
  BY DEF IInv, VarsInv
<1>2. A \in SUBSET Handles /\ B \in SUBSET Handles /\ A \ B \in SUBSET Handles
  BY DEF Alive
<1>3. file' = [h \in Handles |-> IF h = e THEN kind ELSE IF h \in B THEN file[h] ELSE "none"]
  BY DEF DeleteEntries
<1>4. file' \in [Handles -> Files]
  BY <1>1, <1>3 DEF Files
<1>5. \A h \in Handles : file[h] # "none" <=> h \in A
  BY DEF IInv, FilesAgree, Alive
<1>6. \A h \in Handles : file'[h] # "none" <=> h \in B
  BY <1>3, <1>5
<1>7. FilesAgree(cache.handles, file)'
  BY <1>6 DEF FilesAgree, Alive
<1>8. Deleted = Tagged(A \ B, file)
  BY DEF Deleted, Tagged
<1>9. ASSUME NEW x
      PROVE  gone(x) \in Nat /\ Slots(Deleted, x) = gone(x)
  <2>1. Count(A \ B, file, x) \in Nat /\ Slots(Tagged(A \ B, file), x) = Count(A \ B, file, x)
    BY <1>2, ClosedCount
  <2> QED
    BY <1>8, <2>1
<1>10. /\ mmap_remains' = mmap_remains + gone("mapped")
       /\ pread_remains' = pread_remains + gone("fd")
       /\ fds' = fds - gone("fd")
  BY <1>9 DEF DeleteEntries, CloseFiles, MmapSlots, PreadSlots, Slots
<1> HIDE DEF gone, A, B
<1>11. ASSUME NEW x, x # "none"
       PROVE  Count(Handles, file, x)' = Count(Handles, file, x) - gone(x)
                                          + IfNew(e, Same(kind, x))
  <2>1. \A h \in Handles : file'[h] = IF h = e THEN kind ELSE IF h \in B THEN file[h] ELSE "none"
    BY <1>3
  <2>2. e \notin A /\ B \subseteq A \cup {e}
    BY DEF A, B
  <2>3. Kept(A, B, file, e, kind, file')
    BY <1>5, <2>1, <2>2 DEF Kept
  <2>4. Count(Handles, file', x) = Count(Handles, file, x) - Count(A \ B, file, x)
                                    + IfNew(e, Same(kind, x))
    BY <1>2, <1>11, <2>3, FilesAfter
  <2> QED
    BY <1>11, <2>4 DEF gone
<1>12. gone("mapped") \in Nat /\ gone("fd") \in Nat
  BY <1>9
<1> QED
  BY <1>1, <1>4, <1>7, <1>10, <1>11, <1>12

LEMMA LookupKeeps ==
  ASSUME IInv, NEW t \in Threads, NEW k \in Keys, Lookup(t, k)
  PROVE  IInv'
<1>1. /\ pc[t] = "idle" /\ want' = [want EXCEPT ![t] = k]
      /\ UNCHANGED <<file, opening, mmap_remains, pread_remains, fds>>
  BY DEF Lookup
<1>2. VarsInv /\ CacheInv(cache)
  BY DEF IInv
<1>3. k # Null
  BY LRUCacheAssumption DEF Null
<1>4. ASSUME NEW to \in {"miss", "reading"}, pc' = [pc EXCEPT ![t] = to]
      PROVE  /\ pc' \in [Threads -> Labels]
             /\ pc'[t] = to /\ \A s \in Threads \ {t} : pc'[s] = pc[s]
             /\ MmapInv' /\ PreadInv' /\ FdsInv'
  <2>1. Step(t, "idle", to)
    BY <1>1, <1>4 DEF Step
  <2>2. /\ pc' \in [Threads -> Labels]
        /\ pc'[t] = to /\ \A s \in Threads \ {t} : pc'[s] = pc[s]
        /\ \A x : Count(Threads, pc', x) = Count(Threads, pc, x) - Same("idle", x) + Same(to, x)
    BY <1>2, <2>1, StepMoves DEF Labels
  <2>3. /\ Count(Threads, pc, "map")' = Count(Threads, pc, "map")
        /\ Count(Threads, pc, "mmap_refused")' = Count(Threads, pc, "mmap_refused")
        /\ Count(Threads, pc, "pread")' = Count(Threads, pc, "pread")
        /\ Count(Threads, pc, "pread_refused")' = Count(Threads, pc, "pread_refused")
    BY <2>2, CountsAreNat DEF Same
  <2> QED
    BY <1>1, <2>2, <2>3 DEF IInv, MmapInv, PreadInv, FdsInv
<1>5. CASE /\ TableLookup(cache, k) = Null
           /\ pc' = [pc EXCEPT ![t] = "miss"]
           /\ UNCHANGED <<cache, hold>>
  <2>1. /\ pc' \in [Threads -> Labels]
        /\ pc'[t] = "miss" /\ \A s \in Threads \ {t} : pc'[s] = pc[s]
        /\ MmapInv' /\ PreadInv' /\ FdsInv'
    BY <1>4, <1>5
  <2>2. cache' = cache /\ hold' = hold
    BY <1>5
  <2>3. VarsInv'
    BY <1>1, <1>2, <2>1, <2>2 DEF VarsInv
  <2>4. PcInv'
    BY <1>1, <1>2, <1>3, <2>1, <2>2 DEF VarsInv, PcInv, IInv
  <2> QED
    BY <1>1, <2>1, <2>2, <2>3, <2>4 DEF IInv
<1>6. ASSUME NEW e, e = TableLookup(cache, k), e # Null,
             cache' = Ref(cache, e),
             hold' = [hold EXCEPT ![t] = e],
             pc' = [pc EXCEPT ![t] = "reading"]
      PROVE  IInv'
  <2>1. /\ pc' \in [Threads -> Labels]
        /\ pc'[t] = "reading" /\ \A s \in Threads \ {t} : pc'[s] = pc[s]
        /\ MmapInv' /\ PreadInv' /\ FdsInv'
    BY <1>4, <1>6
  <2> DEFINE H == cache.handles
  <2>2. e \in CachedIn(H) /\ e \in Handles
    BY <1>2, <1>6, LookupFinds DEF CachedIn
  <2>3. CacheInv(cache') /\ cache'.handles = [H EXCEPT ![e].refs = @ + 1]
    BY <1>2, <1>6, <2>2, RefEffect
  <2>4. H \in [Handles -> HandleRecords] /\ RecordInv(H)
    BY <1>2 DEF CacheInv, PartsInv
  <2>5. hold \in [Threads -> Handles \cup {Null}] /\ hold[t] = Null
    BY <1>1, <1>2 DEF VarsInv, IInv, PcInv
  <2>6. Moved(hold, hold', t, e)
    BY <1>6, <2>5 DEF Moved
  <2>7. RefsAgree(cache.handles, hold)'
    BY <2>2, <2>3, <2>4, <2>5, <2>6, RefsOfLookup DEF IInv
  <2>8. H[e].refs \in Nat \ {0}
    BY <2>2, <2>4, CachedHasRefs
  <2>9. FilesAgree(cache.handles, file)'
    <3>1. \A h \in Handles : cache'.handles[h].refs > 0 <=> H[h].refs > 0
      BY <2>2, <2>3, <2>4, <2>8 DEF HandleRecords
    <3> QED
      BY <1>1, <3>1 DEF IInv, FilesAgree
  <2>10. CachedIn(cache.handles)' = CachedIn(H)
    BY <2>2, <2>3, <2>4 DEF CachedIn, HandleRecords
  <2>11. VarsInv'
    BY <1>1, <1>2, <1>6, <2>1, <2>2 DEF VarsInv
  <2>12. PcInv'
    BY <1>1, <1>2, <1>3, <1>6, <2>1, <2>2 DEF VarsInv, PcInv, IInv
  <2>13. (Cardinality(CachedIn(cache.handles)) <= MostCached)'
    BY <2>10 DEF IInv, MostCached
  <2> QED
    BY <2>1, <2>3, <2>7, <2>9, <2>11, <2>12, <2>13 DEF IInv
<1> QED
  BY <1>5, <1>6 DEF Lookup

\* The cache after Insert.
LEMMA InsertCache ==
  ASSUME NEW c, CacheInv(c), NEW hd, RefsAgree(c.handles, hd),
         Cardinality(CachedIn(c.handles)) <= MostCached,
         NEW t \in Threads, hd[t] = Null, NEW k \in Keys,
         NEW e \in Handles, c.handles[e].refs = 0,
         NEW d, d = Insert(c, k, e), NEW g, Moved(hd, g, t, e)
  PROVE  /\ CacheInv(d)
         /\ RefsAgree(d.handles, g)
         /\ AliveIn(d.handles) \subseteq AliveIn(c.handles) \cup {e}
         /\ e \in AliveIn(d.handles)
         /\ Cardinality(CachedIn(d.handles)) <= MostCached
<1>1. c.handles \in [Handles -> HandleRecords] /\ RecordInv(c.handles)
  BY DEF CacheInv, PartsInv
<1>2. Capacity \in Nat /\ Cardinality(Threads) \in Nat
  BY LRUCacheAssumption, TableCacheAssumption, FS_CardinalityType
<1>3. CASE Capacity # 0
  <2>1. Inserted(c, k, e, d)
    BY <1>3, InsertEffect
  <2>2. CacheInv(d)
    BY <2>1 DEF Inserted
  <2>3. RefsAgree(d.handles, g)
    BY <2>1, RefsOfInsert
  <2>4. ASSUME NEW h \in Handles \ {e}, d.handles[h].refs > 0
        PROVE  c.handles[h].refs > 0
    <3>1. CASE h = TableLookup(c, k)
      <4>1. h # Null
        BY LRUCacheAssumption DEF Null
      <4>2. h \in CachedIn(c.handles)
        BY <3>1, <4>1, LookupFinds
      <4>3. c.handles[h].refs \in Nat \ {0}
        BY <1>1, <4>2, CachedHasRefs
      <4> QED
        BY <4>3
    <3>2. CASE h # TableLookup(c, k)
      <4>1. \/ d.handles[h] = c.handles[h]
            \/ c.handles[h].refs = 1
        BY <2>1, <3>2 DEF Inserted
      <4> QED
        BY <2>4, <4>1
    <3> QED
      BY <3>1, <3>2
  <2>5. d.handles[e].refs = 2
    BY <2>1, NewRecordIs DEF Inserted
  <2>6. d.usage <= Capacity \/ d.lru = <<>>
    BY <2>1 DEF Inserted
  <2>7. d.usage = Cardinality(CachedIn(d.handles))
    BY <2>2 DEF CacheInv, PartsInv, CountInv
  <2>8. Cardinality(CachedIn(d.handles)) \in Nat
    BY CachedFinite
  <2>9. Cardinality(CachedIn(d.handles)) <= Capacity
        \/ Cardinality(CachedIn(d.handles)) <= Cardinality(Threads)
    BY <2>2, <2>3, <2>6, <2>7, NoneIdle
  <2>10. Cardinality(CachedIn(d.handles)) <= MostCached
    BY <1>2, <2>8, <2>9 DEF MostCached
  <2> QED
    BY <2>2, <2>3, <2>4, <2>5, <2>10 DEF AliveIn
<1>4. CASE Capacity = 0
  <2>1. /\ CacheInv(d)
        /\ d.handles[e].refs = 1 /\ ~d.handles[e].in_cache
        /\ \A h \in Handles \ {e} : d.handles[h] = c.handles[h]
    BY <1>4, InsertWithoutCapacity
  <2>2. RefsAgree(d.handles, g)
    BY <2>1, RefsOfInsertWithoutCapacity
  <2>3. e \notin CachedIn(c.handles)
    BY <1>1, CachedHasRefs
  <2>4. CachedIn(d.handles) = CachedIn(c.handles)
    BY <2>1, <2>3 DEF CachedIn
  <2> QED
    BY <2>1, <2>2, <2>4 DEF AliveIn
<1> QED
  BY <1>3, <1>4

\* The cache after Release.
LEMMA ReleaseCache ==
  ASSUME NEW c, CacheInv(c), NEW hd \in [Threads -> Handles \cup {Null}],
         RefsAgree(c.handles, hd), NEW t \in Threads, NEW e \in Handles, hd[t] = e,
         NEW d, d = Unref(c, e), NEW g, Moved(hd, g, t, Null)
  PROVE  /\ CacheInv(d)
         /\ RefsAgree(d.handles, g)
         /\ AliveIn(d.handles) \subseteq AliveIn(c.handles)
         /\ CachedIn(d.handles) = CachedIn(c.handles)
         /\ \A h \in CachedIn(c.handles) : d.handles[h].key = c.handles[h].key
<1> DEFINE H == c.handles
<1>1. H \in [Handles -> HandleRecords]
  BY DEF CacheInv, PartsInv
<1>2. /\ H[e].refs > 0 /\ (H[e].in_cache => H[e].refs > 1)
      /\ RefsAgree(Unreferenced(H, e), g)
  BY <1>1, RefsOfRelease
<1>3. CacheInv(d) /\ d.handles = Unreferenced(H, e)
  BY <1>2, UnrefEffect DEF CachedIn
<1>4. ASSUME NEW h \in Handles
      PROVE  /\ d.handles[h].refs > 0 => H[h].refs > 0
             /\ h \in CachedIn(d.handles) <=> h \in CachedIn(H)
             /\ h \in CachedIn(H) => d.handles[h].key = H[h].key
  <2>1. CASE h # e
    BY <1>1, <1>3, <2>1 DEF Unreferenced, CachedIn
  <2>2. CASE h = e /\ H[e].refs = 1
    <3>1. ~H[e].in_cache
      BY <1>2, <2>2
    <3>2. ~d.handles[e].in_cache
      BY <1>1, <1>3, <2>2 DEF Unreferenced, Freed
    <3> QED
      BY <1>2, <2>2, <3>1, <3>2 DEF CachedIn
  <2>3. CASE h = e /\ H[e].refs # 1
    <3>1. d.handles[e].in_cache = H[e].in_cache /\ d.handles[e].key = H[e].key
      BY <1>1, <1>3, <2>3 DEF Unreferenced, HandleRecords
    <3> QED
      BY <1>2, <2>3, <3>1 DEF CachedIn
  <2> QED
    BY <2>1, <2>2, <2>3
<1> QED
  BY <1>2, <1>3, <1>4 DEF AliveIn, CachedIn

\* The cache after Erase.
LEMMA EraseCache ==
  ASSUME NEW c, CacheInv(c), NEW hd, RefsAgree(c.handles, hd), NEW k \in Keys,
         NEW d, d = Erase(c, k)
  PROVE  /\ CacheInv(d)
         /\ RefsAgree(d.handles, hd)
         /\ AliveIn(d.handles) \subseteq AliveIn(c.handles)
         /\ CachedIn(d.handles) = CachedIn(c.handles) \ {TableLookup(c, k)}
         /\ \A h \in CachedIn(d.handles) : d.handles[h].key = c.handles[h].key
<1> DEFINE H == c.handles
           e == TableLookup(c, k)
<1>1. H \in [Handles -> HandleRecords]
  BY DEF CacheInv, PartsInv
<1>2. CASE e = Null
  <2>1. d = c
    BY <1>2, EraseEffect
  <2>2. Null \notin CachedIn(H)
    BY LRUCacheAssumption DEF Null, CachedIn
  <2> QED
    BY <1>2, <2>1, <2>2
<1>3. CASE e # Null
  <2>1. CacheInv(d) /\ d.handles = [H EXCEPT ![e] = Dropped(H[e])]
    BY <1>3, EraseEffect
  <2>2. e \in CachedIn(H) /\ e \in Handles
    BY <1>3, LookupFinds DEF CachedIn
  <2>3. H[e].refs > 0 /\ ~Dropped(H[e]).in_cache
    BY <1>1, <2>2, RefsOfDropped
  <2>4. RefsAgree(d.handles, hd)
    BY <1>1, <2>1, <2>2, RefsOfErase
  <2>5. d.handles[e] = Dropped(H[e]) /\ \A h \in Handles \ {e} : d.handles[h] = H[h]
    BY <1>1, <2>1, <2>2
  <2> HIDE DEF e
  <2> QED
    BY <2>1, <2>2, <2>3, <2>4, <2>5 DEF AliveIn, CachedIn, e
<1> QED
  BY <1>2, <1>3

LEMMA AliveInCache == Alive(cache) = AliveIn(cache.handles)
BY DEF Alive, AliveIn

\* The counts of cached records only come down.
LEMMA FewerCached ==
  ASSUME NEW C \in SUBSET Handles, Cardinality(C) <= MostCached, NEW D \in SUBSET C
  PROVE  Cardinality(D) <= MostCached
<1>1. IsFiniteSet(C)
  BY LRUCacheAssumption, FS_Subset
<1>2. IsFiniteSet(D) /\ Cardinality(D) <= Cardinality(C)
  BY <1>1, FS_Subset
<1>3. Cardinality(C) \in Nat /\ Cardinality(D) \in Nat
  BY <1>1, <1>2, FS_CardinalityType
<1>4. Capacity \in Nat /\ Cardinality(Threads) \in Nat
  BY LRUCacheAssumption, TableCacheAssumption, FS_CardinalityType
<1> QED
  BY <1>2, <1>3, <1>4 DEF MostCached

LEMMA InsertTableKeeps ==
  ASSUME IInv, NEW t \in Threads, InsertTable(t)
  PROVE  IInv'
<1>1. PICK e \in Handles \ Alive(cache) :
        /\ cache' = Insert(cache, want[t], e)
        /\ hold' = [hold EXCEPT ![t] = e]
        /\ DeleteEntries(e, opening[t])
  <2> DEFINE free == Handles \ Alive(cache)
             e == CHOOSE h \in free : \A g \in free : h <= g
  <2>1. free \in SUBSET Nat /\ free # {}
    BY LRUCacheAssumption DEF InsertTable
  <2>2. \E h \in free : \A g \in free : h <= g
    BY <2>1, LeastNatural
  <2>3. e \in free
    BY <2>2
  <2> QED
    BY <2>3 DEF InsertTable
<1>2. /\ Step(t, "open", "reading")
      /\ opening' = [opening EXCEPT ![t] = "none"] /\ want' = want
  BY DEF InsertTable
<1>3. VarsInv
  BY DEF IInv
<1>4. /\ mmap_remains \in Int /\ pread_remains \in Int /\ fds \in Int
      /\ MaxMmap \in Nat /\ MaxPread \in Nat /\ MaxFds \in Nat
  BY <1>3, TableCacheAssumption DEF VarsInv
<1>5. /\ pc' \in [Threads -> Labels]
      /\ pc[t] = "open" /\ pc'[t] = "reading" /\ \A s \in Threads \ {t} : pc'[s] = pc[s]
      /\ \A x : Count(Threads, pc', x) = Count(Threads, pc, x) - Same("open", x) + Same("reading", x)
  BY <1>2, <1>3, StepMoves DEF Labels
<1>6. /\ opening' \in [Threads -> Files]
      /\ opening'[t] = "none" /\ \A s \in Threads \ {t} : opening'[s] = opening[s]
      /\ \A x : Count(Threads, opening', x)
                  = Count(Threads, opening, x) - Same(opening[t], x) + Same("none", x)
  BY <1>2, <1>3, OpeningMoves DEF Files
<1>7. opening[t] # "none" /\ hold[t] = Null /\ want[t] \in Keys
  BY <1>3, <1>5 DEF IInv, PcInv, VarsInv
<1>8. PICK kind \in Files : kind = opening[t]
  BY <1>3 DEF VarsInv
<1>9. PICK k \in Keys : k = want[t]
  BY <1>7
<1>10. cache.handles[e].refs = 0
  <2>1. cache.handles[e] \in HandleRecords
    BY <1>1 DEF IInv, CacheInv, PartsInv
  <2>2. cache.handles[e].refs \in Nat
    BY <2>1 DEF HandleRecords
  <2> QED
    BY <1>1, <2>2 DEF Alive
<1>11. e # Null /\ e \in Handles
  BY <1>1, LRUCacheAssumption DEF Null
<1>12. /\ hold' \in [Threads -> Handles \cup {Null}]
       /\ hold'[t] = e /\ \A s \in Threads \ {t} : hold'[s] = hold[s]
  BY <1>1, <1>3, <1>11 DEF VarsInv
<1>13. Moved(hold, hold', t, e)
  BY <1>12 DEF Moved
<1>14. cache' = Insert(cache, k, e)
  BY <1>1, <1>9
<1>15. /\ CacheInv(cache')
       /\ RefsAgree(cache'.handles, hold')
       /\ AliveIn(cache'.handles) \subseteq AliveIn(cache.handles) \cup {e}
       /\ e \in AliveIn(cache'.handles)
       /\ Cardinality(CachedIn(cache'.handles)) <= MostCached
  BY <1>7, <1>10, <1>11, <1>13, <1>14, InsertCache DEF IInv
<1>16. e \notin Alive(cache) /\ Alive(cache)' \subseteq Alive(cache) \cup {e} /\ e \in Alive(cache)'
  BY <1>1, <1>15 DEF Alive, AliveIn
<1>17. DeleteEntries(e, kind) /\ kind # "none"
  BY <1>1, <1>7, <1>8
<1>18. /\ file' \in [Handles -> Files]
       /\ FilesAgree(cache.handles, file)'
       /\ mmap_remains' \in Int /\ pread_remains' \in Int
       /\ mmap_remains' >= mmap_remains /\ pread_remains' >= pread_remains
       /\ Count(Handles, file, "mapped")'
            = Count(Handles, file, "mapped") - (mmap_remains' - mmap_remains)
               + IfNew(e, Same(kind, "mapped"))
       /\ Count(Handles, file, "fd")'
            = Count(Handles, file, "fd") - (pread_remains' - pread_remains)
               + IfNew(e, Same(kind, "fd"))
       /\ fds' = fds - (pread_remains' - pread_remains)
  BY <1>16, <1>17, DeleteEntriesEffect
<1>19. fds' \in Int
  BY <1>4, <1>18
<1>20. VarsInv'
  BY <1>2, <1>3, <1>5, <1>6, <1>12, <1>18, <1>19 DEF VarsInv
<1>21. PcInv'
  BY <1>2, <1>3, <1>5, <1>6, <1>11, <1>12 DEF VarsInv, PcInv, IInv
<1>22. /\ Count(Threads, pc, "map")' = Count(Threads, pc, "map")
       /\ Count(Threads, pc, "mmap_refused")' = Count(Threads, pc, "mmap_refused")
       /\ Count(Threads, pc, "pread")' = Count(Threads, pc, "pread")
       /\ Count(Threads, pc, "pread_refused")' = Count(Threads, pc, "pread_refused")
  BY <1>5, CountsAreNat DEF Same
<1>23. /\ Same("none", "mapped") = 0 /\ Same("none", "fd") = 0
       /\ Same(kind, "mapped") \in {0, 1} /\ Same(kind, "fd") \in {0, 1}
       /\ IfNew(e, Same(kind, "mapped")) = Same(kind, "mapped")
       /\ IfNew(e, Same(kind, "fd")) = Same(kind, "fd")
  BY <1>11 DEF Same, IfNew
<1>24. /\ Count(Threads, opening, "mapped")' = Count(Threads, opening, "mapped") - Same(kind, "mapped")
       /\ Count(Threads, opening, "fd")' = Count(Threads, opening, "fd") - Same(kind, "fd")
  BY <1>6, <1>8, <1>23, CountsAreNat
<1>25. MmapInv'
  BY <1>4, <1>18, <1>22, <1>23, <1>24, CountsAreNat DEF IInv, MmapInv
<1>26. PreadInv'
  <2> DEFINE F == Count(Handles, file, "fd")
             O == Count(Threads, opening, "fd")
             R == Count(Threads, pc, "pread_refused")
  <2>1. F \in Nat /\ O \in Nat /\ R \in Nat
    BY CountsAreNat
  <2>2. F + O <= MaxPread /\ pread_remains = MaxPread - F - O - R
    BY DEF IInv, PreadInv
  <2>3. /\ F' = F - (pread_remains' - pread_remains) + Same(kind, "fd")
        /\ O' = O - Same(kind, "fd") /\ R' = R
    BY <1>18, <1>22, <1>23, <1>24
  <2>4. pread_remains' \in Int /\ pread_remains' >= pread_remains /\ Same(kind, "fd") \in {0, 1}
    BY <1>18, <1>23
  <2>5. PreadInv' <=> F' + O' <= MaxPread /\ pread_remains' = MaxPread - F' - O' - R'
    BY DEF PreadInv
  <2> HIDE DEF F, O, R
  <2> QED
    BY <1>4, <2>1, <2>2, <2>3, <2>4, <2>5
<1>27. FdsInv'
  BY <1>4, <1>18, <1>22, <1>23, <1>24, CountsAreNat DEF IInv, PreadInv, FdsInv
<1> QED
  BY <1>15, <1>18, <1>20, <1>21, <1>25, <1>26, <1>27 DEF IInv, MostCached

LEMMA Difference == \A a, b \in Int : a >= b => \E n \in Nat : n = a - b
OBVIOUS

\* Records are deleted and none is new.
LEMMA OnlyDeleted ==
  ASSUME IInv, DeleteEntries(Null, "none"), Alive(cache)' \subseteq Alive(cache), opening' = opening,
         \A x \in {"map", "mmap_refused", "pread", "pread_refused"} :
           Count(Threads, pc, x)' = Count(Threads, pc, x)
  PROVE  /\ file' \in [Handles -> Files]
         /\ mmap_remains' \in Int /\ pread_remains' \in Int /\ fds' \in Int
         /\ FilesAgree(cache.handles, file)'
         /\ MmapInv' /\ PreadInv' /\ FdsInv'
<1>1. Null \notin Handles /\ Null \notin Alive(cache)
  BY LRUCacheAssumption DEF Null, Alive
<1>2. \A n : IfNew(Null, n) = 0
  BY <1>1 DEF IfNew
<1>3. "none" \in Files
  BY DEF Files
<1>4. Alive(cache)' \subseteq Alive(cache) \cup {Null}
  OBVIOUS
<1>5. /\ file' \in [Handles -> Files]
      /\ FilesAgree(cache.handles, file)'
      /\ mmap_remains' \in Int /\ pread_remains' \in Int
      /\ mmap_remains' >= mmap_remains /\ pread_remains' >= pread_remains
      /\ Count(Handles, file, "mapped")'
           = Count(Handles, file, "mapped") - (mmap_remains' - mmap_remains)
              + IfNew(Null, Same("none", "mapped"))
      /\ Count(Handles, file, "fd")'
           = Count(Handles, file, "fd") - (pread_remains' - pread_remains)
              + IfNew(Null, Same("none", "fd"))
      /\ fds' = fds - (pread_remains' - pread_remains)
  BY <1>1, <1>3, <1>4, DeleteEntriesEffect
<1>6. /\ mmap_remains \in Int /\ pread_remains \in Int /\ fds \in Int
      /\ MaxMmap \in Nat /\ MaxPread \in Nat /\ MaxFds \in Nat
  BY TableCacheAssumption DEF VarsInv, IInv
<1>7. fds' \in Int
  BY <1>5, <1>6
<1>8. /\ Count(Threads, pc, "map")' = Count(Threads, pc, "map")
      /\ Count(Threads, pc, "mmap_refused")' = Count(Threads, pc, "mmap_refused")
      /\ Count(Threads, pc, "pread")' = Count(Threads, pc, "pread")
      /\ Count(Threads, pc, "pread_refused")' = Count(Threads, pc, "pread_refused")
  OBVIOUS
<1>9. /\ Count(Threads, opening, "mapped")' = Count(Threads, opening, "mapped")
      /\ Count(Threads, opening, "fd")' = Count(Threads, opening, "fd")
  OBVIOUS
<1>10. /\ Count(Handles, file, "mapped")'
            = Count(Handles, file, "mapped") - (mmap_remains' - mmap_remains)
       /\ Count(Handles, file, "fd")'
            = Count(Handles, file, "fd") - (pread_remains' - pread_remains)
  BY <1>2, <1>5, <1>6, CountsAreNat
<1>11. MmapInv'
  BY <1>5, <1>6, <1>8, <1>9, <1>10, CountsAreNat DEF IInv, MmapInv
<1>12. PreadInv'
  BY <1>5, <1>6, <1>8, <1>9, <1>10, CountsAreNat DEF IInv, PreadInv
<1>13. FdsInv'
  <2>1. PICK back \in Nat : back = pread_remains' - pread_remains
    BY <1>5, <1>6, Difference
  <2>2. fds' = fds - back
    BY <1>5, <2>1
  <2>3. Count(Handles, file, "fd")' = Count(Handles, file, "fd") - back
    BY <1>10, <2>1
  <2>4. fds' <= MaxFds
    BY <1>6, <2>2 DEF IInv, FdsInv
  <2> QED
    BY <1>6, <1>8, <1>9, <2>2, <2>3, <2>4, CountsAreNat DEF IInv, FdsInv
<1> QED
  BY <1>5, <1>7, <1>11, <1>12, <1>13

LEMMA ReleaseKeeps ==
  ASSUME IInv, NEW t \in Threads, Release(t)
  PROVE  IInv'
<1>1. /\ Step(t, "reading", "idle") /\ want' = [want EXCEPT ![t] = Null]
      /\ hold' = [hold EXCEPT ![t] = Null] /\ DeleteEntries(Null, "none") /\ opening' = opening
  BY DEF Release, GiveUp
<1>2. VarsInv
  BY DEF IInv
<1>3. /\ pc' \in [Threads -> Labels]
      /\ pc[t] = "reading" /\ pc'[t] = "idle" /\ \A s \in Threads \ {t} : pc'[s] = pc[s]
      /\ \A x : Count(Threads, pc', x) = Count(Threads, pc, x) - Same("reading", x) + Same("idle", x)
  BY <1>1, <1>2, StepMoves DEF Labels
<1>4. PICK e \in Handles : e = hold[t]
  BY <1>2, <1>3 DEF VarsInv, IInv, PcInv
<1>5. /\ hold' \in [Threads -> Handles \cup {Null}]
      /\ hold'[t] = Null /\ \A s \in Threads \ {t} : hold'[s] = hold[s]
  BY <1>1, <1>2 DEF VarsInv
<1>6. Moved(hold, hold', t, Null)
  BY <1>5 DEF Moved
<1>7. cache' = Unref(cache, e)
  BY <1>4 DEF Release
<1>8. hold \in [Threads -> Handles \cup {Null}]
  BY <1>2 DEF VarsInv
<1>9. /\ CacheInv(cache')
      /\ RefsAgree(cache'.handles, hold')
      /\ AliveIn(cache'.handles) \subseteq AliveIn(cache.handles)
      /\ CachedIn(cache'.handles) = CachedIn(cache.handles)
  BY <1>4, <1>6, <1>7, <1>8, ReleaseCache DEF IInv
<1>10. Alive(cache)' \subseteq Alive(cache)
  BY <1>9 DEF Alive, AliveIn
<1>11. \A x \in {"map", "mmap_refused", "pread", "pread_refused"} :
         Count(Threads, pc, x)' = Count(Threads, pc, x)
  BY <1>3, CountsAreNat DEF Same
<1>12. /\ file' \in [Handles -> Files]
       /\ mmap_remains' \in Int /\ pread_remains' \in Int /\ fds' \in Int
       /\ FilesAgree(cache.handles, file)'
       /\ MmapInv' /\ PreadInv' /\ FdsInv'
  BY <1>1, <1>10, <1>11, OnlyDeleted
<1>13. VarsInv'
  BY <1>1, <1>2, <1>3, <1>5, <1>12 DEF VarsInv
<1>14. PcInv'
  BY <1>1, <1>2, <1>3, <1>5 DEF VarsInv, PcInv, IInv
<1> QED
  BY <1>9, <1>12, <1>13, <1>14 DEF IInv, MostCached

LEMMA EvictTableKeeps ==
  ASSUME IInv, NEW k \in Keys, EvictTable(k)
  PROVE  IInv'
<1>1. /\ cache' = Erase(cache, k) /\ DeleteEntries(Null, "none")
      /\ pc' = pc /\ want' = want /\ opening' = opening /\ hold' = hold
  BY DEF EvictTable
<1>2. /\ CacheInv(cache')
      /\ RefsAgree(cache'.handles, hold)
      /\ AliveIn(cache'.handles) \subseteq AliveIn(cache.handles)
      /\ CachedIn(cache'.handles) = CachedIn(cache.handles) \ {TableLookup(cache, k)}
  BY <1>1, EraseCache DEF IInv
<1>3. Alive(cache)' \subseteq Alive(cache)
  BY <1>2 DEF Alive, AliveIn
<1>4. /\ file' \in [Handles -> Files]
      /\ mmap_remains' \in Int /\ pread_remains' \in Int /\ fds' \in Int
      /\ FilesAgree(cache.handles, file)'
      /\ MmapInv' /\ PreadInv' /\ FdsInv'
  BY <1>1, <1>3, OnlyDeleted
<1>5. Cardinality(CachedIn(cache'.handles)) <= MostCached
  <2>1. CachedIn(cache.handles) \in SUBSET Handles
    BY DEF CachedIn
  <2> QED
    BY <1>2, <2>1, FewerCached DEF IInv
<1>6. VarsInv' /\ PcInv'
  BY <1>1, <1>4 DEF VarsInv, PcInv, IInv
<1> QED
  BY <1>1, <1>2, <1>4, <1>5, <1>6 DEF IInv, MostCached

\* No thread has a handle, so every record is the cache's alone.
LEMMA ReopenEmpties ==
  ASSUME IInv, \A t \in Threads : pc[t] = "idle"
  PROVE  Destroy(cache) = EmptyCache
<1> DEFINE H == cache.handles
<1>1. ASSUME NEW h \in Handles, H[h].refs > 0
      PROVE  h \in CachedIn(H) /\ H[h].refs = 1
  <2>1. h # Null /\ \A t \in Threads : hold[t] = Null
    BY LRUCacheAssumption DEF IInv, PcInv, Null
  <2>2. Count(Threads, hold, h) \in Nat /\ ~(Count(Threads, hold, h) > 0)
    BY <2>1, HoldersType, TableCacheAssumption, CountPositive
  <2>3. H[h].refs = One(H[h].in_cache) + Count(Threads, hold, h)
    BY DEF IInv, RefsAgree
  <2> QED
    BY <1>1, <2>2, <2>3 DEF One, CachedIn
<1> QED
  BY <1>1, DestroyEffect DEF IInv

\* The empty cache has no record.
LEMMA NoRecord ==
  /\ EmptyCache.handles = [h \in Handles |-> Freed]
  /\ CachedIn(EmptyCache.handles) = {}
  /\ AliveIn(EmptyCache.handles) = {}
<1>1. EmptyCache.handles = [h \in Handles |-> Freed]
  BY DEF EmptyCache
<1>2. \A h \in Handles : EmptyCache.handles[h].refs = 0 /\ ~EmptyCache.handles[h].in_cache
  BY <1>1 DEF Freed
<1> QED
  BY <1>1, <1>2 DEF CachedIn, AliveIn

\* Nobody holds anything of the empty cache.
LEMMA NoReference ==
  ASSUME NEW hd, \A t \in Threads : hd[t] = Null
  PROVE  RefsAgree(EmptyCache.handles, hd)
<1> SUFFICES ASSUME NEW h \in Handles
             PROVE  EmptyCache.handles[h].refs
                      = One(EmptyCache.handles[h].in_cache) + Count(Threads, hd, h)
  BY DEF RefsAgree
<1>1. EmptyCache.handles[h].refs = 0 /\ ~EmptyCache.handles[h].in_cache
  BY NoRecord DEF Freed
<1>2. h # Null
  BY LRUCacheAssumption DEF Null
<1>3. Count(Threads, hd, h) \in Nat /\ ~(Count(Threads, hd, h) > 0)
  BY <1>2, HoldersType, TableCacheAssumption, CountPositive
<1> QED
  BY <1>1, <1>3 DEF One

LEMMA NoneCached == Cardinality(CachedIn(EmptyCache.handles)) <= MostCached
<1>1. Capacity \in Nat /\ Cardinality(Threads) \in Nat
  BY LRUCacheAssumption, TableCacheAssumption, FS_CardinalityType
<1> QED
  BY <1>1, NoRecord, FS_EmptySet DEF MostCached

LEMMA ReopenKeeps ==
  ASSUME IInv, Reopen
  PROVE  IInv'
<1>1. /\ \A t \in Threads : pc[t] = "idle"
      /\ cache' = Destroy(cache) /\ DeleteEntries(Null, "none")
      /\ pc' = pc /\ want' = want /\ opening' = opening /\ hold' = hold
  BY DEF Reopen
<1>2. cache' = EmptyCache
  BY <1>1, ReopenEmpties
<1>3. Alive(cache)' \subseteq Alive(cache)
  BY <1>2, NoRecord DEF Alive, AliveIn
<1>4. /\ file' \in [Handles -> Files]
      /\ mmap_remains' \in Int /\ pread_remains' \in Int /\ fds' \in Int
      /\ FilesAgree(cache.handles, file)'
      /\ MmapInv' /\ PreadInv' /\ FdsInv'
  BY <1>1, <1>3, OnlyDeleted
<1>5. VarsInv' /\ PcInv'
  BY <1>1, <1>4 DEF VarsInv, PcInv, IInv
<1>6. \A t \in Threads : hold'[t] = Null
  BY <1>1 DEF IInv, PcInv
<1>7. CacheInv(cache') /\ RefsAgree(cache'.handles, hold')
      /\ Cardinality(CachedIn(cache'.handles)) <= MostCached
  BY <1>2, <1>6, EmptyCacheInv, NoReference, NoneCached
<1> QED
  BY <1>4, <1>5, <1>7 DEF IInv, MostCached

----------------------------------------------------------------------------
(* The invariant.                                                          *)

LEMMA InitHolds ==
  ASSUME Init
  PROVE  IInv
<1>1. CacheInv(cache) /\ FilesAgree(cache.handles, file) /\ RefsAgree(cache.handles, hold)
      /\ Cardinality(CachedIn(cache.handles)) <= MostCached
  <2>1. cache = EmptyCache /\ \A t \in Threads : hold[t] = Null
    BY DEF Init
  <2>2. FilesAgree(cache.handles, file)
    BY <2>1, NoRecord DEF Init, FilesAgree, AliveIn
  <2> QED
    BY <2>1, <2>2, EmptyCacheInv, NoReference, NoneCached
<1>2. VarsInv /\ PcInv
  BY TableCacheAssumption DEF Init, VarsInv, PcInv, Files, Labels
<1>3. ASSUME NEW x
      PROVE  /\ x # "none" => Count(Handles, file, x) = 0 /\ Count(Threads, opening, x) = 0
             /\ x # "idle" => Count(Threads, pc, x) = 0
  <2>1. /\ \A h \in Handles : file[h] = "none"
        /\ \A t \in Threads : opening[t] = "none" /\ pc[t] = "idle"
    BY DEF Init
  <2>2. Count(Handles, file, x) > 0 <=> \E h \in Handles : file[h] = x
    <3>1. IsFiniteSet(Handles)
      BY LRUCacheAssumption
    <3> QED
      BY <3>1, CountPositive
  <2>3. Count(Threads, opening, x) > 0 <=> \E t \in Threads : opening[t] = x
    BY TableCacheAssumption, CountPositive
  <2>4. Count(Threads, pc, x) > 0 <=> \E t \in Threads : pc[t] = x
    BY TableCacheAssumption, CountPositive
  <2>5. /\ Count(Handles, file, x) \in Nat
        /\ Count(Threads, opening, x) \in Nat
        /\ Count(Threads, pc, x) \in Nat
    BY CountsAreNat
  <2> QED
    BY <2>1, <2>4, <2>5, <2>2, <2>3
<1>4. MmapInv /\ PreadInv /\ FdsInv
  BY <1>3, TableCacheAssumption DEF Init, MmapInv, PreadInv, FdsInv
<1> QED
  BY <1>1, <1>2, <1>4 DEF IInv

LEMMA NextKeeps ==
  ASSUME IInv, [Next]_vars
  PROVE  IInv'
<1>1. CASE UNCHANGED vars
  BY <1>1 DEF vars, IInv, VarsInv, PcInv, MmapInv, PreadInv, FdsInv
<1>2. ASSUME NEW t \in Threads, NEW k \in Keys, Lookup(t, k)
      PROVE  IInv'
  BY <1>2, LookupKeeps
<1>3. ASSUME NEW t \in Threads,
             \/ OpenFails(t) \/ OpenFile(t) \/ Map(t) \/ MmapRefused(t) \/ Pread(t)
             \/ PreadRefused(t) \/ TableIsBad(t) \/ InsertTable(t) \/ Release(t)
      PROVE  IInv'
  BY <1>3, OpenFailsKeeps, OpenFileKeeps, MapKeeps, MmapRefusedKeeps, PreadKeeps,
     PreadRefusedKeeps, TableIsBadKeeps, InsertTableKeeps, ReleaseKeeps
<1>4. ASSUME NEW k \in Keys, EvictTable(k)
      PROVE  IInv'
  BY <1>4, EvictTableKeeps
<1>5. CASE Reopen
  BY <1>5, ReopenKeeps
<1> QED
  BY <1>1, <1>2, <1>3, <1>4, <1>5 DEF Next

\* Whatever the threads do, the cache, their handles, the files and the limiters
\* agree.
THEOREM Invariance == Spec => []IInv
BY InitHolds, NextKeeps, PTL DEF Spec

\* Every variable keeps its type; a limiter goes below zero by at most one for
\* each thread it is refusing, and the descriptors stay within MaxFds.
THEOREM TypeCorrect == Spec => []TypeOK
<1>1. IInv => TypeOK
  <2> SUFFICES ASSUME IInv
               PROVE  TypeOK
    OBVIOUS
  <2>1. Cardinality(Threads) \in Nat /\ MaxMmap \in Nat /\ MaxPread \in Nat /\ MaxFds \in Nat
    BY TableCacheAssumption, FS_CardinalityType
  <2>2. \A x : Count(Threads, pc, x) <= Cardinality(Threads)
    BY TableCacheAssumption, CountIsNat
  <2>3. mmap_remains \in -Cardinality(Threads)..MaxMmap
    BY <2>1, <2>2, CountsAreNat DEF IInv, MmapInv, VarsInv
  <2>4. pread_remains \in -Cardinality(Threads)..MaxPread
    BY <2>1, <2>2, CountsAreNat DEF IInv, PreadInv, VarsInv
  <2>5. fds \in 0..MaxFds
    BY <2>1, CountsAreNat DEF IInv, FdsInv, VarsInv
  <2> QED
    BY <2>3, <2>4, <2>5 DEF IInv, VarsInv, TypeOK, Labels
<1> QED
  BY <1>1, Invariance, PTL

\* For every number of keys, handles and threads, every hash and every capacity,
\* the chains, the lists and the counts of the LRU cache agree after every
\* operation: Insert, Resize, Ref, Unref, Erase and the eviction loop.
THEOREM CacheStaysConsistent == Spec => []CacheConsistent
<1>1. IInv => CacheConsistent
  BY CacheInvImpliesConsistent DEF IInv, CacheConsistent
<1> QED
  BY <1>1, Invariance, PTL

LEMMA HoldingIsCounted ==
  ASSUME IInv, NEW kind, kind # "none"
  PROVE  Holding(kind) = Count(Handles, file, kind) + Count(Threads, opening, kind)
<1>1. {h \in Alive(cache) : file[h] = kind} = {h \in Handles : file[h] = kind}
  BY DEF IInv, FilesAgree, Alive
<1> QED
  BY <1>1 DEF Holding, Count

\* The two limiters are exact for every number of threads and every limit: no
\* interleaving of the two steps of Acquire, of failed mappings, displaced,
\* evicted and closed tables grants a slot twice or loses one.
THEOREM LimitersStayExact == Spec => []LimitersExact
<1>1. IInv => LimitersExact
  <2> SUFFICES ASSUME IInv
               PROVE  LimitersExact
    OBVIOUS
  <2>1. /\ Holding("mapped") = Count(Handles, file, "mapped") + Count(Threads, opening, "mapped")
        /\ Holding("fd") = Count(Handles, file, "fd") + Count(Threads, opening, "fd")
    BY HoldingIsCounted
  <2>2. \A x : At(x) = Count(Threads, pc, x)
    BY DEF At, Count
  <2>3. MaxMmap \in Nat /\ MaxPread \in Nat
    BY TableCacheAssumption
  <2>4. /\ Holding("mapped") + At("map") <= MaxMmap
        /\ mmap_remains = MaxMmap - Holding("mapped") - At("map") - At("mmap_refused")
    BY <2>1, <2>2, <2>3, CountsAreNat DEF IInv, MmapInv
  <2>5. /\ Holding("fd") <= MaxPread
        /\ pread_remains = MaxPread - Holding("fd") - At("pread_refused")
    BY <2>1, <2>2, <2>3, CountsAreNat DEF IInv, PreadInv
  <2> QED
    BY <2>4, <2>5 DEF LimitersExact
<1> QED
  BY <1>1, Invariance, PTL

\* A record outside the cache is alive because a thread has its handle.
LEMMA AliveIsReached ==
  ASSUME IInv, NEW h \in Handles
  PROVE  h \in Alive(cache) <=> h \in CachedIn(cache.handles) \/ \E t \in Threads : hold[t] = h
<1> DEFINE n == Count(Threads, hold, h)
<1>1. cache.handles[h].refs = One(cache.handles[h].in_cache) + n
  BY DEF IInv, RefsAgree
<1>2. n \in Nat
  BY HoldersType
<1>3. n > 0 <=> \E t \in Threads : hold[t] = h
  BY TableCacheAssumption, CountPositive
<1> HIDE DEF n
<1>4. cache.handles[h].refs > 0 <=> cache.handles[h].in_cache \/ n > 0
  BY <1>1, <1>2 DEF One
<1> QED
  BY <1>3, <1>4 DEF Alive, CachedIn

\* However many threads open tables at once, at most max(Capacity, threads)
\* tables are cached, and no other stays open unless a thread reads it.
THEOREM OpenTablesStayBounded == Spec => []OpenTablesBounded
<1>1. IInv => OpenTablesBounded
  <2> SUFFICES ASSUME IInv
               PROVE  OpenTablesBounded
    OBVIOUS
  <2>1. Cardinality(CachedIn(cache.handles)) <= MostCached
    BY DEF IInv
  <2>2. ASSUME NEW h \in Alive(cache) \ CachedIn(cache.handles)
        PROVE  h \in {hold[t] : t \in Threads}
    <3>1. h \in Handles
      BY DEF Alive
    <3> QED
      BY <3>1, AliveIsReached
  <2> QED
    BY <2>1, <2>2 DEF OpenTablesBounded, CachedIn, MostCached
<1> QED
  BY <1>1, Invariance, PTL

----------------------------------------------------------------------------
(* Refinement of module Cache.                                             *)

\* What Lookup finds is what the cached records say.
LEMMA LookupIs ==
  ASSUME NEW c, CacheInv(c), NEW k \in Keys
  PROVE  /\ TableLookup(c, k) \in Handles \cup {Null}
         /\ \A h \in Handles :
              TableLookup(c, k) = h <=> h \in CachedIn(c.handles) /\ c.handles[h].key = k
<1>1. Null \notin Handles
  BY LRUCacheAssumption DEF Null
<1> QED
  BY <1>1, LookupFinds DEF CachedIn

\* A step that keeps the cached records and their keys keeps the bindings.
LEMMA SameLookup ==
  ASSUME NEW c, CacheInv(c), NEW d, CacheInv(d), CachedIn(d.handles) = CachedIn(c.handles),
         \A h \in CachedIn(c.handles) : d.handles[h].key = c.handles[h].key,
         NEW k \in Keys
  PROVE  TableLookup(d, k) = TableLookup(c, k)
<1>1. Null \notin Handles
  BY LRUCacheAssumption DEF Null
<1>2. \A h \in Handles : TableLookup(d, k) = h <=> TableLookup(c, k) = h
  BY LookupIs
<1>3. TableLookup(c, k) \in Handles \cup {Null} /\ TableLookup(d, k) \in Handles \cup {Null}
  BY LookupIs
<1> QED
  BY <1>1, <1>2, <1>3

Bindings == [k \in Keys |-> TableLookup(cache, k)]

\* The deleter has run for exactly the records out of reach.
LEMMA Settled == IInv => Alive(cache) = Contract!Reached(Bindings, hold)
<1> SUFFICES ASSUME IInv
             PROVE  Alive(cache) = Contract!Reached(Bindings, hold)
  OBVIOUS
<1> DEFINE R == Contract!Reached(Bindings, hold)
<1>1. CacheInv(cache) /\ hold \in [Threads -> Handles \cup {Null}]
  BY DEF IInv, VarsInv
<1>2. Null \notin Handles
  BY LRUCacheAssumption DEF Null
<1>3. ASSUME NEW h \in Handles
      PROVE  h \in CachedIn(cache.handles) <=> \E k \in Keys : TableLookup(cache, k) = h
  <2>1. h \in CachedIn(cache.handles) => cache.handles[h].key \in Keys
    BY <1>1 DEF CacheInv, PartsInv, RecordInv
  <2> QED
    BY <1>1, <2>1, LookupIs
<1>4. \A k \in Keys : TableLookup(cache, k) \in Handles \cup {Null}
  BY <1>1, LookupIs
<1>5. ASSUME NEW h \in Handles
      PROVE  h \in Alive(cache) <=> \/ \E k \in Keys : Bindings[k] = h
                                    \/ \E t \in Threads : hold[t] = h
  BY <1>3, AliveIsReached DEF Bindings
<1>6. Alive(cache) \subseteq Handles
  BY DEF Alive
<1>7. R \subseteq Handles
  BY <1>1, <1>4 DEF Contract!Reached, Bindings
<1>8. ASSUME NEW h \in Handles
      PROVE  h \in R <=> \/ \E k \in Keys : Bindings[k] = h
                         \/ \E t \in Threads : hold[t] = h
  <2>1. h # Null
    BY <1>2
  <2>2. h \in R <=> h \in {Bindings[k] : k \in Keys} \cup {hold[t] : t \in Threads}
    BY <2>1 DEF Contract!Reached
  <2> QED
    BY <2>2
<1> HIDE DEF R
<1>9. Alive(cache) = R
  BY <1>5, <1>6, <1>7, <1>8
<1> QED
  BY <1>9 DEF R

LEMMA InitRefines ==
  ASSUME Init
  PROVE  Contract!Init
<1>1. CacheInv(cache) /\ cache = EmptyCache
  BY EmptyCacheInv DEF Init
<1>2. Alive(cache) = {} /\ CachedIn(cache.handles) = {}
  BY <1>1, NoRecord DEF Alive, AliveIn
<1>3. \A k \in Keys : TableLookup(cache, k) = Null
  BY <1>1, <1>2, LookupIs
<1>4. hold = [t \in Threads |-> Null]
  BY DEF Init
<1> QED
  BY <1>2, <1>3, <1>4 DEF Contract!Init

LEMMA LookupRefines ==
  ASSUME IInv, IInv', NEW t \in Threads, NEW k \in Keys, Lookup(t, k)
  PROVE  [Contract!Next]_(Contract!cacheVars)
<1>1. CASE TableLookup(cache, k) = Null
  <2>1. cache' = cache /\ hold' = hold
    BY <1>1 DEF Lookup
  <2> QED
    BY <2>1 DEF Contract!cacheVars
<1>2. ASSUME NEW e, e = TableLookup(cache, k), e # Null
      PROVE  Contract!Lookup(t, k)
  <2>1. pc[t] = "idle" /\ cache' = Ref(cache, e) /\ hold' = [hold EXCEPT ![t] = e]
    BY <1>2 DEF Lookup
  <2>2. CacheInv(cache) /\ CacheInv(cache')
    BY DEF IInv
  <2>3. e \in CachedIn(cache.handles) /\ e \in Handles
    BY <1>2, <2>2, LookupFinds DEF CachedIn
  <2>4. cache'.handles = [cache.handles EXCEPT ![e].refs = @ + 1]
        /\ cache.handles \in [Handles -> HandleRecords]
    BY <2>1, <2>2, <2>3, RefEffect DEF CacheInv, PartsInv
  <2>5. /\ CachedIn(cache'.handles) = CachedIn(cache.handles)
        /\ \A h \in CachedIn(cache.handles) : cache'.handles[h].key = cache.handles[h].key
    BY <2>3, <2>4 DEF CachedIn, HandleRecords
  <2>6. \A j \in Keys : TableLookup(cache', j) = TableLookup(cache, j)
    BY <2>2, <2>5, SameLookup
  <2>7. Bindings' = Bindings
    BY <2>6 DEF Bindings
  <2>8. hold[t] = Null /\ Bindings[k] = e
    BY <1>2, <2>1 DEF IInv, PcInv, Bindings
  <2>9. (Alive(cache) = Contract!Reached(Bindings, hold))'
    BY Settled, PTL
  <2> QED
    BY <1>2, <2>1, <2>7, <2>8, <2>9 DEF Contract!Lookup, Contract!Settle, Bindings
<1> QED
  BY <1>1, <1>2 DEF Contract!Next

LEMMA ReleaseRefines ==
  ASSUME IInv, IInv', NEW t \in Threads, Release(t)
  PROVE  Contract!Release(t)
<1>1. /\ pc[t] = "reading" /\ cache' = Unref(cache, hold[t])
      /\ hold' = [hold EXCEPT ![t] = Null]
  BY DEF Release, GiveUp, Step
<1>2. CacheInv(cache) /\ CacheInv(cache') /\ hold \in [Threads -> Handles \cup {Null}]
      /\ hold[t] # Null /\ RefsAgree(cache.handles, hold)
  BY <1>1 DEF IInv, VarsInv, PcInv
<1>3. PICK e \in Handles : e = hold[t]
  BY <1>2
<1>4. Moved(hold, hold', t, Null)
  BY <1>1, <1>2 DEF Moved
<1>5. /\ CachedIn(cache'.handles) = CachedIn(cache.handles)
      /\ \A h \in CachedIn(cache.handles) : cache'.handles[h].key = cache.handles[h].key
  BY <1>1, <1>2, <1>3, <1>4, ReleaseCache
<1>6. \A j \in Keys : TableLookup(cache', j) = TableLookup(cache, j)
  BY <1>2, <1>5, SameLookup
<1>7. Bindings' = Bindings
  BY <1>6 DEF Bindings
<1>8. (Alive(cache) = Contract!Reached(Bindings, hold))'
  BY Settled, PTL
<1> QED
  BY <1>1, <1>2, <1>7, <1>8 DEF Contract!Release, Contract!Settle, Bindings

LEMMA EvictTableRefines ==
  ASSUME IInv, IInv', NEW k \in Keys, EvictTable(k)
  PROVE  Contract!Erase(k)
<1>1. cache' = Erase(cache, k) /\ hold' = hold
  BY DEF EvictTable
<1>2. CacheInv(cache) /\ CacheInv(cache') /\ RefsAgree(cache.handles, hold)
  BY DEF IInv
<1>3. /\ CachedIn(cache'.handles) = CachedIn(cache.handles) \ {TableLookup(cache, k)}
      /\ \A h \in CachedIn(cache'.handles) : cache'.handles[h].key = cache.handles[h].key
  <2>1. PICK d : d = cache'
    OBVIOUS
  <2>2. d = Erase(cache, k)
    BY <1>1, <2>1
  <2>3. /\ CachedIn(d.handles) = CachedIn(cache.handles) \ {TableLookup(cache, k)}
        /\ \A h \in CachedIn(d.handles) : d.handles[h].key = cache.handles[h].key
    BY <1>2, <2>2, EraseCache
  <2> QED
    BY <2>1, <2>3
<1>4. ASSUME NEW j \in Keys
      PROVE  TableLookup(cache', j) = IF j = k THEN Null ELSE TableLookup(cache, j)
  <2>1. Null \notin Handles
    BY LRUCacheAssumption DEF Null
  <2>2. /\ TableLookup(cache, j) \in Handles \cup {Null}
        /\ TableLookup(cache', j) \in Handles \cup {Null}
    BY <1>2, LookupIs
  <2>3. \A h \in Handles : TableLookup(cache', j) = h <=>
          h \in CachedIn(cache'.handles) /\ cache'.handles[h].key = j
    BY <1>2, LookupIs
  <2>4. \A h \in Handles : TableLookup(cache, j) = h <=>
          h \in CachedIn(cache.handles) /\ cache.handles[h].key = j
    BY <1>2, LookupIs
  <2>5. \A h \in Handles : TableLookup(cache, k) = h <=>
          h \in CachedIn(cache.handles) /\ cache.handles[h].key = k
    BY <1>2, LookupIs
  <2> QED
    BY <1>3, <2>1, <2>2, <2>3, <2>4, <2>5
<1>5. Bindings' = [Bindings EXCEPT ![k] = Null]
  BY <1>4 DEF Bindings
<1>6. (Alive(cache) = Contract!Reached(Bindings, hold))'
  BY Settled, PTL
<1> QED
  BY <1>1, <1>5, <1>6 DEF Contract!Erase, Contract!Settle, Bindings

LEMMA ReopenRefines ==
  ASSUME IInv, IInv', Reopen
  PROVE  Contract!Destroy
<1>1. (\A t \in Threads : hold[t] = Null) /\ hold' = hold /\ cache' = EmptyCache
  BY ReopenEmpties DEF Reopen, IInv, PcInv
<1>2. CacheInv(cache') /\ CachedIn(cache'.handles) = {}
  BY <1>1, EmptyCacheInv, NoRecord
<1>3. \A k \in Keys : TableLookup(cache', k) = Null
  BY <1>2, LookupIs
<1>4. Bindings' = [k \in Keys |-> Null]
  BY <1>3 DEF Bindings
<1>5. (Alive(cache) = Contract!Reached(Bindings, hold))'
  BY Settled, PTL
<1> QED
  BY <1>1, <1>4, <1>5 DEF Contract!Destroy, Contract!Settle, Bindings

\* Insert binds its key to the new record; another key keeps its binding or loses
\* one that no thread holds.
LEMMA InsertBinds ==
  ASSUME NEW c, CacheInv(c), NEW hd, RefsAgree(c.handles, hd), NEW k \in Keys,
         NEW e \in Handles, c.handles[e].refs = 0, NEW d, Inserted(c, k, e, d),
         NEW j \in Keys
  PROVE  /\ j = k => TableLookup(d, j) = e
         /\ j # k => \/ TableLookup(d, j) = TableLookup(c, j)
                     \/ /\ TableLookup(d, j) = Null
                        /\ \A t \in Threads : hd[t] # TableLookup(c, j)
<1> DEFINE old == TableLookup(c, k)
           was == TableLookup(c, j)
           is == TableLookup(d, j)
<1>1. CacheInv(d) /\ d.handles[e] = NewRecord(k)
  BY DEF Inserted
<1>2. c.handles \in [Handles -> HandleRecords] /\ RecordInv(c.handles)
  BY DEF CacheInv, PartsInv
<1>3. Null \notin Handles
  BY LRUCacheAssumption DEF Null
<1>4. /\ was \in Handles \cup {Null}
      /\ \A h \in Handles : was = h <=> h \in CachedIn(c.handles) /\ c.handles[h].key = j
  BY LookupIs
<1>5. /\ is \in Handles \cup {Null}
      /\ \A h \in Handles : is = h <=> h \in CachedIn(d.handles) /\ d.handles[h].key = j
  BY <1>1, LookupIs
<1>6. e \in CachedIn(d.handles) /\ d.handles[e].key = k
  BY <1>1, NewRecordIs DEF CachedIn
<1>7. e \notin CachedIn(c.handles)
  BY <1>2, CachedHasRefs
<1>8. CASE j = k
  BY <1>5, <1>6, <1>8
<1>9. CASE j # k
  <2>1. ASSUME NEW h \in CachedIn(d.handles), d.handles[h].key = j
        PROVE  was = h /\ d.handles[h] = c.handles[h]
    <3>1. h \in Handles /\ h # e
      BY <1>6, <1>9, <2>1 DEF CachedIn
    <3>2. h # old
      <4>1. CASE old = Null
        BY <1>3, <3>1, <4>1
      <4>2. CASE old # Null
        <5>1. old \in CachedIn(c.handles) /\ d.handles[old] = Dropped(c.handles[old])
          BY <4>2, LookupFinds DEF Inserted
        <5>2. ~d.handles[old].in_cache
          BY <1>2, <5>1, RefsOfDropped
        <5> QED
          BY <5>2 DEF CachedIn
      <4> QED
        BY <4>1, <4>2
    <3>3. d.handles[h] = c.handles[h] \/ d.handles[h] = Freed
      BY <3>1, <3>2 DEF Inserted
    <3>4. d.handles[h] # Freed
      BY DEF CachedIn, Freed
    <3>5. d.handles[h] = c.handles[h]
      BY <3>3, <3>4
    <3>6. h \in CachedIn(c.handles) /\ c.handles[h].key = j
      BY <2>1, <3>1, <3>5 DEF CachedIn
    <3> QED
      BY <1>4, <3>1, <3>5, <3>6
  <2>2. CASE is # Null
    <3>1. is \in CachedIn(d.handles) /\ d.handles[is].key = j
      BY <1>5, <2>2
    <3> QED
      BY <1>9, <2>1, <3>1
  <2>3. CASE is = Null /\ was # Null
    <3>1. was \in CachedIn(c.handles) /\ c.handles[was].key = j /\ was \in Handles
      BY <1>4, <2>3
    <3>2. was # e
      BY <1>7, <3>1
    <3>3. was # old
      BY <1>9, <2>3, <3>1, LookupFinds
    <3>4. \/ d.handles[was] = c.handles[was]
          \/ c.handles[was].refs = 1
      BY <3>1, <3>2, <3>3 DEF Inserted
    <3>5. d.handles[was] # c.handles[was]
      <4>1. ~(was \in CachedIn(d.handles) /\ d.handles[was].key = j)
        BY <1>3, <1>5, <2>3, <3>1
      <4> QED
        BY <3>1, <4>1 DEF CachedIn
    <3>6. 1 = 1 + Count(Threads, hd, was)
      BY <3>1, <3>4, <3>5 DEF RefsAgree, One, CachedIn
    <3>7. Count(Threads, hd, was) \in Nat
      BY HoldersType
    <3>8. ~(Count(Threads, hd, was) > 0)
      BY <3>6, <3>7
    <3>9. \A t \in Threads : hd[t] # was
      BY <3>8, TableCacheAssumption, CountPositive
    <3> QED
      BY <1>9, <2>3, <3>9
  <2>4. CASE is = Null /\ was = Null
    BY <1>9, <2>4
  <2> QED
    BY <2>2, <2>3, <2>4
<1> QED
  BY <1>8, <1>9

LEMMA InsertTableRefines ==
  ASSUME Capacity > 0, IInv, IInv', NEW t \in Threads, InsertTable(t)
  PROVE  \E k \in Keys : Contract!Insert(t, k)
<1>1. PICK e \in Handles \ Alive(cache) :
        /\ cache' = Insert(cache, want[t], e)
        /\ hold' = [hold EXCEPT ![t] = e]
  <2> DEFINE free == Handles \ Alive(cache)
             e == CHOOSE h \in free : \A g \in free : h <= g
  <2>1. free \in SUBSET Nat /\ free # {}
    BY LRUCacheAssumption DEF InsertTable
  <2>2. \E h \in free : \A g \in free : h <= g
    BY <2>1, LeastNatural
  <2>3. e \in free
    BY <2>2
  <2> QED
    BY <2>3 DEF InsertTable
<1>2. /\ hold[t] = Null /\ want[t] \in Keys
      /\ CacheInv(cache) /\ RefsAgree(cache.handles, hold)
  BY DEF InsertTable, Step, IInv, PcInv, VarsInv
<1>3. PICK k \in Keys : k = want[t]
  BY <1>2
<1>4. cache.handles[e].refs = 0
  <2>1. cache.handles[e] \in HandleRecords
    BY <1>1, <1>2 DEF CacheInv, PartsInv
  <2>2. cache.handles[e].refs \in Nat
    BY <2>1 DEF HandleRecords
  <2> QED
    BY <1>1, <2>2 DEF Alive
<1>5. Capacity # 0
  OBVIOUS
<1>6. Inserted(cache, k, e, Insert(cache, k, e))
  BY <1>1, <1>2, <1>4, <1>5, InsertEffect
<1>7. Inserted(cache, k, e, cache')
  BY <1>1, <1>3, <1>6
<1>8. \A j \in Keys :
        /\ j = k => TableLookup(cache', j) = e
        /\ j # k => \/ TableLookup(cache', j) = TableLookup(cache, j)
                    \/ /\ TableLookup(cache', j) = Null
                       /\ \A s \in Threads : hold[s] # TableLookup(cache, j)
  BY <1>1, <1>2, <1>4, <1>7, InsertBinds
<1> DEFINE lost == {j \in Keys \ {k} : TableLookup(cache', j) # TableLookup(cache, j)}
<1>9. lost \in SUBSET {j \in Keys \ {k} : Contract!Unheld(j)}
  BY <1>8 DEF Contract!Unheld
<1>10. Bindings' = [j \in Keys |-> IF j = k THEN e ELSE IF j \in lost THEN Null ELSE Bindings[j]]
  BY <1>8 DEF Bindings
<1>11. (Alive(cache) = Contract!Reached(Bindings, hold))'
  BY Settled, PTL
<1> HIDE DEF lost
<1>12. Contract!Insert(t, k)
  BY <1>1, <1>2, <1>9, <1>10, <1>11 DEF Contract!Insert, Contract!Settle, Bindings
<1> QED
  BY <1>12

LEMMA StepRefines ==
  ASSUME Capacity > 0, IInv, IInv', [Next]_vars
  PROVE  [Contract!Next]_(Contract!cacheVars)
<1>1. ASSUME cache' = cache, hold' = hold
      PROVE  UNCHANGED Contract!cacheVars
  BY <1>1 DEF Contract!cacheVars
<1>2. CASE UNCHANGED vars
  BY <1>1, <1>2 DEF vars
<1>3. ASSUME NEW t \in Threads, NEW k \in Keys, Lookup(t, k)
      PROVE  [Contract!Next]_(Contract!cacheVars)
  BY <1>3, LookupRefines
<1>4. ASSUME NEW t \in Threads,
             \/ OpenFails(t) \/ OpenFile(t) \/ Map(t) \/ MmapRefused(t) \/ Pread(t)
             \/ PreadRefused(t) \/ TableIsBad(t)
      PROVE  UNCHANGED Contract!cacheVars
  <2>1. cache' = cache /\ hold' = hold
    BY <1>4 DEF OpenFails, OpenFile, Map, MmapRefused, Pread, PreadRefused, TableIsBad
  <2> QED
    BY <1>1, <2>1
<1>5. ASSUME NEW t \in Threads, InsertTable(t)
      PROVE  Contract!Next
  BY <1>5, InsertTableRefines DEF Contract!Next
<1>6. ASSUME NEW t \in Threads, Release(t)
      PROVE  Contract!Next
  BY <1>6, ReleaseRefines DEF Contract!Next
<1>7. ASSUME NEW k \in Keys, EvictTable(k)
      PROVE  Contract!Next
  BY <1>7, EvictTableRefines DEF Contract!Next
<1>8. CASE Reopen
  BY <1>8, ReopenRefines DEF Contract!Next
<1> QED
  BY <1>2, <1>3, <1>4, <1>5, <1>6, <1>7, <1>8 DEF Next

\* A table cache with some capacity keeps the promises of cache.h: every step of
\* it is one of module Cache's or leaves the bindings, the handles and the open
\* tables as they are.  Without capacity Insert binds nothing, so the next Lookup
\* does not find the table just opened.
THEOREM CacheContractKept ==
  ASSUME Capacity > 0
  PROVE  Spec => ImplementsCache
<1>1. Init => Contract!Init
  BY InitRefines
<1>2. IInv /\ IInv' /\ [Next]_vars => [Contract!Next]_(Contract!cacheVars)
  BY StepRefines
<1> QED
  BY <1>1, <1>2, Invariance, PTL DEF Spec, ImplementsCache, Contract!Spec
=============================================================================
