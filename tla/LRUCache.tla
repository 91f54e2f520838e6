------------------------------ MODULE LRUCache ------------------------------
(***************************************************************************)
(* One shard of the LRU cache (util/cache.cc): the hash table of handles   *)
(* with its chains, the two lists and the reference counts.  Every         *)
(* operation runs under the shard's mutex, so each is one function of the  *)
(* shard's state.                                                          *)
(*                                                                         *)
(* The charge of a record is 1, which is what TableCache, the only user,   *)
(* passes.  The order of in_use_ is never looked at, so it is a set; so is *)
(* a hash chain, which holds a key once.  lru_ is a sequence, oldest       *)
(* first.                                                                  *)
(***************************************************************************)
EXTENDS Naturals, FiniteSets, SequencesExt

CONSTANTS
  Keys,
  Handles,          \* LRUHandle objects, bound of the model
  Hash,             \* by key, its hash
  Capacity,         \* capacity_ of the shard
  InitialBuckets    \* new_capacity at the start of Resize, 4 in the code

ASSUME LRUCacheAssumption ==
  /\ Keys \subseteq Nat \ {0} /\ Handles \subseteq Nat \ {0}
  /\ IsFiniteSet(Keys) /\ IsFiniteSet(Handles)
  /\ Hash \in [Keys -> Nat]
  /\ Capacity \in Nat
  /\ InitialBuckets \in Nat \ {0}

\* nullptr; also the key of a handle that was freed.
Null == 0

Freed == [key |-> Null, refs |-> 0, in_cache |-> FALSE]

EmptyTable == [list |-> [b \in 0..(InitialBuckets - 1) |-> {}], element_num |-> 0]

EmptyCache ==
  [handles |-> [h \in Handles |-> Freed], table |-> EmptyTable,
   lru |-> <<>>, in_use |-> {}, usage |-> 0]

Alive(c) == {h \in Handles : c.handles[h].refs > 0}

----------------------------------------------------------------------------
(* HandleTable.                                                            *)

Buckets(t) == Cardinality(DOMAIN t.list)
Bucket(t, k) == Hash[k] % Buckets(t)

\* The handles of a bucket's chain with key k.
Find(c, k) == {h \in c.table.list[Bucket(c.table, k)] : c.handles[h].key = k}

TableLookup(c, k) == IF Find(c, k) = {} THEN Null ELSE CHOOSE h \in Find(c, k) : TRUE

\* Doubled until it is enough: 4, 8, 16, ...
NewCapacity(n) ==
  LET doubled[i \in 0..n] == IF i = 0 THEN InitialBuckets ELSE 2 * doubled[i - 1]
  IN  doubled[Min({i \in 0..n : doubled[i] >= n})]

\* A plausible slip: the chains are copied, not distributed anew.
ResizeInPlace(c) ==
  [c EXCEPT !.table.list = [b \in 0..(NewCapacity(c.table.element_num) - 1) |->
     IF b \in DOMAIN c.table.list THEN c.table.list[b] ELSE {}]]

\* Every handle of the old chains goes to the chain of its hash.
Resize(c) ==
  LET m == NewCapacity(c.table.element_num)
      all == UNION {c.table.list[b] : b \in DOMAIN c.table.list}
  IN  [c EXCEPT !.table.list =
         [b \in 0..(m - 1) |-> {h \in all : Hash[c.handles[h].key] % m = b}]]

\* HandleTable::Insert takes the place of a handle with the same key, or joins
\* the chain.
TableInsert(c, e) ==
  LET k == c.handles[e].key
      old == TableLookup(c, k)
      b == Bucket(c.table, k)
      replaced == [c EXCEPT !.table.list[b] = (@ \ {old}) \cup {e}]
      appended == [c EXCEPT !.table.list[b] = @ \cup {e}, !.table.element_num = @ + 1]
  IN  IF old # Null THEN replaced
      ELSE IF appended.table.element_num > Buckets(c.table) THEN Resize(appended)
      ELSE appended

TableRemove(c, k) ==
  IF TableLookup(c, k) = Null THEN c
  ELSE [c EXCEPT !.table.list[Bucket(c.table, k)] = @ \ {TableLookup(c, k)},
                 !.table.element_num = @ - 1]

----------------------------------------------------------------------------
(* LRUCache.                                                               *)

\* A plausible slip: the handle stays where eviction looks for victims.
RefInPlace(c, e) == [c EXCEPT !.handles[e].refs = @ + 1]

\* A record nobody held leaves the list of eviction candidates.
Ref(c, e) ==
  LET idle == c.handles[e].refs = 1 /\ c.handles[e].in_cache
  IN  [c EXCEPT !.handles[e].refs = @ + 1,
                !.lru = IF idle THEN RemoveFirst(@, e) ELSE @,
                !.in_use = IF idle THEN @ \cup {e} ELSE @]

\* The last reference deletes the record; the last one of a client makes it a
\* candidate for eviction.
Unref(c, e) ==
  LET refs == c.handles[e].refs - 1
      last == refs = 1 /\ c.handles[e].in_cache
  IN  IF refs = 0 THEN [c EXCEPT !.handles[e] = Freed]
      ELSE [c EXCEPT !.handles[e].refs = refs,
                     !.lru = IF last THEN Append(@, e) ELSE @,
                     !.in_use = IF last THEN @ \ {e} ELSE @]

FinishErase(c, e) ==
  IF e = Null THEN c
  ELSE Unref([c EXCEPT !.lru = RemoveFirst(@, e), !.in_use = @ \ {e},
                       !.handles[e].in_cache = FALSE, !.usage = @ - 1], e)

Erase(c, k) == FinishErase(TableRemove(c, k), TableLookup(c, k))

\* One turn of the loop at the end of Insert.
EvictOldest(c) == Erase(c, c.handles[Head(c.lru)].key)

Evicted(c, n) ==
  LET after[i \in 0..n] == IF i = 0 THEN c ELSE EvictOldest(after[i - 1])
  IN  after[n]

\* The turns it takes until the usage is at most most or no record is idle.
Turns(c, most) == Min({Len(c.lru), IF c.usage > most THEN c.usage - most ELSE 0})

\* A plausible slip: the bound is overrun by one.
EvictLate(c) == Evicted(c, Turns(c, Capacity + 1))

\* The loop at the end of Insert: oldest first, until the usage fits or every
\* record is in use.
Evict(c) == Evicted(c, Turns(c, Capacity))

\* Insert of a record under k with a new handle e, one reference of the client's
\* and, unless the cache has no capacity, one of the cache's own.
Insert(c, k, e) ==
  IF Capacity = 0
  THEN [c EXCEPT !.handles[e] = [key |-> k, refs |-> 1, in_cache |-> FALSE]]
  ELSE Evict(FinishErase(
         TableInsert([c EXCEPT !.handles[e] = [key |-> k, refs |-> 2, in_cache |-> TRUE],
                               !.in_use = @ \cup {e}, !.usage = @ + 1], e),
         TableLookup(c, k)))

\* ~LRUCache deletes what is on lru_; a record somebody still holds is leaked.
Destroy(c) ==
  [EmptyCache EXCEPT !.handles = [h \in Handles |->
     IF \E i \in DOMAIN c.lru : c.lru[i] = h THEN Freed ELSE c.handles[h]]]

----------------------------------------------------------------------------
\* The chains, the lists and the counts agree: each record of the cache is once
\* in the chain of its own bucket and under a key of its own, on lru_ exactly
\* when only the cache refers to it and on in_use_ otherwise; element_num_ and
\* usage_ count them, which Resize and the destructor assert.
Consistent(c) ==
  LET cached == {h \in Handles : c.handles[h].in_cache}
  IN  /\ UNION {c.table.list[b] : b \in DOMAIN c.table.list} = cached
      /\ \A b \in DOMAIN c.table.list : \A h \in c.table.list[b] :
           Bucket(c.table, c.handles[h].key) = b
      /\ \A g, h \in cached : c.handles[g].key = c.handles[h].key => g = h
      /\ ToSet(c.lru) = {h \in cached : c.handles[h].refs = 1}
      /\ IsInjective(c.lru)
      /\ c.in_use = cached \ ToSet(c.lru)
      /\ c.table.element_num = Cardinality(cached)
      /\ c.usage = Cardinality(cached)
=============================================================================
