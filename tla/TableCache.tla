----------------------------- MODULE TableCache -----------------------------
(***************************************************************************)
(* Threads that open SSTables through the table cache                      *)
(* (db/sstable/table_cache.cc) and the environment's limited supply of     *)
(* mappings and descriptors (util/env.cc, util/file.h).                    *)
(*                                                                         *)
(* The cache's mutex is not held while a table is opened, so two threads   *)
(* that miss the same table both open it and the later Insert displaces    *)
(* the earlier record, which its reader still uses.  A Limiter is one      *)
(* atomic counter that a refused caller decrements and increments again in *)
(* two steps.  The environment outlives the database: the limiters keep    *)
(* their counts when a table cache is destroyed and another one made.      *)
(***************************************************************************)
EXTENDS LRUCache, Integers

CONSTANTS
  Threads,     \* readers and the compaction's iterators, each with one table at a time
  MaxMmap,     \* max_mmap_limit
  MaxPread,    \* MaxOpenFiles()
  MaxFds       \* descriptors the process may have open

ASSUME TableCacheAssumption ==
  /\ IsFiniteSet(Threads)
  /\ MaxMmap \in Nat /\ MaxPread \in Nat /\ MaxFds \in Nat \ {0}

VARIABLES
  cache,         \* the LRU cache of the open tables
  file,          \* by handle: how its RandomReadFile reads
  pc, want,      \* by thread: where FindTable is, and for which file number
  opening,       \* by thread: the RandomReadFile it opened and did not insert yet
  hold,          \* by thread: its cache handle
  mmap_remains, pread_remains,   \* acquire_remains_ of the two limiters
  fds            \* descriptors open for SSTables

vars == <<cache, file, pc, want, opening, hold, mmap_remains, pread_remains, fds>>

\* "mapped" holds a slot of mmap_limiter_, "fd" a descriptor and a slot of
\* pread_limiter_; "reopen" opens the file for each read.
Files == {"none", "mapped", "fd", "reopen"}

TypeOK ==
  /\ file \in [Handles -> Files]
  /\ pc \in [Threads -> {"idle", "miss", "map", "mmap_refused", "pread", "pread_refused",
                         "open", "reading"}]
  /\ want \in [Threads -> Keys \cup {Null}]
  /\ opening \in [Threads -> Files]
  /\ hold \in [Threads -> Handles \cup {Null}]
  /\ mmap_remains \in -Cardinality(Threads)..MaxMmap
  /\ pread_remains \in -Cardinality(Threads)..MaxPread
  /\ fds \in 0..MaxFds

Init ==
  /\ cache = EmptyCache
  /\ file = [h \in Handles |-> "none"]
  /\ pc = [t \in Threads |-> "idle"] /\ want = [t \in Threads |-> Null]
  /\ opening = [t \in Threads |-> "none"] /\ hold = [t \in Threads |-> Null]
  /\ mmap_remains = MaxMmap /\ pread_remains = MaxPread
  /\ fds = 0

Step(t, from, to) == pc[t] = from /\ pc' = [pc EXCEPT ![t] = to]

----------------------------------------------------------------------------
(* Deleting a RandomReadFile gives its slot and its descriptor back.       *)

MmapSlots(closed) == Cardinality({f \in closed : f[2] = "mapped"})

PreadSlots(closed) == Cardinality({f \in closed : f[2] = "fd"})

\* closed is a set of files, each tagged with whose it was.
CloseFiles(closed) ==
  /\ mmap_remains' = mmap_remains + MmapSlots(closed)
  /\ pread_remains' = pread_remains + PreadSlots(closed)
  /\ fds' = fds - PreadSlots(closed)

\* The deleter, DeleteEntry, runs for the records the cache let go of; the
\* record with handle e, Null for none, is new and reads as kind says.
Deleted == {<<h, file[h]>> : h \in Alive(cache) \ Alive(cache')}

DeleteEntries(e, kind) ==
  /\ CloseFiles(Deleted)
  /\ file' = [h \in Handles |-> IF h = e THEN kind
                                ELSE IF h \in Alive(cache') THEN file[h] ELSE "none"]

----------------------------------------------------------------------------
(* FindTable, Get and NewIterator.                                         *)

Lookup(t, k) ==
  /\ pc[t] = "idle"
  /\ want' = [want EXCEPT ![t] = k]
  /\ LET h == TableLookup(cache, k)
     IN  \/ /\ h = Null
            /\ pc' = [pc EXCEPT ![t] = "miss"]
            /\ UNCHANGED <<cache, hold>>
         \/ /\ h # Null
            /\ cache' = Ref(cache, h)
            /\ hold' = [hold EXCEPT ![t] = h]
            /\ pc' = [pc EXCEPT ![t] = "reading"]
  /\ UNCHANGED <<file, opening, mmap_remains, pread_remains, fds>>

\* FindTable fails.
GiveUp(t, from) ==
  /\ Step(t, from, "idle")
  /\ want' = [want EXCEPT ![t] = Null]

OpenFails(t) ==
  /\ GiveUp(t, "miss")
  /\ UNCHANGED <<cache, file, opening, hold, mmap_remains, pread_remains, fds>>

\* A plausible slip: off by one.
GrantedAtZero(remains) == remains >= 0

\* Limiter::Acquire, by the value its fetch_sub returned.
Granted(remains) == remains > 0

\* open() succeeds, and mmap_limiter_ is decremented.
OpenFile(t) ==
  /\ fds < MaxFds
  /\ fds' = fds + 1
  /\ mmap_remains' = mmap_remains - 1
  /\ Step(t, "miss", IF Granted(mmap_remains) THEN "map" ELSE "mmap_refused")
  /\ UNCHANGED <<cache, file, want, opening, hold, pread_remains>>

\* mmap() succeeds or fails; either way the descriptor is closed.
Map(t) ==
  /\ fds' = fds - 1
  /\ \/ /\ Step(t, "map", "open")
        /\ opening' = [opening EXCEPT ![t] = "mapped"]
        /\ UNCHANGED <<want, mmap_remains>>
     \/ /\ GiveUp(t, "map")
        /\ mmap_remains' = mmap_remains + 1
        /\ UNCHANGED opening
  /\ UNCHANGED <<cache, file, hold, pread_remains>>

MmapRefused(t) ==
  /\ Step(t, "mmap_refused", "pread")
  /\ mmap_remains' = mmap_remains + 1
  /\ UNCHANGED <<cache, file, want, opening, hold, pread_remains, fds>>

\* The constructor of PreadRamdomReadFile decrements pread_limiter_.
Pread(t) ==
  /\ pread_remains' = pread_remains - 1
  /\ \/ /\ Granted(pread_remains)
        /\ Step(t, "pread", "open")
        /\ opening' = [opening EXCEPT ![t] = "fd"]
     \/ /\ ~Granted(pread_remains)
        /\ Step(t, "pread", "pread_refused")
        /\ UNCHANGED opening
  /\ UNCHANGED <<cache, file, want, hold, mmap_remains, fds>>

\* The descriptor is neither kept nor closed: fds never comes down again.
PreadRefused(t) ==
  /\ Step(t, "pread_refused", "open")
  /\ pread_remains' = pread_remains + 1
  /\ opening' = [opening EXCEPT ![t] = "reopen"]
  /\ UNCHANGED <<cache, file, want, hold, mmap_remains, fds>>

\* SSTableReader::Open fails and the file is deleted.
TableIsBad(t) ==
  /\ GiveUp(t, "open")
  /\ CloseFiles({<<t, opening[t]>>})
  /\ opening' = [opening EXCEPT ![t] = "none"]
  /\ UNCHANGED <<cache, file, hold>>

InsertTable(t) ==
  /\ Step(t, "open", "reading")
  /\ Handles \ Alive(cache) # {}
  /\ LET e == CHOOSE h \in Handles \ Alive(cache) : \A g \in Handles \ Alive(cache) : h <= g
     IN  /\ cache' = Insert(cache, want[t], e)
         /\ hold' = [hold EXCEPT ![t] = e]
         /\ DeleteEntries(e, opening[t])
  /\ opening' = [opening EXCEPT ![t] = "none"]
  /\ UNCHANGED want

\* InternalGet has returned, or the iterator's cleanup runs: Release.
Release(t) ==
  /\ GiveUp(t, "reading")
  /\ cache' = Unref(cache, hold[t])
  /\ hold' = [hold EXCEPT ![t] = Null]
  /\ DeleteEntries(Null, "none")
  /\ UNCHANGED opening

\* GarbageFilesClean: no version names file k, so no thread looks for it (module
\* VersionSet).  Numbers are not used again: k stands for another file afterwards.
EvictTable(k) ==
  /\ \A t \in Threads : want[t] # k
  /\ cache' = Erase(cache, k)
  /\ DeleteEntries(Null, "none")
  /\ UNCHANGED <<pc, want, opening, hold>>

\* The database is deleted, its table cache with it, and opened again.
Reopen ==
  /\ \A t \in Threads : pc[t] = "idle"
  /\ cache' = Destroy(cache)
  /\ DeleteEntries(Null, "none")
  /\ UNCHANGED <<pc, want, opening, hold>>

Next ==
  \/ \E t \in Threads, k \in Keys : Lookup(t, k)
  \/ \E t \in Threads :
       \/ OpenFails(t)
       \/ OpenFile(t)
       \/ Map(t)
       \/ MmapRefused(t)
       \/ Pread(t)
       \/ PreadRefused(t)
       \/ TableIsBad(t)
       \/ InsertTable(t)
       \/ Release(t)
  \/ \E k \in Keys : EvictTable(k)
  \/ Reopen

Spec == Init /\ [][Next]_vars

----------------------------------------------------------------------------
\* The hash chains, the two lists and the counts of the LRU cache agree after
\* every operation, whatever was displaced, evicted or resized.
CacheConsistent == Consistent(cache)

Contract == INSTANCE Cache WITH
  Clients <- Threads, Records <- Handles, None <- Null,
  bound <- [k \in Keys |-> TableLookup(cache, k)],
  held <- hold,
  alive <- Alive(cache)

\* The LRU cache keeps what cache.h promises: a table a thread reads is neither
\* closed nor swapped under it, an unheld and unbound one is closed at once, and
\* a table just opened is the one the next Lookup finds.
ImplementsCache == Contract!Spec

Holding(kind) ==
  Cardinality({h \in Alive(cache) : file[h] = kind})
    + Cardinality({t \in Threads : opening[t] = kind})
At(label) == Cardinality({t \in Threads : pc[t] = label})

\* Two threads in the two steps of Limiter::Acquire are never both given the
\* last slot, and no path of open, mapping failure, displacement, eviction or
\* close loses or doubles one.
LimitersExact ==
  /\ Holding("mapped") + At("map") <= MaxMmap
  /\ Holding("fd") <= MaxPread
  /\ mmap_remains = MaxMmap - Holding("mapped") - At("map") - At("mmap_refused")
  /\ pread_remains = MaxPread - Holding("fd") - At("pread_refused")

\* However the threads race, at most max(Capacity, threads) tables stay cached,
\* and beyond them only displaced tables that a thread still reads are open.
OpenTablesBounded ==
  LET cached == {h \in Handles : cache.handles[h].in_cache}
      most == IF Capacity > Cardinality(Threads) THEN Capacity ELSE Cardinality(Threads)
  IN  /\ Cardinality(cached) <= most
      /\ Alive(cache) \ cached \subseteq {hold[t] : t \in Threads}
=============================================================================
