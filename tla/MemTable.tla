------------------------------ MODULE MemTable ------------------------------
(***************************************************************************)
(* The memtable's skip list (db/memtable/skiplist.h, memtable.cc) with one *)
(* writer that links nodes and readers that walk it without a lock.        *)
(*                                                                         *)
(* One step is one access to a shared atomic: a next_ pointer or           *)
(* max_height_.  max_height_ is stored and loaded relaxed, so a reader may *)
(* load any value it ever had.  A new node's next_ pointers are            *)
(* uninitialised until the writer sets them, level by level.               *)
(*                                                                         *)
(* The group commit's leader inserts with mu_ released and publishes the   *)
(* sequence numbers afterwards (module WriteQueue); Get reads at the last  *)
(* published one.  Node n holds the entry with sequence number n.          *)
(***************************************************************************)
EXTENDS Integers, Sequences, FiniteSets

CONSTANTS
  Readers,
  UserKeys,      \* a set of positive numbers, ordered as the user comparator orders keys
  KMaxHeight,
  MaxSeq         \* bound: entries inserted

ASSUME MemTableAssumption ==
  /\ IsFiniteSet(Readers)
  /\ UserKeys \subseteq Nat \ {0} /\ IsFiniteSet(UserKeys)
  /\ KMaxHeight \in Nat \ {0} /\ MaxSeq \in Nat \ {0}

VARIABLES
  entry,        \* by node: user key and type of its entry
  next_,        \* by node and level
  heights,      \* the values max_height_ has had
  inserted,     \* nodes linked at level 0
  published,    \* VersionSet::last_sequence_
  writer,       \* the insertion in progress
  reader        \* by thread: the Get in progress

vars == <<entry, next_, heights, inserted, published, writer, reader>>

Head_ == 0
Null == -1
Junk == -2      \* uninitialised memory
Nodes == 0..MaxSeq
Levels == 0..(KMaxHeight - 1)

Entry == [user : UserKeys, type : {0, 1}]    \* KTypeDeletion, KTypeInsertion
KTypeLookup == 1

\* An internal key, as Compare sees it: the user key and sequence | type.
InternalKey(user, seq, type) == [user |-> user, num |-> 2 * seq + type]
NodeKey(n) == InternalKey(entry[n].user, n, entry[n].type)

\* InternalKeyComparator::Compare(a, b) < 0: newer entries of a user key first.
Before(a, b) == a.user < b.user \/ (a.user = b.user /\ a.num > b.num)

MaxHeight == CHOOSE h \in heights : \A g \in heights : g <= h

NoWalk == [on |-> FALSE, key |-> InternalKey(0, 0, 0), node |-> Head_, level |-> 0]
NoGet == [key |-> 0, seq |-> 0, found |-> 0, done |-> FALSE, walk |-> NoWalk]
NoInsert == [walk |-> NoWalk, prev |-> [l \in Levels |-> Junk], height |-> 0, level |-> 0]

Init ==
  /\ entry = <<>>
  /\ next_ = [n \in Nodes |-> [l \in Levels |-> IF n = Head_ THEN Null ELSE Junk]]
  /\ heights = {1}
  /\ inserted = 0 /\ published = 0
  /\ writer = NoInsert
  /\ reader = [r \in Readers |-> NoGet]

----------------------------------------------------------------------------
(* FindGreaterOrEqual.                                                     *)

StartWalk(key, height) == [on |-> TRUE, key |-> key, node |-> Head_, level |-> height - 1]

\* The loaded pointer leads on along this level.
Onward(w) ==
  LET n == next_[w.node][w.level]
  IN  n # Null /\ (n = Junk \/ Before(NodeKey(n), w.key))

WalkOn(w) == [w EXCEPT !.node = next_[w.node][w.level]]
WalkDown(w) == [w EXCEPT !.level = @ - 1]

----------------------------------------------------------------------------
(* MemTable::Put: the one writer.                                          *)

PutStarts ==
  /\ ~writer.walk.on /\ writer.height = 0
  /\ Len(entry) < MaxSeq
  /\ \E e \in Entry :
       /\ entry' = Append(entry, e)
       /\ writer' = [writer EXCEPT !.walk =
                       StartWalk(InternalKey(e.user, Len(entry) + 1, e.type), MaxHeight)]
  /\ UNCHANGED <<next_, heights, inserted, published, reader>>

\* The search, recording prev[]; nobody else writes, so it is one step per level.
PutWalks ==
  /\ writer.walk.on
  /\ \/ /\ Onward(writer.walk)
        /\ writer' = [writer EXCEPT !.walk = WalkOn(writer.walk)]
     \/ /\ ~Onward(writer.walk) /\ writer.walk.level > 0
        /\ writer' = [writer EXCEPT !.walk = WalkDown(writer.walk),
                                    !.prev[writer.walk.level] = writer.walk.node]
  /\ UNCHANGED <<entry, next_, heights, inserted, published, reader>>

\* Levels above the list's height start at the head.
PrevForNewLevels(found, height) ==
  [l \in Levels |-> IF l >= MaxHeight /\ l < height THEN Head_ ELSE found[l]]

\* RandomHeight, and max_height_ is raised before anything is linked.
PutChoosesHeight ==
  /\ writer.walk.on /\ writer.walk.level = 0 /\ ~Onward(writer.walk)
  /\ \E height \in 1..KMaxHeight :
       /\ writer' = [walk |-> NoWalk, height |-> height, level |-> 0,
                     prev |-> PrevForNewLevels([writer.prev EXCEPT ![0] = writer.walk.node],
                                               height)]
       /\ heights' = IF height > MaxHeight THEN heights \cup {height} ELSE heights
  /\ UNCHANGED <<entry, next_, inserted, published, reader>>

\* A plausible slip: the node's own pointer is not set.
LinkFirst(node, prev, level) ==
  [next_ EXCEPT ![prev][level] = node]

\* node->RelaxedSetNext(i, prev[i]->RelaxedNext(i)); prev[i]->SetNext(i, node).
\* The first store is invisible until the second, so the two are one step.
LinkLevel(node, prev, level) ==
  [next_ EXCEPT ![node][level] = next_[prev][level], ![prev][level] = node]

\* A plausible slip: from the top level down.
TopDown(height, done) == height - 1 - done

LinkOrder(height, done) == done

PutLinks ==
  /\ writer.height > 0
  /\ LET level == LinkOrder(writer.height, writer.level)
         last == writer.level = writer.height - 1
     IN  /\ next_' = LinkLevel(Len(entry), writer.prev[level], level)
         /\ inserted' = IF level = 0 THEN Len(entry) ELSE inserted
         /\ writer' = IF last THEN NoInsert ELSE [writer EXCEPT !.level = @ + 1]
  /\ UNCHANGED <<entry, heights, published, reader>>

\* The leader is through with its batch and takes mu_ again.
Publish ==
  /\ writer = NoInsert
  /\ published # Len(entry)
  /\ published' = Len(entry)
  /\ UNCHANGED <<entry, next_, heights, inserted, writer, reader>>

----------------------------------------------------------------------------
(* MemTable::Get.                                                          *)

\* A plausible slip: the lookup key carries the newest sequence number.
LookupNewest(k) == InternalKey(k, Len(entry), KTypeLookup)

LookupKey(k) == InternalKey(k, published, KTypeLookup)

GetStarts(r) ==
  /\ ~reader[r].walk.on
  /\ \E k \in UserKeys, h \in heights :
       reader' = [reader EXCEPT ![r] = [key |-> k, seq |-> published, found |-> 0,
                                        done |-> FALSE, walk |-> StartWalk(LookupKey(k), h)]]
  /\ UNCHANGED <<entry, next_, heights, inserted, published, writer>>

GetWalks(r) ==
  LET w == reader[r].walk
  IN  /\ w.on
      /\ \/ /\ Onward(w)
            /\ reader' = [reader EXCEPT ![r].walk = WalkOn(w)]
         \/ /\ ~Onward(w) /\ w.level > 0
            /\ reader' = [reader EXCEPT ![r].walk = WalkDown(w)]
      /\ UNCHANGED <<entry, next_, heights, inserted, published, writer>>

\* The first entry at or after the lookup key counts if its user key matches,
\* be it a value or a deletion.
GetEnds(r) ==
  LET w == reader[r].walk
      n == next_[w.node][0]
  IN  /\ w.on /\ w.level = 0 /\ ~Onward(w)
      /\ reader' = [reader EXCEPT ![r] =
           [key |-> reader[r].key, seq |-> reader[r].seq, done |-> TRUE, walk |-> NoWalk,
            found |-> IF n # Null /\ entry[n].user = reader[r].key THEN n ELSE 0]]
      /\ UNCHANGED <<entry, next_, heights, inserted, published, writer>>

Next ==
  \/ PutStarts
  \/ PutWalks
  \/ PutChoosesHeight
  \/ PutLinks
  \/ Publish
  \/ \E r \in Readers : GetStarts(r) \/ GetWalks(r) \/ GetEnds(r)

Spec == Init /\ [][Next]_vars

----------------------------------------------------------------------------
\* No walk of a reader or of the writer reaches uninitialised memory, and the
\* writer never links through it.
NoWildPointer ==
  /\ \A r \in Readers : reader[r].walk.on => next_[reader[r].walk.node][reader[r].walk.level] # Junk
  /\ writer.walk.on => next_[writer.walk.node][writer.walk.level] # Junk
  /\ writer.height > 0 => \A l \in 0..(writer.height - 1) : writer.prev[l] # Junk

\* The nodes linked at a level, and the next one of them after n.
Linked(l) == {n \in Nodes : next_[n][l] # Junk}
After(n, m) == n = Head_ \/ (m # Head_ /\ Before(NodeKey(n), NodeKey(m)))

\* At every moment of an insertion each level is a list of all its nodes in key
\* order, and a node of a level is also on the levels below: a reader that comes
\* down finds its place.
LevelsAreSortedSublists ==
  \A l \in Levels :
    /\ l > 0 => Linked(l) \subseteq Linked(l - 1)
    /\ \A n \in Linked(l) :
         LET later == {m \in Linked(l) \ {n, Head_} : After(n, m)}
         IN  IF later = {} THEN next_[n][l] = Null
             ELSE next_[n][l] \in later
                  /\ \A m \in later : m = next_[n][l] \/ After(next_[n][l], m)

UserOf(e) == e.user

Promise == INSTANCE SnapshotRead WITH
  Entries <- Entry, UserKey <- UserOf,
  log <- SubSeq(entry, 1, inserted),
  get <- [r \in Readers |-> [key |-> reader[r].key, seq |-> reader[r].seq,
                             found |-> reader[r].found, done |-> reader[r].done]]

\* A Get that walks the list while nodes are linked around it finds the newest
\* entry of its key at its snapshot, not an older one, a newer one or none.
ImplementsSnapshotRead == Promise!Spec
=============================================================================
