--------------------------- MODULE MemTable_proofs ---------------------------
(***************************************************************************)
(* Proofs about the skip list, for any number of readers, user keys,       *)
(* levels and entries: no walk meets uninitialised memory, every level is  *)
(* sorted at every moment of an insertion, and a Get that runs beside the  *)
(* writer is a read of its snapshot (module SnapshotRead).                 *)
(***************************************************************************)
EXTENDS MemTable, TLAPS

----------------------------------------------------------------------------
(* The inductive invariant.                                                *)

Key == [user : Nat, num : Nat]
Walk == [on : BOOLEAN, key : Key, node : Nodes, level : Levels]

TypeOK ==
  /\ entry \in Seq(Entry) /\ Len(entry) <= MaxSeq
  /\ next_ \in [Nodes -> [Levels -> Nodes \cup {Null, Junk}]]
  /\ heights \in SUBSET (1..KMaxHeight)
  /\ inserted \in Nodes /\ published \in Nodes
  /\ writer \in [walk : Walk, prev : [Levels -> Nodes \cup {Junk}],
                 height : 0..KMaxHeight, level : Levels]
  /\ reader \in [Readers -> [key : UserKeys \cup {0}, seq : Nodes, found : Nodes,
                             done : BOOLEAN, walk : Walk]]

\* max_height_ has a value.
HasHeight == \E h \in heights : \A g \in heights : g <= h

\* A level is a list: it starts at the head, a pointer leads to a later node of
\* the level, and to the first of the later ones.
Sorted(l) ==
  /\ Head_ \in Linked(l)
  /\ \A n \in Linked(l) : next_[n][l] # Null =>
       next_[n][l] \in Linked(l) \ {n, Head_} /\ After(n, next_[n][l])
  /\ \A n \in Linked(l), m \in Linked(l) \ {Head_} : n # m /\ After(n, m) =>
       next_[n][l] # Null /\ (m = next_[n][l] \/ After(next_[n][l], m))

ListInv ==
  /\ \A l \in Levels : Sorted(l)
  /\ \A l \in Levels : l > 0 => Linked(l) \subseteq Linked(l - 1)
  /\ \A l \in Levels : Linked(l) \subseteq 0..inserted
  /\ Linked(0) = 0..inserted
  /\ \A l \in Levels : l >= MaxHeight => Linked(l) = {Head_}

\* A walk for key stands on a node of level l before key ...
Position(key, node, l) ==
  node \in Linked(l) /\ (node = Head_ \/ Before(NodeKey(node), key))

\* ... and cannot go on along it.
Place(key, node, l) ==
  /\ Position(key, node, l)
  /\ next_[node][l] = Null \/ ~Before(NodeKey(next_[node][l]), key)

\* The node being inserted is the last entry.  While the search runs prev[] is
\* its place on the levels above; while it is linked, on those still to do.
WriterInv ==
  /\ writer.walk.on =>
       /\ writer.height = 0 /\ writer.level = 0
       /\ Len(entry) = inserted + 1
       /\ writer.walk.key = NodeKey(Len(entry))
       /\ writer.walk.level < MaxHeight
       /\ Position(writer.walk.key, writer.walk.node, writer.walk.level)
       /\ \A l \in Levels : writer.walk.level < l /\ l < MaxHeight =>
            Place(writer.walk.key, writer.prev[l], l)
  /\ writer.height > 0 =>
       /\ ~writer.walk.on
       /\ writer.level < writer.height /\ writer.height <= MaxHeight
       /\ Len(entry) = inserted + (IF writer.level = 0 THEN 1 ELSE 0)
       /\ \A l \in Levels : l < writer.height => writer.prev[l] # Junk
       /\ \A l \in Levels : Len(entry) \in Linked(l) <=> l < writer.level
       /\ \A l \in Levels : writer.level <= l /\ l < writer.height =>
            Place(NodeKey(Len(entry)), writer.prev[l], l)
  /\ ~writer.walk.on /\ writer.height = 0 => writer = NoInsert /\ Len(entry) = inserted

\* A reader looks for the newest entry of its key at a published snapshot.
ReaderInv ==
  \A r \in Readers : reader[r].walk.on =>
    /\ ~reader[r].done /\ reader[r].key \in UserKeys
    /\ reader[r].seq <= published
    /\ reader[r].walk.key = InternalKey(reader[r].key, reader[r].seq, KTypeLookup)
    /\ Position(reader[r].walk.key, reader[r].walk.node, reader[r].walk.level)

IInv ==
  /\ TypeOK
  /\ HasHeight
  /\ ListInv
  /\ WriterInv
  /\ ReaderInv
  /\ published <= inserted

----------------------------------------------------------------------------
(* The order of internal keys.                                             *)

\* InternalKeyComparator::Compare is a strict total order.
LEMMA BeforeOrder ==
  ASSUME NEW a \in Key, NEW b \in Key, NEW c \in Key
  PROVE  /\ ~Before(a, a)
         /\ Before(a, b) /\ Before(b, c) => Before(a, c)
         /\ ~Before(a, b) /\ ~Before(b, a) => a = b
         /\ ~Before(a, b) /\ Before(c, b) => Before(c, a)
BY DEF Before, Key

\* Two nodes never have the same internal key: the sequence number is in it.
LEMMA NodeKeys ==
  ASSUME TypeOK, NEW n \in 1..Len(entry), NEW m \in 1..Len(entry)
  PROVE  /\ NodeKey(n) \in Key
         /\ n # m => NodeKey(n) # NodeKey(m)
<1>1. entry[n] \in Entry /\ entry[m] \in Entry
  BY DEF TypeOK
<1>2. entry[n].user \in Nat /\ entry[n].type \in {0, 1} /\ entry[m].type \in {0, 1}
  BY <1>1, MemTableAssumption DEF Entry
<1>3. 2 * n + entry[n].type \in Nat
  BY <1>2
<1>4. NodeKey(n) \in Key
  BY <1>2, <1>3 DEF NodeKey, InternalKey, Key
<1>5. n # m => 2 * n + entry[n].type # 2 * m + entry[m].type
  BY <1>2
<1> QED  BY <1>4, <1>5 DEF NodeKey, InternalKey

\* The order of the nodes, as facts about them.
LEMMA NodeOrder ==
  ASSUME TypeOK
  PROVE  /\ \A n \in 1..Len(entry) : ~Before(NodeKey(n), NodeKey(n))
         /\ \A n, m, k \in 1..Len(entry) :
              Before(NodeKey(n), NodeKey(m)) /\ Before(NodeKey(m), NodeKey(k))
                => Before(NodeKey(n), NodeKey(k))
         /\ \A n, m \in 1..Len(entry) :
              n = m \/ Before(NodeKey(n), NodeKey(m)) \/ Before(NodeKey(m), NodeKey(n))
<1>1. \A n \in 1..Len(entry) : NodeKey(n) \in Key
  BY NodeKeys
<1>2. \A n, m \in 1..Len(entry) : n # m => NodeKey(n) # NodeKey(m)
  BY NodeKeys
<1> QED  BY <1>1, <1>2, BeforeOrder

\* max_height_ is one of the heights, and the largest.
LEMMA MaxHeightIsLargest ==
  ASSUME HasHeight
  PROVE  MaxHeight \in heights /\ \A g \in heights : g <= MaxHeight
BY DEF HasHeight, MaxHeight

LEMMA MaxHeightType ==
  ASSUME TypeOK, HasHeight
  PROVE  MaxHeight \in 1..KMaxHeight /\ MaxHeight \in Nat
<1>1. MaxHeight \in heights /\ heights \subseteq 1..KMaxHeight
  BY MaxHeightIsLargest DEF TypeOK
<1> QED  BY <1>1, MemTableAssumption

----------------------------------------------------------------------------
(* What the invariant says in one state.                                   *)

LEMMA ListIsSublists == TypeOK /\ ListInv => LevelsAreSortedSublists
<1> SUFFICES ASSUME TypeOK, ListInv, NEW l \in Levels
             PROVE  /\ l > 0 => Linked(l) \subseteq Linked(l - 1)
                    /\ \A n \in Linked(l) :
                         LET later == {m \in Linked(l) \ {n, Head_} : After(n, m)}
                         IN  IF later = {} THEN next_[n][l] = Null
                             ELSE next_[n][l] \in later
                                  /\ \A m \in later : m = next_[n][l] \/ After(next_[n][l], m)
  BY DEF LevelsAreSortedSublists
<1>1. l > 0 => Linked(l) \subseteq Linked(l - 1)
  BY DEF ListInv
<1>2. Sorted(l)
  BY DEF ListInv
<1>3. ASSUME NEW n \in Linked(l)
      PROVE  LET later == {m \in Linked(l) \ {n, Head_} : After(n, m)}
             IN  IF later = {} THEN next_[n][l] = Null
                 ELSE next_[n][l] \in later
                      /\ \A m \in later : m = next_[n][l] \/ After(next_[n][l], m)
  BY <1>2, <1>3 DEF Sorted
<1> QED  BY <1>1, <1>3

LEMMA NoWild == IInv => NoWildPointer
<1> SUFFICES ASSUME IInv PROVE NoWildPointer
  OBVIOUS
<1>1. ASSUME NEW r \in Readers, reader[r].walk.on
      PROVE  next_[reader[r].walk.node][reader[r].walk.level] # Junk
  BY <1>1 DEF IInv, ReaderInv, Position, Linked
<1>2. ASSUME writer.walk.on
      PROVE  next_[writer.walk.node][writer.walk.level] # Junk
  BY <1>2 DEF IInv, WriterInv, Position, Linked
<1>3. ASSUME writer.height > 0, NEW l \in 0..(writer.height - 1)
      PROVE  writer.prev[l] # Junk
  <2>1. writer.prev \in [Levels -> Nodes \cup {Junk}] /\ writer.height \in 0..KMaxHeight
    BY DEF IInv, TypeOK
  <2>2. l \in Levels
    BY <2>1, MemTableAssumption DEF Levels
  <2> QED  BY <1>3, <2>1, <2>2 DEF IInv, WriterInv
<1> QED  BY <1>1, <1>2, <1>3 DEF NoWildPointer

----------------------------------------------------------------------------
(* Steps that leave the list alone.                                        *)

\* A walk that goes on stays at a node of its level before its key.
LEMMA WalkStep ==
  ASSUME TypeOK, ListInv, NEW w \in Walk, Position(w.key, w.node, w.level)
  PROVE  /\ Onward(w) => /\ WalkOn(w) \in Walk
                         /\ Position(w.key, WalkOn(w).node, w.level)
                         /\ WalkOn(w).key = w.key /\ WalkOn(w).level = w.level
                         /\ WalkOn(w).on = w.on
         /\ w.level > 0 => /\ WalkDown(w) \in Walk
                           /\ Position(w.key, w.node, w.level - 1)
                           /\ WalkDown(w).key = w.key /\ WalkDown(w).node = w.node
                           /\ WalkDown(w).level = w.level - 1 /\ WalkDown(w).on = w.on
         /\ ~Onward(w) => Place(w.key, w.node, w.level)
<1>1. w.node \in Nodes /\ w.level \in Levels /\ w.key \in Key /\ w.on \in BOOLEAN
  BY DEF Walk
<1>2. Sorted(w.level) /\ w.node \in Linked(w.level)
  BY <1>1 DEF ListInv, Position
<1> DEFINE n == next_[w.node][w.level]
<1>3. n # Junk /\ (n = Null \/ n \in Linked(w.level))
  BY <1>1, <1>2 DEF Sorted, Linked
<1>4. Onward(w) => n \in Linked(w.level) /\ Before(NodeKey(n), w.key)
  BY <1>3 DEF Onward
<1>5. n \in Linked(w.level) => n \in Nodes
  BY DEF Linked
<1>6. ASSUME Onward(w)
      PROVE  /\ WalkOn(w) \in Walk
             /\ Position(w.key, WalkOn(w).node, w.level)
             /\ WalkOn(w).key = w.key /\ WalkOn(w).level = w.level
             /\ WalkOn(w).on = w.on
  <2>1. WalkOn(w) = [w EXCEPT !.node = n]
    BY DEF WalkOn
  <2>2. n \in Nodes /\ Position(w.key, n, w.level)
    BY <1>4, <1>5, <1>6 DEF Position
  <2> HIDE DEF n
  <2>3. WalkOn(w) \in Walk /\ WalkOn(w).node = n /\ WalkOn(w).key = w.key
        /\ WalkOn(w).level = w.level /\ WalkOn(w).on = w.on
    BY <2>1, <2>2 DEF Walk
  <2> QED  BY <2>2, <2>3
<1>7. ASSUME w.level > 0
      PROVE  /\ WalkDown(w) \in Walk
             /\ Position(w.key, w.node, w.level - 1)
             /\ WalkDown(w).key = w.key /\ WalkDown(w).node = w.node
             /\ WalkDown(w).level = w.level - 1 /\ WalkDown(w).on = w.on
  <2>1. w.level - 1 \in Levels
    BY <1>1, <1>7, MemTableAssumption DEF Levels
  <2>2. Linked(w.level) \subseteq Linked(w.level - 1)
    BY <1>1, <1>7 DEF ListInv
  <2>3. Position(w.key, w.node, w.level - 1)
    BY <2>2 DEF Position
  <2> QED  BY <2>1, <2>3 DEF WalkDown, Walk
<1>8. ~Onward(w) => Place(w.key, w.node, w.level)
  BY DEF Onward, Place
<1> QED  BY <1>6, <1>7, <1>8

\* What is said of the list is kept by a step that changes neither the list nor
\* the entries of its nodes.
LEMMA ListKept ==
  ASSUME TypeOK, ListInv, heights' = heights, next_' = next_, inserted' = inserted,
         \A n \in 1..inserted : entry'[n] = entry[n]
  PROVE  /\ ListInv'
         /\ \A l \in Levels : Linked(l)' = Linked(l)
         /\ MaxHeight' = MaxHeight
         /\ \A key, node : \A l \in Levels : Position(key, node, l) => Position(key, node, l)'
         /\ \A key, node : \A l \in Levels : Place(key, node, l) => Place(key, node, l)'
<1>1. \A l \in Levels : Linked(l)' = Linked(l)
  BY DEF Linked
<1>2. MaxHeight' = MaxHeight
  BY DEF MaxHeight
<1>3. \A l \in Levels : Linked(l) \subseteq 0..inserted
  BY DEF ListInv
<1>4. inserted \in Nat
  BY DEF TypeOK, Nodes
<1>5. \A l \in Levels : \A n \in Linked(l) : n # Head_ => n \in 1..inserted
  BY <1>3, <1>4 DEF Head_
<1>8. ASSUME NEW l \in Levels PROVE Sorted(l)'
  <2>1. Sorted(l)
    BY DEF ListInv
  <2>2. Linked(l)' = Linked(l)
    BY <1>1
  <2>3. \A n \in Linked(l) \ {Head_} : entry'[n] = entry[n]
    BY <1>5
  <2> QED  BY <2>1, <2>2, <2>3 DEF Sorted, After, NodeKey
<1>9. ListInv'
  <2>1. 0 \in Levels /\ \A l \in Levels : l > 0 => l - 1 \in Levels
    BY MemTableAssumption DEF Levels
  <2>2. \A l \in Levels : l > 0 => Linked(l)' \subseteq Linked(l - 1)'
    BY <1>1, <2>1 DEF ListInv
  <2>3. \A l \in Levels : Linked(l)' \subseteq 0..inserted'
    BY <1>1 DEF ListInv
  <2>4. Linked(0)' = 0..inserted'
    BY <1>1, <2>1 DEF ListInv
  <2>5. \A l \in Levels : l >= MaxHeight' => Linked(l)' = {Head_}
    BY <1>1, <1>2 DEF ListInv
  <2> QED  BY <1>8, <2>2, <2>3, <2>4, <2>5 DEF ListInv
<1>10. ASSUME NEW key, NEW node, NEW l \in Levels, Position(key, node, l)
       PROVE  Position(key, node, l)'
  BY <1>1, <1>5, <1>10 DEF Position, NodeKey
<1>11. ASSUME NEW key, NEW node, NEW l \in Levels, Place(key, node, l)
       PROVE  Place(key, node, l)'
  <2>1. Position(key, node, l)' /\ node \in Linked(l)
    BY <1>10, <1>11 DEF Place, Position
  <2>2. next_[node][l] = Null \/ (next_[node][l] \in Linked(l) /\ next_[node][l] # Head_)
    BY <2>1 DEF ListInv, Sorted
  <2>3. next_[node][l] = Null \/ entry'[next_[node][l]] = entry[next_[node][l]]
    BY <2>2, <1>5
  <2> QED  BY <2>1, <2>3, <1>11 DEF Place, NodeKey
<1> QED  BY <1>1, <1>2, <1>9, <1>10, <1>11

----------------------------------------------------------------------------
(* The reader's steps.                                                     *)

\* A reader's fields, by name.
LEMMA ReaderType ==
  ASSUME TypeOK, NEW r \in Readers
  PROVE  /\ reader[r].walk \in Walk /\ reader[r].key \in UserKeys \cup {0}
         /\ reader[r].seq \in Nodes /\ reader[r].found \in Nodes /\ reader[r].done \in BOOLEAN
         /\ reader[r].walk.level \in Levels /\ reader[r].walk.node \in Nodes
BY DEF TypeOK, Walk

\* What is said of the list and the writer depends on them alone.
LEMMA ListUntouched ==
  ASSUME UNCHANGED <<entry, next_, heights, inserted, writer>>
  PROVE  /\ ListInv => ListInv'
         /\ WriterInv => WriterInv'
         /\ HasHeight => HasHeight'
<1>1. \A l : Linked(l)' = Linked(l)
  BY DEF Linked
<1>2. \A n : NodeKey(n)' = NodeKey(n)
  BY DEF NodeKey
<1>3. \A n, m : After(n, m)' <=> After(n, m)
  BY <1>2 DEF After
<1>4. MaxHeight' = MaxHeight /\ (HasHeight' <=> HasHeight)
  BY DEF MaxHeight, HasHeight
<1>5. \A l : Sorted(l)' <=> Sorted(l)
  BY <1>1, <1>3 DEF Sorted
<1>6. ListInv => ListInv'
  BY <1>1, <1>4, <1>5 DEF ListInv
<1>7. \A key, node, l : Position(key, node, l)' <=> Position(key, node, l)
  BY <1>1, <1>2 DEF Position
<1>8. \A key, node, l : Place(key, node, l)' <=> Place(key, node, l)
  BY <1>2, <1>7 DEF Place
<1>9. WriterInv => WriterInv'
  BY <1>1, <1>2, <1>4, <1>7, <1>8 DEF WriterInv
<1> QED
  BY <1>4, <1>6, <1>9

\* A step of one reader keeps everything that is not about that reader.
LEMMA ReaderStep ==
  ASSUME IInv, NEW r \in Readers, NEW new,
         reader' = [reader EXCEPT ![r] = new],
         UNCHANGED <<entry, next_, heights, inserted, published, writer>>,
         new \in [key : UserKeys \cup {0}, seq : Nodes, found : Nodes, done : BOOLEAN,
                  walk : Walk],
         new.walk.on =>
           /\ ~new.done /\ new.key \in UserKeys /\ new.seq <= published
           /\ new.walk.key = InternalKey(new.key, new.seq, KTypeLookup)
           /\ Position(new.walk.key, new.walk.node, new.walk.level)
  PROVE  IInv'
<1>1. TypeOK'
  BY DEF IInv, TypeOK
<1>2. ListInv' /\ WriterInv' /\ HasHeight' /\ (published <= inserted)'
  BY ListUntouched DEF IInv
<1>3. ReaderInv'
  <2> SUFFICES ASSUME NEW q \in Readers, reader'[q].walk.on
               PROVE  /\ ~reader'[q].done /\ reader'[q].key \in UserKeys
                      /\ reader'[q].seq <= published'
                      /\ reader'[q].walk.key
                           = InternalKey(reader'[q].key, reader'[q].seq, KTypeLookup)
                      /\ Position(reader[q].walk.key, reader[q].walk.node,
                                  reader[q].walk.level)'
    BY DEF ReaderInv
  <2>1. CASE q = r
    <3>1. reader'[q] = new
      BY <2>1 DEF IInv, TypeOK
    <3> QED  BY <3>1 DEF Position, Linked, NodeKey
  <2>2. CASE q # r
    <3>1. reader'[q] = reader[q]
      BY <2>2 DEF IInv, TypeOK
    <3> QED  BY <3>1 DEF IInv, ReaderInv, Position, Linked, NodeKey
  <2> QED  BY <2>1, <2>2
<1> QED  BY <1>1, <1>2, <1>3 DEF IInv

LEMMA GetStartsStep == ASSUME IInv, NEW r \in Readers, GetStarts(r) PROVE IInv'
<1>1. PICK k \in UserKeys, h \in heights :
        reader' = [reader EXCEPT ![r] = [key |-> k, seq |-> published, found |-> 0,
                     done |-> FALSE, walk |-> StartWalk(LookupKey(k), h)]]
  BY DEF GetStarts
<1> DEFINE w == StartWalk(LookupKey(k), h)
<1>2. h - 1 \in Levels /\ 0 \in Nodes
  BY MemTableAssumption DEF IInv, TypeOK, Levels, Nodes
<1>3. LookupKey(k) \in Key
  <2>1. published \in Nat /\ k \in Nat
    BY MemTableAssumption DEF IInv, TypeOK, Nodes
  <2>2. 2 * published + 1 \in Nat
    BY <2>1
  <2> QED  BY <2>1, <2>2 DEF LookupKey, InternalKey, Key, KTypeLookup
<1>4. w \in Walk /\ w.on = TRUE /\ w.key = LookupKey(k) /\ w.node = Head_ /\ w.level = h - 1
  BY <1>2, <1>3 DEF StartWalk, Walk, Head_
<1>5. Position(LookupKey(k), Head_, h - 1)
  BY <1>2 DEF IInv, ListInv, Sorted, Position
<1> HIDE DEF w
<1> DEFINE new == [key |-> k, seq |-> published, found |-> 0, done |-> FALSE, walk |-> w]
<1>6. /\ new \in [key : UserKeys \cup {0}, seq : Nodes, found : Nodes, done : BOOLEAN,
                  walk : Walk]
      /\ new.walk = w /\ new.key = k /\ new.seq = published /\ new.done = FALSE
  BY <1>2, <1>4 DEF IInv, TypeOK
<1>7. reader' = [reader EXCEPT ![r] = new]
  BY <1>1 DEF w
<1>8. published <= published
  BY DEF IInv, TypeOK, Nodes
<1>9. new.walk.on =>
        /\ ~new.done /\ new.key \in UserKeys /\ new.seq <= published
        /\ new.walk.key = InternalKey(new.key, new.seq, KTypeLookup)
        /\ Position(new.walk.key, new.walk.node, new.walk.level)
  BY <1>4, <1>5, <1>6, <1>8 DEF LookupKey
<1> HIDE DEF new
<1> QED  BY <1>6, <1>7, <1>9, ReaderStep DEF GetStarts

LEMMA GetWalksStep == ASSUME IInv, NEW r \in Readers, GetWalks(r) PROVE IInv'
<1> DEFINE w == reader[r].walk
<1>1. w \in Walk /\ reader[r] \in [key : UserKeys \cup {0}, seq : Nodes, found : Nodes,
                                    done : BOOLEAN, walk : Walk]
  BY DEF IInv, TypeOK
<1>2. /\ w.on /\ ~reader[r].done /\ reader[r].key \in UserKeys /\ reader[r].seq <= published
      /\ w.key = InternalKey(reader[r].key, reader[r].seq, KTypeLookup)
      /\ Position(w.key, w.node, w.level)
  BY DEF GetWalks, IInv, ReaderInv
<1>3. \/ Onward(w) /\ reader' = [reader EXCEPT ![r].walk = WalkOn(w)]
      \/ w.level > 0 /\ reader' = [reader EXCEPT ![r].walk = WalkDown(w)]
  BY DEF GetWalks
<1>4. PICK v \in Walk :
        /\ reader' = [reader EXCEPT ![r].walk = v]
        /\ v.on = w.on /\ v.key = w.key /\ Position(v.key, v.node, v.level)
  <2>1. CASE Onward(w) /\ reader' = [reader EXCEPT ![r].walk = WalkOn(w)]
    <3>1. /\ WalkOn(w) \in Walk /\ WalkOn(w).on = w.on /\ WalkOn(w).key = w.key
          /\ Position(WalkOn(w).key, WalkOn(w).node, WalkOn(w).level)
      BY <1>1, <1>2, <2>1, WalkStep DEF IInv
    <3> QED  BY <2>1, <3>1
  <2>2. CASE w.level > 0 /\ reader' = [reader EXCEPT ![r].walk = WalkDown(w)]
    <3>1. /\ WalkDown(w) \in Walk /\ WalkDown(w).on = w.on /\ WalkDown(w).key = w.key
          /\ Position(WalkDown(w).key, WalkDown(w).node, WalkDown(w).level)
      BY <1>1, <1>2, <2>2, WalkStep DEF IInv
    <3> QED  BY <2>2, <3>1
  <2> QED  BY <1>3, <2>1, <2>2
<1> DEFINE new == [reader[r] EXCEPT !.walk = v]
<1>5. reader' = [reader EXCEPT ![r] = new]
  BY <1>4 DEF IInv, TypeOK
<1>6. /\ new \in [key : UserKeys \cup {0}, seq : Nodes, found : Nodes, done : BOOLEAN,
                  walk : Walk]
      /\ new.walk = v /\ new.key = reader[r].key /\ new.seq = reader[r].seq
      /\ new.done = reader[r].done
  BY <1>1, <1>4
<1>7. /\ ~new.done /\ new.key \in UserKeys /\ new.seq <= published
      /\ new.walk.key = InternalKey(new.key, new.seq, KTypeLookup)
      /\ Position(new.walk.key, new.walk.node, new.walk.level)
  BY <1>2, <1>4, <1>6
<1>8. UNCHANGED <<entry, next_, heights, inserted, published, writer>>
  BY DEF GetWalks
<1> HIDE DEF w, new
<1> QED  BY <1>5, <1>6, <1>7, <1>8, ReaderStep

LEMMA GetEndsStep == ASSUME IInv, NEW r \in Readers, GetEnds(r) PROVE IInv'
<1> DEFINE w == reader[r].walk
           n == next_[w.node][0]
           f == IF n # Null /\ entry[n].user = reader[r].key THEN n ELSE 0
           new == [key |-> reader[r].key, seq |-> reader[r].seq, done |-> TRUE,
                   walk |-> NoWalk, found |-> f]
<1>1. reader' = [reader EXCEPT ![r] = new]
  BY DEF GetEnds
<1>2. f \in Nodes
  <2>1. Position(w.key, w.node, 0) /\ 0 \in Levels /\ 0 \in Nodes
    BY MemTableAssumption DEF GetEnds, IInv, ReaderInv, Levels, Nodes
  <2>2. n = Null \/ n \in Linked(0)
    BY <2>1 DEF IInv, ListInv, Sorted, Position
  <2> QED  BY <2>1, <2>2 DEF Linked
<1>3. NoWalk \in Walk /\ NoWalk.on = FALSE
  BY MemTableAssumption DEF NoWalk, Walk, InternalKey, Key, Head_, Nodes, Levels
<1> HIDE DEF f
<1>4. /\ new \in [key : UserKeys \cup {0}, seq : Nodes, found : Nodes, done : BOOLEAN,
                  walk : Walk]
      /\ new.walk.on = FALSE
  BY <1>2, <1>3, ReaderType DEF IInv
<1> HIDE DEF new
<1> QED  BY <1>1, <1>4, ReaderStep DEF GetEnds

----------------------------------------------------------------------------
(* The writer's steps.                                                     *)

\* What a step of the writer keeps of the readers.
LEMMA ReadersKept ==
  ASSUME IInv, reader' = reader, published' \in Nat, published <= published',
         \A r \in Readers : reader[r].walk.on =>
           Position(reader[r].walk.key, reader[r].walk.node, reader[r].walk.level)'
  PROVE  ReaderInv'
<1> SUFFICES ASSUME NEW r \in Readers, reader[r].walk.on
             PROVE  /\ ~reader[r].done /\ reader[r].key \in UserKeys
                    /\ reader[r].seq <= published'
                    /\ reader[r].walk.key
                         = InternalKey(reader[r].key, reader[r].seq, KTypeLookup)
                    /\ Position(reader[r].walk.key, reader[r].walk.node, reader[r].walk.level)'
  BY DEF ReaderInv
<1>1. reader[r].seq \in Nat /\ published \in Nat
  BY ReaderType DEF IInv, TypeOK, Nodes
<1> QED  BY <1>1 DEF IInv, ReaderInv

LEMMA PublishStep == ASSUME IInv, Publish PROVE IInv'
<1>1. Len(entry) = inserted
  BY MemTableAssumption DEF Publish, IInv, WriterInv, NoInsert, NoWalk
<1>2. /\ TypeOK' /\ HasHeight' /\ (published <= inserted)'
      /\ published' \in Nat /\ published <= published'
  BY <1>1 DEF Publish, IInv, TypeOK, Nodes, HasHeight
<1>3. ListInv' /\ WriterInv'
  BY ListUntouched DEF Publish, IInv
<1>4. ASSUME NEW r \in Readers, reader[r].walk.on
      PROVE  Position(reader[r].walk.key, reader[r].walk.node, reader[r].walk.level)'
  BY <1>4 DEF Publish, IInv, ReaderInv, Position, Linked, NodeKey
<1>5. ReaderInv'
  BY <1>2, <1>4, ReadersKept DEF Publish
<1> QED  BY <1>2, <1>3, <1>5 DEF IInv

LEMMA PutStartsStep == ASSUME IInv, PutStarts PROVE IInv'
<1>1. PICK e \in Entry :
        /\ entry' = Append(entry, e)
        /\ writer' = [writer EXCEPT !.walk =
                        StartWalk(InternalKey(e.user, Len(entry) + 1, e.type), MaxHeight)]
  BY DEF PutStarts
<1>2. writer = NoInsert /\ Len(entry) = inserted /\ Len(entry) < MaxSeq
  BY DEF PutStarts, IInv, WriterInv
<1>3. entry \in Seq(Entry) /\ Len(entry) \in Nat
  BY DEF IInv, TypeOK
<1>4. /\ entry' \in Seq(Entry) /\ Len(entry') = Len(entry) + 1
      /\ entry'[Len(entry) + 1] = e
      /\ \A n \in 1..inserted : entry'[n] = entry[n]
  BY <1>1, <1>2, <1>3
<1>5. MaxHeight \in 1..KMaxHeight /\ MaxHeight \in Nat
  BY MaxHeightType DEF IInv
<1>6. /\ next_' = next_ /\ heights' = heights /\ inserted' = inserted
      /\ published' = published /\ reader' = reader
  BY DEF PutStarts
<1> DEFINE k == InternalKey(e.user, Len(entry) + 1, e.type)
           w == StartWalk(k, MaxHeight)
<1>7. k \in Key /\ k = NodeKey(Len(entry))'
  <2>1. e.user \in Nat /\ e.type \in {0, 1}
    BY MemTableAssumption DEF Entry
  <2>2. 2 * (Len(entry) + 1) + e.type \in Nat
    BY <1>3, <2>1
  <2>3. k \in Key
    BY <2>1, <2>2 DEF InternalKey, Key
  <2> QED  BY <1>4, <2>3 DEF NodeKey
<1> HIDE DEF k
<1>8. MaxHeight - 1 \in Levels /\ 0 \in Nodes
  BY <1>5, MemTableAssumption DEF Levels, Nodes
<1>9. /\ w \in Walk /\ w.on = TRUE /\ w.key = k /\ w.node = Head_
      /\ w.level = MaxHeight - 1
  BY <1>7, <1>8 DEF StartWalk, Walk, Head_
<1>10. /\ ListInv' /\ MaxHeight' = MaxHeight
       /\ \A key, node : \A l \in Levels : Position(key, node, l) => Position(key, node, l)'
  BY <1>4, <1>6, ListKept DEF IInv
<1> HIDE DEF w
<1>11. /\ writer' = [writer EXCEPT !.walk = w]
  BY <1>1 DEF w, k
<1>12. /\ writer'.walk = w /\ writer'.height = 0 /\ writer'.level = 0
       /\ writer' \in [walk : Walk, prev : [Levels -> Nodes \cup {Junk}],
                       height : 0..KMaxHeight, level : Levels]
  BY <1>2, <1>9, <1>11 DEF NoInsert, IInv, TypeOK
<1>13. TypeOK'
  <2>1. Len(entry') <= MaxSeq
    BY <1>2, <1>3, <1>4, MemTableAssumption
  <2> QED  BY <2>1, <1>4, <1>6, <1>12 DEF IInv, TypeOK
<1>14. WriterInv'
  <2>1. writer'.walk.node = Head_ /\ writer'.walk.level \in Levels
    BY <1>8, <1>9, <1>12
  <2>2. Position(writer.walk.key, writer.walk.node, writer.walk.level)'
    BY <1>10, <2>1 DEF ListInv, Sorted, Position
  <2>3. ASSUME NEW l \in Levels, writer'.walk.level < l, l < MaxHeight'
        PROVE  FALSE
    BY <2>3, <1>5, <1>9, <1>10, <1>12 DEF Levels
  <2>4. writer'.walk.level < MaxHeight'
    BY <1>5, <1>9, <1>10, <1>12
  <2>5. writer'.walk.key = NodeKey(Len(entry))'
    BY <1>7, <1>9, <1>12
  <2>6. Len(entry') = inserted' + 1
    BY <1>2, <1>4, <1>6
  <2> QED  BY <1>9, <1>12, <2>2, <2>3, <2>4, <2>5, <2>6 DEF WriterInv
<1>15. ReaderInv'
  <2>1. ASSUME NEW r \in Readers, reader[r].walk.on
        PROVE  Position(reader[r].walk.key, reader[r].walk.node, reader[r].walk.level)'
    <3>1. Position(reader[r].walk.key, reader[r].walk.node, reader[r].walk.level)
      BY <2>1 DEF IInv, ReaderInv
    <3>2. reader[r].walk.level \in Levels
      BY ReaderType DEF IInv
    <3>3. \A n \in Linked(reader[r].walk.level) : n # Head_ => n \in 1..inserted
      BY <3>2, <1>2, <1>3 DEF IInv, ListInv, Head_
    <3> QED  BY <1>4, <1>6, <3>1, <3>3 DEF Position, Linked, NodeKey
  <2>2. published' \in Nat /\ published <= published'
    BY <1>6 DEF IInv, TypeOK, Nodes
  <2> QED  BY <1>6, <2>1, <2>2, ReadersKept
<1>16. HasHeight' /\ (published <= inserted)'
  BY <1>6 DEF IInv, HasHeight
<1> QED  BY <1>10, <1>13, <1>14, <1>15, <1>16 DEF IInv

\* A step that changes only the writer's own state.
LEMMA WriterAlone ==
  ASSUME IInv, UNCHANGED <<entry, next_, heights, inserted, published, reader>>
  PROVE  /\ HasHeight' /\ ListInv' /\ ReaderInv' /\ (published <= inserted)'
         /\ \A l : Linked(l)' = Linked(l)
         /\ MaxHeight' = MaxHeight
BY DEF IInv, HasHeight, ListInv, ReaderInv, Sorted, Linked, After, NodeKey, MaxHeight, Position

LEMMA PutWalksStep == ASSUME IInv, PutWalks PROVE IInv'
<1> DEFINE w == writer.walk
<1>1. w \in Walk /\ w.level \in Levels /\ w.node \in Nodes
      /\ writer \in [walk : Walk, prev : [Levels -> Nodes \cup {Junk}],
                     height : 0..KMaxHeight, level : Levels]
  BY DEF IInv, TypeOK, Walk
<1>2. /\ w.on /\ writer.height = 0 /\ writer.level = 0
      /\ Len(entry) = inserted + 1 /\ w.key = NodeKey(Len(entry)) /\ w.level < MaxHeight
      /\ Position(w.key, w.node, w.level)
      /\ \A l \in Levels : w.level < l /\ l < MaxHeight => Place(w.key, writer.prev[l], l)
  BY DEF PutWalks, IInv, WriterInv
<1>3. UNCHANGED <<entry, next_, heights, inserted, published, reader>>
  BY DEF PutWalks
<1>4. /\ HasHeight' /\ ListInv' /\ ReaderInv' /\ (published <= inserted)'
      /\ \A l : Linked(l)' = Linked(l)
      /\ MaxHeight' = MaxHeight
  BY <1>3, WriterAlone
<1>5. CASE Onward(w) /\ writer' = [writer EXCEPT !.walk = WalkOn(w)]
  <2>1. /\ WalkOn(w) \in Walk /\ WalkOn(w).on = w.on /\ WalkOn(w).key = w.key
        /\ WalkOn(w).level = w.level /\ Position(w.key, WalkOn(w).node, w.level)
    BY <1>1, <1>2, <1>5, WalkStep DEF IInv
  <2> DEFINE v == WalkOn(w)
  <2> HIDE DEF v
  <2>2. /\ writer'.walk = v /\ writer'.height = 0 /\ writer'.level = 0
        /\ writer'.prev = writer.prev
        /\ writer' \in [walk : Walk, prev : [Levels -> Nodes \cup {Junk}],
                        height : 0..KMaxHeight, level : Levels]
    BY <1>1, <1>2, <1>5, <2>1 DEF v
  <2>3. TypeOK'
    BY <1>3, <2>2 DEF IInv, TypeOK
  <2>4. WriterInv'
    <3>1. /\ v.on /\ v.key = w.key /\ v.level = w.level /\ Position(w.key, v.node, w.level)
      BY <1>2, <2>1 DEF v
    <3>2. Position(writer.walk.key, writer.walk.node, writer.walk.level)'
      BY <1>3, <1>4, <2>2, <3>1 DEF Position, NodeKey
    <3>3. \A l \in Levels : writer'.walk.level < l /\ l < MaxHeight' =>
             Place(writer.walk.key, writer.prev[l], l)'
      BY <1>2, <1>3, <1>4, <2>2, <3>1 DEF Place, Position, NodeKey
    <3>4. /\ Len(entry') = inserted' + 1 /\ writer'.walk.key = NodeKey(Len(entry))'
          /\ writer'.walk.level < MaxHeight'
      BY <1>2, <1>3, <1>4, <2>2, <3>1 DEF NodeKey
    <3> QED  BY <2>2, <3>1, <3>2, <3>3, <3>4 DEF WriterInv
  <2> QED  BY <1>4, <2>3, <2>4 DEF IInv
<1>6. CASE /\ ~Onward(w) /\ w.level > 0
           /\ writer' = [writer EXCEPT !.walk = WalkDown(w), !.prev[w.level] = w.node]
  <2>1. /\ WalkDown(w) \in Walk /\ WalkDown(w).on = w.on /\ WalkDown(w).key = w.key
        /\ WalkDown(w).node = w.node /\ WalkDown(w).level = w.level - 1
        /\ Position(w.key, w.node, w.level - 1)
        /\ Place(w.key, w.node, w.level)
    BY <1>1, <1>2, <1>6, WalkStep DEF IInv
  <2> DEFINE v == WalkDown(w)
             p == [writer.prev EXCEPT ![w.level] = w.node]
  <2>p. /\ p \in [Levels -> Nodes \cup {Junk}] /\ p[w.level] = w.node
        /\ \A l \in Levels : l # w.level => p[l] = writer.prev[l]
    BY <1>1
  <2>w. writer' = [writer EXCEPT !.walk = v, !.prev = p]
    BY <1>1, <1>6
  <2> HIDE DEF v, p
  <2>2. /\ writer'.walk = v /\ writer'.height = 0 /\ writer'.level = 0
        /\ writer'.prev = p
        /\ writer' \in [walk : Walk, prev : [Levels -> Nodes \cup {Junk}],
                        height : 0..KMaxHeight, level : Levels]
    BY <1>1, <1>2, <2>w, <2>1, <2>p DEF v
  <2>3. TypeOK'
    BY <1>3, <2>2 DEF IInv, TypeOK
  <2>4. WriterInv'
    <3>1. /\ v.on /\ v.key = w.key /\ v.level = w.level - 1 /\ v.node = w.node
      BY <1>2, <2>1 DEF v
    <3>2. Position(writer.walk.key, writer.walk.node, writer.walk.level)'
      BY <1>3, <1>4, <2>1, <2>2, <3>1 DEF Position, NodeKey
    <3>3. ASSUME NEW l \in Levels, writer'.walk.level < l, l < MaxHeight'
          PROVE  Place(writer.walk.key, writer.prev[l], l)'
      <4>1. l = w.level \/ (w.level < l /\ l < MaxHeight)
        BY <1>1, <1>4, <2>2, <3>1, <3>3 DEF Levels
      <4>2. Place(w.key, p[l], l)
        BY <1>2, <2>1, <2>p, <4>1
      <4> QED  BY <1>3, <1>4, <2>2, <3>1, <4>2 DEF Place, Position, NodeKey
    <3>4. /\ Len(entry') = inserted' + 1 /\ writer'.walk.key = NodeKey(Len(entry))'
      BY <1>2, <1>3, <2>2, <3>1 DEF NodeKey
    <3>5. writer'.walk.level < MaxHeight'
      <4>1. MaxHeight \in Nat /\ w.level \in Nat
        BY <1>1, MaxHeightType DEF IInv, Levels
      <4> QED  BY <1>2, <1>4, <2>2, <3>1, <4>1
    <3> QED  BY <2>2, <3>1, <3>2, <3>3, <3>4, <3>5 DEF WriterInv
  <2> QED  BY <1>4, <2>3, <2>4 DEF IInv
<1> QED  BY <1>5, <1>6 DEF PutWalks

LEMMA PutChoosesHeightStep == ASSUME IInv, PutChoosesHeight PROVE IInv'
<1> DEFINE w == writer.walk
           q == [writer.prev EXCEPT ![0] = w.node]
<1>1. w \in Walk /\ w.level \in Levels /\ w.node \in Nodes /\ 0 \in Levels
      /\ writer.prev \in [Levels -> Nodes \cup {Junk}]
  BY MemTableAssumption DEF IInv, TypeOK, Walk, Levels
<1>2. /\ w.on /\ w.level = 0 /\ ~Onward(w)
      /\ Len(entry) = inserted + 1 /\ w.key = NodeKey(Len(entry))
      /\ Position(w.key, w.node, w.level)
      /\ \A l \in Levels : w.level < l /\ l < MaxHeight => Place(w.key, writer.prev[l], l)
  BY DEF PutChoosesHeight, IInv, WriterInv
<1>3. PICK height \in 1..KMaxHeight :
        /\ writer' = [walk |-> NoWalk, height |-> height, level |-> 0,
                      prev |-> PrevForNewLevels(q, height)]
        /\ heights' = IF height > MaxHeight THEN heights \cup {height} ELSE heights
  BY DEF PutChoosesHeight
<1>4. UNCHANGED <<entry, next_, inserted, published, reader>>
  BY DEF PutChoosesHeight
<1>5. /\ MaxHeight \in 1..KMaxHeight /\ MaxHeight \in Nat /\ MaxHeight \in heights
      /\ \A g \in heights : g <= MaxHeight
      /\ heights \subseteq 1..KMaxHeight /\ KMaxHeight \in Nat
  BY MaxHeightType, MaxHeightIsLargest, MemTableAssumption DEF IInv, TypeOK
<1> DEFINE top == IF height > MaxHeight THEN height ELSE MaxHeight
<1>6. /\ top \in heights' /\ (\A g \in heights' : g <= top) /\ heights' \subseteq 1..KMaxHeight
  BY <1>3, <1>5
<1>7. HasHeight'
  BY <1>6 DEF HasHeight
<1>8. MaxHeight' = top
  <2>1. MaxHeight' \in heights' /\ \A g \in heights' : g <= MaxHeight'
    BY <1>7 DEF HasHeight, MaxHeight
  <2>2. MaxHeight' \in Nat /\ top \in Nat /\ MaxHeight' <= top /\ top <= MaxHeight'
    BY <1>5, <1>6, <2>1
  <2> QED  BY <2>2
<1>9. MaxHeight <= MaxHeight' /\ height <= MaxHeight' /\ MaxHeight' \in Nat /\ height \in Nat
  BY <1>3, <1>5, <1>8
<1>10. \A l : Linked(l)' = Linked(l)
  BY <1>4 DEF Linked
<1>11. ListInv'
  <2>1. \A l \in Levels : Sorted(l)'
    BY <1>4, <1>10 DEF IInv, ListInv, Sorted, After, NodeKey
  <2>2. \A l \in Levels : l >= MaxHeight' => Linked(l)' = {Head_}
    BY <1>5, <1>9, <1>10 DEF IInv, ListInv, Levels
  <2> QED  BY <1>4, <1>10, <2>1, <2>2 DEF IInv, ListInv
<1>12. ReaderInv' /\ (published <= inserted)'
  BY <1>4, <1>10 DEF IInv, ReaderInv, Position, NodeKey
<1> DEFINE p == PrevForNewLevels(q, height)
<1>13. ASSUME NEW l \in Levels
       PROVE  /\ p[l] = IF l >= MaxHeight /\ l < height THEN Head_
                        ELSE IF l = 0 THEN w.node ELSE writer.prev[l]
              /\ p[l] \in Nodes \cup {Junk}
  <2>1. p[l] = IF l >= MaxHeight /\ l < height THEN Head_
               ELSE IF l = 0 THEN w.node ELSE writer.prev[l]
    BY <1>1 DEF PrevForNewLevels
  <2>2. Head_ \in Nodes
    BY MemTableAssumption DEF Head_, Nodes
  <2> QED  BY <1>1, <2>1, <2>2
<1>14. p \in [Levels -> Nodes \cup {Junk}]
  <2>1. p = [l \in Levels |-> p[l]]
    BY DEF PrevForNewLevels
  <2> HIDE DEF p
  <2> QED  BY <1>13, <2>1
<1>15. NoWalk \in Walk /\ NoWalk.on = FALSE
  BY MemTableAssumption DEF NoWalk, Walk, InternalKey, Key, Head_, Nodes, Levels
<1> HIDE DEF p
<1>16. /\ writer'.walk = NoWalk /\ writer'.height = height /\ writer'.level = 0
       /\ writer'.prev = p
       /\ writer' \in [walk : Walk, prev : [Levels -> Nodes \cup {Junk}],
                       height : 0..KMaxHeight, level : Levels]
  <2>1. writer' = [walk |-> NoWalk, height |-> height, level |-> 0, prev |-> p]
    BY <1>3 DEF p
  <2>2. height \in 0..KMaxHeight
    BY <1>5
  <2> QED  BY <1>1, <1>14, <1>15, <2>1, <2>2
<1>17. TypeOK'
  BY <1>4, <1>6, <1>16 DEF IInv, TypeOK
<1>18. ASSUME NEW l \in Levels, l < height PROVE Place(w.key, p[l], l)
  <2>1. CASE l >= MaxHeight
    <3>1. p[l] = Head_
      BY <1>13, <1>18, <2>1
    <3>2. Linked(l) = {Head_} /\ Sorted(l)
      BY <2>1 DEF IInv, ListInv
    <3>3. next_[Head_][l] = Null
      BY <3>2 DEF Sorted
    <3> QED  BY <3>1, <3>2, <3>3 DEF Place, Position
  <2>2. CASE ~(l >= MaxHeight) /\ l = 0
    <3>1. p[l] = w.node
      BY <1>13, <2>2
    <3>2. Place(w.key, w.node, w.level)
      BY <1>1, <1>2, WalkStep DEF IInv
    <3> QED  BY <1>2, <2>2, <3>1, <3>2
  <2>3. CASE ~(l >= MaxHeight) /\ l # 0
    <3>1. p[l] = writer.prev[l]
      BY <1>13, <2>3
    <3>2. w.level < l /\ l < MaxHeight
      BY <1>2, <1>5, <2>3 DEF Levels
    <3> QED  BY <1>2, <3>1, <3>2
  <2> QED  BY <2>1, <2>2, <2>3
<1>19. WriterInv'
  <2>1. \A l \in Levels : l < height => Place(NodeKey(Len(entry)), writer.prev[l], l)'
    BY <1>2, <1>4, <1>10, <1>16, <1>18 DEF Place, Position, NodeKey
  <2>2. \A l \in Levels : l < height => p[l] # Junk
    BY <1>18 DEF Place, Position, Linked, Junk, Nodes
  <2>3. \A l \in Levels : Len(entry') \notin Linked(l)'
    <3>1. inserted \in Nat
      BY DEF IInv, TypeOK, Nodes
    <3> QED  BY <1>2, <1>4, <1>10, <3>1 DEF IInv, ListInv
  <2>4. \A l \in Levels : ~(l < 0)
    BY DEF Levels
  <2>5. Len(entry') = inserted' + 1
    BY <1>2, <1>4
  <2> QED  BY <1>9, <1>15, <1>16, <2>1, <2>2, <2>3, <2>4, <2>5 DEF WriterInv
<1> QED  BY <1>7, <1>11, <1>12, <1>17, <1>19 DEF IInv

\* One link: the new node N goes between p, its place on the level, and the
\* node after p, and every other pointer stays.
LEMMA LinkLevelSorted ==
  ASSUME TypeOK, NEW l \in Levels, Sorted(l), Linked(l) \subseteq 0..Len(entry),
         NEW N \in 1..Len(entry), N \notin Linked(l),
         NEW p, Place(NodeKey(N), p, l),
         entry' = entry, next_' = LinkLevel(N, p, l)
  PROVE  /\ Sorted(l)'
         /\ Linked(l)' = Linked(l) \cup {N}
         /\ next_' \in [Nodes -> [Levels -> Nodes \cup {Null, Junk}]]
         /\ \A k \in Levels : k # l =>
              Linked(k)' = Linked(k) /\ \A n \in Nodes : next_'[n][k] = next_[n][k]
<1> DEFINE x == next_[p][l]
<1>1. /\ p \in Linked(l) /\ (p = Head_ \/ Before(NodeKey(p), NodeKey(N)))
      /\ x = Null \/ ~Before(NodeKey(x), NodeKey(N))
  BY DEF Place, Position
<1>2. /\ p \in Nodes /\ N \in Nodes /\ p # N /\ N # Head_ /\ Len(entry) \in Nat
      /\ N # Null /\ N # Junk
  BY <1>1, MemTableAssumption DEF Linked, TypeOK, Nodes, Head_, Null, Junk
<1>3. \A n \in Linked(l) : n \in Nodes /\ n # Null /\ (n # Head_ => n \in 1..Len(entry))
  BY <1>2 DEF Linked, Nodes, Head_, Null
<1>4. /\ next_' \in [Nodes -> [Levels -> Nodes \cup {Null, Junk}]]
      /\ next_'[N][l] = x /\ next_'[p][l] = N
      /\ \A n \in Nodes : n # N /\ n # p => next_'[n][l] = next_[n][l]
      /\ \A k \in Levels : k # l => \A n \in Nodes : next_'[n][k] = next_[n][k]
  <2>1. x \in Nodes \cup {Null, Junk} /\ next_ \in [Nodes -> [Levels -> Nodes \cup {Null, Junk}]]
    BY <1>2 DEF TypeOK
  <2>2. next_' = [next_ EXCEPT ![N][l] = x, ![p][l] = N]
    BY DEF LinkLevel
  <2> HIDE DEF x
  <2>3. DOMAIN next_' = Nodes /\ next_' = [n \in Nodes |-> next_'[n]]
    BY <2>1, <2>2
  <2>4. /\ next_'[N] = [next_[N] EXCEPT ![l] = x]
        /\ next_'[p] = [next_[p] EXCEPT ![l] = N]
        /\ \A n \in Nodes : n # N /\ n # p => next_'[n] = next_[n]
    BY <1>2, <2>1, <2>2
  <2>5. \A n \in Nodes : next_[n] \in [Levels -> Nodes \cup {Null, Junk}]
    BY <2>1
  <2>6. /\ next_'[N] \in [Levels -> Nodes \cup {Null, Junk}]
        /\ next_'[N][l] = x /\ \A k \in Levels : k # l => next_'[N][k] = next_[N][k]
    BY <1>2, <2>1, <2>4, <2>5
  <2>7. /\ next_'[p] \in [Levels -> Nodes \cup {Null, Junk}]
        /\ next_'[p][l] = N /\ \A k \in Levels : k # l => next_'[p][k] = next_[p][k]
    BY <1>2, <2>4, <2>5
  <2>8. \A n \in Nodes : next_'[n] \in [Levels -> Nodes \cup {Null, Junk}]
    BY <2>4, <2>5, <2>6, <2>7
  <2>9. next_' \in [Nodes -> [Levels -> Nodes \cup {Null, Junk}]]
    BY <2>3, <2>8
  <2> QED  BY <2>4, <2>6, <2>7, <2>9
<1>5. x # Junk
  BY <1>1 DEF Linked
<1>6. Linked(l)' = Linked(l) \cup {N}
  BY <1>1, <1>2, <1>4, <1>5 DEF Linked
<1>7. \A k \in Levels : k # l => Linked(k)' = Linked(k)
  BY <1>4 DEF Linked
<1> HIDE DEF x
<1>8. Sorted(l)'
  <2> DEFINE Ord(n, m) == Before(NodeKey(n), NodeKey(m))
             Aft(n, m) == n = Head_ \/ (m # Head_ /\ Ord(n, m))
             L == Linked(l)
             nx(n) == next_[n][l]
             ny(n) == IF n = N THEN x ELSE IF n = p THEN N ELSE nx(n)
  <2>1. /\ \A n \in 1..Len(entry) : ~Ord(n, n)
        /\ \A n, m, k \in 1..Len(entry) : Ord(n, m) /\ Ord(m, k) => Ord(n, k)
        /\ \A n, m \in 1..Len(entry) : n = m \/ Ord(n, m) \/ Ord(m, n)
    BY NodeOrder
  <2>2. /\ Head_ \in L
        /\ \A n \in L : nx(n) # Null => nx(n) \in L \ {n, Head_} /\ Aft(n, nx(n))
        /\ \A n \in L, m \in L \ {Head_} : n # m /\ Aft(n, m) =>
             nx(n) # Null /\ (m = nx(n) \/ Aft(nx(n), m))
    BY DEF Sorted, After
  <2>3. nx(p) = x
    BY DEF x
  <2>4. /\ \A n \in L : n # Head_ => n \in 1..Len(entry)
        /\ N \in 1..Len(entry) /\ N \notin L /\ N # Head_ /\ p \in L /\ N # p
        /\ (p = Head_ \/ Ord(p, N)) /\ (x = Null \/ ~Ord(x, N)) /\ N # Null
    BY <1>1, <1>2, <1>3
  <2> HIDE DEF Ord, L, nx
  <2>5. x # Null => x \in L /\ x # Head_ /\ x # p /\ x # N /\ Ord(N, x)
    BY <2>1, <2>2, <2>3, <2>4
  \* what comes after p comes after N too, and what comes before N is not after p
  <2>6. \A m \in L \ {Head_} : m # p /\ Aft(p, m) => x # Null /\ (m = x \/ Ord(x, m)) /\ Ord(N, m)
    BY <2>1, <2>2, <2>3, <2>4, <2>5
  <2>7. ASSUME NEW n \in L \cup {N}, ny(n) # Null
        PROVE  ny(n) \in (L \cup {N}) \ {n, Head_} /\ Aft(n, ny(n))
    BY <2>2, <2>4, <2>5, <2>7
  <2>8. ASSUME NEW n \in L \cup {N}, NEW m \in (L \cup {N}) \ {Head_}, n # m, Aft(n, m)
        PROVE  ny(n) # Null /\ (m = ny(n) \/ Aft(ny(n), m))
    <3>1. CASE n = N
      <4>1. m \in L \ {Head_} /\ Ord(N, m)
        BY <2>4, <2>8, <3>1
      <4>2. m # p /\ Aft(p, m)
        BY <2>1, <2>4, <4>1
      <4> QED  BY <2>4, <2>5, <2>6, <3>1, <4>1, <4>2
    <3>2. CASE n = p
      <4>1. CASE m = N
        BY <2>4, <3>2, <4>1
      <4>2. CASE m # N
        <5>1. m \in L \ {Head_} /\ m # p /\ Aft(p, m)
          BY <2>8, <3>2, <4>2
        <5> QED  BY <2>4, <2>6, <3>2, <5>1
      <4> QED  BY <4>1, <4>2
    <3>3. CASE n # N /\ n # p /\ m # N
      BY <2>2, <2>8, <3>3
    <3>4. CASE n # N /\ n # p /\ m = N
      <4>1. n \in L /\ Aft(n, N)
        BY <2>8, <3>4
      <4>2. p # Head_ /\ (n = Head_ \/ Ord(n, p))
        <5>1. CASE n = Head_
          BY <3>4, <5>1
        <5>2. CASE n # Head_
          <6>1. Ord(n, N) /\ n \in 1..Len(entry)
            BY <2>4, <4>1, <5>2
          <6>2. ~Aft(p, n)
            <7>1. SUFFICES ASSUME Aft(p, n) PROVE FALSE
              OBVIOUS
            <7>2. Ord(N, n)
              BY <2>6, <3>4, <4>1, <5>2, <7>1
            <7> QED  BY <2>1, <2>4, <6>1, <7>2
          <6>3. p # Head_ /\ p \in 1..Len(entry)
            BY <2>4, <6>2
          <6> QED  BY <2>1, <3>4, <5>2, <6>1, <6>2, <6>3
        <5> QED  BY <5>1, <5>2
      <4>3. nx(n) # Null /\ (p = nx(n) \/ Aft(nx(n), p))
        BY <2>2, <2>4, <3>4, <4>1, <4>2
      <4>4. nx(n) \in L \ {Head_} /\ (nx(n) = p \/ Ord(nx(n), p))
        BY <2>2, <4>1, <4>3
      <4>5. Ord(nx(n), N)
        BY <2>1, <2>4, <4>2, <4>4
      <4> QED  BY <2>4, <3>4, <4>3, <4>5
    <3> QED  BY <3>1, <3>2, <3>3, <3>4
  <2>9. Linked(l)' = L \cup {N} /\ \A n \in L \cup {N} : next_'[n][l] = ny(n)
    BY <1>3, <1>4, <1>6 DEF L, nx
  <2>10. \A n, m : After(n, m)' <=> Aft(n, m)
    BY DEF After, NodeKey, Ord
  <2> HIDE DEF Aft, ny
  <2>11. Head_ \in Linked(l)'
    BY <2>2, <2>9
  <2>12. \A n \in Linked(l)' : next_'[n][l] # Null =>
           next_'[n][l] \in Linked(l)' \ {n, Head_} /\ Aft(n, next_'[n][l])
    BY <2>7, <2>9
  <2>13. \A n \in Linked(l)', m \in Linked(l)' \ {Head_} : n # m /\ Aft(n, m) =>
           next_'[n][l] # Null /\ (m = next_'[n][l] \/ Aft(next_'[n][l], m))
    BY <2>8, <2>9
  <2> QED  BY <2>11, <2>12, <2>13 DEF Sorted, After, Aft, Ord, NodeKey
<1> QED  BY <1>4, <1>6, <1>7, <1>8

\* PutLinks, with the level, the new node and its place named.
LEMMA LinkStep ==
  ASSUME IInv, PutLinks,
         NEW l, l = writer.level, NEW N, N = Len(entry), NEW p, p = writer.prev[l]
  PROVE  IInv'
<1>1. /\ writer.height > 0 /\ ~writer.walk.on
      /\ l < writer.height /\ writer.height <= MaxHeight
      /\ N = inserted + (IF l = 0 THEN 1 ELSE 0)
      /\ \A k \in Levels : k < writer.height => writer.prev[k] # Junk
      /\ \A k \in Levels : N \in Linked(k) <=> k < l
      /\ \A k \in Levels : l <= k /\ k < writer.height => Place(NodeKey(N), writer.prev[k], k)
  BY DEF PutLinks, IInv, WriterInv
<1>2. /\ next_' = LinkLevel(N, p, l)
      /\ inserted' = IF l = 0 THEN N ELSE inserted
      /\ writer' = IF l = writer.height - 1 THEN NoInsert ELSE [writer EXCEPT !.level = @ + 1]
      /\ entry' = entry /\ heights' = heights /\ published' = published /\ reader' = reader
  BY DEF PutLinks, LinkOrder
<1>3. /\ l \in Levels /\ l \in Nat /\ writer.height \in 0..KMaxHeight /\ writer.height \in Nat
      /\ inserted \in Nat /\ N \in Nat /\ N <= MaxSeq /\ KMaxHeight \in Nat /\ 0 \in Levels
      /\ MaxSeq \in Nat /\ published \in Nat
      /\ writer \in [walk : Walk, prev : [Levels -> Nodes \cup {Junk}],
                     height : 0..KMaxHeight, level : Levels]
  BY MemTableAssumption DEF IInv, TypeOK, Levels, Nodes
<1>4. N \notin Linked(l) /\ Place(NodeKey(N), p, l) /\ Sorted(l)
  BY <1>1, <1>3 DEF IInv, ListInv
<1>5. Head_ \in Linked(l) /\ Linked(l) \subseteq 0..inserted /\ Linked(0) = 0..inserted
  BY <1>3, <1>4 DEF IInv, ListInv, Sorted
<1>6. N \in 1..N /\ inserted <= N /\ Linked(l) \subseteq 0..N
  BY <1>1, <1>3, <1>4, <1>5 DEF Head_
<1>7. /\ Sorted(l)' /\ Linked(l)' = Linked(l) \cup {N}
      /\ next_' \in [Nodes -> [Levels -> Nodes \cup {Null, Junk}]]
      /\ \A k \in Levels : k # l =>
           Linked(k)' = Linked(k) /\ \A n \in Nodes : next_'[n][k] = next_[n][k]
  <2>1. Linked(l) \subseteq 0..Len(entry) /\ N \in 1..Len(entry) /\ TypeOK
    BY <1>6 DEF IInv
  <2> QED  BY <1>2, <1>3, <1>4, <2>1, LinkLevelSorted
<1>8. /\ \A k \in Levels : Linked(k) \subseteq Linked(k)'
      /\ \A k \in Levels : Linked(k)' \subseteq Linked(k) \cup {N}
      /\ \A k \in Levels : \A n \in Linked(k) : n \in Nodes
  BY <1>7 DEF Linked
<1>9. MaxHeight' = MaxHeight /\ MaxHeight \in Nat /\ HasHeight'
  BY <1>2, MaxHeightType DEF IInv, MaxHeight, HasHeight
<1>10. ASSUME NEW k \in Levels PROVE Sorted(k)'
  <2>1. CASE k = l
    BY <1>7, <2>1
  <2>2. CASE k # l
    <3>1. Linked(k)' = Linked(k) /\ \A n \in Linked(k) : next_'[n][k] = next_[n][k]
      BY <1>7, <1>8, <2>2
    <3>2. Sorted(k)
      BY DEF IInv, ListInv
    <3>3. \A n, m : After(n, m)' <=> After(n, m)
      BY <1>2 DEF After, NodeKey
    <3> QED  BY <3>1, <3>2, <3>3 DEF Sorted
  <2> QED  BY <2>1, <2>2
<1>11. ListInv'
  <2>1. ASSUME NEW k \in Levels, k > 0 PROVE Linked(k)' \subseteq Linked(k - 1)'
    <3>1. k - 1 \in Levels /\ Linked(k) \subseteq Linked(k - 1)
      BY <2>1, <1>3 DEF IInv, ListInv, Levels
    <3>2. CASE k = l
      <4>1. N \in Linked(k - 1)
        BY <1>1, <1>3, <3>1, <3>2
      <4>2. Linked(k)' \subseteq Linked(k) \cup {N}
        BY <1>8
      <4>3. Linked(k - 1) \subseteq Linked(k - 1)'
        BY <1>8, <3>1
      <4> QED  BY <3>1, <4>1, <4>2, <4>3
    <3>3. CASE k # l
      BY <1>7, <1>8, <3>1, <3>3
    <3> QED  BY <3>2, <3>3
  <2>2. \A k \in Levels : Linked(k)' \subseteq 0..inserted'
    <3>1. inserted' = N
      BY <1>1, <1>2, <1>3
    <3>2. \A k \in Levels : Linked(k) \subseteq 0..inserted
      BY DEF IInv, ListInv
    <3> QED  BY <1>3, <1>6, <1>8, <3>1, <3>2
  <2>3. Linked(0)' = 0..inserted'
    <3>1. CASE l = 0
      <4>1. inserted' = inserted + 1 /\ N = inserted + 1
        BY <1>1, <1>2, <1>3, <3>1
      <4>2. Linked(0)' = 0..inserted \cup {N}
        BY <1>5, <1>7, <3>1
      <4>3. 0..inserted \cup {N} = 0..(inserted + 1)
        BY <1>3, <4>1
      <4> QED  BY <4>1, <4>2, <4>3
    <3>2. CASE l # 0
      BY <1>2, <1>3, <1>5, <1>7, <3>2
    <3> QED  BY <3>1, <3>2
  <2>4. \A k \in Levels : k >= MaxHeight' => Linked(k)' = {Head_}
    <3>1. \A k \in Levels : k >= MaxHeight => Linked(k) = {Head_} /\ k # l
      BY <1>1, <1>3, <1>9 DEF IInv, ListInv, Levels
    <3> QED  BY <1>7, <1>9, <3>1
  <2> QED  BY <1>10, <2>1, <2>2, <2>3, <2>4 DEF ListInv
<1>12. ReaderInv'
  <2>1. ASSUME NEW r \in Readers, reader[r].walk.on
        PROVE  Position(reader[r].walk.key, reader[r].walk.node, reader[r].walk.level)'
    <3>1. /\ Position(reader[r].walk.key, reader[r].walk.node, reader[r].walk.level)
          /\ reader[r].walk.level \in Levels
      BY <2>1, ReaderType DEF IInv, ReaderInv
    <3> QED  BY <1>2, <1>8, <3>1 DEF Position, NodeKey
  <2>2. published' \in Nat /\ published <= published'
    BY <1>2, <1>3
  <2> QED  BY <1>2, <2>1, <2>2, ReadersKept
<1>13. /\ writer' \in [walk : Walk, prev : [Levels -> Nodes \cup {Junk}],
                       height : 0..KMaxHeight, level : Levels]
       /\ inserted' \in Nodes
  <2>1. NoInsert \in [walk : Walk, prev : [Levels -> Nodes \cup {Junk}],
                      height : 0..KMaxHeight, level : Levels]
    BY <1>3 DEF NoInsert, NoWalk, Walk, InternalKey, Key, Head_, Nodes
  <2>2. l # writer.height - 1 => l + 1 \in Levels
    BY <1>1, <1>3 DEF Levels
  <2>3. inserted' \in Nodes
    BY <1>2, <1>3 DEF IInv, TypeOK, Nodes
  <2>4. CASE l = writer.height - 1
    BY <1>2, <2>1, <2>3, <2>4
  <2>5. CASE l # writer.height - 1
    <3>1. writer' = [writer EXCEPT !.level = l + 1]
      BY <1>2, <2>5
    <3>2. l + 1 \in Levels
      BY <2>2, <2>5
    <3> QED  BY <1>3, <2>3, <3>1, <3>2
  <2> QED  BY <2>4, <2>5
<1>14. TypeOK'
  BY <1>2, <1>7, <1>13 DEF IInv, TypeOK
<1>15. (published <= inserted)'
  BY <1>2, <1>3, <1>6 DEF IInv
<1>16. inserted' = N
  BY <1>1, <1>2, <1>3
<1>17. WriterInv'
  <2>1. CASE l = writer.height - 1
    <3>1. writer' = NoInsert /\ ~NoInsert.walk.on /\ NoInsert.height = 0
      BY <1>2, <2>1 DEF NoInsert, NoWalk
    <3>2. Len(entry') = inserted'
      BY <1>2, <1>16
    <3> QED  BY <3>1, <3>2 DEF WriterInv
  <2>2. CASE l # writer.height - 1
    <3>1. /\ writer'.level = l + 1 /\ writer'.height = writer.height
          /\ writer'.prev = writer.prev /\ writer'.walk = writer.walk
      BY <1>2, <1>3, <2>2
    <3>2. /\ writer'.level < writer'.height /\ writer'.height <= MaxHeight'
          /\ writer'.height > 0 /\ ~writer'.walk.on /\ writer'.level # 0
      BY <1>1, <1>3, <1>9, <2>2, <3>1
    <3>3. Len(entry') = inserted' + 0
      BY <1>2, <1>3, <1>16
    <3>4. \A k \in Levels : Len(entry') \in Linked(k)' <=> k < writer'.level
      <4>1. \A k \in Levels : N \in Linked(k)' <=> k < l + 1
        <5> SUFFICES ASSUME NEW k \in Levels PROVE N \in Linked(k)' <=> k < l + 1
          OBVIOUS
        <5>1. CASE k = l
          BY <1>3, <1>7, <5>1
        <5>2. CASE k # l
          <6>1. N \in Linked(k)' <=> k < l
            BY <1>1, <1>7, <5>2
          <6> QED  BY <1>3, <5>2, <6>1 DEF Levels
        <5> QED  BY <5>1, <5>2
      <4> QED  BY <1>2, <3>1, <4>1
    <3>5. ASSUME NEW k \in Levels, writer'.level <= k, k < writer'.height
          PROVE  Place(NodeKey(Len(entry)), writer.prev[k], k)'
      <4>1. l <= k /\ k # l /\ k < writer.height
        BY <1>3, <3>1, <3>5 DEF Levels
      <4>2. Place(NodeKey(N), writer.prev[k], k)
        BY <1>1, <4>1
      <4>3. Linked(k)' = Linked(k) /\ writer.prev[k] \in Nodes
        BY <1>7, <1>8, <4>1, <4>2 DEF Place, Position
      <4>4. next_'[writer.prev[k]][k] = next_[writer.prev[k]][k]
        BY <1>7, <4>1, <4>3
      <4> QED  BY <1>2, <3>1, <4>2, <4>3, <4>4 DEF Place, Position, NodeKey
    <3>6. \A k \in Levels : k < writer'.height => writer'.prev[k] # Junk
      BY <1>1, <3>1
    <3> QED  BY <3>1, <3>2, <3>3, <3>4, <3>5, <3>6 DEF WriterInv
  <2> QED  BY <2>1, <2>2
<1> QED  BY <1>9, <1>11, <1>12, <1>14, <1>15, <1>17 DEF IInv

LEMMA PutLinksStep == ASSUME IInv, PutLinks PROVE IInv'
BY LinkStep

----------------------------------------------------------------------------
(* Every reachable state.                                                  *)

\* The empty list.
LEMMA InitInv == Init => IInv
<1> SUFFICES ASSUME Init PROVE IInv
  OBVIOUS
<1>1. 0 \in Nodes /\ 0 \in Levels /\ 0 \in 0..KMaxHeight /\ 1 \in 1..KMaxHeight
      /\ Levels \subseteq Nat /\ Nodes \subseteq Nat
  BY MemTableAssumption DEF Nodes, Levels
<1>2. NoWalk \in Walk /\ ~NoWalk.on
  BY <1>1 DEF NoWalk, Walk, InternalKey, Key, Head_
<1>3. NoInsert \in [walk : Walk, prev : [Levels -> Nodes \cup {Junk}],
                    height : 0..KMaxHeight, level : Levels]
  BY <1>1, <1>2 DEF NoInsert
<1>4. NoGet \in [key : UserKeys \cup {0}, seq : Nodes, found : Nodes, done : BOOLEAN,
                 walk : Walk] /\ ~NoGet.walk.on
  BY <1>1, <1>2 DEF NoGet
<1>5. entry \in Seq(Entry) /\ Len(entry) = 0
  BY DEF Init
<1>6. next_ \in [Nodes -> [Levels -> Nodes \cup {Null, Junk}]]
  BY DEF Init
<1>7. TypeOK
  BY <1>1, <1>3, <1>4, <1>5, <1>6, MemTableAssumption DEF Init, TypeOK
<1>8. HasHeight
  BY DEF Init, HasHeight
<1>9. \A l \in Levels : Linked(l) = {Head_} /\ next_[Head_][l] = Null
  BY <1>1 DEF Init, Linked, Head_, Null, Junk
<1>10. \A l \in Levels : Sorted(l)
  BY <1>9 DEF Sorted
<1>11. ListInv
  <2>1. 0..inserted = {Head_}
    BY DEF Init, Head_
  <2>2. \A l \in Levels : l > 0 => l - 1 \in Levels
    BY MemTableAssumption DEF Levels
  <2> QED  BY <1>1, <1>9, <1>10, <2>1, <2>2 DEF ListInv
<1>12. WriterInv
  BY <1>2, <1>5 DEF Init, WriterInv, NoInsert
<1>13. ReaderInv
  BY <1>4 DEF Init, ReaderInv
<1>14. published <= inserted
  BY DEF Init
<1> QED  BY <1>7, <1>8, <1>11, <1>12, <1>13, <1>14 DEF IInv

\* A step of any thread.
LEMMA NextStep == IInv /\ [Next]_vars => IInv'
<1> SUFFICES ASSUME IInv, [Next]_vars PROVE IInv'
  OBVIOUS
<1>1. CASE PutStarts
  BY <1>1, PutStartsStep
<1>2. CASE PutWalks
  BY <1>2, PutWalksStep
<1>3. CASE PutChoosesHeight
  BY <1>3, PutChoosesHeightStep
<1>4. CASE PutLinks
  BY <1>4, PutLinksStep
<1>5. CASE Publish
  BY <1>5, PublishStep
<1>6. CASE \E r \in Readers : GetStarts(r) \/ GetWalks(r) \/ GetEnds(r)
  BY <1>6, GetStartsStep, GetWalksStep, GetEndsStep
<1>7. CASE UNCHANGED vars
  <2>1. TypeOK' /\ HasHeight' /\ ListInv' /\ ReaderInv' /\ (published <= inserted)'
    BY <1>7, WriterAlone DEF vars, IInv, TypeOK
  <2>2. WriterInv'
    BY <1>7 DEF vars, IInv, WriterInv, Position, Place, NodeKey, Linked, MaxHeight
  <2> QED  BY <2>1, <2>2 DEF IInv
<1> QED  BY <1>1, <1>2, <1>3, <1>4, <1>5, <1>6, <1>7 DEF Next

\* The skip list is well formed, the writer knows where its node goes and every
\* reader stands before its key, at every interleaving of their accesses.
THEOREM Invariance == Spec => []IInv
<1> QED  BY InitInv, NextStep, PTL DEF Spec

\* Neither a reader that starts at a stale or a fresh max_height_ nor the writer
\* follows a pointer that was never set (skiplist.h, FindGreaterOrEqual).
THEOREM PointersAreSet == Spec => []NoWildPointer
<1> QED  BY Invariance, NoWild, PTL

\* Linking from level 0 upwards keeps every level a sorted list of its nodes and
\* a sublist of the level below, between any two stores of Insert.
THEOREM LevelsStaySorted == Spec => []LevelsAreSortedSublists
<1>1. IInv => LevelsAreSortedSublists
  BY ListIsSublists DEF IInv
<1> QED  BY Invariance, <1>1, PTL

----------------------------------------------------------------------------
(* The skip list implements SnapshotRead.                                  *)

\* The log of the abstract memtable: the entries linked at level 0.
LEMMA LogIsPrefix ==
  ASSUME IInv
  PROVE  /\ inserted \in 0..Len(entry) /\ inserted \in Nat
         /\ SubSeq(entry, 1, inserted) \in Seq(Entry)
         /\ Len(SubSeq(entry, 1, inserted)) = inserted
         /\ \A i \in 1..inserted : SubSeq(entry, 1, inserted)[i] = entry[i]
<1>1. entry \in Seq(Entry) /\ inserted \in Nat /\ Len(entry) \in Nat
  BY MemTableAssumption DEF IInv, TypeOK, Nodes
<1>2. inserted <= Len(entry)
  <2>1. CASE writer.walk.on
    BY <1>1, <2>1 DEF IInv, WriterInv
  <2>2. CASE ~writer.walk.on /\ writer.height > 0
    <3>1. Len(entry) = inserted + (IF writer.level = 0 THEN 1 ELSE 0)
      BY <2>2 DEF IInv, WriterInv
    <3> QED  BY <1>1, <3>1
  <2>3. CASE ~writer.walk.on /\ writer.height = 0
    BY <1>1, <2>3 DEF IInv, WriterInv
  <2>4. writer.height \in 0..KMaxHeight
    BY DEF IInv, TypeOK
  <2> QED  BY <2>1, <2>2, <2>3, <2>4, MemTableAssumption
<1> QED  BY <1>1, <1>2

\* Where a Get's search ends: the node it stops before is the newest entry of
\* the user key among the first seq, if there is one.
LEMMA SearchFindsNewest ==
  ASSUME IInv, NEW r \in Readers,
         reader[r].walk.on, reader[r].walk.level = 0, ~Onward(reader[r].walk),
         NEW n, n = next_[reader[r].walk.node][0]
  PROVE  LET key == reader[r].key
             of == {i \in 1..reader[r].seq : entry[i].user = key}
         IN  IF n # Null /\ entry[n].user = key
             THEN n \in of /\ \A j \in of : j <= n
             ELSE of = {}
<1> DEFINE w == reader[r].walk
           key == reader[r].key
           seq == reader[r].seq
           of == {i \in 1..seq : entry[i].user = key}
<1>1. /\ key \in UserKeys /\ key \in Nat /\ seq \in Nat /\ seq <= published /\ seq <= inserted
      /\ w.key = InternalKey(key, seq, KTypeLookup)
      /\ w.node \in Linked(0) /\ (w.node = Head_ \/ Before(NodeKey(w.node), w.key))
  <2>1. /\ key \in UserKeys /\ seq <= published /\ w.key = InternalKey(key, seq, KTypeLookup)
        /\ Position(w.key, w.node, w.level)
    BY DEF IInv, ReaderInv
  <2>2. published \in Nat /\ inserted \in Nat /\ seq \in Nat /\ published <= inserted
    BY MemTableAssumption, ReaderType DEF IInv, TypeOK, Nodes
  <2>3. w.node \in Linked(0) /\ (w.node = Head_ \/ Before(NodeKey(w.node), w.key))
    BY <2>1 DEF Position
  <2>4. key \in Nat
    BY <2>1, MemTableAssumption
  <2>5. seq <= inserted
    BY <2>1, <2>2
  <2> QED  BY <2>1, <2>2, <2>3, <2>4, <2>5
<1>2. inserted <= Len(entry) /\ inserted \in Nat /\ Len(entry) \in Nat
  BY LogIsPrefix DEF IInv, TypeOK
<1>3. Linked(0) = 0..inserted /\ Sorted(0) /\ w.node \in 0..inserted
  BY <1>1, MemTableAssumption DEF IInv, ListInv, Levels
<1>4. n # Null => n \in 1..inserted /\ n # w.node
  BY <1>1, <1>2, <1>3 DEF Sorted, Head_
<1>5. n # Null => ~Before(NodeKey(n), w.key)
  BY DEF Onward
<1>6. w.key \in Key /\ w.key.user = key /\ w.key.num = 2 * seq + 1
  BY <1>1 DEF InternalKey, Key, KTypeLookup
<1>7. \A i \in 1..inserted : /\ NodeKey(i) \in Key
                             /\ NodeKey(i).user = entry[i].user /\ entry[i].user \in Nat
                             /\ NodeKey(i).num = 2 * i + entry[i].type
                             /\ entry[i].type \in {0, 1}
  <2> SUFFICES ASSUME NEW i \in 1..inserted
               PROVE  /\ NodeKey(i) \in Key
                      /\ NodeKey(i).user = entry[i].user /\ entry[i].user \in Nat
                      /\ NodeKey(i).num = 2 * i + entry[i].type
                      /\ entry[i].type \in {0, 1}
    OBVIOUS
  <2>1. i \in 1..Len(entry) /\ entry[i] \in Entry
    BY <1>2 DEF IInv, TypeOK
  <2>2. entry[i].user \in Nat /\ entry[i].type \in {0, 1}
    BY <2>1, MemTableAssumption DEF Entry
  <2>3. NodeKey(i) \in Key
    BY <2>1, NodeKeys DEF IInv
  <2> QED  BY <2>2, <2>3 DEF NodeKey, InternalKey
<1>8. ASSUME NEW i \in of
      PROVE  /\ i \in 1..inserted /\ entry[i].user = key /\ n # Null
             /\ i = n \/ Before(NodeKey(n), NodeKey(i))
  <2>1. i \in 1..inserted /\ i <= seq /\ entry[i].user = key
    BY <1>1, <1>2
  <2>2. ~Before(NodeKey(i), w.key)
    BY <1>1, <1>6, <1>7, <2>1 DEF Before
  <2>3. After(w.node, i) /\ w.node # i /\ i # Head_ /\ i \in Linked(0)
    <3>1. i # Head_ /\ i \in Linked(0)
      BY <1>2, <1>3, <2>1 DEF Head_
    <3>2. CASE w.node = Head_
      BY <3>1, <3>2 DEF After
    <3>3. CASE w.node # Head_
      <4>1. w.node \in 1..inserted /\ Before(NodeKey(w.node), w.key)
        BY <1>1, <1>2, <1>3, <3>3 DEF Head_
      <4>2. Before(NodeKey(w.node), NodeKey(i))
        BY <1>6, <1>7, <2>1, <2>2, <4>1, BeforeOrder
      <4> QED  BY <2>2, <3>1, <4>1, <4>2 DEF After
    <3> QED  BY <3>2, <3>3
  <2>4. n # Null /\ (i = n \/ After(n, i))
    BY <1>1, <1>3, <2>3 DEF Sorted
  <2>5. n # Head_
    BY <1>2, <1>4, <2>4 DEF Head_
  <2> QED  BY <2>1, <2>4, <2>5 DEF After
<1>9. CASE n # Null /\ entry[n].user = key
  <2>1. n \in 1..inserted /\ ~Before(NodeKey(n), w.key)
    BY <1>4, <1>5, <1>9
  <2>2. n \in of
    <3>1. /\ NodeKey(n).user = key /\ NodeKey(n).num = 2 * n + entry[n].type
          /\ entry[n].type \in {0, 1} /\ n \in Nat /\ n >= 1
      <4>1. n \in Nat /\ n >= 1
        BY <1>2, <2>1
      <4> QED  BY <1>7, <1>9, <2>1, <4>1
    <3>2. ~(NodeKey(n).num > w.key.num)
      BY <1>6, <2>1, <3>1 DEF Before
    <3>3. n <= seq
      BY <1>1, <1>6, <3>1, <3>2
    <3> QED  BY <1>1, <1>9, <3>1, <3>3
  <2>3. ASSUME NEW j \in of PROVE j <= n
    <3>1. j \in 1..inserted /\ entry[j].user = key /\ (j = n \/ Before(NodeKey(n), NodeKey(j)))
      BY <1>8
    <3>2. j = n \/ 2 * n + entry[n].type > 2 * j + entry[j].type
      BY <1>1, <1>7, <1>9, <2>1, <3>1 DEF Before
    <3>3. entry[n].type \in {0, 1} /\ entry[j].type \in {0, 1}
      BY <1>7, <2>1, <3>1
    <3>4. n \in Nat /\ j \in Nat
      BY <1>2, <2>1, <3>1
    <3> QED  BY <3>2, <3>3, <3>4
  <2> QED  BY <1>9, <2>2, <2>3
<1>10. CASE ~(n # Null /\ entry[n].user = key)
  <2> SUFFICES ASSUME NEW i \in of PROVE FALSE
    BY <1>10
  <2>1. /\ i \in 1..inserted /\ entry[i].user = key /\ n # Null
        /\ i = n \/ Before(NodeKey(n), NodeKey(i))
    BY <1>8
  <2>2. n \in 1..inserted /\ ~Before(NodeKey(n), w.key) /\ entry[n].user # key
    BY <1>4, <1>5, <1>10, <2>1
  <2>3. Before(NodeKey(n), NodeKey(i))
    BY <2>1, <2>2
  <2> QED  BY <1>1, <1>6, <1>7, <2>1, <2>2, <2>3 DEF Before
<1> QED  BY <1>9, <1>10

\* What the abstract reader sees of a Get.
View(g) == [key |-> g.key, seq |-> g.seq, found |-> g.found, done |-> g.done]

\* The empty list maps to the empty log.
LEMMA RefineInit == Init => Promise!Init
<1> SUFFICES ASSUME Init PROVE Promise!Init
  OBVIOUS
<1>1. SubSeq(entry, 1, inserted) = <<>>
  BY DEF Init
<1>2. published = 0
  BY DEF Init
<1>3. \A r \in Readers : View(reader[r]) = Promise!Idle
  BY DEF Init, View, NoGet, Promise!Idle, Promise!NotFound
<1> QED  BY <1>1, <1>2, <1>3 DEF Promise!Init, View

\* A step that leaves level 0, the snapshot and the Gets' results alone.
LEMMA RefineStutter ==
  ASSUME inserted' = inserted, published' = published,
         SubSeq(entry, 1, inserted)' = SubSeq(entry, 1, inserted),
         \A r \in Readers : View(reader[r])' = View(reader[r])
  PROVE  UNCHANGED Promise!readVars
BY DEF Promise!readVars, View

\* Linking a node at level 0 inserts its entry; linking it above shows nothing.
LEMMA RefineLinks ==
  ASSUME IInv, PutLinks PROVE [Promise!Next]_(Promise!readVars)
<1>1. /\ LinkOrder(writer.height, writer.level) = writer.level
      /\ inserted' = (IF writer.level = 0 THEN Len(entry) ELSE inserted)
      /\ entry' = entry /\ published' = published /\ reader' = reader
  BY DEF PutLinks, LinkOrder
<1>2. CASE writer.level = 0
  <2>1. Len(entry) = inserted + 1 /\ inserted' = inserted + 1
    BY <1>1, <1>2 DEF PutLinks, IInv, WriterInv
  <2>2. entry \in Seq(Entry) /\ inserted \in Nat /\ entry[inserted + 1] \in Entry
    BY <2>1, MemTableAssumption DEF IInv, TypeOK, Nodes
  <2>3. SubSeq(entry, 1, inserted + 1) = Append(SubSeq(entry, 1, inserted), entry[inserted + 1])
    BY <2>1, <2>2
  <2>4. Promise!Insert
    BY <1>1, <2>1, <2>2, <2>3 DEF Promise!Insert
  <2> QED  BY <2>4 DEF Promise!Next
<1>3. CASE writer.level # 0
  <2>1. inserted' = inserted
    BY <1>1, <1>3
  <2> QED  BY <1>1, <2>1, RefineStutter DEF View
<1> QED  BY <1>2, <1>3

\* Publishing what was inserted.
LEMMA RefinePublish ==
  ASSUME IInv, Publish PROVE Promise!Publish
<1>1. Len(entry) = inserted /\ published <= inserted
  BY MemTableAssumption DEF Publish, IInv, WriterInv, NoInsert, NoWalk
<1>2. published \in Nat /\ inserted \in Nat /\ Len(SubSeq(entry, 1, inserted)) = inserted
  BY LogIsPrefix, MemTableAssumption DEF IInv, TypeOK, Nodes
<1>3. published' \in published..Len(SubSeq(entry, 1, inserted))
  BY <1>1, <1>2 DEF Publish
<1> QED  BY <1>3 DEF Publish, Promise!Publish

\* The load of last_sequence_ begins the read.
LEMMA RefineBegin ==
  ASSUME IInv, NEW r \in Readers, GetStarts(r) PROVE Promise!Begin(r)
<1>1. PICK k \in UserKeys, h \in heights :
        reader' = [reader EXCEPT ![r] = [key |-> k, seq |-> published, found |-> 0,
                     done |-> FALSE, walk |-> StartWalk(LookupKey(k), h)]]
  BY DEF GetStarts
<1>2. DOMAIN reader = Readers
  BY DEF IInv, TypeOK
<1>3. \A s \in Readers : View(reader'[s]) =
        IF s = r THEN [key |-> k, seq |-> published, found |-> 0, done |-> FALSE]
        ELSE View(reader[s])
  BY <1>1, <1>2 DEF View
<1>4. entry' = entry /\ inserted' = inserted /\ published' = published
  BY DEF GetStarts
<1> QED  BY <1>3, <1>4 DEF Promise!Begin, Promise!NotFound, View

\* The end of the search is the abstract read, at the snapshot of its beginning.
LEMMA RefineFinish ==
  ASSUME IInv, NEW r \in Readers, GetEnds(r) PROVE Promise!Finish(r)
<1> DEFINE n == next_[reader[r].walk.node][0]
           key == reader[r].key
           seq == reader[r].seq
           of == {i \in 1..seq : entry[i].user = key}
           lof == {i \in 1..seq : SubSeq(entry, 1, inserted)[i].user = key}
           f == IF n # Null /\ entry[n].user = key THEN n ELSE 0
<1>1. /\ IF n # Null /\ entry[n].user = key
         THEN n \in of /\ \A j \in of : j <= n
         ELSE of = {}
  BY SearchFindsNewest DEF GetEnds
<1>2. ~reader[r].done /\ key # 0 /\ seq \in Nat /\ seq <= inserted /\ inserted \in Nat
  <2>1. ~reader[r].done /\ key \in UserKeys /\ seq <= published
    BY DEF GetEnds, IInv, ReaderInv
  <2>2. seq \in Nat /\ published \in Nat /\ inserted \in Nat /\ published <= inserted
    BY MemTableAssumption, ReaderType DEF IInv, TypeOK, Nodes
  <2>3. seq <= inserted
    BY <2>1, <2>2
  <2> QED  BY <2>1, <2>2, <2>3, MemTableAssumption
<1>3. lof = of
  <2>1. \A i \in 1..seq : SubSeq(entry, 1, inserted)[i] = entry[i]
    BY <1>2, LogIsPrefix
  <2> QED  BY <2>1
<1>4. Promise!Newest(key, seq) = f
  <2>1. Promise!Newest(key, seq) = IF lof = {} THEN 0 ELSE CHOOSE i \in lof : \A j \in lof : j <= i
    BY DEF Promise!Newest, Promise!NotFound, UserOf
  <2>2. \A i \in lof : i \in Nat
    BY <1>2
  <2>3. IF n # Null /\ entry[n].user = key
        THEN n \in lof /\ \A j \in lof : j <= n
        ELSE lof = {}
    BY <1>1, <1>3
  <2> HIDE DEF lof
  <2>4. CASE n # Null /\ entry[n].user = key
    <3>1. n \in lof /\ \A j \in lof : j <= n
      BY <2>3, <2>4
    <3>2. \A i \in lof : (\A j \in lof : j <= i) => i = n
      BY <2>2, <3>1
    <3>3. (CHOOSE i \in lof : \A j \in lof : j <= i) = n
      BY <3>1, <3>2
    <3> QED  BY <2>1, <2>4, <3>1, <3>3
  <2>5. CASE ~(n # Null /\ entry[n].user = key)
    BY <2>1, <2>3, <2>5
  <2> QED  BY <2>4, <2>5
<1>5. reader' = [reader EXCEPT ![r] = [key |-> key, seq |-> seq, done |-> TRUE,
                                       walk |-> NoWalk, found |-> f]]
  BY DEF GetEnds
<1>6. DOMAIN reader = Readers
  BY DEF IInv, TypeOK
<1>7. \A s \in Readers : View(reader'[s]) =
        IF s = r THEN [key |-> key, seq |-> seq, found |-> Promise!Newest(key, seq), done |-> TRUE]
        ELSE View(reader[s])
  BY <1>4, <1>5, <1>6 DEF View
<1>8. View(reader[r]) # Promise!Idle
  BY <1>2 DEF View, Promise!Idle, Promise!NotFound
<1> HIDE DEF f
<1> QED  BY <1>2, <1>7, <1>8 DEF GetEnds, Promise!Finish, View

\* Every step of the skip list is a step of the abstract memtable or none.
LEMMA RefineNext ==
  ASSUME IInv, [Next]_vars PROVE [Promise!Next]_(Promise!readVars)
<1>1. CASE PutStarts
  <2>1. PICK e \in Entry : entry' = Append(entry, e)
    BY <1>1 DEF PutStarts
  <2>2. inserted \in 0..Len(entry) /\ inserted \in Nat /\ entry \in Seq(Entry)
    BY LogIsPrefix DEF IInv, TypeOK
  <2>3. SubSeq(Append(entry, e), 1, inserted) = SubSeq(entry, 1, inserted)
    BY <2>2
  <2>4. inserted' = inserted /\ published' = published /\ reader' = reader
    BY <1>1 DEF PutStarts
  <2> QED  BY <2>1, <2>3, <2>4, RefineStutter DEF View
<1>2. CASE PutWalks \/ PutChoosesHeight \/ UNCHANGED vars
  BY <1>2, RefineStutter DEF PutWalks, PutChoosesHeight, vars, View
<1>3. CASE PutLinks
  BY <1>3, RefineLinks
<1>4. CASE Publish
  BY <1>4, RefinePublish DEF Promise!Next
<1>5. ASSUME NEW r \in Readers, GetStarts(r) PROVE Promise!Next
  BY <1>5, RefineBegin DEF Promise!Next
<1>6. ASSUME NEW r \in Readers, GetEnds(r) PROVE Promise!Next
  BY <1>6, RefineFinish DEF Promise!Next
<1>7. ASSUME NEW r \in Readers, GetWalks(r) PROVE UNCHANGED Promise!readVars
  <2>1. reader \in [Readers -> [key : UserKeys \cup {0}, seq : Nodes, found : Nodes,
                                done : BOOLEAN, walk : Walk]]
    BY DEF IInv, TypeOK
  <2>2. \A s \in Readers : View(reader'[s]) = View(reader[s])
    BY <1>7, <2>1 DEF GetWalks, View
  <2>3. inserted' = inserted /\ published' = published /\ entry' = entry
    BY <1>7 DEF GetWalks
  <2> QED  BY <2>2, <2>3, RefineStutter DEF View
<1> QED  BY <1>1, <1>2, <1>3, <1>4, <1>5, <1>6, <1>7 DEF Next

\* MemTable::Get beside MemTable::Put finds the newest entry of its key at its
\* snapshot (memtable.cc, Get): the skip list implements SnapshotRead, for any
\* number of readers, entries, keys and levels.
THEOREM GetReadsItsSnapshot == Spec => ImplementsSnapshotRead
<1>1. Init => Promise!Init
  BY RefineInit
<1>2. IInv /\ [Next]_vars => [Promise!Next]_(Promise!readVars)
  BY RefineNext
<1> QED  BY <1>1, <1>2, Invariance, PTL DEF Spec, ImplementsSnapshotRead, Promise!Spec
=============================================================================
