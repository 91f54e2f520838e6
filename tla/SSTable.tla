------------------------------ MODULE SSTable ------------------------------
(***************************************************************************)
(* An SSTable from its first Add to the cursors that read it               *)
(* (db/sstable/*, db/filter/filter_block.cc, util/iterator.cc): blocks     *)
(* with prefix compression and restart points, an index block whose keys   *)
(* are shortened separators, filter blocks by file offset, and the two     *)
(* level iterator.                                                         *)
(*                                                                         *)
(* A key is the sequence of its user key's bytes with the tag (sequence    *)
(* number) behind them.  An entry's offset in its block is the number of   *)
(* entries before it; sizes count a byte per cell of a key and one for the *)
(* lengths and the value, and one per restart point.                       *)
(***************************************************************************)
EXTENDS Integers, Sequences, SequencesExt, FiniteSetsExt

CONSTANTS
  Users,             \* user keys
  Tags,              \* sequence numbers
  ByteMax,           \* 0xff
  MaxTag,            \* KMaxSequenceNum
  BlockBytes,        \* option.block_size
  RestartInterval,   \* option.block_restart_interval
  FilterBlockSize,   \* KFilterBlockSize
  Hash,              \* BloomHash, of HashWidth bits
  HashWidth,         \* 32
  HashTurn,          \* 17
  HashNum,           \* hash_num_
  BitsPerKey,        \* bits_per_key_
  MinBits            \* 64, the fewest bits of a filter

ASSUME TableAssumption ==
  /\ \A u \in Users : \A i \in 1..Len(u) : u[i] \in 0..ByteMax
  /\ \A t \in Tags : t \in 1..MaxTag
  /\ {BlockBytes, RestartInterval, FilterBlockSize, HashNum, MinBits} \subseteq Nat \ {0}
  /\ BitsPerKey \in Nat /\ HashWidth \in Nat /\ HashTurn \in 0..HashWidth
  /\ Hash \in [Users -> 0..2^HashWidth - 1]

VARIABLES
  added,             \* the keys that were added
  data_block,        \* data_block_builder_
  index_block,       \* index_block_builder_
  blocks,            \* the data blocks in the file: offset |-> block
  last_key_,         \* last key of the data block that was flushed or is being built
  data_block_over_,  \* a flushed block waits for its index entry
  data_block_handle_,
  offset_,           \* file size so far
  filter_block,      \* filter_block_builder_: the filters so far, and the keys
                     \* since the last one
  closed_,
  iter,              \* a TwoLevelIterator over the finished table
  op                 \* the last call on it

tableVars == <<added, data_block, index_block, blocks, last_key_, data_block_over_,
               data_block_handle_, offset_, filter_block, closed_, iter, op>>
builderVars == <<added, data_block, index_block, blocks, last_key_, data_block_over_,
                 data_block_handle_, offset_, filter_block, closed_>>

Keys == {Append(u, t) : u \in Users, t \in Tags}
User(k) == Front(k)
Tag(k) == k[Len(k)]

----------------------------------------------------------------------------
(* Comparators *)

\* The number of leading bytes that two strings share.
Shared(a, b) ==
  Max({n \in 0..Min({Len(a), Len(b)}) : SubSeq(a, 1, n) = SubSeq(b, 1, n)})

UserLess(a, b) ==
  LET n == Shared(a, b)
  IN  IF n < Len(a) /\ n < Len(b) THEN a[n + 1] < b[n + 1] ELSE Len(a) < Len(b)

\* InternalKeyComparator::Compare: newer entries of a user key come first.
Less(a, b) ==
  UserLess(User(a), User(b)) \/ (User(a) = User(b) /\ Tag(a) > Tag(b))

\* ByteWiseComparator::FindShortestMiddle
UserMiddle(start, limit) ==
  LET n == Shared(start, limit)
  IN  IF n < Len(start) /\ n < Len(limit)
         /\ start[n + 1] < ByteMax /\ start[n + 1] + 1 < limit[n + 1]
      THEN Append(SubSeq(start, 1, n), start[n + 1] + 1)
      ELSE start

\* ByteWiseComparator::FindShortestBigger: the first byte that can grow does.
UserBigger(start) ==
  LET small == {i \in 1..Len(start) : start[i] < ByteMax}
  IN  IF small = {} THEN start
      ELSE Append(SubSeq(start, 1, Min(small) - 1), start[Min(small)] + 1)

\* InternalKeyComparator: the shortened user key only when it is shorter and greater.
Shorten(start, user) ==
  IF Len(user) < Len(User(start)) /\ UserLess(User(start), user)
  THEN Append(user, MaxTag)
  ELSE start
FindShortestMiddle(start, limit) == Shorten(start, UserMiddle(User(start), User(limit)))
FindShortestBigger(start) == Shorten(start, UserBigger(start))

----------------------------------------------------------------------------
(* BlockBuilder *)

EmptyBlock == [entries |-> <<>>, restarts |-> <<0>>, counter |-> 0, last |-> <<>>, size |-> 0]

IsRestart(b, interval) == b.counter >= interval

BlockAdd(b, key, value, interval) ==
  LET shared == IF IsRestart(b, interval) THEN 0 ELSE Shared(key, b.last)
      rest   == SubSeq(key, shared + 1, Len(key))
  IN  [entries  |-> Append(b.entries, [shared |-> shared, rest |-> rest, value |-> value]),
       restarts |-> IF IsRestart(b, interval) THEN Append(b.restarts, Len(b.entries))
                                              ELSE b.restarts,
       counter  |-> IF IsRestart(b, interval) THEN 1 ELSE b.counter + 1,
       last     |-> SubSeq(b.last, 1, shared) \o rest,
       size     |-> b.size + 1 + Len(rest)]

ByteSize(b) == b.size + Len(b.restarts) + 1

----------------------------------------------------------------------------
(* BlockReader::Iter.  An iterator stands at entry off (from 0; the number of
   entries when it is not Valid()), its value ends where entry next begins. *)

Count(b) == Len(b.entries)
Valid(b, it) == it.off < Count(b)
\* A new iterator; Error() leaves one like it.
NewIter(b) == [off |-> Count(b), ri |-> Len(b.restarts), key |-> <<>>, next |-> 0]
Restart(b, i) == b.restarts[i + 1]

SeekToRestart(b, it, i) == [it EXCEPT !.key = <<>>, !.ri = i, !.next = Restart(b, i)]

\* The last restart point that is not behind the entry, searched from the current one.
RestartOf(b, from, off) ==
  Max({from} \cup {i \in from + 1 .. Len(b.restarts) - 1 : Restart(b, i) <= off})

SeekNextKey(b, it) ==
  LET off   == it.next
      entry == b.entries[off + 1]
  IN  IF off >= Count(b) THEN [it EXCEPT !.off = Count(b), !.ri = Len(b.restarts)]
      ELSE IF Len(it.key) < entry.shared THEN NewIter(b)
      ELSE [off  |-> off,
            ri   |-> RestartOf(b, it.ri, off),
            key  |-> SubSeq(it.key, 1, entry.shared) \o entry.rest,
            next |-> off + 1]

\* SeekNextKey until the iterator is not Valid() or Stop holds.
Walk(b, it, Stop(_)) ==
  LET after[n \in 0..Count(b) + 1] == IF n = 0 THEN it ELSE SeekNextKey(b, after[n - 1])
      ends == {n \in 1..Count(b) + 1 : ~Valid(b, after[n]) \/ Stop(after[n])}
  IN  after[Min(ends)]

BadRestart == -1

\* Seek's binary search: the last restart point in lo..hi whose key is less than k,
\* or lo.
SearchRestart(b, k, lo, hi) ==
  LET Index == 0..Len(b.restarts)
      search[r \in Index \X Index] ==
        LET mid == (r[1] + r[2] + 1) \div 2
        IN  IF r[1] >= r[2] THEN r[1]
            ELSE IF b.entries[Restart(b, mid) + 1].shared # 0 THEN BadRestart
            ELSE IF Less(b.entries[Restart(b, mid) + 1].rest, k) THEN search[<<mid, r[2]>>]
            ELSE search[<<r[1], mid - 1>>]
  IN  search[<<lo, hi>>]

\* A Valid() iterator's own position narrows the search, and is kept when the
\* wanted key is further on behind the same restart point.
Seek(b, it, k) ==
  LET less    == Valid(b, it) /\ Less(it.key, k)
      greater == Valid(b, it) /\ Less(k, it.key)
      lo      == SearchRestart(b, k, IF less THEN it.ri ELSE 0,
                               IF greater THEN it.ri ELSE Len(b.restarts) - 1)
  IN  IF Valid(b, it) /\ ~less /\ ~greater THEN it
      ELSE IF lo = BadRestart THEN NewIter(b)
      ELSE Walk(b, IF less /\ lo = it.ri THEN it ELSE SeekToRestart(b, it, lo),
                LAMBDA x : ~Less(x.key, k))

SeekToFirst(b, it) == SeekNextKey(b, SeekToRestart(b, it, 0))

SeekToLast(b, it) ==
  Walk(b, SeekToRestart(b, it, Len(b.restarts) - 1), LAMBDA x : x.next >= Count(b))

PrevAtRestart(b, it) ==                \* slip: a restart point is its own predecessor
  {i \in 0..it.ri : Restart(b, i) <= it.off}
\* Prev: the restart points before the current entry.
RestartsBefore(b, it) == {i \in 0..it.ri : Restart(b, i) < it.off}

Prev(b, it) ==
  IF RestartsBefore(b, it) = {}
  THEN [it EXCEPT !.off = Count(b), !.ri = Len(b.restarts)]
  ELSE Walk(b, SeekToRestart(b, it, Max(RestartsBefore(b, it))), LAMBDA x : x.next >= it.off)

----------------------------------------------------------------------------
(* BloomFilterPolicy over user keys, FilterBlockBuilder and FilterBlockReader *)

\* The hash turned by 17 of its 32 bits, and the bits that a key's probes hit.
Delta(h) == (h \div 2^HashTurn) + (h % 2^HashTurn) * 2^(HashWidth - HashTurn)
Probes(user, bits) ==
  {((Hash[user] + j * Delta(Hash[user])) % 2^HashWidth) % bits : j \in 0..HashNum - 1}

CreatFilter(keys) ==
  LET wanted == Max({Len(keys) * BitsPerKey, MinBits})
      bits   == ((wanted + 7) \div 8) * 8
  IN  [bits |-> bits, on |-> UNION {Probes(User(k), bits) : k \in Range(keys)}]

BloomMayMatch(filter, user) == Probes(user, filter.bits) \subseteq filter.on

NoFilter == [bits |-> 0, on |-> {}]
EmptyFilterBlock == [filters |-> <<>>, keys |-> <<>>]

FilterIndex(offset) == offset \div FilterBlockSize

\* GenerateFilter: the keys since the last filter; without keys, an empty one.
GenerateFilter(f) ==
  [filters |-> Append(f.filters, IF f.keys = <<>> THEN NoFilter ELSE CreatFilter(f.keys)),
   keys    |-> <<>>]

NextFilter(f, offset) ==               \* slip: one filter, however far the block went
  IF FilterIndex(offset) > Len(f.filters) THEN GenerateFilter(f) ELSE f
\* StartBlock: filters up to the one of the offset; the first takes the keys.
StartBlock(f, offset) ==
  LET missing == FilterIndex(offset) - Len(f.filters)
  IN  IF missing <= 0 THEN f
      ELSE [GenerateFilter(f) EXCEPT !.filters = @ \o [i \in 1..(missing - 1) |-> NoFilter]]

FilterFinish(f) == IF f.keys = <<>> THEN f ELSE GenerateFilter(f)

KeyMayMatch(offset, user) ==
  FilterIndex(offset) < Len(filter_block.filters) =>
    LET filter == filter_block.filters[FilterIndex(offset) + 1]
    IN  filter # NoFilter /\ BloomMayMatch(filter, user)

----------------------------------------------------------------------------
(* SSTableBuilder *)

NoIter == [off |-> 0, ri |-> 0, key |-> <<>>, next |-> 0]
NoTable == [index |-> NoIter, data |-> NoIter, open |-> FALSE, handle |-> 0]

TableInit ==
  /\ added = <<>>
  /\ data_block = EmptyBlock /\ index_block = EmptyBlock /\ blocks = <<>>
  /\ last_key_ = <<>> /\ data_block_over_ = FALSE /\ data_block_handle_ = 0
  /\ offset_ = 0
  /\ filter_block = EmptyFilterBlock
  /\ closed_ = FALSE
  /\ iter = NoTable
  /\ op = <<"none">>

\* WriteBlock: the contents after snappy, or as they are when it is off or fails.
CompressedSizes(n) == {n, (n + 1) \div 2}

BlockTailSize == 1

\* Flush of a data block: WriteBlock, then the filter's StartBlock.  In Finish
\* the filter block's own Finish follows.
Flush(b, f, finishing) ==
  \E n \in CompressedSizes(ByteSize(b)) :
    /\ blocks' = Append(blocks, [at |-> offset_, block |-> b])
    /\ data_block_handle_' = offset_
    /\ data_block' = EmptyBlock
    /\ offset_' = offset_ + n + BlockTailSize
    /\ filter_block' = IF finishing THEN FilterFinish(StartBlock(f, offset_'))
                                    ELSE StartBlock(f, offset_')

\* The index has a restart at every entry.
IndexAdd(key, handle) == BlockAdd(index_block, key, handle, 1)

\* The index entry of a flushed block is written when the next key is known.
Add(k) ==
  /\ ~closed_
  /\ added = <<>> \/ Less(last_key_, k)
  /\ added' = Append(added, k)
  /\ last_key_' = k
  /\ index_block' = IF data_block_over_
                    THEN IndexAdd(FindShortestMiddle(last_key_, k), data_block_handle_)
                    ELSE index_block
  /\ LET b == BlockAdd(data_block, k, 0, RestartInterval)
         f == [filter_block EXCEPT !.keys = Append(@, k)]
     IN  IF ByteSize(b) >= BlockBytes
         THEN Flush(b, f, FALSE) /\ data_block_over_' = TRUE
         ELSE /\ data_block' = b
              /\ filter_block' = f
              /\ data_block_over_' = FALSE
              /\ UNCHANGED <<blocks, data_block_handle_, offset_>>
  /\ UNCHANGED <<closed_, iter, op>>

\* The last index key only has to be greater than the last key.  Neither
\* BuildSSTable nor a merge finishes a table without entries.
Finish ==
  /\ ~closed_ /\ added # <<>>
  /\ closed_' = TRUE
  /\ IF data_block.entries = <<>>
     THEN /\ filter_block' = FilterFinish(filter_block)
          /\ UNCHANGED <<data_block, blocks, data_block_handle_, offset_>>
     ELSE Flush(data_block, filter_block, TRUE)
  /\ index_block' = IndexAdd(FindShortestBigger(last_key_), data_block_handle_')
  /\ data_block_over_' = FALSE
  /\ UNCHANGED <<added, last_key_, op>>
  /\ iter' = [NoTable EXCEPT !.index = NewIter(index_block')]

----------------------------------------------------------------------------
(* SSTableReader and the TwoLevelIterator.  A table opened with a filter policy
   does not find its filter (the footer holds the handle of the filter block
   where ReadFilterIndex expects that of the filter index), so that InternalGet
   always goes on to the block. *)

BlockAt(handle) == (CHOOSE e \in Range(blocks) : e.at = handle).block

IndexValid(t) == Valid(index_block, t.index)
DataValid(t) == t.open /\ Valid(BlockAt(t.handle), t.data)
Handle(index) == index_block.entries[index.off + 1].value

OnIndex(t, Op(_, _)) == [t EXCEPT !.index = Op(index_block, t.index)]
OnData(t, Op(_, _)) ==
  IF t.open THEN [t EXCEPT !.data = Op(BlockAt(t.handle), t.data)] ELSE t

SetNoData(t) == [t EXCEPT !.data = NoIter, !.open = FALSE]

\* The data iterator is kept when the index still names its block.
UpdateDataBlock(t) ==
  IF ~IndexValid(t) THEN SetNoData(t)
  ELSE LET handle == Handle(t.index)
       IN  IF t.open /\ handle = t.handle THEN t
           ELSE [t EXCEPT !.data = NewIter(BlockAt(handle)), !.open = TRUE, !.handle = handle]

SkipOne(t, forward) ==
  IF DataValid(t) \/ ~IndexValid(t) THEN t
  ELSE IF forward
       THEN OnData(UpdateDataBlock(OnIndex(t, SeekNextKey)), SeekToFirst)
       ELSE OnData(UpdateDataBlock(OnIndex(t, Prev)), SeekToLast)

SkipEmptyDataBlock(t, forward) ==
  LET after[n \in 0..Len(blocks) + 1] == IF n = 0 THEN t ELSE SkipOne(after[n - 1], forward)
      last == after[Len(blocks) + 1]
  IN  IF DataValid(last) THEN last ELSE SetNoData(last)

\* A call on the iterator that moves the index to t first.
Reposition(t, Op(_, _), forward) ==
  SkipEmptyDataBlock(OnData(UpdateDataBlock(t), Op), forward)

Call(name, t) ==
  /\ closed_
  /\ iter' = t
  /\ op' = name
  /\ UNCHANGED builderVars

IterSeek(k) ==
  LET SeekKey(b, it) == Seek(b, it, k)
  IN  Call(<<"Seek", k>>, Reposition(OnIndex(iter, SeekKey), SeekKey, TRUE))
IterSeekToFirst ==
  Call(<<"SeekToFirst">>, Reposition(OnIndex(iter, SeekToFirst), SeekToFirst, TRUE))
IterSeekToLast ==
  Call(<<"SeekToLast">>, Reposition(OnIndex(iter, SeekToLast), SeekToLast, FALSE))
IterNext ==
  DataValid(iter) /\ Call(<<"Next">>, SkipEmptyDataBlock(OnData(iter, SeekNextKey), TRUE))
IterPrev ==
  DataValid(iter) /\ Call(<<"Prev">>, SkipEmptyDataBlock(OnData(iter, Prev), FALSE))

TableNext ==
  \/ \E k \in Keys : Add(k) \/ IterSeek(k)
  \/ Finish
  \/ IterSeekToFirst
  \/ IterSeekToLast
  \/ IterNext
  \/ IterPrev

\* The key InternalGet hands to its callback; <<>> when it does not call it.
InternalGet(k) ==
  LET index == Seek(index_block, NewIter(index_block), k)
      block == BlockAt(Handle(index))
      it    == Seek(block, NewIter(block), k)
  IN  IF Valid(index_block, index) /\ Valid(block, it) THEN it.key ELSE <<>>

----------------------------------------------------------------------------
\* The place of the iterator's entry among the keys added; 0 when not Valid(),
\* beyond the last when it shows a key that was never added.
Position ==
  IF ~DataValid(iter) THEN 0
  ELSE CHOOSE i \in 1..Len(added) + 1 : i = Len(added) + 1 \/ added[i] = iter.data.key

Contract == INSTANCE OrderedTable
              WITH Keys <- Keys, Before <- Less, entries <- added, closed <- closed_,
                   pos <- Position, op <- op

\* Whatever block boundaries, restart points, shared prefixes and shortened index
\* keys come out, and in whatever order Seek, Next and Prev are called, the two
\* level iterator (util/iterator.cc) is a cursor over exactly the added keys.
ImplementsOrderedTable == Contract!Spec

\* A point lookup (SSTableReader::InternalGet) searches one block only: for every
\* key it finds the newest entry of the user key that is not above the wanted
\* sequence number when the table holds one, and no entry of that user key
\* otherwise; and the filter of the block (filter_block.cc) does not exclude it.
LookupFinds ==
  closed_ => \A k \in Keys :
    LET found == SelectSeq(added, LAMBDA e : User(e) = User(k) /\ ~Less(e, k))
        got   == InternalGet(k)
    IN  IF found = <<>> THEN got = <<>> \/ User(got) # User(k)
        ELSE /\ got = found[1]
             /\ KeyMayMatch(Handle(Seek(index_block, NewIter(index_block), k)), User(k))
=============================================================================
