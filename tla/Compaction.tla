---------------------------- MODULE Compaction ----------------------------
(***************************************************************************)
(* What a compaction reads, writes and installs (db/version/version.cc,    *)
(* merge.cc and DBImpl::DoCompactionLevel), and what Version::Get then     *)
(* finds.                                                                  *)
(*                                                                         *)
(* Memtables are flushed to level 0, also in the middle of a merge.  The   *)
(* one background job picks the files of two adjacent levels, moves a      *)
(* single file down or merges them entry by entry into new files, and      *)
(* installs the result.  A Get that had to search more than one file of    *)
(* its version charges a seek to the first, which may become the next      *)
(* compaction of that version.                                             *)
(*                                                                         *)
(* The process may end at any time.  The next DB::Open replays the logs of *)
(* the session into level 0, also those whose memtables have been flushed: *)
(* an entry is then in more than one file.  Power losses are in module     *)
(* Recovery: here the logs are whole.                                      *)
(*                                                                         *)
(* An entry is its internal key; values are left out.  A file is as large  *)
(* as it has entries, so every entry is a data block of its own.  File     *)
(* numbers index table.  Reference counts, the meta log and I/O errors are *)
(* the business of module VersionSet.                                      *)
(***************************************************************************)
EXTENDS Integers, SequencesExt, FiniteSetsExt

CONSTANTS
  UserKeys,       \* a set of numbers, the order of the user comparator
  NumLevels,      \* config::KNumLevels
  L0Threshold,    \* config::KL0_CompactionThreshold
  LevelBase, LevelFactor,   \* the size limit of level 1, and the ratio of the limits
  MaxFileSize,    \* Option::max_file_size
  ExpandLimit,    \* ExpandCompactionLimit
  OverlapLimit,   \* GrandparantsOverLapLimit
  AllowSeeks,     \* seeks allowed to a new file
  Readers,        \* the threads that call DBImpl::Get
  MaxSeq,         \* bound: sequence numbers
  MaxSessions,    \* bound: calls of DB::Open
  FlushSizes,     \* bound: how many entries a memtable may have
  Writable,       \* bound: user keys that are written; Gets ask for the others too
  Deletable,      \* bound: user keys that are deleted
  MaxDeletes      \* bound: deletions on disk

\* The limit of level 1, multiplied once for each level below it.
LevelMaxSize(level) ==
  LET size[l \in 0..level] == IF l <= 1 THEN LevelBase ELSE LevelFactor * size[l - 1]
  IN  size[level]

\* config::KL0_CompactionThreshold is 4 and config::KNumLevels is 7.
ASSUME CompactionAssumption ==
  /\ UserKeys \subseteq Nat \ {0} /\ IsFiniteSet(UserKeys)
  /\ {NumLevels, L0Threshold, LevelBase, LevelFactor, MaxFileSize, AllowSeeks} \subseteq Nat \ {0}
  /\ {ExpandLimit, OverlapLimit, MaxSeq, MaxSessions, MaxDeletes} \subseteq Nat
  /\ FlushSizes \subseteq Nat \ {0}
  /\ L0Threshold <= NumLevels - 2
  /\ Writable \subseteq UserKeys /\ Deletable \subseteq Writable

VARIABLES
  table,              \* by file number: bounds, entries and allow_seeks of an SSTable
  files_,             \* by level: the file numbers of the current version
  compactor_pointer_, \* by level: where the last compaction ended, or NoKey
  file_to_compact_,   \* the file and level a seek compaction is due for, or NoSeek
  gets,               \* by reader: what its Get will charge, and whether its version is the current one
  log,                \* what the logs of the session hold, memtable by memtable
  flushed,            \* how many of these memtables have been flushed
  last_sequence_,
  sessions,           \* calls of DB::Open
  bg,                 \* "idle", "merge", "error" (background_status_) or the assertion that failed
  m                   \* the Compaction and CompactionState of the merge

vars == <<table, files_, compactor_pointer_, file_to_compact_, gets, log, flushed, last_sequence_,
          sessions, bg, m>>
logVars == <<log, flushed, last_sequence_, sessions>>

Levels == 0..(NumLevels - 1)
NoKey == [u |-> 0, s |-> 0, t |-> "put"]
NoSeek == [file |-> 0, level |-> -1]
NoMerge == [level |-> -1]
NoGet == [seek |-> NoSeek, current |-> FALSE]

\* The assertions of AddFile, of SSTableBuilder::Add and of PickCompaction.
Aborted == bg \in {"overlap", "order", "level"}

----------------------------------------------------------------------------
(* Internal keys and files.                                                *)

\* InternalKeyComparator: user key ascending, then sequence descending.
Less(a, b) == a.u < b.u \/ (a.u = b.u /\ a.s > b.s)
FirstKey(S) == CHOOSE a \in S : \A b \in S \ {a} : Less(a, b)
LastKey(S) == CHOOSE a \in S : \A b \in S \ {a} : Less(b, a)

\* FileMeta, with allow_seeks as Builder::Apply sets it, and the file's entries.
NewTable(data) == [smallest |-> data[1], largest |-> data[Len(data)], data |-> data,
                   allow_seeks |-> AllowSeeks]

\* A file no version holds; GarbageFilesClean removes it.
Gone == [smallest |-> NoKey, largest |-> NoKey, data |-> <<>>, allow_seeks |-> 0]

\* The entries of the files fs, counted.
TotalFileSize(fs) == Cardinality(UNION {{f} \X (1..Len(table[f].data)) : f \in fs})

\* The elements of S in the order of the relation R: each has its place behind those
\* that come before it.
SortBy(S, R) ==
  [i \in 1..Cardinality(S) |-> CHOOSE a \in S : Cardinality({b \in S : <<b, a>> \in R}) = i - 1]

----------------------------------------------------------------------------
(* Version::Get.                                                           *)

\* A plausible slip: a file that ends at the key is passed.
NarrowPast(fs, k, r) ==
  LET mid == (r.lo + r.hi) \div 2
  IN  CASE r.lo >= r.hi -> r
        [] r.lo < r.hi /\ k >= table[fs[mid + 1]].largest.u -> [r EXCEPT !.lo = mid + 1]
        [] OTHER -> [r EXCEPT !.hi = mid]

\* One turn of the binary search; nothing happens once the range is empty.
Narrow(fs, k, r) ==
  LET mid == (r.lo + r.hi) \div 2
  IN  CASE r.lo >= r.hi -> r
        [] r.lo < r.hi /\ k > table[fs[mid + 1]].largest.u -> [r EXCEPT !.lo = mid + 1]
        [] OTHER -> [r EXCEPT !.hi = mid]

\* The binary search for the first file whose largest user key is not below k;
\* Len(fs) when there is none.  The result counts from 0.
FindFile(fs, k) ==
  LET range[i \in 0..Len(fs)] ==
        IF i = 0 THEN [lo |-> 0, hi |-> Len(fs)] ELSE Narrow(fs, k, range[i - 1])
  IN  range[Len(fs)].hi

Covers(f, k) == table[f].smallest.u <= k /\ k <= table[f].largest.u

\* Version::ForEachFile: the files that may hold k, all those of level 0 and at most
\* one of each deeper level.
ForEachFile(k) ==
  LET at(l) == files_[l][FindFile(files_[l], k) + 1]
      deeper == {l \in 1..(NumLevels - 1) :
                   FindFile(files_[l], k) < Len(files_[l]) /\ table[at(l)].smallest.u <= k}
  IN  {[file |-> f, level |-> 0] : f \in {g \in ToSet(files_[0]) : Covers(g, k)}}
        \cup {[file |-> at(l), level |-> l] : l \in deeper}

\* They are searched level by level, at level 0 the newest first (NewFirst).
SearchedBefore(a, b) == a.level < b.level \/ (a.level = b.level /\ a.file > b.file)
FirstSearched(C) == CHOOSE c \in C : \A d \in C \ {c} : SearchedBefore(c, d)

Holds(f, k) == \E i \in 1..Len(table[f].data) : table[f].data[i].u = k

\* Version::Get: the entry found, the first one of k in the first file that has one.
Get(k) ==
  LET having == {c \in ForEachFile(k) : Holds(c.file, k)}
      data == table[FirstSearched(having).file].data
  IN  IF having = {} THEN NoKey ELSE data[SelectInSeq(data, LAMBDA e : e.u = k)]

\* SSTableMatch: GetStats names the first file searched once a second one is, which is
\* when the first one does not have the key.
SeekFile(k) ==
  LET first == FirstSearched(ForEachFile(k))
  IN  IF \E c \in ForEachFile(k) : c # first /\ ~Holds(first.file, k) THEN first ELSE NoSeek

\* DBImpl::Get refers to the current version and searches it without the lock; a
\* version never changes, so the outcome is known from the start.
SearchVersion(r, k) ==
  /\ ~Aborted
  /\ gets[r] = NoGet /\ SeekFile(k) # NoSeek
  /\ gets' = [gets EXCEPT ![r] = [seek |-> SeekFile(k), current |-> TRUE]]
  /\ UNCHANGED <<table, files_, compactor_pointer_, file_to_compact_, logVars, bg, m>>

\* A plausible slip: the charge goes to the version that is current by now.
ChargeCurrent(r) == gets[r] # NoGet

\* The version the charge goes to is the current one.
ChargesCurrent(r) == gets[r].current

\* Version::UpdateStats, called with the lock held again.  The FileMeta is that of the
\* current version too as long as the file is at its level.  What an old version marks
\* for compaction is lost with it.  Only whether allow_seeks is positive matters, so it
\* stops at 0.
UpdateStats(r) ==
  /\ ~Aborted
  /\ gets[r] # NoGet
  /\ LET seek == gets[r].seek
         f == seek.file
         shared == f \in ToSet(files_[seek.level])
         left == IF shared /\ table[f].allow_seeks > 0 THEN table[f].allow_seeks - 1 ELSE 0
     IN  /\ table' = IF shared THEN [table EXCEPT ![f].allow_seeks = left] ELSE table
         /\ file_to_compact_' = IF ChargesCurrent(r) /\ left = 0 /\ file_to_compact_ = NoSeek
                                THEN seek ELSE file_to_compact_
  /\ gets' = [gets EXCEPT ![r] = NoGet]
  /\ UNCHANGED <<files_, compactor_pointer_, logVars, bg, m>>

----------------------------------------------------------------------------
(* Installing an edit: VersionSet::Builder.                                *)

BySmallestKey(t, a, b) ==
  \/ Less(t[a].smallest, t[b].smallest)
  \/ t[a].smallest = t[b].smallest /\ a < b

\* SaveTo: a level's files in the order of their smallest keys.
SaveTo(t, fs) == SortBy(fs, {p \in fs \X fs : BySmallestKey(t, p[1], p[2])})

\* AddFile's assertion on the levels whose files may not overlap.
Ordered(t, fs) ==
  \A i \in 1..(Len(fs) - 1) : Less(t[fs[i]].largest, t[fs[i + 1]].smallest)

\* Builder::Apply and SaveTo: the files of the next version.
NextFiles(t, added, deleted) ==
  [l \in Levels |-> SaveTo(t, (ToSet(files_[l]) \ deleted[l]) \cup added[l])]

NoFiles == [l \in Levels |-> {}]

\* The Gets that are under way have an old version now.
Outdated == [r \in Readers |-> [gets[r] EXCEPT !.current = FALSE]]

\* LogAndApply on the tables t: the new version has no file to compact, and a compaction
\* leaves its pointer.  Files that overlap below level 0 fail AddFile's assertion before
\* anything is written, and the process stops.
Install(t, added, deleted, pointers, then) ==
  LET next == NextFiles(t, added, deleted)
      ok == \A l \in Levels \ {0} : Ordered(t, next[l])
  IN  /\ files_' = IF ok THEN next ELSE files_
      /\ file_to_compact_' = IF ok THEN NoSeek ELSE file_to_compact_
      /\ compactor_pointer_' = IF ok THEN pointers ELSE compactor_pointer_
      /\ gets' = IF ok THEN Outdated ELSE gets
      /\ bg' = IF ok THEN then ELSE "overlap"

----------------------------------------------------------------------------
(* Writes and logs.  CompactionMemtable, on its own or between two entries *)
(* of a merge.                                                             *)

Deletes ==
  LET onDisk == UNION ({ToSet(table[f].data) : f \in 1..Len(table)} \cup {ToSet(log[i]) : i \in 1..Len(log)})
  IN  Cardinality({e \in onDisk : e.t = "del"})

\* The next operations fill a memtable, which has a log of its own; they are kept in the
\* order of internal keys.  mem_ and imm_ may both wait to be flushed.  After a
\* background error Write goes on all the same.
Write(ops) ==
  LET entries == {[u |-> ops[i].u, s |-> last_sequence_ + i, t |-> ops[i].t] : i \in 1..Len(ops)}
  IN  /\ ~Aborted
      /\ Len(log) - flushed < 2
      /\ last_sequence_ + Len(ops) <= MaxSeq
      /\ last_sequence_' = last_sequence_ + Len(ops)
      /\ log' = Append(log, SortBy(entries, {p \in entries \X entries : Less(p[1], p[2])}))
      /\ UNCHANGED <<table, files_, compactor_pointer_, file_to_compact_, gets, flushed, sessions, bg, m>>

Flush ==
  LET t == Append(table, NewTable(log[flushed + 1]))
  IN  /\ bg \in {"idle", "merge"}
      /\ flushed < Len(log)
      /\ flushed' = flushed + 1
      /\ table' = t
      /\ Install(t, [NoFiles EXCEPT ![0] = {Len(t)}], NoFiles, compactor_pointer_, bg)
      /\ UNCHANGED <<log, last_sequence_, sessions, m>>

----------------------------------------------------------------------------
(* DB::Open after the process has ended.                                   *)

\* RecoverLogFile: each log fills one memtable again, which becomes a file of level 0.
Replayed(t) == t \o [i \in 1..Len(log) |-> NewTable(log[i])]

\* GarbageFilesClean: of the tables t, what the version fs does not hold is deleted.
OnlyFiles(t, fs) ==
  LET live == UNION {ToSet(fs[l]) : l \in Levels}
  IN  [f \in 1..Len(t) |-> IF f \in live THEN t[f] ELSE Gone]

\* The recovered files have new FileMetas.  logfile_number_ is the first log of the
\* session for as long as it lasts, so all its logs are replayed; those of earlier
\* sessions are not.  max_sequence is the number after the last one replayed.
Reopen ==
  LET kept == OnlyFiles(table, files_)
      fresh == [f \in 1..Len(table) |-> IF kept[f] = Gone THEN Gone ELSE [kept[f] EXCEPT !.allow_seeks = AllowSeeks]]
      t == Replayed(fresh)
      added == (Len(table) + 1)..Len(t)
  IN  /\ sessions < MaxSessions /\ last_sequence_ < MaxSeq
      /\ sessions' = sessions + 1
      /\ table' = t
      /\ files_' = NextFiles(t, [NoFiles EXCEPT ![0] = added], NoFiles)
      /\ file_to_compact_' = NoSeek
      /\ gets' = [r \in Readers |-> NoGet]
      /\ last_sequence_' = IF log = <<>> THEN last_sequence_ ELSE last_sequence_ + 1
      /\ log' = <<>> /\ flushed' = 0
      /\ bg' = "idle" /\ m' = NoMerge
      /\ UNCHANGED compactor_pointer_

----------------------------------------------------------------------------
(* VersionSet::PickCompaction.                                             *)

\* A level's score is the fraction n / d; that of level 0 is an integer division.
Score(level) == IF level = 0 THEN [n |-> Len(files_[0]) \div L0Threshold, d |-> 1]
                ELSE [n |-> TotalFileSize(ToSet(files_[level])), d |-> LevelMaxSize(level)]

\* EvalCompactionScore: the first level with the highest score.
CompactionLevel ==
  CHOOSE l \in Levels :
    /\ \A k \in Levels : Score(k).n * Score(l).d <= Score(l).n * Score(k).d
    /\ \A k \in 0..(l - 1) : Score(k).n * Score(l).d < Score(l).n * Score(k).d

SizeCompaction == Score(CompactionLevel).n >= Score(CompactionLevel).d

\* GetRange as it is written: the greatest of the smallest keys, the least of the
\* largest keys, which is the range all the files have in common.
GetRange(fs) == [smallest |-> LastKey({table[f].smallest : f \in fs}),
                 largest |-> FirstKey({table[f].largest : f \in fs})]

Overlaps(f, lo, hi) == table[f].smallest.u <= hi /\ table[f].largest.u >= lo

\* A plausible slip: level 0 is treated like the other levels.
OverlappingOnce(level, range) ==
  {f \in ToSet(files_[level]) : Overlaps(f, range.smallest.u, range.largest.u)}

\* The ranges around range that no file of the level reaches out of.
ClosedRanges(level, range) ==
  {r \in (UserKeys \X UserKeys) :
     /\ r[1] <= range.smallest.u /\ r[2] >= range.largest.u
     /\ \A f \in ToSet(files_[level]) : Overlaps(f, r[1], r[2]) =>
          table[f].smallest.u >= r[1] /\ table[f].largest.u <= r[2]}

\* GetOverlappingFiles: at level 0 a file that reaches out of the range widens it and
\* starts the search again, until the range is the least one no file reaches out of.
\* The files are a set here; the code's vectors keep the order of files_.
GetOverlappingFiles(level, range) ==
  LET lo == IF level = 0 THEN Max({r[1] : r \in ClosedRanges(level, range)}) ELSE range.smallest.u
      hi == IF level = 0 THEN Min({r[2] : r \in ClosedRanges(level, range)}) ELSE range.largest.u
  IN  {f \in ToSet(files_[level]) : Overlaps(f, lo, hi)}

\* AddBoundaryInputs: with the files that continue the user key of the largest key.
\* The code takes that key from all the level's files, not from inputs.
AddBoundaryInputs(fs, inputs) ==
  LET last == LastKey({table[f].largest : f \in fs})
  IN  IF fs = {} THEN inputs
      ELSE inputs \cup {f \in fs : Less(last, table[f].largest) /\ table[f].largest.u = last.u}

\* The first file of a size compaction, after the end of the last one.
NextInLevel(level) ==
  LET i == SelectInSeq(files_[level], LAMBDA f : \/ compactor_pointer_[level] = NoKey
                                                 \/ Less(compactor_pointer_[level], table[f].largest))
  IN  files_[level][IF i = 0 THEN 1 ELSE i]

\* The inputs grown from the first file, with the grandparents and the key at which the
\* next compaction of the level starts.
Grow(level, first) ==
  LET own(range) == AddBoundaryInputs(ToSet(files_[level]), GetOverlappingFiles(level, range))
      below(range) == AddBoundaryInputs(ToSet(files_[level + 1]), GetOverlappingFiles(level + 1, range))
      input0 == IF level = 0 THEN own(GetRange({first}))
                ELSE AddBoundaryInputs(ToSet(files_[level]), {first})
      input1 == below(GetRange(input0))
      expand0 == own(GetRange(input0 \cup input1))
      expand1 == below(GetRange(expand0))
      grown == /\ input1 # {}
               /\ TotalFileSize(expand0) > TotalFileSize(input0)
               /\ TotalFileSize(expand0) < ExpandLimit
               /\ Cardinality(expand1) = Cardinality(input1)
      inputs == IF grown THEN <<expand0, expand1>> ELSE <<input0, input1>>
  IN  [level |-> level, inputs |-> inputs, pointer |-> GetRange(inputs[1]).largest,
       grandparents |-> IF level + 2 < NumLevels
                        THEN SaveTo(table, GetOverlappingFiles(level + 2, GetRange(inputs[1] \cup inputs[2])))
                        ELSE <<>>]

PickCompaction ==
  IF SizeCompaction THEN Grow(CompactionLevel, NextInLevel(CompactionLevel))
  ELSE Grow(file_to_compact_.level, file_to_compact_.file)

NeedCompaction == SizeCompaction \/ file_to_compact_ # NoSeek

\* PickCompaction's assertion on the level of a size compaction.
LevelTooDeep == SizeCompaction /\ CompactionLevel > L0Threshold

----------------------------------------------------------------------------
(* DBImpl::BackgroundCompaction.                                           *)

SingalMove(c) ==
  /\ Cardinality(c.inputs[1]) = 1 /\ c.inputs[2] = {}
  /\ TotalFileSize(ToSet(c.grandparents)) < OverlapLimit

\* An iterator is what it has still to return, file by file.  MakeMergedIterator has one
\* for each file of level 0, and one for all the files of a deeper level.
MergedList(c) ==
  LET files(fs) == SaveTo(table, fs)
      all(fs) == [i \in 1..Len(files(fs)) |-> table[files(fs)[i]].data]
      upper == IF c.level = 0 THEN [i \in 1..Len(files(c.inputs[1])) |-> <<all(c.inputs[1])[i]>>]
               ELSE <<all(c.inputs[1])>>
  IN  upper \o (IF c.inputs[2] = {} THEN <<>> ELSE <<all(c.inputs[2])>>)

\* The file is deleted from its level and added to the next one as a new FileMeta.
MoveFile(c) ==
  LET f == CHOOSE g \in c.inputs[1] : TRUE
      t == [table EXCEPT ![f].allow_seeks = AllowSeeks]
  IN  /\ SingalMove(c)
      /\ table' = t
      /\ Install(t, [NoFiles EXCEPT ![c.level + 1] = {f}], [NoFiles EXCEPT ![c.level] = {f}],
                 [compactor_pointer_ EXCEPT ![c.level] = c.pointer], "idle")
      /\ UNCHANGED <<logVars, m>>

StartMerge(c) ==
  /\ ~SingalMove(c)
  /\ bg' = "merge"
  /\ m' = [c |-> c, base |-> files_, list |-> MergedList(c),
           last_user_key |-> 0, index |-> 1, overlap |-> 0, seen_key |-> FALSE,
           outputs |-> <<>>, building |-> FALSE, hidden |-> {}]
  /\ UNCHANGED <<table, files_, compactor_pointer_, file_to_compact_, gets, logVars>>

\* A memtable that waits goes first; of two, one is imm_.
MayPick == bg = "idle" /\ Len(log) - flushed < 2 /\ NeedCompaction

BackgroundCompaction ==
  /\ MayPick /\ ~LevelTooDeep
  /\ LET c == PickCompaction IN MoveFile(c) \/ StartMerge(c)

PickAborts ==
  /\ MayPick /\ LevelTooDeep
  /\ bg' = "level"
  /\ UNCHANGED <<table, files_, compactor_pointer_, file_to_compact_, gets, logVars, m>>

----------------------------------------------------------------------------
(* DBImpl::DoCompactionLevel, one entry at a time.                         *)

\* A plausible slip: the first iterator that is not at its end.
FindAny(list) == SelectInSeq(list, LAMBDA it : it # <<>>)

\* MergedIterator::FindSmallest: the iterator at the least key, 0 when all are at the end.
FindSmallest(list) ==
  SelectInSeq(list, LAMBDA it : /\ it # <<>>
                                /\ \A i \in 1..Len(list) : list[i] # <<>> => ~Less(list[i][1][1], it[1][1]))

\* Next of an iterator: the file's next entry, or the next file.
Advance(it) == IF Len(it[1]) = 1 THEN Tail(it) ELSE [it EXCEPT ![1] = Tail(@)]

\* StopBefore: the grandparents passed by now, and whether the output overlaps too many.
Passed(key) ==
  LET past(i) == Less(table[m.c.grandparents[i]].largest, key)
      n == Len(m.c.grandparents)
      index == CHOOSE i \in m.index..(n + 1) : (i <= n => ~past(i)) /\ \A j \in m.index..(i - 1) : past(j)
      overlap == m.overlap + IF m.seen_key THEN TotalFileSize({m.c.grandparents[i] : i \in m.index..(index - 1)}) ELSE 0
  IN  [index |-> index, overlap |-> IF overlap > OverlapLimit THEN 0 ELSE overlap,
       stop |-> overlap > OverlapLimit]

IsBaseLevelForKey(k) ==
  \A l \in (m.c.level + 2)..(NumLevels - 1) : \A f \in ToSet(m.base[l]) : ~Covers(f, k)

\* The entry counts as hidden when its user key differs from the one before it.
Hidden(key) == m.last_user_key # key.u

Drop(key) == Hidden(key) \/ (key.t = "del" /\ IsBaseLevelForKey(key.u))

\* A plausible slip: the largest key stays the first one.
AddOnlyFirst(f, key) == [f EXCEPT !.data = Append(@, key)]

\* builder->Add, with the bounds of CurrOutput().
AddEntry(f, key) == [f EXCEPT !.data = Append(@, key), !.largest = key]

OpenCompactionSSTable(key) == [NewTable(<<key>>) EXCEPT !.data = <<>>]

\* SSTableBuilder::Add asserts that a key is greater than the last one of its file.
Refused(key) ==
  /\ ~Drop(key) /\ m.building /\ ~Passed(key).stop
  /\ ~Less(Last(table[Last(m.outputs)].data), key)

NextKey == m.list[FindSmallest(m.list)][1][1]

AddAborts ==
  /\ bg = "merge" /\ FindSmallest(m.list) # 0
  /\ Refused(NextKey)
  /\ bg' = "order"
  /\ UNCHANGED <<table, files_, compactor_pointer_, file_to_compact_, gets, logVars, m>>

MergeEntry ==
  /\ bg = "merge" /\ FindSmallest(m.list) # 0
  /\ ~Refused(NextKey)
  /\ LET i == FindSmallest(m.list)
         key == m.list[i][1][1]
         p == Passed(key)
         append == m.building /\ ~p.stop
         t == IF append THEN table ELSE Append(table, OpenCompactionSSTable(key))
         f == IF append THEN Last(m.outputs) ELSE Len(t)
         written == [t EXCEPT ![f] = AddEntry(t[f], key)]
         after == [m EXCEPT !.list[i] = Advance(@), !.last_user_key = key.u, !.index = p.index,
                            !.overlap = p.overlap, !.seen_key = TRUE,
                            !.hidden = @ \cup {k \in {key} : Hidden(key)}]
     IN  IF Drop(key)
         THEN m' = [after EXCEPT !.building = append] /\ UNCHANGED table
         ELSE /\ m' = [after EXCEPT !.outputs = IF append THEN @ ELSE Append(@, f),
                                    !.building = Len(written[f].data) < MaxFileSize]
              /\ table' = written
  /\ UNCHANGED <<files_, compactor_pointer_, file_to_compact_, gets, logVars, bg>>

AddInputDeletions(c) ==
  [NoFiles EXCEPT ![c.level] = c.inputs[1], ![c.level + 1] = c.inputs[2]]

\* LogCompactionResult, CleanCompaction, GarbageFilesClean.
InstallMerge ==
  /\ bg = "merge" /\ FindSmallest(m.list) = 0
  /\ LET added == [NoFiles EXCEPT ![m.c.level + 1] = ToSet(m.outputs)]
     IN  /\ Install(table, added, AddInputDeletions(m.c),
                    [compactor_pointer_ EXCEPT ![m.c.level] = m.c.pointer], "idle")
         /\ table' = OnlyFiles(table, files_')
  /\ m' = NoMerge
  /\ UNCHANGED logVars

\* The database is closed, or an output cannot be written: nothing is installed.
FailMerge ==
  /\ bg = "merge"
  /\ bg' = "error" /\ m' = NoMerge
  /\ table' = OnlyFiles(table, files_)
  /\ UNCHANGED <<files_, compactor_pointer_, file_to_compact_, gets, logVars>>

----------------------------------------------------------------------------

\* DB::Open of a new database.
Init ==
  /\ table = <<>>
  /\ files_ = [l \in Levels |-> <<>>]
  /\ compactor_pointer_ = [l \in Levels |-> NoKey]
  /\ file_to_compact_ = NoSeek
  /\ gets = [r \in Readers |-> NoGet]
  /\ log = <<>> /\ flushed = 0
  /\ last_sequence_ = 0
  /\ sessions = 1
  /\ bg = "idle" /\ m = NoMerge

Ops == [u : Writable, t : {"put"}]
         \cup [u : IF Deletes < MaxDeletes THEN Deletable ELSE {}, t : {"del"}]

Next ==
  \/ \E n \in FlushSizes : \E ops \in [1..n -> Ops] : Write(ops)
  \/ Flush
  \/ \E r \in Readers : (\E k \in UserKeys : SearchVersion(r, k)) \/ UpdateStats(r)
  \/ BackgroundCompaction
  \/ PickAborts
  \/ MergeEntry
  \/ AddAborts
  \/ InstallMerge
  \/ FailMerge
  \/ Reopen

Spec == Init /\ [][Next]_vars

----------------------------------------------------------------------------
(* Properties.                                                             *)

Live == UNION {ToSet(files_[l]) : l \in Levels}
Outputs == IF bg = "merge" THEN ToSet(m.outputs) ELSE {}
Entries(fs) == UNION {ToSet(table[f].data) : f \in fs}

\* Every file of the version, and every output of a running merge, holds its entries in
\* strictly ascending order of internal keys between bounds that are its first and its
\* last entry, and a merge's outputs follow each other, but for an entry that is there
\* twice: the merging iterator loses the order of none of its inputs, and the meta data
\* installed describes the data.
FilesWellFormed ==
  /\ \A f \in Live \cup Outputs :
       LET d == table[f].data
       IN  /\ d # <<>>
           /\ \A i \in 1..(Len(d) - 1) : Less(d[i], d[i + 1])
           /\ table[f].smallest = d[1] /\ table[f].largest = d[Len(d)]
  /\ bg = "merge" =>
       \A i \in 1..(Len(m.outputs) - 1) :
         ~Less(table[m.outputs[i + 1]].smallest, table[m.outputs[i]].largest)

\* When level 0 has a user key, what it holds of the key is at least as new as anything a
\* deeper level holds of it: the inputs of a compaction of level 0 are closed under
\* overlap, whatever is flushed while it runs, and a reopen replays the newest entry with
\* the older ones.  Get searches level 0 first and relies on it.
Level0Newest ==
  \A g \in Live \ ToSet(files_[0]) : \A b \in ToSet(table[g].data) :
    (\E f \in ToSet(files_[0]) : Holds(f, b.u)) =>
      \E a \in Entries(ToSet(files_[0])) : a.u = b.u /\ a.s >= b.s

\* A merge stops at the assertion of SSTableBuilder::Add only for an entry that it has
\* just written and that a reopen had replayed into a second file: the merged iterator
\* never goes back, whatever the files overlap.
OnlyRepeatsStop == bg = "order" => NextKey = Last(table[Last(m.outputs)].data)

\* Version::Get finds the newest entry of a user key in the first level that has one:
\* the file order at level 0, the binary search below it and user keys whose entries
\* are split over two files included.
GetFindsNewestOfLevel ==
  \A k \in UserKeys :
    LET having == {l \in Levels : \E f \in ToSet(files_[l]) : Holds(f, k)}
        top == {e \in Entries(ToSet(files_[Min(having)])) : e.u = k}
    IN  Get(k) = IF having = {} THEN NoKey ELSE CHOOSE e \in top : \A o \in top : o.s <= e.s

\* A file marked for a seek compaction is a file of the current version at its level, and
\* there is a level below it: PickCompaction indexes files_ with level + 1.
SeekCompactionInRange ==
  file_to_compact_ # NoSeek =>
    /\ file_to_compact_.level + 1 < NumLevels
    /\ file_to_compact_.file \in ToSet(files_[file_to_compact_.level])

\* What DoCompactionLevel says of the entries it drops ("hidden the lower sequence for
\* same key"): an entry dropped as hidden has a newer entry of its user key in the inputs.
DroppedIsHidden ==
  bg = "merge" =>
    \A e \in m.hidden : \E f \in m.c.inputs[1] \cup m.c.inputs[2] :
      \E o \in ToSet(table[f].data) : o.u = e.u /\ o.s > e.s

\* AddFile's assertion: the files of a level below level 0 do not overlap when a version
\* is installed.
LevelsDisjoint == bg # "overlap"
=============================================================================
