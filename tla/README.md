# A TLA+ development for xdb

xdb is a key-value store built as a log-structured merge tree (`src/xdb/src`).
This directory holds TLA+ modules that model it, TLC configurations that check
them on small instances, and TLAPS proofs for every size. Paths below are
relative to `src/xdb/src`.

## 1. The system

A write goes into a log and a memtable (a skip list). A full memtable becomes
immutable and is flushed into a level-0 SSTable; compactions merge SSTables into
deeper levels. A *version* is the set of SSTables that make up the database at
some moment; every change of it is an *edit* appended to the meta log. One mutex
`mu_` protects all of it, and is released around I/O.

| Component | Code | State | Operations | What makes it correct |
|---|---|---|---|---|
| Write path | `db/dbimpl.cc` Write, MergeBatchGroup; `db/writebatch` | `writers_`, one `Writer` with a condition variable per call, `tmp_batch_`, `log_`, `mem_`, `last_sequence_` | Write, Put, Delete | one leader at a time in the unlocked region; no lost wakeup; unique, monotone sequence numbers; an acknowledged write is applied, and durable if it asked for sync |
| Background scheduling | `db/dbimpl.cc` MakeRoomForWrite, MayScheduleCompaction, BackgroundCompactionCall, CompactionMemtable, DoCompactionLevel, destructor; `util/env.cc` Schedule | `background_scheduled_`, `background_status_`, `background_cv_`, `imm_`, `closed_`, the work queue | switch memtable, schedule, flush, compact, close | one job at a time; a waiting writer waits for a job that exists; no memtable is lost; close waits for the last job |
| Versions and files | `db/version/version.cc`, `version.h`; `db/dbimpl.cc` Get, WriteLevel0SSTable, GarbageFilesClean, OpenCompactionSSTable, CleanCompaction | list of `Version`s with `refs_`, `current_`, `files_writing_`, `next_file_number_`, SSTable files, the meta log | Get, LogAndApply, AppendVersion, GarbageFilesClean | what a reader holds stays alive and complete; live and logged files are on disk; no version leaks |
| Compaction picking | `db/version/version.cc` PickCompaction, GetRange, GetOverlappingFiles | key ranges per level, `compactor_pointer_` | pick inputs | levels above 0 stay disjoint; inputs are closed under overlap |
| Compaction merge | `db/dbimpl.cc` DoCompactionLevel; `db/version/merge.cc` | current user key, output builder | merge, drop, cut | the newest entry of each key survives |
| Recovery | `db/dbimpl.cc` Recover, RecoverLogFile, Initialize; VersionSet::Recover | logs, meta logs, CURRENT | open, replay | every synced write is found again, the newest first |
| Log format | `db/log` | block offset, fragments | AddRecord, ReadRecord | the reader returns the intact records, in order, wherever the file was cut |
| Memtable | `db/memtable` | skip list nodes | Put, Get | a reader never misses a published node |
| Caches | `util/cache.cc`, `db/sstable/table_cache.cc` | handle table, LRU and in-use lists, reference counts | Lookup, Insert, Release, Erase | a held table stays open, an unheld and unlisted one is closed once |
| SSTable and filter | `db/sstable`, `db/filter`, `util/iterator.cc` | the blocks being built; an iterator's place | Add, Finish; Seek, Next, Prev, InternalGet | the table reads back as the sorted sequence that was added; the filter excludes no key that is there |
| Environment | `util/env.cc`, `util/file.h` | lock table, limiters, work queue | LockFile, Schedule, NewRamdomReadFile | one owner per directory; permits are returned |
| Encodings | `util/coding.cc`, `util/comparator.cc`, `db/format` | none | encode, decode, compare | decoding inverts encoding; separators lie between their neighbours |
| DestoryDB | `db/dbimpl.cc` | the directory | remove files | nothing of the database is left |

How they interact: `Write` calls `MakeRoomForWrite`, which waits on
`background_cv_` for the background thread; the background thread is started by
`Env::Schedule` and calls back into `DBImpl`; `Get` takes references under `mu_`
and reads without it; `LogAndApply` and `WriteLevel0SSTable` release `mu_` in the
middle; a merge flushes a memtable from within its loop. The hard behaviours are
therefore interleavings around the places where `mu_` is released, wakeups,
errors half-way through (they end in the sticky `background_status_`), reference
counts, and what a crash finds on disk. `PROJECT.json` lists them as hazards at
their lines.

## 2. Modules

What runs under one holding of `mu_` is one action everywhere. File operations
are steps that may fail.

**WriteQueue** (`DBImpl::Write`, `MergeBatchGroup`). A thread is `idle`, `asleep`
on its own condition variable, `awake`, making `room`, or in the unlocked region
(`log`, `sync`, `insert`, `relock`). `Enter` and `Wake` are the entry and the
waiting loop; `StartGroup` merges the batches behind the leader as the code does
(it appends the *leader's* batch for each follower, dbimpl.cc:148); `AddRecord`,
`Sync` and `Insert` run without `mu_`, `Insert` one operation at a time so that
readers come in between; `Finish` publishes the sequence number, pops the group
and signals. `PassThrough` is a leader with a null batch. A batch is its size and
number of operations; an operation is a token.

**Background** (scheduling). Parties: the leading writer, `Get` asking for a
seek compaction, the background thread, and the destructor. A memtable is its
generation and fill; a version is its number of level-0 files and the number of
compactions deeper levels ask for. `Stall`, `HaveRoom` and `SwitchMemtable` are
the branches of `MakeRoomForWrite`; `TakeJob` to `CompactionApplied` are the
background job cut where it releases `mu_`, with `nested_*` for the flush inside
a merge; `Close` and `CloseWakes` are the destructor's loop. Errors can strike
the log, the sync, the SSTable, the merge and the meta log.

**VersionSet** (versions, memtables, files). A version is a set of file numbers
with a reference count; a file holds *sources*: memtables of this session and,
negated, recovered files. `GetStarts` and `GetEnds` are the two locked parts of
`Get`; `LogAndApplyStarts` and `LogAndApplySucceeds`/`Fails` the two of
`LogAndApply`; `FlushStarts`, `FlushBuilt`, `FlushInstalled` those of
`CompactionMemtable`; `CompactionStarts` (with the single-file move),
`OpenCompactionSSTable`, `MergeFails`, `MergeEnds`, `CompactionInstalled` those
of a compaction; `GarbageFilesClean` is part of the actions whose code calls it.
`named` is what the meta log may name: a failed write of it leaves both outcomes
open. Which entries a merge keeps is not this module's subject: its outputs count
as holding all the sources it read (`dropped` if it wrote none). A `Version`
object may be reused once freed, as an allocator would.

**Compaction** (`version.cc`, `merge.cc`, `DoCompactionLevel`). An entry is its
internal key; a file has bounds, entries and seeks left; a version is a sequence
of file numbers per level. `Write` fills a memtable, which has a log of its own;
`Flush` makes it a level-0 file, also while a merge runs. `SearchVersion` is a `Get`
that will have to charge a seek, `UpdateStats` the charge, made when the lock is held
again and perhaps to a version that has been replaced meanwhile. `BackgroundCompaction`
scores the levels and picks inputs (`PickCompaction`, `GetRange`, `GetOverlappingFiles`,
`AddBoundaryInputs`, `Grow` as the code computes them), then moves a single file
or starts a merge; `MergeEntry` is one turn of the loop (`StopBefore`, `Drop`, cut
by size); `InstallMerge` sorts and installs; `FailMerge` gives up. `Reopen` ends the
process, at any moment, and opens the database again: all the logs of the session are
replayed into level 0, those of flushed memtables too, since `logfile_number_` stays
that of the session's first log; an entry is then in several files. The build is a
debug build (`xdb/CMakeLists.txt:3`), so a failing assertion ends the process: that of
`Builder::AddFile` (`bg` = "overlap"), of `SSTableBuilder::Add` ("order", action
`AddAborts`) and of `PickCompaction` ("level", action `PickAborts`). Inputs are
sets, since the code's vectors keep the order of the version's files; an iterator is
what it has still to return, file by file; the binary search in `FindFile` is
unrolled turn by turn.

**Recovery** (`DB::Open`, `Recover`, `LogAndApply` on disk). State: CURRENT, meta
files, logs and SSTables with how much of each is synced, and the process. `Open`
is `Start`, `Initialize`, `SetFirstCurrent`, `VersionSetRecover`, `ReplayRecords`
and `NextLog`, `NewLog`; `LogAndApply` is `AddRecord`, `SyncRecord`, `SetCurrent`,
`Install`; an open database writes, switches memtables, flushes and compacts.
`CrashProcess` keeps what the operating system has, `PowerLoss` the synced part
and any amount of the rest, between any two steps, the steps of a recovery
included. The logs still to be replayed are a set; `NextToReplay` takes the oldest,
as the sorted vector in `Recover` does. All writes are to one user key. A compaction
drops one copy of the newest entry, as the merge does (finding 3), and where an entry
would be added twice it is not completed: `SSTableBuilder::Add` ends the process.

**MemTable** (`skiplist.h`, `memtable.cc`). One step is one access to a shared
pointer. The writer walks, chooses a height and links level by level from the
bottom; readers walk at the same time and may see any height the list ever had.
**SnapshotRead** is what `Get` relies on: the newest entry of the key among the
published ones.

**LRUCache** (`cache.cc`) is the cache as operators on a record: handle table with
chains (as sets: a key is in a chain once) and resizing, the two lists, reference
counts, eviction of the oldest handle nobody uses until the cache fits. **TableCache**
(`table_cache.cc`, `env.cc`, `file.h`) has threads that look up, open, map or
pread, insert and release, with the two-step `Limiter::Acquire`, refused opens,
`Evict`, and a destroyed and reopened table cache. **Cache** is the contract of
`include/cache.h`.

**LogFormat** (`log_writer.cc`, `log_reader.cc`). A file is a sequence of cells:
padding, header cells, payload bytes. `AddRecord`/`WriteFragment` write; a flush that
fails leaves any part of the padding, header and bytes it was given, or nothing, and
drops the rest. `Cut` and `Damage` are what a crash or the disk did;
`ReadFragment` is the reader.

**SSTable** (`db/sstable`, `db/filter`, `util/iterator.cc`). `Add` and `Finish`
build data blocks with restart points and shared prefixes, the index with
shortened separators, and the filter block; `Iter*` are the calls on the two level
iterator; `InternalGet` is the point lookup. The Bloom filter's hash is a
constant of a few bits (external to the algorithm). **OrderedTable** is the
abstract cursor over a sorted sequence. **Files** joins LogFormat and SSTable for
one run: a behaviour is the life of one file of either kind.

`MC*` modules give TLC its instances; Background, Compaction, Recovery and
MemTable need none. The modules `*_proofs` hold the proofs; those of LRUCache are in
`TableCache_proofs`.

The modules are layered by assumption: WriteQueue lets one thread into
`MakeRoomForWrite`, which Background takes as its one writer (`SingleLeader`), and
into the memtable, which MemTable takes as its one inserter; Background keeps one
job at a time, which VersionSet and Compaction take as their one background
thread (`OneJobAtMost`); WriteQueue's fairness assumes that `MakeRoomForWrite`
returns, which is Background's `WriterGetsRoom`; VersionSet keeps a file in place
while a `Get` reads it, which TableCache and SSTable take for granted; Recovery
takes a log whose end is cut to read as its whole records, which is LogFormat's
`LogReadsBack`.

Refinements, checked by TLC, the first two also proved: TableCache implements Cache (`ImplementsCache`),
MemTable implements SnapshotRead (`ImplementsSnapshotRead`), SSTable implements
OrderedTable (`ImplementsOrderedTable`). The mappings are at the end of the
detailed modules.

## 3. Runs

| Run | Shows |
|---|---|
| `write_queue` | three threads, one call each, batches of one and two operations, null batches, both sync flags, all errors: all safety properties and `EveryWriteReturns` |
| `write_queue_ack` (violation) | an acknowledged follower's operations are nowhere: dbimpl.cc:148 |
| `background` | thresholds 2 and 3 for 4 and 12, four memtables, one pending deep compaction, merges of up to two keys, one seek compaction: safety, and that writer, flush and destructor get through |
| `background_open` (violation) | Open with as many level-0 files as stop writes: the first writer waits for a job nobody scheduled |
| `version_set` | two readers, a recovered file and an orphan whose number is given out again, three memtables, file numbers up to 5 |
| `compaction` | two user keys that are written and one between them that is only looked for, three levels, memtables of one or three entries, one deletion, a reader whose charge may be late, two sessions: files are well formed, level 0 has the newest entries, a merge stops only at an entry it meets twice, `Get` finds the newest entry of the first level that has the key, seek compactions are in range |
| `compaction_drop` (violation) | a merge drops the newest entry of a user key as hidden: dbimpl.cc:616 |
| `compaction_overlap` (violation) | the outputs of a merge overlap a file that was no input, and `AddFile`'s assertion fails: version.cc:604 |
| `recovery` | four writes, two crashes anywhere: the directory can always be opened, nothing durable is lost, sequence numbers are not reused, the newest entry is found, and opening ends |
| `memtable` | one reader against a writer of three entries on two user keys with three levels |
| `table_cache` | two threads, three tables in a cache of two, one chain, one mapping and one pread slot |
| `files` | log files of up to two blocks, tables of up to a few blocks, every order of calls on the iterator |

Properties, by hazard:

- *Write path.* `SingleLeader`, `TmpBatchEmptyBeforeMerge` (an assertion of the
  code), `NoLostWakeup`, `SequenceUnique`, `SnapshotStable`,
  `SyncedWhenAcknowledged`, `EveryWriteReturns`; `AcknowledgedIsApplied` fails.
- *Scheduling.* `OneJobAtMost`, `NoJobOutlivesDB`, `StalledImpliesScheduled`,
  `NoMemtableLost`, `WriterGetsRoom`, `ImmutableIsFlushed`, `CloseEnds`.
- *Versions.* `ViewAlive` and `ViewComplete` (a running `Get` keeps a complete
  and living view), `NeededFilesOnDisk` (files of the current version, of held
  versions, of a running merge and of any edit the meta log may hold are there),
  `NoVersionLeak` (the assertion in `~VersionSet`), `FreshNumbers`.
- *Compaction.* `FilesWellFormed`, `Level0Newest`, `OnlyRepeatsStop`,
  `GetFindsNewestOfLevel`, `SeekCompactionInRange`; `DroppedIsHidden` and
  `LevelsDisjoint` fail.
- *Recovery.* `Recoverable`, `NothingLost`, `SequenceCoversDisk`,
  `NewestIsFound`, `OpenSucceeds`. `NothingLost` leaves out what a compaction
  dropped, since `compaction_drop` shows that this can be anything.
- *Memtable.* `NoWildPointer`, `LevelsAreSortedSublists`,
  `ImplementsSnapshotRead`.
- *Table cache.* `CacheConsistent`, `LimitersExact`, `OpenTablesBounded`,
  `ImplementsCache`.
- *Files.* `LogReadsBack`, `LookupFinds`, `ImplementsOrderedTable`. `LogReadsBack`
  is about intact records only: it claims nothing of records written after an append
  failed, and does not exclude that a damaged record comes back without its middle.

Each property has a mutant in `PROJECT.json`: an operator named for a plausible
slip, kept next to the definition it would replace, under which TLC finds the
property violated.

**Bounds.** `MaxCalls` 1 with three threads gives groups of one, two and three,
followers refused for size and for sync, and a successor woken by a finished
group; a second call by a thread only repeats it. The group limits are scaled so
that one follower fits and another may not. In Background the scaled thresholds
keep their order (stop at or above trigger); `MaxGen` 4 lets a writer fill a
memtable while one is being flushed, stall and be released. `MaxEntries` 2 allows
a failed flush inside a merge to be retried, as the code does. In VersionSet
`Versions` is large enough to never run out (readers plus three); `MaxNumber` 5
allows a memtable switch, a merge with an output, and two flushes inside it.

Compaction: three levels are the fewest with a grandparent level, and then a
threshold of 1 is all `CompactionAssumption` allows. `MaxSeq` 5 with memtables of one
or three entries (`FlushSizes`) is the least in which level-0 files overlap in a chain
and a merge keeps an entry of them, and gives a move to level 1 and a merge that meets
it, with outputs cut by size (`MaxFileSize` 2) and by overlap (`OverlapLimit` 1); two
sessions give a reopen before, between and in the middle of these. The third user key
is never written (`Writable`): a `Get` of a key that a file's bounds cover and its
entries miss goes on to a second file and charges the first. The assertions of
`SSTableBuilder::Add` and `PickCompaction` fail in it (`AddAborts`, `PickAborts`). The configurations of the
violations differ where a shorter run to the violation needs it.
`ExpandLimit` is never reached, so `Grow` always
takes the wider inputs when it finds them. Recovery: `WriteMemSize` 1 fills a
memtable with two writes, so four writes give two logs, two flushes and a
compaction, and two crashes let a recovery itself be interrupted and repeated. A
merge that goes through with the newest entry in two of its files needs memtables of
one entry: that case is left to the proof.
MemTable: three nodes and three levels give an insertion between two nodes and
above the old height; a second reader changes nothing the first one sees.
TableCache: two threads give the race on a miss and on the last slot; five handles
are more than two threads and two cached tables need; `InitialBuckets` 1 makes the
handle table resize. Files: `BlockSize` 6 with headers of 2 leaves
4 bytes of payload per block, so records of 1 to 6 bytes fill a block exactly, leave
a rest smaller than a header that is padded, leave exactly a header, or go on in the
next block; `BlockBytes` 11 and `RestartInterval` 2
give tables of several blocks with several restart points, and `FilterBlockSize` 6
blocks that share a filter and blocks that span two.

Symmetry is used in VersionSet and TableCache only, whose properties are safety.
`CHECK_DEADLOCK FALSE` where the system may stop: threads may stop calling, a
closed database stops, an assertion may have failed, crashes are used up, or a
file has been read to its end.

**Fairness.** WriteQueue: weak fairness of each thread inside `Write` (a fair
scheduler, `mu_` held for finite times, I/O returns). Background: weak fairness
of the writer inside `Write`, of the background thread, and of the destructor
once woken. Recovery: weak fairness of the thread that opens the database or applies
an edit, since nothing it waits for depends on others; crashes are bounded. Nobody
is assumed to call `Write`, `Get` or the destructor.
Condition variables may wake spuriously, and no fairness is put on that.

## 4. Proofs

For every set of threads, batches, limits, thresholds and bounds (assumptions
`BatchAssumption`, `BackgroundAssumption`):

- `WriteQueue_proofs`: `Spec => []Inv` with `Inv` = types, `QueueInv` (a thread
  is in the queue once; queued writers are inside `Write` and not done; the front
  one is not asleep), `LeaderInv` (only the front leads; a finished follower has
  only to wake up), `GroupInv` (the last writer of the group stays in the queue,
  and a sync writer is only in the group of a sync leader), `MemInv` (entries are
  published or belong to the group being inserted), `SyncInv` (which record a
  leader has synced at each point). `SingleLeader` alone is not inductive: it
  needs that a queue position belongs to one thread, and that nobody pops the
  front while it is busy. All the safety properties of the run follow.
- `Background_proofs`: `RecoveredBelowLimit /\ Spec => []Inv`, with
  `WorkIsScheduled` (an immutable memtable or a level 0 at the limit is always
  covered by a job while there is no error and no close), `ClosingInv`, `WorkInv`
  (what a job works on exists; it removes no more level-0 files than there are)
  and `GenInv`. `StalledImpliesScheduled` is not inductive without
  `WorkIsScheduled`, and that one needs `StopNeedsCompaction`: the integer
  quotient of the score is at least 1 at the stop threshold. The hypothesis
  `RecoveredBelowLimit` is what DB::Open does not guarantee; without it the
  theorem is false, as run `background_open` shows.

- `VersionSet_proofs`: `Spec => []Inv` for any readers, sources, recovered files
  and bounds. `Inv` = types; `RefsInv` and `MemRefsInv` (the count of a version or
  memtable is the number of its holders: the version set, the readers, the
  compaction); `FilesInv` (files of versions and of the meta log are on disk, and
  the meta log names no others while nothing has failed); `FlushInv` and `CompInv`
  (what the background thread still knows after an unlock: the version it
  started from, its inputs, its outputs in `files_writing_`); `ViewInv` (the current
  view and every reader's reaches all sources). None of the properties is inductive
  alone: that a held version is alive needs exact counts, that garbage collection
  spares a file needs to know which references pin it. Counts change one holder at a
  time, so the proof is about the cardinality of a set that gains or loses one
  element. `Versions` has room for every reader and three more
  (`Cardinality(Versions) >= Cardinality(Readers) + 3`, which stands for an allocator
  that always finds memory): by pigeonhole one object is always free. The action
  property `FreshNumbers` follows from the same invariant.
- `MemTable_proofs`: `Spec => []IInv` for any number of entries, levels and readers.
  `ListInv` says level by level that a node's successor is the next linked node in
  key order, so that a level is a sorted sublist of the one below; `WriterInv` that
  `prev[]` is the place of the new node on every level the insertion has still to
  link; `ReaderInv` that a walk has passed only nodes before its key. Since a node is
  linked from the bottom, a walk that changes level in the middle of an insertion
  stays on linked nodes, which is what `NoWildPointer` needs. `GetReadsItsSnapshot`
  is the refinement: the mapped initial states and steps are those of SnapshotRead,
  since the entry the walk stops at is the greatest of its key up to the snapshot,
  published entries being linked on level 0.
- `TableCache_proofs`, first part: what Lookup, Insert, Release, Erase, the resizing of
  the handle table and eviction do to a cache whose chains, lists and counts agree.
  Loops are recursive functions; facts about them are proved by the least
  counterexample (a nonempty set of naturals has a least element).
- `TableCache_proofs`: `Spec => []IInv` for any threads, tables, capacity and limits.
  `IInv` = `CacheInv` (chains hold each cached key once; `in_use` and `lru` split the
  cached handles by reference count), `PcInv` (what a thread has in hand),
  `RefsAgree` (a reference for each thread that holds a handle and one for the
  cache), `FilesAgree` (a record has its file until the last reference goes),
  `MmapInv`, `PreadInv`, `FdsInv` (permits are those of open tables and of threads
  within `Acquire`), and the bound on cached tables. The limiters are exact only
  because a file is closed exactly when its last reference goes, hence `RefsAgree`.
  The bound is by pigeonhole: when eviction stops above the capacity every
  cached handle is used by a thread of its own. `CacheContractKept` proves the
  refinement of Cache for `Capacity > 0`; with 0 the code's Insert binds nothing, and
  the contract does not hold.
- `Recovery_proofs`: `Spec => []IInv` for any memtable size, compaction threshold and
  bounds, through any number of process crashes and power losses in any places
  (`RecoveryAssumption`). A version is `Sound` when `DB::Open` could start from it: its
  numbers are in order, its files exist and hold entries its last sequence covers, its
  logs ascend, and files and logs together hold what was acknowledged. `IInv` says that
  three kinds of version are sound: each meta state a crash may leave behind CURRENT
  (`DiskInv`), the version in memory (`VersionInv`) and the one the running
  `LogAndApply` is making (`ApplyInv`). None of the properties is inductive without the
  last two: a crash makes a state of the first kind the version in memory, and
  `AddRecord` and `SetCurrent` make the third a state of the first kind. In the middle
  of `Recover`, `ReplayInv` splits the records of the kept logs into those read, which
  are in the new SSTables, and those of the logs left. `UpInv` relates the memtables of
  an open database to its logs and files. `NewestIsFound` needs `Ordered`, which a cut
  log destroys: the top level-0 file has the newest entry of the files (`Layered`), and
  a kept log that has records has one as new as all the files (`Covered`), so that
  replaying a log flushed long ago into a file with a higher number hides nothing.

- `Compaction_proofs`: `Spec => []IInv` for any user keys, levels, limits, readers,
  sessions and bounds with `L0Threshold <= NumLevels - 2` (`CompactionAssumption`), as
  the program's 4 and 7 are; without it a size compaction of the last level would be
  picked, which has no level below it. `VersionInv` says that the files
  of the version are well formed, that entries with the same sequence number are the same
  entry, in however many files it is,
  that the files of a level below level 0 are spread, and that level 0, when it has a
  user key, has an entry of it as new as any below, and likewise newer level-0 files
  against older ones. `LogInv` says the same of the session's logs against all the
  files: a log may be replayed long after it was flushed and compacted, but the logs
  are replayed together, in their order, and hold an entry as new as any on disk of each
  user key they have, so that a reopen cannot put an old entry on top.
  `MergeInv` says of a running merge that its inputs are files of the version, at level
  0 with nothing older left behind; that what its iterators have still to return
  comes from the inputs and ascends; and that what it has written also comes from the
  inputs and is not after anything that is left. `SeekInv` is about the marked file, and
  `GetsInv` about the charges to come: one to the current version is to a file of it, one
  to an old version can mark nothing. None of the properties
  is inductive alone: that an output ascends needs the order of the iterators, that
  level 0 stays newest after an installation needs both that the outputs hold nothing but
  the inputs' entries and that the inputs were closed under overlap when they were
  picked (`Level0Closed`), also for what was flushed since. An entry that a merge meets
  again is equal to the last one written, never less, which is `AlwaysOnlyRepeatsStop`:
  a replayed log is the only way to fail the assertion of `SSTableBuilder::Add`. Where the files would
  overlap, `AddFile`'s assertion stops the process and the old version stays, which is
  why spread levels survive finding 4. The lemmas prove the model's algorithms for
  every input: sorting (`Sorted`), the binary search (`FindFileIs`), the search for the
  level with the highest score, the closure under overlap (`OverlappingIs`), the merging
  iterator (`FindSmallestIs`, `AdvanceIs`), and that `AddBoundaryInputs` never adds a
  file (`NoBoundary`). `GetFindsNewestOfLevel` follows without a further
  invariant: when a user key is split over two files of a level, the binary search stops
  at the first, whose last entry is then the newest of that key at the level
  (`SearchFinds`).

- `LogFormat_proofs`: `LogSpec => []IInv` for any block size above the header size,
  records and files of any length (`LogAssumption`). The sound part of a file ends where
  it was cut or an append failed. `FileInv` says of it that a header is at every block
  start (`Starts`) and behind every fragment that leaves room for one (`Follows`), that
  no fragment crosses a block, that its bytes are behind it, and that a fragment which is
  not the first of its record goes on where the header before it ends (`HasFirst`).
  `WriterInv` says that `block_offset_` is the place in the file until an append fails.
  `ReaderInv` has the reader at a header whenever what is left in its buffer has room for one
  (`PlaceAt`), the intact records before it among the returned ones (`RecordsAt`), and the
  bytes before the next header in `buffer` if that header continues an intact record
  (`BufferAt`). `LogReadsBack` needs all three: after a bad fragment the reader drops the
  rest of the block and goes on at the next block start, where the file has a header;
  what it has collected may then be stale, and the next fragment is joined to it only
  when its record had a header among the dropped bytes, so is not intact. A failed append,
  which may have written any part of its bytes, leaves `block_offset_` wrong, so nothing is claimed of where later headers are:
  `RecordsAt` needs only that their records come later.

Only model-checked: liveness (`EveryWriteReturns`, `WriterGetsRoom`,
`ImmutableIsFlushed`, `CloseEnds`, `OpenSucceeds`; fairness and ENABLED are beyond
the prover); what the pure algorithms of SSTable compute (`LookupFinds`,
`ImplementsOrderedTable`), which needs induction over byte sequences.

## 5. Findings

1. dbimpl.cc:148 merges the leader's batch instead of the follower's: with two
   concurrent writers an acknowledged write is lost and the leader's is applied
   twice (`write_queue_ack`).
2. DB::Open does not schedule a compaction: a database reopened with 12 or more
   level-0 files stops its first writer for ever unless a `Get` happens to ask
   for a compaction (`background_open`). Logs are replayed into at least one
   level-0 file each, and all logs of a session are replayed because
   `logfile_number_` is not updated when the log is switched.

3. DoCompactionLevel marks the *first* entry of each user key as hidden
   (dbimpl.cc:616-629): a merge drops the newest entry and keeps the older ones
   (`compaction_drop`).
4. GetRange compares the wrong way round (version.cc:604): files of the next
   level that overlap the inputs are left out, and the assertion on disjoint
   levels at version.cc:305 fails when the result is installed
   (`compaction_overlap`).

Met while modelling, and not the subject of a run of their own:

- MakeRoomForWrite does not update `logfile_number_` (dbimpl.cc:322-341), so a
  reopen replays logs whose memtables are in SSTables already (dbimpl.cc:369). A merge
  of both copies adds an entry twice and fails the assertion at sstable_builder.cc:117.
  Run `compaction` reaches it (`AddAborts`); `OnlyRepeatsStop` says that nothing else
  does.
- PickCompaction asserts that a size compaction's level is at most the *file count*
  that triggers compactions of level 0 (version.cc:710): with 7 levels and a
  threshold of 4 a size compaction of level 5 fails it. Run `compaction` reaches the
  assertion with 3 levels and a threshold of 1 (`PickAborts`).
- AddBoundaryInputs (version.cc:664) never adds a file. A user key split over two
  files of a level can be compacted in two parts, leaving an older entry above a
  newer one. `GetFindsNewestOfLevel` therefore speaks of the first level that has
  the key.
- After a power loss the replayed, cut log of an earlier memtable becomes the
  newest level-0 file and can shadow a newer flushed entry; `NewestIsFound` holds
  when no log was cut.
- The log record of an empty batch fails the assertion at writebatch.cc:15 when it
  is replayed.
- After a failed append `block_offset_` no longer is the place in the file
  (log_writer.cc:82), so records written and acknowledged later may be unreadable.
- A bad middle fragment does not clear what was collected (log_reader.cc:51), so
  the first and last fragment of one record can be joined without it.
- The footer stores the handle of the filter block where the reader expects that
  of the filter's index (sstable_builder.cc:240), so filters are never used; the
  model checks the filter against the blocks as if it were.
- `check_crc` compares a checksum over the contents with one over the contents and
  the type byte, so a reader that asks for it always sees a mismatch; blocks are
  read without it (option.h:47).
- A PreadRamdomReadFile that is refused a slot leaves its descriptor open
  (file.h:119); TableCache keeps count of it in `fds`.

## 6. Not modelled

- DestoryDB: file removals under the lock file, no state of its own. A crash in the
  middle of it leaves files that a later Open may replay.
- The lock file and its table (`env.cc` LockFile): one process per directory is
  assumed.
- Backward search in the skip list (FindLess, FindLast), which the program does not use, and
  the arena.
- Varints: modelled as exact. DecodeVarint64 is exact below 2^32 only
  (coding.cc:66), beyond the reach of the instances.
- Damaged SSTable blocks, compression (any smaller size), checksums' bytes.
- I/O errors in Recovery and Compaction (WriteQueue, Background and VersionSet
  have them), logging, `Status` texts, the test programs and vendored code.

## 7. Plan

1. An abstract key-value specification over WriteQueue, MemTable and VersionSet.
2. Proofs for SSTable, whose blocks would have to be built from recursive functions.
