----------------------------- MODULE Recovery -----------------------------
(***************************************************************************)
(* What survives a crash: DB::Open, DBImpl::Recover, VersionSet::Recover   *)
(* and LogAndApply, over the files of the database directory, with the     *)
(* writes, memtable switches, flushes and compactions that go on until the *)
(* next crash.                                                             *)
(*                                                                         *)
(* A file is what the operating system has of it; the part up to synced    *)
(* survives a power loss too.  Log appends are flushed to the operating    *)
(* system record by record, so a crash of the process alone loses nothing. *)
(* The reader takes a torn tail as the end of a file (module LogFormat).   *)
(* Creating, renaming and removing a file are taken to be durable.         *)
(*                                                                         *)
(* All writes are single operations on one user key, which is where the    *)
(* order of files matters most; an entry is its sequence number.  The      *)
(* temporary file of SetCurrentFile is left out: a crash before the rename *)
(* leaves one that nothing reads.  One failing call of several is covered  *)
(* by modules WriteQueue and VersionSet; here calls succeed or never end.  *)
(***************************************************************************)
EXTENDS Integers, SequencesExt, FiniteSetsExt

CONSTANTS
  L0Threshold,  \* config::KL0_CompactionThreshold
  WriteMemSize, \* Option::write_mem_size: a memtable with more entries is full
  MaxSeq,       \* bound: writes, over all sessions
  MaxCrashes    \* bound: crashes

ASSUME RecoveryAssumption ==
  /\ L0Threshold \in Nat /\ L0Threshold > 1   \* one file alone would be moved
  /\ WriteMemSize \in Nat
  /\ MaxSeq \in Nat
  /\ MaxCrashes \in Nat

VARIABLES
  \* the directory
  current,    \* the meta file CURRENT names, 0 when there is no CURRENT
  meta, log,  \* by number: the records of a meta file or log, and how many are synced
  sst,        \* by number: the entries of an SSTable
  \* the process
  pc,         \* where DB::Open is; "up" once it returned, "down" without a process
  vs,         \* log_number_, meta_file_number_, next_file_number_, last_sequence_, files_
  edit,       \* the edit being collected or applied
  todo,       \* the logs RecoverLogFile has still to read, and max_sequence
  mem, imm,   \* entries of the two memtables
  logfile,    \* the log being written
  apply,      \* where LogAndApply is, "none" when it is not running
  \* history
  acked,      \* writes acknowledged, without those a power loss took
  promised,   \* writes acknowledged after a sync
  dropped,    \* entries a compaction dropped
  cut,        \* a power loss has taken records
  crashes

disk == <<current, meta, log, sst>>
history == <<acked, promised, dropped, cut, crashes>>
process == <<pc, vs, edit, todo, mem, imm, logfile, apply>>
vars == <<disk, process, history>>

----------------------------------------------------------------------------
(* Files and edits.                                                        *)

With(f, n, x) == [k \in DOMAIN f \cup {n} |-> IF k = n THEN x ELSE f[k]]
Without(f, S) == [k \in DOMAIN f \ S |-> f[k]]
EmptyFile == [recs |-> <<>>, synced |-> 0]
Append1(file, r) == [file EXCEPT !.recs = Append(@, r)]

\* A plausible slip: the records are left to the operating system.
NotSynced(file) == file

\* WritableFile::Sync.
Synced(file) == [file EXCEPT !.synced = Len(file.recs)]

\* A VersionEdit; -1 is a field that is not set.
NoEdit == [log |-> -1, seq |-> -1, next |-> -1, added |-> {}, deleted |-> {}]
NoLogs == [logs |-> {}, at |-> 0, max |-> 0]
NoVersion == [log |-> 0, meta |-> 0, next |-> 0, seq |-> 0, files |-> {}]

\* Builder::Apply and the fields VersionSet::Recover takes from one record.
ApplyEdit(v, e) ==
  [log |-> IF e.log = -1 THEN v.log ELSE e.log,
   seq |-> IF e.seq = -1 THEN v.seq ELSE e.seq,
   next |-> IF e.next = -1 THEN v.next ELSE e.next,
   files |-> (v.files \ e.deleted) \cup e.added]

\* What the first k records say.
NothingRead == [log |-> -1, seq |-> -1, next |-> -1, files |-> {}]
StateAfter(recs, k) ==
  LET after[i \in 0..k] == IF i = 0 THEN NothingRead ELSE ApplyEdit(after[i - 1], recs[i])
  IN  after[k]

MetaState(n, k) == StateAfter(meta[n].recs, k)

Entries(fs) == UNION {sst[f[2]] : f \in fs}
Records(S) == UNION {ToSet(log[n].recs) : n \in S}

----------------------------------------------------------------------------
(* DB::Open.                                                               *)

Start ==
  /\ pc = "down"
  /\ pc' = IF current = 0 THEN "initialize" ELSE "recover"
  /\ UNCHANGED <<disk, history, vs, edit, todo, mem, imm, logfile, apply>>

\* A plausible slip: the record has no last sequence.
FirstEditShort == [NoEdit EXCEPT !.log = 0, !.next = 2]

FirstEdit == [NoEdit EXCEPT !.log = 0, !.seq = 0, !.next = 2]

\* DBImpl::Initialize up to the sync of the first meta file, then SetCurrentFile.
Initialize ==
  /\ pc = "initialize"
  /\ meta' = With(meta, 1, [recs |-> <<FirstEdit>>, synced |-> 1])
  /\ pc' = "set_current"
  /\ UNCHANGED <<current, log, sst, history, vs, edit, todo, mem, imm, logfile, apply>>

SetFirstCurrent ==
  /\ pc = "set_current"
  /\ current' = 1
  /\ pc' = "recover"
  /\ UNCHANGED <<meta, log, sst, history, vs, edit, todo, mem, imm, logfile, apply>>

\* A plausible slip: the log whose number the meta file records is taken as obsolete.
LogsAfter(min) == {n \in DOMAIN log : n > min}

\* The logs DBImpl::Recover finds in the directory that it replays.
LogsFrom(min) == {n \in DOMAIN log : n >= min}

\* A plausible slip: sorted the other way round.
NewestLog(logs) == Max(logs)

\* std::sort(log_numbers): the oldest of the logs that are left is next.
NextToReplay(logs) == Min(logs)

\* VersionSet::Recover, which fails when a field is missing or CURRENT names no file.
VersionSetRecover ==
  /\ pc = "recover"
  /\ current \in DOMAIN meta
  /\ LET v == MetaState(current, Len(meta[current].recs))
     IN  /\ -1 \notin {v.log, v.seq, v.next}
         /\ vs' = [log |-> v.log, meta |-> v.next, next |-> v.next + 1, seq |-> v.seq, files |-> v.files]
         /\ todo' = [logs |-> LogsFrom(v.log), at |-> 0, max |-> 0]
  /\ edit' = NoEdit
  /\ pc' = "replay"
  /\ UNCHANGED <<disk, history, mem, imm, logfile, apply>>

\* RecoverLogFile: the next records fill a memtable, which becomes a level-0 SSTable of
\* the edit.  max_sequence is the number after the last one.
ReplayRecords ==
  /\ pc = "replay" /\ todo.logs # {}
  /\ LET recs == log[NextToReplay(todo.logs)].recs
         end == Min({Len(recs), todo.at + WriteMemSize + 1})
     IN  /\ todo.at < end
         /\ sst' = With(sst, vs.next, ToSet(SubSeq(recs, todo.at + 1, end)))
         /\ todo' = [todo EXCEPT !.at = end, !.max = Max({@, recs[end] + 1})]
  /\ edit' = [edit EXCEPT !.added = @ \cup {<<0, vs.next>>}]
  /\ vs' = [vs EXCEPT !.next = @ + 1]
  /\ UNCHANGED <<current, meta, log, history, pc, mem, imm, logfile, apply>>

\* The log is read to its end; MarkFileNumberUsed.
NextLog ==
  /\ pc = "replay" /\ todo.logs # {}
  /\ LET n == NextToReplay(todo.logs)
     IN  /\ todo.at = Len(log[n].recs)
         /\ todo' = [todo EXCEPT !.logs = @ \ {n}, !.at = 0]
         /\ vs' = [vs EXCEPT !.next = Max({@, n + 1})]
  /\ UNCHANGED <<disk, history, pc, edit, mem, imm, logfile, apply>>

\* A plausible slip: the sequence number of the meta file is kept.
RecoveredFromMeta == vs.seq

\* SetLastSequence at the end of Recover.
RecoveredSequence == Max({vs.seq, todo.max})

\* LogAndApply up to the unlock: what is still to be set in the edit is set.
Prepared(e, v, log_number) ==
  [e EXCEPT !.log = log_number, !.seq = v.seq, !.next = v.next]

\* WriteSnapShot: the files of the version, without numbers.
Snapshot(v) == [NoEdit EXCEPT !.added = v.files]

\* Recover is done: the new log and memtable, and LogAndApply starts a new meta file.
NewLog ==
  /\ pc = "replay" /\ todo.logs = {}
  /\ LET v == [vs EXCEPT !.next = @ + 1, !.seq = RecoveredSequence]
     IN  /\ vs' = v
         /\ edit' = Prepared(edit, v, vs.next)
         /\ meta' = With(meta, vs.meta, [recs |-> <<Snapshot(vs)>>, synced |-> 0])
  /\ log' = With(log, vs.next, EmptyFile)
  /\ logfile' = vs.next
  /\ mem' = {} /\ imm' = {}
  /\ pc' = "log_and_apply"
  /\ apply' = "add"
  /\ todo' = NoLogs
  /\ UNCHANGED <<current, sst, history>>

----------------------------------------------------------------------------
(* VersionSet::LogAndApply, with the mutex released while it writes.       *)

AddRecord ==
  /\ apply = "add"
  /\ meta' = [meta EXCEPT ![vs.meta] = Append1(@, edit)]
  /\ apply' = "sync"
  /\ UNCHANGED <<current, log, sst, history, pc, vs, edit, todo, mem, imm, logfile>>

SyncRecord ==
  /\ apply = "sync"
  /\ meta' = [meta EXCEPT ![vs.meta] = Synced(@)]
  /\ apply' = IF pc = "up" THEN "install" ELSE "set_current"
  /\ UNCHANGED <<current, log, sst, history, pc, vs, edit, todo, mem, imm, logfile>>

\* SetCurrentFile of the meta file DB::Open writes.
SetCurrent ==
  /\ apply = "set_current"
  /\ current' = vs.meta
  /\ apply' = "install"
  /\ UNCHANGED <<meta, log, sst, history, pc, vs, edit, todo, mem, imm, logfile>>

\* AppendVersion; DB::Open returns.  After a flush or a compaction GarbageFilesClean
\* removes what is older than log_number_ and meta_file_number_ or in no version.
Install ==
  /\ apply = "install"
  /\ LET v == [vs EXCEPT !.files = (@ \ edit.deleted) \cup edit.added, !.log = edit.log]
     IN  /\ vs' = v
         /\ IF pc = "up"
            THEN /\ log' = Without(log, {n \in DOMAIN log : n < v.log})
                 /\ meta' = Without(meta, {n \in DOMAIN meta : n < v.meta})
                 /\ sst' = Without(sst, DOMAIN sst \ {f[2] : f \in v.files})
            ELSE UNCHANGED <<log, meta, sst>>
  /\ imm' = IF edit.deleted = {} THEN {} ELSE imm   \* only a compaction deletes files
  /\ apply' = "none" /\ edit' = NoEdit
  /\ pc' = "up"
  /\ UNCHANGED <<current, history, todo, mem, logfile>>

----------------------------------------------------------------------------
(* The open database.                                                      *)

\* DBImpl::Write of one operation, with and without option.sync, when there is room.
Write(sync) ==
  /\ pc = "up" /\ vs.seq < MaxSeq
  /\ Cardinality(mem) <= WriteMemSize
  /\ LET s == vs.seq + 1
         file == Append1(log[logfile], s)
     IN  /\ log' = [log EXCEPT ![logfile] = IF sync THEN Synced(file) ELSE file]
         /\ vs' = [vs EXCEPT !.seq = s]
         /\ mem' = mem \cup {s}
         /\ acked' = acked \cup {s}
         /\ promised' = IF sync THEN promised \cup {s} ELSE promised
  /\ UNCHANGED <<current, meta, sst, pc, edit, todo, imm, logfile, apply, dropped, cut, crashes>>

\* MakeRoomForWrite: a new log and memtable; logfile_number_ keeps the first log's number.
SwitchMemtable ==
  /\ pc = "up" /\ Cardinality(mem) > WriteMemSize /\ imm = {}
  /\ log' = With(log, vs.next, EmptyFile)
  /\ logfile' = vs.next
  /\ imm' = mem /\ mem' = {}
  /\ vs' = [vs EXCEPT !.next = @ + 1]
  /\ UNCHANGED <<current, meta, sst, history, pc, edit, todo, apply>>

\* CompactionMemtable: the SSTable is written and synced, then LogAndApply with
\* logfile_number_, the log DB::Open made, which is log_number_ since then.
FlushMemtable ==
  /\ pc = "up" /\ apply = "none" /\ imm # {}
  /\ sst' = With(sst, vs.next, imm)
  /\ LET v == [vs EXCEPT !.next = @ + 1]
     IN  vs' = v /\ edit' = Prepared([NoEdit EXCEPT !.added = {<<0, vs.next>>}], v, vs.log)
  /\ apply' = "add"
  /\ UNCHANGED <<current, meta, log, history, pc, todo, mem, imm, logfile>>

\* The files that hold an entry: a replay writes entries of flushed logs once more.
Copies(s) == Cardinality({f \in vs.files : s \in sst[f[2]]})

\* DoCompactionLevel from level 0: all files overlap.  The merge drops the first entry of
\* the user key, one copy of the newest, and adds all others (module Compaction).
\* SSTableBuilder::Add asserts that no entry comes twice: where one would, the process
\* ends in the merge, as with CrashProcess.
CompactLevel0 ==
  /\ pc = "up" /\ apply = "none" /\ imm = {}
  /\ Cardinality({f \in vs.files : f[1] = 0}) >= L0Threshold
  /\ LET all == Entries(vs.files)
         gone == {s \in {Max(all)} : Copies(s) = 1}
         v == [vs EXCEPT !.next = @ + 1]
     IN  /\ \A s \in all : Copies(s) <= (IF s = Max(all) THEN 2 ELSE 1)
         /\ sst' = With(sst, vs.next, all \ gone)
         /\ vs' = v
         /\ edit' = Prepared([NoEdit EXCEPT !.deleted = vs.files, !.added = {<<1, vs.next>>}], v, vs.log)
         /\ dropped' = dropped \cup gone
  /\ apply' = "add"
  /\ UNCHANGED <<current, meta, log, pc, todo, mem, imm, logfile, acked, promised, cut, crashes>>

----------------------------------------------------------------------------
(* Crashes.                                                                *)

\* SSTables no meta record names; their contents are never read.
Orphans == DOMAIN sst \ (IF current = 0 THEN {}
                         ELSE {f[2] : f \in UNION {r.added : r \in ToSet(meta[current].recs)}})

Dead ==
  /\ crashes < MaxCrashes
  /\ pc # "down"
  /\ crashes' = crashes + 1
  /\ pc' = "down" /\ vs' = NoVersion /\ edit' = NoEdit /\ apply' = "none"
  /\ todo' = NoLogs
  /\ mem' = {} /\ imm' = {} /\ logfile' = 0
  /\ sst' = [n \in DOMAIN sst |-> IF n \in Orphans THEN {} ELSE sst[n]]

\* The process ends: a crash, or the destructor, which flushes no memtable.
CrashProcess == Dead /\ UNCHANGED <<current, meta, log, acked, promised, dropped, cut>>

\* What is left of a file: some records past the synced ones may have reached the disk.
\* Of files that are never read again the synced ones stay, which saves states.
Left(file, k) == [recs |-> SubSeq(file.recs, 1, k), synced |-> k]
Cuts(files, read) ==
  {k \in [DOMAIN files -> 0..Max({0} \cup {Len(files[n].recs) : n \in DOMAIN files})] :
     \A n \in DOMAIN files : k[n] \in files[n].synced..(IF n \in read THEN Len(files[n].recs) ELSE files[n].synced)}

\* The entries DB::Open would recover now.
OnDisk ==
  IF current = 0 THEN {}
  ELSE LET v == MetaState(current, Len(meta[current].recs))
       IN  Entries(v.files) \cup Records(LogsFrom(v.log))

\* The machine stops: each file keeps its synced part and any number of later records.
PowerLoss ==
  /\ Dead
  /\ \E l \in Cuts(log, IF current = 0 THEN {} ELSE LogsFrom(MetaState(current, meta[current].synced).log)),
        m \in Cuts(meta, {current}) :
       /\ log' = [n \in DOMAIN log |-> Left(log[n], l[n])]
       /\ meta' = [n \in DOMAIN meta |-> Left(meta[n], m[n])]
       /\ cut' = (cut \/ \E n \in DOMAIN log : l[n] < Len(log[n].recs))
  /\ UNCHANGED <<current, promised, dropped>>
  /\ acked' = acked \cap OnDisk'

----------------------------------------------------------------------------

Init ==
  /\ current = 0 /\ meta = <<>> /\ log = <<>> /\ sst = <<>>
  /\ pc = "down" /\ vs = NoVersion /\ edit = NoEdit /\ apply = "none"
  /\ todo = NoLogs
  /\ mem = {} /\ imm = {} /\ logfile = 0
  /\ acked = {} /\ promised = {} /\ dropped = {} /\ cut = FALSE /\ crashes = 0

Open ==
  \/ Start \/ Initialize \/ SetFirstCurrent \/ VersionSetRecover
  \/ ReplayRecords \/ NextLog \/ NewLog

LogAndApply == AddRecord \/ SyncRecord \/ SetCurrent \/ Install

Next ==
  \/ Open \/ LogAndApply
  \/ \E sync \in BOOLEAN : Write(sync)
  \/ SwitchMemtable \/ FlushMemtable \/ CompactLevel0
  \/ CrashProcess \/ PowerLoss

\* The thread that opens the database, or applies an edit, goes on until it is done.
Fairness == WF_vars(Open) /\ WF_vars(LogAndApply)

Spec == Init /\ [][Next]_vars /\ Fairness

----------------------------------------------------------------------------
(* Properties.                                                             *)

\* The meta states a crash now may leave behind CURRENT.
Recoveries == {MetaState(current, k) : k \in meta[current].synced..Len(meta[current].recs)}

\* Whenever a crash comes, and whatever of the unsynced records survives, CURRENT is absent
\* or names a meta file that has every field VersionSet::Recover asks for and names only
\* SSTables that exist: DB::Open never finds the directory between two states.
Recoverable ==
  current # 0 =>
    /\ current \in DOMAIN meta
    /\ \A v \in Recoveries : -1 \notin {v.log, v.seq, v.next} /\ {f[2] : f \in v.files} \subseteq DOMAIN sst

\* Whenever a crash comes, the SSTables and logs that DB::Open would read hold every write
\* acknowledged after a sync, and after a crash of the process alone every acknowledged
\* write, unless a compaction dropped it.
NothingLost ==
  current # 0 =>
    /\ \A v \in Recoveries :
         promised \ dropped \subseteq
           Entries(v.files) \cup UNION {ToSet(SubSeq(log[n].recs, 1, log[n].synced)) : n \in LogsFrom(v.log)}
    /\ acked \ dropped \subseteq OnDisk

\* No entry that is or may be recovered has a sequence number above last_sequence_: what
\* is written next is newer than everything a reader can meet, and no number names two
\* writes.
SequenceCoversDisk ==
  pc = "up" => \A s \in mem \cup imm \cup Entries(vs.files) \cup Records(LogsFrom(vs.log)) : s <= vs.seq

\* What Get finds first: memtables, level 0 by file number, level 1.
FirstFound ==
  LET level(l) == {f[2] : f \in {g \in vs.files : g[1] = l /\ sst[g[2]] # {}}}
  IN  CASE mem # {} -> Max(mem)
        [] mem = {} /\ imm # {} -> Max(imm)
        [] mem = {} /\ imm = {} /\ level(0) # {} -> Max(sst[Max(level(0))])
        [] mem = {} /\ imm = {} /\ level(0) = {} /\ level(1) # {} -> Max(sst[Max(level(1))])
        [] OTHER -> 0

\* Get returns the newest entry there is, also after logs that were flushed long ago have
\* been replayed into files with higher numbers, as long as no power loss cut a log.
NewestIsFound ==
  pc = "up" /\ ~cut => FirstFound = Max({0} \cup mem \cup imm \cup Entries(vs.files))

\* Crashes are bounded here; once they stop the database comes up, whatever state of the
\* directory the last one left.
OpenSucceeds == []<>(pc = "up")
=============================================================================
