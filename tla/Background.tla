----------------------------- MODULE Background -----------------------------
(***************************************************************************)
(* Scheduling of background work: MakeRoomForWrite, MayScheduleCompaction, *)
(* BackgroundCompactionCall and everything it calls, and ~DBImpl           *)
(* (db/dbimpl.cc), with Env::Schedule (util/env.cc).                       *)
(*                                                                         *)
(* Three parties share mu_ and the condition variable background_cv_: the  *)
(* leading writer (module WriteQueue lets one thread at a time in), the    *)
(* environment's background thread, and the thread that destroys the       *)
(* database.  Readers come in through Get, which may ask for a compaction. *)
(* What runs under one holding of mu_ is one action; the background thread *)
(* releases mu_ while it writes SSTables and the meta log.                 *)
(*                                                                         *)
(* A memtable is its generation number and how full it is; the SSTables of *)
(* the current version are the number of level-0 files and the number of   *)
(* compactions deeper levels ask for.                                      *)
(***************************************************************************)
EXTENDS Integers, FiniteSets

CONSTANTS
  StopWrites,   \* config::KL0_StopWriteThreshold
  Trigger,      \* config::KL0_CompactionThreshold
  MemLimit,     \* Option::write_mem_size, in writes
  OpenL0,       \* the numbers of level-0 files DB::Open may leave
  MaxGen,       \* bound: memtables per session
  MaxDeep,      \* bound: pending compactions of deeper levels
  MaxEntries,   \* bound: iterations of DoCompactionLevel's loop
  MaxSeeks      \* bound: compactions asked for by Get

ASSUME BackgroundAssumption ==
  /\ Trigger \in Nat \ {0}
  /\ StopWrites \in Nat /\ StopWrites >= Trigger
  /\ MemLimit \in Nat
  /\ OpenL0 \subseteq Nat
  /\ MaxGen \in Nat \ {0}
  /\ MaxDeep \in Nat
  /\ MaxEntries \in Nat
  /\ MaxSeeks \in Nat

VARIABLES
  wpc,                    \* the leading writer: out, room, stalled or write
  mem_,                   \* generation of the memtable being written
  fill,                   \* how full it is
  imm_,                   \* generation of the immutable memtable, 0 for nullptr
  flushed,                \* generations whose SSTable is in the current version
  l0,                     \* level-0 files of the current version
  deep,                   \* compactions deeper levels ask for
  seek,                   \* current_->file_to_compact_ # nullptr
  seeks,                  \* how often Get has asked for a compaction
  background_scheduled_,
  background_ok,          \* background_status_.ok()
  jobs,                   \* items in the environment's work queue
  bg,                     \* where the background thread is
  comp,                   \* the compaction it works on
  closed_,
  dpc                     \* the destructor: open, waiting, awake or freed

vars == <<wpc, mem_, fill, imm_, flushed, l0, deep, seek, seeks,
          background_scheduled_, background_ok, jobs, bg, comp, closed_, dpc>>

memVars == <<mem_, fill, imm_, flushed>>
versionVars == <<l0, deep, seek>>

\* The compaction picked: how many level-0 files it removes (0: a deeper level),
\* and how many iterations of its loop are left.
Compactions == [from0 : Nat, left : 0..MaxEntries]
NoCompaction == [from0 |-> 0, left |-> 0]

BgStates == {"none", "call", "build", "install", "merge", "nested_build",
             "nested_install", "apply"}

TypeOK ==
  /\ wpc \in {"out", "room", "stalled", "write"}
  /\ mem_ \in 1..MaxGen
  /\ fill \in 0..(MemLimit + 1)
  /\ imm_ \in 0..MaxGen
  /\ flushed \subseteq 1..MaxGen
  /\ l0 \in Nat
  /\ deep \in 0..MaxDeep
  /\ seek \in BOOLEAN
  /\ seeks \in 0..MaxSeeks
  /\ background_scheduled_ \in BOOLEAN
  /\ background_ok \in BOOLEAN
  /\ jobs \in Nat
  /\ bg \in BgStates
  /\ comp \in Compactions
  /\ closed_ \in BOOLEAN
  /\ dpc \in {"open", "waiting", "awake", "freed"}

\* DB::Open has recovered the version and made an empty memtable.  It calls
\* neither MayScheduleCompaction nor GarbageFilesClean.
Init ==
  /\ wpc = "out" /\ mem_ = 1 /\ fill = 0 /\ imm_ = 0 /\ flushed = {}
  /\ l0 \in OpenL0 /\ deep = 0 /\ seek = FALSE /\ seeks = 0
  /\ background_scheduled_ = FALSE /\ background_ok = TRUE /\ jobs = 0
  /\ bg = "none" /\ comp = NoCompaction
  /\ closed_ = FALSE /\ dpc = "open"

----------------------------------------------------------------------------
(* MayScheduleCompaction and the condition variable.                       *)

\* VersionSet::NeedCompaction after EvalCompactionScore: the score of level 0
\* is the integer quotient of its file count by the trigger.
NeedCompaction(n0, nd, sk) == n0 \div Trigger >= 1 \/ nd > 0 \/ sk

\* A plausible slip: the background_scheduled_ branch is missing.
MustScheduleAgain(scheduled, ok, imm, need) == ~closed_ /\ ok /\ (imm # 0 \/ need)

MustSchedule(scheduled, ok, imm, need) ==
  /\ ~closed_
  /\ ~scheduled
  /\ ok
  /\ imm # 0 \/ need

\* scheduled, ok, imm and need are the values the code sees at the call.
\* Env::Schedule puts the job into the background thread's queue.
MayScheduleCompaction(scheduled, ok, imm, need) ==
  LET go == MustSchedule(scheduled, ok, imm, need)
  IN  /\ background_scheduled_' = (scheduled \/ go)
      /\ jobs' = IF go THEN jobs + 1 ELSE jobs

\* A plausible slip: notify_one, which may wake the writer and not the destructor.
SignalWriter ==
  /\ wpc' = IF wpc = "stalled" THEN "room" ELSE wpc
  /\ dpc' = dpc

\* background_cv_.SignalAll: writer and destructor both wait on it.
SignalAll ==
  /\ wpc' = IF wpc = "stalled" THEN "room" ELSE wpc
  /\ dpc' = IF dpc = "waiting" THEN "awake" ELSE dpc

\* std::condition_variable::wait may return without a notification.
SpuriousWakeup ==
  /\ wpc = "stalled" \/ dpc = "waiting"
  /\ SignalAll
  /\ UNCHANGED <<memVars, versionVars, seeks, background_scheduled_, background_ok,
                 jobs, bg, comp, closed_>>

----------------------------------------------------------------------------
(* The leading writer.                                                     *)

\* A thread becomes leader and calls MakeRoomForWrite.  The second conjunct
\* keeps to MaxGen memtables.
Lead ==
  /\ wpc = "out"
  /\ dpc = "open"
  /\ fill <= MemLimit \/ mem_ < MaxGen
  /\ wpc' = "room"
  /\ UNCHANGED <<memVars, versionVars, seeks, background_scheduled_, background_ok,
                 jobs, bg, comp, closed_, dpc>>

\* A plausible slip: the imm_ != nullptr branch is missing.
MustWaitForLevel0Only == l0 >= StopWrites

\* The two branches of MakeRoomForWrite that call background_cv_.Wait.
MustWait == l0 >= StopWrites \/ (fill > MemLimit /\ imm_ # 0)

Stall ==
  /\ wpc = "room"
  /\ background_ok
  /\ MustWait
  /\ wpc' = "stalled"
  /\ UNCHANGED <<memVars, versionVars, seeks, background_scheduled_, background_ok,
                 jobs, bg, comp, closed_, dpc>>

\* There is room, or a background error ends the loop (and Write goes on).
HaveRoom ==
  /\ wpc = "room"
  /\ ~background_ok \/ (~MustWait /\ fill <= MemLimit)
  /\ wpc' = "write"
  /\ UNCHANGED <<memVars, versionVars, seeks, background_scheduled_, background_ok,
                 jobs, bg, comp, closed_, dpc>>

\* A new log and a new memtable.  Creating the log may fail, which ends the loop
\* (and Write goes on with the full memtable); closing the old one may fail,
\* which is recorded.
SwitchMemtable ==
  /\ wpc = "room"
  /\ background_ok /\ ~MustWait /\ fill > MemLimit
  /\ \/ /\ wpc' = "write"
        /\ UNCHANGED <<memVars, background_ok, background_scheduled_, jobs>>
     \/ /\ imm_' = mem_
        /\ mem_' = mem_ + 1
        /\ fill' = 0
        /\ background_ok' \in BOOLEAN
        /\ MayScheduleCompaction(background_scheduled_, background_ok', mem_,
                                 NeedCompaction(l0, deep, seek))
        /\ UNCHANGED <<wpc, flushed>>
  /\ UNCHANGED <<versionVars, seeks, bg, comp, closed_, dpc>>

\* The rest of Write: the memtable grows unless the log failed; a failed sync is
\* recorded as a background error.
Commit ==
  /\ wpc = "write"
  /\ \/ fill' = (IF fill > MemLimit THEN fill ELSE fill + 1) /\ UNCHANGED background_ok
     \/ fill' = fill /\ background_ok' \in {background_ok, FALSE}
  /\ wpc' = "out"
  /\ UNCHANGED <<mem_, imm_, flushed, versionVars, seeks, background_scheduled_, jobs,
                 bg, comp, closed_, dpc>>

\* Get: UpdateStats names a file that was seeked too often.
GetAsksForCompaction ==
  /\ dpc = "open"
  /\ ~seek /\ seeks < MaxSeeks
  /\ l0 > 0 \/ deep > 0
  /\ seek' = TRUE
  /\ seeks' = seeks + 1
  /\ MayScheduleCompaction(background_scheduled_, background_ok, imm_, TRUE)
  /\ UNCHANGED <<wpc, memVars, l0, deep, background_ok, bg, comp, closed_, dpc>>

----------------------------------------------------------------------------
(* The background thread.                                                  *)

\* BackgroundThreadMain takes the job.
TakeJob ==
  /\ bg = "none"
  /\ jobs > 0
  /\ jobs' = jobs - 1
  /\ bg' = "call"
  /\ UNCHANGED <<wpc, memVars, versionVars, seeks, background_scheduled_,
                 background_ok, comp, closed_, dpc>>

\* A plausible slip: the job ends without MayScheduleCompaction.
ReturnUnscheduled(ok, imm, need) ==
  /\ background_scheduled_' = FALSE
  /\ jobs' = jobs
  /\ SignalAll
  /\ bg' = "none"
  /\ comp' = NoCompaction

\* A plausible slip: the job ends without SignalAll.
ReturnSilently(ok, imm, need) ==
  /\ MayScheduleCompaction(FALSE, ok, imm, need)
  /\ UNCHANGED <<wpc, dpc>>
  /\ bg' = "none"
  /\ comp' = NoCompaction

\* The end of BackgroundCompactionCall, given what it finds then.
Return(ok, imm, need) ==
  /\ MayScheduleCompaction(FALSE, ok, imm, need)
  /\ SignalAll
  /\ bg' = "none"
  /\ comp' = NoCompaction

\* PickCompaction: a level whose score is at least 1, or the file Get named.
\* Level-0 input is every file that overlaps the first one.
SizeCompaction == l0 \div Trigger >= 1 \/ deep > 0

PickedFrom0 ==
  IF SizeCompaction
    THEN {k \in 1..l0 : l0 \div Trigger >= 1} \cup {k \in {0} : deep > 0}
    ELSE 0..l0

CallReturns ==
  /\ bg = "call"
  /\ closed_ \/ ~background_ok \/ (imm_ = 0 /\ ~NeedCompaction(l0, deep, seek))
  /\ Return(background_ok, imm_, NeedCompaction(l0, deep, seek))
  /\ UNCHANGED <<memVars, versionVars, seeks, background_ok, closed_>>

\* BackgroundCompaction: the immutable memtable first, else a compaction, which
\* is a move of one file (only the meta log is written) or a merge.
CallWorks ==
  /\ bg = "call"
  /\ ~closed_ /\ background_ok
  /\ \/ imm_ # 0 /\ bg' = "build" /\ UNCHANGED comp
     \/ /\ imm_ = 0
        /\ NeedCompaction(l0, deep, seek)
        /\ \E k \in PickedFrom0, n \in 0..MaxEntries :
             /\ comp' = [from0 |-> k, left |-> n]
             /\ \/ bg' = "merge"
                \/ k <= 1 /\ bg' = "apply"
  /\ UNCHANGED <<wpc, memVars, versionVars, seeks, background_scheduled_,
                 background_ok, jobs, closed_, dpc>>

Nested == bg \in {"nested_build", "nested_install"}

\* CompactionMemtable failed: RecordBackgroundError.  Inside a compaction the
\* loop signals and goes on; it will try again at its next key.
FlushFailed ==
  /\ background_ok' = FALSE
  /\ IF Nested
       THEN SignalAll /\ bg' = "merge" /\ UNCHANGED <<background_scheduled_, jobs, comp>>
       ELSE Return(FALSE, imm_, NeedCompaction(l0, deep, seek))
  /\ UNCHANGED <<memVars, versionVars>>

\* WriteLevel0SSTable has written the file, or failed; closed_ is an error too.
FlushBuilt ==
  /\ bg \in {"build", "nested_build"}
  /\ \/ FlushFailed
     \/ /\ ~closed_
        /\ bg' = IF Nested THEN "nested_install" ELSE "install"
        /\ UNCHANGED <<wpc, memVars, versionVars, background_scheduled_,
                       background_ok, jobs, comp, dpc>>
  /\ UNCHANGED <<seeks, closed_>>

\* LogAndApply of the flush has returned.
FlushInstalled ==
  /\ bg \in {"install", "nested_install"}
  /\ \/ FlushFailed
     \/ /\ imm_' = 0
        /\ flushed' = flushed \cup {imm_}
        /\ l0' = l0 + 1
        /\ seek' = FALSE
        /\ IF Nested
             THEN SignalAll /\ bg' = "merge" /\ UNCHANGED <<background_scheduled_, jobs, comp>>
             ELSE Return(background_ok, 0, NeedCompaction(l0 + 1, deep, FALSE))
        /\ UNCHANGED <<mem_, fill, deep, background_ok>>
  /\ UNCHANGED <<seeks, closed_>>

\* One iteration of DoCompactionLevel's loop: an immutable memtable that has
\* appeared is flushed first.
MergeIterates ==
  /\ bg = "merge"
  /\ comp.left > 0 /\ ~closed_
  /\ comp' = [from0 |-> comp.from0, left |-> comp.left - 1]
  /\ bg' = IF imm_ # 0 THEN "nested_build" ELSE "merge"
  /\ UNCHANGED <<wpc, memVars, versionVars, seeks, background_scheduled_,
                 background_ok, jobs, closed_, dpc>>

\* The loop ends: with an error (I/O, or the database being closed), which is
\* recorded, or with the result to be logged.
MergeEnds ==
  /\ bg = "merge"
  /\ \/ /\ background_ok' = FALSE
        /\ Return(FALSE, imm_, NeedCompaction(l0, deep, seek))
     \/ /\ comp.left = 0 /\ ~closed_
        /\ bg' = "apply"
        /\ UNCHANGED <<wpc, background_scheduled_, background_ok, jobs, comp, dpc>>
  /\ UNCHANGED <<memVars, versionVars, seeks, closed_>>

\* LogAndApply of a compaction has returned; the files it moves to level 1 may
\* make that level ask for a compaction.
CompactionApplied ==
  /\ bg = "apply"
  /\ \/ /\ background_ok' = FALSE
        /\ Return(FALSE, imm_, NeedCompaction(l0, deep, seek))
        /\ UNCHANGED versionVars
     \/ /\ l0' = l0 - comp.from0
        /\ deep' \in 0..MaxDeep
        /\ IF comp.from0 > 0 THEN deep' \in {deep, deep + 1}
                             ELSE deep' = IF deep > 0 THEN deep - 1 ELSE 0
        /\ seek' = FALSE
        /\ Return(background_ok, imm_, NeedCompaction(l0', deep', FALSE))
        /\ UNCHANGED background_ok
  /\ UNCHANGED <<memVars, seeks, closed_>>

----------------------------------------------------------------------------
(* ~DBImpl.  The caller has no Write or Get in progress.                   *)

\* A plausible slip: the destructor does not wait for the background thread.
FreeAtOnce == dpc' = "freed"

WaitOrFree == dpc' = IF background_scheduled_ THEN "waiting" ELSE "freed"

Close ==
  /\ dpc = "open"
  /\ wpc = "out"
  /\ closed_' = TRUE
  /\ WaitOrFree
  /\ UNCHANGED <<wpc, memVars, versionVars, seeks, background_scheduled_,
                 background_ok, jobs, bg, comp>>

CloseWakes ==
  /\ dpc = "awake"
  /\ WaitOrFree
  /\ UNCHANGED <<wpc, memVars, versionVars, seeks, background_scheduled_,
                 background_ok, jobs, bg, comp, closed_>>

----------------------------------------------------------------------------
WriterStep == Stall \/ HaveRoom \/ SwitchMemtable \/ Commit

BackgroundStep ==
  \/ TakeJob
  \/ CallReturns
  \/ CallWorks
  \/ FlushBuilt
  \/ FlushInstalled
  \/ MergeIterates
  \/ MergeEnds
  \/ CompactionApplied

Next ==
  \/ Lead
  \/ WriterStep
  \/ GetAsksForCompaction
  \/ BackgroundStep
  \/ Close
  \/ CloseWakes
  \/ SpuriousWakeup

\* A writer inside Write runs when it can, the environment's thread runs its
\* queue, file operations return, and a woken destructor runs.  Nobody has to
\* call Write, Get or the destructor.
Fairness == WF_vars(WriterStep) /\ WF_vars(BackgroundStep) /\ WF_vars(CloseWakes)

Spec == Init /\ [][Next]_vars
FairSpec == Spec /\ Fairness

----------------------------------------------------------------------------
\* "only one compaction could running" (dbimpl.cc:549): the flag says exactly
\* whether the one job is queued or running.
OneJobAtMost ==
  jobs + (IF bg = "none" THEN 0 ELSE 1) = IF background_scheduled_ THEN 1 ELSE 0

\* ~DBImpl frees the object only when no background job can touch it any more.
NoJobOutlivesDB == dpc = "freed" => jobs = 0 /\ bg = "none"

\* "a memtable is being compact as SStable" (dbimpl.cc:312, 319): a writer that
\* waits on background_cv_ waits for a background job that is queued or running
\* and will signal it.
StalledImpliesScheduled == wpc = "stalled" => background_scheduled_ /\ background_ok

\* Every memtable that was filled is either still the immutable one or in an
\* SSTable of the current version: none is overwritten or dropped.
NoMemtableLost == \A g \in 1..(mem_ - 1) : g = imm_ \/ g \in flushed

\* A leading writer always gets through MakeRoomForWrite.
WriterGetsRoom == (wpc = "room") ~> (wpc = "write")

\* A full memtable reaches an SSTable unless an error stops background work or
\* the database is closed.
ImmutableIsFlushed == (imm_ # 0) ~> (imm_ = 0 \/ ~background_ok \/ closed_)

\* The destructor terminates.
CloseEnds == closed_ ~> (dpc = "freed")

----------------------------------------------------------------------------
(* The parts of the inductive invariant behind these properties.           *)

\* DB::Open recovered fewer level-0 files than would stop writes.
RecoveredBelowLimit == \A n \in OpenL0 : n < StopWrites

\* Work that a writer may wait for is scheduled.
WorkIsScheduled ==
  ~closed_ /\ background_ok /\ (imm_ # 0 \/ l0 >= StopWrites) => background_scheduled_

\* The destructor runs alone with the background thread.
ClosingInv ==
  /\ closed_ <=> dpc # "open"
  /\ closed_ => wpc = "out"
  /\ dpc = "freed" => ~background_scheduled_

\* What the background thread works on exists.
WorkInv ==
  /\ bg \in {"build", "install", "nested_build", "nested_install"} => imm_ # 0
  /\ bg \in {"merge", "nested_build", "nested_install", "apply"} => comp.from0 <= l0

\* A writer on its way to a new memtable may have one (bound MaxGen).
GenInv == wpc \in {"room", "stalled"} => fill <= MemLimit \/ mem_ < MaxGen

Inv ==
  /\ TypeOK
  /\ OneJobAtMost
  /\ StalledImpliesScheduled
  /\ NoMemtableLost
  /\ WorkIsScheduled
  /\ ClosingInv
  /\ WorkInv
  /\ GenInv
============================================================================
