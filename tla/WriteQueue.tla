----------------------------- MODULE WriteQueue -----------------------------
(***************************************************************************)
(* Group commit: DBImpl::Write and DBImpl::MergeBatchGroup (db/dbimpl.cc). *)
(*                                                                         *)
(* Each thread calls Write; its Writer object joins the queue writers_ and *)
(* sleeps on its own condition variable until it is at the front of the    *)
(* queue or another writer has done its work.  The front writer makes room *)
(* (MakeRoomForWrite, module Background), merges the batches behind it,    *)
(* releases mu_, appends one log record, syncs the log if it asked for it, *)
(* inserts the operations into the memtable one by one, takes mu_ again,   *)
(* publishes the last sequence number and wakes the writers of its group.  *)
(*                                                                         *)
(* Whatever runs under one holding of mu_ is one action.  An operation is  *)
(* <<thread, call, index>>: its key and value are abstracted away.         *)
(***************************************************************************)
EXTENDS Integers, Sequences, FiniteSets

CONSTANTS
  Threads,      \* the threads that call Write
  Batches,      \* the WriteBatches they pass: [size |-> bytes, count |-> operations]
  SmallBatch,   \* 1 << 10 in MergeBatchGroup: a leader at most this small ...
  GroupSlack,   \* ... lets its group grow by this many bytes (1 << 10)
  MaxGroup,     \* 1 << 20 in MergeBatchGroup: the limit for other leaders
  MaxCalls      \* bound: calls of Write per thread

\* A WriteBatch has at least its 12-byte header; it may hold no operation.
ASSUME BatchAssumption ==
  /\ Threads # {}
  /\ Batches \subseteq [size : Nat \ {0}, count : Nat]
  /\ SmallBatch \in Nat
  /\ GroupSlack \in Nat
  /\ MaxGroup \in Nat
  /\ MaxCalls \in Nat

VARIABLES
  writers_,        \* the queue of waiting Writer objects, one per thread
  pc,              \* where each thread is in Write
  w,               \* the Writer object of each thread's current or last call
  calls,           \* how many times each thread has called Write
  tmp_batch_,      \* operations in the shared scratch batch
  merged,          \* the group being committed: merged_batch and last_writer
  log,             \* records appended to the log, each a sequence of operations
  synced,          \* how many log records fsync has made durable
  mem,             \* <<sequence number, operation>> pairs in the memtable
  last_sequence_,  \* VersionSet::last_sequence_, what readers use as snapshot
  background_ok    \* background_status_.ok()

vars == <<writers_, pc, w, calls, tmp_batch_, merged, log, synced, mem,
          last_sequence_, background_ok>>

----------------------------------------------------------------------------
(* The caller's batch may be nullptr. *)

NullBatch == [size |-> 0, count |-> 0]
Statuses == {"ok", "room_error", "log_error", "sync_error"}

\* struct Writer.  record is not in the code: the index of the log record that
\* the call's group wrote, 0 when it wrote none.
Writer == [batch : Batches \cup {NullBatch}, sync : BOOLEAN, done : BOOLEAN,
           status : Statuses, record : Nat]

\* Thread t's Writer with another outcome.
Outcome(t, done, status, record) ==
  [batch |-> w[t].batch, sync |-> w[t].sync, done |-> done, status |-> status,
   record |-> record]

NewWriter(batch, sync) ==
  [batch |-> batch, sync |-> sync, done |-> FALSE, status |-> "ok", record |-> 0]

Ops == Threads \X Nat \X Nat
OpsOf(t) == [i \in 1..w[t].batch.count |-> <<t, calls[t], i>>]

\* merged_batch, its sequence number, last_writer, whether the batch is
\* tmp_batch_, and how many of its operations are in the memtable.
Group == [ops : Seq(Ops), seq : Nat, last : Threads, tmp : BOOLEAN, inserted : Nat]
NoGroup == [ops |-> <<>>, seq |-> 0, last |-> CHOOSE t \in Threads : TRUE,
            tmp |-> FALSE, inserted |-> 0]

\* The region of Write that runs with mu_ released.
Unlocked == {"log", "sync", "insert", "relock"}
PCs == {"idle", "asleep", "awake", "room"} \cup Unlocked

TypeOK ==
  /\ writers_ \in Seq(Threads)
  /\ pc \in [Threads -> PCs]
  /\ w \in [Threads -> Writer]
  /\ calls \in [Threads -> 0..MaxCalls]
  /\ tmp_batch_ \in Seq(Ops)
  /\ merged \in Group
  /\ log \in Seq(Seq(Ops))
  /\ synced \in 0..Len(log)
  /\ mem \subseteq (Nat \X Ops)
  /\ last_sequence_ \in Nat
  /\ background_ok \in BOOLEAN

Init ==
  /\ writers_ = <<>>
  /\ pc = [t \in Threads |-> "idle"]
  /\ w = [t \in Threads |-> NewWriter(NullBatch, FALSE)]
  /\ calls = [t \in Threads |-> 0]
  /\ tmp_batch_ = <<>>
  /\ merged = NoGroup
  /\ log = <<>>
  /\ synced = 0
  /\ mem = {}
  /\ last_sequence_ = 0
  /\ background_ok = TRUE

----------------------------------------------------------------------------
(* Condition variables.  Only a Writer's own thread waits on its cv, so a  *)
(* Signal wakes that thread if it sleeps and is lost otherwise.            *)

Signalled(u, S) == IF u \in S /\ pc[u] = "asleep" THEN "awake" ELSE pc[u]

Front(q) == IF q = <<>> THEN {} ELSE {q[1]}

\* std::condition_variable::wait may return without a notification.
SpuriousWakeup(t) ==
  /\ pc[t] = "asleep"
  /\ pc' = [pc EXCEPT ![t] = "awake"]
  /\ UNCHANGED <<writers_, w, calls, tmp_batch_, merged, log, synced, mem,
                 last_sequence_, background_ok>>

----------------------------------------------------------------------------
(* Entry of Write, and the loop that waits to be done or to be in front.   *)

Enter(t) ==
  /\ pc[t] = "idle"
  /\ calls[t] < MaxCalls
  /\ \E batch \in Batches \cup {NullBatch}, sync \in BOOLEAN :
       w' = [w EXCEPT ![t] = NewWriter(batch, sync)]
  /\ calls' = [calls EXCEPT ![t] = @ + 1]
  /\ writers_' = Append(writers_, t)
  /\ pc' = [pc EXCEPT ![t] = IF writers_ = <<>> THEN "room" ELSE "asleep"]
  /\ UNCHANGED <<tmp_batch_, merged, log, synced, mem, last_sequence_, background_ok>>

IsFront(t) == writers_ # <<>> /\ writers_[1] = t

\* A plausible slip: `if` for `while`, so that any wakeup is taken for the turn.
WakeWithoutRecheck(t) ==
  /\ pc[t] = "awake"
  /\ pc' = [pc EXCEPT ![t] = IF w[t].done THEN "idle" ELSE "room"]
  /\ UNCHANGED <<writers_, w, calls, tmp_batch_, merged, log, synced, mem,
                 last_sequence_, background_ok>>

Wake(t) ==
  /\ pc[t] = "awake"
  /\ pc' = [pc EXCEPT ![t] = IF w[t].done THEN "idle"
                             ELSE IF IsFront(t) THEN "room" ELSE "asleep"]
  /\ UNCHANGED <<writers_, w, calls, tmp_batch_, merged, log, synced, mem,
                 last_sequence_, background_ok>>

----------------------------------------------------------------------------
(* MergeBatchGroup.  The loop takes followers in queue order and stops at  *)
(* the first one that may not join: a sync writer behind a leader that     *)
(* does not sync, or a batch that would make the group too large.          *)

SizeUpTo(n) ==
  LET total[k \in 0..n] ==
        IF k = 0 THEN 0 ELSE total[k - 1] + w[writers_[k]].batch.size
  IN  total[n]

MaxSize(first) ==
  IF w[first].batch.size <= SmallBatch
    THEN w[first].batch.size + GroupSlack ELSE MaxGroup

Fits(n) ==
  w[writers_[n]].batch # NullBatch => SizeUpTo(n) <= MaxSize(writers_[1])

\* A plausible slip: a sync follower joins a group that is not synced.
JoinsIgnoringSync(n) == Fits(n)

Joins(n) == ~(w[writers_[n]].sync /\ ~w[writers_[1]].sync) /\ Fits(n)

\* The leader's group is the first n writers of the queue.
IsGroup(n) ==
  /\ \A k \in 2..n : Joins(k)
  /\ n < Len(writers_) => ~Joins(n + 1)

\* The followers that bring a batch of their own.
BatchFollowers(n) == {k \in 2..n : w[writers_[k]].batch # NullBatch}

Repeat(s, n) == [i \in 1..(n * Len(s)) |-> s[((i - 1) % Len(s)) + 1]]

\* The operations of the merged batch.  For every follower with a batch the
\* code appends first->batch again, not the follower's batch.
MergedOps(n) ==
  Repeat(OpsOf(writers_[1]), 1 + Cardinality(BatchFollowers(n)))

----------------------------------------------------------------------------
(* The leader.  MakeRoomForWrite may wait with mu_ released (pc "room");   *)
(* what it waits for is module Background's subject.  Its status is        *)
(* overwritten by AddRecord's unless the batch is nullptr.                 *)

RoomStatus == IF background_ok THEN {"ok", "room_error"} ELSE {"room_error"}

\* A plausible slip: the wakeup of the next leader is forgotten.
WokenByFollowersOnly(n) == {writers_[k] : k \in 2..n}

\* Everyone whose cv is signalled when the group's n writers leave the queue.
Woken(n) ==
  {writers_[k] : k \in 2..n} \cup Front(SubSeq(writers_, n + 1, Len(writers_)))

LeaveQueue(t, n) ==
  /\ writers_' = SubSeq(writers_, n + 1, Len(writers_))
  /\ pc' = [u \in Threads |-> IF u = t THEN "idle" ELSE Signalled(u, Woken(n))]

\* A leader with a null batch commits nothing and leaves alone.
PassThrough(t) ==
  /\ pc[t] = "room"
  /\ w[t].batch = NullBatch
  /\ \E s \in RoomStatus : w' = [w EXCEPT ![t] = Outcome(t, FALSE, s, 0)]
  /\ LeaveQueue(t, 1)
  /\ UNCHANGED <<calls, tmp_batch_, merged, log, synced, mem, last_sequence_,
                 background_ok>>

\* A plausible off-by-one: the group starts at the last published sequence.
ReusedSequence == last_sequence_

FirstSequence == last_sequence_ + 1

StartGroup(t) ==
  /\ pc[t] = "room"
  /\ w[t].batch # NullBatch
  /\ \E n \in 1..Len(writers_) :
       /\ IsGroup(n)
       /\ merged' = [ops |-> MergedOps(n), seq |-> FirstSequence,
                     last |-> writers_[n], tmp |-> BatchFollowers(n) # {},
                     inserted |-> 0]
       /\ tmp_batch_' = IF BatchFollowers(n) # {} THEN tmp_batch_ \o MergedOps(n)
                                                  ELSE tmp_batch_
  /\ pc' = [pc EXCEPT ![t] = "log"]
  /\ UNCHANGED <<writers_, w, calls, log, synced, mem, last_sequence_, background_ok>>

\* log_->AddRecord: on failure no complete record is in the log.
AddRecord(t) ==
  /\ pc[t] = "log"
  /\ \/ /\ log' = Append(log, merged.ops)
        /\ w' = [w EXCEPT ![t] = Outcome(t, FALSE, "ok", Len(log) + 1)]
        /\ pc' = [pc EXCEPT ![t] = IF w[t].sync THEN "sync" ELSE "insert"]
     \/ /\ w' = [w EXCEPT ![t] = Outcome(t, FALSE, "log_error", 0)]
        /\ pc' = [pc EXCEPT ![t] = "relock"]
        /\ UNCHANGED log
  /\ UNCHANGED <<writers_, calls, tmp_batch_, merged, synced, mem, last_sequence_,
                 background_ok>>

\* logfile_->Sync
Sync(t) ==
  /\ pc[t] = "sync"
  /\ \/ /\ synced' = Len(log)
        /\ pc' = [pc EXCEPT ![t] = "insert"]
        /\ UNCHANGED w
     \/ /\ w' = [w EXCEPT ![t] = Outcome(t, FALSE, "sync_error", w[t].record)]
        /\ pc' = [pc EXCEPT ![t] = "relock"]
        /\ UNCHANGED synced
  /\ UNCHANGED <<writers_, calls, tmp_batch_, merged, log, mem, last_sequence_,
                 background_ok>>

\* InsertMemTable, one operation a step: readers run in between.
Insert(t) ==
  /\ pc[t] = "insert"
  /\ IF merged.inserted < Len(merged.ops)
       THEN /\ mem' = mem \cup {<<merged.seq + merged.inserted,
                                  merged.ops[merged.inserted + 1]>>}
            /\ merged' = [ops |-> merged.ops, seq |-> merged.seq, last |-> merged.last,
                          tmp |-> merged.tmp, inserted |-> merged.inserted + 1]
            /\ UNCHANGED pc
       ELSE /\ pc' = [pc EXCEPT ![t] = "relock"]
            /\ UNCHANGED <<mem, merged>>
  /\ UNCHANGED <<writers_, w, calls, tmp_batch_, log, synced, last_sequence_,
                 background_ok>>

\* A plausible slip: tmp_batch_ is not cleared after the group.
TmpKept == tmp_batch_

TmpAfterGroup == IF merged.tmp THEN <<>> ELSE tmp_batch_

\* A plausible slip: one sequence number per batch, not per operation.
PublishOne == last_sequence_ + 1

\* A plausible slip: the number of operations is taken off, not added.
PublishBackwards == last_sequence_ - Len(merged.ops)

\* SetLastSequence, also when the group failed.
PublishedSequence == last_sequence_ + Len(merged.ops)

\* mu_ is taken again: record a sync error, publish the sequence number, pop
\* the group and give each follower the leader's status.
Finish(t) ==
  /\ pc[t] = "relock"
  /\ background_ok' = (background_ok /\ w[t].status # "sync_error")
  /\ tmp_batch_' = TmpAfterGroup
  /\ last_sequence_' = PublishedSequence
  /\ \E n \in 1..Len(writers_) :
       /\ writers_[n] = merged.last
       /\ w' = [u \in Threads |->
                  IF \E k \in 2..n : writers_[k] = u
                    THEN Outcome(u, TRUE, w[t].status, w[t].record) ELSE w[u]]
       /\ LeaveQueue(t, n)
  /\ UNCHANGED <<calls, merged, log, synced, mem>>

----------------------------------------------------------------------------
WriterStep(t) ==
  \/ Wake(t)
  \/ PassThrough(t)
  \/ StartGroup(t)
  \/ AddRecord(t)
  \/ Sync(t)
  \/ Insert(t)
  \/ Finish(t)

Next == \E t \in Threads : Enter(t) \/ WriterStep(t) \/ SpuriousWakeup(t)

\* A thread inside Write that can run does run: the scheduler is fair, mu_ is
\* held for finite times and MakeRoomForWrite returns (module Background).
Fairness == \A t \in Threads : WF_vars(WriterStep(t))

Spec == Init /\ [][Next]_vars
FairSpec == Spec /\ Fairness
----------------------------------------------------------------------------
Returned(t) == pc[t] = "idle" /\ calls[t] > 0
Committing(t) == pc[t] \in Unlocked

\* "only one thread can reach here once time" (dbimpl.cc:264): the region that
\* touches log_, logfile_, mem_ and tmp_batch_ without mu_ has one thread in it
\* at most, the front of the queue, and nobody makes room meanwhile.
SingleLeader ==
  \A t \in Threads : pc[t] \in Unlocked \cup {"room"} =>
    /\ IsFront(t)
    /\ \A u \in Threads : pc[u] \in Unlocked \cup {"room"} => u = t

\* No wakeup is lost in the hand-over at the end of Write: the front writer and
\* the writers a leader has finished are not asleep.
NoLostWakeup ==
  \A t \in Threads : pc[t] = "asleep" => ~w[t].done /\ ~IsFront(t)

\* assert(GetCount(tmp_batch_) == 0) in MergeBatchGroup: the scratch batch is
\* empty whenever a leader may start merging.
TmpBatchEmptyBeforeMerge ==
  tmp_batch_ # <<>> => merged.tmp /\ \E t \in Threads : Committing(t)

\* Get reads with LastSequence() as its snapshot while a leader inserts without
\* mu_: what a snapshot shows in the memtable never changes afterwards.
SnapshotStable ==
  [][\A e \in mem' \ mem : e[1] > last_sequence_]_vars

\* Sequence numbers order the versions of a key: no two entries share one,
\* whatever groups failed before.
SequenceUnique ==
  \A d, e \in mem : d[1] = e[1] => d = e

\* A Write with sync = true that returns OK has its group's record durable, even
\* when another thread committed it.
SyncedWhenAcknowledged ==
  \A t \in Threads :
    Returned(t) /\ w[t].sync /\ w[t].status = "ok" /\ w[t].batch # NullBatch =>
      w[t].record \in 1..synced

\* A Write that returns OK is in the memtable, visible to the next Get.
AcknowledgedIsApplied ==
  \A t \in Threads :
    Returned(t) /\ w[t].status = "ok" =>
      \A i \in 1..w[t].batch.count :
        \E e \in mem : e[2] = OpsOf(t)[i] /\ e[1] <= last_sequence_

\* Every call of Write returns.
EveryWriteReturns ==
  \A t \in Threads : (pc[t] # "idle") ~> (pc[t] = "idle")

----------------------------------------------------------------------------
(* The parts of the inductive invariant behind these properties.           *)

Busy == Unlocked \cup {"room"}

\* A thread has one Writer in the queue at most; the writers in the queue are
\* inside Write and not done; the front one is not asleep.
QueueInv ==
  /\ \A i, j \in 1..Len(writers_) : writers_[i] = writers_[j] => i = j
  /\ \A i \in 1..Len(writers_) :
       pc[writers_[i]] # "idle" /\ ~w[writers_[i]].done
  /\ writers_ # <<>> => pc[writers_[1]] # "asleep"

\* Only the front writer leads; a writer that another one finished only has to
\* wake up and return.
LeaderInv ==
  \A t \in Threads :
    /\ pc[t] \in Busy => IsFront(t)
    /\ w[t].done => pc[t] \in {"idle", "awake"}

\* While a leader commits: last_writer is in the queue, the writers up to it
\* asked for a sync only if the leader did, the group's sequence numbers start
\* after the published one, and tmp_batch_ is in use only for a merged group.
GroupInv ==
  /\ \A t \in Threads : Committing(t) =>
       /\ \E n \in 1..Len(writers_) : writers_[n] = merged.last
       /\ \A n \in 1..Len(writers_) : writers_[n] = merged.last =>
            \A k \in 1..n : w[writers_[k]].sync => w[t].sync
       /\ merged.seq = last_sequence_ + 1
       /\ merged.inserted <= Len(merged.ops)
  /\ TmpBatchEmptyBeforeMerge

\* The memtable holds published entries and those of the group being inserted.
MemInv ==
  /\ \A e \in mem : e[1] <= last_sequence_ \/
       \E t \in Threads : Committing(t) /\ e[1] <= last_sequence_ + merged.inserted
  /\ SequenceUnique

\* What a leader knows of its log record at each point, and what it tells the
\* writers it finishes.
SyncInv ==
  /\ \A t \in Threads :
       /\ pc[t] = "sync" => w[t].record \in 1..Len(log)
       /\ pc[t] = "insert" /\ w[t].sync => w[t].record \in 1..synced
       /\ (pc[t] = "relock" \/ w[t].done) /\ w[t].sync /\ w[t].status = "ok" =>
            w[t].record \in 1..synced
  /\ SyncedWhenAcknowledged

Inv == TypeOK /\ QueueInv /\ LeaderInv /\ GroupInv /\ MemInv /\ SyncInv
============================================================================
