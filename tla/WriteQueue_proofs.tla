-------------------------- MODULE WriteQueue_proofs --------------------------
(***************************************************************************)
(* Proofs about group commit, for any set of threads, any batches and any  *)
(* limits.                                                                 *)
(***************************************************************************)
EXTENDS WriteQueue, FiniteSetTheorems, TLAPS

----------------------------------------------------------------------------
\* The merged batch is a sequence of operations: MergeBatchGroup only repeats
\* the leader's batch (dbimpl.cc:143-148).
LEMMA MergedOpsType ==
  ASSUME TypeOK, NEW n \in 1..Len(writers_)
  PROVE  MergedOps(n) \in Seq(Ops)
<1> USE BatchAssumption
<1>1. BatchFollowers(n) \in SUBSET (2..n)
  BY DEF BatchFollowers
<1>2. IsFiniteSet(2..n)
  BY FS_Interval
<1>3. Cardinality(BatchFollowers(n)) \in Nat
  BY <1>1, <1>2, FS_Subset, FS_CardinalityType
<1> DEFINE f == writers_[1]
           s == OpsOf(f)
           c == 1 + Cardinality(BatchFollowers(n))
<1>4. f \in Threads
  BY DEF TypeOK
<1>5. w[f].batch.count \in Nat /\ calls[f] \in Nat
  <2>1. w[f] \in Writer /\ calls[f] \in 0..MaxCalls
    BY <1>4 DEF TypeOK
  <2> QED  BY <2>1 DEF Writer, NullBatch
<1>6. s \in Seq(Ops) /\ Len(s) \in Nat
  BY <1>4, <1>5 DEF OpsOf, Ops
<1>7. c \in Nat
  BY <1>3
<1> HIDE DEF f, s, c
<1>8. c * Len(s) \in Nat
  BY <1>6, <1>7
<1>9. ASSUME NEW i \in 1..(c * Len(s))
      PROVE  s[((i - 1) % Len(s)) + 1] \in Ops
  <2>1. Len(s) # 0
    <3>1. SUFFICES ASSUME Len(s) = 0 PROVE FALSE
      OBVIOUS
    <3>2. c * Len(s) = 0
      BY <3>1, <1>7
    <3> QED BY <3>2
  <2>2. (i - 1) % Len(s) \in 0..(Len(s) - 1)
    BY <2>1, <1>6, <1>8
  <2> QED BY <2>2, <1>6
<1>10. Repeat(s, c) \in Seq(Ops)
  BY <1>8, <1>9 DEF Repeat
<1> QED BY <1>10 DEF MergedOps, f, s, c

----------------------------------------------------------------------------
\* The sequence a queue keeps when its first n writers leave.
LEMMA TailFacts ==
  ASSUME NEW q \in Seq(Threads), NEW n \in 1..Len(q)
  PROVE  LET r == SubSeq(q, n + 1, Len(q))
         IN  /\ r \in Seq(Threads)
             /\ Len(r) = Len(q) - n
             /\ \A i \in 1..Len(r) : r[i] = q[n + i] /\ n + i \in 1..Len(q)
OBVIOUS

\* A Writer with another outcome is a Writer.
LEMMA OutcomeType ==
  ASSUME TypeOK, NEW t \in Threads, NEW done \in BOOLEAN,
         NEW status \in Statuses, NEW record \in Nat
  PROVE  Outcome(t, done, status, record) \in Writer
BY DEF TypeOK, Outcome, Writer

\* TypeOK is inductive: what each step of Write assigns keeps its type.
LEMMA TypeStep == TypeOK /\ [Next]_vars => TypeOK'
<1> SUFFICES ASSUME TypeOK, [Next]_vars PROVE TypeOK'
  OBVIOUS
<1> USE BatchAssumption
<1>q. writers_ \in Seq(Threads) /\ Len(writers_) \in Nat
  BY DEF TypeOK
<1>p. pc \in [Threads -> PCs]
  BY DEF TypeOK
<1>w. w \in [Threads -> Writer]
  BY DEF TypeOK
<1>l. log \in Seq(Seq(Ops)) /\ Len(log) \in Nat /\ synced \in 0..Len(log)
  BY DEF TypeOK
<1>k. Len(log) \in Nat /\ synced \in 0..Len(log)
  BY <1>l
<1>m. merged \in Group
  BY DEF TypeOK
<1>0. CASE UNCHANGED vars
  BY <1>0 DEF TypeOK, vars
<1>1. ASSUME NEW t \in Threads, SpuriousWakeup(t) PROVE TypeOK'
  BY <1>1 DEF TypeOK, SpuriousWakeup, PCs
<1>2. ASSUME NEW t \in Threads, Enter(t) PROVE TypeOK'
  <2>1. w' \in [Threads -> Writer]
    BY <1>2 DEF TypeOK, Enter, NewWriter, Writer, Statuses
  <2>2. calls' \in [Threads -> 0..MaxCalls]
    BY SMTT(30), <1>2 DEF TypeOK, Enter
  <2>3. pc' \in [Threads -> PCs] /\ writers_' \in Seq(Threads)
    BY <1>2 DEF TypeOK, Enter, PCs
  <2> QED BY <1>2, <2>1, <2>2, <2>3 DEF TypeOK, Enter
<1>3. ASSUME NEW t \in Threads, Wake(t) PROVE TypeOK'
  BY <1>3 DEF TypeOK, Wake, PCs
<1>4. ASSUME NEW t \in Threads, NEW n \in 1..Len(writers_), LeaveQueue(t, n)
      PROVE  writers_' \in Seq(Threads) /\ pc' \in [Threads -> PCs]
  <2>1. writers_' \in Seq(Threads)
    BY <1>4, <1>q, TailFacts DEF LeaveQueue
  <2>2. \A u \in Threads : Signalled(u, Woken(n)) \in PCs
    BY <1>p DEF Signalled, PCs
  <2> QED BY <1>4, <2>1, <2>2 DEF LeaveQueue, PCs
<1>13. ASSUME NEW t \in Threads, PassThrough(t) PROVE w' \in [Threads -> Writer]
  <2>1. PICK s \in Statuses : w' = [w EXCEPT ![t] = Outcome(t, FALSE, s, 0)]
    BY <1>13 DEF PassThrough, RoomStatus, Statuses
  <2>2. Outcome(t, FALSE, s, 0) \in Writer
    BY OutcomeType
  <2> QED BY <1>w, <2>1, <2>2
<1>5. ASSUME NEW t \in Threads, PassThrough(t), writers_ # <<>> PROVE TypeOK'
  <2>1. 1 \in 1..Len(writers_) /\ LeaveQueue(t, 1)
    BY <1>5 DEF TypeOK, PassThrough
  <2>2. w' \in [Threads -> Writer]
    BY <1>5, <1>13
  <2> QED BY <1>4, <1>5, <2>1, <2>2 DEF TypeOK, PassThrough
<1>6. ASSUME NEW t \in Threads, PassThrough(t), writers_ = <<>> PROVE TypeOK'
  <2>1. w' \in [Threads -> Writer]
    BY <1>6, <1>13
  <2>2. writers_' = <<>> /\ pc' \in [Threads -> PCs]
    <3>1. \A u \in Threads : Signalled(u, Woken(1)) \in PCs
      BY <1>p DEF Signalled, PCs
    <3>2. writers_' = <<>>
      BY <1>6 DEF PassThrough, LeaveQueue
    <3> QED BY <1>6, <3>1, <3>2 DEF PassThrough, LeaveQueue, PCs
  <2> QED BY <1>6, <2>1, <2>2 DEF TypeOK, PassThrough
<1>7. ASSUME NEW t \in Threads, StartGroup(t) PROVE TypeOK'
  <2>1. PICK n \in 1..Len(writers_) :
          /\ merged' = [ops |-> MergedOps(n), seq |-> FirstSequence,
                        last |-> writers_[n], tmp |-> BatchFollowers(n) # {},
                        inserted |-> 0]
          /\ tmp_batch_' = IF BatchFollowers(n) # {} THEN tmp_batch_ \o MergedOps(n)
                                                     ELSE tmp_batch_
    BY <1>7 DEF StartGroup
  <2>2. MergedOps(n) \in Seq(Ops)
    BY MergedOpsType
  <2>3. tmp_batch_' \in Seq(Ops)
    BY <2>1, <2>2 DEF TypeOK
  <2>4. FirstSequence \in Nat /\ writers_[n] \in Threads
    BY DEF TypeOK, FirstSequence
  <2>5. merged' \in Group
    BY <2>1, <2>2, <2>4 DEF Group
  <2>6. pc' \in [Threads -> PCs]
    BY <1>7 DEF TypeOK, StartGroup, PCs, Unlocked
  <2> QED BY <1>7, <2>3, <2>5, <2>6 DEF TypeOK, StartGroup
<1>8. ASSUME NEW t \in Threads, AddRecord(t) PROVE TypeOK'
  <2>1. merged.ops \in Seq(Ops)
    BY DEF TypeOK, Group
  <2>2. log' \in Seq(Seq(Ops)) /\ Len(log) <= Len(log')
    <3> DEFINE R == Seq(Ops)
    <3>1. merged.ops \in R /\ log \in Seq(R)
      BY <2>1, <1>l
    <3> HIDE DEF R
    <3>2. Append(log, merged.ops) \in Seq(R) /\ Len(log) <= Len(Append(log, merged.ops))
      BY <3>1
    <3>3. log' = Append(log, merged.ops) \/ log' = log
      BY <1>8 DEF AddRecord
    <3>4. log' \in Seq(R) /\ Len(log) <= Len(log')
      BY <3>1, <3>2, <3>3, <1>k
    <3> QED BY <3>4 DEF R
  <2>3. w' \in [Threads -> Writer]
    <3>1. Len(log) + 1 \in Nat /\ "ok" \in Statuses /\ "log_error" \in Statuses
      BY <1>k DEF Statuses
    <3>2. Outcome(t, FALSE, "ok", Len(log) + 1) \in Writer
      BY <3>1, OutcomeType
    <3>3. Outcome(t, FALSE, "log_error", 0) \in Writer
      BY <3>1, OutcomeType
    <3>4. \/ w' = [w EXCEPT ![t] = Outcome(t, FALSE, "ok", Len(log) + 1)]
          \/ w' = [w EXCEPT ![t] = Outcome(t, FALSE, "log_error", 0)]
      BY <1>8 DEF AddRecord
    <3> QED BY <1>w, <3>2, <3>3, <3>4
  <2>4. pc' \in [Threads -> PCs]
    BY <1>8 DEF TypeOK, AddRecord, PCs, Unlocked
  <2>5. synced' \in 0..Len(log')
    BY <1>8, <2>2 DEF TypeOK, AddRecord
  <2> QED BY <1>8, <2>2, <2>3, <2>4, <2>5 DEF TypeOK, AddRecord
<1>9. ASSUME NEW t \in Threads, Sync(t) PROVE TypeOK'
  <2>0. w[t].record \in Nat
    BY DEF TypeOK, Writer
  <2>1. w' \in [Threads -> Writer] /\ synced' \in 0..Len(log)
    <3>1. Outcome(t, FALSE, "sync_error", w[t].record) \in Writer
      BY <2>0, OutcomeType DEF Statuses
    <3>2. synced' = Len(log) \/ synced' = synced
      BY <1>9 DEF Sync
    <3>3. w' = w \/ w' = [w EXCEPT ![t] = Outcome(t, FALSE, "sync_error", w[t].record)]
      BY <1>9 DEF Sync
    <3>4. synced' \in 0..Len(log)
      BY <1>k, <3>2
    <3> QED BY <1>w, <3>1, <3>3, <3>4
  <2>2. pc' \in [Threads -> PCs]
    BY <1>9 DEF TypeOK, Sync, PCs, Unlocked
  <2> QED BY <1>9, <2>1, <2>2 DEF TypeOK, Sync
<1>10. ASSUME NEW t \in Threads, Insert(t) PROVE TypeOK'
  <2>1. merged' \in Group
    BY <1>10 DEF TypeOK, Insert, Group
  <2>2. mem' \subseteq (Nat \X Ops)
    <3>1. CASE ~(merged.inserted < Len(merged.ops))
      BY <1>10, <3>1 DEF TypeOK, Insert
    <3>2. CASE merged.inserted < Len(merged.ops)
      <4>1. merged.seq + merged.inserted \in Nat
        BY <1>m DEF Group
      <4>2. merged.ops[merged.inserted + 1] \in Ops
        BY <1>m, <3>2 DEF Group
      <4>3. mem' = mem \cup {<<merged.seq + merged.inserted,
                              merged.ops[merged.inserted + 1]>>}
        BY <1>10, <3>2 DEF Insert
      <4> QED BY <4>1, <4>2, <4>3 DEF TypeOK
    <3> QED BY <3>1, <3>2
  <2>3. pc' \in [Threads -> PCs]
    BY <1>10 DEF TypeOK, Insert, PCs, Unlocked
  <2> QED BY <1>10, <2>1, <2>2, <2>3 DEF TypeOK, Insert
<1>11. ASSUME NEW t \in Threads, Finish(t) PROVE TypeOK'
  <2>1. PICK n \in 1..Len(writers_) :
          /\ w' = [u \in Threads |->
                     IF \E k \in 2..n : writers_[k] = u
                       THEN Outcome(u, TRUE, w[t].status, w[t].record) ELSE w[u]]
          /\ LeaveQueue(t, n)
    BY <1>11 DEF Finish
  <2>2. w' \in [Threads -> Writer]
    BY <2>1, OutcomeType DEF TypeOK, Writer
  <2>3. writers_' \in Seq(Threads) /\ pc' \in [Threads -> PCs]
    BY <1>4, <2>1
  <2>4. last_sequence_' \in Nat
    BY <1>11 DEF TypeOK, Finish, Group, PublishedSequence
  <2>5. tmp_batch_' \in Seq(Ops)
    BY <1>11 DEF TypeOK, Finish, TmpAfterGroup
  <2>6. background_ok' \in BOOLEAN
    BY <1>11 DEF TypeOK, Finish
  <2> QED BY <1>11, <2>2, <2>3, <2>4, <2>5, <2>6 DEF TypeOK, Finish
<1> QED
  BY <1>0, <1>1, <1>2, <1>3, <1>5, <1>6, <1>7, <1>8, <1>9, <1>10, <1>11
     DEF Next, WriterStep

----------------------------------------------------------------------------
(* The queue and its leader.                                               *)

\* Steps that leave the queue alone and move one thread inside Write.
LEMMA LocalStep ==
  ASSUME TypeOK, QueueInv, LeaderInv,
         NEW t \in Threads, NEW p \in PCs,
         writers_' = writers_,
         pc' = [pc EXCEPT ![t] = p],
         \A u \in Threads : w'[u].done <=> w[u].done,
         p = "idle" => w[t].done,
         p = "asleep" => ~IsFront(t),
         p \in Busy => IsFront(t),
         w[t].done => p \in {"idle", "awake"}
  PROVE  QueueInv' /\ LeaderInv'
<1>1. writers_ \in Seq(Threads) /\ pc \in [Threads -> PCs]
  BY DEF TypeOK
<1>2. \A u \in Threads : pc'[u] = IF u = t THEN p ELSE pc[u]
  BY <1>1
<1>3. QueueInv'
  BY <1>1, <1>2 DEF QueueInv, IsFront
<1>4. LeaderInv'
  BY <1>1, <1>2 DEF LeaderInv, IsFront, Busy
<1> QED BY <1>3, <1>4

\* A new writer goes to the back of the queue; it leads if the queue was empty.
LEMMA EnterStep ==
  ASSUME TypeOK, QueueInv, LeaderInv, NEW t \in Threads, Enter(t)
  PROVE  QueueInv' /\ LeaderInv'
<1>1. writers_ \in Seq(Threads) /\ pc \in [Threads -> PCs] /\ Len(writers_) \in Nat
  BY DEF TypeOK
<1>2. /\ writers_' = Append(writers_, t)
      /\ pc[t] = "idle"
      /\ pc' = [pc EXCEPT ![t] = IF writers_ = <<>> THEN "room" ELSE "asleep"]
  BY DEF Enter
<1>3. /\ Len(writers_') = Len(writers_) + 1
      /\ \A i \in 1..Len(writers_) : writers_'[i] = writers_[i]
      /\ writers_'[Len(writers_) + 1] = t
      /\ writers_' # <<>>
      /\ writers_ # <<>> => Len(writers_) >= 1
  BY <1>1, <1>2
<1>4. \A i \in 1..Len(writers_) : writers_[i] # t /\ writers_[i] \in Threads
  BY <1>1, <1>2 DEF QueueInv
<1>5. /\ \A u \in Threads : u # t => pc'[u] = pc[u] /\ w'[u] = w[u]
      /\ ~w'[t].done
  BY <1>1, <1>2 DEF Enter, TypeOK, NewWriter
<1>6. pc'[t] = IF writers_ = <<>> THEN "room" ELSE "asleep"
  BY <1>1, <1>2
<1>7. QueueInv'
  BY <1>1, <1>3, <1>4, <1>5, <1>6 DEF QueueInv
<1>8. \A u \in Threads : IsFront(u) => IsFront(u)'
  BY <1>1, <1>3 DEF IsFront
<1>9. writers_ = <<>> => IsFront(t)'
  BY <1>1, <1>3 DEF IsFront
<1>10. LeaderInv'
  BY <1>5, <1>6, <1>8, <1>9 DEF LeaderInv, Busy, Unlocked
<1> QED BY <1>7, <1>10

\* The leader and its group leave the queue; the next writer is woken.
LEMMA LeaveStep ==
  ASSUME TypeOK, QueueInv, LeaderInv,
         NEW t \in Threads, NEW n \in 1..Len(writers_),
         IsFront(t), LeaveQueue(t, n),
         \A u \in Threads : w'[u].done <=> (w[u].done \/ \E k \in 2..n : writers_[k] = u)
  PROVE  QueueInv' /\ LeaderInv'
<1>1. writers_ \in Seq(Threads) /\ pc \in [Threads -> PCs] /\ Len(writers_) \in Nat
  BY DEF TypeOK
<1> DEFINE r == SubSeq(writers_, n + 1, Len(writers_))
<1>2. /\ r \in Seq(Threads)
      /\ Len(r) = Len(writers_) - n
      /\ \A i \in 1..Len(r) : r[i] = writers_[n + i] /\ n + i \in 1..Len(writers_)
  BY <1>1, TailFacts
<1>3. writers_' = r
  BY DEF LeaveQueue
<1>w. Woken(n) = {writers_[k] : k \in 2..n} \cup Front(r)
  BY DEF Woken
<1> HIDE DEF r
<1>4. writers_[1] = t /\ 1 \in 1..Len(writers_)
  BY <1>1 DEF IsFront
<1>5. \A u \in Threads : pc'[u] = IF u = t THEN "idle" ELSE Signalled(u, Woken(n))
  BY DEF LeaveQueue
<1>6. \A i \in 1..Len(r) : r[i] # t /\ \A k \in 2..n : writers_[k] # r[i]
  BY <1>1, <1>2, <1>4 DEF QueueInv
<1>7. \A i \in 1..Len(r) : pc'[r[i]] # "idle" /\ ~w'[r[i]].done
  <2> SUFFICES ASSUME NEW i \in 1..Len(r)
               PROVE  pc'[r[i]] # "idle" /\ ~w'[r[i]].done
    OBVIOUS
  <2>1. r[i] = writers_[n + i] /\ n + i \in 1..Len(writers_) /\ r[i] \in Threads
    BY <1>1, <1>2
  <2>2. pc[r[i]] # "idle" /\ ~w[r[i]].done
    BY <2>1 DEF QueueInv
  <2>3. r[i] # t /\ \A k \in 2..n : writers_[k] # r[i]
    BY <1>6
  <2> QED BY <2>1, <2>2, <2>3, <1>5 DEF Signalled
<1>8. \A i, j \in 1..Len(r) : r[i] = r[j] => i = j
  <2> SUFFICES ASSUME NEW i \in 1..Len(r), NEW j \in 1..Len(r), r[i] = r[j]
               PROVE  i = j
    OBVIOUS
  <2>1. writers_[n + i] = writers_[n + j]
    BY <1>2
  <2>2. n + i \in 1..Len(writers_) /\ n + j \in 1..Len(writers_)
    BY <1>2
  <2>3. n + i = n + j
    BY <2>1, <2>2 DEF QueueInv
  <2>4. n \in Nat /\ i \in Nat /\ j \in Nat
    BY <1>1, <1>2
  <2> QED BY <2>3, <2>4
<1>9. r # <<>> => r[1] \in Woken(n)
  <2>1. SUFFICES ASSUME r # <<>> PROVE r[1] \in Woken(n)
    OBVIOUS
  <2>2. Front(r) = {r[1]}
    BY <2>1 DEF Front
  <2> QED BY <1>w, <2>2
<1>e. r # <<>> => 1 \in 1..Len(r) /\ r[1] \in Threads
  <2>1. r \in Seq(Threads)
    BY <1>2
  <2> QED BY <2>1
<1>a. r # <<>> => pc'[r[1]] # "asleep"
  BY <1>5, <1>6, <1>9, <1>e DEF Signalled
<1>10. QueueInv'
  BY <1>3, <1>7, <1>8, <1>a DEF QueueInv
<1>11. ASSUME NEW u \in Threads PROVE pc'[u] \notin Busy
  <2>1. CASE u = t
    BY <2>1, <1>5 DEF Busy, Unlocked
  <2>2. CASE u # t
    <3>1. pc[u] \notin Busy
      BY <2>2, <1>4 DEF LeaderInv, IsFront
    <3> QED BY <2>2, <3>1, <1>5 DEF Signalled, Busy, Unlocked
  <2> QED BY <2>1, <2>2
<1>12. ASSUME NEW u \in Threads, w'[u].done PROVE pc'[u] \in {"idle", "awake"}
  <2>1. CASE u = t
    BY <2>1, <1>5
  <2>2. CASE u # t /\ w[u].done
    BY <2>2, <1>5 DEF LeaderInv, Signalled
  <2>3. CASE u # t /\ \E k \in 2..n : writers_[k] = u
    <3>1. u \in Woken(n)
      BY <2>3 DEF Woken
    <3>2. pc[u] # "idle" /\ pc[u] \notin Busy
      BY <2>3, <1>1, <1>4 DEF QueueInv, LeaderInv, IsFront
    <3>3. pc[u] \in {"asleep", "awake"}
      BY <3>2, <1>1 DEF PCs, Busy
    <3> QED BY <2>3, <3>1, <3>3, <1>5 DEF Signalled
  <2> QED BY <1>12, <2>1, <2>2, <2>3
<1>13. LeaderInv'
  BY <1>11, <1>12 DEF LeaderInv, Busy
<1> QED BY <1>10, <1>13

----------------------------------------------------------------------------
\* At most one thread is in the unlocked region or making room, and it is the
\* front of the queue (comment at dbimpl.cc:264).
LEMMA OneBusy ==
  ASSUME LeaderInv, NEW t \in Threads, NEW u \in Threads, pc[t] \in Busy, pc[u] \in Busy
  PROVE  t = u
BY DEF LeaderInv, IsFront

\* What a new outcome of thread t changes in the Writers.
LEMMA OutcomeFacts ==
  ASSUME TypeOK, NEW t \in Threads, NEW s, NEW r,
         w' = [w EXCEPT ![t] = Outcome(t, FALSE, s, r)]
  PROVE  /\ \A u \in Threads : u # t => w'[u] = w[u]
         /\ ~w'[t].done /\ w'[t].status = s /\ w'[t].record = r
         /\ w'[t].sync = w[t].sync /\ w'[t].batch = w[t].batch
<1>1. w \in [Threads -> Writer]
  BY DEF TypeOK
<1>2. w'[t] = Outcome(t, FALSE, s, r) /\ \A u \in Threads : u # t => w'[u] = w[u]
  BY <1>1
<1> QED BY <1>2 DEF Outcome

\* Every step of Write keeps the queue and its leader in order.
LEMMA QueueStep == TypeOK /\ QueueInv /\ LeaderInv /\ [Next]_vars => QueueInv' /\ LeaderInv'
<1> SUFFICES ASSUME TypeOK, QueueInv, LeaderInv, [Next]_vars
             PROVE  QueueInv' /\ LeaderInv'
  OBVIOUS
<1>p. pc \in [Threads -> PCs] /\ w \in [Threads -> Writer] /\ writers_ \in Seq(Threads)
  BY DEF TypeOK
<1>0. CASE UNCHANGED vars
  BY <1>0 DEF vars, QueueInv, LeaderInv, IsFront
<1>1. ASSUME NEW t \in Threads, SpuriousWakeup(t) PROVE QueueInv' /\ LeaderInv'
  BY <1>1, LocalStep DEF SpuriousWakeup, PCs, Busy, Unlocked
<1>2. ASSUME NEW t \in Threads, Enter(t) PROVE QueueInv' /\ LeaderInv'
  BY <1>2, EnterStep
<1>3. ASSUME NEW t \in Threads, Wake(t) PROVE QueueInv' /\ LeaderInv'
  <2> DEFINE p == IF w[t].done THEN "idle" ELSE IF IsFront(t) THEN "room" ELSE "asleep"
  <2>1. p \in PCs /\ pc' = [pc EXCEPT ![t] = p] /\ writers_' = writers_ /\ w' = w
    BY <1>3 DEF Wake, PCs
  <2>2. /\ p = "idle" => w[t].done
        /\ p = "asleep" => ~IsFront(t)
        /\ p \in Busy => IsFront(t)
        /\ w[t].done => p \in {"idle", "awake"}
    BY DEF Busy, Unlocked
  <2> HIDE DEF p
  <2> QED BY <2>1, <2>2, LocalStep
<1>4. ASSUME NEW t \in Threads, PassThrough(t) PROVE QueueInv' /\ LeaderInv'
  <2>1. IsFront(t) /\ ~w[t].done
    BY <1>4 DEF PassThrough, LeaderInv, Busy, Unlocked
  <2>2. 1 \in 1..Len(writers_) /\ LeaveQueue(t, 1)
    BY <1>4, <1>p, <2>1 DEF PassThrough, IsFront
  <2>3. \A u \in Threads : w'[u].done <=> w[u].done
    <3>1. PICK s : w' = [w EXCEPT ![t] = Outcome(t, FALSE, s, 0)]
      BY <1>4 DEF PassThrough
    <3> QED BY <2>1, <3>1, OutcomeFacts
  <2>4. ~ \E k \in 2..1 : TRUE
    OBVIOUS
  <2>5. \A u \in Threads : w'[u].done <=> (w[u].done \/ \E k \in 2..1 : writers_[k] = u)
    BY <2>3, <2>4
  <2> QED BY <2>1, <2>2, <2>5, LeaveStep
<1>5. ASSUME NEW t \in Threads, NEW p \in Busy,
             pc[t] \in Busy, pc' = [pc EXCEPT ![t] = p],
             writers_' = writers_, \A u \in Threads : w'[u].done <=> w[u].done
      PROVE  QueueInv' /\ LeaderInv'
  <2>1. IsFront(t) /\ ~w[t].done
    BY <1>5 DEF LeaderInv, Busy, Unlocked
  <2>2. p \in PCs /\ p # "idle" /\ p # "asleep"
    BY DEF Busy, Unlocked, PCs
  <2> QED BY <1>5, <2>1, <2>2, LocalStep
<1>6. ASSUME NEW t \in Threads, StartGroup(t) PROVE QueueInv' /\ LeaderInv'
  BY <1>5, <1>6 DEF StartGroup, Busy, Unlocked
<1>7. ASSUME NEW t \in Threads, AddRecord(t) PROVE QueueInv' /\ LeaderInv'
  <2>1. pc[t] \in Busy /\ writers_' = writers_
    BY <1>7 DEF AddRecord, Busy, Unlocked
  <2>2. PICK p \in Busy : pc' = [pc EXCEPT ![t] = p]
    BY <1>7 DEF AddRecord, Busy, Unlocked
  <2>3. \A u \in Threads : w'[u].done <=> w[u].done
    <3>1. ~w[t].done
      BY <2>1 DEF LeaderInv, Busy, Unlocked
    <3>2. PICK s, r : w' = [w EXCEPT ![t] = Outcome(t, FALSE, s, r)]
      BY <1>7 DEF AddRecord
    <3> QED BY <3>1, <3>2, OutcomeFacts
  <2> QED BY <1>5, <2>1, <2>2, <2>3
<1>8. ASSUME NEW t \in Threads, Sync(t) PROVE QueueInv' /\ LeaderInv'
  <2>1. pc[t] \in Busy /\ writers_' = writers_
    BY <1>8 DEF Sync, Busy, Unlocked
  <2>2. PICK p \in Busy : pc' = [pc EXCEPT ![t] = p]
    BY <1>8 DEF Sync, Busy, Unlocked
  <2>3. \A u \in Threads : w'[u].done <=> w[u].done
    <3>1. ~w[t].done
      BY <2>1 DEF LeaderInv, Busy, Unlocked
    <3>2. CASE w' = w
      BY <3>2
    <3>3. CASE w' = [w EXCEPT ![t] = Outcome(t, FALSE, "sync_error", w[t].record)]
      BY <3>1, <3>3, OutcomeFacts
    <3> QED BY <1>8, <3>2, <3>3 DEF Sync
  <2> QED BY <1>5, <2>1, <2>2, <2>3
<1>9. ASSUME NEW t \in Threads, Insert(t) PROVE QueueInv' /\ LeaderInv'
  <2>1. pc[t] \in Busy /\ writers_' = writers_ /\ w' = w
    BY <1>9 DEF Insert, Busy, Unlocked
  <2>2. PICK p \in Busy : pc' = [pc EXCEPT ![t] = p]
    <3>1. CASE pc' = pc
      <4>1. pc' = [pc EXCEPT ![t] = pc[t]]
        BY <3>1, <1>p
      <4> QED BY <2>1, <4>1
    <3>2. CASE pc' = [pc EXCEPT ![t] = "relock"]
      BY <3>2 DEF Busy, Unlocked
    <3> QED BY <1>9, <3>1, <3>2 DEF Insert
  <2> QED BY <1>5, <2>1, <2>2
<1>10. ASSUME NEW t \in Threads, Finish(t) PROVE QueueInv' /\ LeaderInv'
  <2>1. PICK n \in 1..Len(writers_) :
          /\ w' = [u \in Threads |->
                     IF \E k \in 2..n : writers_[k] = u
                       THEN Outcome(u, TRUE, w[t].status, w[t].record) ELSE w[u]]
          /\ LeaveQueue(t, n)
    BY <1>10 DEF Finish
  <2>2. IsFront(t)
    BY <1>10 DEF Finish, LeaderInv, Busy, Unlocked
  <2>3. ASSUME NEW u \in Threads
        PROVE  w'[u].done <=> (w[u].done \/ \E k \in 2..n : writers_[k] = u)
    <3>1. CASE \E k \in 2..n : writers_[k] = u
      BY <2>1, <3>1 DEF Outcome
    <3>2. CASE ~ \E k \in 2..n : writers_[k] = u
      BY <2>1, <3>2
    <3> QED BY <3>1, <3>2
  <2> QED BY <2>1, <2>2, <2>3, LeaveStep
<1> QED
  BY <1>0, <1>1, <1>2, <1>3, <1>4, <1>6, <1>7, <1>8, <1>9, <1>10 DEF Next, WriterStep

----------------------------------------------------------------------------
(* The group being committed.                                              *)

\* The steps of threads that neither commit nor start to commit leave the
\* committing leader's group as it is.
LEMMA GroupKept ==
  ASSUME TypeOK, GroupInv,
         \A u \in Threads : Committing(u)' <=> Committing(u),
         UNCHANGED <<writers_, merged, tmp_batch_, last_sequence_>>,
         \A u \in Threads : w'[u].sync = w[u].sync
  PROVE  GroupInv'
<1>1. writers_ \in Seq(Threads)
  BY DEF TypeOK
<1> QED BY <1>1 DEF GroupInv, TmpBatchEmptyBeforeMerge

\* Every step of Write keeps the group's last writer, its sync flag and its
\* sequence numbers consistent with the queue.
LEMMA GroupStep == Inv /\ [Next]_vars => GroupInv'
<1> SUFFICES ASSUME Inv, [Next]_vars PROVE GroupInv'
  OBVIOUS
<1> USE DEF Inv
<1>p. pc \in [Threads -> PCs] /\ writers_ \in Seq(Threads) /\ Len(writers_) \in Nat
  BY DEF TypeOK
<1>b. \A u \in Threads : Committing(u) => pc[u] \in Busy
  BY DEF Committing, Busy
<1>0. CASE UNCHANGED vars
  BY <1>0 DEF vars, GroupInv, Committing, TmpBatchEmptyBeforeMerge
<1>1. ASSUME NEW t \in Threads, SpuriousWakeup(t) PROVE GroupInv'
  BY <1>1, <1>p, GroupKept DEF SpuriousWakeup, Committing, Unlocked
<1>2. ASSUME NEW t \in Threads, Enter(t) PROVE GroupInv'
  <2>1. /\ writers_' = Append(writers_, t)
        /\ pc[t] = "idle"
        /\ UNCHANGED <<merged, tmp_batch_, last_sequence_>>
    BY <1>2 DEF Enter
  <2>2. /\ Len(writers_') = Len(writers_) + 1
        /\ \A i \in 1..Len(writers_) : writers_'[i] = writers_[i]
        /\ writers_'[Len(writers_) + 1] = t
    BY <1>p, <2>1
  <2>3. \A i \in 1..Len(writers_) : writers_[i] # t /\ writers_[i] \in Threads
    BY <1>p, <2>1 DEF QueueInv
  <2>4. \A u \in Threads : Committing(u)' <=> Committing(u)
    BY <1>2, <1>p, <2>1 DEF Enter, Committing, Unlocked
  <2>5. \A u \in Threads : u # t => w'[u] = w[u]
    BY <1>2 DEF Enter, TypeOK
  <2>6. TmpBatchEmptyBeforeMerge'
    BY <2>1, <2>4 DEF GroupInv, TmpBatchEmptyBeforeMerge
  <2>7. ASSUME NEW u \in Threads, Committing(u)' 
        PROVE  /\ \E n \in 1..Len(writers_') : writers_'[n] = merged.last
               /\ \A n \in 1..Len(writers_') : writers_'[n] = merged.last =>
                    \A k \in 1..n : w'[writers_'[k]].sync => w'[u].sync
               /\ merged.seq = last_sequence_ + 1
               /\ merged.inserted <= Len(merged.ops)
    <3>1. Committing(u) /\ u # t
      BY <2>1, <2>4, <2>7 DEF Committing, Unlocked
    <3>2. PICK m \in 1..Len(writers_) : writers_[m] = merged.last
      BY <3>1 DEF GroupInv
    <3>3. m \in 1..Len(writers_') /\ writers_'[m] = merged.last
      BY <1>p, <2>2, <3>2
    <3>4. ASSUME NEW n \in 1..Len(writers_'), writers_'[n] = merged.last,
                 NEW k \in 1..n, w'[writers_'[k]].sync
          PROVE  w'[u].sync
      <4>1. n \in 1..Len(writers_)
        BY <1>p, <2>2, <2>3, <3>2, <3>4
      <4>2. k \in 1..Len(writers_) /\ writers_'[k] = writers_[k] /\ writers_[n] = merged.last
        BY <1>p, <2>2, <3>4, <4>1
      <4>3. w[writers_[k]].sync
        BY <2>3, <2>5, <3>4, <4>2
      <4>4. w[u].sync
        BY <3>1, <4>1, <4>2, <4>3 DEF GroupInv
      <4> QED BY <2>5, <3>1, <4>4
    <3> QED BY <3>1, <3>3, <3>4 DEF GroupInv
  <2> QED BY <2>1, <2>6, <2>7 DEF GroupInv
<1>3. ASSUME NEW t \in Threads, Wake(t) PROVE GroupInv'
  BY <1>3, <1>p, GroupKept DEF Wake, Committing, Unlocked
<1>4. ASSUME NEW t \in Threads, NEW n \in 1..Len(writers_), LeaveQueue(t, n),
             pc[t] \in Busy, UNCHANGED merged,
             tmp_batch_' # <<>> => tmp_batch_ # <<>> /\ pc[t] = "room"
      PROVE  GroupInv'
  <2>1. \A u \in Threads : pc[u] \in Busy => u = t
    BY <1>4, OneBusy
  <2>2. \A u \in Threads : pc'[u] = IF u = t THEN "idle" ELSE Signalled(u, Woken(n))
    BY <1>4 DEF LeaveQueue
  <2>3. \A u \in Threads : ~Committing(u)'
    BY <1>b, <2>1, <2>2 DEF Signalled, Committing, Busy, Unlocked
  <2>4. tmp_batch_' = <<>>
    BY <1>4, <1>b, <2>1 DEF GroupInv, TmpBatchEmptyBeforeMerge, Committing, Unlocked
  <2> QED BY <2>3, <2>4 DEF GroupInv, TmpBatchEmptyBeforeMerge
<1>5. ASSUME NEW t \in Threads, PassThrough(t) PROVE GroupInv'
  <2>1. pc[t] \in Busy /\ pc[t] = "room" /\ UNCHANGED <<merged, tmp_batch_>>
    BY <1>5 DEF PassThrough, Busy
  <2>2. IsFront(t)
    BY <2>1 DEF LeaderInv
  <2>3. 1 \in 1..Len(writers_) /\ LeaveQueue(t, 1)
    BY <1>5, <1>p, <2>2 DEF PassThrough, IsFront
  <2> QED BY <1>4, <2>1, <2>3
<1>6. ASSUME NEW t \in Threads, StartGroup(t) PROVE GroupInv'
  <2>1. PICK n \in 1..Len(writers_) :
          /\ IsGroup(n)
          /\ merged' = [ops |-> MergedOps(n), seq |-> FirstSequence,
                        last |-> writers_[n], tmp |-> BatchFollowers(n) # {},
                        inserted |-> 0]
          /\ tmp_batch_' = IF BatchFollowers(n) # {} THEN tmp_batch_ \o MergedOps(n)
                                                     ELSE tmp_batch_
    BY <1>6 DEF StartGroup
  <2>2. /\ pc[t] = "room" /\ pc' = [pc EXCEPT ![t] = "log"]
        /\ UNCHANGED <<writers_, w, last_sequence_>>
    BY <1>6 DEF StartGroup
  <2>3. IsFront(t) /\ writers_[1] = t
    BY <2>2 DEF LeaderInv, Busy, IsFront
  <2>4. \A u \in Threads : ~Committing(u)
    BY <1>b, <2>2, OneBusy DEF Busy, Committing, Unlocked
  <2>5. \A u \in Threads : Committing(u)' <=> u = t
    BY <1>p, <2>2, <2>4 DEF Committing, Unlocked
  <2>6. merged'.last = writers_[n] /\ merged'.seq = last_sequence_ + 1
        /\ merged'.inserted = 0 /\ merged'.ops = MergedOps(n)
        /\ merged'.tmp = (BatchFollowers(n) # {})
    BY <2>1 DEF FirstSequence
  <2>7. 0 <= Len(MergedOps(n))
    BY MergedOpsType
  <2>8. ASSUME NEW m \in 1..Len(writers_), writers_[m] = writers_[n],
               NEW k \in 1..m, w[writers_[k]].sync
        PROVE  w[t].sync
    <3>1. m = n
      BY <2>8 DEF QueueInv
    <3>2. CASE k = 1
      BY <2>3, <2>8, <3>2
    <3>3. CASE k # 1
      <4>1. k \in 2..n
        BY <1>p, <2>8, <3>1, <3>3
      <4>2. Joins(k)
        BY <2>1, <4>1 DEF IsGroup
      <4> QED BY <2>3, <2>8, <4>2 DEF Joins
    <3> QED BY <3>2, <3>3
  <2>9. tmp_batch_ = <<>>
    BY <2>4 DEF GroupInv, TmpBatchEmptyBeforeMerge
  <2>10. TmpBatchEmptyBeforeMerge'
    BY <2>1, <2>5, <2>6, <2>9 DEF TmpBatchEmptyBeforeMerge
  <2> QED BY <2>2, <2>5, <2>6, <2>7, <2>8, <2>10 DEF GroupInv
<1>7. ASSUME NEW t \in Threads, AddRecord(t) PROVE GroupInv'
  <2>1. PICK s, r : w' = [w EXCEPT ![t] = Outcome(t, FALSE, s, r)]
    BY <1>7 DEF AddRecord
  <2>2. \A u \in Threads : w'[u].sync = w[u].sync
    BY <2>1, OutcomeFacts
  <2>3. \A u \in Threads : Committing(u)' <=> Committing(u)
    BY <1>7, <1>p DEF AddRecord, Committing, Unlocked
  <2> QED BY <1>7, <2>2, <2>3, GroupKept DEF AddRecord
<1>8. ASSUME NEW t \in Threads, Sync(t) PROVE GroupInv'
  <2>2. \A u \in Threads : w'[u].sync = w[u].sync
    <3>1. w' = w \/ w' = [w EXCEPT ![t] = Outcome(t, FALSE, "sync_error", w[t].record)]
      BY <1>8 DEF Sync
    <3> QED BY <3>1, OutcomeFacts
  <2>3. \A u \in Threads : Committing(u)' <=> Committing(u)
    BY <1>8, <1>p DEF Sync, Committing, Unlocked
  <2> QED BY <1>8, <2>2, <2>3, GroupKept DEF Sync
<1>9. ASSUME NEW t \in Threads, Insert(t) PROVE GroupInv'
  <2>1. \A u \in Threads : Committing(u)' <=> Committing(u)
    BY <1>9, <1>p DEF Insert, Committing, Unlocked
  <2>2. CASE merged' = merged
    BY <1>9, <2>1, <2>2, GroupKept DEF Insert
  <2>3. CASE merged.inserted < Len(merged.ops) /\
             merged' = [ops |-> merged.ops, seq |-> merged.seq, last |-> merged.last,
                        tmp |-> merged.tmp, inserted |-> merged.inserted + 1]
    <3>1. /\ merged'.last = merged.last /\ merged'.seq = merged.seq
          /\ merged'.tmp = merged.tmp /\ merged'.ops = merged.ops
          /\ merged'.inserted = merged.inserted + 1
      BY <2>3
    <3>2. merged'.inserted <= Len(merged'.ops)
      BY <2>3, <3>1 DEF TypeOK, Group
    <3>3. UNCHANGED <<writers_, w, tmp_batch_, last_sequence_>>
      BY <1>9 DEF Insert
    <3>4. TmpBatchEmptyBeforeMerge'
      BY <2>1, <3>1, <3>3 DEF GroupInv, TmpBatchEmptyBeforeMerge
    <3> QED BY <2>1, <3>1, <3>2, <3>3, <3>4 DEF GroupInv
  <2> QED BY <1>9, <2>2, <2>3 DEF Insert
<1>10. ASSUME NEW t \in Threads, Finish(t) PROVE GroupInv'
  <2>1. PICK n \in 1..Len(writers_) : LeaveQueue(t, n)
    BY <1>10 DEF Finish
  <2>2. pc[t] \in Busy /\ Committing(t) /\ UNCHANGED merged
    BY <1>10 DEF Finish, Busy, Committing, Unlocked
  <2>3. tmp_batch_' = <<>>
    BY <1>10 DEF Finish, TmpAfterGroup, GroupInv, TmpBatchEmptyBeforeMerge
  <2> QED BY <1>4, <2>1, <2>2, <2>3
<1> QED
  BY <1>0, <1>1, <1>2, <1>3, <1>5, <1>6, <1>7, <1>8, <1>9, <1>10 DEF Next, WriterStep

----------------------------------------------------------------------------
(* Sequence numbers and the memtable.                                      *)

\* Outside the insertion step the memtable is left alone.
LEMMA MemKept ==
  ASSUME MemInv, UNCHANGED <<mem, last_sequence_, merged>>,
         \A u \in Threads : Committing(u)' <=> Committing(u)
  PROVE  MemInv'
BY DEF MemInv, SequenceUnique

\* Only the committing leader adds entries, each above every older one.
LEMMA MemStep == Inv /\ [Next]_vars => MemInv'
<1> SUFFICES ASSUME Inv, [Next]_vars PROVE MemInv'
  OBVIOUS
<1> USE DEF Inv
<1>p. pc \in [Threads -> PCs] /\ last_sequence_ \in Nat /\ mem \subseteq (Nat \X Ops)
  BY DEF TypeOK
<1>g. merged.inserted \in Nat /\ Len(merged.ops) \in Nat
  BY DEF TypeOK, Group
<1>e. \A e \in mem : e[1] \in Nat
  BY <1>p
<1>b. \A u \in Threads : Committing(u) => pc[u] \in Busy
  BY DEF Committing, Busy
<1>0. CASE UNCHANGED vars
  BY <1>0 DEF vars, MemInv, Committing, SequenceUnique
<1>1. ASSUME NEW t \in Threads, SpuriousWakeup(t) PROVE MemInv'
  BY <1>1, <1>p, MemKept DEF SpuriousWakeup, Committing, Unlocked
<1>2. ASSUME NEW t \in Threads, Enter(t) PROVE MemInv'
  BY <1>2, <1>p, MemKept DEF Enter, Committing, Unlocked
<1>3. ASSUME NEW t \in Threads, Wake(t) PROVE MemInv'
  BY <1>3, <1>p, MemKept DEF Wake, Committing, Unlocked
<1>4. ASSUME NEW t \in Threads, PassThrough(t) PROVE MemInv'
  <2>1. \A u \in Threads : pc'[u] = IF u = t THEN "idle" ELSE Signalled(u, Woken(1))
    BY <1>4 DEF PassThrough, LeaveQueue
  <2>2. \A u \in Threads : Committing(u)' <=> Committing(u)
    BY <1>4, <2>1 DEF PassThrough, Signalled, Committing, Unlocked
  <2> QED BY <1>4, <2>2, MemKept DEF PassThrough
<1>5. ASSUME NEW t \in Threads, StartGroup(t) PROVE MemInv'
  <2>1. \A u \in Threads : ~Committing(u)
    BY <1>5, <1>b, OneBusy DEF StartGroup, Busy, Committing, Unlocked
  <2>2. \A e \in mem : e[1] <= last_sequence_
    BY <2>1 DEF MemInv
  <2>3. UNCHANGED <<mem, last_sequence_>>
    BY <1>5 DEF StartGroup
  <2> QED BY <2>2, <2>3 DEF MemInv, SequenceUnique
<1>6. ASSUME NEW t \in Threads, AddRecord(t) PROVE MemInv'
  <2>1. \A u \in Threads : Committing(u)' <=> Committing(u)
    BY <1>6, <1>p DEF AddRecord, Committing, Unlocked
  <2> QED BY <1>6, <2>1, MemKept DEF AddRecord
<1>7. ASSUME NEW t \in Threads, Sync(t) PROVE MemInv'
  <2>1. \A u \in Threads : Committing(u)' <=> Committing(u)
    BY <1>7, <1>p DEF Sync, Committing, Unlocked
  <2> QED BY <1>7, <2>1, MemKept DEF Sync
<1>8. ASSUME NEW t \in Threads, Insert(t) PROVE MemInv'
  <2>1. \A u \in Threads : Committing(u)' <=> Committing(u)
    BY <1>8, <1>p DEF Insert, Committing, Unlocked
  <2>2. last_sequence_' = last_sequence_
    BY <1>8 DEF Insert
  <2>3. CASE merged' = merged /\ mem' = mem
    BY <2>1, <2>2, <2>3, MemKept
  <2>4. CASE merged.inserted < Len(merged.ops)
    <3> DEFINE new == <<merged.seq + merged.inserted, merged.ops[merged.inserted + 1]>>
    <3>1. mem' = mem \cup {new} /\ merged'.inserted = merged.inserted + 1
      BY <1>8, <2>4 DEF Insert
    <3>2. Committing(t)
      BY <1>8 DEF Insert, Committing, Unlocked
    <3>3. new[1] = last_sequence_ + 1 + merged.inserted
      BY <3>2 DEF GroupInv
    <3> HIDE DEF new
    <3>4. \A e \in mem : e[1] <= last_sequence_ + merged.inserted
      BY <1>e, <1>g, <1>p DEF MemInv
    <3>5. \A e \in mem : e[1] < new[1]
      BY <1>e, <1>g, <1>p, <3>3, <3>4
    <3>6. SequenceUnique'
      BY <1>e, <1>p, <1>g, <3>1, <3>3, <3>5 DEF MemInv, SequenceUnique
    <3>7. \A e \in mem' : e[1] <= last_sequence_' + merged'.inserted
      BY <1>e, <1>p, <1>g, <2>2, <3>1, <3>3, <3>4
    <3> QED BY <2>1, <3>2, <3>6, <3>7 DEF MemInv
  <2> QED BY <1>8, <2>3, <2>4 DEF Insert
<1>9. ASSUME NEW t \in Threads, Finish(t) PROVE MemInv'
  <2>1. /\ mem' = mem
        /\ last_sequence_' = last_sequence_ + Len(merged.ops)
        /\ Committing(t)
    BY <1>9 DEF Finish, PublishedSequence, Committing, Unlocked
  <2>2. merged.inserted <= Len(merged.ops)
    BY <2>1 DEF GroupInv
  <2>3. \A e \in mem : e[1] <= last_sequence_ + merged.inserted
    BY <1>e, <1>g, <1>p DEF MemInv
  <2>4. \A e \in mem : e[1] <= last_sequence_'
    BY <1>e, <1>g, <1>p, <2>1, <2>2, <2>3
  <2> QED BY <2>1, <2>4 DEF MemInv, SequenceUnique
<1> QED
  BY <1>0, <1>1, <1>2, <1>3, <1>4, <1>5, <1>6, <1>7, <1>8, <1>9 DEF Next, WriterStep

----------------------------------------------------------------------------
(* Durability of synced writes.                                            *)

\* A writer learns "ok" with sync only from a leader that synced its record.
LEMMA SyncStep == Inv /\ [Next]_vars => SyncInv'
<1> SUFFICES ASSUME Inv, [Next]_vars PROVE SyncInv'
  OBVIOUS
<1> USE DEF Inv
<1>p. pc \in [Threads -> PCs] /\ w \in [Threads -> Writer]
  BY DEF TypeOK
<1>c. calls \in [Threads -> 0..MaxCalls] /\ writers_ \in Seq(Threads) /\ Len(writers_) \in Nat
  BY DEF TypeOK
<1>l. synced \in Nat /\ Len(log) \in Nat /\ synced <= Len(log)
  BY DEF TypeOK
<1>r. \A u \in Threads : w[u].record \in Nat
  BY <1>p DEF Writer
<1>0. CASE UNCHANGED vars
  BY <1>0 DEF vars, SyncInv, SyncedWhenAcknowledged, Returned
<1>1. ASSUME NEW t \in Threads, SpuriousWakeup(t) PROVE SyncInv'
  BY <1>1, <1>p DEF SpuriousWakeup, SyncInv, SyncedWhenAcknowledged, Returned
<1>2. ASSUME NEW t \in Threads, Enter(t) PROVE SyncInv'
  <2>1. /\ \A u \in Threads : u # t => pc'[u] = pc[u] /\ w'[u] = w[u] /\ calls'[u] = calls[u]
        /\ ~w'[t].done
        /\ pc'[t] \in {"room", "asleep"}
        /\ UNCHANGED <<log, synced>>
    BY <1>2, <1>p, <1>c DEF Enter, NewWriter
  <2> QED BY <2>1 DEF SyncInv, SyncedWhenAcknowledged, Returned
<1>3. ASSUME NEW t \in Threads, Wake(t) PROVE SyncInv'
  <2>1. /\ \A u \in Threads : u # t => pc'[u] = pc[u]
        /\ pc'[t] \in {"idle", "room", "asleep"}
        /\ pc'[t] = "idle" => w[t].done
        /\ UNCHANGED <<w, calls, log, synced>>
    BY <1>3, <1>p DEF Wake
  <2> QED BY <2>1 DEF SyncInv, SyncedWhenAcknowledged, Returned
<1>4. ASSUME NEW t \in Threads, PassThrough(t) PROVE SyncInv'
  <2>1. PICK s : w' = [w EXCEPT ![t] = Outcome(t, FALSE, s, 0)]
    BY <1>4 DEF PassThrough
  <2>2. /\ \A u \in Threads : u # t => w'[u] = w[u]
        /\ ~w'[t].done /\ w'[t].batch = NullBatch
    BY <1>4, <2>1, OutcomeFacts DEF PassThrough
  <2>3. /\ \A u \in Threads : u # t => pc'[u] = Signalled(u, Woken(1))
        /\ pc'[t] = "idle"
        /\ UNCHANGED <<calls, log, synced>>
    BY <1>4 DEF PassThrough, LeaveQueue
  <2> QED BY <2>2, <2>3 DEF SyncInv, SyncedWhenAcknowledged, Returned, Signalled
<1>5. ASSUME NEW t \in Threads, StartGroup(t) PROVE SyncInv'
  <2>1. /\ \A u \in Threads : u # t => pc'[u] = pc[u]
        /\ pc'[t] = "log"
        /\ UNCHANGED <<w, calls, log, synced>>
    BY <1>5, <1>p DEF StartGroup
  <2> QED BY <2>1 DEF SyncInv, SyncedWhenAcknowledged, Returned
<1>6. ASSUME NEW t \in Threads, AddRecord(t) PROVE SyncInv'
  <2>0. ~w[t].done
    BY <1>6 DEF AddRecord, LeaderInv, Busy, Unlocked
  <2>1. synced' = synced /\ calls' = calls
    BY <1>6 DEF AddRecord
  <2>2. CASE /\ log' = Append(log, merged.ops)
             /\ w' = [w EXCEPT ![t] = Outcome(t, FALSE, "ok", Len(log) + 1)]
             /\ pc' = [pc EXCEPT ![t] = IF w[t].sync THEN "sync" ELSE "insert"]
    <3>1. Len(log') = Len(log) + 1
      BY <2>2 DEF TypeOK
    <3>2. /\ \A u \in Threads : u # t => w'[u] = w[u] /\ pc'[u] = pc[u]
          /\ ~w'[t].done /\ w'[t].record = Len(log) + 1 /\ w'[t].sync = w[t].sync
          /\ pc'[t] = IF w[t].sync THEN "sync" ELSE "insert"
      BY <1>p, <2>2, OutcomeFacts
    <3> QED BY <1>l, <1>r, <2>1, <3>1, <3>2
            DEF SyncInv, SyncedWhenAcknowledged, Returned
  <2>3. CASE /\ w' = [w EXCEPT ![t] = Outcome(t, FALSE, "log_error", 0)]
             /\ pc' = [pc EXCEPT ![t] = "relock"]
             /\ UNCHANGED log
    <3>2. /\ \A u \in Threads : u # t => w'[u] = w[u] /\ pc'[u] = pc[u]
          /\ ~w'[t].done /\ w'[t].status = "log_error"
          /\ pc'[t] = "relock"
      BY <1>p, <2>3, OutcomeFacts
    <3> QED BY <2>1, <2>3, <3>2 DEF SyncInv, SyncedWhenAcknowledged, Returned
  <2> QED BY <1>6, <2>2, <2>3 DEF AddRecord
<1>7. ASSUME NEW t \in Threads, Sync(t) PROVE SyncInv'
  <2>0. ~w[t].done /\ w[t].record \in 1..Len(log)
    BY <1>7 DEF Sync, LeaderInv, Busy, Unlocked, SyncInv
  <2>1. log' = log /\ calls' = calls
    BY <1>7 DEF Sync
  <2>2. CASE synced' = Len(log) /\ w' = w /\ pc' = [pc EXCEPT ![t] = "insert"]
    <3>1. /\ \A u \in Threads : u # t => pc'[u] = pc[u]
          /\ pc'[t] = "insert"
      BY <1>p, <2>2
    <3>2. \A r \in Nat : r \in 1..synced => r \in 1..synced'
      BY <1>l, <2>2
    <3> QED BY <1>r, <2>0, <2>1, <2>2, <3>1, <3>2
            DEF SyncInv, SyncedWhenAcknowledged, Returned
  <2>3. CASE /\ w' = [w EXCEPT ![t] = Outcome(t, FALSE, "sync_error", w[t].record)]
             /\ pc' = [pc EXCEPT ![t] = "relock"]
             /\ UNCHANGED synced
    <3>2. /\ \A u \in Threads : u # t => w'[u] = w[u] /\ pc'[u] = pc[u]
          /\ ~w'[t].done /\ w'[t].status = "sync_error"
          /\ pc'[t] = "relock"
      BY <1>p, <2>3, OutcomeFacts
    <3> QED BY <2>1, <2>3, <3>2 DEF SyncInv, SyncedWhenAcknowledged, Returned
  <2> QED BY <1>7, <2>2, <2>3 DEF Sync
<1>8. ASSUME NEW t \in Threads, Insert(t) PROVE SyncInv'
  <2>1. /\ \A u \in Threads : u # t => pc'[u] = pc[u]
        /\ pc[t] = "insert" /\ pc'[t] \in {"insert", "relock"}
        /\ UNCHANGED <<w, calls, log, synced>>
    BY <1>8, <1>p DEF Insert
  <2> QED BY <2>1 DEF SyncInv, SyncedWhenAcknowledged, Returned
<1>9. ASSUME NEW t \in Threads, Finish(t) PROVE SyncInv'
  <2>1. PICK n \in 1..Len(writers_) :
          /\ writers_[n] = merged.last
          /\ w' = [u \in Threads |->
                     IF \E k \in 2..n : writers_[k] = u
                       THEN Outcome(u, TRUE, w[t].status, w[t].record) ELSE w[u]]
          /\ LeaveQueue(t, n)
    BY <1>9 DEF Finish
  <2>2. /\ \A u \in Threads : u # t => pc'[u] = Signalled(u, Woken(n))
        /\ pc'[t] = "idle"
        /\ UNCHANGED <<calls, log, synced>>
    BY <1>9, <2>1 DEF Finish, LeaveQueue
  <2>3. pc[t] = "relock" /\ Committing(t)
    BY <1>9 DEF Finish, Committing, Unlocked
  <2>4. ASSUME NEW u \in Threads, NEW k \in 2..n, writers_[k] = u
        PROVE  /\ w'[u].status = w[t].status /\ w'[u].record = w[t].record
               /\ w'[u].sync => w[t].sync
    <3>1. w'[u] = Outcome(u, TRUE, w[t].status, w[t].record)
      BY <2>1, <2>4
    <3>2. w[u].sync => w[t].sync
      BY <1>c, <2>1, <2>3, <2>4 DEF GroupInv
    <3> QED BY <3>1, <3>2 DEF Outcome
  <2>5. ASSUME NEW u \in Threads, ~ \E k \in 2..n : writers_[k] = u
        PROVE  w'[u] = w[u]
    BY <2>1, <2>5
  <2>6. w[t].sync /\ w[t].status = "ok" => w[t].record \in 1..synced
    BY <2>3 DEF SyncInv
  <2>7. ASSUME NEW u \in Threads, \E k \in 2..n : writers_[k] = u,
               w'[u].sync, w'[u].status = "ok"
        PROVE  w'[u].record \in 1..synced'
    BY <2>2, <2>4, <2>6, <2>7
  <2>8. \A u \in Threads : pc'[u] \in {"sync", "insert", "relock"} => pc'[u] = pc[u]
    BY <2>2 DEF Signalled
  <2>9. \A u \in Threads : pc'[u] = "idle" => u = t \/ pc[u] = "idle"
    BY <2>2 DEF Signalled
  <2>10. ASSUME NEW u \in Threads
         PROVE /\ pc'[u] = "sync" => w'[u].record \in 1..Len(log')
               /\ pc'[u] = "insert" /\ w'[u].sync => w'[u].record \in 1..synced'
               /\ (pc'[u] = "relock" \/ w'[u].done) /\ w'[u].sync /\ w'[u].status = "ok" =>
                    w'[u].record \in 1..synced'
               /\ Returned(u)' /\ w'[u].sync /\ w'[u].status = "ok" /\ w'[u].batch # NullBatch =>
                    w'[u].record \in 1..synced'
    <3>1. CASE \E k \in 2..n : writers_[k] = u
      <4>1. pc[u] \notin Busy
        <5>1. PICK k \in 2..n : writers_[k] = u
          BY <3>1
        <5>2. k \in 1..Len(writers_) /\ k # 1 /\ 1 \in 1..Len(writers_)
          BY <1>c
        <5> QED BY <5>1, <5>2 DEF LeaderInv, IsFront, QueueInv
      <4>2. pc'[u] \notin {"sync", "insert"}
        BY <2>8, <4>1 DEF Busy, Unlocked
      <4> QED BY <2>7, <3>1, <4>2
    <3>2. CASE ~ \E k \in 2..n : writers_[k] = u
      <4>1. w'[u] = w[u]
        BY <2>5, <3>2
      <4> QED BY <2>2, <2>6, <2>8, <2>9, <4>1
              DEF SyncInv, SyncedWhenAcknowledged, Returned
    <3> QED BY <3>1, <3>2
  <2> QED BY <2>10 DEF SyncInv, SyncedWhenAcknowledged
<1> QED
  BY <1>0, <1>1, <1>2, <1>3, <1>4, <1>5, <1>6, <1>7, <1>8, <1>9 DEF Next, WriterStep

----------------------------------------------------------------------------
\* A freshly opened database satisfies the invariant.
LEMMA InitInv == Init => Inv
<1> SUFFICES ASSUME Init PROVE Inv
  OBVIOUS
<1> USE BatchAssumption DEF Init
<1>1. NoGroup \in Group
  BY DEF NoGroup, Group
<1>2. NewWriter(NullBatch, FALSE) \in Writer
  BY DEF NewWriter, Writer, Statuses
<1>3. TypeOK
  <2>1. pc \in [Threads -> PCs] /\ w \in [Threads -> Writer] /\ merged \in Group
    BY <1>1, <1>2 DEF PCs
  <2>2. calls \in [Threads -> 0..MaxCalls] /\ synced \in 0..Len(log)
    OBVIOUS
  <2>3. writers_ \in Seq(Threads) /\ tmp_batch_ \in Seq(Ops) /\ log \in Seq(Seq(Ops))
    OBVIOUS
  <2> QED BY <2>1, <2>2, <2>3 DEF TypeOK
<1>4. \A t \in Threads : pc[t] = "idle" /\ ~w[t].done /\ calls[t] = 0
  BY DEF NewWriter
<1>5. QueueInv /\ LeaderInv
  BY <1>4 DEF QueueInv, LeaderInv, Busy, Unlocked
<1>6. GroupInv /\ MemInv
  BY <1>4 DEF GroupInv, MemInv, Committing, Unlocked, TmpBatchEmptyBeforeMerge,
              SequenceUnique
<1>7. SyncInv
  <2>1. \A t \in Threads : ~Returned(t)
    BY <1>4 DEF Returned
  <2> QED BY <1>4, <2>1 DEF SyncInv, SyncedWhenAcknowledged
<1> QED BY <1>3, <1>5, <1>6, <1>7 DEF Inv

\* The invariant holds in every state of every behaviour of Write, whatever the
\* threads, batches and limits are.
THEOREM Invariance == Spec => []Inv
<1>1. Inv /\ [Next]_vars => Inv'
  BY TypeStep, QueueStep, GroupStep, MemStep, SyncStep DEF Inv
<1> QED BY InitInv, <1>1, PTL DEF Spec

\* The variables of Write keep their types.
THEOREM TypeCorrect == Spec => []TypeOK
<1>1. Inv => TypeOK
  BY DEF Inv
<1> QED BY Invariance, <1>1, PTL

\* One thread at most runs between the Unlock and the Lock of Write, and it is
\* the front of the queue (dbimpl.cc:264).
THEOREM LeaderIsAlone == Spec => []SingleLeader
<1>1. Inv => SingleLeader
  BY OneBusy DEF Inv, SingleLeader, LeaderInv, Busy
<1> QED BY Invariance, <1>1, PTL

\* The hand-over at the end of Write loses no wakeup (dbimpl.cc:283-297).
THEOREM WakeupsAreKept == Spec => []NoLostWakeup
<1>1. Inv => NoLostWakeup
  BY DEF Inv, NoLostWakeup, QueueInv, LeaderInv, IsFront
<1> QED BY Invariance, <1>1, PTL

\* The assertion of MergeBatchGroup that tmp_batch_ is empty (dbimpl.cc:145).
THEOREM TmpBatchAssert == Spec => []TmpBatchEmptyBeforeMerge
<1>1. Inv => TmpBatchEmptyBeforeMerge
  BY DEF Inv, GroupInv
<1> QED BY Invariance, <1>1, PTL

\* Two memtable entries never share a sequence number (dbimpl.cc:260-281).
THEOREM SequencesAreUnique == Spec => []SequenceUnique
<1>1. Inv => SequenceUnique
  BY DEF Inv, MemInv
<1> QED BY Invariance, <1>1, PTL

\* A sync write that returned OK is in a durable log record (dbimpl.cc:268-273),
\* whoever committed it (dbimpl.cc:136).
THEOREM SyncIsDurable == Spec => []SyncedWhenAcknowledged
<1>1. Inv => SyncedWhenAcknowledged
  BY DEF Inv, SyncInv
<1> QED BY Invariance, <1>1, PTL

\* What a reader's snapshot shows in the memtable never changes: every entry
\* inserted without mu_ lies above the published sequence number.
THEOREM SnapshotsAreStable == Spec => SnapshotStable
<1>1. ASSUME Inv, [Next]_vars
      PROVE  [\A e \in mem' \ mem : e[1] > last_sequence_]_vars
  <2>1. ASSUME NEW t \in Threads, Insert(t), NEW e \in mem' \ mem
        PROVE  e[1] > last_sequence_
    <3>1. Committing(t)
      BY <2>1 DEF Insert, Committing, Unlocked
    <3>2. merged.seq = last_sequence_ + 1
      BY <1>1, <3>1 DEF Inv, GroupInv
    <3>3. merged.inserted \in Nat /\ last_sequence_ \in Nat
      BY <1>1 DEF Inv, TypeOK, Group
    <3>4. e[1] = merged.seq + merged.inserted
      BY <2>1 DEF Insert
    <3> QED BY <3>2, <3>3, <3>4
  <2>2. ASSUME NEW t \in Threads, ~Insert(t),
               Enter(t) \/ WriterStep(t) \/ SpuriousWakeup(t)
        PROVE  mem' = mem
    BY <2>2 DEF Enter, WriterStep, SpuriousWakeup, Wake, PassThrough, StartGroup,
                AddRecord, Sync, Finish
  <2> QED BY <1>1, <2>1, <2>2 DEF Next
<1> QED BY Invariance, <1>1, PTL DEF Spec, SnapshotStable
=============================================================================
