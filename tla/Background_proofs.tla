-------------------------- MODULE Background_proofs --------------------------
(***************************************************************************)
(* Proofs about the scheduling of background work, for any thresholds and  *)
(* bounds.                                                                 *)
(***************************************************************************)
EXTENDS Background, TLAPS

\* Enough level-0 files to stop writes are enough to ask for a compaction: the
\* integer division of EvalCompactionScore (version.cc:577) yields at least 1.
LEMMA StopNeedsCompaction ==
  ASSUME NEW n \in Nat, n >= StopWrites, NEW d, NEW sk
  PROVE  NeedCompaction(n, d, sk)
<1> USE BackgroundAssumption
<1>1. n >= Trigger /\ Trigger >= 1
  OBVIOUS
<1>2. n \div Trigger >= 1
  BY <1>1, Z3
<1> QED BY <1>2 DEF NeedCompaction

\* What MayScheduleCompaction does to the flag and to the queue, whoever calls it.
LEMMA ScheduleFacts ==
  ASSUME TypeOK, NEW scheduled \in BOOLEAN, NEW ok, NEW imm, NEW need,
         MayScheduleCompaction(scheduled, ok, imm, need)
  PROVE  /\ background_scheduled_' \in BOOLEAN
         /\ jobs' \in Nat
         /\ scheduled => background_scheduled_' /\ jobs' = jobs
         /\ ~scheduled => jobs' = jobs + (IF background_scheduled_' THEN 1 ELSE 0)
         /\ ~closed_ /\ ok /\ (imm # 0 \/ need) => background_scheduled_'
         /\ closed_ => background_scheduled_' = scheduled
<1> DEFINE go == MustSchedule(scheduled, ok, imm, need)
<1>1. /\ background_scheduled_' = (scheduled \/ go)
      /\ jobs' = IF go THEN jobs + 1 ELSE jobs
  BY DEF MayScheduleCompaction
<1>2. go <=> ~closed_ /\ ~scheduled /\ ok /\ (imm # 0 \/ need)
  BY DEF MustSchedule
<1> HIDE DEF go
<1>3. background_scheduled_' \in BOOLEAN /\ (background_scheduled_' <=> scheduled \/ go)
  BY <1>1
<1>4. jobs \in Nat
  BY DEF TypeOK
<1>5. CASE go
  <2>1. jobs' = jobs + 1 /\ ~scheduled /\ ~closed_ /\ background_scheduled_'
    BY <1>1, <1>2, <1>3, <1>5
  <2>2. (IF background_scheduled_' THEN 1 ELSE 0) = 1
    BY <2>1
  <2>3. jobs' = jobs + (IF background_scheduled_' THEN 1 ELSE 0) /\ jobs' \in Nat
    BY <1>4, <2>1, <2>2
  <2> QED BY <1>3, <2>1, <2>3, Zenon
<1>6. CASE ~go
  <2>1. jobs' = jobs /\ (background_scheduled_' <=> scheduled)
    BY <1>1, <1>3, <1>6
  <2>2. background_scheduled_' = scheduled
    BY <1>3, <2>1
  <2>3. ~closed_ /\ ok /\ (imm # 0 \/ need) => scheduled
    BY <1>2, <1>6
  <2> QED BY <1>3, <1>4, <2>1, <2>2, <2>3
<1> QED BY <1>5, <1>6

\* A call of MayScheduleCompaction outside a job's end keeps the flag exact.
LEMMA ScheduleKeepsOneJob ==
  ASSUME TypeOK, OneJobAtMost, bg' = bg, NEW ok, NEW imm, NEW need,
         MayScheduleCompaction(background_scheduled_, ok, imm, need)
  PROVE  /\ OneJobAtMost'
         /\ background_scheduled_' \in BOOLEAN
         /\ jobs' \in Nat
         /\ background_scheduled_ => background_scheduled_'
         /\ ~closed_ /\ ok /\ (imm # 0 \/ need) => background_scheduled_'
         /\ closed_ => background_scheduled_' = background_scheduled_
<1>0. background_scheduled_ \in BOOLEAN /\ jobs \in Nat
  BY DEF TypeOK
<1>1. /\ background_scheduled_' \in BOOLEAN
      /\ jobs' \in Nat
      /\ background_scheduled_ => background_scheduled_' /\ jobs' = jobs
      /\ ~background_scheduled_ => jobs' = jobs + (IF background_scheduled_' THEN 1 ELSE 0)
      /\ ~closed_ /\ ok /\ (imm # 0 \/ need) => background_scheduled_'
      /\ closed_ => background_scheduled_' = background_scheduled_
  BY <1>0, ScheduleFacts
<1>2. CASE background_scheduled_
  BY <1>1, <1>2 DEF OneJobAtMost
<1>3. CASE ~background_scheduled_
  <2>1. jobs = 0 /\ bg = "none"
    BY <1>0, <1>3 DEF OneJobAtMost
  <2>2. jobs' = (IF background_scheduled_' THEN 1 ELSE 0) /\ bg' = "none"
    BY <1>1, <1>3, <2>1
  <2>3. OneJobAtMost'
    BY <1>1, <2>2 DEF OneJobAtMost
  <2> QED BY <1>1, <2>3
<1> QED BY <1>2, <1>3

\* The end of a background job: it leaves nothing undone without scheduling it.
LEMMA ReturnFacts ==
  ASSUME Inv, bg # "none", NEW ok, NEW imm, NEW need, Return(ok, imm, need)
  PROVE  /\ background_scheduled_' \in BOOLEAN
         /\ jobs' \in Nat
         /\ OneJobAtMost'
         /\ ~closed_ /\ ok /\ (imm # 0 \/ need) => background_scheduled_'
         /\ closed_ => ~background_scheduled_'
         /\ bg' = "none" /\ comp' = NoCompaction
         /\ wpc' # "stalled" /\ wpc' \in {wpc, "room"} /\ (wpc' # wpc => wpc = "stalled")
         /\ dpc' \in {dpc, "awake"} /\ dpc' # "waiting" /\ (dpc' # dpc => dpc = "waiting")
<1>1. jobs = 0 /\ background_scheduled_
  BY DEF Inv, OneJobAtMost, TypeOK
<1>2. MayScheduleCompaction(FALSE, ok, imm, need) /\ SignalAll
      /\ bg' = "none" /\ comp' = NoCompaction
  BY DEF Return
<1>3. /\ background_scheduled_' \in BOOLEAN
      /\ jobs' \in Nat
      /\ jobs' = jobs + (IF background_scheduled_' THEN 1 ELSE 0)
      /\ ~closed_ /\ ok /\ (imm # 0 \/ need) => background_scheduled_'
      /\ closed_ => background_scheduled_' = FALSE
  BY <1>2, ScheduleFacts DEF Inv
<1>4. OneJobAtMost'
  BY <1>1, <1>2, <1>3 DEF OneJobAtMost
<1>5. /\ wpc' # "stalled" /\ wpc' \in {wpc, "room"} /\ (wpc' # wpc => wpc = "stalled")
      /\ dpc' \in {dpc, "awake"} /\ dpc' # "waiting" /\ (dpc' # dpc => dpc = "waiting")
  BY <1>2 DEF SignalAll
<1> QED BY <1>2, <1>3, <1>4, <1>5

----------------------------------------------------------------------------
\* A freshly opened database satisfies the invariant.
LEMMA InitInv == RecoveredBelowLimit /\ Init => Inv
<1> SUFFICES ASSUME RecoveredBelowLimit, Init PROVE Inv
  OBVIOUS
<1> USE BackgroundAssumption
<1>1. NoCompaction \in Compactions
  BY DEF NoCompaction, Compactions
<1>3. l0 < StopWrites /\ l0 \in Nat
  BY DEF Init, RecoveredBelowLimit
<1>2. TypeOK
  <2>1. /\ mem_ \in 1..MaxGen /\ fill \in 0..(MemLimit + 1) /\ imm_ \in 0..MaxGen
        /\ deep \in 0..MaxDeep /\ seeks \in 0..MaxSeeks /\ jobs \in Nat
    BY DEF Init
  <2>2. /\ seek \in BOOLEAN /\ background_scheduled_ \in BOOLEAN
        /\ background_ok \in BOOLEAN /\ closed_ \in BOOLEAN
    BY DEF Init
  <2>3. /\ wpc \in {"out", "room", "stalled", "write"}
        /\ flushed \subseteq 1..MaxGen
        /\ bg \in BgStates
        /\ comp \in Compactions
        /\ dpc \in {"open", "waiting", "awake", "freed"}
    BY <1>1 DEF Init, BgStates
  <2> QED BY <1>3, <2>1, <2>2, <2>3 DEF TypeOK
<1>4. WorkIsScheduled
  BY <1>3 DEF Init, WorkIsScheduled
<1>5. OneJobAtMost
  BY DEF Init, OneJobAtMost
<1>6. NoMemtableLost
  BY DEF Init, NoMemtableLost
<1>7. StalledImpliesScheduled /\ ClosingInv /\ WorkInv /\ GenInv
  BY DEF Init, StalledImpliesScheduled, ClosingInv, WorkInv, GenInv
<1> QED BY <1>2, <1>4, <1>5, <1>6, <1>7 DEF Inv

\* Steps of the writer, of Get and of the destructor, which do not move the
\* background thread.
LEMMA ForegroundStep ==
  Inv /\ (Lead \/ WriterStep \/ GetAsksForCompaction \/ Close \/ CloseWakes \/ SpuriousWakeup)
    => Inv'
<1> SUFFICES ASSUME Inv PROVE
      (Lead \/ WriterStep \/ GetAsksForCompaction \/ Close \/ CloseWakes \/ SpuriousWakeup) => Inv'
  OBVIOUS
<1> USE BackgroundAssumption
<1>i. /\ TypeOK /\ OneJobAtMost /\ StalledImpliesScheduled /\ NoMemtableLost
      /\ WorkIsScheduled /\ ClosingInv /\ WorkInv /\ GenInv
  BY DEF Inv
<1>1. ASSUME Lead PROVE Inv'
  BY <1>i, <1>1 DEF Lead, memVars, versionVars, Inv, TypeOK, OneJobAtMost,
       StalledImpliesScheduled, NoMemtableLost, WorkIsScheduled, ClosingInv, WorkInv, GenInv
<1>2. ASSUME Stall PROVE Inv'
  <2>1. background_scheduled_
    BY <1>i, <1>2 DEF Stall, MustWait, WorkIsScheduled, ClosingInv
  <2> QED BY <1>i, <1>2, <2>1 DEF Stall, memVars, versionVars, Inv, TypeOK, OneJobAtMost,
       StalledImpliesScheduled, NoMemtableLost, WorkIsScheduled, ClosingInv, WorkInv, GenInv
<1>3. ASSUME HaveRoom PROVE Inv'
  BY <1>i, <1>3 DEF HaveRoom, memVars, versionVars, Inv, TypeOK, OneJobAtMost,
       StalledImpliesScheduled, NoMemtableLost, WorkIsScheduled, ClosingInv, WorkInv, GenInv
<1>4. ASSUME SwitchMemtable PROVE Inv'
  <2>0. /\ wpc = "room" /\ background_ok /\ fill > MemLimit
        /\ UNCHANGED <<l0, deep, seek, seeks, bg, comp, closed_, dpc>>
    BY <1>4 DEF SwitchMemtable, versionVars
  <2>1. imm_ = 0 /\ ~(l0 >= StopWrites)
    BY <1>4 DEF SwitchMemtable, MustWait
  <2>2. CASE wpc' = "write" /\ UNCHANGED <<memVars, background_ok, background_scheduled_, jobs>>
    BY <1>i, <2>0, <2>2 DEF memVars, Inv, TypeOK, OneJobAtMost,
       StalledImpliesScheduled, NoMemtableLost, WorkIsScheduled, ClosingInv, WorkInv, GenInv
  <2>3. CASE /\ imm_' = mem_
             /\ mem_' = mem_ + 1
             /\ fill' = 0
             /\ background_ok' \in BOOLEAN
             /\ MayScheduleCompaction(background_scheduled_, background_ok', mem_,
                                      NeedCompaction(l0, deep, seek))
             /\ UNCHANGED <<wpc, flushed>>
    <3>1. mem_ \in 1..(MaxGen - 1) /\ mem_ # 0
      BY <1>i, <2>0 DEF GenInv, TypeOK
    <3>3. /\ OneJobAtMost'
          /\ background_scheduled_' \in BOOLEAN
          /\ jobs' \in Nat
          /\ ~closed_ /\ background_ok' => background_scheduled_'
      BY <1>i, <2>0, <2>3, <3>1, ScheduleKeepsOneJob
    <3>5. TypeOK'
      BY <1>i, <2>0, <2>3, <3>1, <3>3 DEF TypeOK
    <3>6. NoMemtableLost'
      BY <1>i, <2>1, <2>3, <3>1 DEF NoMemtableLost, TypeOK
    <3>7. WorkIsScheduled' /\ WorkInv'
      BY <1>i, <2>0, <2>3, <3>1, <3>3 DEF WorkIsScheduled, WorkInv
    <3>8. StalledImpliesScheduled' /\ ClosingInv' /\ GenInv'
      BY <1>i, <2>0, <2>3 DEF StalledImpliesScheduled, ClosingInv, GenInv
    <3> QED BY <3>3, <3>5, <3>6, <3>7, <3>8 DEF Inv
  <2> QED BY <1>4, <2>2, <2>3 DEF SwitchMemtable
<1>5. ASSUME Commit PROVE Inv'
  <2>1. fill' \in 0..(MemLimit + 1) /\ background_ok' \in BOOLEAN
        /\ (background_ok' => background_ok)
    <3>1. fill \in 0..(MemLimit + 1) /\ background_ok \in BOOLEAN
      BY <1>i DEF TypeOK
    <3>2. fill' = (IF fill > MemLimit THEN fill ELSE fill + 1) \/ fill' = fill
      BY <1>5 DEF Commit
    <3>3. fill' \in 0..(MemLimit + 1)
      BY <3>1, <3>2
    <3>4. background_ok' = background_ok \/ background_ok' = FALSE
      BY <1>5 DEF Commit
    <3>5. CASE background_ok' = background_ok
      BY <3>1, <3>3, <3>5
    <3>6. CASE background_ok' = FALSE
      BY <3>3, <3>6
    <3> QED BY <3>4, <3>5, <3>6
  <2>2. /\ wpc = "write" /\ wpc' = "out"
        /\ UNCHANGED <<mem_, imm_, flushed, l0, deep, seek, seeks, background_scheduled_, jobs,
                       bg, comp, closed_, dpc>>
    BY <1>5 DEF Commit, versionVars
  <2>3. TypeOK'
    BY <1>i, <2>1, <2>2 DEF TypeOK
  <2>4. WorkIsScheduled'
    BY <1>i, <2>1, <2>2 DEF WorkIsScheduled
  <2>5. OneJobAtMost' /\ NoMemtableLost' /\ ClosingInv' /\ WorkInv'
    BY <1>i, <2>2 DEF OneJobAtMost, NoMemtableLost, ClosingInv, WorkInv
  <2>6. StalledImpliesScheduled' /\ GenInv'
    BY <2>2 DEF StalledImpliesScheduled, GenInv
  <2> QED BY <2>3, <2>4, <2>5, <2>6 DEF Inv
<1>6. ASSUME GetAsksForCompaction PROVE Inv'
  <2>0. /\ dpc = "open" /\ seek' = TRUE /\ seeks' \in 0..MaxSeeks
        /\ UNCHANGED <<wpc, mem_, fill, imm_, flushed, l0, deep, background_ok, bg, comp,
                       closed_, dpc>>
    BY <1>i, <1>6 DEF GetAsksForCompaction, memVars, TypeOK
  <2>1. MayScheduleCompaction(background_scheduled_, background_ok, imm_, TRUE)
    BY <1>6 DEF GetAsksForCompaction
  <2>2. /\ OneJobAtMost'
        /\ background_scheduled_' \in BOOLEAN
        /\ jobs' \in Nat
        /\ background_scheduled_ => background_scheduled_'
    BY <1>i, <2>0, <2>1, ScheduleKeepsOneJob
  <2>3. TypeOK'
    BY <1>i, <2>0, <2>2 DEF TypeOK
  <2>4. StalledImpliesScheduled' /\ WorkIsScheduled'
    BY <1>i, <2>0, <2>2 DEF StalledImpliesScheduled, WorkIsScheduled
  <2>5. NoMemtableLost' /\ ClosingInv' /\ WorkInv' /\ GenInv'
    BY <1>i, <2>0 DEF NoMemtableLost, ClosingInv, WorkInv, GenInv
  <2> QED BY <2>2, <2>3, <2>4, <2>5 DEF Inv
<1>7. ASSUME Close PROVE Inv'
  BY <1>i, <1>7 DEF Close, WaitOrFree, memVars, versionVars, Inv, TypeOK, OneJobAtMost,
       StalledImpliesScheduled, NoMemtableLost, WorkIsScheduled, ClosingInv, WorkInv, GenInv
<1>8. ASSUME CloseWakes PROVE Inv'
  BY <1>i, <1>8 DEF CloseWakes, WaitOrFree, memVars, versionVars, Inv, TypeOK, OneJobAtMost,
       StalledImpliesScheduled, NoMemtableLost, WorkIsScheduled, ClosingInv, WorkInv, GenInv
<1>9. ASSUME SpuriousWakeup PROVE Inv'
  BY <1>i, <1>9 DEF SpuriousWakeup, SignalAll, memVars, versionVars, Inv, TypeOK, OneJobAtMost,
       StalledImpliesScheduled, NoMemtableLost, WorkIsScheduled, ClosingInv, WorkInv, GenInv
<1> QED BY <1>1, <1>2, <1>3, <1>4, <1>5, <1>6, <1>7, <1>8, <1>9 DEF WriterStep

\* Steps of the background thread.
LEMMA BackgroundStepInv == Inv /\ BackgroundStep => Inv'
<1> SUFFICES ASSUME Inv PROVE BackgroundStep => Inv'
  OBVIOUS
<1> USE BackgroundAssumption
<1>i. /\ TypeOK /\ OneJobAtMost /\ StalledImpliesScheduled /\ NoMemtableLost
      /\ WorkIsScheduled /\ ClosingInv /\ WorkInv /\ GenInv
  BY DEF Inv
<1>n. NoCompaction \in Compactions
  BY DEF NoCompaction, Compactions
\* The end of a job, whatever it did to the version and to the immutable memtable.
<1>r. ASSUME NEW ok \in BOOLEAN, bg # "none", Return(ok, imm_', NeedCompaction(l0', deep', seek')),
             background_ok' = ok, ok => background_ok,
             UNCHANGED <<mem_, fill, seeks, closed_>>,
             imm_' \in 0..MaxGen, flushed' \subseteq 1..MaxGen,
             l0' \in Nat, deep' \in 0..MaxDeep, seek' \in BOOLEAN,
             NoMemtableLost'
      PROVE  Inv'
  <2>1. /\ background_scheduled_' \in BOOLEAN
        /\ jobs' \in Nat
        /\ OneJobAtMost'
        /\ ~closed_ /\ ok /\ (imm_' # 0 \/ NeedCompaction(l0', deep', seek'))
             => background_scheduled_'
        /\ closed_ => ~background_scheduled_'
        /\ bg' = "none" /\ comp' = NoCompaction
        /\ wpc' # "stalled" /\ wpc' \in {wpc, "room"} /\ (wpc' # wpc => wpc = "stalled")
        /\ dpc' \in {dpc, "awake"} /\ dpc' # "waiting" /\ (dpc' # dpc => dpc = "waiting")
    BY <1>r, ReturnFacts
  <2>2. TypeOK'
    <3>1. /\ wpc' \in {"out", "room", "stalled", "write"}
          /\ dpc' \in {"open", "waiting", "awake", "freed"}
          /\ bg' \in BgStates /\ comp' \in Compactions
      BY <1>i, <1>n, <2>1 DEF TypeOK, BgStates
    <3> QED BY <1>i, <1>r, <2>1, <3>1 DEF TypeOK
  <2>3. WorkIsScheduled'
    <3>1. l0' >= StopWrites => NeedCompaction(l0', deep', seek')
      BY <1>r, StopNeedsCompaction
    <3> QED BY <1>r, <2>1, <3>1 DEF WorkIsScheduled
  <2>4. ClosingInv'
    <3>1. closed_' = closed_ /\ (closed_ <=> dpc # "open") /\ (closed_ => wpc = "out")
      BY <1>i, <1>r DEF ClosingInv
    <3>2. dpc' # "open" <=> dpc # "open"
      BY <2>1
    <3>3. closed_ => wpc' = "out"
      BY <2>1, <3>1
    <3>4. dpc' = "freed" => ~background_scheduled_'
      BY <2>1, <3>1, <3>2
    <3> QED BY <3>1, <3>2, <3>3, <3>4 DEF ClosingInv
  <2>5. WorkInv'
    BY <2>1 DEF WorkInv
  <2>6. GenInv'
    BY <1>i, <1>r, <2>1 DEF GenInv
  <2>7. StalledImpliesScheduled'
    BY <2>1 DEF StalledImpliesScheduled
  <2> QED BY <1>r, <2>1, <2>2, <2>3, <2>4, <2>5, <2>6, <2>7 DEF Inv
\* A job that goes on, releasing nobody.
<1>s. ASSUME bg' \in BgStates, bg # "none", bg' # "none", comp' \in Compactions, WorkInv',
             UNCHANGED <<wpc, mem_, fill, imm_, flushed, l0, deep, seek, seeks,
                         background_scheduled_, background_ok, jobs, closed_, dpc>>
      PROVE  Inv'
  <2>1. TypeOK'
    BY <1>i, <1>s DEF TypeOK
  <2>2. OneJobAtMost'
    BY <1>i, <1>s DEF OneJobAtMost
  <2>3. /\ StalledImpliesScheduled' /\ NoMemtableLost' /\ WorkIsScheduled'
        /\ ClosingInv' /\ GenInv'
    BY <1>i, <1>s DEF StalledImpliesScheduled, NoMemtableLost, WorkIsScheduled, ClosingInv, GenInv
  <2> QED BY <1>s, <2>1, <2>2, <2>3 DEF Inv
\* A flush inside a compaction ends: the loop wakes the waiters and goes on.
<1>m. ASSUME Nested, SignalAll, bg' = "merge", background_ok' \in BOOLEAN,
             background_ok' => background_ok,
             UNCHANGED <<mem_, fill, deep, seeks, background_scheduled_, jobs, comp, closed_>>,
             imm_' \in 0..MaxGen, flushed' \subseteq 1..MaxGen,
             l0' \in Nat, l0' >= l0, seek' \in BOOLEAN,
             NoMemtableLost'
      PROVE  Inv'
  <2>0. bg # "none" /\ comp.from0 <= l0 /\ comp.from0 \in Nat /\ l0 \in Nat
    BY <1>i, <1>m DEF Nested, WorkInv, TypeOK, Compactions
  <2>1. background_scheduled_ /\ background_scheduled_'
    BY <1>i, <1>m, <2>0 DEF OneJobAtMost, TypeOK
  <2>2. /\ wpc' # "stalled" /\ wpc' \in {wpc, "room"} /\ (wpc' # wpc => wpc = "stalled")
        /\ dpc' \in {dpc, "awake"} /\ dpc' # "waiting" /\ (dpc' # dpc => dpc = "waiting")
    BY <1>m DEF SignalAll
  <2>3. TypeOK'
    <3>1. /\ wpc' \in {"out", "room", "stalled", "write"}
          /\ dpc' \in {"open", "waiting", "awake", "freed"}
          /\ bg' \in BgStates
      BY <1>i, <1>m, <2>2 DEF TypeOK, BgStates
    <3> QED BY <1>i, <1>m, <3>1 DEF TypeOK
  <2>4. OneJobAtMost'
    BY <1>i, <1>m, <2>0 DEF OneJobAtMost
  <2>5. WorkIsScheduled' /\ StalledImpliesScheduled'
    BY <2>1, <2>2 DEF WorkIsScheduled, StalledImpliesScheduled
  <2>6. ClosingInv'
    <3>1. closed_' = closed_ /\ (closed_ <=> dpc # "open") /\ (closed_ => wpc = "out")
      BY <1>i, <1>m DEF ClosingInv
    <3>2. dpc # "freed"
      BY <1>i, <2>1 DEF ClosingInv
    <3>3. dpc' # "freed" /\ (dpc' # "open" <=> dpc # "open") /\ (closed_ => wpc' = "out")
      BY <2>2, <3>1, <3>2
    <3> QED BY <3>1, <3>3 DEF ClosingInv
  <2>7. WorkInv'
    BY <1>m, <2>0 DEF WorkInv
  <2>8. GenInv'
    BY <1>i, <1>m, <2>2 DEF GenInv
  <2> QED BY <1>m, <2>3, <2>4, <2>5, <2>6, <2>7, <2>8 DEF Inv
\* Nothing about the immutable memtable changed.
<1>u. ASSUME UNCHANGED <<mem_, imm_, flushed>> PROVE NoMemtableLost'
  BY <1>i, <1>u DEF NoMemtableLost
<1>f. ASSUME FlushFailed, bg \in {"build", "nested_build", "install", "nested_install"},
             UNCHANGED <<seeks, closed_>>
      PROVE  Inv'
  <2>1. /\ background_ok' = FALSE
        /\ UNCHANGED <<mem_, fill, imm_, flushed, l0, deep, seek>>
    BY <1>f DEF FlushFailed, memVars, versionVars
  <2>2. imm_' \in 0..MaxGen /\ flushed' \subseteq 1..MaxGen /\ l0' \in Nat /\ l0' >= l0
        /\ deep' \in 0..MaxDeep /\ seek' \in BOOLEAN
    BY <1>i, <2>1 DEF TypeOK
  <2>3. CASE Nested
    <3>1. SignalAll /\ bg' = "merge" /\ UNCHANGED <<background_scheduled_, jobs, comp>>
      BY <1>f, <2>3 DEF FlushFailed
    <3> QED BY <1>f, <1>m, <1>u, <2>1, <2>2, <2>3, <3>1
  <2>4. CASE ~Nested
    <3>1. Return(FALSE, imm_', NeedCompaction(l0', deep', seek'))
      <4>1. Return(FALSE, imm_, NeedCompaction(l0, deep, seek))
        BY <1>f, <2>4 DEF FlushFailed
      <4>2. imm_' = imm_ /\ l0' = l0 /\ deep' = deep /\ seek' = seek
        BY <2>1
      <4> QED BY <4>1, <4>2
    <3> QED BY <1>f, <1>r, <1>u, <2>1, <2>2, <3>1
  <2> QED BY <2>3, <2>4
<1>1. ASSUME TakeJob PROVE Inv'
  <2>0. /\ bg = "none" /\ jobs > 0 /\ jobs' = jobs - 1 /\ bg' = "call"
        /\ UNCHANGED <<wpc, mem_, fill, imm_, flushed, l0, deep, seek, seeks,
                       background_scheduled_, background_ok, comp, closed_, dpc>>
    BY <1>1 DEF TakeJob, memVars, versionVars
  <2>1. TypeOK'
    BY <1>i, <2>0 DEF TypeOK, BgStates
  <2>2. OneJobAtMost'
    <3>1. jobs \in Nat
      BY <1>i DEF TypeOK
    <3> QED BY <1>i, <2>0, <3>1 DEF OneJobAtMost
  <2>3. /\ StalledImpliesScheduled' /\ NoMemtableLost' /\ WorkIsScheduled'
        /\ ClosingInv' /\ WorkInv' /\ GenInv'
    BY <1>i, <2>0 DEF StalledImpliesScheduled, NoMemtableLost, WorkIsScheduled, ClosingInv,
         WorkInv, GenInv
  <2> QED BY <2>1, <2>2, <2>3 DEF Inv
<1>2. ASSUME CallReturns PROVE Inv'
  <2>1. /\ bg # "none"
        /\ Return(background_ok, imm_, NeedCompaction(l0, deep, seek))
        /\ UNCHANGED <<mem_, fill, imm_, flushed, l0, deep, seek, seeks, background_ok, closed_>>
    BY <1>2 DEF CallReturns, memVars, versionVars
  <2>2. Return(background_ok, imm_', NeedCompaction(l0', deep', seek'))
    BY <2>1
  <2>3. imm_' \in 0..MaxGen /\ flushed' \subseteq 1..MaxGen /\ l0' \in Nat
        /\ deep' \in 0..MaxDeep /\ seek' \in BOOLEAN /\ background_ok \in BOOLEAN
    BY <1>i, <2>1 DEF TypeOK
  <2> QED BY <1>r, <1>u, <2>1, <2>2, <2>3
<1>3. ASSUME CallWorks PROVE Inv'
  <2>0. /\ bg = "call"
        /\ UNCHANGED <<wpc, mem_, fill, imm_, flushed, l0, deep, seek, seeks,
                       background_scheduled_, background_ok, jobs, closed_, dpc>>
    BY <1>3 DEF CallWorks, memVars, versionVars
  <2>1. CASE imm_ # 0 /\ bg' = "build" /\ UNCHANGED comp
    <3>1. comp' \in Compactions /\ bg' \in BgStates
      BY <1>i, <2>1 DEF TypeOK, BgStates
    <3>2. WorkInv'
      BY <2>0, <2>1 DEF WorkInv
    <3> QED BY <1>s, <2>0, <2>1, <3>1, <3>2
  <2>2. CASE \E k \in PickedFrom0, n \in 0..MaxEntries :
               /\ comp' = [from0 |-> k, left |-> n]
               /\ \/ bg' = "merge"
                  \/ k <= 1 /\ bg' = "apply"
    <3>1. PICK k \in PickedFrom0, n \in 0..MaxEntries :
            comp' = [from0 |-> k, left |-> n] /\ bg' \in {"merge", "apply"}
      BY <2>2
    <3>2. k \in Nat /\ k <= l0
      <4>1. l0 \in Nat
        BY <1>i DEF TypeOK
      <4>2. k \in 0..l0
        BY <4>1 DEF PickedFrom0
      <4> QED BY <4>1, <4>2
    <3>3. comp' \in Compactions /\ bg' \in BgStates /\ comp'.from0 = k
      BY <3>1, <3>2 DEF Compactions, BgStates
    <3>4. WorkInv'
      BY <2>0, <3>1, <3>2, <3>3 DEF WorkInv
    <3> QED BY <1>s, <2>0, <3>1, <3>3, <3>4
  <2> QED BY <1>3, <2>1, <2>2 DEF CallWorks
<1>4. ASSUME FlushBuilt PROVE Inv'
  <2>0. bg \in {"build", "nested_build"} /\ UNCHANGED <<seeks, closed_>>
    BY <1>4 DEF FlushBuilt
  <2>1. CASE FlushFailed
    BY <1>f, <2>0, <2>1
  <2>2. CASE /\ bg' = IF Nested THEN "nested_install" ELSE "install"
             /\ UNCHANGED <<wpc, memVars, versionVars, background_scheduled_,
                            background_ok, jobs, comp, dpc>>
    <3>1. UNCHANGED <<wpc, mem_, fill, imm_, flushed, l0, deep, seek,
                      background_scheduled_, background_ok, jobs, comp, dpc>>
      BY <2>2 DEF memVars, versionVars
    <3>2. comp' \in Compactions /\ bg' \in BgStates /\ bg' # "none" /\ bg # "none"
      BY <1>i, <2>0, <2>2, <3>1 DEF TypeOK, BgStates
    <3>3. WorkInv'
      BY <1>i, <2>0, <2>2, <3>1 DEF WorkInv, Nested
    <3> QED BY <1>s, <2>0, <3>1, <3>2, <3>3
  <2> QED BY <1>4, <2>1, <2>2 DEF FlushBuilt
<1>5. ASSUME FlushInstalled PROVE Inv'
  <2>0. bg \in {"install", "nested_install"} /\ UNCHANGED <<seeks, closed_>>
    BY <1>5 DEF FlushInstalled
  <2>1. CASE FlushFailed
    BY <1>f, <2>0, <2>1
  <2>2. CASE /\ imm_' = 0
             /\ flushed' = flushed \cup {imm_}
             /\ l0' = l0 + 1
             /\ seek' = FALSE
             /\ IF Nested
                  THEN SignalAll /\ bg' = "merge" /\ UNCHANGED <<background_scheduled_, jobs, comp>>
                  ELSE Return(background_ok, 0, NeedCompaction(l0 + 1, deep, FALSE))
             /\ UNCHANGED <<mem_, fill, deep, background_ok>>
    <3>1. imm_ \in 1..MaxGen /\ l0 \in Nat /\ background_ok \in BOOLEAN
      BY <1>i, <2>0 DEF TypeOK, WorkInv
    <3>2. imm_' \in 0..MaxGen /\ flushed' \subseteq 1..MaxGen /\ l0' \in Nat /\ l0' >= l0
          /\ deep' \in 0..MaxDeep /\ seek' \in BOOLEAN
      <4>1. flushed \subseteq 1..MaxGen /\ deep \in 0..MaxDeep
        BY <1>i DEF TypeOK
      <4>2. flushed' \subseteq 1..MaxGen
        BY <2>2, <3>1, <4>1
      <4>3. imm_' \in 0..MaxGen /\ l0' \in Nat /\ l0' >= l0 /\ deep' \in 0..MaxDeep
        BY <2>2, <3>1, <4>1
      <4>4. seek' \in BOOLEAN
        BY <2>2
      <4> QED BY <4>2, <4>3, <4>4
    <3>3. NoMemtableLost'
      BY <1>i, <2>2 DEF NoMemtableLost
    <3>4. CASE Nested
      BY <1>m, <2>0, <2>2, <3>1, <3>2, <3>3, <3>4
    <3>5. CASE ~Nested
      <4>1. Return(background_ok, imm_', NeedCompaction(l0', deep', seek'))
        BY <2>2, <3>5
      <4> QED BY <1>r, <2>0, <2>2, <3>1, <3>2, <3>3, <4>1
    <3> QED BY <3>4, <3>5
  <2> QED BY <1>5, <2>1, <2>2 DEF FlushInstalled
<1>6. ASSUME MergeIterates PROVE Inv'
  <2>0. /\ bg = "merge" /\ comp.left > 0
        /\ comp' = [from0 |-> comp.from0, left |-> comp.left - 1]
        /\ bg' = IF imm_ # 0 THEN "nested_build" ELSE "merge"
        /\ UNCHANGED <<wpc, mem_, fill, imm_, flushed, l0, deep, seek, seeks,
                       background_scheduled_, background_ok, jobs, closed_, dpc>>
    BY <1>6 DEF MergeIterates, memVars, versionVars
  <2>1. comp.from0 \in Nat /\ comp.left \in 0..MaxEntries /\ comp.from0 <= l0
    BY <1>i, <2>0 DEF TypeOK, Compactions, WorkInv
  <2>2. comp' \in Compactions /\ comp'.from0 = comp.from0
    BY <2>0, <2>1 DEF Compactions
  <2>3. bg' \in BgStates /\ bg' # "none" /\ bg # "none"
    BY <2>0 DEF BgStates
  <2>4. WorkInv'
    BY <2>0, <2>1, <2>2 DEF WorkInv
  <2> QED BY <1>s, <2>0, <2>2, <2>3, <2>4
<1>7. ASSUME MergeEnds PROVE Inv'
  <2>0. bg = "merge" /\ UNCHANGED <<mem_, fill, imm_, flushed, l0, deep, seek, seeks, closed_>>
    BY <1>7 DEF MergeEnds, memVars, versionVars
  <2>1. CASE background_ok' = FALSE /\ Return(FALSE, imm_, NeedCompaction(l0, deep, seek))
    <3>1. Return(FALSE, imm_', NeedCompaction(l0', deep', seek'))
      BY <2>0, <2>1
    <3>2. imm_' \in 0..MaxGen /\ flushed' \subseteq 1..MaxGen /\ l0' \in Nat
          /\ deep' \in 0..MaxDeep /\ seek' \in BOOLEAN
      BY <1>i, <2>0 DEF TypeOK
    <3> QED BY <1>r, <1>u, <2>0, <2>1, <3>1, <3>2
  <2>2. CASE /\ bg' = "apply"
             /\ UNCHANGED <<wpc, background_scheduled_, background_ok, jobs, comp, dpc>>
    <3>1. comp' \in Compactions /\ bg' \in BgStates
      BY <1>i, <2>2 DEF TypeOK, BgStates
    <3>2. WorkInv'
      BY <1>i, <2>0, <2>2 DEF WorkInv
    <3> QED BY <1>s, <2>0, <2>2, <3>1, <3>2
  <2> QED BY <1>7, <2>1, <2>2 DEF MergeEnds
<1>8. ASSUME CompactionApplied PROVE Inv'
  <2>0. bg = "apply" /\ UNCHANGED <<mem_, fill, imm_, flushed, seeks, closed_>>
    BY <1>8 DEF CompactionApplied, memVars
  <2>1. imm_' \in 0..MaxGen /\ flushed' \subseteq 1..MaxGen /\ l0 \in Nat
        /\ deep \in 0..MaxDeep /\ seek \in BOOLEAN /\ background_ok \in BOOLEAN
    BY <1>i, <2>0 DEF TypeOK
  <2>2. CASE /\ background_ok' = FALSE
             /\ Return(FALSE, imm_, NeedCompaction(l0, deep, seek))
             /\ UNCHANGED versionVars
    <3>1. UNCHANGED <<l0, deep, seek>>
      BY <2>2 DEF versionVars
    <3>2. Return(FALSE, imm_', NeedCompaction(l0', deep', seek'))
      BY <2>0, <2>2, <3>1
    <3> QED BY <1>r, <1>u, <2>0, <2>1, <2>2, <3>1, <3>2
  <2>3. CASE /\ l0' = l0 - comp.from0
             /\ deep' \in 0..MaxDeep
             /\ seek' = FALSE
             /\ Return(background_ok, imm_, NeedCompaction(l0', deep', FALSE))
             /\ UNCHANGED background_ok
    <3>1. comp.from0 \in Nat /\ comp.from0 <= l0
      BY <1>i, <2>0 DEF TypeOK, Compactions, WorkInv
    <3>2. l0' \in Nat
      BY <2>1, <2>3, <3>1
    <3>3. Return(background_ok, imm_', NeedCompaction(l0', deep', seek'))
      BY <2>0, <2>3
    <3> QED BY <1>r, <1>u, <2>0, <2>1, <2>3, <3>2, <3>3
  <2> QED BY <1>8, <2>2, <2>3 DEF CompactionApplied
<1> QED BY <1>1, <1>2, <1>3, <1>4, <1>5, <1>6, <1>7, <1>8 DEF BackgroundStep

----------------------------------------------------------------------------
\* The inductive invariant of background scheduling holds in every session that
\* opens with fewer level-0 files than KL0_StopWriteThreshold.
THEOREM Invariance == RecoveredBelowLimit /\ Spec => []Inv
<1>1. RecoveredBelowLimit /\ Init => Inv
  BY InitInv
<1>2. Inv /\ [Next]_vars => Inv'
  <2>1. CASE UNCHANGED vars
    BY <2>1 DEF vars, Inv, TypeOK, OneJobAtMost, StalledImpliesScheduled, NoMemtableLost,
         WorkIsScheduled, ClosingInv, WorkInv, GenInv
  <2> QED BY <2>1, ForegroundStep, BackgroundStepInv DEF Next
<1> QED BY <1>1, <1>2, PTL DEF Spec

\* Every variable keeps its type: no counter of files, jobs or generations leaves
\* its range.
THEOREM TypeCorrect == RecoveredBelowLimit /\ Spec => []TypeOK
<1>1. Inv => TypeOK
  BY DEF Inv
<1> QED BY <1>1, Invariance, PTL

\* background_scheduled_ says exactly whether the one job is queued or running.
THEOREM OneJob == RecoveredBelowLimit /\ Spec => []OneJobAtMost
<1>1. Inv => OneJobAtMost
  BY DEF Inv
<1> QED BY <1>1, Invariance, PTL

\* The destructor never frees the database under a queued or running job.
THEOREM JobsEndBeforeFree == RecoveredBelowLimit /\ Spec => []NoJobOutlivesDB
<1>1. Inv => NoJobOutlivesDB
  <2> SUFFICES ASSUME Inv, dpc = "freed" PROVE jobs = 0 /\ bg = "none"
    BY DEF NoJobOutlivesDB
  <2>1. ~background_scheduled_ /\ jobs \in Nat
    BY DEF Inv, ClosingInv, TypeOK
  <2> QED BY <2>1 DEF Inv, OneJobAtMost
<1> QED BY <1>1, Invariance, PTL

\* A writer that waits in MakeRoomForWrite waits for a job that exists.
THEOREM StallsAreServed == RecoveredBelowLimit /\ Spec => []StalledImpliesScheduled
<1>1. Inv => StalledImpliesScheduled
  BY DEF Inv
<1> QED BY <1>1, Invariance, PTL

\* No memtable that was filled is overwritten before it is in an SSTable.
THEOREM MemtablesAreKept == RecoveredBelowLimit /\ Spec => []NoMemtableLost
<1>1. Inv => NoMemtableLost
  BY DEF Inv
<1> QED BY <1>1, Invariance, PTL
=============================================================================
