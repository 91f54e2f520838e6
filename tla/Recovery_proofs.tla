-------------------------- MODULE Recovery_proofs ---------------------------
(***************************************************************************)
(* Proofs about Recovery, for every memtable size, compaction threshold    *)
(* and bound, with any number of crashes in any places.                    *)
(*                                                                         *)
(* The argument: each meta state a crash may leave behind CURRENT, the     *)
(* version in memory and the version the running LogAndApply is about to   *)
(* make are all Sound: their files exist and, with the logs they keep,     *)
(* hold what has been acknowledged.                                        *)
(***************************************************************************)
EXTENDS Recovery, SequenceTheorems, FiniteSetTheorems, TLAPS

----------------------------------------------------------------------------
(* Entries found in SSTables T, and in logs L from number min on.          *)

InFiles(T, fs, s) == \E f \in fs : s \in T[f[2]]
InLogs(L, min, s) == \E n \in DOMAIN L : n >= min /\ \E i \in 1..Len(L[n].recs) : s = L[n].recs[i]
InSynced(L, min, s) == \E n \in DOMAIN L : n >= min /\ \E i \in 1..L[n].synced : s = L[n].recs[i]

\* Records ascend within a log and from one log to the next.
Ascending(L, min) ==
  \A n, m \in DOMAIN L : min <= n /\ n <= m =>
    \A i \in 1..Len(L[n].recs), j \in 1..Len(L[m].recs) : n < m \/ i < j => L[n].recs[i] < L[m].recs[j]

\* A version is sound when DB::Open could start from it: its numbers are in order, its
\* files exist and hold entries its last sequence covers, and, with the logs it
\* keeps, hold what is promised and what is acknowledged.
FileOk(T, v, f) ==
  /\ f \in {0, 1} \X Nat
  /\ f[2] \in DOMAIN T /\ f[2] < v.next
  /\ f[1] = 0 => T[f[2]] # {}
  /\ \A s \in T[f[2]] : s \in Nat /\ s <= v.seq

Numbers(c, v) ==
  /\ v.log \in Nat /\ v.seq \in Nat /\ v.next \in Nat
  /\ v.log < v.next /\ c < v.next

Sound(c, L, T, v, p, a) ==
  /\ Numbers(c, v)
  /\ \A f \in v.files : FileOk(T, v, f)
  /\ Ascending(L, v.log)
  /\ \A s \in p : InFiles(T, v.files, s) \/ InSynced(L, v.log, s)
  /\ \A s \in a : InFiles(T, v.files, s) \/ InLogs(L, v.log, s)

\* The newest entry of the files is in the last file of level 0, if there is one, and
\* no newer than the newest record of the logs, if there is one.
IsTop(fs, g) == g \in fs /\ g[1] = 0 /\ \A h \in fs : h[1] = 0 => h[2] <= g[2]
Layered(T, fs) ==
  /\ \A f, g \in fs : f[1] = 1 /\ g[1] = 1 => f = g
  /\ \A g \in fs : IsTop(fs, g) => \A s : InFiles(T, fs, s) => \E t \in T[g[2]] : s <= t
Covered(L, T, v) ==
  \A s, r : InFiles(T, v.files, s) /\ InLogs(L, v.log, r) => \E t : InLogs(L, v.log, t) /\ s <= t
Ordered(L, T, v) == Layered(T, v.files) /\ Covered(L, T, v)

----------------------------------------------------------------------------
(* The inductive invariant.                                                *)

Edits == [log : Int, seq : Int, next : Int, added : SUBSET (Nat \X Nat), deleted : SUBSET (Nat \X Nat)]
Versions == [log : Nat, meta : Nat, next : Nat, seq : Nat, files : SUBSET (Nat \X Nat)]
Todos == [logs : SUBSET Nat, at : Nat, max : Nat]
Phases == {"none", "add", "sync", "set_current", "install"}
Labels == {"down", "initialize", "set_current", "recover", "replay", "log_and_apply", "up"}

LogFile(x) == x \in [recs : Seq(Nat), synced : Nat] /\ x.synced <= Len(x.recs)
MetaFile(x) == x \in [recs : Seq(Edits), synced : Nat] /\ x.synced <= Len(x.recs)
LogsOk(L) == \A n \in DOMAIN L : n \in Nat /\ LogFile(L[n])
MetasOk(M) == \A n \in DOMAIN M : n \in Nat /\ MetaFile(M[n])
TypeOK ==
  /\ current \in Nat
  /\ MetasOk(meta)
  /\ LogsOk(log)
  /\ vs \in Versions
  /\ edit \in Edits
  /\ todo \in Todos
  /\ mem \in SUBSET Nat /\ imm \in SUBSET Nat
  /\ logfile \in Nat
  /\ pc \in Labels
  /\ apply \in Phases

Kept == promised \ dropped
Told == acked \ dropped

FirstMeta == [recs |-> <<FirstEdit>>, synced |-> 1]

\* Where the thread that opens the database is, and what CURRENT and LogAndApply are then.
PcInv ==
  /\ current = 0 => pc \in {"down", "initialize", "set_current"} /\ DOMAIN log = {} /\ Kept = {} /\ Told = {}
  /\ pc = "initialize" => current = 0
  /\ pc = "set_current" => current = 0 /\ 1 \in DOMAIN meta /\ meta[1] = FirstMeta
  /\ apply # "none" => pc \in {"log_and_apply", "up"}
  /\ pc = "log_and_apply" => apply # "none"
  /\ apply = "set_current" => pc = "log_and_apply"

\* What a crash may leave of a meta file: its first k0 records, or more.
AllSound(c, recs, k0, L, T, p, a) ==
  \A k \in k0..Len(recs) : Sound(c, L, T, StateAfter(recs, k), p, a)
AllOrdered(recs, k0, L, T) ==
  \A k \in k0..Len(recs) : Ordered(L, T, StateAfter(recs, k))
AllUpTo(recs, k0, v) ==
  \A k \in k0..Len(recs) : StateAfter(recs, k).log = v.log /\ StateAfter(recs, k).next <= v.next
AllCovered(recs, k0, v) ==
  \A k \in k0..Len(recs) : StateAfter(recs, k).seq <= v.seq

LastState(n) == StateAfter(meta[n].recs, Len(meta[n].recs))

\* Every meta state a crash may leave.
DiskInv ==
  current # 0 =>
    /\ current \in DOMAIN meta
    /\ AllSound(current, meta[current].recs, meta[current].synced, log, sst, Kept, Told)
    /\ ~cut => AllOrdered(meta[current].recs, meta[current].synced, log, sst)
    /\ AllUpTo(meta[current].recs, meta[current].synced, LastState(current))

\* The version in memory.
VersionInv ==
  pc \in {"replay", "up"} =>
    /\ Sound(current, log, sst, vs, Kept, Told)
    /\ ~cut => Ordered(log, sst, vs)

\* DB::Open has made SSTables fs of the records read so far; td is what is left to read.
IsRead(L, min, td, n, i) ==
  /\ n \in DOMAIN L /\ n >= min /\ i \in 1..Len(L[n].recs)
  /\ n \in td.logs => n = NextToReplay(td.logs) /\ i <= td.at

LogsLeft(L, min, next, td) ==
  /\ \A n \in td.logs : n \in DOMAIN L /\ n >= min
  /\ \A n \in DOMAIN L : n >= min /\ n \notin td.logs => n < next /\ \A m \in td.logs : n < m
  /\ td.logs # {} => td.at <= Len(L[NextToReplay(td.logs)].recs)

AddedOk(T, fs, low, next) ==
  \A f \in fs : /\ f \in {0} \X Nat /\ f[2] \in DOMAIN T
                /\ low < f[2] /\ f[2] < next /\ T[f[2]] # {}

Replayed(L, T, min, td, fs) ==
  /\ \A n \in DOMAIN L, i \in Nat : IsRead(L, min, td, n, i) =>
       /\ InFiles(T, fs, L[n].recs[i])
       /\ L[n].recs[i] < td.max
       /\ \A g \in fs : IsTop(fs, g) => \E t \in T[g[2]] : L[n].recs[i] <= t
  /\ \A s : InFiles(T, fs, s) => \E n \in DOMAIN L, i \in Nat : IsRead(L, min, td, n, i) /\ s = L[n].recs[i]

ReplayInv ==
  pc = "replay" =>
    /\ vs.log = LastState(current).log /\ vs.meta = LastState(current).next /\ vs.meta < vs.next
    /\ \A f \in vs.files : f[2] < vs.meta
    /\ edit.deleted = {}
    /\ AddedOk(sst, edit.added, vs.meta, vs.next)
    /\ LogsLeft(log, vs.log, vs.next, todo)
    /\ Replayed(log, sst, vs.log, todo, edit.added)

\* The version the edit makes.
Applied ==
  [log |-> edit.log, seq |-> edit.seq, next |-> edit.next, files |-> (vs.files \ edit.deleted) \cup edit.added]

ApplyInv ==
  apply # "none" =>
    /\ Sound(vs.meta, log, sst, Applied, Kept, Told)
    /\ ~cut => Ordered(log, sst, Applied)
    /\ edit.seq <= vs.seq /\ edit.next <= vs.next
    /\ vs.meta \in DOMAIN meta
    /\ apply = "add" => LastState(vs.meta).files = vs.files
    /\ apply # "add" => LastState(vs.meta) = Applied
    /\ apply \in {"set_current", "install"} => meta[vs.meta].synced = Len(meta[vs.meta].recs)
    /\ apply = "install" => current = vs.meta

\* DB::Open writes a new meta file and has made the new log.
OpenInv ==
  pc = "log_and_apply" =>
    /\ apply # "install" => current < vs.meta
    /\ edit.deleted = {} /\ edit.log = logfile
    /\ logfile \in DOMAIN log /\ log[logfile].recs = <<>>
    /\ \A n \in DOMAIN log : n <= logfile
    /\ logfile < vs.next
    /\ mem = {} /\ imm = {}

\* The memtables of the open database are newer than its files, and in its logs.
UpInv ==
  pc = "up" =>
    /\ current = vs.meta
    /\ apply \in {"none", "add"} => LastState(current).files = vs.files /\ meta[current].synced = Len(meta[current].recs)
    /\ AllUpTo(meta[current].recs, meta[current].synced, vs)
    /\ AllCovered(meta[current].recs, meta[current].synced, vs)
    /\ apply # "none" => edit.log = vs.log
    /\ apply = "add" => LastState(current).next <= edit.next
    /\ logfile \in DOMAIN log /\ logfile >= vs.log /\ logfile < vs.next
    /\ \A n \in DOMAIN log : n <= logfile
    /\ \A s : InLogs(log, vs.log, s) => s <= vs.seq
    /\ \A s \in mem \cup imm : InLogs(log, vs.log, s)
    /\ \A s \in imm, t \in mem : s < t
    /\ \A s, t : InFiles(sst, vs.files, s) /\ t \in mem \cup imm => s < t
    /\ apply # "none" => \A s : InFiles(sst, Applied.files, s) =>
                            InFiles(sst, vs.files, s) \/ (edit.deleted = {} /\ s \in imm)

IInv ==
  /\ TypeOK /\ PcInv /\ DiskInv /\ VersionInv /\ ReplayInv /\ ApplyInv /\ OpenInv /\ UpInv

----------------------------------------------------------------------------
(* Sets of numbers.                                                        *)

Below == {p \in Nat \X Nat : p[1] < p[2]}

\* Every nonempty set of naturals has a least element.
LEMMA LeastNatural ==
  ASSUME NEW S \in SUBSET Nat, S # {}
  PROVE  \E m \in S : \A k \in S : m <= k
<1>1. OpToRel(<, Nat) = Below
  BY DEF OpToRel, Below
<1>2. IsWellFoundedOn(OpToRel(<, Nat), Nat)
  BY NatLessThanWellFounded
<1>3. PICK m \in S : \A k \in S : ~(<<k, m>> \in Below)
  BY <1>1, <1>2, WFMin
<1>4. ASSUME NEW k \in S
      PROVE  m <= k
  <2>1. <<k, m>> \notin Below
    BY <1>3
  <2>2. k \in Nat /\ m \in Nat
    OBVIOUS
  <2> QED
    BY <2>1, <2>2 DEF Below
<1> QED
  BY <1>4

\* A nonempty set of naturals below a bound has a greatest element.
LEMMA MaxOf ==
  ASSUME NEW S \in SUBSET Nat, S # {}, NEW b \in Nat, \A s \in S : s <= b
  PROVE  Max(S) \in S /\ \A s \in S : s <= Max(S)
<1> DEFINE D == {d \in Nat : \E s \in S : d = b - s}
<1>1. D \in SUBSET Nat /\ D # {}
  <2>1. PICK s \in S : TRUE
    OBVIOUS
  <2>2. b - s \in D
    BY <2>1
  <2> QED
    BY <2>2
<1>2. PICK d \in D : \A k \in D : d <= k
  <2> HIDE DEF D
  <2> QED
    BY <1>1, LeastNatural
<1>3. PICK m \in S : d = b - m
  BY <1>2
<1>4. ASSUME NEW s \in S
      PROVE  m >= s
  <2>1. b - s \in D /\ s \in Nat /\ m \in Nat
    OBVIOUS
  <2>2. b - m <= b - s
    BY <1>2, <1>3, <2>1
  <2> QED
    BY <2>1, <2>2
<1>5. \E x \in S : \A y \in S : x >= y
  BY <1>4
<1>6. Max(S) \in S /\ \A y \in S : Max(S) >= y
  BY <1>5 DEF Max
<1> QED
  BY <1>6

LEMMA MinOf ==
  ASSUME NEW S \in SUBSET Nat, S # {}
  PROVE  NextToReplay(S) \in S /\ \A s \in S : NextToReplay(S) <= s
<1>1. \E m \in S : \A k \in S : m <= k
  BY LeastNatural
<1> QED
  BY <1>1 DEF NextToReplay, Min

LEMMA MaxOfTwo ==
  ASSUME NEW a \in Nat, NEW b \in Nat
  PROVE  Max({a, b}) \in {a, b} /\ a <= Max({a, b}) /\ b <= Max({a, b})
BY DEF Max

LEMMA MinOfTwo ==
  ASSUME NEW a \in Nat, NEW b \in Nat
  PROVE  Min({a, b}) \in {a, b} /\ Min({a, b}) <= a /\ Min({a, b}) <= b
BY DEF Min

----------------------------------------------------------------------------
(* What the records of a meta file add up to.                              *)

IsReading(recs, k, f) ==
  f = [i \in 0..k |-> IF i = 0 THEN NothingRead ELSE ApplyEdit(f[i - 1], recs[i])]

LEMMA ReadingExists ==
  ASSUME NEW recs, NEW n \in Nat
  PROVE  \E f : IsReading(recs, n, f)
<1> DEFINE Bad == {k \in Nat : ~ \E f : IsReading(recs, k, f)}
<1>1. SUFFICES ASSUME Bad # {}
               PROVE  FALSE
  OBVIOUS
<1>2. PICK m \in Bad : \A k \in Bad : m <= k
  <2>1. Bad \in SUBSET Nat
    OBVIOUS
  <2> HIDE DEF Bad
  <2> QED
    BY <1>1, <2>1, LeastNatural
<1>3. m # 0
  <2>1. IsReading(recs, 0, [i \in 0..0 |-> NothingRead])
    BY DEF IsReading
  <2> QED
    BY <2>1
<1>4. m - 1 \in Nat /\ m - 1 \notin Bad
  BY <1>2, <1>3
<1>5. PICK g : IsReading(recs, m - 1, g)
  BY <1>4
<1> DEFINE f == [i \in 0..m |-> IF i < m THEN g[i] ELSE ApplyEdit(g[m - 1], recs[m])]
<1>6. IsReading(recs, m, f)
  <2>1. \A i \in 0..(m - 1) : g[i] = IF i = 0 THEN NothingRead ELSE ApplyEdit(g[i - 1], recs[i])
    BY <1>5 DEF IsReading
  <2>2. ASSUME NEW i \in 0..m
        PROVE  f[i] = IF i = 0 THEN NothingRead ELSE ApplyEdit(f[i - 1], recs[i])
    <3>1. CASE i = 0
      BY <3>1, <2>1, <1>3
    <3>2. CASE i # 0
      <4>1. f[i - 1] = g[i - 1]
        BY <3>2
      <4>2. f[i] = ApplyEdit(g[i - 1], recs[i])
        <5>1. CASE i < m
          BY <5>1, <2>1, <3>2
        <5>2. CASE i = m
          BY <5>2
        <5> QED
          BY <5>1, <5>2
      <4> QED
        BY <4>1, <4>2, <3>2
    <3> QED
      BY <3>1, <3>2
  <2>3. f = [i \in 0..m |-> f[i]]
    OBVIOUS
  <2> HIDE DEF f
  <2> QED
    BY <2>2, <2>3 DEF IsReading
<1> QED
  BY <1>6

LEMMA StateIsRead ==
  ASSUME NEW recs, NEW k \in Nat
  PROVE  \E f : IsReading(recs, k, f) /\ StateAfter(recs, k) = f[k]
<1> DEFINE f == CHOOSE f : f = [i \in 0..k |-> IF i = 0 THEN NothingRead ELSE ApplyEdit(f[i - 1], recs[i])]
<1>1. IsReading(recs, k, f)
  BY ReadingExists DEF IsReading
<1>2. StateAfter(recs, k) = f[k]
  BY DEF StateAfter
<1> HIDE DEF f
<1> QED
  BY <1>1, <1>2

\* The state after j records depends on these only.
LEMMA SameReading ==
  ASSUME NEW a, NEW b, NEW k \in Nat, NEW m \in Nat, NEW f, NEW g,
         IsReading(a, k, f), IsReading(b, m, g),
         NEW j \in Nat, j <= k, j <= m, \A i \in 1..j : a[i] = b[i]
  PROVE  f[j] = g[j]
<1>1. /\ \A i \in 0..k : f[i] = IF i = 0 THEN NothingRead ELSE ApplyEdit(f[i - 1], a[i])
      /\ \A i \in 0..m : g[i] = IF i = 0 THEN NothingRead ELSE ApplyEdit(g[i - 1], b[i])
  BY DEF IsReading
<1> DEFINE Bad == {i \in 0..j : f[i] # g[i]}
<1>2. SUFFICES ASSUME Bad # {}
               PROVE  FALSE
  OBVIOUS
<1>3. PICK i \in Bad : \A h \in Bad : i <= h
  <2>1. Bad \in SUBSET Nat
    OBVIOUS
  <2> HIDE DEF Bad
  <2> QED
    BY <1>2, <2>1, LeastNatural
<1>4. i # 0
  BY <1>1, <1>3
<1>5. i - 1 \in 0..j /\ i - 1 \notin Bad
  BY <1>3, <1>4
<1>6. f[i - 1] = g[i - 1] /\ a[i] = b[i]
  BY <1>3, <1>4, <1>5
<1>7. f[i] = ApplyEdit(f[i - 1], a[i]) /\ g[i] = ApplyEdit(g[i - 1], b[i])
  BY <1>1, <1>3, <1>4
<1> QED
  BY <1>3, <1>6, <1>7

LEMMA StateOfPrefix ==
  ASSUME NEW a, NEW b, NEW k \in Nat, \A i \in 1..k : a[i] = b[i]
  PROVE  StateAfter(a, k) = StateAfter(b, k)
<1>1. PICK f : IsReading(a, k, f) /\ StateAfter(a, k) = f[k]
  BY StateIsRead
<1>2. PICK g : IsReading(b, k, g) /\ StateAfter(b, k) = g[k]
  BY StateIsRead
<1>3. f[k] = g[k]
  BY <1>1, <1>2, SameReading
<1> QED
  BY <1>1, <1>2, <1>3

LEMMA StateStep ==
  ASSUME NEW recs
  PROVE  /\ StateAfter(recs, 0) = NothingRead
         /\ \A k \in Nat : StateAfter(recs, k + 1) = ApplyEdit(StateAfter(recs, k), recs[k + 1])
<1>1. StateAfter(recs, 0) = NothingRead
  <2>1. PICK f : IsReading(recs, 0, f) /\ StateAfter(recs, 0) = f[0]
    BY StateIsRead
  <2> QED
    BY <2>1 DEF IsReading
<1>2. ASSUME NEW k \in Nat
      PROVE  StateAfter(recs, k + 1) = ApplyEdit(StateAfter(recs, k), recs[k + 1])
  <2>1. PICK f : IsReading(recs, k + 1, f) /\ StateAfter(recs, k + 1) = f[k + 1]
    BY StateIsRead
  <2>2. PICK g : IsReading(recs, k, g) /\ StateAfter(recs, k) = g[k]
    BY StateIsRead
  <2>3. f[k] = g[k]
    BY <2>1, <2>2, SameReading
  <2>4. f[k + 1] = ApplyEdit(f[k], recs[k + 1])
    <3>1. \A i \in 0..(k + 1) : f[i] = IF i = 0 THEN NothingRead ELSE ApplyEdit(f[i - 1], recs[i])
      BY <2>1 DEF IsReading
    <3>2. k + 1 \in 0..(k + 1) /\ k + 1 # 0 /\ (k + 1) - 1 = k
      OBVIOUS
    <3> QED
      BY <3>1, <3>2
  <2> QED
    BY <2>1, <2>2, <2>3, <2>4
<1> QED
  BY <1>1, <1>2

\* A file of the state was added by a record.
LEMMA FilesAreNamed ==
  ASSUME NEW recs, NEW k \in Nat, NEW x \in StateAfter(recs, k).files
  PROVE  \E i \in 1..k : x \in recs[i].added
<1> DEFINE Bad == {j \in 0..k : x \in StateAfter(recs, j).files}
<1>1. PICK j \in Bad : \A h \in Bad : j <= h
  <2>1. Bad \in SUBSET Nat /\ k \in Bad
    OBVIOUS
  <2> HIDE DEF Bad
  <2> QED
    BY <2>1, LeastNatural
<1>2. j # 0
  BY <1>1, StateStep DEF NothingRead
<1>3. j - 1 \in Nat /\ j - 1 \in 0..k /\ (j - 1) + 1 = j /\ j - 1 \notin Bad
  BY <1>1, <1>2
<1>4. StateAfter(recs, (j - 1) + 1) = ApplyEdit(StateAfter(recs, j - 1), recs[(j - 1) + 1])
  BY <1>3, StateStep
<1>5. x \in ApplyEdit(StateAfter(recs, j - 1), recs[j]).files
  BY <1>1, <1>3, <1>4
<1>6. x \in recs[j].added
  BY <1>3, <1>5 DEF ApplyEdit
<1> QED
  BY <1>1, <1>2, <1>6

----------------------------------------------------------------------------
(* What soundness depends on.                                              *)

SameIn(T, T2, fs) == \A f \in fs : f[2] \in DOMAIN T2 /\ T2[f[2]] = T[f[2]]

LEMMA SameFound ==
  ASSUME NEW T, NEW T2, NEW fs, SameIn(T, T2, fs), NEW s
  PROVE  InFiles(T2, fs, s) <=> InFiles(T, fs, s)
BY DEF SameIn, InFiles

\* SSTables of other versions may come and go.
LEMMA SoundFiles ==
  ASSUME NEW c, NEW L, NEW T, NEW T2, NEW v, NEW p, NEW a,
         Sound(c, L, T, v, p, a), SameIn(T, T2, v.files)
  PROVE  /\ Sound(c, L, T2, v, p, a)
         /\ Ordered(L, T, v) => Ordered(L, T2, v)
<1>1. \A s : InFiles(T2, v.files, s) <=> InFiles(T, v.files, s)
  BY SameFound
<1>2. \A f \in v.files : FileOk(T2, v, f)
  BY DEF Sound, FileOk, SameIn
<1>3. Sound(c, L, T2, v, p, a)
  BY <1>1, <1>2 DEF Sound
<1>4. ASSUME Layered(T, v.files)
      PROVE  Layered(T2, v.files)
  <2>1. ASSUME NEW g \in v.files, IsTop(v.files, g), NEW s, InFiles(T2, v.files, s)
        PROVE  \E t \in T2[g[2]] : s <= t
    BY <1>1, <1>4, <2>1 DEF Layered, SameIn
  <2> QED
    BY <1>4, <2>1 DEF Layered
<1>5. Covered(L, T, v) => Covered(L, T2, v)
  BY <1>1 DEF Covered
<1> QED
  BY <1>3, <1>4, <1>5 DEF Ordered

\* So may logs, as long as the records of the ones from v.log on are kept.
LogsKept(L, L2, min) ==
  /\ Ascending(L, min) => Ascending(L2, min)
  /\ \A s : InSynced(L, min, s) => InSynced(L2, min, s)
  /\ \A s : InLogs(L, min, s) => InLogs(L2, min, s)

LEMMA SoundLogs ==
  ASSUME NEW c, NEW L, NEW L2, NEW T, NEW v, NEW p, NEW a, NEW p2, NEW a2,
         Sound(c, L, T, v, p, a), LogsKept(L, L2, v.log),
         \A s \in p2 : s \in p \/ InSynced(L2, v.log, s),
         \A s \in a2 : s \in a \/ InLogs(L2, v.log, s)
  PROVE  Sound(c, L2, T, v, p2, a2)
BY DEF Sound, LogsKept

SameLogs(L, L2, min) ==
  /\ LogsKept(L, L2, min)
  /\ \A s : InLogs(L2, min, s) => InLogs(L, min, s)

LEMMA OrderedLogs ==
  ASSUME NEW L, NEW L2, NEW T, NEW v, Ordered(L, T, v), SameLogs(L, L2, v.log)
  PROVE  Ordered(L2, T, v)
BY DEF Ordered, Covered, SameLogs, LogsKept

\* The last sequence and the next file number may grow.
LEMMA SoundLater ==
  ASSUME NEW c, NEW L, NEW T, NEW v, NEW p, NEW a, Sound(c, L, T, v, p, a),
         NEW c2 \in Nat, NEW w, w.log = v.log, w.files = v.files, w.seq \in Nat, w.next \in Nat,
         v.seq <= w.seq, v.next <= w.next, c2 < w.next
  PROVE  /\ Sound(c2, L, T, w, p, a)
         /\ Ordered(L, T, v) => Ordered(L, T, w)
<1>1. Numbers(c2, w)
  BY DEF Sound, Numbers
<1>2. \A f \in w.files : FileOk(T, w, f)
  <2>1. SUFFICES ASSUME NEW f \in v.files
                 PROVE  FileOk(T, w, f)
    OBVIOUS
  <2>2. FileOk(T, v, f) /\ v.seq \in Nat /\ v.next \in Nat
    BY DEF Sound, Numbers
  <2>3. f[2] \in Nat
    BY <2>2 DEF FileOk
  <2> QED
    BY <2>2, <2>3 DEF FileOk
<1>3. Sound(c2, L, T, w, p, a)
  BY <1>1, <1>2 DEF Sound
<1> QED
  BY <1>3 DEF Ordered, Covered

\* Less may be promised.
LEMMA SoundLess ==
  ASSUME NEW c, NEW L, NEW T, NEW v, NEW p, NEW a, NEW p2, NEW a2,
         Sound(c, L, T, v, p, a), p2 \subseteq p, a2 \subseteq a
  PROVE  Sound(c, L, T, v, p2, a2)
BY DEF Sound

----------------------------------------------------------------------------
(* What happens to the logs.                                               *)

LEMMA LogFileIs ==
  ASSUME NEW L, LogsOk(L), NEW n \in DOMAIN L
  PROVE  /\ n \in Nat /\ L[n].recs \in Seq(Nat) /\ Len(L[n].recs) \in Nat
         /\ L[n].synced \in Nat /\ L[n].synced <= Len(L[n].recs)
         /\ \A i \in 1..Len(L[n].recs) : L[n].recs[i] \in Nat
BY DEF LogsOk, LogFile

LEMMA AscendingIs ==
  ASSUME NEW L, NEW min, Ascending(L, min), NEW n \in DOMAIN L, NEW m \in DOMAIN L, min <= n, n <= m,
         NEW i \in 1..Len(L[n].recs), NEW j \in 1..Len(L[m].recs), n < m \/ i < j
  PROVE  L[n].recs[i] < L[m].recs[j]
BY DEF Ascending

LEMMA SyncedIsThere ==
  ASSUME NEW L, LogsOk(L), NEW min, NEW s, InSynced(L, min, s)
  PROVE  InLogs(L, min, s)
<1>1. PICK n \in DOMAIN L : n >= min /\ \E i \in 1..L[n].synced : s = L[n].recs[i]
  BY DEF InSynced
<1>2. PICK i \in 1..L[n].synced : s = L[n].recs[i]
  BY <1>1
<1>3. i \in 1..Len(L[n].recs)
  BY LogFileIs
<1> QED
  BY <1>1, <1>2, <1>3 DEF InLogs

\* A new log.
NewEmpty(L, L2, n) ==
  /\ n \notin DOMAIN L /\ DOMAIN L2 = DOMAIN L \cup {n}
  /\ L2[n] = EmptyFile
  /\ \A m \in DOMAIN L : L2[m] = L[m]

LEMMA NewEmptyKeeps ==
  ASSUME NEW L, NEW L2, NEW n, NewEmpty(L, L2, n), NEW min
  PROVE  SameLogs(L, L2, min)
<1>1. Len(L2[n].recs) = 0 /\ L2[n].synced = 0
  BY DEF NewEmpty, EmptyFile
<1>2. 1..0 = {}
  OBVIOUS
<1>3. \A s : InLogs(L2, min, s) <=> InLogs(L, min, s)
  BY <1>1, <1>2 DEF NewEmpty, InLogs
<1>4. \A s : InSynced(L, min, s) => InSynced(L2, min, s)
  BY DEF NewEmpty, InSynced
<1>5. Ascending(L, min) => Ascending(L2, min)
  BY <1>1, <1>2 DEF NewEmpty, Ascending
<1> QED
  BY <1>3, <1>4, <1>5 DEF SameLogs, LogsKept

\* One more record at the end of the last log.
Appended(L, L2, n, s) ==
  /\ n \in DOMAIN L /\ DOMAIN L2 = DOMAIN L
  /\ \A m \in DOMAIN L : m # n => L2[m] = L[m]
  /\ Len(L2[n].recs) = Len(L[n].recs) + 1
  /\ \A i \in 1..Len(L[n].recs) : L2[n].recs[i] = L[n].recs[i]
  /\ L2[n].recs[Len(L[n].recs) + 1] = s
  /\ L2[n].synced \in {L[n].synced, Len(L[n].recs) + 1}

LEMMA AppendedKeeps ==
  ASSUME NEW L, NEW L2, NEW n, NEW s \in Nat, LogsOk(L), Appended(L, L2, n, s),
         NEW min, n >= min, \A m \in DOMAIN L : m <= n,
         \A x : InLogs(L, min, x) => x < s
  PROVE  /\ LogsKept(L, L2, min)
         /\ \A x : InLogs(L2, min, x) <=> InLogs(L, min, x) \/ x = s
         /\ L2[n].synced = Len(L2[n].recs) => InSynced(L2, min, s)
<1>1. /\ n \in DOMAIN L /\ DOMAIN L2 = DOMAIN L
      /\ \A m \in DOMAIN L : m # n => L2[m] = L[m]
  BY DEF Appended
<1>2. PICK l \in Nat : l = Len(L[n].recs)
  BY <1>1, LogFileIs
<1>3. /\ Len(L2[n].recs) = l + 1 /\ L2[n].recs[l + 1] = s
      /\ \A i \in 1..l : L2[n].recs[i] = L[n].recs[i]
      /\ L2[n].synced \in {L[n].synced, l + 1}
      /\ L[n].synced \in Nat /\ L[n].synced <= l
  BY <1>1, <1>2, LogFileIs DEF Appended
<1>4. ASSUME NEW x
      PROVE  InLogs(L2, min, x) <=> InLogs(L, min, x) \/ x = s
  <2>1. ASSUME InLogs(L2, min, x)
        PROVE  InLogs(L, min, x) \/ x = s
    <3>1. PICK m \in DOMAIN L : m >= min /\ \E i \in 1..Len(L2[m].recs) : x = L2[m].recs[i]
      BY <1>1, <2>1 DEF InLogs
    <3>2. CASE m # n
      BY <1>1, <3>1, <3>2 DEF InLogs
    <3>3. CASE m = n
      <4>1. PICK i \in 1..(l + 1) : x = L2[n].recs[i]
        BY <1>3, <3>1, <3>3
      <4>2. CASE i = l + 1
        BY <1>3, <4>1, <4>2
      <4>3. CASE i \in 1..l
        BY <1>2, <1>3, <3>1, <3>3, <4>1, <4>3 DEF InLogs
      <4> QED
        BY <4>2, <4>3
    <3> QED
      BY <3>2, <3>3
  <2>2. ASSUME InLogs(L, min, x)
        PROVE  InLogs(L2, min, x)
    <3>1. PICK m \in DOMAIN L : m >= min /\ \E i \in 1..Len(L[m].recs) : x = L[m].recs[i]
      BY <2>2 DEF InLogs
    <3>2. PICK i \in 1..Len(L[m].recs) : x = L[m].recs[i]
      BY <3>1
    <3>3. i \in 1..Len(L2[m].recs) /\ x = L2[m].recs[i]
      BY <1>1, <1>2, <1>3, <3>2
    <3> QED
      BY <1>1, <3>1, <3>3 DEF InLogs
  <2>3. InLogs(L2, min, s)
    <3>1. l + 1 \in 1..Len(L2[n].recs)
      BY <1>3
    <3> QED
      BY <1>1, <1>3, <3>1 DEF InLogs
  <2> QED
    BY <2>1, <2>2, <2>3
<1>5. ASSUME NEW x, InSynced(L, min, x)
      PROVE  InSynced(L2, min, x)
  <2>1. PICK m \in DOMAIN L : m >= min /\ \E i \in 1..L[m].synced : x = L[m].recs[i]
    BY <1>5 DEF InSynced
  <2>2. PICK i \in 1..L[m].synced : x = L[m].recs[i]
    BY <2>1
  <2>3. i \in 1..L2[m].synced /\ x = L2[m].recs[i]
    BY <1>1, <1>3, <2>2
  <2> QED
    BY <1>1, <2>1, <2>3 DEF InSynced
<1>6. ASSUME Ascending(L, min)
      PROVE  Ascending(L2, min)
  <2>1. SUFFICES ASSUME NEW a \in DOMAIN L, NEW b \in DOMAIN L, min <= a, a <= b,
                        NEW i \in 1..Len(L2[a].recs), NEW j \in 1..Len(L2[b].recs), a < b \/ i < j
                 PROVE  L2[a].recs[i] < L2[b].recs[j]
    BY <1>1 DEF Ascending
  <2>2. a \in Nat /\ b \in Nat /\ n \in Nat /\ b <= n
    BY <1>1, LogFileIs
  <2>3. i \in 1..Len(L[a].recs) /\ L2[a].recs[i] = L[a].recs[i]
    <3>1. CASE a # n
      BY <1>1, <3>1
    <3>2. CASE a = n
      <4>1. b = n /\ i < j /\ j \in 1..(l + 1)
        BY <1>3, <2>1, <2>2, <3>2
      <4>2. i \in 1..l
        BY <4>1
      <4> QED
        BY <1>2, <1>3, <3>2, <4>2
    <3> QED
      BY <3>1, <3>2
  <2>4. CASE b = n /\ j = l + 1
    <3>1. InLogs(L, min, L[a].recs[i])
      BY <2>1, <2>2, <2>3 DEF InLogs
    <3> QED
      BY <1>3, <2>3, <2>4, <3>1
  <2>5. CASE ~(b = n /\ j = l + 1)
    <3>1. j \in 1..Len(L[b].recs) /\ L2[b].recs[j] = L[b].recs[j]
      <4>1. CASE b # n
        BY <1>1, <4>1
      <4>2. CASE b = n
        <5>1. j \in 1..l
          BY <1>3, <2>5, <4>2
        <5> QED
          BY <1>2, <1>3, <4>2, <5>1
      <4> QED
        BY <4>1, <4>2
    <3> QED
      BY <1>6, <2>1, <2>3, <3>1 DEF Ascending
  <2> QED
    BY <2>4, <2>5
<1>7. L2[n].synced = Len(L2[n].recs) => InSynced(L2, min, s)
  <2>1. l + 1 \in 1..(l + 1)
    OBVIOUS
  <2> QED
    BY <1>1, <1>3, <2>1 DEF InSynced
<1>8. LogsKept(L, L2, min)
  BY <1>4, <1>5, <1>6 DEF LogsKept
<1> QED
  BY <1>4, <1>7, <1>8

\* Logs before min are removed.
Trimmed(L, L2, min) ==
  DOMAIN L2 = {n \in DOMAIN L : n >= min} /\ \A n \in DOMAIN L2 : L2[n] = L[n]

LEMMA TrimmedKeeps ==
  ASSUME NEW L, NEW L2, NEW min, Trimmed(L, L2, min), LogsOk(L), min \in Nat
  PROVE  SameLogs(L, L2, min)
<1>1. \A s : InLogs(L2, min, s) <=> InLogs(L, min, s)
  BY DEF Trimmed, InLogs
<1>2. \A s : InSynced(L, min, s) => InSynced(L2, min, s)
  BY DEF Trimmed, InSynced
<1>3. Ascending(L, min) => Ascending(L2, min)
  BY DEF Trimmed, Ascending
<1> QED
  BY <1>1, <1>2, <1>3 DEF SameLogs, LogsKept

\* A power loss: of each file the synced part stays and some of the rest.
CutFile(x, y, k) ==
  /\ k \in x.synced..Len(x.recs)
  /\ Len(y.recs) = k /\ y.synced = k
  /\ \A i \in 1..k : y.recs[i] = x.recs[i]
CutTo(L, L2) == DOMAIN L2 = DOMAIN L /\ \A n \in DOMAIN L : \E k : CutFile(L[n], L2[n], k)

LEMMA CutKeeps ==
  ASSUME NEW L, NEW L2, LogsOk(L), CutTo(L, L2), NEW min
  PROVE  /\ Ascending(L, min) => Ascending(L2, min)
         /\ \A s : InSynced(L, min, s) => InSynced(L2, min, s)
         /\ (\A n \in DOMAIN L : Len(L2[n].recs) = Len(L[n].recs)) => SameLogs(L, L2, min)
<1>1. DOMAIN L2 = DOMAIN L
  BY DEF CutTo
<1>2. ASSUME NEW n \in DOMAIN L
      PROVE  /\ Len(L2[n].recs) \in Nat /\ Len(L2[n].recs) <= Len(L[n].recs)
             /\ L2[n].synced = Len(L2[n].recs) /\ L[n].synced <= L2[n].synced
             /\ \A i \in 1..Len(L2[n].recs) : L2[n].recs[i] = L[n].recs[i]
  <2>1. PICK k : CutFile(L[n], L2[n], k)
    BY DEF CutTo
  <2>2. L[n].synced \in Nat /\ Len(L[n].recs) \in Nat
    BY LogFileIs
  <2> QED
    BY <2>1, <2>2 DEF CutFile
<1>3. ASSUME NEW n \in DOMAIN L
      PROVE  Len(L[n].recs) \in Nat /\ L[n].synced \in Nat /\ L[n].synced <= Len(L[n].recs)
  BY LogFileIs
<1>4. Ascending(L, min) => Ascending(L2, min)
  <2>1. SUFFICES ASSUME Ascending(L, min),
                        NEW a \in DOMAIN L, NEW b \in DOMAIN L, min <= a, a <= b,
                        NEW i \in 1..Len(L2[a].recs), NEW j \in 1..Len(L2[b].recs), a < b \/ i < j
                 PROVE  L2[a].recs[i] < L2[b].recs[j]
    BY <1>1 DEF Ascending
  <2>2. i \in 1..Len(L[a].recs) /\ j \in 1..Len(L[b].recs)
    BY <1>2, <1>3
  <2>3. L2[a].recs[i] = L[a].recs[i] /\ L2[b].recs[j] = L[b].recs[j]
    BY <1>2
  <2> QED
    BY <2>1, <2>2, <2>3 DEF Ascending
<1>5. ASSUME NEW s, InSynced(L, min, s)
      PROVE  InSynced(L2, min, s)
  <2>1. PICK n \in DOMAIN L : n >= min /\ \E i \in 1..L[n].synced : s = L[n].recs[i]
    BY <1>5 DEF InSynced
  <2>2. PICK i \in 1..L[n].synced : s = L[n].recs[i]
    BY <2>1
  <2>3. i \in 1..L2[n].synced /\ L2[n].recs[i] = L[n].recs[i]
    BY <1>2, <1>3
  <2> QED
    BY <1>1, <2>1, <2>2, <2>3 DEF InSynced
<1>6. ASSUME \A n \in DOMAIN L : Len(L2[n].recs) = Len(L[n].recs)
      PROVE  SameLogs(L, L2, min)
  <2>1. \A s : InLogs(L2, min, s) <=> InLogs(L, min, s)
    BY <1>1, <1>2, <1>6 DEF InLogs
  <2> QED
    BY <1>4, <1>5, <2>1 DEF SameLogs, LogsKept
<1> QED
  BY <1>4, <1>5, <1>6

\* Steps that take nothing from the logs and files of a version keep it sound ...
LEMMA SoundStep ==
  ASSUME NEW c, NEW L, NEW L2, NEW T, NEW T2, NEW v, NEW p, NEW a, NEW p2, NEW a2,
         Sound(c, L, T, v, p, a), SameIn(T, T2, v.files), SameLogs(L, L2, v.log),
         p2 \subseteq p, a2 \subseteq a
  PROVE  /\ Sound(c, L2, T2, v, p2, a2)
         /\ Ordered(L, T, v) => Ordered(L2, T2, v)
<1>1. Sound(c, L, T2, v, p, a) /\ (Ordered(L, T, v) => Ordered(L, T2, v))
  BY SoundFiles
<1>2. LogsKept(L, L2, v.log)
  BY DEF SameLogs
<1>3. Sound(c, L2, T2, v, p2, a2)
  BY <1>1, <1>2, SoundLogs
<1>4. Ordered(L, T2, v) => Ordered(L2, T2, v)
  BY OrderedLogs
<1> QED
  BY <1>1, <1>3, <1>4

LEMMA SameLogsItself == ASSUME NEW L, NEW min PROVE SameLogs(L, L, min)
BY DEF SameLogs, LogsKept

LEMMA SameInItself ==
  ASSUME NEW c, NEW L, NEW T, NEW v, NEW p, NEW a, Sound(c, L, T, v, p, a)
  PROVE  SameIn(T, T, v.files)
BY DEF SameIn, Sound, FileOk

\* ... and so does a write, which is newer than all there is.
LEMMA SoundWrite ==
  ASSUME NEW c, NEW L, NEW L2, NEW T, NEW v, NEW p, NEW a, NEW p2, NEW a2, NEW n, NEW s \in Nat,
         Sound(c, L, T, v, p, a), LogsOk(L), Appended(L, L2, n, s), n >= v.log,
         \A m \in DOMAIN L : m <= n, \A x : InLogs(L, v.log, x) => x < s, v.seq < s,
         p2 \subseteq p \cup {s}, s \in p2 => L2[n].synced = Len(L2[n].recs), a2 \subseteq a \cup {s}
  PROVE  /\ Sound(c, L2, T, v, p2, a2)
         /\ Ordered(L, T, v) => Ordered(L2, T, v)
<1>1. /\ LogsKept(L, L2, v.log)
      /\ \A x : InLogs(L2, v.log, x) <=> InLogs(L, v.log, x) \/ x = s
      /\ L2[n].synced = Len(L2[n].recs) => InSynced(L2, v.log, s)
  BY AppendedKeeps
<1>2. Sound(c, L2, T, v, p2, a2)
  <2>1. \A x \in p2 : x \in p \/ InSynced(L2, v.log, x)
    BY <1>1
  <2>2. \A x \in a2 : x \in a \/ InLogs(L2, v.log, x)
    BY <1>1
  <2> QED
    BY <1>1, <2>1, <2>2, SoundLogs
<1>3. Covered(L2, T, v)
  <2>1. SUFFICES ASSUME NEW x, InFiles(T, v.files, x)
                 PROVE  InLogs(L2, v.log, s) /\ x <= s
    BY DEF Covered
  <2>2. PICK f \in v.files : x \in T[f[2]]
    BY <2>1 DEF InFiles
  <2>3. x \in Nat /\ x <= v.seq /\ v.seq \in Nat
    BY <2>2 DEF Sound, FileOk, Numbers
  <2> QED
    BY <1>1, <2>3
<1> QED
  BY <1>2, <1>3 DEF Ordered

----------------------------------------------------------------------------
(* Files.                                                                  *)

IsWith(f, n, x, g) ==
  DOMAIN g = DOMAIN f \cup {n} /\ g[n] = x /\ \A k \in DOMAIN f : k # n => g[k] = f[k]

LEMMA WithIs == ASSUME NEW f, NEW n, NEW x PROVE IsWith(f, n, x, With(f, n, x))
BY DEF IsWith, With

IsWithout(f, S, g) == DOMAIN g = DOMAIN f \ S /\ \A k \in DOMAIN g : g[k] = f[k]

LEMMA WithoutIs == ASSUME NEW f, NEW S PROVE IsWithout(f, S, Without(f, S))
BY DEF IsWithout, Without

Files(S) == [recs : Seq(S), synced : Nat]

LEMMA Append1Is ==
  ASSUME NEW S, NEW x \in Files(S), NEW r \in S
  PROVE  /\ Append1(x, r) \in Files(S) /\ Append1(x, r).synced = x.synced
         /\ Len(Append1(x, r).recs) = Len(x.recs) + 1 /\ Len(x.recs) \in Nat
         /\ \A i \in 1..Len(x.recs) : Append1(x, r).recs[i] = x.recs[i]
         /\ Append1(x, r).recs[Len(x.recs) + 1] = r
<1>1. x.recs \in Seq(S) /\ x.synced \in Nat
  BY DEF Files
<1>2. Append1(x, r).recs = Append(x.recs, r) /\ Append1(x, r).synced = x.synced
  BY DEF Append1, Files
<1>3. Append(x.recs, r) \in Seq(S)
  BY <1>1, AppendProperties
<1>4. ASSUME NEW q \in Seq(S)
      PROVE  [x EXCEPT !.recs = q] \in Files(S)
  BY DEF Files
<1>5. Append1(x, r) \in Files(S)
  BY <1>3, <1>4 DEF Append1
<1> QED
  BY <1>1, <1>2, <1>5, AppendProperties

LEMMA SyncedIs ==
  ASSUME NEW S, NEW x \in Files(S)
  PROVE  Synced(x) \in Files(S) /\ Synced(x).recs = x.recs /\ Synced(x).synced = Len(x.recs)
<1>1. Synced(x) = [recs |-> x.recs, synced |-> Len(x.recs)]
  BY DEF Synced, Files
<1>2. x.recs \in Seq(S) /\ Len(x.recs) \in Nat
  BY DEF Files
<1> QED
  BY <1>1, <1>2 DEF Files

LEMMA LeftIs ==
  ASSUME NEW S, NEW x \in Files(S), x.synced <= Len(x.recs), NEW k \in x.synced..Len(x.recs)
  PROVE  Left(x, k) \in Files(S) /\ CutFile(x, Left(x, k), k)
<1>1. x.recs \in Seq(S) /\ x.synced \in Nat /\ Len(x.recs) \in Nat
  BY DEF Files
<1>2. k \in Nat /\ k <= Len(x.recs)
  BY <1>1
<1>3. /\ SubSeq(x.recs, 1, k) \in Seq(S) /\ Len(SubSeq(x.recs, 1, k)) = k
      /\ \A i \in 1..k : SubSeq(x.recs, 1, k)[i] = x.recs[i]
  BY <1>1, <1>2
<1>4. Left(x, k).recs = SubSeq(x.recs, 1, k) /\ Left(x, k).synced = k
  BY DEF Left
<1>5. Left(x, k) \in Files(S)
  BY <1>2, <1>3 DEF Left, Files
<1> QED
  BY <1>3, <1>4, <1>5 DEF CutFile

LEMMA Memberships ==
  /\ \A x : LogFile(x) <=> x \in Files(Nat) /\ x.synced <= Len(x.recs)
  /\ \A x : MetaFile(x) <=> x \in Files(Edits) /\ x.synced <= Len(x.recs)
BY DEF LogFile, MetaFile, Files

----------------------------------------------------------------------------
(* Frames.                                                                 *)

\* Before DB::Open has read the meta file there is nothing to say of the process.
LEMMA NotYetOpen ==
  ASSUME pc' \in {"down", "initialize", "set_current", "recover"}, apply' = "none"
  PROVE  VersionInv' /\ ReplayInv' /\ ApplyInv' /\ OpenInv' /\ UpInv'
BY DEF VersionInv, ReplayInv, ApplyInv, OpenInv, UpInv

LEMMA MetaTypes ==
  ASSUME TypeOK, NEW n \in DOMAIN meta
  PROVE  /\ n \in Nat /\ meta[n] \in Files(Edits) /\ meta[n].recs \in Seq(Edits)
         /\ meta[n].synced \in Nat /\ Len(meta[n].recs) \in Nat
         /\ meta[n].synced <= Len(meta[n].recs)
<1>1. n \in Nat /\ MetaFile(meta[n])
  BY DEF TypeOK, MetasOk
<1>2. meta[n] \in Files(Edits) /\ meta[n].synced <= Len(meta[n].recs)
  BY <1>1, Memberships
<1> QED
  BY <1>1, <1>2 DEF Files

\* The state DB::Open would find now.
LEMMA LastIsSound ==
  ASSUME TypeOK, DiskInv, current # 0
  PROVE  /\ current \in DOMAIN meta
         /\ Sound(current, log, sst, LastState(current), Kept, Told)
         /\ ~cut => Ordered(log, sst, LastState(current))
<1>1. current \in DOMAIN meta
  BY DEF DiskInv
<1>2. Len(meta[current].recs) \in meta[current].synced..Len(meta[current].recs)
  BY <1>1, MetaTypes
<1> QED
  BY <1>1, <1>2 DEF DiskInv, AllSound, AllOrdered, LastState

\* Steps that leave alone the meta file CURRENT names, its logs and its SSTables.
LEMMA DiskKept ==
  ASSUME TypeOK, DiskInv, current' = current, cut' = cut,
         Kept' \subseteq Kept, Told' \subseteq Told,
         current # 0 => /\ current \in DOMAIN meta'
                        /\ meta'[current].recs = meta[current].recs
                        /\ meta'[current].synced \in Nat
                        /\ meta[current].synced <= meta'[current].synced
                        /\ \A n \in DOMAIN sst : n < LastState(current).next =>
                             n \in DOMAIN sst' /\ sst'[n] = sst[n]
                        /\ SameLogs(log, log', LastState(current).log)
  PROVE  DiskInv'
<1>1. SUFFICES ASSUME current # 0
               PROVE  DiskInv'
  BY DEF DiskInv
<1>2. current \in DOMAIN meta /\ current \in DOMAIN meta' /\ meta'[current].recs = meta[current].recs
  BY <1>1 DEF DiskInv
<1>3. LastState(current)' = LastState(current)
  BY <1>2 DEF LastState
<1>4. Sound(current, log, sst, LastState(current), Kept, Told)
  BY <1>1, LastIsSound
<1>5. LastState(current).next \in Nat
  BY <1>4 DEF Sound, Numbers
<1>6. PICK recs : recs = meta[current].recs
  OBVIOUS
<1>7. PICK k0 \in Nat : k0 = meta'[current].synced
  BY <1>1
<1>8. ASSUME NEW k \in k0..Len(recs), NEW v, v = StateAfter(recs, k)
      PROVE  /\ Sound(current, log', sst', v, Kept', Told')
             /\ ~cut => Ordered(log', sst', v)
             /\ v.log = LastState(current).log
             /\ v.next <= LastState(current).next
  <2>1. k \in meta[current].synced..Len(meta[current].recs)
    BY <1>1, <1>2, <1>6, <1>7, MetaTypes
  <2>2. /\ Sound(current, log, sst, v, Kept, Told)
        /\ ~cut => Ordered(log, sst, v)
        /\ v.log = LastState(current).log
        /\ v.next <= LastState(current).next
    BY <1>1, <1>6, <1>8, <2>1 DEF DiskInv, AllSound, AllOrdered, AllUpTo
  <2>3. SameIn(sst, sst', v.files)
    <3>1. SUFFICES ASSUME NEW f \in v.files
                   PROVE  f[2] \in DOMAIN sst' /\ sst'[f[2]] = sst[f[2]]
      BY DEF SameIn
    <3>2. f[2] \in DOMAIN sst /\ f[2] < v.next /\ f[2] \in Nat /\ v.next \in Nat
      BY <2>2 DEF Sound, FileOk, Numbers
    <3>3. f[2] < LastState(current).next
      BY <1>5, <2>2, <3>2
    <3> QED
      BY <1>1, <3>2, <3>3
  <2>4. SameLogs(log, log', v.log)
    BY <1>1, <2>2
  <2> QED
    BY <2>2, <2>3, <2>4, SoundStep
<1>9. /\ AllSound(current, recs, k0, log', sst', Kept', Told')
      /\ ~cut => AllOrdered(recs, k0, log', sst')
      /\ AllUpTo(recs, k0, LastState(current))
  BY <1>8 DEF AllSound, AllOrdered, AllUpTo
<1> QED
  BY <1>2, <1>3, <1>6, <1>7, <1>9 DEF DiskInv

LEMMA DiskUnchanged ==
  ASSUME TypeOK, DiskInv, UNCHANGED <<current, meta, log, sst, acked, promised, dropped, cut>>
  PROVE  DiskInv'
BY DEF DiskInv, LastState, Kept, Told

----------------------------------------------------------------------------
(* DB::Open.                                                               *)

LEMMA StartStep == ASSUME IInv, Start PROVE IInv'
<1>1. pc = "down" /\ apply = "none"
  BY DEF Start, IInv, PcInv
<1>2. TypeOK'
  BY DEF Start, IInv, TypeOK, disk, Labels
<1>3. PcInv'
  BY <1>1 DEF Start, IInv, PcInv, disk, history, Kept, Told
<1>4. DiskInv'
  BY DiskUnchanged DEF IInv, Start, disk, history
<1>5. VersionInv' /\ ReplayInv' /\ ApplyInv' /\ OpenInv' /\ UpInv'
  BY <1>1, NotYetOpen DEF Start
<1> QED
  BY <1>2, <1>3, <1>4, <1>5 DEF IInv

LEMMA NoEditIs ==
  /\ NoEdit \in Edits /\ NoEdit.added = {} /\ NoEdit.deleted = {}
  /\ NoEdit.log = -1 /\ NoEdit.seq = -1 /\ NoEdit.next = -1
<1>1. {} \in SUBSET (Nat \X Nat)
  OBVIOUS
<1> QED
  BY <1>1 DEF NoEdit, Edits

LEMMA FirstMetaFile ==
  /\ MetaFile(FirstMeta) /\ FirstEdit \in Edits
  /\ FirstMeta.synced = 1 /\ Len(FirstMeta.recs) = 1 /\ FirstMeta.recs[1] = FirstEdit
<1>1. FirstEdit \in Edits
  <2> DEFINE F == SUBSET (Nat \X Nat)
  <2>1. Edits = [log : Int, seq : Int, next : Int, added : F, deleted : F]
    BY DEF Edits
  <2> HIDE DEF F
  <2>2. PICK a \in Int, b \in Int : a = 0 /\ b = 2
    OBVIOUS
  <2>3. PICK e \in Edits : e = NoEdit
    BY NoEditIs
  <2>4. [e EXCEPT !.log = a, !.seq = a, !.next = b] \in Edits
    BY <2>1
  <2>5. FirstEdit = [e EXCEPT !.log = a, !.seq = a, !.next = b]
    BY <2>2, <2>3 DEF FirstEdit
  <2> QED
    BY <2>4, <2>5
<1>2. <<FirstEdit>> \in Seq(Edits) /\ Len(<<FirstEdit>>) = 1 /\ <<FirstEdit>>[1] = FirstEdit
  BY <1>1
<1>3. FirstMeta.synced = 1 /\ FirstMeta.recs = <<FirstEdit>>
  BY DEF FirstMeta
<1>4. FirstMeta \in [recs : Seq(Edits), synced : Nat]
  <2>1. PICK q \in Seq(Edits) : q = <<FirstEdit>>
    BY <1>2
  <2>2. FirstMeta = [recs |-> q, synced |-> 1]
    BY <2>1 DEF FirstMeta
  <2> QED
    BY <2>2
<1> QED
  BY <1>1, <1>2, <1>3, <1>4 DEF MetaFile

LEMMA InitializeStep == ASSUME IInv, Initialize PROVE IInv'
<1>1. /\ pc = "initialize" /\ pc' = "set_current" /\ current = 0 /\ current' = 0
      /\ apply = "none" /\ apply' = "none"
  BY DEF Initialize, IInv, PcInv
<1>2. /\ DOMAIN meta' = DOMAIN meta \cup {1}
      /\ meta'[1] = FirstMeta
      /\ \A n \in DOMAIN meta : n # 1 => meta'[n] = meta[n]
  <2>1. IsWith(meta, 1, FirstMeta, meta')
    BY WithIs DEF Initialize, FirstMeta
  <2> QED
    BY <2>1 DEF IsWith
<1>3. TypeOK'
  <2>1. MetasOk(meta')
    BY <1>2, FirstMetaFile DEF IInv, TypeOK, MetasOk
  <2> QED
    BY <1>1, <2>1 DEF Initialize, IInv, TypeOK, Labels
<1>4. PcInv'
  BY <1>1, <1>2 DEF Initialize, IInv, PcInv, history, Kept, Told
<1>5. DiskInv'
  BY <1>1 DEF DiskInv
<1>6. VersionInv' /\ ReplayInv' /\ ApplyInv' /\ OpenInv' /\ UpInv'
  BY <1>1, NotYetOpen
<1> QED
  BY <1>3, <1>4, <1>5, <1>6 DEF IInv

LEMMA SetFirstCurrentStep == ASSUME IInv, SetFirstCurrent PROVE IInv'
<1>1. /\ pc = "set_current" /\ pc' = "recover" /\ current = 0 /\ current' = 1
      /\ apply = "none" /\ apply' = "none"
  BY DEF SetFirstCurrent, IInv, PcInv
<1>2. /\ 1 \in DOMAIN meta' /\ meta'[1] = FirstMeta
      /\ DOMAIN log' = {} /\ Kept' = {} /\ Told' = {}
  BY <1>1 DEF SetFirstCurrent, IInv, PcInv, history, Kept, Told
<1>3. TypeOK'
  BY <1>1 DEF SetFirstCurrent, IInv, TypeOK, Labels
<1>4. PcInv'
  BY <1>1 DEF PcInv
<1>5. DiskInv'
  <2>1. PICK r : r = FirstMeta.recs
    OBVIOUS
  <2>2. PICK v : v = StateAfter(r, 1)
    OBVIOUS
  <2>3. v = ApplyEdit(NothingRead, FirstEdit)
    <3>1. StateAfter(r, 0 + 1) = ApplyEdit(StateAfter(r, 0), r[0 + 1]) /\ StateAfter(r, 0) = NothingRead
      BY StateStep
    <3> QED
      BY <2>1, <2>2, <3>1, FirstMetaFile
  <2>4. v.log = 0 /\ v.seq = 0 /\ v.next = 2 /\ v.files = {}
    BY <2>3 DEF ApplyEdit, NothingRead, FirstEdit, NoEdit
  <2>5. Sound(1, log', sst', v, {}, {})
    BY <1>2, <2>4 DEF Sound, Numbers, Ascending
  <2>6. Ordered(log', sst', v)
    BY <1>2, <2>4 DEF Ordered, Layered, Covered, InFiles
  <2>7. Len(r) = 1 /\ meta'[1].recs = r /\ meta'[1].synced = 1
    BY <1>2, <2>1, FirstMetaFile
  <2>8. LastState(1)' = v
    BY <2>2, <2>7 DEF LastState
  <2>9. \A k \in 1..1 : StateAfter(r, k) = v
    BY <2>2
  <2>10. /\ AllSound(1, r, 1, log', sst', {}, {})
         /\ AllOrdered(r, 1, log', sst')
         /\ AllUpTo(r, 1, v)
    BY <2>4, <2>5, <2>6, <2>7, <2>9 DEF AllSound, AllOrdered, AllUpTo
  <2> QED
    BY <1>1, <1>2, <2>7, <2>8, <2>10 DEF DiskInv
<1>6. VersionInv' /\ ReplayInv' /\ ApplyInv' /\ OpenInv' /\ UpInv'
  BY <1>1, NotYetOpen
<1> QED
  BY <1>3, <1>4, <1>5, <1>6 DEF IInv

\* VersionSet::Recover starts from the state the meta file gives; nothing is replayed yet.
LEMMA NothingReplayed ==
  ASSUME NEW L, NEW T, NEW min, LogsOk(L), NEW td, td.at = 0,
         \A n \in DOMAIN L : n >= min => n \in td.logs
  PROVE  Replayed(L, T, min, td, {})
<1>1. ASSUME NEW n, NEW i, IsRead(L, min, td, n, i)
      PROVE  FALSE
  <2>1. n \in DOMAIN L /\ n >= min /\ i \in 1..Len(L[n].recs) /\ i <= 0
    BY <1>1 DEF IsRead
  <2> QED
    BY <2>1, LogFileIs
<1>2. \A s : ~InFiles(T, {}, s)
  BY DEF InFiles
<1> QED
  BY <1>1, <1>2 DEF Replayed

LEMMA VersionSetRecoverStep == ASSUME IInv, VersionSetRecover PROVE IInv'
<1>1. /\ pc = "recover" /\ pc' = "replay" /\ current # 0 /\ apply = "none" /\ apply' = "none"
      /\ current' = current /\ log' = log /\ sst' = sst /\ meta' = meta
      /\ Kept' = Kept /\ Told' = Told /\ cut' = cut
  BY DEF VersionSetRecover, IInv, PcInv, disk, history, Kept, Told
<1>2. PICK v : v = LastState(current)
  OBVIOUS
<1>3. /\ Sound(current, log, sst, v, Kept, Told)
      /\ ~cut => Ordered(log, sst, v)
  BY <1>1, <1>2, LastIsSound DEF IInv
<1>4. /\ v.log \in Nat /\ v.seq \in Nat /\ v.next \in Nat /\ v.log < v.next /\ current < v.next
      /\ v.files \in SUBSET (Nat \X Nat) /\ current \in Nat
  BY <1>3 DEF Sound, Numbers, FileOk, IInv, TypeOK
<1>5. /\ vs' = [log |-> v.log, meta |-> v.next, next |-> v.next + 1, seq |-> v.seq, files |-> v.files]
      /\ todo' = [logs |-> LogsFrom(v.log), at |-> 0, max |-> 0]
      /\ edit' = NoEdit /\ mem' = mem /\ imm' = imm /\ logfile' = logfile
  BY <1>2 DEF VersionSetRecover, MetaState, LastState
<1>6. /\ vs'.log = v.log /\ vs'.meta = v.next /\ vs'.next = v.next + 1 /\ vs'.seq = v.seq
      /\ vs'.files = v.files /\ todo'.logs = LogsFrom(v.log) /\ todo'.at = 0
  BY <1>5
<1>7. TypeOK'
  <2>1. vs' \in Versions
    BY <1>4, <1>5 DEF Versions
  <2>2. LogsFrom(v.log) \in SUBSET Nat
    BY DEF LogsFrom, IInv, TypeOK, LogsOk
  <2>3. todo' \in Todos
    BY <1>5, <2>2 DEF Todos
  <2> QED
    BY <1>1, <1>5, <2>1, <2>3, NoEditIs DEF IInv, TypeOK, Labels
<1>8. PcInv'
  BY <1>1 DEF IInv, PcInv
<1>9. DiskInv'
  BY <1>1, <1>2 DEF IInv, DiskInv, LastState
<1>10. VersionInv'
  <2>1. /\ Sound(current, log, sst, vs', Kept, Told)
        /\ Ordered(log, sst, v) => Ordered(log, sst, vs')
    BY <1>3, <1>4, <1>6, SoundLater
  <2> QED
    BY <1>1, <1>3, <2>1 DEF VersionInv
<1>11. ReplayInv'
  <2>1. LastState(current)' = v
    BY <1>1, <1>2 DEF LastState
  <2>2. edit'.added = {} /\ edit'.deleted = {}
    BY <1>5, NoEditIs
  <2>3. AddedOk(sst, {}, v.next, v.next + 1)
    BY DEF AddedOk
  <2>4. LogsLeft(log, v.log, v.next + 1, todo')
    <3>1. \A n \in DOMAIN log : n >= v.log <=> n \in todo'.logs
      BY <1>6 DEF LogsFrom
    <3>2. todo'.logs \subseteq DOMAIN log /\ todo'.logs \in SUBSET Nat
      BY <1>6, <1>7 DEF LogsFrom, TypeOK, Todos
    <3>3. ASSUME todo'.logs # {}
          PROVE  todo'.at <= Len(log[NextToReplay(todo'.logs)].recs)
      <4>1. NextToReplay(todo'.logs) \in DOMAIN log
        BY <3>2, <3>3, MinOf
      <4> QED
        BY <1>6, <4>1, LogFileIs DEF IInv, TypeOK
    <3> QED
      BY <3>1, <3>2, <3>3 DEF LogsLeft
  <2>5. Replayed(log, sst, v.log, todo', {})
    <3>1. \A n \in DOMAIN log : n >= v.log => n \in todo'.logs
      BY <1>6 DEF LogsFrom
    <3> QED
      BY <1>6, <3>1, NothingReplayed DEF IInv, TypeOK
  <2>6. v.next < v.next + 1 /\ \A f \in v.files : f[2] < v.next
    BY <1>3, <1>4 DEF Sound, FileOk
  <2> QED
    BY <1>1, <1>6, <2>1, <2>2, <2>3, <2>4, <2>5, <2>6 DEF ReplayInv
<1>12. ApplyInv' /\ OpenInv' /\ UpInv'
  BY <1>1 DEF ApplyInv, OpenInv, UpInv
<1> QED
  BY <1>7, <1>8, <1>9, <1>10, <1>11, <1>12 DEF IInv

IsSlice(S, recs, a, e) == \A s : s \in S <=> \E i \in (a + 1)..e : s = recs[i]

LEMMA SliceIs ==
  ASSUME NEW recs \in Seq(Nat), NEW a \in Nat, NEW e \in Nat, a < e, e <= Len(recs)
  PROVE  IsSlice(ToSet(SubSeq(recs, a + 1, e)), recs, a, e)
<1> SUFFICES ASSUME NEW s
             PROVE  s \in ToSet(SubSeq(recs, a + 1, e)) <=> \E i \in (a + 1)..e : s = recs[i]
  BY DEF IsSlice
<1> DEFINE q == SubSeq(recs, a + 1, e)
<1>1. /\ q \in Seq(Nat) /\ Len(q) = e - a
      /\ \A i \in 1..(e - a) : q[i] = recs[a + i]
  BY SubSeqProperties
<1> HIDE DEF q
<1>2. s \in ToSet(q) <=> \E i \in 1..(e - a) : s = q[i]
  <2>1. DOMAIN q = 1..(e - a)
    BY <1>1, LenProperties
  <2> QED
    BY <2>1 DEF ToSet
<1>3. (\E i \in 1..(e - a) : s = q[i]) => \E i \in (a + 1)..e : s = recs[i]
  <2>1. SUFFICES ASSUME NEW i \in 1..(e - a), s = q[i]
                 PROVE  \E j \in (a + 1)..e : s = recs[j]
    OBVIOUS
  <2>2. a + i \in (a + 1)..e /\ s = recs[a + i]
    BY <1>1, <2>1
  <2> QED
    BY <2>2
<1>4. (\E i \in (a + 1)..e : s = recs[i]) => \E i \in 1..(e - a) : s = q[i]
  <2>1. SUFFICES ASSUME NEW i \in (a + 1)..e, s = recs[i]
                 PROVE  \E j \in 1..(e - a) : s = q[j]
    OBVIOUS
  <2>2. i - a \in 1..(e - a) /\ a + (i - a) = i
    OBVIOUS
  <2>3. s = q[i - a]
    BY <1>1, <2>1, <2>2
  <2> QED
    BY <2>2, <2>3
<1> QED
  BY <1>2, <1>3, <1>4 DEF q

\* The next records of a log make an SSTable: the last one, and the newest.
LEMMA MoreReplayed ==
  ASSUME NEW L, NEW T, NEW T2, NEW min \in Nat, NEW low, NEW next \in Nat, NEW td \in Todos, NEW td2 \in Todos,
         NEW fs, NEW fs2, NEW n, NEW e \in Nat, NEW new,
         LogsOk(L), Ascending(L, min), td.logs # {}, n = NextToReplay(td.logs), low \in Nat, low < next,
         LogsLeft(L, min, next, td), AddedOk(T, fs, low, next), Replayed(L, T, min, td, fs),
         td.at < e, e <= Len(L[n].recs),
         IsWith(T, next, new, T2), IsSlice(new, L[n].recs, td.at, e),
         td2.logs = td.logs, td2.at = e, td2.max >= td.max, td2.max > L[n].recs[e],
         fs2 = fs \cup {<<0, next>>}
  PROVE  /\ AddedOk(T2, fs2, low, next + 1)
         /\ LogsLeft(L, min, next + 1, td2)
         /\ Replayed(L, T2, min, td2, fs2)
<1>0. \A s : s \in new <=> \E i \in (td.at + 1)..e : s = L[n].recs[i]
  BY DEF IsSlice
<1>1. n \in td.logs /\ n \in DOMAIN L /\ n >= min /\ n \in Nat /\ td.at \in Nat /\ td2.max \in Nat /\ td.max \in Nat
  <2>1. td.logs \in SUBSET Nat /\ td.at \in Nat /\ td2.max \in Nat /\ td.max \in Nat
    BY DEF Todos
  <2>2. n \in td.logs
    BY <2>1, MinOf
  <2> QED
    BY <2>1, <2>2 DEF LogsLeft
<1>2. /\ Len(L[n].recs) \in Nat /\ \A i \in 1..Len(L[n].recs) : L[n].recs[i] \in Nat
      /\ e \in 1..Len(L[n].recs)
  <2>1. Len(L[n].recs) \in Nat
    BY <1>1, LogFileIs
  <2>2. \A i \in 1..Len(L[n].recs) : L[n].recs[i] \in Nat
    BY <1>1, LogFileIs
  <2>3. 0 < e
    BY <1>1
  <2>4. e \in 1..Len(L[n].recs)
    BY <2>1, <2>3
  <2> QED
    BY <2>1, <2>2, <2>4
<1>3. /\ next \in DOMAIN T2 /\ T2[next] = new
      /\ \A k \in DOMAIN T : k # next => k \in DOMAIN T2 /\ T2[k] = T[k]
  BY DEF IsWith
<1>4. \A f \in fs : f[2] # next /\ f[2] \in DOMAIN T2 /\ T2[f[2]] = T[f[2]]
  BY <1>3 DEF AddedOk
<1>5. L[n].recs[e] \in new
  <2>1. e \in (td.at + 1)..e
    BY <1>1
  <2> QED
    BY <1>0, <2>1
<1>6. <<0, next>>[1] = 0 /\ <<0, next>>[2] = next /\ <<0, next>> \in {0} \X Nat
  OBVIOUS
<1>7. AddedOk(T2, fs2, low, next + 1)
  <2>1. ASSUME NEW f \in fs
        PROVE  /\ f \in {0} \X Nat /\ f[2] \in DOMAIN T2
               /\ low < f[2] /\ f[2] < next + 1 /\ T2[f[2]] # {}
    <3>1. f \in {0} \X Nat /\ low < f[2] /\ f[2] < next /\ T[f[2]] # {}
      BY DEF AddedOk
    <3>2. f[2] \in Nat
      BY <3>1
    <3> QED
      BY <1>4, <3>1, <3>2
  <2>2. low < next /\ next < next + 1 /\ T2[next] # {}
    BY <1>3, <1>5
  <2> QED
    BY <1>3, <1>6, <2>1, <2>2 DEF AddedOk
<1>8. LogsLeft(L, min, next + 1, td2)
  <2>1. \A k \in DOMAIN L : k >= min /\ k \notin td.logs => k < next + 1
    BY LogFileIs DEF LogsLeft
  <2> QED
    BY <2>1 DEF LogsLeft
<1>9. ASSUME NEW s
      PROVE  InFiles(T2, fs2, s) <=> InFiles(T, fs, s) \/ s \in new
  BY <1>3, <1>4, <1>6 DEF InFiles
<1>10. ASSUME NEW m \in DOMAIN L, NEW i \in Nat
       PROVE  IsRead(L, min, td2, m, i) <=> IsRead(L, min, td, m, i) \/ (m = n /\ i \in (td.at + 1)..e)
  BY <1>1, <1>2 DEF IsRead
<1>11. ASSUME NEW m \in DOMAIN L, NEW i \in Nat, IsRead(L, min, td2, m, i)
       PROVE  L[m].recs[i] \in Nat /\ L[m].recs[i] <= L[n].recs[e]
  <2>1. m >= min /\ i \in 1..Len(L[m].recs) /\ m \in Nat /\ L[m].recs[i] \in Nat /\ L[n].recs[e] \in Nat
    BY <1>2, <1>11, LogFileIs DEF IsRead
  <2>2. CASE m = n
    <3>1. i <= e
      BY <1>1, <1>11, <2>2 DEF IsRead
    <3>2. CASE i = e
      BY <2>1, <2>2, <3>2
    <3>3. CASE i < e
      <4>1. n <= n /\ i \in 1..Len(L[n].recs)
        BY <1>1, <2>1, <2>2
      <4>2. L[n].recs[i] < L[n].recs[e]
        BY <1>1, <1>2, <3>3, <4>1 DEF Ascending
      <4> QED
        BY <2>1, <2>2, <4>2
    <3> QED
      BY <2>1, <3>1, <3>2, <3>3
  <2>3. CASE m # n
    <3>1. m \notin td.logs
      BY <1>11, <2>3 DEF IsRead
    <3>2. m < n
      BY <1>1, <2>1, <3>1 DEF LogsLeft
    <3>3. min <= m /\ m <= n
      BY <1>1, <2>1, <3>2
    <3>4. L[m].recs[i] < L[n].recs[e]
      BY <1>1, <1>2, <2>1, <3>2, <3>3, AscendingIs
    <3> QED
      BY <2>1, <3>4
  <2> QED
    BY <2>2, <2>3
<1>12. \A g \in fs2 : IsTop(fs2, g) => g[2] = next
  <2>1. SUFFICES ASSUME NEW g \in fs, IsTop(fs2, g)
                 PROVE  FALSE
    BY <1>6
  <2>2. g[2] < next /\ g[2] \in Nat
    BY DEF AddedOk
  <2>3. next <= g[2]
    BY <1>6, <2>1 DEF IsTop
  <2> QED
    BY <2>2, <2>3
<1>13. ASSUME NEW m \in DOMAIN L, NEW i \in Nat, IsRead(L, min, td2, m, i)
       PROVE  /\ InFiles(T2, fs2, L[m].recs[i])
              /\ L[m].recs[i] < td2.max
              /\ \A g \in fs2 : IsTop(fs2, g) => \E t \in T2[g[2]] : L[m].recs[i] <= t
  <2>1. InFiles(T2, fs2, L[m].recs[i])
    <3>1. CASE IsRead(L, min, td, m, i)
      BY <1>9, <3>1 DEF Replayed
    <3>2. CASE m = n /\ i \in (td.at + 1)..e
      BY <1>0, <1>9, <3>2
    <3> QED
      BY <1>10, <1>13, <3>1, <3>2
  <2>2. L[m].recs[i] \in Nat /\ L[m].recs[i] <= L[n].recs[e] /\ L[n].recs[e] \in Nat
    <3>1. L[n].recs[e] \in Nat
      BY <1>2
    <3> QED
      BY <1>11, <1>13, <3>1
  <2>3. L[n].recs[e] \in T2[next] /\ L[m].recs[i] <= L[n].recs[e]
    BY <1>3, <1>5, <2>2
  <2>4. L[m].recs[i] < td2.max
    BY <1>1, <2>2
  <2> QED
    BY <1>12, <2>1, <2>3, <2>4
<1>14. ASSUME NEW s, InFiles(T2, fs2, s)
       PROVE  \E m \in DOMAIN L, i \in Nat : IsRead(L, min, td2, m, i) /\ s = L[m].recs[i]
  <2>1. CASE InFiles(T, fs, s)
    <3>1. PICK m \in DOMAIN L, i \in Nat : IsRead(L, min, td, m, i) /\ s = L[m].recs[i]
      BY <2>1 DEF Replayed
    <3> QED
      BY <1>10, <3>1
  <2>2. CASE s \in new
    <3>1. PICK i \in (td.at + 1)..e : s = L[n].recs[i]
      BY <1>0, <2>2
    <3>2. i \in Nat
      BY <1>1
    <3> QED
      BY <1>1, <1>10, <3>1, <3>2
  <2> QED
    BY <1>9, <1>14, <2>1, <2>2
<1> QED
  BY <1>7, <1>8, <1>13, <1>14 DEF Replayed

\* A log is read to its end.
LEMMA LogReplayed ==
  ASSUME NEW L, NEW T, NEW min \in Nat, NEW low, NEW next \in Nat, NEW next2 \in Nat,
         NEW td \in Todos, NEW td2 \in Todos, NEW fs, NEW n,
         LogsOk(L), td.logs # {}, n = NextToReplay(td.logs), td.at = Len(L[n].recs),
         LogsLeft(L, min, next, td), AddedOk(T, fs, low, next), Replayed(L, T, min, td, fs),
         td2.logs = td.logs \ {n}, td2.at = 0, td2.max = td.max, next <= next2, n < next2
  PROVE  /\ AddedOk(T, fs, low, next2)
         /\ LogsLeft(L, min, next2, td2)
         /\ Replayed(L, T, min, td2, fs)
<1>1. /\ n \in td.logs /\ n \in DOMAIN L /\ n >= min /\ n \in Nat
      /\ \A m \in td.logs : m \in Nat /\ n <= m
      /\ td2.logs \in SUBSET Nat
  BY MinOf DEF LogsLeft, Todos
<1>2. Len(L[n].recs) \in Nat
  BY <1>1, LogFileIs
<1>3. AddedOk(T, fs, low, next2)
  <2>1. ASSUME NEW f \in fs
        PROVE  f[2] < next2
    <3>1. f[2] < next /\ f[2] \in Nat
      BY DEF AddedOk
    <3> QED
      BY <3>1
  <2> QED
    BY <2>1 DEF AddedOk
<1>4. LogsLeft(L, min, next2, td2)
  <2>1. ASSUME NEW k \in DOMAIN L, k >= min, k \notin td2.logs
        PROVE  k < next2 /\ \A m \in td2.logs : k < m
    <3>1. CASE k = n
      BY <1>1, <3>1
    <3>2. CASE k # n
      <4>1. k < next /\ (\A m \in td.logs : k < m) /\ k \in Nat
        BY <2>1, <3>2, LogFileIs DEF LogsLeft
      <4> QED
        BY <4>1
    <3> QED
      BY <3>1, <3>2
  <2>2. ASSUME td2.logs # {}
        PROVE  td2.at <= Len(L[NextToReplay(td2.logs)].recs)
    <3>1. NextToReplay(td2.logs) \in DOMAIN L
      BY <1>1, <2>2, MinOf DEF LogsLeft
    <3> QED
      BY <3>1, LogFileIs
  <2> QED
    BY <2>1, <2>2 DEF LogsLeft
<1>5. ASSUME NEW m \in DOMAIN L, NEW i \in Nat
      PROVE  IsRead(L, min, td2, m, i) <=> IsRead(L, min, td, m, i)
  BY <1>1, <1>2 DEF IsRead
<1>6. Replayed(L, T, min, td2, fs)
  BY <1>5 DEF Replayed
<1> QED
  BY <1>3, <1>4, <1>6

LEMMA ReplayRecordsStep == ASSUME IInv, ReplayRecords PROVE IInv'
<1>1. /\ pc = "replay" /\ pc' = "replay" /\ apply = "none" /\ apply' = "none" /\ current # 0
      /\ current' = current /\ meta' = meta /\ log' = log /\ Kept' = Kept /\ Told' = Told /\ cut' = cut
      /\ mem' = mem /\ imm' = imm /\ logfile' = logfile /\ todo.logs # {}
  BY DEF ReplayRecords, IInv, PcInv, history, Kept, Told
<1>2. /\ vs \in Versions /\ edit \in Edits /\ todo \in Todos /\ LogsOk(log) /\ current \in Nat
  BY DEF IInv, TypeOK
<1>3. /\ vs.log = LastState(current).log /\ vs.meta = LastState(current).next /\ vs.meta < vs.next
      /\ (\A f \in vs.files : f[2] < vs.meta)
      /\ edit.deleted = {}
      /\ AddedOk(sst, edit.added, vs.meta, vs.next)
      /\ LogsLeft(log, vs.log, vs.next, todo)
      /\ Replayed(log, sst, vs.log, todo, edit.added)
  BY <1>1 DEF IInv, ReplayInv
<1>4. /\ Sound(current, log, sst, vs, Kept, Told)
      /\ ~cut => Ordered(log, sst, vs)
  BY <1>1 DEF IInv, VersionInv
<1>5. PICK x \in Nat : x = vs.next
  BY <1>2 DEF Versions
<1>6. PICK n : n = NextToReplay(todo.logs)
  OBVIOUS
<1>7. n \in DOMAIN log /\ log[n].recs \in Seq(Nat) /\ Len(log[n].recs) \in Nat /\ todo.at \in Nat /\ todo.max \in Nat
  <2>1. n \in todo.logs
    BY <1>1, <1>2, <1>6, MinOf DEF Todos
  <2> QED
    BY <1>2, <1>3, <2>1, LogFileIs DEF LogsLeft, Todos
<1>8. PICK e : e = Min({Len(log[n].recs), todo.at + WriteMemSize + 1})
  OBVIOUS
<1>9. /\ todo.at < e
      /\ sst' = With(sst, vs.next, ToSet(SubSeq(log[n].recs, todo.at + 1, e)))
      /\ todo' = [todo EXCEPT !.at = e, !.max = Max({@, log[n].recs[e] + 1})]
  BY <1>6, <1>8 DEF ReplayRecords
<1>10. e \in Nat /\ e <= Len(log[n].recs) /\ e \in 1..Len(log[n].recs)
  <2>1. PICK b \in Nat : b = todo.at + WriteMemSize + 1
    BY <1>7, RecoveryAssumption
  <2>2. e \in {Len(log[n].recs), b} /\ e <= Len(log[n].recs)
    BY <1>7, <1>8, <2>1, MinOfTwo
  <2> QED
    BY <1>7, <1>9, <2>1, <2>2
<1>11. PICK new : new = ToSet(SubSeq(log[n].recs, todo.at + 1, e))
  OBVIOUS
<1>12. /\ IsSlice(new, log[n].recs, todo.at, e)
       /\ IsWith(sst, x, new, sst')
  <2>1. IsWith(sst, x, new, sst')
    BY <1>5, <1>9, <1>11, WithIs
  <2>2. IsSlice(new, log[n].recs, todo.at, e)
    BY <1>7, <1>9, <1>10, <1>11, SliceIs
  <2> QED
    BY <2>1, <2>2
<1>13. PICK mx \in Nat : mx = Max({todo.max, log[n].recs[e] + 1}) /\ mx >= todo.max /\ mx > log[n].recs[e]
  <2>1. PICK b \in Nat : b = log[n].recs[e] + 1
    BY <1>2, <1>7, <1>10, LogFileIs
  <2>2. Max({todo.max, b}) \in {todo.max, b} /\ todo.max <= Max({todo.max, b}) /\ b <= Max({todo.max, b})
    BY <1>7, <2>1, MaxOfTwo
  <2>3. log[n].recs[e] \in Nat
    BY <1>2, <1>7, <1>10, LogFileIs
  <2> QED
    BY <1>7, <2>1, <2>2, <2>3
<1>14. todo' \in Todos /\ todo'.logs = todo.logs /\ todo'.at = e /\ todo'.max = mx
  BY <1>2, <1>9, <1>10, <1>13 DEF Todos
<1>15. /\ vs' \in Versions /\ vs'.next = x + 1 /\ vs'.log = vs.log /\ vs'.meta = vs.meta
       /\ vs'.seq = vs.seq /\ vs'.files = vs.files
  <2>1. PICK y \in Nat : y = x + 1
    OBVIOUS
  <2>2. vs' = [vs EXCEPT !.next = y]
    BY <1>5, <2>1 DEF ReplayRecords
  <2> QED
    BY <1>2, <2>1, <2>2 DEF Versions
<1>16. edit' \in Edits /\ edit'.added = edit.added \cup {<<0, x>>} /\ edit'.deleted = {}
  <2>1. PICK fs \in SUBSET (Nat \X Nat) : fs = edit.added \cup {<<0, x>>}
    <3>1. edit.added \in SUBSET (Nat \X Nat) /\ <<0, x>> \in Nat \X Nat
      BY <1>2 DEF Edits
    <3> QED
      BY <3>1
  <2>2. edit' = [edit EXCEPT !.added = fs]
    BY <1>5, <2>1 DEF ReplayRecords
  <2> QED
    BY <1>2, <1>3, <2>1, <2>2 DEF Edits
<1>17. TypeOK'
  BY <1>1, <1>14, <1>15, <1>16 DEF IInv, TypeOK
<1>18. PcInv'
  BY <1>1 DEF PcInv
<1>19. DiskInv'
  <2>1. LastState(current).next < x /\ LastState(current).next \in Nat
    BY <1>2, <1>3, <1>5 DEF Versions
  <2>2. \A k \in DOMAIN sst : k < LastState(current).next => k \in DOMAIN sst' /\ sst'[k] = sst[k]
    BY <1>5, <1>12, <2>1 DEF IsWith
  <2>3. /\ current \in DOMAIN meta /\ meta[current].synced \in Nat
        /\ meta[current].synced <= meta[current].synced
    BY <1>1, MetaTypes DEF IInv, DiskInv
  <2>4. SameLogs(log, log', LastState(current).log)
    BY <1>1, SameLogsItself
  <2> QED
    BY <1>1, <2>2, <2>3, <2>4, DiskKept DEF IInv
<1>20. VersionInv'
  <2>1. SameIn(sst, sst', vs.files)
    <3>1. ASSUME NEW f \in vs.files
          PROVE  f[2] \in DOMAIN sst' /\ sst'[f[2]] = sst[f[2]]
      <4>1. f[2] \in DOMAIN sst /\ f[2] < x /\ f[2] \in Nat
        BY <1>4, <1>5 DEF Sound, FileOk
      <4> QED
        BY <1>5, <1>12, <4>1 DEF IsWith
    <3> QED
      BY <3>1 DEF SameIn
  <2>2. /\ Sound(current, log, sst', vs, Kept, Told)
        /\ Ordered(log, sst, vs) => Ordered(log, sst', vs)
    BY <1>4, <2>1, SoundFiles
  <2>3. current < vs'.next /\ vs.next <= vs'.next /\ vs.seq <= vs'.seq /\ vs'.next \in Nat /\ vs'.seq \in Nat
    BY <1>2, <1>4, <1>5, <1>15 DEF Sound, Numbers, Versions
  <2>4. /\ Sound(current, log, sst', vs', Kept, Told)
        /\ Ordered(log, sst', vs) => Ordered(log, sst', vs')
    BY <1>2, <1>15, <2>2, <2>3, SoundLater
  <2> QED
    BY <1>1, <1>4, <2>2, <2>4 DEF VersionInv
<1>21. ReplayInv'
  <2>1. vs.log \in Nat /\ vs.meta \in Nat /\ Ascending(log, vs.log)
    BY <1>2, <1>4 DEF Versions, Sound
  <2>2. /\ AddedOk(sst', edit'.added, vs.meta, x + 1)
        /\ LogsLeft(log, vs.log, x + 1, todo')
        /\ Replayed(log, sst', vs.log, todo', edit'.added)
    <3>1. PICK m, a, b, td, td2, fs, fs2, T2 :
            /\ m = vs.log /\ a = vs.meta /\ b = log /\ td = todo /\ td2 = todo'
            /\ fs = edit.added /\ fs2 = edit'.added /\ T2 = sst'
      OBVIOUS
    <3>2. /\ m \in Nat /\ a \in Nat /\ td \in Todos /\ td2 \in Todos
          /\ LogsOk(b) /\ Ascending(b, m) /\ td.logs # {} /\ n = NextToReplay(td.logs) /\ a < x
      BY <1>1, <1>2, <1>3, <1>5, <1>6, <1>14, <2>1, <3>1
    <3>3. LogsLeft(b, m, x, td) /\ AddedOk(sst, fs, a, x) /\ Replayed(b, sst, m, td, fs)
      BY <1>3, <1>5, <3>1
    <3>4. /\ td.at < e /\ e <= Len(b[n].recs)
          /\ IsWith(sst, x, new, T2)
          /\ td2.logs = td.logs /\ td2.at = e /\ td2.max >= td.max /\ td2.max > b[n].recs[e]
          /\ fs2 = fs \cup {<<0, x>>}
      BY <1>9, <1>10, <1>12, <1>13, <1>14, <1>16, <3>1
    <3>5. IsSlice(new, b[n].recs, td.at, e)
      BY <1>12, <3>1
    <3>6. /\ AddedOk(T2, fs2, a, x + 1)
          /\ LogsLeft(b, m, x + 1, td2)
          /\ Replayed(b, T2, m, td2, fs2)
      BY <1>10, <3>2, <3>3, <3>4, <3>5, MoreReplayed
    <3> QED
      BY <3>1, <3>6
  <2>3. LastState(current)' = LastState(current) /\ vs.meta < x + 1
    BY <1>1, <1>3, <1>5, <2>1 DEF LastState
  <2> QED
    BY <1>1, <1>3, <1>15, <1>16, <2>2, <2>3 DEF ReplayInv
<1>22. ApplyInv' /\ OpenInv' /\ UpInv'
  BY <1>1 DEF ApplyInv, OpenInv, UpInv
<1> QED
  BY <1>17, <1>18, <1>19, <1>20, <1>21, <1>22 DEF IInv

LEMMA NextLogStep == ASSUME IInv, NextLog PROVE IInv'
<1>1. /\ pc = "replay" /\ pc' = "replay" /\ apply = "none" /\ apply' = "none" /\ current # 0
      /\ current' = current /\ meta' = meta /\ log' = log /\ sst' = sst
      /\ Kept' = Kept /\ Told' = Told /\ cut' = cut
      /\ mem' = mem /\ imm' = imm /\ logfile' = logfile /\ edit' = edit /\ todo.logs # {}
  BY DEF NextLog, IInv, PcInv, disk, history, Kept, Told
<1>2. /\ vs \in Versions /\ edit \in Edits /\ todo \in Todos /\ LogsOk(log) /\ current \in Nat
  BY DEF IInv, TypeOK
<1>3. /\ vs.log = LastState(current).log /\ vs.meta = LastState(current).next /\ vs.meta < vs.next
      /\ (\A f \in vs.files : f[2] < vs.meta)
      /\ edit.deleted = {}
      /\ AddedOk(sst, edit.added, vs.meta, vs.next)
      /\ LogsLeft(log, vs.log, vs.next, todo)
      /\ Replayed(log, sst, vs.log, todo, edit.added)
  BY <1>1 DEF IInv, ReplayInv
<1>4. /\ Sound(current, log, sst, vs, Kept, Told)
      /\ ~cut => Ordered(log, sst, vs)
  BY <1>1 DEF IInv, VersionInv
<1>5. PICK n : n = NextToReplay(todo.logs)
  OBVIOUS
<1>6. n \in todo.logs /\ n \in Nat
  BY <1>1, <1>2, <1>5, MinOf DEF Todos
<1>7. PICK y \in Nat : y = Max({vs.next, n + 1}) /\ vs.next <= y /\ n < y
  <2>1. PICK b \in Nat : b = n + 1
    BY <1>6
  <2>2. vs.next \in Nat
    BY <1>2 DEF Versions
  <2>3. Max({vs.next, b}) \in {vs.next, b} /\ vs.next <= Max({vs.next, b}) /\ b <= Max({vs.next, b})
    BY <2>1, <2>2, MaxOfTwo
  <2> QED
    BY <1>6, <2>1, <2>2, <2>3
<1>8. /\ vs' \in Versions /\ vs'.next = y /\ vs'.log = vs.log /\ vs'.meta = vs.meta
      /\ vs'.seq = vs.seq /\ vs'.files = vs.files
  <2>1. vs' = [vs EXCEPT !.next = y]
    BY <1>5, <1>7 DEF NextLog
  <2> QED
    BY <1>2, <2>1 DEF Versions
<1>9. /\ todo' \in Todos /\ todo'.logs = todo.logs \ {n} /\ todo'.at = 0 /\ todo'.max = todo.max
      /\ todo.at = Len(log[n].recs)
  <2>1. /\ todo' = [todo EXCEPT !.logs = @ \ {n}, !.at = 0]
        /\ todo.at = Len(log[n].recs)
    BY <1>5 DEF NextLog
  <2> QED
    BY <1>2, <2>1 DEF Todos
<1>10. TypeOK'
  BY <1>1, <1>8, <1>9 DEF IInv, TypeOK
<1>11. PcInv'
  BY <1>1 DEF PcInv
<1>12. DiskInv'
  BY <1>1 DEF IInv, DiskInv, LastState
<1>13. VersionInv'
  <2>1. current < vs'.next /\ vs.next <= vs'.next /\ vs.seq <= vs'.seq /\ vs'.next \in Nat /\ vs'.seq \in Nat
    BY <1>2, <1>4, <1>7, <1>8 DEF Sound, Numbers, Versions
  <2>2. /\ Sound(current, log, sst, vs', Kept, Told)
        /\ Ordered(log, sst, vs) => Ordered(log, sst, vs')
    BY <1>2, <1>4, <1>8, <2>1, SoundLater
  <2> QED
    BY <1>1, <1>4, <2>2 DEF VersionInv
<1>14. ReplayInv'
  <2>1. vs.log \in Nat /\ vs.next \in Nat /\ vs.meta \in Nat
    BY <1>2 DEF Versions
  <2>2. /\ AddedOk(sst, edit.added, vs.meta, y)
        /\ LogsLeft(log, vs.log, y, todo')
        /\ Replayed(log, sst, vs.log, todo', edit.added)
    <3>1. PICK m, a, b, td, td2, fs, x :
            m = vs.log /\ a = vs.meta /\ b = log /\ td = todo /\ td2 = todo' /\ fs = edit.added /\ x = vs.next
      OBVIOUS
    <3>2. /\ m \in Nat /\ x \in Nat /\ td \in Todos /\ td2 \in Todos /\ LogsOk(b)
          /\ td.logs # {} /\ n = NextToReplay(td.logs) /\ td.at = Len(b[n].recs)
      BY <1>1, <1>2, <1>5, <1>9, <2>1, <3>1
    <3>3. LogsLeft(b, m, x, td) /\ AddedOk(sst, fs, a, x) /\ Replayed(b, sst, m, td, fs)
      BY <1>3, <3>1
    <3>4. td2.logs = td.logs \ {n} /\ td2.at = 0 /\ td2.max = td.max /\ x <= y /\ n < y
      BY <1>7, <1>9, <3>1
    <3>5. /\ AddedOk(sst, fs, a, y)
          /\ LogsLeft(b, m, y, td2)
          /\ Replayed(b, sst, m, td2, fs)
      BY <3>2, <3>3, <3>4, LogReplayed
    <3> QED
      BY <3>1, <3>5
  <2>3. LastState(current)' = LastState(current) /\ vs.meta < y
    BY <1>1, <1>3, <1>7, <2>1 DEF LastState
  <2> QED
    BY <1>1, <1>3, <1>8, <2>2, <2>3 DEF ReplayInv
<1>15. ApplyInv' /\ OpenInv' /\ UpInv'
  BY <1>1 DEF ApplyInv, OpenInv, UpInv
<1> QED
  BY <1>10, <1>11, <1>12, <1>13, <1>14, <1>15 DEF IInv

----------------------------------------------------------------------------
(* Edits.                                                                  *)

LEMMA PreparedIs ==
  ASSUME NEW e \in Edits, NEW v \in Versions, NEW l \in Nat
  PROVE  /\ Prepared(e, v, l) \in Edits
         /\ Prepared(e, v, l).log = l /\ Prepared(e, v, l).seq = v.seq /\ Prepared(e, v, l).next = v.next
         /\ Prepared(e, v, l).added = e.added /\ Prepared(e, v, l).deleted = e.deleted
<1> DEFINE F == SUBSET (Nat \X Nat)
<1>1. Edits = [log : Int, seq : Int, next : Int, added : F, deleted : F]
  BY DEF Edits
<1>2. Versions = [log : Nat, meta : Nat, next : Nat, seq : Nat, files : F]
  BY DEF Versions
<1> HIDE DEF F
<1>3. PICK x \in Int, y \in Int, z \in Int : x = l /\ y = v.seq /\ z = v.next
  BY <1>2
<1>4. Prepared(e, v, l) = [e EXCEPT !.log = x, !.seq = y, !.next = z]
  BY <1>3 DEF Prepared
<1> QED
  BY <1>1, <1>3, <1>4

LEMMA SnapshotIs ==
  ASSUME NEW v \in Versions
  PROVE  /\ Snapshot(v) \in Edits /\ Snapshot(v).added = v.files /\ Snapshot(v).deleted = {}
<1> DEFINE F == SUBSET (Nat \X Nat)
<1>1. Edits = [log : Int, seq : Int, next : Int, added : F, deleted : F]
  BY DEF Edits
<1>2. Versions = [log : Nat, meta : Nat, next : Nat, seq : Nat, files : F]
  BY DEF Versions
<1>3. PICK e \in Edits : e = NoEdit /\ e.deleted = {}
  BY NoEditIs
<1> HIDE DEF F
<1>4. PICK fs \in F : fs = v.files
  BY <1>2
<1>5. Snapshot(v) = [e EXCEPT !.added = fs]
  BY <1>3, <1>4 DEF Snapshot
<1> QED
  BY <1>1, <1>3, <1>4, <1>5

\* A meta file that starts with the snapshot of v has the files of v.
SnapshotFile(v) == [recs |-> <<Snapshot(v)>>, synced |-> 0]

LEMMA SnapshotRead ==
  ASSUME NEW v \in Versions
  PROVE  /\ MetaFile(SnapshotFile(v))
         /\ Len(SnapshotFile(v).recs) = 1 /\ SnapshotFile(v).synced = 0
         /\ StateAfter(SnapshotFile(v).recs, 1).files = v.files
<1>1. PICK e \in Edits : e = Snapshot(v) /\ e.added = v.files /\ e.deleted = {}
  BY SnapshotIs
<1>2. PICK q \in Seq(Edits) : q = <<e>> /\ Len(q) = 1 /\ q[1] = e
  <2>1. <<e>> \in Seq(Edits) /\ Len(<<e>>) = 1 /\ <<e>>[1] = e
    OBVIOUS
  <2> QED
    BY <2>1
<1>3. SnapshotFile(v) = [recs |-> q, synced |-> 0]
  BY <1>1, <1>2 DEF SnapshotFile
<1>4. [recs |-> q, synced |-> 0] \in [recs : Seq(Edits), synced : Nat]
  OBVIOUS
<1>5. MetaFile(SnapshotFile(v))
  BY <1>2, <1>3, <1>4 DEF MetaFile
<1>6. StateAfter(q, 0 + 1) = ApplyEdit(NothingRead, q[0 + 1])
  BY StateStep
<1>7. StateAfter(q, 1).files = v.files
  <2>1. StateAfter(q, 1) = ApplyEdit(NothingRead, e)
    BY <1>2, <1>6
  <2>2. ApplyEdit(NothingRead, e).files = ({} \ {}) \cup v.files
    BY <1>1 DEF ApplyEdit, NothingRead
  <2> QED
    BY <2>1, <2>2
<1> QED
  BY <1>2, <1>3, <1>5, <1>7

----------------------------------------------------------------------------
(* The end of DB::Open.                                                    *)

\* When all logs are replayed the SSTables made hold what they held, and the version
\* with these needs only the new log.
LEMMA AllReplayed ==
  ASSUME NEW L, NEW T, NEW min \in Nat, NEW td \in Todos, NEW fs, LogsOk(L), td.logs = {},
         Replayed(L, T, min, td, fs), NEW s
  PROVE  /\ InLogs(L, min, s) => InFiles(T, fs, s)
         /\ InFiles(T, fs, s) => InLogs(L, min, s)
         /\ InLogs(L, min, s) => /\ s \in Nat /\ s < td.max
                                 /\ \A g \in fs : IsTop(fs, g) => \E t \in T[g[2]] : s <= t
<1>1. ASSUME InLogs(L, min, s)
      PROVE  /\ InFiles(T, fs, s) /\ s \in Nat /\ s < td.max
             /\ \A g \in fs : IsTop(fs, g) => \E t \in T[g[2]] : s <= t
  <2>1. PICK n \in DOMAIN L : n >= min /\ \E i \in 1..Len(L[n].recs) : s = L[n].recs[i]
    BY <1>1 DEF InLogs
  <2>2. PICK i \in 1..Len(L[n].recs) : s = L[n].recs[i]
    BY <2>1
  <2>3. i \in Nat /\ s \in Nat
    BY <2>2, LogFileIs
  <2>4. IsRead(L, min, td, n, i)
    BY <2>1 DEF IsRead
  <2> QED
    BY <2>2, <2>3, <2>4 DEF Replayed
<1>2. ASSUME InFiles(T, fs, s)
      PROVE  InLogs(L, min, s)
  <2>1. PICK n \in DOMAIN L, i \in Nat : IsRead(L, min, td, n, i) /\ s = L[n].recs[i]
    BY <1>2 DEF Replayed
  <2> QED
    BY <2>1 DEF IsRead, InLogs
<1> QED
  BY <1>1, <1>2

LEMMA OpenedVersion ==
  ASSUME NEW c, NEW L, NEW L2, NEW T, NEW v, NEW w, NEW p, NEW a, NEW td \in Todos, NEW fs, NEW low \in Nat,
         LogsOk(L), Sound(c, L, T, v, p, a), td.logs = {}, Replayed(L, T, v.log, td, fs),
         w.log \in Nat, w.seq \in Nat, w.next = w.log + 1, w.files = v.files \cup fs,
         AddedOk(T, fs, low, w.log), \A f \in v.files : f[2] < low, low < w.log,
         v.seq <= w.seq, td.max <= w.seq,
         NewEmpty(L, L2, w.log), \A n \in DOMAIN L : n < w.log
  PROVE  /\ Sound(low, L2, T, w, p, a)
         /\ Ordered(L, T, v) => Ordered(L2, T, w)
<1>1. v.log \in Nat /\ v.seq \in Nat /\ td.max \in Nat
  BY DEF Sound, Numbers, Todos
<1>2. ASSUME NEW s
      PROVE  /\ InLogs(L, v.log, s) <=> InFiles(T, fs, s)
             /\ InLogs(L, v.log, s) => /\ s \in Nat /\ s < td.max
                                       /\ \A g \in fs : IsTop(fs, g) => \E t \in T[g[2]] : s <= t
  BY <1>1, AllReplayed
<1>3. \A s : InFiles(T, w.files, s) <=> InFiles(T, v.files, s) \/ InFiles(T, fs, s)
  BY DEF InFiles
<1>4. ASSUME NEW f \in v.files
      PROVE  /\ f \in {0, 1} \X Nat /\ f[2] \in Nat /\ f[2] \in DOMAIN T /\ f[2] < low
             /\ f[1] = 0 => T[f[2]] # {}
             /\ \A s \in T[f[2]] : s \in Nat /\ s <= v.seq
  BY DEF Sound, FileOk
<1>5. ASSUME NEW f \in fs
      PROVE  /\ f \in {0} \X Nat /\ f[1] = 0 /\ f[2] \in Nat /\ f[2] \in DOMAIN T
             /\ low < f[2] /\ f[2] < w.log /\ T[f[2]] # {}
             /\ \A s \in T[f[2]] : s \in Nat /\ s <= w.seq
  <2>1. f \in {0} \X Nat /\ f[2] \in DOMAIN T /\ low < f[2] /\ f[2] < w.log /\ T[f[2]] # {}
    BY DEF AddedOk
  <2>2. f[1] = 0 /\ f[2] \in Nat
    BY <2>1
  <2>3. ASSUME NEW s \in T[f[2]]
        PROVE  s \in Nat /\ s <= w.seq
    <3>1. InFiles(T, fs, s)
      BY DEF InFiles
    <3>2. s \in Nat /\ s < td.max
      BY <1>2, <3>1
    <3> QED
      BY <1>1, <3>2
  <2> QED
    BY <2>1, <2>2, <2>3
<1>6. Numbers(low, w)
  BY DEF Numbers
<1>7. \A f \in w.files : FileOk(T, w, f)
  <2>1. ASSUME NEW f \in v.files
        PROVE  FileOk(T, w, f)
    <3>1. f[2] < w.next
      BY <1>4
    <3>2. \A s \in T[f[2]] : s \in Nat /\ s <= w.seq
      BY <1>1, <1>4
    <3> QED
      BY <1>4, <3>1, <3>2 DEF FileOk
  <2>2. ASSUME NEW f \in fs
        PROVE  FileOk(T, w, f)
    <3>1. f[2] < w.next /\ f \in {0, 1} \X Nat
      BY <1>5
    <3> QED
      BY <1>5, <3>1 DEF FileOk
  <2> QED
    BY <2>1, <2>2
<1>8. ASSUME NEW n \in DOMAIN L2, n >= w.log
      PROVE  Len(L2[n].recs) = 0
  <2>1. n = w.log
    BY <1>8, LogFileIs DEF NewEmpty
  <2> QED
    BY <2>1 DEF NewEmpty, EmptyFile
<1>9. Ascending(L2, w.log)
  <2>1. 1..0 = {}
    OBVIOUS
  <2> QED
    BY <1>8, <2>1 DEF Ascending
<1>10. \A s : ~InLogs(L2, w.log, s)
  BY <1>8 DEF InLogs
<1>11. ASSUME NEW s, InFiles(T, v.files, s) \/ InSynced(L, v.log, s) \/ InLogs(L, v.log, s)
       PROVE  InFiles(T, w.files, s)
  <2>1. InSynced(L, v.log, s) => InLogs(L, v.log, s)
    BY SyncedIsThere
  <2> QED
    BY <1>2, <1>3, <1>11, <2>1
<1>12. Sound(low, L2, T, w, p, a)
  BY <1>6, <1>7, <1>9, <1>11 DEF Sound
<1>13. ASSUME Ordered(L, T, v)
       PROVE  Ordered(L2, T, w)
  <2>1. Layered(T, v.files) /\ Covered(L, T, v)
    BY <1>13 DEF Ordered
  <2>2. ASSUME NEW f \in w.files, NEW g \in w.files, f[1] = 1, g[1] = 1
        PROVE  f = g
    <3>1. f \in v.files /\ g \in v.files
      BY <1>5, <2>2
    <3> QED
      BY <2>1, <2>2, <3>1 DEF Layered
  <2>3. ASSUME NEW g \in w.files, IsTop(w.files, g), NEW s, InFiles(T, w.files, s)
        PROVE  \E t \in T[g[2]] : s <= t
    <3>1. CASE fs = {}
      <4>1. w.files = v.files
        BY <3>1
      <4> QED
        BY <2>1, <2>3, <4>1 DEF Layered
    <3>2. CASE fs # {}
      <4>1. PICK f \in fs : TRUE
        BY <3>2
      <4>2. g \in fs
        <5>1. SUFFICES ASSUME g \in v.files
                       PROVE  FALSE
          BY <2>3 DEF IsTop
        <5>2. f[2] <= g[2]
          BY <1>5, <2>3 DEF IsTop
        <5> QED
          BY <1>4, <1>5, <5>1, <5>2
      <4>3. IsTop(fs, g)
        BY <2>3, <4>2 DEF IsTop
      <4>4. CASE InFiles(T, fs, s)
        BY <1>2, <4>2, <4>3, <4>4
      <4>5. CASE InFiles(T, v.files, s)
        <5>1. PICK r \in T[f[2]] : TRUE
          BY <1>5
        <5>2. InLogs(L, v.log, r)
          BY <1>2 DEF InFiles
        <5>3. PICK t : InLogs(L, v.log, t) /\ s <= t
          BY <2>1, <4>5, <5>2 DEF Covered
        <5>4. PICK u \in T[g[2]] : t <= u
          BY <1>2, <4>2, <4>3, <5>3
        <5>5. s \in Nat /\ t \in Nat /\ u \in Nat
          <6>1. PICK h \in v.files : s \in T[h[2]]
            BY <4>5 DEF InFiles
          <6>2. s \in Nat
            BY <1>4, <6>1
          <6> QED
            BY <1>2, <1>5, <4>2, <5>3, <5>4, <6>2
        <5> QED
          BY <5>3, <5>4, <5>5
      <4> QED
        BY <1>3, <2>3, <4>4, <4>5
    <3> QED
      BY <3>1, <3>2
  <2>4. Covered(L2, T, w)
    BY <1>10 DEF Covered
  <2> QED
    BY <2>2, <2>3, <2>4 DEF Ordered, Layered
<1> QED
  BY <1>12, <1>13

LEMMA NewLogStep == ASSUME IInv, NewLog PROVE IInv'
<1>1. /\ pc = "replay" /\ pc' = "log_and_apply" /\ apply = "none" /\ apply' = "add" /\ current # 0
      /\ current' = current /\ sst' = sst /\ Kept' = Kept /\ Told' = Told /\ cut' = cut
      /\ mem' = {} /\ imm' = {} /\ todo.logs = {} /\ logfile' = vs.next
  BY DEF NewLog, IInv, PcInv, history, Kept, Told
<1>2. /\ vs \in Versions /\ edit \in Edits /\ todo \in Todos /\ LogsOk(log) /\ MetasOk(meta) /\ current \in Nat
  BY DEF IInv, TypeOK
<1>3. /\ vs.log = LastState(current).log /\ vs.meta = LastState(current).next /\ vs.meta < vs.next
      /\ (\A f \in vs.files : f[2] < vs.meta)
      /\ edit.deleted = {}
      /\ AddedOk(sst, edit.added, vs.meta, vs.next)
      /\ LogsLeft(log, vs.log, vs.next, todo)
      /\ Replayed(log, sst, vs.log, todo, edit.added)
  BY <1>1 DEF IInv, ReplayInv
<1>4. /\ Sound(current, log, sst, vs, Kept, Told)
      /\ ~cut => Ordered(log, sst, vs)
  BY <1>1 DEF IInv, VersionInv
<1>5. PICK x \in Nat, m \in Nat, l \in Nat, q0 \in Nat : x = vs.next /\ m = vs.meta /\ l = vs.log /\ q0 = vs.seq
  BY <1>2 DEF Versions
<1>6. PICK q \in Nat : q = RecoveredSequence /\ q0 <= q /\ todo.max <= q
  <2>1. todo.max \in Nat
    BY <1>2 DEF Todos
  <2> QED
    BY <1>5, <2>1, MaxOfTwo DEF RecoveredSequence
<1>7. PICK y \in Nat : y = x + 1
  OBVIOUS
<1>8. /\ vs' = [vs EXCEPT !.next = y, !.seq = q]
      /\ vs' \in Versions /\ vs'.next = y /\ vs'.seq = q /\ vs'.log = l /\ vs'.meta = m /\ vs'.files = vs.files
  <2>1. vs' = [vs EXCEPT !.next = y, !.seq = q]
    BY <1>5, <1>6, <1>7 DEF NewLog
  <2> QED
    BY <1>2, <1>5, <2>1 DEF Versions
<1>9. /\ edit' \in Edits /\ edit'.log = x /\ edit'.seq = q /\ edit'.next = y
      /\ edit'.added = edit.added /\ edit'.deleted = {}
  <2>1. PICK v \in Versions : v = vs' /\ v.seq = q /\ v.next = y
    BY <1>8
  <2>2. PICK e \in Edits : e = edit /\ e.deleted = {}
    BY <1>2, <1>3
  <2>3. edit' = Prepared(e, v, x)
    BY <1>5, <2>1, <2>2 DEF NewLog
  <2>4. /\ Prepared(e, v, x) \in Edits
        /\ Prepared(e, v, x).log = x /\ Prepared(e, v, x).seq = v.seq /\ Prepared(e, v, x).next = v.next
        /\ Prepared(e, v, x).added = e.added /\ Prepared(e, v, x).deleted = e.deleted
    BY PreparedIs
  <2> QED
    BY <2>1, <2>2, <2>3, <2>4
<1>10. current < m /\ m < x
  BY <1>1, <1>3, <1>5, LastIsSound DEF IInv, Sound, Numbers
<1>11. \A n \in DOMAIN log : n < x
  <2>1. SUFFICES ASSUME NEW n \in DOMAIN log
                 PROVE  n < x
    OBVIOUS
  <2>2. n \in Nat
    BY <1>2, LogFileIs
  <2>3. n >= l => n < x
    BY <1>1, <1>3, <1>5 DEF LogsLeft
  <2>4. l < x
    BY <1>4, <1>5 DEF Sound, Numbers
  <2> QED
    BY <2>2, <2>3, <2>4
<1>12. NewEmpty(log, log', x)
  <2>1. IsWith(log, x, EmptyFile, log')
    BY <1>5, WithIs DEF NewLog
  <2>2. x \notin DOMAIN log
    BY <1>11
  <2> QED
    BY <2>1, <2>2 DEF IsWith, NewEmpty
<1>13. IsWith(meta, m, SnapshotFile(vs), meta')
  BY <1>5, WithIs DEF NewLog, SnapshotFile
<1>14. LogsOk(log')
  <2>1. LogFile(EmptyFile)
    BY DEF LogFile, EmptyFile
  <2> QED
    BY <1>2, <1>12, <2>1 DEF LogsOk, NewEmpty
<1>15. MetasOk(meta')
  BY <1>2, <1>13, SnapshotRead DEF MetasOk, IsWith
<1>16. TypeOK'
  <2>1. todo' \in Todos
    <3>1. {} \in SUBSET Nat
      OBVIOUS
    <3>2. todo' = [logs |-> {}, at |-> 0, max |-> 0]
      BY DEF NewLog, NoLogs
    <3> QED
      BY <3>1, <3>2 DEF Todos
  <2>2. {} \in SUBSET Nat
    OBVIOUS
  <2> QED
    BY <1>1, <1>2, <1>5, <1>8, <1>9, <1>14, <1>15, <2>1, <2>2 DEF TypeOK, Labels, Phases
<1>17. PcInv'
  BY <1>1 DEF PcInv
<1>18. DiskInv'
  <2>1. current \in DOMAIN meta /\ meta[current].synced \in Nat /\ meta[current].synced <= meta[current].synced
    BY <1>1, MetaTypes DEF IInv, DiskInv
  <2>2. current \in DOMAIN meta' /\ meta'[current] = meta[current]
    BY <1>2, <1>10, <1>13, <2>1 DEF IsWith
  <2>3. SameLogs(log, log', LastState(current).log)
    BY <1>12, NewEmptyKeeps
  <2>4. \A n \in DOMAIN sst : n < LastState(current).next => n \in DOMAIN sst' /\ sst'[n] = sst[n]
    BY <1>1
  <2> QED
    BY <1>1, <2>1, <2>2, <2>3, <2>4, DiskKept DEF IInv
<1>19. VersionInv' /\ ReplayInv' /\ UpInv'
  BY <1>1 DEF VersionInv, ReplayInv, UpInv
<1>20. ApplyInv'
  <2>1. PICK w : w = Applied'
    OBVIOUS
  <2>2. w.log = x /\ w.seq = q /\ w.next = y /\ w.files = vs.files \cup edit.added
    BY <1>8, <1>9, <2>1 DEF Applied
  <2>3. /\ Sound(m, log', sst, w, Kept, Told)
        /\ Ordered(log, sst, vs) => Ordered(log', sst, w)
    <3>1. PICK v, L, L2, fs, td, T : v = vs /\ L = log /\ L2 = log' /\ fs = edit.added /\ td = todo /\ T = sst
      OBVIOUS
    <3>2. /\ td \in Todos /\ LogsOk(L) /\ Sound(current, L, T, v, Kept, Told) /\ td.logs = {}
          /\ Replayed(L, T, v.log, td, fs) /\ (\A f \in v.files : f[2] < m)
      BY <1>1, <1>2, <1>3, <1>4, <1>5, <3>1
    <3>3. /\ w.log \in Nat /\ w.seq \in Nat /\ w.next = w.log + 1 /\ w.files = v.files \cup fs
          /\ AddedOk(T, fs, m, w.log) /\ m < w.log
          /\ v.seq <= w.seq /\ td.max <= w.seq /\ NewEmpty(L, L2, w.log) /\ (\A n \in DOMAIN L : n < w.log)
      BY <1>3, <1>5, <1>6, <1>7, <1>10, <1>11, <1>12, <2>2, <3>1
    <3>4. /\ Sound(m, L2, T, w, Kept, Told)
          /\ Ordered(L, T, v) => Ordered(L2, T, w)
      BY <3>2, <3>3, OpenedVersion
    <3> QED
      BY <3>1, <3>4
  <2>4. LastState(m)' = StateAfter(SnapshotFile(vs).recs, 1) /\ m \in DOMAIN meta'
    BY <1>2, <1>13, SnapshotRead DEF IsWith, LastState
  <2>5. LastState(m)'.files = vs.files
    BY <1>2, <2>4, SnapshotRead
  <2>6. q <= q /\ y <= y
    OBVIOUS
  <2> QED
    BY <1>1, <1>4, <1>8, <1>9, <2>1, <2>3, <2>4, <2>5, <2>6 DEF ApplyInv
<1>21. OpenInv'
  <2>1. x \in DOMAIN log' /\ log'[x].recs = <<>> /\ (\A n \in DOMAIN log' : n <= x)
    BY <1>2, <1>11, <1>12, LogFileIs DEF NewEmpty, EmptyFile
  <2> QED
    BY <1>1, <1>5, <1>7, <1>8, <1>9, <1>10, <2>1 DEF OpenInv
<1> QED
  BY <1>16, <1>17, <1>18, <1>19, <1>20, <1>21 DEF IInv

----------------------------------------------------------------------------
(* LogAndApply.                                                            *)

\* A record at the end of a meta file adds one state.
LEMMA StateAppended ==
  ASSUME NEW x \in Files(Edits), NEW e \in Edits, NEW y, y = Append1(x, e), NEW k, k = Len(x.recs)
  PROVE  /\ k \in Nat /\ Len(y.recs) = k + 1
         /\ StateAfter(y.recs, k) = StateAfter(x.recs, k)
         /\ StateAfter(y.recs, k + 1) = ApplyEdit(StateAfter(x.recs, k), e)
<1>1. /\ Len(y.recs) = k + 1 /\ k \in Nat
      /\ \A i \in 1..k : y.recs[i] = x.recs[i]
      /\ y.recs[k + 1] = e
  BY Append1Is
<1>2. StateAfter(y.recs, k) = StateAfter(x.recs, k)
  BY <1>1, StateOfPrefix
<1>3. StateAfter(y.recs, k + 1) = ApplyEdit(StateAfter(y.recs, k), y.recs[k + 1])
  BY <1>1, StateStep
<1> QED
  BY <1>1, <1>2, <1>3

\* While LogAndApply runs DB::Open has made its new log or has returned.
LEMMA Applying ==
  ASSUME IInv, apply # "none"
  PROVE  /\ pc \in {"log_and_apply", "up"} /\ current # 0
         /\ vs \in Versions /\ edit \in Edits /\ vs.meta \in Nat /\ vs.meta \in DOMAIN meta
         /\ Sound(vs.meta, log, sst, Applied, Kept, Told)
         /\ ~cut => Ordered(log, sst, Applied)
         /\ edit.log \in Nat /\ edit.seq \in Nat /\ edit.next \in Nat /\ vs.meta < edit.next
         /\ edit.seq <= vs.seq /\ edit.next <= vs.next
         /\ Applied.log = edit.log /\ Applied.seq = edit.seq /\ Applied.next = edit.next
         /\ Applied.files = (vs.files \ edit.deleted) \cup edit.added
<1>1. /\ pc \in {"log_and_apply", "up"} /\ current # 0
      /\ vs \in Versions /\ edit \in Edits
  BY DEF IInv, PcInv, TypeOK
<1>2. vs.meta \in Nat
  BY <1>1 DEF Versions
<1>3. /\ Sound(vs.meta, log, sst, Applied, Kept, Told)
      /\ ~cut => Ordered(log, sst, Applied)
      /\ edit.seq <= vs.seq /\ edit.next <= vs.next /\ vs.meta \in DOMAIN meta
  BY DEF IInv, ApplyInv
<1>4. /\ Applied.log = edit.log /\ Applied.seq = edit.seq /\ Applied.next = edit.next
      /\ Applied.files = (vs.files \ edit.deleted) \cup edit.added
  BY DEF Applied
<1>5. edit.log \in Nat /\ edit.seq \in Nat /\ edit.next \in Nat /\ vs.meta < edit.next
  BY <1>3, <1>4 DEF Sound, Numbers
<1> QED
  BY <1>1, <1>2, <1>3, <1>4, <1>5

LEMMA AddRecordStep == ASSUME IInv, AddRecord PROVE IInv'
<1>1. /\ apply = "add" /\ apply' = "sync"
      /\ current' = current /\ log' = log /\ sst' = sst /\ pc' = pc /\ vs' = vs /\ edit' = edit /\ todo' = todo
      /\ mem' = mem /\ imm' = imm /\ logfile' = logfile /\ Kept' = Kept /\ Told' = Told /\ cut' = cut
  BY DEF AddRecord, history, Kept, Told
<1>2. /\ pc \in {"log_and_apply", "up"} /\ current # 0
      /\ vs \in Versions /\ edit \in Edits /\ vs.meta \in Nat /\ vs.meta \in DOMAIN meta
      /\ Sound(vs.meta, log, sst, Applied, Kept, Told)
      /\ ~cut => Ordered(log, sst, Applied)
      /\ edit.log \in Nat /\ edit.seq \in Nat /\ edit.next \in Nat /\ vs.meta < edit.next
      /\ edit.seq <= vs.seq /\ edit.next <= vs.next
      /\ Applied.log = edit.log /\ Applied.seq = edit.seq /\ Applied.next = edit.next
      /\ Applied.files = (vs.files \ edit.deleted) \cup edit.added
  BY <1>1, Applying
<1>3. PICK m \in Nat : m = vs.meta
  BY <1>2
<1>4. PICK x \in Files(Edits) : x = meta[m] /\ x.synced \in Nat /\ x.synced <= Len(x.recs)
  BY <1>2, <1>3, MetaTypes DEF IInv
<1>5. PICK y : y = Append1(x, edit)
  OBVIOUS
<1>6. DOMAIN meta' = DOMAIN meta /\ meta'[m] = y /\ \A n \in DOMAIN meta : n # m => meta'[n] = meta[n]
  BY <1>2, <1>3, <1>4, <1>5 DEF AddRecord
<1>7. PICK k \in Nat : k = Len(x.recs)
  BY <1>4 DEF Files
<1>8. /\ Len(y.recs) = k + 1 /\ y \in Files(Edits) /\ y.synced = x.synced
      /\ StateAfter(y.recs, k) = StateAfter(x.recs, k)
      /\ StateAfter(y.recs, k + 1) = ApplyEdit(StateAfter(x.recs, k), edit)
  BY <1>2, <1>5, <1>7, StateAppended, Append1Is
<1>9. StateAfter(y.recs, k + 1) = Applied
  <2>1. PICK v : v = StateAfter(x.recs, k)
    OBVIOUS
  <2>2. v = LastState(m)
    BY <1>4, <1>7, <2>1 DEF LastState
  <2>3. v.files = vs.files
    BY <1>1, <1>3, <2>2 DEF IInv, ApplyInv
  <2>4. edit.log # -1 /\ edit.seq # -1 /\ edit.next # -1
    BY <1>2
  <2>5. ApplyEdit(v, edit) = [log |-> edit.log, seq |-> edit.seq, next |-> edit.next,
                              files |-> (vs.files \ edit.deleted) \cup edit.added]
    BY <2>3, <2>4 DEF ApplyEdit
  <2> QED
    BY <1>8, <2>1, <2>5 DEF Applied
<1>10. LastState(m)' = Applied /\ Applied' = Applied
  <2>1. LastState(m)' = StateAfter(y.recs, k + 1)
    BY <1>6, <1>8 DEF LastState
  <2>2. Applied' = Applied
    BY <1>1 DEF Applied
  <2> QED
    BY <1>9, <2>1, <2>2
<1>11. TypeOK'
  <2>1. MetaFile(y)
    <3>1. y.synced <= Len(y.recs)
      BY <1>4, <1>7, <1>8
    <3> QED
      BY <1>8, <3>1, Memberships
  <2>2. MetasOk(meta')
    BY <1>6, <2>1 DEF IInv, TypeOK, MetasOk
  <2> QED
    BY <1>1, <2>2 DEF IInv, TypeOK, Phases
<1>12. PcInv'
  BY <1>1, <1>2 DEF IInv, PcInv
<1>13. VersionInv' /\ ReplayInv' /\ OpenInv'
  BY <1>1, <1>2 DEF IInv, VersionInv, ReplayInv, OpenInv
<1>14. ApplyInv'
  BY <1>1, <1>2, <1>3, <1>6, <1>10 DEF ApplyInv
<1>15. CASE pc = "log_and_apply"
  <2>1. current # m /\ current \in DOMAIN meta
    BY <1>1, <1>2, <1>3, <1>15 DEF IInv, OpenInv, DiskInv, TypeOK
  <2>2. meta'[current] = meta[current] /\ current \in DOMAIN meta'
    BY <1>6, <2>1
  <2>3. meta[current].synced \in Nat /\ meta[current].synced <= meta[current].synced
    BY <2>1, MetaTypes DEF IInv
  <2>4. SameLogs(log, log', LastState(current).log)
    BY <1>1, SameLogsItself
  <2>5. DiskInv'
    BY <1>1, <2>2, <2>3, <2>4, DiskKept DEF IInv
  <2>6. UpInv'
    BY <1>1, <1>15 DEF UpInv
  <2> QED
    BY <1>11, <1>12, <1>13, <1>14, <2>5, <2>6 DEF IInv
<1>16. CASE pc = "up"
  <2>1. /\ current = m /\ x.synced = k /\ edit.log = vs.log
        /\ AllUpTo(x.recs, x.synced, vs) /\ AllCovered(x.recs, x.synced, vs)
        /\ LastState(current).next <= edit.next
    BY <1>1, <1>3, <1>4, <1>7, <1>16 DEF IInv, UpInv
  <2>2. PICK v : v = StateAfter(x.recs, k)
    OBVIOUS
  <2>3. /\ Sound(m, log, sst, v, Kept, Told)
        /\ ~cut => Ordered(log, sst, v)
        /\ v.next <= edit.next
    <3>1. v = LastState(current)
      BY <1>4, <1>7, <2>1, <2>2 DEF LastState
    <3> QED
      BY <1>2, <2>1, <3>1, LastIsSound DEF IInv
  <2>4. v.log = vs.log /\ v.next <= vs.next /\ v.seq <= vs.seq
    <3>1. k \in k..Len(x.recs)
      BY <1>7
    <3> QED
      BY <2>1, <2>2, <3>1 DEF AllUpTo, AllCovered
  <2>5. ASSUME NEW j \in k..(k + 1), NEW w, w = StateAfter(y.recs, j)
        PROVE  w = v \/ w = Applied
    BY <1>8, <1>9, <2>2, <2>5
  <2>6. /\ AllSound(m, y.recs, k, log, sst, Kept, Told)
        /\ ~cut => AllOrdered(y.recs, k, log, sst)
    BY <1>2, <1>3, <1>8, <2>3, <2>5 DEF AllSound, AllOrdered
  <2>7. /\ AllUpTo(y.recs, k, Applied) /\ AllUpTo(y.recs, k, vs) /\ AllCovered(y.recs, k, vs)
    <3>1. edit.next <= edit.next
      BY <1>2
    <3> QED
      BY <1>2, <1>8, <2>1, <2>3, <2>4, <2>5, <3>1 DEF AllUpTo, AllCovered
  <2>8. DiskInv'
    BY <1>1, <1>2, <1>3, <1>6, <1>8, <1>10, <2>1, <2>6, <2>7 DEF DiskInv
  <2>9. UpInv'
    <3>1. y.synced = k /\ meta'[current] = y
      BY <1>6, <1>8, <2>1
    <3> QED
      BY <1>1, <1>10, <1>16, <2>1, <2>7, <3>1 DEF IInv, UpInv
  <2> QED
    BY <1>11, <1>12, <1>13, <1>14, <2>8, <2>9 DEF IInv
<1> QED
  BY <1>2, <1>15, <1>16

LEMMA SyncRecordStep == ASSUME IInv, SyncRecord PROVE IInv'
<1>1. /\ apply = "sync" /\ apply' = IF pc = "up" THEN "install" ELSE "set_current"
      /\ current' = current /\ log' = log /\ sst' = sst /\ pc' = pc /\ vs' = vs /\ edit' = edit /\ todo' = todo
      /\ mem' = mem /\ imm' = imm /\ logfile' = logfile /\ Kept' = Kept /\ Told' = Told /\ cut' = cut
  BY DEF SyncRecord, history, Kept, Told
<1>2. /\ pc \in {"log_and_apply", "up"} /\ current # 0
      /\ vs \in Versions /\ edit \in Edits /\ vs.meta \in Nat /\ vs.meta \in DOMAIN meta
  BY <1>1, Applying
<1>3. PICK m \in Nat : m = vs.meta
  BY <1>2
<1>4. PICK x \in Files(Edits) : x = meta[m] /\ x.synced \in Nat /\ x.synced <= Len(x.recs) /\ Len(x.recs) \in Nat
  BY <1>2, <1>3, MetaTypes DEF IInv
<1>5. PICK y \in Files(Edits) : y = Synced(x) /\ y.recs = x.recs /\ y.synced = Len(x.recs)
  BY SyncedIs
<1>6. DOMAIN meta' = DOMAIN meta /\ meta'[m] = y /\ \A n \in DOMAIN meta : n # m => meta'[n] = meta[n]
  BY <1>2, <1>3, <1>4, <1>5 DEF SyncRecord
<1>7. /\ \A n \in DOMAIN meta : /\ meta'[n].recs = meta[n].recs /\ meta'[n].synced \in Nat
                                /\ meta[n].synced <= meta'[n].synced
  BY <1>4, <1>5, <1>6, MetaTypes DEF IInv
<1>8. \A n \in DOMAIN meta : LastState(n)' = LastState(n)
  BY <1>7 DEF LastState
<1>9. Applied' = Applied
  BY <1>1 DEF Applied
<1>10. TypeOK'
  <2>1. MetaFile(y)
    <3>1. y.synced <= Len(y.recs)
      BY <1>4, <1>5
    <3> QED
      BY <3>1, Memberships
  <2>2. MetasOk(meta')
    BY <1>6, <2>1 DEF IInv, TypeOK, MetasOk
  <2> QED
    BY <1>1, <2>2 DEF IInv, TypeOK, Phases
<1>11. PcInv'
  BY <1>1, <1>2 DEF IInv, PcInv
<1>12. VersionInv' /\ ReplayInv' /\ OpenInv'
  BY <1>1, <1>2 DEF IInv, VersionInv, ReplayInv, OpenInv
<1>13. DiskInv'
  <2>1. current \in DOMAIN meta
    BY <1>2 DEF IInv, DiskInv
  <2>2. SameLogs(log, log', LastState(current).log)
    BY <1>1, SameLogsItself
  <2> QED
    BY <1>1, <1>6, <1>7, <2>1, <2>2, DiskKept DEF IInv
<1>14. ApplyInv'
  <2>1. /\ Sound(m, log, sst, Applied, Kept, Told)
        /\ ~cut => Ordered(log, sst, Applied)
        /\ edit.seq <= vs.seq /\ edit.next <= vs.next
        /\ LastState(m) = Applied
    BY <1>1, <1>3 DEF IInv, ApplyInv
  <2>2. apply' = "install" => current = m
    BY <1>1, <1>3 DEF IInv, UpInv
  <2>3. meta'[m].synced = Len(meta'[m].recs) /\ m \in DOMAIN meta' /\ LastState(m)' = Applied
    BY <1>2, <1>3, <1>5, <1>6, <1>8, <2>1
  <2> QED
    BY <1>1, <1>3, <1>9, <2>1, <2>2, <2>3 DEF ApplyInv
<1>15. UpInv'
  <2>1. SUFFICES ASSUME pc = "up"
                 PROVE  UpInv'
    BY <1>1 DEF UpInv
  <2>2. PICK r, k0, k1 : r = meta[current].recs /\ k0 = meta[current].synced /\ k1 = meta'[current].synced
    OBVIOUS
  <2>3. k0 \in Nat /\ k1 \in Nat /\ k0 <= k1 /\ meta'[current].recs = r /\ Len(r) \in Nat
    BY <1>2, <1>7, <2>2, MetaTypes DEF IInv, DiskInv
  <2>4. AllUpTo(r, k1, vs) /\ AllCovered(r, k1, vs)
    <3>1. AllUpTo(r, k0, vs) /\ AllCovered(r, k0, vs)
      BY <2>1, <2>2 DEF IInv, UpInv
    <3>2. \A k \in k1..Len(r) : k \in k0..Len(r)
      BY <2>3
    <3> QED
      BY <3>1, <3>2 DEF AllUpTo, AllCovered
  <2>5. apply' = "install"
    BY <1>1, <2>1
  <2> QED
    BY <1>1, <1>9, <2>1, <2>2, <2>3, <2>4, <2>5 DEF IInv, UpInv
<1> QED
  BY <1>10, <1>11, <1>12, <1>13, <1>14, <1>15 DEF IInv

LEMMA SetCurrentStep == ASSUME IInv, SetCurrent PROVE IInv'
<1>1. /\ apply = "set_current" /\ apply' = "install" /\ current' = vs.meta
      /\ meta' = meta /\ log' = log /\ sst' = sst /\ pc' = pc /\ vs' = vs /\ edit' = edit /\ todo' = todo
      /\ mem' = mem /\ imm' = imm /\ logfile' = logfile /\ Kept' = Kept /\ Told' = Told /\ cut' = cut
  BY DEF SetCurrent, history, Kept, Told
<1>2. /\ vs.meta \in Nat /\ vs.meta \in DOMAIN meta /\ edit.next \in Nat
      /\ Sound(vs.meta, log, sst, Applied, Kept, Told)
      /\ ~cut => Ordered(log, sst, Applied)
  BY <1>1, Applying
<1>3. pc = "log_and_apply" /\ current < vs.meta /\ current \in Nat
  BY <1>1 DEF IInv, PcInv, OpenInv, TypeOK
<1>4. PICK m \in Nat : m = vs.meta /\ m # 0
  BY <1>2, <1>3
<1>5. PICK r, k : r = meta[m].recs /\ k = Len(r)
  OBVIOUS
<1>6. meta[m].synced = k /\ k \in Nat /\ StateAfter(r, k) = Applied /\ LastState(m) = Applied
  BY <1>1, <1>2, <1>4, <1>5, MetaTypes DEF IInv, ApplyInv, LastState
<1>7. /\ AllSound(m, r, k, log, sst, Kept, Told)
      /\ ~cut => AllOrdered(r, k, log, sst)
      /\ AllUpTo(r, k, Applied)
  <2>1. \A j \in k..k : StateAfter(r, j) = Applied
    BY <1>6
  <2>2. Applied.next <= Applied.next
    BY <1>2 DEF Applied
  <2> QED
    BY <1>2, <1>4, <1>5, <2>1, <2>2 DEF AllSound, AllOrdered, AllUpTo
<1>8. LastState(m)' = LastState(m) /\ Applied' = Applied
  BY <1>1 DEF LastState, Applied
<1>9. TypeOK'
  BY <1>1, <1>2 DEF IInv, TypeOK, Phases
<1>10. PcInv'
  BY <1>1, <1>3, <1>4 DEF IInv, PcInv
<1>11. DiskInv'
  BY <1>1, <1>2, <1>4, <1>5, <1>6, <1>7, <1>8 DEF DiskInv
<1>12. VersionInv' /\ ReplayInv' /\ UpInv'
  BY <1>1, <1>3 DEF VersionInv, ReplayInv, UpInv
<1>13. ApplyInv'
  BY <1>1, <1>4, <1>8 DEF IInv, ApplyInv
<1>14. OpenInv'
  BY <1>1, <1>3 DEF IInv, OpenInv
<1> QED
  BY <1>9, <1>10, <1>11, <1>12, <1>13, <1>14 DEF IInv

LEMMA InstallStep == ASSUME IInv, Install PROVE IInv'
<1>1. /\ apply = "install" /\ apply' = "none" /\ pc' = "up" /\ edit' = NoEdit
      /\ current' = current /\ todo' = todo /\ mem' = mem /\ logfile' = logfile
      /\ Kept' = Kept /\ Told' = Told /\ cut' = cut
      /\ imm' = IF edit.deleted = {} THEN {} ELSE imm
  BY DEF Install, history, Kept, Told
<1>2. /\ pc \in {"log_and_apply", "up"} /\ current # 0
      /\ vs \in Versions /\ edit \in Edits /\ vs.meta \in Nat /\ vs.meta \in DOMAIN meta
      /\ Sound(vs.meta, log, sst, Applied, Kept, Told)
      /\ ~cut => Ordered(log, sst, Applied)
      /\ edit.log \in Nat /\ edit.seq \in Nat /\ edit.next \in Nat /\ vs.meta < edit.next
      /\ edit.seq <= vs.seq /\ edit.next <= vs.next
      /\ Applied.log = edit.log /\ Applied.seq = edit.seq /\ Applied.next = edit.next
      /\ Applied.files = (vs.files \ edit.deleted) \cup edit.added
  BY <1>1, Applying
<1>3. PICK m \in Nat, l \in Nat : m = vs.meta /\ l = edit.log
  BY <1>2
<1>3w. PICK w : w = Applied
  OBVIOUS
<1>4. PICK fs \in SUBSET (Nat \X Nat) : fs = (vs.files \ edit.deleted) \cup edit.added
  BY <1>2 DEF Versions, Edits
<1>5. /\ vs' \in Versions /\ vs'.log = l /\ vs'.meta = m /\ vs'.next = vs.next /\ vs'.seq = vs.seq
      /\ vs'.files = w.files /\ w.files = fs /\ w.log = l /\ vs.seq \in Nat /\ vs.next \in Nat
  <2>1. vs' = [vs EXCEPT !.files = fs, !.log = l]
    BY <1>3, <1>3w, <1>4 DEF Install
  <2>2. vs' \in Versions /\ vs.seq \in Nat /\ vs.next \in Nat
    BY <1>2, <2>1 DEF Versions
  <2>3. /\ vs'.log = l /\ vs'.meta = vs.meta /\ vs'.next = vs.next /\ vs'.seq = vs.seq
        /\ vs'.files = fs
    BY <1>2, <2>1 DEF Versions
  <2> QED
    BY <1>2, <1>3, <1>3w, <1>4, <2>2, <2>3
<1>6. /\ current = m /\ meta[m].synced = Len(meta[m].recs) /\ LastState(m) = w
      /\ Sound(m, log, sst, w, Kept, Told)
      /\ ~cut => Ordered(log, sst, w)
  BY <1>1, <1>2, <1>3, <1>3w DEF IInv, ApplyInv
<1>7. /\ LogsOk(log) /\ MetasOk(meta)
  BY DEF IInv, TypeOK
\* GarbageFilesClean leaves what the new version needs.
<1>8. /\ LogsOk(log') /\ MetasOk(meta') /\ m \in DOMAIN meta' /\ meta'[m] = meta[m]
      /\ SameIn(sst, sst', fs) /\ SameLogs(log, log', l)
      /\ \A n \in DOMAIN log' : n \in DOMAIN log
      /\ \A n \in DOMAIN log : n >= l => n \in DOMAIN log' /\ log'[n] = log[n]
  <2>1. SameIn(sst, sst, fs)
    BY <1>5, <1>6, SameInItself
  <2>2. CASE pc # "up"
    <3>1. log' = log /\ meta' = meta /\ sst' = sst
      BY <2>2 DEF Install
    <3> QED
      BY <1>2, <1>3, <1>3w, <1>7, <2>1, <3>1, SameLogsItself
  <2>3. CASE pc = "up"
    <3>1. PICK dead, gone, old : /\ dead = {n \in DOMAIN log : n < l}
                                 /\ gone = {n \in DOMAIN meta : n < m}
                                 /\ old = DOMAIN sst \ {f[2] : f \in fs}
      OBVIOUS
    <3>2. /\ log' = Without(log, {n \in DOMAIN log : n < vs'.log})
          /\ meta' = Without(meta, {n \in DOMAIN meta : n < vs'.meta})
          /\ sst' = Without(sst, DOMAIN sst \ {f[2] : f \in vs'.files})
      BY <2>3 DEF Install
    <3>3. /\ IsWithout(log, dead, log') /\ IsWithout(meta, gone, meta') /\ IsWithout(sst, old, sst')
      BY <1>5, <3>1, <3>2, WithoutIs
    <3>4. Trimmed(log, log', l)
      BY <1>7, <3>1, <3>3, LogFileIs DEF IsWithout, Trimmed
    <3>5. SameLogs(log, log', l)
      BY <1>7, <3>4, TrimmedKeeps
    <3>6. LogsOk(log') /\ MetasOk(meta') /\ m \in DOMAIN meta' /\ meta'[m] = meta[m]
      BY <1>2, <1>3, <1>3w, <1>7, <3>1, <3>3 DEF IsWithout, LogsOk, MetasOk
    <3>7. SameIn(sst, sst', fs)
      BY <2>1, <3>1, <3>3 DEF SameIn, IsWithout
    <3> QED
      BY <3>4, <3>5, <3>6, <3>7 DEF Trimmed
  <2> QED
    BY <2>2, <2>3
<1>9. /\ Sound(m, log', sst', w, Kept, Told)
      /\ ~cut => Ordered(log', sst', w)
  BY <1>5, <1>6, <1>8, SoundStep
<1>10. TypeOK'
  <2>1. imm' \in SUBSET Nat
    BY <1>1 DEF IInv, TypeOK
  <2> QED
    BY <1>1, <1>5, <1>8, <2>1, NoEditIs DEF IInv, TypeOK, Labels, Phases
<1>11. PcInv'
  BY <1>1, <1>2 DEF PcInv
<1>12. PICK r, k : r = meta[m].recs /\ k = Len(r)
  OBVIOUS
<1>13. /\ k \in Nat /\ meta'[m].recs = r /\ meta'[m].synced = k /\ StateAfter(r, k) = w /\ LastState(m)' = w
       /\ \A j \in k..k : StateAfter(r, j) = w
  BY <1>2, <1>3, <1>3w, <1>6, <1>8, <1>12, MetaTypes DEF IInv, LastState
<1>14. DiskInv'
  <2>1. w.next \in Nat /\ w.next <= w.next
    BY <1>2, <1>3, <1>3w
  <2>2. /\ AllSound(m, r, k, log', sst', Kept, Told)
        /\ ~cut => AllOrdered(r, k, log', sst')
        /\ AllUpTo(r, k, w)
    BY <1>9, <1>12, <1>13, <2>1 DEF AllSound, AllOrdered, AllUpTo
  <2> QED
    BY <1>1, <1>6, <1>8, <1>12, <1>13, <2>2 DEF DiskInv
<1>15. VersionInv'
  <2>1. w.seq <= vs'.seq /\ w.next <= vs'.next /\ m < vs'.next /\ vs'.seq \in Nat /\ vs'.next \in Nat
    BY <1>2, <1>3, <1>3w, <1>5
  <2>2. /\ Sound(m, log', sst', vs', Kept, Told)
        /\ Ordered(log', sst', w) => Ordered(log', sst', vs')
    BY <1>5, <1>9, <2>1, SoundLater
  <2> QED
    BY <1>1, <1>6, <1>9, <2>2 DEF VersionInv
<1>16. ReplayInv' /\ ApplyInv' /\ OpenInv'
  BY <1>1 DEF ReplayInv, ApplyInv, OpenInv
<1>17. UpInv'
  <2>1. AllUpTo(r, k, vs') /\ AllCovered(r, k, vs')
    BY <1>2, <1>3, <1>3w, <1>5, <1>12, <1>13 DEF AllUpTo, AllCovered
  <2>2. logfile \in DOMAIN log /\ logfile >= l /\ logfile < vs.next /\ \A n \in DOMAIN log : n <= logfile
    <3>1. CASE pc = "up"
      BY <1>1, <1>3, <1>3w, <3>1 DEF IInv, UpInv
    <3>2. CASE pc = "log_and_apply"
      BY <1>2, <1>3, <1>3w, <3>2 DEF IInv, OpenInv
    <3> QED
      BY <1>2, <3>1, <3>2
  <2>3. ASSUME NEW s, InLogs(log', l, s)
        PROVE  s <= vs.seq
    <3>1. InLogs(log, l, s)
      BY <1>8, <2>3 DEF SameLogs
    <3>2. CASE pc = "up"
      BY <1>1, <1>3, <1>3w, <3>1, <3>2 DEF IInv, UpInv
    <3>3. CASE pc = "log_and_apply"
      <4>1. PICK n \in DOMAIN log : n >= l /\ \E i \in 1..Len(log[n].recs) : s = log[n].recs[i]
        BY <3>1 DEF InLogs
      <4>2. n = l /\ log[l].recs = <<>>
        BY <1>3, <1>3w, <1>7, <3>3, <4>1, LogFileIs DEF IInv, OpenInv
      <4>3. Len(log[n].recs) = 0
        BY <4>2
      <4> QED
        BY <4>1, <4>3
    <3> QED
      BY <1>2, <3>2, <3>3
  <2>4. /\ mem' \cup imm' \subseteq mem \cup imm /\ imm' \subseteq imm
        /\ edit.deleted = {} => imm' = {}
    BY <1>1
  <2>5. ASSUME NEW s \in mem' \cup imm'
        PROVE  pc = "up" /\ InLogs(log', l, s)
    <3>1. pc = "up"
      BY <1>2, <2>4 DEF IInv, OpenInv
    <3>2. InLogs(log, l, s)
      BY <1>1, <1>3, <1>3w, <2>4, <3>1 DEF IInv, UpInv
    <3> QED
      BY <1>8, <3>1, <3>2 DEF SameLogs, LogsKept
  <2>6. \A s \in imm', t \in mem' : s < t
    BY <1>1, <2>4, <2>5 DEF IInv, UpInv
  <2>7. ASSUME NEW s, NEW t \in mem' \cup imm', InFiles(sst', fs, s)
        PROVE  s < t
    <3>1. InFiles(sst, fs, s)
      BY <1>8, <2>7, SameFound
    <3>2. InFiles(sst, vs.files, s) \/ (edit.deleted = {} /\ s \in imm)
      BY <1>1, <1>3, <1>3w, <1>5, <2>5, <3>1 DEF IInv, UpInv
    <3>3. CASE InFiles(sst, vs.files, s)
      BY <2>4, <2>5, <3>3 DEF IInv, UpInv
    <3>4. CASE edit.deleted = {} /\ s \in imm
      <4>1. t \in mem
        BY <1>1, <2>4, <3>4
      <4> QED
        BY <2>5, <3>4, <4>1 DEF IInv, UpInv
    <3> QED
      BY <3>2, <3>3, <3>4
  <2>8. logfile \in DOMAIN log' /\ \A n \in DOMAIN log' : n <= logfile
    BY <1>8, <2>2
  <2> QED
    BY <1>1, <1>5, <1>6, <1>12, <1>13, <2>1, <2>2, <2>3, <2>5, <2>6, <2>7, <2>8 DEF UpInv
<1> QED
  BY <1>10, <1>11, <1>14, <1>15, <1>16, <1>17 DEF IInv

----------------------------------------------------------------------------
(* The open database.                                                      *)

\* The meta states a crash may leave have the log of the version in memory.
LEMMA UpTo ==
  ASSUME IInv, pc = "up"
  PROVE  /\ current # 0 /\ current \in Nat /\ current = vs.meta /\ current \in DOMAIN meta
         /\ vs \in Versions /\ edit \in Edits /\ LogsOk(log) /\ MetasOk(meta)
         /\ vs.log \in Nat /\ vs.meta \in Nat /\ vs.next \in Nat /\ vs.seq \in Nat
         /\ Sound(current, log, sst, vs, Kept, Told)
         /\ ~cut => Ordered(log, sst, vs)
         /\ AllUpTo(meta[current].recs, meta[current].synced, vs)
         /\ AllCovered(meta[current].recs, meta[current].synced, vs)
         /\ LastState(current).log = vs.log /\ LastState(current).next <= vs.next
         /\ LastState(current).next \in Nat
         /\ meta[current].synced \in Nat /\ Len(meta[current].recs) \in Nat
<1>1. /\ current # 0 /\ current \in Nat /\ current = vs.meta
      /\ vs \in Versions /\ edit \in Edits /\ LogsOk(log) /\ MetasOk(meta)
      /\ AllUpTo(meta[current].recs, meta[current].synced, vs)
      /\ AllCovered(meta[current].recs, meta[current].synced, vs)
  BY DEF IInv, PcInv, TypeOK, UpInv
<1>2. /\ Sound(current, log, sst, vs, Kept, Told)
      /\ ~cut => Ordered(log, sst, vs)
  BY DEF IInv, VersionInv
<1>3. vs.log \in Nat /\ vs.meta \in Nat /\ vs.next \in Nat /\ vs.seq \in Nat
  BY <1>1 DEF Versions
<1>4. current \in DOMAIN meta /\ Sound(current, log, sst, LastState(current), Kept, Told)
  BY <1>1, LastIsSound DEF IInv
<1>5. LastState(current).next \in Nat
  BY <1>4 DEF Sound, Numbers
<1>6. /\ meta[current].synced \in Nat /\ Len(meta[current].recs) \in Nat
      /\ meta[current].synced <= Len(meta[current].recs)
  BY <1>4, MetaTypes DEF IInv
<1>7. Len(meta[current].recs) \in meta[current].synced..Len(meta[current].recs)
  BY <1>6
<1>8. LastState(current).log = vs.log /\ LastState(current).next <= vs.next
  BY <1>1, <1>7 DEF AllUpTo, LastState
<1> QED
  BY <1>1, <1>2, <1>3, <1>4, <1>5, <1>6, <1>8

\* What is in a sound version is covered by its last sequence.
LEMMA EntriesCovered ==
  ASSUME NEW c, NEW L, NEW T, NEW v, NEW p, NEW a, Sound(c, L, T, v, p, a), NEW s, InFiles(T, v.files, s)
  PROVE  s \in Nat /\ s <= v.seq
BY DEF Sound, InFiles, FileOk

LEMMA InLogsIsNat ==
  ASSUME NEW L, LogsOk(L), NEW min, NEW s, InLogs(L, min, s)
  PROVE  s \in Nat
<1>1. PICK n \in DOMAIN L : \E i \in 1..Len(L[n].recs) : s = L[n].recs[i]
  BY DEF InLogs
<1> QED
  BY <1>1, LogFileIs

LEMMA WriteStep ==
  ASSUME IInv, NEW sync \in BOOLEAN, Write(sync)
  PROVE  IInv'
<1>1. /\ pc = "up" /\ pc' = "up" /\ current' = current /\ meta' = meta /\ sst' = sst /\ edit' = edit /\ todo' = todo
      /\ imm' = imm /\ logfile' = logfile /\ apply' = apply /\ dropped' = dropped /\ cut' = cut
  BY DEF Write
<1>2. /\ current # 0 /\ current \in Nat /\ current = vs.meta /\ current \in DOMAIN meta
      /\ vs \in Versions /\ LogsOk(log)
      /\ vs.log \in Nat /\ vs.seq \in Nat
      /\ Sound(current, log, sst, vs, Kept, Told)
      /\ ~cut => Ordered(log, sst, vs)
      /\ AllUpTo(meta[current].recs, meta[current].synced, vs)
      /\ AllCovered(meta[current].recs, meta[current].synced, vs)
  BY <1>1, UpTo
<1>3. PICK s \in Nat, n \in Nat, l \in Nat : s = vs.seq + 1 /\ n = logfile /\ l = vs.log
  <2>1. vs.seq + 1 \in Nat /\ logfile \in Nat
    BY <1>2 DEF IInv, TypeOK
  <2> QED
    BY <1>2, <2>1
<1>4. /\ vs' \in Versions /\ vs'.log = vs.log /\ vs'.meta = vs.meta /\ vs'.next = vs.next
      /\ vs'.seq = s /\ vs'.files = vs.files
  <2>1. vs' = [vs EXCEPT !.seq = s]
    BY <1>3 DEF Write
  <2> QED
    BY <1>2, <2>1 DEF Versions
<1>5. /\ n \in DOMAIN log /\ n >= l /\ n < vs.next /\ n \in Nat
      /\ \A k \in DOMAIN log : k <= n
      /\ \A x : InLogs(log, l, x) => x <= vs.seq
      /\ \A x \in mem \cup imm : InLogs(log, l, x)
      /\ \A x \in imm, t \in mem : x < t
      /\ \A x, t : InFiles(sst, vs.files, x) /\ t \in mem \cup imm => x < t
  BY <1>1, <1>3 DEF IInv, UpInv, TypeOK
<1>6. PICK f \in Files(Nat) : f = log[n] /\ f.synced <= Len(f.recs) /\ Len(f.recs) \in Nat
  BY <1>2, <1>5, Memberships, LogFileIs DEF LogsOk
<1>7. PICK g \in Files(Nat) : /\ g = Append1(f, s)
                              /\ g.synced = f.synced /\ Len(g.recs) = Len(f.recs) + 1
                              /\ \A i \in 1..Len(f.recs) : g.recs[i] = f.recs[i]
                              /\ g.recs[Len(f.recs) + 1] = s
  BY <1>3, Append1Is
<1>8. PICK h \in Files(Nat) : /\ h \in {g, Synced(g)} /\ log' = [log EXCEPT ![n] = h]
                              /\ sync => h = Synced(g)
  <2>1. Synced(g) \in Files(Nat)
    BY SyncedIs
  <2>2. log' = [log EXCEPT ![n] = IF sync THEN Synced(g) ELSE g]
    BY <1>3, <1>6, <1>7 DEF Write
  <2>3. CASE sync
    <3>1. log' = [log EXCEPT ![n] = Synced(g)]
      BY <2>2, <2>3
    <3> QED
      BY <2>1, <3>1
  <2>4. CASE ~sync
    <3>1. log' = [log EXCEPT ![n] = g]
      BY <2>2, <2>4
    <3> QED
      BY <2>4, <3>1
  <2> QED
    BY <2>3, <2>4
<1>9. /\ DOMAIN log' = DOMAIN log /\ log'[n] = h /\ \A k \in DOMAIN log : k # n => log'[k] = log[k]
      /\ h.recs = g.recs /\ h.synced \in {f.synced, Len(f.recs) + 1} /\ h.synced <= Len(h.recs)
      /\ h = Synced(g) => h.synced = Len(h.recs)
  <2>1. Synced(g).recs = g.recs /\ Synced(g).synced = Len(g.recs)
    BY SyncedIs
  <2>2. DOMAIN log' = DOMAIN log /\ log'[n] = h /\ \A k \in DOMAIN log : k # n => log'[k] = log[k]
    BY <1>5, <1>8
  <2>3. f.synced \in Nat
    BY DEF Files
  <2> QED
    BY <1>6, <1>7, <1>8, <2>1, <2>2, <2>3
<1>10. Appended(log, log', n, s)
  BY <1>5, <1>6, <1>7, <1>9 DEF Appended
<1>11. LogsOk(log')
  <2>1. LogFile(h)
    BY <1>9, Memberships
  <2> QED
    BY <1>2, <1>9, <2>1 DEF LogsOk
<1>12. /\ mem' = mem \cup {s} /\ acked' = acked \cup {s} /\ promised' \subseteq promised \cup {s}
       /\ ~sync => promised' = promised
  BY <1>3 DEF Write
<1>13. ASSUME NEW x, InLogs(log, l, x) \/ InFiles(sst, vs.files, x)
       PROVE  x \in Nat /\ x <= vs.seq /\ x < s
  <2>1. x \in Nat /\ x <= vs.seq
    BY <1>2, <1>5, <1>13, InLogsIsNat, EntriesCovered
  <2> QED
    BY <1>2, <1>3, <2>1
<1>14. s \notin Kept
  <2>1. SUFFICES ASSUME s \in Kept
                 PROVE  FALSE
    OBVIOUS
  <2>2. InFiles(sst, vs.files, s) \/ InSynced(log, l, s)
    BY <1>2, <1>3, <2>1 DEF Sound
  <2>3. InFiles(sst, vs.files, s) \/ InLogs(log, l, s)
    BY <1>2, <2>2, SyncedIsThere
  <2>4. s < s
    BY <1>13, <2>3
  <2> QED
    BY <2>4
<1>15. /\ Kept' \subseteq Kept \cup {s} /\ Told' \subseteq Told \cup {s}
       /\ s \in Kept' => log'[n].synced = Len(log'[n].recs)
  <2>1. Kept' \subseteq Kept \cup {s} /\ Told' \subseteq Told \cup {s}
    BY <1>1, <1>12 DEF Kept, Told
  <2>2. s \in Kept' => sync
    BY <1>1, <1>12, <1>14 DEF Kept
  <2> QED
    BY <1>8, <1>9, <2>1, <2>2
\* The write leaves every version of interest sound.
<1>16. ASSUME NEW c, NEW v, Sound(c, log, sst, v, Kept, Told), v.log = l, v.seq <= vs.seq
       PROVE  /\ Sound(c, log', sst, v, Kept', Told')
              /\ Ordered(log, sst, v) => Ordered(log', sst, v)
  <2>1. \A x : InLogs(log, v.log, x) => x < s
    BY <1>13, <1>16
  <2>2. n >= v.log
    BY <1>2, <1>5, <1>16
  <2>3. v.seq < s
    <3>1. v.seq \in Nat /\ v.seq <= vs.seq
      BY <1>16 DEF Sound, Numbers
    <3> QED
      BY <1>2, <1>3, <1>5, <3>1
  <2> QED
    BY <1>2, <1>5, <1>10, <1>15, <1>16, <2>1, <2>2, <2>3, SoundWrite
<1>17. TypeOK'
  <2>1. mem' \in SUBSET Nat
    BY <1>12 DEF IInv, TypeOK
  <2> QED
    BY <1>1, <1>4, <1>11, <2>1 DEF IInv, TypeOK
<1>18. PcInv'
  BY <1>1, <1>2 DEF IInv, PcInv
<1>19. DiskInv'
  <2>1. PICK r, k0 : r = meta[current].recs /\ k0 = meta[current].synced
    OBVIOUS
  <2>2. ASSUME NEW k \in k0..Len(r), NEW v, v = StateAfter(r, k)
        PROVE  /\ Sound(current, log', sst, v, Kept', Told')
               /\ ~cut => Ordered(log', sst, v)
    <3>1. /\ Sound(current, log, sst, v, Kept, Told)
          /\ ~cut => Ordered(log, sst, v)
      BY <1>2, <2>1, <2>2 DEF IInv, DiskInv, AllSound, AllOrdered
    <3>2. v.log = l /\ v.seq <= vs.seq
      BY <1>2, <1>3, <2>1, <2>2 DEF AllUpTo, AllCovered
    <3> QED
      BY <1>16, <3>1, <3>2
  <2>3. /\ AllSound(current, r, k0, log', sst, Kept', Told')
        /\ ~cut => AllOrdered(r, k0, log', sst)
    BY <2>2 DEF AllSound, AllOrdered
  <2>4. AllUpTo(r, k0, LastState(current)) /\ LastState(current)' = LastState(current)
    BY <1>1, <1>2, <2>1 DEF IInv, DiskInv, LastState
  <2> QED
    BY <1>1, <1>2, <2>1, <2>3, <2>4 DEF DiskInv
<1>20. VersionInv'
  <2>1. /\ Sound(current, log', sst, vs, Kept', Told')
        /\ Ordered(log, sst, vs) => Ordered(log', sst, vs)
    BY <1>2, <1>3, <1>16
  <2>2. /\ vs.seq <= vs'.seq /\ vs.next <= vs'.next /\ current < vs'.next /\ vs'.seq \in Nat /\ vs'.next \in Nat
    BY <1>2, <1>3, <1>4 DEF Sound, Numbers
  <2>3. /\ Sound(current, log', sst, vs', Kept', Told')
        /\ Ordered(log', sst, vs) => Ordered(log', sst, vs')
    BY <1>2, <1>4, <2>1, <2>2, SoundLater
  <2> QED
    BY <1>1, <1>2, <2>1, <2>3 DEF VersionInv
<1>21. Applied' = Applied
  BY <1>1, <1>4 DEF Applied
<1>22. ApplyInv'
  <2>1. SUFFICES ASSUME apply # "none"
                 PROVE  ApplyInv'
    BY <1>1 DEF ApplyInv
  <2>2. /\ Sound(vs.meta, log, sst, Applied, Kept, Told)
        /\ ~cut => Ordered(log, sst, Applied)
        /\ edit.seq <= vs.seq /\ edit.next <= vs.next /\ edit.seq \in Nat
        /\ Applied.log = edit.log /\ Applied.seq = edit.seq
    BY <2>1, Applying
  <2>3. Applied.log = l
    BY <1>1, <1>3, <2>1, <2>2 DEF IInv, UpInv
  <2>4. /\ Sound(vs.meta, log', sst, Applied, Kept', Told')
        /\ Ordered(log, sst, Applied) => Ordered(log', sst, Applied)
    BY <1>16, <2>2, <2>3
  <2>5. edit.seq <= vs'.seq
    BY <1>2, <1>3, <1>4, <2>2
  <2>6. PICK m : m = vs.meta
    OBVIOUS
  <2>7. /\ m \in DOMAIN meta
        /\ apply = "add" => LastState(m).files = vs.files
        /\ apply # "add" => LastState(m) = Applied
        /\ apply \in {"set_current", "install"} => meta[m].synced = Len(meta[m].recs)
        /\ apply = "install" => current = m
    BY <2>1, <2>6 DEF IInv, ApplyInv
  <2>8. LastState(m)' = LastState(m) /\ vs'.meta = m
    BY <1>1, <1>4, <2>6 DEF LastState
  <2> QED
    BY <1>1, <1>4, <1>21, <2>2, <2>4, <2>5, <2>6, <2>7, <2>8 DEF ApplyInv
<1>23. ReplayInv' /\ OpenInv'
  BY <1>1 DEF ReplayInv, OpenInv
<1>24. UpInv'
  <2>1. /\ LogsKept(log, log', l)
        /\ \A x : InLogs(log', l, x) <=> InLogs(log, l, x) \/ x = s
    <3>1. \A x : InLogs(log, l, x) => x < s
      BY <1>13
    <3> QED
      BY <1>2, <1>5, <1>10, <3>1, AppendedKeeps
  <2>2. \A x : InLogs(log', l, x) => x <= s
    BY <1>13, <2>1
  <2>3. \A x \in mem' \cup imm' : InLogs(log', l, x)
    BY <1>1, <1>5, <1>12, <2>1
  <2>4. \A x \in imm', t \in mem' : x < t
    BY <1>1, <1>5, <1>12, <1>13
  <2>5. \A x, t : InFiles(sst, vs.files, x) /\ t \in mem' \cup imm' => x < t
    BY <1>1, <1>5, <1>12, <1>13
  <2>6. PICK r, k0 : r = meta[current].recs /\ k0 = meta[current].synced
    OBVIOUS
  <2>7. AllUpTo(r, k0, vs') /\ AllCovered(r, k0, vs')
    <3>1. ASSUME NEW k \in k0..Len(r)
          PROVE  StateAfter(r, k).seq <= s
      <4>1. StateAfter(r, k).seq <= vs.seq /\ StateAfter(r, k).seq \in Nat
        BY <1>2, <2>6 DEF AllCovered, IInv, DiskInv, AllSound, Sound, Numbers
      <4> QED
        BY <1>2, <1>3, <4>1
    <3> QED
      BY <1>2, <1>4, <2>6, <3>1 DEF AllUpTo, AllCovered
  <2>8. LastState(current)' = LastState(current)
    BY <1>1 DEF LastState
  <2>9. /\ apply \in {"none", "add"} => LastState(current).files = vs.files /\ meta[current].synced = Len(meta[current].recs)
        /\ apply # "none" => edit.log = vs.log
        /\ apply = "add" => LastState(current).next <= edit.next
        /\ apply # "none" => \A x : InFiles(sst, Applied.files, x) =>
                            InFiles(sst, vs.files, x) \/ (edit.deleted = {} /\ x \in imm)
    BY <1>1 DEF IInv, UpInv
  <2> QED
    BY <1>1, <1>2, <1>3, <1>4, <1>5, <1>9, <1>21, <2>2, <2>3, <2>4, <2>5, <2>6, <2>7, <2>8, <2>9 DEF UpInv
<1> QED
  BY <1>17, <1>18, <1>19, <1>20, <1>22, <1>23, <1>24 DEF IInv

LEMMA SwitchMemtableStep == ASSUME IInv, SwitchMemtable PROVE IInv'
<1>1. /\ pc = "up" /\ pc' = "up" /\ current' = current /\ meta' = meta /\ sst' = sst /\ edit' = edit /\ todo' = todo
      /\ imm = {} /\ imm' = mem /\ mem' = {} /\ logfile' = vs.next /\ apply' = apply
      /\ Kept' = Kept /\ Told' = Told /\ cut' = cut
  BY DEF SwitchMemtable, history, Kept, Told
<1>2. /\ current # 0 /\ current \in Nat /\ current = vs.meta /\ current \in DOMAIN meta
      /\ vs \in Versions /\ LogsOk(log)
      /\ vs.log \in Nat /\ vs.next \in Nat /\ vs.seq \in Nat
      /\ Sound(current, log, sst, vs, Kept, Told)
      /\ ~cut => Ordered(log, sst, vs)
      /\ AllUpTo(meta[current].recs, meta[current].synced, vs)
      /\ AllCovered(meta[current].recs, meta[current].synced, vs)
  BY <1>1, UpTo
<1>3. PICK x \in Nat, y \in Nat : x = vs.next /\ y = x + 1
  BY <1>2
<1>4. /\ vs' \in Versions /\ vs'.log = vs.log /\ vs'.meta = vs.meta /\ vs'.next = y
      /\ vs'.seq = vs.seq /\ vs'.files = vs.files
  <2>1. vs' = [vs EXCEPT !.next = y]
    BY <1>3 DEF SwitchMemtable
  <2> QED
    BY <1>2, <2>1 DEF Versions
<1>5. /\ logfile \in Nat /\ logfile < x /\ logfile >= vs.log
      /\ \A k \in DOMAIN log : k <= logfile
      /\ \A s : InLogs(log, vs.log, s) => s <= vs.seq
      /\ \A s \in mem \cup imm : InLogs(log, vs.log, s)
      /\ \A s, t : InFiles(sst, vs.files, s) /\ t \in mem \cup imm => s < t
  BY <1>1, <1>3 DEF IInv, UpInv, TypeOK
<1>6. NewEmpty(log, log', x) /\ \A k \in DOMAIN log : k \in Nat /\ k < x
  <2>1. IsWith(log, x, EmptyFile, log')
    BY <1>3, WithIs DEF SwitchMemtable
  <2>2. \A k \in DOMAIN log : k \in Nat /\ k < x
    BY <1>2, <1>5, LogFileIs
  <2> QED
    BY <2>1, <2>2 DEF IsWith, NewEmpty
<1>7. LogsOk(log')
  <2>1. LogFile(EmptyFile)
    BY DEF LogFile, EmptyFile
  <2> QED
    BY <1>2, <1>6, <2>1 DEF LogsOk, NewEmpty
<1>8. \A min : SameLogs(log, log', min)
  BY <1>6, NewEmptyKeeps
<1>9. ASSUME NEW c, NEW v, Sound(c, log, sst, v, Kept, Told)
      PROVE  /\ Sound(c, log', sst, v, Kept, Told)
             /\ Ordered(log, sst, v) => Ordered(log', sst, v)
  BY <1>8, <1>9, SoundStep, SameInItself
<1>10. TypeOK'
  <2>1. mem' \in SUBSET Nat /\ imm' \in SUBSET Nat
    BY <1>1 DEF IInv, TypeOK
  <2> QED
    BY <1>1, <1>2, <1>4, <1>7, <2>1 DEF IInv, TypeOK
<1>11. PcInv'
  BY <1>1, <1>2 DEF IInv, PcInv
<1>12. DiskInv'
  <2>1. meta[current].synced \in Nat /\ meta[current].synced <= meta[current].synced
    BY <1>2, MetaTypes DEF IInv
  <2>2. \A n \in DOMAIN sst : n < LastState(current).next => n \in DOMAIN sst' /\ sst'[n] = sst[n]
    BY <1>1
  <2> QED
    BY <1>1, <1>2, <1>8, <2>1, <2>2, DiskKept DEF IInv
<1>13. VersionInv'
  <2>1. /\ Sound(current, log', sst, vs, Kept, Told)
        /\ Ordered(log, sst, vs) => Ordered(log', sst, vs)
    BY <1>2, <1>9
  <2>2. vs.next <= vs'.next /\ vs.seq <= vs'.seq /\ current < vs'.next /\ vs'.next \in Nat /\ vs'.seq \in Nat
    BY <1>2, <1>3, <1>4 DEF Sound, Numbers
  <2>3. /\ Sound(current, log', sst, vs', Kept, Told)
        /\ Ordered(log', sst, vs) => Ordered(log', sst, vs')
    BY <1>2, <1>4, <2>1, <2>2, SoundLater
  <2> QED
    BY <1>1, <1>2, <2>1, <2>3 DEF VersionInv
<1>14. Applied' = Applied
  BY <1>1, <1>4 DEF Applied
<1>15. ApplyInv'
  <2>1. SUFFICES ASSUME apply # "none"
                 PROVE  ApplyInv'
    BY <1>1 DEF ApplyInv
  <2>2. /\ Sound(vs.meta, log, sst, Applied, Kept, Told)
        /\ ~cut => Ordered(log, sst, Applied)
        /\ edit.seq <= vs.seq /\ edit.next <= vs.next /\ edit.next \in Nat
    BY <2>1, Applying
  <2>3. /\ Sound(vs.meta, log', sst, Applied, Kept, Told)
        /\ Ordered(log, sst, Applied) => Ordered(log', sst, Applied)
    BY <1>9, <2>2
  <2>4. edit.next <= vs'.next
    BY <1>2, <1>3, <1>4, <2>2
  <2>5. PICK m : m = vs.meta
    OBVIOUS
  <2>6. /\ m \in DOMAIN meta
        /\ apply = "add" => LastState(m).files = vs.files
        /\ apply # "add" => LastState(m) = Applied
        /\ apply \in {"set_current", "install"} => meta[m].synced = Len(meta[m].recs)
        /\ apply = "install" => current = m
    BY <2>1, <2>5 DEF IInv, ApplyInv
  <2>7. LastState(m)' = LastState(m) /\ vs'.meta = m
    BY <1>1, <1>4, <2>5 DEF LastState
  <2> QED
    BY <1>1, <1>4, <1>14, <2>2, <2>3, <2>4, <2>5, <2>6, <2>7 DEF ApplyInv
<1>16. ReplayInv' /\ OpenInv'
  BY <1>1 DEF ReplayInv, OpenInv
<1>17. UpInv'
  <2>1. \A s : InLogs(log', vs.log, s) <=> InLogs(log, vs.log, s)
    BY <1>8 DEF SameLogs, LogsKept
  <2>2. x \in DOMAIN log' /\ x >= vs.log /\ x < y /\ \A k \in DOMAIN log' : k <= x
    BY <1>2, <1>3, <1>5, <1>6 DEF NewEmpty
  <2>3. PICK r, k0 : r = meta[current].recs /\ k0 = meta[current].synced
    OBVIOUS
  <2>4. AllUpTo(r, k0, vs') /\ AllCovered(r, k0, vs')
    <3>1. ASSUME NEW k \in k0..Len(r)
          PROVE  StateAfter(r, k).next <= y
      <4>1. StateAfter(r, k).next <= vs.next /\ StateAfter(r, k).next \in Nat
        BY <1>2, <2>3 DEF AllUpTo, IInv, DiskInv, AllSound, Sound, Numbers
      <4> QED
        BY <1>2, <1>3, <4>1
    <3> QED
      BY <1>2, <1>4, <2>3, <3>1 DEF AllUpTo, AllCovered
  <2>5. LastState(current)' = LastState(current)
    BY <1>1 DEF LastState
  <2>6. /\ apply \in {"none", "add"} => LastState(current).files = vs.files /\ meta[current].synced = Len(meta[current].recs)
        /\ apply # "none" => edit.log = vs.log
        /\ apply = "add" => LastState(current).next <= edit.next
        /\ apply # "none" => \A s : InFiles(sst, Applied.files, s) => InFiles(sst, vs.files, s)
    BY <1>1 DEF IInv, UpInv
  <2> QED
    BY <1>1, <1>2, <1>3, <1>4, <1>5, <1>14, <2>1, <2>2, <2>3, <2>4, <2>5, <2>6 DEF UpInv
<1> QED
  BY <1>10, <1>11, <1>12, <1>13, <1>15, <1>16, <1>17 DEF IInv

\* A flush or a compaction has written its SSTable and calls LogAndApply.
LEMMA BeginApply ==
  ASSUME IInv, pc = "up", pc' = "up", apply = "none", apply' = "add", current' = current, meta' = meta, log' = log,
         mem' = mem, imm' = imm, logfile' = logfile, todo' = todo, cut' = cut, Kept' \subseteq Kept, Told' \subseteq Told,
         NEW x \in Nat, x = vs.next, NEW new, IsWith(sst, x, new, sst'),
         vs' = [vs EXCEPT !.next = x + 1],
         edit' \in Edits, edit'.log = vs.log, edit'.seq = vs.seq, edit'.next = x + 1,
         Sound(current, log, sst', Applied', Kept', Told'), ~cut => Ordered(log, sst', Applied'),
         \A s : InFiles(sst', Applied'.files, s) => InFiles(sst, vs.files, s) \/ (edit'.deleted = {} /\ s \in imm)
  PROVE  IInv'
<1>1. /\ current # 0 /\ current \in Nat /\ current = vs.meta /\ current \in DOMAIN meta
      /\ vs \in Versions
      /\ vs.log \in Nat /\ vs.next \in Nat /\ vs.seq \in Nat
      /\ Sound(current, log, sst, vs, Kept, Told)
      /\ ~cut => Ordered(log, sst, vs)
      /\ AllUpTo(meta[current].recs, meta[current].synced, vs)
      /\ AllCovered(meta[current].recs, meta[current].synced, vs)
      /\ LastState(current).next <= vs.next /\ LastState(current).next \in Nat
  BY UpTo
<1>2. PICK y \in Nat : y = x + 1
  OBVIOUS
<1>3. /\ vs' \in Versions /\ vs'.log = vs.log /\ vs'.meta = vs.meta /\ vs'.next = y
      /\ vs'.seq = vs.seq /\ vs'.files = vs.files
  BY <1>1, <1>2 DEF Versions
<1>4. \A k \in DOMAIN sst : k # x => k \in DOMAIN sst' /\ sst'[k] = sst[k]
  BY DEF IsWith
<1>5. SameIn(sst, sst', vs.files)
  <2>1. ASSUME NEW f \in vs.files
        PROVE  f[2] \in DOMAIN sst' /\ sst'[f[2]] = sst[f[2]]
    <3>1. f[2] \in DOMAIN sst /\ f[2] < vs.next /\ f[2] \in Nat
      BY <1>1 DEF Sound, FileOk
    <3> QED
      BY <1>4, <3>1
  <2> QED
    BY <2>1 DEF SameIn
<1>6. TypeOK'
  BY <1>3 DEF IInv, TypeOK, Phases
<1>7. PcInv'
  BY <1>1 DEF PcInv
<1>8. DiskInv'
  <2>1. meta[current].synced \in Nat /\ meta[current].synced <= meta[current].synced
    BY <1>1, MetaTypes DEF IInv
  <2>2. \A n \in DOMAIN sst : n < LastState(current).next => n \in DOMAIN sst' /\ sst'[n] = sst[n]
    BY <1>1, <1>4
  <2>3. SameLogs(log, log', LastState(current).log)
    BY SameLogsItself
  <2> QED
    BY <1>1, <2>1, <2>2, <2>3, DiskKept DEF IInv
<1>9. VersionInv'
  <2>1. SameLogs(log, log, vs.log)
    BY SameLogsItself
  <2>2. /\ Sound(current, log, sst', vs, Kept', Told')
        /\ Ordered(log, sst, vs) => Ordered(log, sst', vs)
    BY <1>1, <1>5, <2>1, SoundStep
  <2>3. vs.next <= vs'.next /\ vs.seq <= vs'.seq /\ current < vs'.next /\ vs'.next \in Nat /\ vs'.seq \in Nat
    BY <1>1, <1>2, <1>3 DEF Sound, Numbers
  <2>4. /\ Sound(current, log, sst', vs', Kept', Told')
        /\ Ordered(log, sst', vs) => Ordered(log, sst', vs')
    <3>1. PICK v, w, p, a, T : v = vs /\ w = vs' /\ p = Kept' /\ a = Told' /\ T = sst'
      OBVIOUS
    <3>2. /\ Sound(current, log, T, v, p, a) /\ w.log = v.log /\ w.files = v.files /\ w.seq \in Nat /\ w.next \in Nat
          /\ v.seq <= w.seq /\ v.next <= w.next /\ current < w.next /\ current \in Nat
      BY <1>1, <1>3, <2>2, <2>3, <3>1
    <3>3. /\ Sound(current, log, T, w, p, a)
          /\ Ordered(log, T, v) => Ordered(log, T, w)
      BY <3>2, SoundLater
    <3> QED
      BY <3>1, <3>3
  <2> QED
    BY <1>1, <2>2, <2>4 DEF VersionInv
<1>10. ReplayInv' /\ OpenInv'
  BY DEF ReplayInv, OpenInv
<1>11. LastState(current)' = LastState(current) /\ LastState(current).files = vs.files
  BY DEF LastState, IInv, UpInv
<1>12. ApplyInv'
  <2>1. PICK m : m = current
    OBVIOUS
  <2>2. LastState(m)' = LastState(m) /\ LastState(m).files = vs.files /\ m = vs'.meta /\ m = vs.meta
    BY <1>1, <1>3, <1>11, <2>1 DEF LastState
  <2>3. edit'.seq <= vs'.seq /\ edit'.next <= vs'.next
    BY <1>1, <1>2, <1>3
  <2> QED
    BY <1>1, <1>3, <2>1, <2>2, <2>3 DEF ApplyInv
<1>13. UpInv'
  <2>1. PICK r, k0 : r = meta[current].recs /\ k0 = meta[current].synced
    OBVIOUS
  <2>2. AllUpTo(r, k0, vs') /\ AllCovered(r, k0, vs')
    <3>1. ASSUME NEW k \in k0..Len(r)
          PROVE  StateAfter(r, k).next <= y
      <4>1. StateAfter(r, k).next <= vs.next /\ StateAfter(r, k).next \in Nat
        BY <1>1, <2>1 DEF AllUpTo, IInv, DiskInv, AllSound, Sound, Numbers
      <4> QED
        BY <1>1, <1>2, <4>1
    <3> QED
      BY <1>1, <1>3, <2>1, <3>1 DEF AllUpTo, AllCovered
  <2>3. LastState(current).next <= edit'.next /\ edit'.log = vs'.log
    BY <1>1, <1>2, <1>3
  <2>4. \A s : InFiles(sst', vs.files, s) <=> InFiles(sst, vs.files, s)
    BY <1>5, SameFound
  <2>5. /\ logfile \in DOMAIN log /\ logfile >= vs.log /\ logfile < y
        /\ \A n \in DOMAIN log : n <= logfile
        /\ \A s : InLogs(log, vs.log, s) => s <= vs.seq
        /\ \A s \in mem \cup imm : InLogs(log, vs.log, s)
        /\ \A s \in imm, t \in mem : s < t
        /\ \A s, t : InFiles(sst, vs.files, s) /\ t \in mem \cup imm => s < t
        /\ meta[current].synced = Len(meta[current].recs)
    BY <1>1, <1>2 DEF IInv, UpInv, TypeOK
  <2> QED
    BY <1>1, <1>3, <1>11, <2>1, <2>2, <2>3, <2>4, <2>5 DEF UpInv
<1> QED
  BY <1>6, <1>7, <1>8, <1>9, <1>10, <1>12, <1>13 DEF IInv

\* A flushed memtable, newer than all files, becomes the last file of level 0.
IsNewest(L, T, v, S) ==
  /\ \A s \in S : InLogs(L, v.log, s) /\ s \in Nat /\ s <= v.seq
  /\ \A s, t : InFiles(T, v.files, s) /\ t \in S => s < t
OneMore(fs, gs, i, x) == gs = fs \cup {<<i, x>>}
OnlyFrom(T2, gs, T, fs, S) == \A s : InFiles(T2, gs, s) => InFiles(T, fs, s) \/ s \in S

LEMMA FlushedVersion ==
  ASSUME NEW c \in Nat, NEW L, NEW T, NEW T2, NEW v, NEW w, NEW p, NEW a, NEW x \in Nat, NEW new,
         LogsOk(L), Sound(c, L, T, v, p, a), x = v.next, IsWith(T, x, new, T2), new # {},
         IsNewest(L, T, v, new),
         w.log = v.log, w.seq = v.seq, w.next = x + 1, OneMore(v.files, w.files, 0, x)
  PROVE  /\ Sound(c, L, T2, w, p, a)
         /\ Ordered(L, T, v) => Ordered(L, T2, w)
         /\ OnlyFrom(T2, w.files, T, v.files, new)
<1>0. /\ \A s \in new : InLogs(L, v.log, s) /\ s \in Nat /\ s <= v.seq
      /\ \A s, t : InFiles(T, v.files, s) /\ t \in new => s < t
      /\ w.files = v.files \cup {<<0, x>>}
  BY DEF IsNewest, OneMore
<1>1. Numbers(c, v) /\ v.log \in Nat /\ v.seq \in Nat
  BY DEF Sound, Numbers
<1>2. /\ x \in DOMAIN T2 /\ T2[x] = new
      /\ \A k \in DOMAIN T : k # x => k \in DOMAIN T2 /\ T2[k] = T[k]
  BY DEF IsWith
<1>3. ASSUME NEW f \in v.files
      PROVE  /\ f \in {0, 1} \X Nat /\ f[2] \in Nat /\ f[2] < x
             /\ f[2] \in DOMAIN T2 /\ T2[f[2]] = T[f[2]]
             /\ f[1] = 0 => T[f[2]] # {}
             /\ \A s \in T[f[2]] : s \in Nat /\ s <= v.seq
  <2>1. /\ f \in {0, 1} \X Nat /\ f[2] \in DOMAIN T /\ f[2] < x
        /\ f[1] = 0 => T[f[2]] # {}
        /\ \A s \in T[f[2]] : s \in Nat /\ s <= v.seq
    BY DEF Sound, FileOk
  <2>2. f[2] \in Nat /\ f[2] # x
    BY <2>1
  <2> QED
    BY <1>2, <2>1, <2>2
<1>4. <<0, x>>[1] = 0 /\ <<0, x>>[2] = x /\ <<0, x>> \in {0, 1} \X Nat
  OBVIOUS
<1>5. ASSUME NEW s
      PROVE  InFiles(T2, w.files, s) <=> InFiles(T, v.files, s) \/ s \in new
  BY <1>0, <1>2, <1>3, <1>4 DEF InFiles
<1>6. Numbers(c, w)
  BY <1>1 DEF Numbers
<1>7. ASSUME NEW f \in w.files
      PROVE  FileOk(T2, w, f)
  <2>1. CASE f \in v.files
    <3>1. f[2] < w.next
      BY <1>3, <2>1
    <3> QED
      BY <1>3, <2>1, <3>1 DEF FileOk
  <2>2. CASE f = <<0, x>>
    <3>1. x < w.next
      OBVIOUS
    <3> QED
      BY <1>0, <1>2, <1>4, <2>2, <3>1 DEF FileOk
  <2> QED
    BY <1>0, <2>1, <2>2
<1>8. Sound(c, L, T2, w, p, a)
  BY <1>5, <1>6, <1>7 DEF Sound
<1>9. ASSUME Ordered(L, T, v)
      PROVE  Ordered(L, T2, w)
  <2>1. ASSUME NEW f \in w.files, NEW g \in w.files, f[1] = 1, g[1] = 1
        PROVE  f = g
    <3>1. f \in v.files /\ g \in v.files
      BY <1>0, <1>4, <2>1
    <3> QED
      BY <1>9, <2>1, <3>1 DEF Ordered, Layered
  <2>2. ASSUME NEW g \in w.files, IsTop(w.files, g), NEW s, InFiles(T2, w.files, s)
        PROVE  \E t \in T2[g[2]] : s <= t
    <3>1. g[2] = x
      <4>1. SUFFICES ASSUME g \in v.files
                     PROVE  FALSE
        BY <1>0, <1>4, <2>2
      <4>2. x <= g[2]
        BY <1>0, <1>4, <2>2 DEF IsTop
      <4> QED
        BY <1>3, <4>1, <4>2
    <3>2. CASE s \in new
      <4>1. s <= s
        BY <1>0, <3>2
      <4> QED
        BY <1>2, <3>1, <3>2, <4>1
    <3>3. CASE InFiles(T, v.files, s)
      <4>1. PICK t \in new : TRUE
        OBVIOUS
      <4>2. s < t /\ s \in Nat /\ t \in Nat
        BY <1>0, <3>3, EntriesCovered
      <4>3. s <= t
        BY <4>2
      <4> QED
        BY <1>2, <3>1, <4>3
    <3> QED
      BY <1>5, <2>2, <3>2, <3>3
  <2>3. ASSUME NEW s, NEW r, InFiles(T2, w.files, s), InLogs(L, w.log, r)
        PROVE  \E t : InLogs(L, w.log, t) /\ s <= t
    <3>1. CASE s \in new
      <4>1. InLogs(L, w.log, s) /\ s <= s
        BY <1>0, <3>1
      <4> QED
        BY <4>1
    <3>2. CASE InFiles(T, v.files, s)
      BY <1>9, <2>3, <3>2 DEF Ordered, Covered
    <3> QED
      BY <1>5, <2>3, <3>1, <3>2
  <2> QED
    BY <2>1, <2>2, <2>3 DEF Ordered, Layered, Covered
<1> QED
  BY <1>5, <1>8, <1>9 DEF OnlyFrom

\* A compaction leaves one file, without the entries d it drops.
IsRest(T, fs, d, S) == \A s : s \in S <=> InFiles(T, fs, s) /\ s \notin d
Apart(d, S) == \A s \in S : s \notin d
OnlyOne(gs, i, x) == gs = {<<i, x>>}

LEMMA CompactedVersion ==
  ASSUME NEW c \in Nat, NEW L, NEW T, NEW T2, NEW v, NEW w, NEW p, NEW a, NEW p2, NEW a2, NEW x \in Nat, NEW new, NEW d,
         Sound(c, L, T, v, p, a), x = v.next, IsWith(T, x, new, T2),
         IsRest(T, v.files, d, new),
         p2 \subseteq p, a2 \subseteq a, Apart(d, p2), Apart(d, a2),
         w.log = v.log, w.seq = v.seq, w.next = x + 1, OnlyOne(w.files, 1, x)
  PROVE  /\ Sound(c, L, T2, w, p2, a2)
         /\ Ordered(L, T, v) => Ordered(L, T2, w)
         /\ OnlyFrom(T2, w.files, T, v.files, {})
<1>0. w.files = {<<1, x>>}
  BY DEF OnlyOne
<1>1. Numbers(c, v)
  BY DEF Sound
<1>2. x \in DOMAIN T2 /\ T2[x] = new
  BY DEF IsWith
<1>3. <<1, x>>[1] = 1 /\ <<1, x>>[2] = x /\ <<1, x>> \in {0, 1} \X Nat
  OBVIOUS
<1>4. \A s : InFiles(T2, w.files, s) <=> s \in new
  BY <1>0, <1>2, <1>3 DEF InFiles
<1>5. Numbers(c, w)
  BY <1>1 DEF Numbers
<1>6. FileOk(T2, w, <<1, x>>)
  <2>1. \A s \in new : s \in Nat /\ s <= v.seq
    BY EntriesCovered DEF IsRest
  <2>2. x < x + 1
    OBVIOUS
  <2> QED
    BY <1>2, <1>3, <2>1, <2>2 DEF FileOk
<1>7. Sound(c, L, T2, w, p2, a2)
  <2>1. Ascending(L, w.log)
    BY DEF Sound
  <2>2. \A s \in p2 : InFiles(T2, w.files, s) \/ InSynced(L, w.log, s)
    BY <1>4 DEF Sound, IsRest, Apart
  <2>3. \A s \in a2 : InFiles(T2, w.files, s) \/ InLogs(L, w.log, s)
    BY <1>4 DEF Sound, IsRest, Apart
  <2> QED
    BY <1>0, <1>5, <1>6, <2>1, <2>2, <2>3 DEF Sound
<1>8. Layered(T2, w.files)
  BY <1>0, <1>3 DEF Layered, IsTop
<1>9. Covered(L, T, v) => Covered(L, T2, w)
  BY <1>4 DEF Covered, IsRest
<1> QED
  BY <1>4, <1>7, <1>8, <1>9 DEF Ordered, IsRest, OnlyFrom

AddEdit(i, x) == [NoEdit EXCEPT !.added = {<<i, x>>}]
ReplaceEdit(del, i, x) == [NoEdit EXCEPT !.deleted = del, !.added = {<<i, x>>}]

LEMMA OneFileEdit ==
  ASSUME NEW i \in Nat, NEW x \in Nat, NEW del \in SUBSET (Nat \X Nat)
  PROVE  /\ AddEdit(i, x) \in Edits
         /\ AddEdit(i, x).added = {<<i, x>>} /\ AddEdit(i, x).deleted = {}
         /\ ReplaceEdit(del, i, x) \in Edits
         /\ ReplaceEdit(del, i, x).added = {<<i, x>>} /\ ReplaceEdit(del, i, x).deleted = del
<1> DEFINE F == SUBSET (Nat \X Nat)
<1>1. Edits = [log : Int, seq : Int, next : Int, added : F, deleted : F]
  BY DEF Edits
<1>2. PICK e \in Edits : e = NoEdit /\ e.deleted = {}
  BY NoEditIs
<1>3. PICK fs \in F, gs \in F : fs = {<<i, x>>} /\ gs = del
  <2>1. {<<i, x>>} \in F
    OBVIOUS
  <2> QED
    BY <2>1
<1> HIDE DEF F
<1>4. /\ [e EXCEPT !.deleted = gs, !.added = fs] \in Edits
      /\ [e EXCEPT !.deleted = gs, !.added = fs].added = fs
      /\ [e EXCEPT !.deleted = gs, !.added = fs].deleted = gs
  BY <1>1
<1>5. /\ [e EXCEPT !.added = fs] \in Edits
      /\ [e EXCEPT !.added = fs].added = fs
      /\ [e EXCEPT !.added = fs].deleted = e.deleted
  BY <1>1
<1>6. AddEdit(i, x) = [e EXCEPT !.added = fs] /\ ReplaceEdit(del, i, x) = [e EXCEPT !.deleted = gs, !.added = fs]
  BY <1>2, <1>3 DEF AddEdit, ReplaceEdit
<1> QED
  BY <1>2, <1>3, <1>4, <1>5, <1>6

LEMMA FlushMemtableStep == ASSUME IInv, FlushMemtable PROVE IInv'
<1>1. /\ pc = "up" /\ pc' = "up" /\ apply = "none" /\ apply' = "add" /\ current' = current /\ meta' = meta /\ log' = log
      /\ mem' = mem /\ imm' = imm /\ logfile' = logfile /\ todo' = todo /\ cut' = cut
      /\ Kept' = Kept /\ Told' = Told /\ imm # {}
  BY DEF FlushMemtable, history, Kept, Told
<1>2. /\ current = vs.meta /\ vs \in Versions /\ LogsOk(log)
      /\ vs.log \in Nat /\ vs.next \in Nat /\ vs.seq \in Nat
      /\ Sound(current, log, sst, vs, Kept, Told)
      /\ ~cut => Ordered(log, sst, vs)
  BY <1>1, UpTo
<1>3. PICK x \in Nat, y \in Nat, l \in Nat : x = vs.next /\ y = x + 1 /\ l = vs.log
  <2>1. vs.next + 1 \in Nat
    BY <1>2
  <2> QED
    BY <1>2, <2>1
<1>4. PICK v \in Versions : v = [vs EXCEPT !.next = y] /\ v.seq = vs.seq /\ v.next = y /\ v.files = vs.files
  <2>1. /\ [vs EXCEPT !.next = y] \in Versions /\ [vs EXCEPT !.next = y].seq = vs.seq
        /\ [vs EXCEPT !.next = y].next = y /\ [vs EXCEPT !.next = y].files = vs.files
    BY <1>2 DEF Versions
  <2> QED
    BY <2>1
<1>5. PICK e \in Edits : e = AddEdit(0, x) /\ e.added = {<<0, x>>} /\ e.deleted = {}
  BY OneFileEdit
<1>6. vs' = v /\ edit' = Prepared(e, v, l) /\ IsWith(sst, x, imm, sst')
  <2>1. /\ vs' = [vs EXCEPT !.next = vs.next + 1] /\ sst' = With(sst, vs.next, imm)
        /\ edit' = Prepared(AddEdit(0, vs.next), vs', vs.log)
    BY DEF FlushMemtable, AddEdit
  <2> QED
    BY <1>3, <1>4, <1>5, <2>1, WithIs
<1>7. /\ edit' \in Edits /\ edit'.log = l /\ edit'.seq = vs.seq /\ edit'.next = y
      /\ edit'.added = {<<0, x>>} /\ edit'.deleted = {}
  <2>1. /\ Prepared(e, v, l) \in Edits
        /\ Prepared(e, v, l).log = l /\ Prepared(e, v, l).seq = v.seq /\ Prepared(e, v, l).next = v.next
        /\ Prepared(e, v, l).added = e.added /\ Prepared(e, v, l).deleted = e.deleted
    BY PreparedIs
  <2> QED
    BY <1>4, <1>5, <1>6, <2>1
<1>8. PICK w : w = Applied'
  OBVIOUS
<1>9. w.log = vs.log /\ w.seq = vs.seq /\ w.next = x + 1 /\ w.files = vs.files \cup {<<0, x>>}
  <2>1. vs'.files = vs.files
    BY <1>2, <1>4, <1>6 DEF Versions
  <2>2. w = [log |-> l, seq |-> vs.seq, next |-> y, files |-> (vs.files \ {}) \cup {<<0, x>>}]
    BY <1>7, <1>8, <2>1 DEF Applied
  <2> QED
    BY <1>3, <2>2
<1>10. IsNewest(log, sst, vs, imm) /\ current \in Nat
  BY <1>1 DEF IInv, UpInv, TypeOK, IsNewest
<1>11. /\ Sound(current, log, sst', w, Kept, Told)
       /\ Ordered(log, sst, vs) => Ordered(log, sst', w)
       /\ \A s : InFiles(sst', w.files, s) => InFiles(sst, vs.files, s) \/ s \in imm
  <2>1. PICK u, L, T, T2, p, a, new :
          u = vs /\ L = log /\ T = sst /\ T2 = sst' /\ p = Kept /\ a = Told /\ new = imm
    OBVIOUS
  <2>2. /\ LogsOk(L) /\ Sound(current, L, T, u, p, a) /\ x = u.next /\ IsWith(T, x, new, T2) /\ new # {}
        /\ IsNewest(L, T, u, new) /\ current \in Nat
        /\ w.log = u.log /\ w.seq = u.seq /\ w.next = x + 1 /\ OneMore(u.files, w.files, 0, x)
    BY <1>1, <1>2, <1>3, <1>6, <1>9, <1>10, <2>1 DEF OneMore
  <2>3. /\ Sound(current, L, T2, w, p, a)
        /\ Ordered(L, T, u) => Ordered(L, T2, w)
        /\ OnlyFrom(T2, w.files, T, u.files, new)
    BY <2>2, FlushedVersion
  <2> QED
    BY <2>1, <2>3 DEF OnlyFrom
<1>12. /\ vs' = [vs EXCEPT !.next = x + 1] /\ edit'.log = vs.log /\ edit'.next = x + 1
       /\ Sound(current, log, sst', Applied', Kept', Told')
       /\ ~cut => Ordered(log, sst', Applied')
       /\ \A s : InFiles(sst', Applied'.files, s) => InFiles(sst, vs.files, s) \/ (edit'.deleted = {} /\ s \in imm)
  BY <1>1, <1>2, <1>3, <1>4, <1>6, <1>7, <1>8, <1>11
<1> QED
  BY <1>1, <1>3, <1>6, <1>7, <1>12, BeginApply

LEMMA CompactLevel0Step == ASSUME IInv, CompactLevel0 PROVE IInv'
<1>1. /\ pc = "up" /\ pc' = "up" /\ apply = "none" /\ apply' = "add" /\ current' = current /\ meta' = meta /\ log' = log
      /\ mem' = mem /\ imm' = imm /\ logfile' = logfile /\ todo' = todo /\ cut' = cut
      /\ promised' = promised /\ acked' = acked
  BY DEF CompactLevel0
<1>2. /\ current = vs.meta /\ vs \in Versions
      /\ vs.log \in Nat /\ vs.next \in Nat /\ vs.seq \in Nat
      /\ Sound(current, log, sst, vs, Kept, Told)
      /\ ~cut => Ordered(log, sst, vs)
  BY <1>1, UpTo
<1>3. PICK x \in Nat, y \in Nat, l \in Nat : x = vs.next /\ y = x + 1 /\ l = vs.log
  <2>1. vs.next + 1 \in Nat
    BY <1>2
  <2> QED
    BY <1>2, <2>1
<1>4. PICK v \in Versions : v = [vs EXCEPT !.next = y] /\ v.seq = vs.seq /\ v.next = y /\ v.files = vs.files
  <2>1. /\ [vs EXCEPT !.next = y] \in Versions /\ [vs EXCEPT !.next = y].seq = vs.seq
        /\ [vs EXCEPT !.next = y].next = y /\ [vs EXCEPT !.next = y].files = vs.files
    BY <1>2 DEF Versions
  <2> QED
    BY <2>1
<1>5. PICK del \in SUBSET (Nat \X Nat) : del = vs.files
  BY <1>2 DEF Versions
<1>6. PICK e \in Edits : e = ReplaceEdit(del, 1, x) /\ e.added = {<<1, x>>} /\ e.deleted = del
  BY OneFileEdit
<1>7. PICK new, d :
        /\ d = {s \in {Max(Entries(vs.files))} : Copies(s) = 1}
        /\ new = Entries(vs.files) \ d
  OBVIOUS
<1>8. vs' = v /\ edit' = Prepared(e, v, l) /\ IsWith(sst, x, new, sst') /\ dropped' = dropped \cup d
  <2>1. /\ vs' = [vs EXCEPT !.next = vs.next + 1]
        /\ sst' = With(sst, vs.next, new)
        /\ edit' = Prepared(ReplaceEdit(vs.files, 1, vs.next), vs', vs.log)
        /\ dropped' = dropped \cup d
    BY <1>7 DEF CompactLevel0, ReplaceEdit
  <2> QED
    BY <1>3, <1>4, <1>5, <1>6, <2>1, WithIs
<1>9. /\ edit' \in Edits /\ edit'.log = l /\ edit'.seq = vs.seq /\ edit'.next = y
      /\ edit'.added = {<<1, x>>} /\ edit'.deleted = vs.files
  <2>1. /\ Prepared(e, v, l) \in Edits
        /\ Prepared(e, v, l).log = l /\ Prepared(e, v, l).seq = v.seq /\ Prepared(e, v, l).next = v.next
        /\ Prepared(e, v, l).added = e.added /\ Prepared(e, v, l).deleted = e.deleted
    BY PreparedIs
  <2> QED
    BY <1>4, <1>5, <1>6, <1>8, <2>1
<1>10. PICK w : w = Applied'
  OBVIOUS
<1>11. w.log = vs.log /\ w.seq = vs.seq /\ w.next = x + 1 /\ w.files = {<<1, x>>}
  <2>1. vs'.files = vs.files
    BY <1>2, <1>4, <1>8 DEF Versions
  <2>2. w = [log |-> l, seq |-> vs.seq, next |-> y, files |-> (vs.files \ vs.files) \cup {<<1, x>>}]
    BY <1>9, <1>10, <2>1 DEF Applied
  <2> QED
    BY <1>3, <2>2
<1>12. IsRest(sst, vs.files, d, new) /\ current \in Nat
  BY <1>7 DEF Entries, InFiles, IsRest, IInv, TypeOK
<1>13. Kept' \subseteq Kept /\ Told' \subseteq Told /\ Apart(d, Kept') /\ Apart(d, Told')
  BY <1>1, <1>8 DEF Kept, Told, Apart
<1>14. /\ Sound(current, log, sst', w, Kept', Told')
       /\ Ordered(log, sst, vs) => Ordered(log, sst', w)
       /\ \A s : InFiles(sst', w.files, s) => InFiles(sst, vs.files, s)
  <2>1. PICK u, L, T, T2, p, a, p2, a2 :
          u = vs /\ L = log /\ T = sst /\ T2 = sst' /\ p = Kept /\ a = Told /\ p2 = Kept' /\ a2 = Told'
    OBVIOUS
  <2>2. /\ Sound(current, L, T, u, p, a) /\ x = u.next /\ IsWith(T, x, new, T2)
        /\ IsRest(T, u.files, d, new) /\ p2 \subseteq p /\ a2 \subseteq a /\ Apart(d, p2) /\ Apart(d, a2) /\ current \in Nat
        /\ w.log = u.log /\ w.seq = u.seq /\ w.next = x + 1 /\ OnlyOne(w.files, 1, x)
    BY <1>2, <1>3, <1>8, <1>11, <1>12, <1>13, <2>1 DEF OnlyOne
  <2>3. /\ Sound(current, L, T2, w, p2, a2)
        /\ Ordered(L, T, u) => Ordered(L, T2, w)
        /\ OnlyFrom(T2, w.files, T, u.files, {})
    BY <2>2, CompactedVersion
  <2> QED
    BY <2>1, <2>3 DEF OnlyFrom
<1>15. /\ vs' = [vs EXCEPT !.next = x + 1] /\ edit'.log = vs.log /\ edit'.next = x + 1
       /\ Sound(current, log, sst', Applied', Kept', Told')
       /\ ~cut => Ordered(log, sst', Applied')
       /\ \A s : InFiles(sst', Applied'.files, s) => InFiles(sst, vs.files, s) \/ (edit'.deleted = {} /\ s \in imm)
       /\ Kept' \subseteq Kept /\ Told' \subseteq Told
  BY <1>2, <1>3, <1>4, <1>8, <1>9, <1>10, <1>13, <1>14
<1> QED
  BY <1>1, <1>3, <1>8, <1>9, <1>15, BeginApply

----------------------------------------------------------------------------
(* Crashes.                                                                *)

LEMMA RecordsAre ==
  ASSUME LogsOk(log), NEW min, NEW s
  PROVE  s \in Records(LogsFrom(min)) <=> InLogs(log, min, s)
<1>1. ASSUME NEW n \in DOMAIN log
      PROVE  s \in ToSet(log[n].recs) <=> \E i \in 1..Len(log[n].recs) : s = log[n].recs[i]
  <2>1. log[n].recs \in Seq(Nat)
    BY LogFileIs
  <2>2. DOMAIN log[n].recs = 1..Len(log[n].recs)
    BY <2>1, LenProperties
  <2> QED
    BY <2>2 DEF ToSet
<1>2. s \in Records(LogsFrom(min)) <=> \E n \in DOMAIN log : n >= min /\ s \in ToSet(log[n].recs)
  BY DEF Records, LogsFrom
<1> QED
  BY <1>1, <1>2 DEF InLogs

\* What DB::Open would recover now.
LEMMA OnDiskIs ==
  TypeOK /\ current # 0 =>
    \A s : s \in OnDisk <=> \/ InFiles(sst, LastState(current).files, s)
                            \/ InLogs(log, LastState(current).log, s)
<1>1. SUFFICES ASSUME TypeOK, current # 0, NEW s
               PROVE  s \in OnDisk <=> \/ InFiles(sst, LastState(current).files, s)
                                       \/ InLogs(log, LastState(current).log, s)
  OBVIOUS
<1>2. OnDisk = Entries(LastState(current).files) \cup Records(LogsFrom(LastState(current).log))
  BY <1>1 DEF OnDisk, MetaState, LastState
<1>3. s \in Entries(LastState(current).files) <=> InFiles(sst, LastState(current).files, s)
  BY DEF Entries, InFiles
<1>4. s \in Records(LogsFrom(LastState(current).log)) <=> InLogs(log, LastState(current).log, s)
  BY <1>1, RecordsAre DEF TypeOK
<1> QED
  BY <1>2, <1>3, <1>4

LEMMA CutsAre ==
  ASSUME NEW F, NEW R, NEW k \in Cuts(F, R),
         \A n \in DOMAIN F : F[n].synced \in Nat /\ Len(F[n].recs) \in Nat /\ F[n].synced <= Len(F[n].recs)
  PROVE  \A n \in DOMAIN F : k[n] \in F[n].synced..Len(F[n].recs)
<1>1. SUFFICES ASSUME NEW n \in DOMAIN F
               PROVE  k[n] \in F[n].synced..Len(F[n].recs)
  OBVIOUS
<1>2. k[n] \in F[n].synced..(IF n \in R THEN Len(F[n].recs) ELSE F[n].synced)
  BY DEF Cuts
<1>3. CASE n \in R
  BY <1>2, <1>3
<1>4. CASE n \notin R
  BY <1>2, <1>4
<1> QED
  BY <1>3, <1>4

\* SSTables a crash may damage are in no version that can be recovered.
LEMMA NamedFilesKept ==
  ASSUME TypeOK, Dead, current # 0, current \in DOMAIN meta, NEW k \in Nat, k <= Len(meta[current].recs),
         NEW v, v = StateAfter(meta[current].recs, k),
         NEW c, NEW L, NEW p, NEW a, Sound(c, L, sst, v, p, a)
  PROVE  SameIn(sst, sst', v.files)
<1>1. SUFFICES ASSUME NEW f \in v.files
               PROVE  f[2] \in DOMAIN sst' /\ sst'[f[2]] = sst[f[2]]
  BY DEF SameIn
<1>2. f[2] \in DOMAIN sst
  BY DEF Sound, FileOk
<1>3. PICK recs : recs = meta[current].recs /\ recs \in Seq(Edits) /\ Len(recs) \in Nat
  BY MetaTypes
<1>4. PICK i \in 1..k : f \in recs[i].added
  BY <1>3, FilesAreNamed
<1>5. recs[i] \in ToSet(recs)
  <2>1. i \in DOMAIN recs
    BY <1>3, LenProperties
  <2> QED
    BY <2>1 DEF ToSet
<1>6. f[2] \notin Orphans
  BY <1>3, <1>4, <1>5 DEF Orphans
<1> QED
  BY <1>2, <1>6 DEF Dead

LEMMA DeadFrame ==
  ASSUME IInv, Dead, current' = current, LogsOk(log'), MetasOk(meta'), DOMAIN log' = DOMAIN log,
         Kept' \subseteq Kept, Told' \subseteq Told
  PROVE  TypeOK' /\ PcInv' /\ VersionInv' /\ ReplayInv' /\ ApplyInv' /\ OpenInv' /\ UpInv'
<1>1. /\ pc' = "down" /\ vs' = NoVersion /\ edit' = NoEdit /\ apply' = "none" /\ todo' = NoLogs
      /\ mem' = {} /\ imm' = {} /\ logfile' = 0
  BY DEF Dead
<1>2. NoVersion \in Versions
  <2>1. {} \in SUBSET (Nat \X Nat)
    OBVIOUS
  <2> QED
    BY <2>1 DEF NoVersion, Versions
<1>3. NoLogs \in Todos
  <2>1. {} \in SUBSET Nat
    OBVIOUS
  <2> QED
    BY <2>1 DEF NoLogs, Todos
<1>4. TypeOK'
  BY <1>1, <1>2, <1>3, NoEditIs DEF IInv, TypeOK, Labels, Phases
<1>5. PcInv'
  BY <1>1 DEF IInv, PcInv
<1>6. VersionInv' /\ ReplayInv' /\ ApplyInv' /\ OpenInv' /\ UpInv'
  BY <1>1, NotYetOpen
<1> QED
  BY <1>4, <1>5, <1>6

LEMMA CrashProcessStep == ASSUME IInv, CrashProcess PROVE IInv'
<1>1. /\ Dead /\ current' = current /\ meta' = meta /\ log' = log /\ cut' = cut /\ Kept' = Kept /\ Told' = Told
  BY DEF CrashProcess, Kept, Told
<1>2. LogsOk(log') /\ MetasOk(meta')
  BY <1>1 DEF IInv, TypeOK
<1>3. TypeOK' /\ PcInv' /\ VersionInv' /\ ReplayInv' /\ ApplyInv' /\ OpenInv' /\ UpInv'
  BY <1>1, <1>2, DeadFrame
<1>4. DiskInv'
  <2>1. SUFFICES ASSUME current # 0
                 PROVE  DiskInv'
    BY <1>1 DEF DiskInv
  <2>2. PICK r, k0 : r = meta[current].recs /\ k0 = meta[current].synced
    OBVIOUS
  <2>3. /\ current \in DOMAIN meta
        /\ AllSound(current, r, k0, log, sst, Kept, Told)
        /\ ~cut => AllOrdered(r, k0, log, sst)
        /\ AllUpTo(r, k0, LastState(current))
    BY <2>1, <2>2 DEF IInv, DiskInv
  <2>4. k0 \in Nat /\ Len(r) \in Nat
    BY <2>2, <2>3, MetaTypes DEF IInv
  <2>5. ASSUME NEW k \in k0..Len(r), NEW v, v = StateAfter(r, k)
        PROVE  /\ Sound(current, log, sst', v, Kept, Told)
               /\ Ordered(log, sst, v) => Ordered(log, sst', v)
    <3>1. Sound(current, log, sst, v, Kept, Told)
      BY <2>3, <2>5 DEF AllSound
    <3>2. k \in Nat /\ k <= Len(r)
      BY <2>4
    <3>3. SameIn(sst, sst', v.files)
      BY <1>1, <2>1, <2>2, <2>3, <2>5, <3>1, <3>2, NamedFilesKept DEF IInv
    <3> QED
      BY <3>1, <3>3, SoundFiles
  <2>6. /\ AllSound(current, r, k0, log, sst', Kept, Told)
        /\ ~cut => AllOrdered(r, k0, log, sst')
    BY <2>3, <2>5 DEF AllSound, AllOrdered
  <2>7. LastState(current)' = LastState(current)
    BY <1>1 DEF LastState
  <2> QED
    BY <1>1, <2>2, <2>3, <2>6, <2>7 DEF DiskInv
<1> QED
  BY <1>3, <1>4 DEF IInv

LEMMA PowerLossStep == ASSUME IInv, PowerLoss PROVE IInv'
<1>1. /\ Dead /\ current' = current /\ promised' = promised /\ dropped' = dropped
      /\ acked' = acked \cap OnDisk' /\ LogsOk(log) /\ MetasOk(meta)
  BY DEF PowerLoss, IInv, TypeOK
<1>2. PICK l \in Cuts(log, IF current = 0 THEN {} ELSE LogsFrom(MetaState(current, meta[current].synced).log)),
           m \in Cuts(meta, {current}) :
        /\ log' = [n \in DOMAIN log |-> Left(log[n], l[n])]
        /\ meta' = [n \in DOMAIN meta |-> Left(meta[n], m[n])]
        /\ cut' = (cut \/ \E n \in DOMAIN log : l[n] < Len(log[n].recs))
  BY DEF PowerLoss
<1>3. \A n \in DOMAIN log : l[n] \in log[n].synced..Len(log[n].recs)
  BY <1>1, CutsAre, LogFileIs
<1>4. \A n \in DOMAIN meta : m[n] \in meta[n].synced..Len(meta[n].recs)
  BY CutsAre, MetaTypes DEF IInv
<1>5. ASSUME NEW n \in DOMAIN log
      PROVE  LogFile(log'[n]) /\ CutFile(log[n], log'[n], l[n])
  <2>1. PICK x \in Files(Nat) : x = log[n] /\ x.synced <= Len(x.recs)
    BY <1>1, Memberships DEF LogsOk
  <2>2. PICK k \in x.synced..Len(x.recs) : k = l[n]
    BY <1>3, <2>1
  <2>3. Left(x, k) \in Files(Nat) /\ CutFile(x, Left(x, k), k)
    BY <2>1, LeftIs
  <2>4. log'[n] = Left(x, k)
    BY <1>2, <2>1, <2>2
  <2>5. Left(x, k).synced <= Len(Left(x, k).recs)
    <3>1. x.synced \in Nat /\ Len(x.recs) \in Nat
      BY DEF Files
    <3> QED
      BY <2>3, <3>1 DEF CutFile
  <2> QED
    BY <2>1, <2>2, <2>3, <2>4, <2>5, Memberships
<1>6. ASSUME NEW n \in DOMAIN meta
      PROVE  MetaFile(meta'[n]) /\ CutFile(meta[n], meta'[n], m[n])
  <2>1. PICK x \in Files(Edits) : x = meta[n] /\ x.synced <= Len(x.recs)
    BY <1>1, Memberships DEF MetasOk
  <2>2. PICK k \in x.synced..Len(x.recs) : k = m[n]
    BY <1>4, <2>1
  <2>3. Left(x, k) \in Files(Edits) /\ CutFile(x, Left(x, k), k)
    BY <2>1, LeftIs
  <2>4. meta'[n] = Left(x, k)
    BY <1>2, <2>1, <2>2
  <2>5. Left(x, k).synced <= Len(Left(x, k).recs)
    <3>1. x.synced \in Nat /\ Len(x.recs) \in Nat
      BY DEF Files
    <3> QED
      BY <2>3, <3>1 DEF CutFile
  <2> QED
    BY <2>1, <2>2, <2>3, <2>4, <2>5, Memberships
<1>7. DOMAIN log' = DOMAIN log /\ DOMAIN meta' = DOMAIN meta
  BY <1>2
<1>8. LogsOk(log') /\ MetasOk(meta') /\ CutTo(log, log')
  BY <1>1, <1>5, <1>6, <1>7 DEF LogsOk, MetasOk, CutTo
<1>9. Kept' = Kept /\ Told' \subseteq Told
  BY <1>1 DEF Kept, Told
<1>10. TypeOK' /\ PcInv' /\ VersionInv' /\ ReplayInv' /\ ApplyInv' /\ OpenInv' /\ UpInv'
  BY <1>1, <1>7, <1>8, <1>9, DeadFrame
<1>11. ~cut' => ~cut /\ \A n \in DOMAIN log : Len(log'[n].recs) = Len(log[n].recs)
  <2>1. SUFFICES ASSUME ~cut'
                 PROVE  ~cut /\ \A n \in DOMAIN log : Len(log'[n].recs) = Len(log[n].recs)
    OBVIOUS
  <2>2. ~cut /\ ~ \E n \in DOMAIN log : l[n] < Len(log[n].recs)
    BY <1>2, <2>1, Zenon
  <2>3. ASSUME NEW n \in DOMAIN log
        PROVE  Len(log'[n].recs) = Len(log[n].recs)
    <3>1. ~(l[n] < Len(log[n].recs)) /\ l[n] \in log[n].synced..Len(log[n].recs) /\ Len(log'[n].recs) = l[n]
      BY <1>3, <1>5, <2>2 DEF CutFile
    <3> QED
      BY <1>1, <3>1, LogFileIs
  <2> QED
    BY <2>2, <2>3
<1>12. DiskInv'
  <2>1. SUFFICES ASSUME current # 0
                 PROVE  DiskInv'
    BY <1>1 DEF DiskInv
  <2>2. PICK r, k0 : r = meta[current].recs /\ k0 = meta[current].synced
    OBVIOUS
  <2>3. /\ current \in DOMAIN meta
        /\ AllSound(current, r, k0, log, sst, Kept, Told)
        /\ ~cut => AllOrdered(r, k0, log, sst)
    BY <2>1, <2>2 DEF IInv, DiskInv
  <2>4. k0 \in Nat /\ Len(r) \in Nat
    BY <2>2, <2>3, MetaTypes DEF IInv
  <2>5. PICK k \in k0..Len(r) : k = m[current]
    BY <1>4, <2>2, <2>3
  <2>6. PICK q : q = meta'[current].recs /\ meta'[current].synced = k /\ Len(q) = k /\ \A i \in 1..k : q[i] = r[i]
    BY <1>6, <2>2, <2>3, <2>5 DEF CutFile
  <2>7. PICK v : v = StateAfter(r, k)
    OBVIOUS
  <2>8. k \in Nat /\ k <= Len(r)
    BY <2>4
  <2>9. StateAfter(q, k) = v
    BY <2>6, <2>7, <2>8, StateOfPrefix
  <2>10. LastState(current)' = v
    BY <1>1, <2>6, <2>9 DEF LastState
  <2>11. /\ Sound(current, log, sst, v, Kept, Told)
         /\ ~cut => Ordered(log, sst, v)
    BY <2>3, <2>5, <2>7 DEF AllSound, AllOrdered
  <2>12. SameIn(sst, sst', v.files)
    BY <1>1, <2>1, <2>2, <2>3, <2>7, <2>8, <2>11, NamedFilesKept DEF IInv
  <2>13. /\ Sound(current, log, sst', v, Kept, Told)
         /\ Ordered(log, sst, v) => Ordered(log, sst', v)
    BY <2>11, <2>12, SoundFiles
  <2>14. /\ Ascending(log, v.log) => Ascending(log', v.log)
         /\ \A s : InSynced(log, v.log, s) => InSynced(log', v.log, s)
         /\ (\A n \in DOMAIN log : Len(log'[n].recs) = Len(log[n].recs)) => SameLogs(log, log', v.log)
    BY <1>1, <1>8, CutKeeps
  <2>15. \A s \in Told' : InFiles(sst', v.files, s) \/ InLogs(log', v.log, s)
    <3>1. (TypeOK /\ current # 0 =>
             \A s : s \in OnDisk <=> \/ InFiles(sst, LastState(current).files, s)
                                     \/ InLogs(log, LastState(current).log, s))'
      BY OnDiskIs, PTL
    <3>2. \A s : s \in OnDisk' <=> \/ InFiles(sst', v.files, s)
                                   \/ InLogs(log', v.log, s)
      BY <1>1, <1>10, <2>1, <2>10, <3>1
    <3> QED
      BY <1>1, <3>2 DEF Told
  <2>16. Sound(current, log', sst', v, Kept', Told')
    BY <1>9, <2>13, <2>14, <2>15 DEF Sound
  <2>17. ~cut' => Ordered(log', sst', v)
    BY <1>11, <2>11, <2>13, <2>14, OrderedLogs
  <2>18. v.next <= v.next
    BY <2>13 DEF Sound, Numbers
  <2>19. \A j \in k..k : StateAfter(q, j) = v
    BY <2>8, <2>9
  <2>20. /\ AllSound(current, q, k, log', sst', Kept', Told')
         /\ ~cut' => AllOrdered(q, k, log', sst')
         /\ AllUpTo(q, k, v)
    BY <2>6, <2>16, <2>17, <2>18, <2>19 DEF AllSound, AllOrdered, AllUpTo
  <2> QED
    BY <1>1, <1>7, <2>3, <2>6, <2>10, <2>20 DEF DiskInv
<1> QED
  BY <1>10, <1>12 DEF IInv

----------------------------------------------------------------------------
(* The invariant holds.                                                    *)

LEMMA InitHolds == Init => IInv
<1> SUFFICES ASSUME Init
             PROVE  IInv
  OBVIOUS
<1>1. /\ current = 0 /\ meta = <<>> /\ log = <<>> /\ pc = "down" /\ vs = NoVersion /\ edit = NoEdit
      /\ apply = "none" /\ todo = NoLogs /\ mem = {} /\ imm = {} /\ logfile = 0
      /\ acked = {} /\ promised = {}
  BY DEF Init
<1>2. DOMAIN log = {} /\ DOMAIN meta = {}
  BY <1>1
<1>3. NoVersion \in Versions
  <2>1. {} \in SUBSET (Nat \X Nat)
    OBVIOUS
  <2> QED
    BY <2>1 DEF NoVersion, Versions
<1>4. NoLogs \in Todos
  <2>1. {} \in SUBSET Nat
    OBVIOUS
  <2> QED
    BY <2>1 DEF NoLogs, Todos
<1>5. TypeOK
  BY <1>1, <1>2, <1>3, <1>4, NoEditIs DEF TypeOK, LogsOk, MetasOk, Labels, Phases
<1>6. PcInv /\ DiskInv
  BY <1>1, <1>2 DEF PcInv, DiskInv, Kept, Told
<1>7. VersionInv /\ ReplayInv /\ ApplyInv /\ OpenInv /\ UpInv
  BY <1>1 DEF VersionInv, ReplayInv, ApplyInv, OpenInv, UpInv
<1> QED
  BY <1>5, <1>6, <1>7 DEF IInv

LEMMA Stuttering == ASSUME IInv, UNCHANGED vars PROVE IInv'
<1>1. UNCHANGED <<current, meta, log, sst, pc, vs, edit, todo, mem, imm, logfile, apply, acked, promised, dropped, cut>>
  BY DEF vars, disk, process, history
<1>2. Kept' = Kept /\ Told' = Told /\ Applied' = Applied
  BY <1>1 DEF Kept, Told, Applied
<1>3. TypeOK' /\ PcInv'
  BY <1>1, <1>2 DEF IInv, TypeOK, PcInv
<1>4. DiskInv' /\ VersionInv'
  BY <1>1, <1>2 DEF IInv, DiskInv, VersionInv, LastState
<1>5. ReplayInv' /\ OpenInv'
  BY <1>1 DEF IInv, ReplayInv, OpenInv, LastState
<1>6. ApplyInv'
  BY <1>1, <1>2 DEF IInv, ApplyInv, LastState
<1>7. UpInv'
  BY <1>1, <1>2 DEF IInv, UpInv, LastState
<1> QED
  BY <1>3, <1>4, <1>5, <1>6, <1>7 DEF IInv

LEMMA NextHolds == ASSUME IInv, [Next]_vars PROVE IInv'
<1>1. CASE Open
  BY <1>1, StartStep, InitializeStep, SetFirstCurrentStep, VersionSetRecoverStep,
     ReplayRecordsStep, NextLogStep, NewLogStep DEF Open
<1>2. CASE LogAndApply
  BY <1>2, AddRecordStep, SyncRecordStep, SetCurrentStep, InstallStep DEF LogAndApply
<1>3. CASE \E sync \in BOOLEAN : Write(sync)
  BY <1>3, WriteStep
<1>4. CASE SwitchMemtable \/ FlushMemtable \/ CompactLevel0
  BY <1>4, SwitchMemtableStep, FlushMemtableStep, CompactLevel0Step
<1>5. CASE CrashProcess \/ PowerLoss
  BY <1>5, CrashProcessStep, PowerLossStep
<1>6. CASE UNCHANGED vars
  BY <1>6, Stuttering
<1> QED
  BY <1>1, <1>2, <1>3, <1>4, <1>5, <1>6 DEF Next

\* Through any number of openings, crashes, flushes and compactions, every version DB::Open
\* could start from, the version in memory and the one LogAndApply is making are sound, and
\* ordered as long as no log was cut.
THEOREM Invariance == Spec => []IInv
<1>1. Init => IInv
  BY InitHolds
<1>2. IInv /\ [Next]_vars => IInv'
  BY NextHolds
<1> QED
  BY <1>1, <1>2, PTL DEF Spec

----------------------------------------------------------------------------
(* What follows.                                                           *)

LEMMA RecoveriesSound ==
  ASSUME IInv, current # 0
  PROVE  \A v \in Recoveries : Sound(current, log, sst, v, Kept, Told)
BY DEF IInv, DiskInv, AllSound, Recoveries, MetaState

\* DB::Open always finds CURRENT absent, or naming a meta file that is complete and whose
\* SSTables exist, whichever of the unsynced records a crash leaves: SetCurrentFile comes
\* after the sync of the new meta file, and GarbageFilesClean after that of the record.
THEOREM RecoverableAlways == Spec => []Recoverable
<1>1. IInv => Recoverable
  <2>1. SUFFICES ASSUME IInv, current # 0
                 PROVE  /\ current \in DOMAIN meta
                        /\ \A v \in Recoveries : -1 \notin {v.log, v.seq, v.next} /\ {f[2] : f \in v.files} \subseteq DOMAIN sst
    BY DEF Recoverable
  <2>2. current \in DOMAIN meta
    BY <2>1 DEF IInv, DiskInv
  <2>3. ASSUME NEW v \in Recoveries
        PROVE  -1 \notin {v.log, v.seq, v.next} /\ {f[2] : f \in v.files} \subseteq DOMAIN sst
    <3>1. Sound(current, log, sst, v, Kept, Told)
      BY <2>1, RecoveriesSound
    <3>2. v.log \in Nat /\ v.seq \in Nat /\ v.next \in Nat
      BY <3>1 DEF Sound, Numbers
    <3>3. \A f \in v.files : f[2] \in DOMAIN sst
      BY <3>1 DEF Sound, FileOk
    <3> QED
      BY <3>2, <3>3
  <2> QED
    BY <2>2, <2>3
<1> QED
  BY <1>1, Invariance, PTL

\* No crash loses a write acknowledged after a sync, and a crash of the process alone loses
\* no acknowledged write: a log is removed only when its records are in SSTables that a
\* synced record of the meta file names.
THEOREM NothingLostEver == Spec => []NothingLost
<1>1. IInv => NothingLost
  <2>1. SUFFICES ASSUME IInv, current # 0
                 PROVE  /\ \A v \in Recoveries :
                             promised \ dropped \subseteq
                               Entries(v.files) \cup UNION {ToSet(SubSeq(log[n].recs, 1, log[n].synced)) : n \in LogsFrom(v.log)}
                        /\ acked \ dropped \subseteq OnDisk
    BY DEF NothingLost
  <2>2. ASSUME NEW v \in Recoveries, NEW s \in promised \ dropped
        PROVE  s \in Entries(v.files) \cup UNION {ToSet(SubSeq(log[n].recs, 1, log[n].synced)) : n \in LogsFrom(v.log)}
    <3>1. InFiles(sst, v.files, s) \/ InSynced(log, v.log, s)
      BY <2>1, RecoveriesSound DEF Sound, Kept
    <3>2. CASE InFiles(sst, v.files, s)
      BY <3>2 DEF InFiles, Entries
    <3>3. CASE InSynced(log, v.log, s)
      <4>1. PICK n \in DOMAIN log : n >= v.log /\ \E i \in 1..log[n].synced : s = log[n].recs[i]
        BY <3>3 DEF InSynced
      <4>2. PICK i \in 1..log[n].synced : s = log[n].recs[i]
        BY <4>1
      <4>3. PICK recs \in Seq(Nat), e \in Nat : recs = log[n].recs /\ e = log[n].synced /\ e <= Len(recs)
        BY <2>1, LogFileIs DEF IInv, TypeOK
      <4>4. 0 < e /\ i \in (0 + 1)..e
        BY <4>2, <4>3
      <4>5. IsSlice(ToSet(SubSeq(recs, 0 + 1, e)), recs, 0, e)
        BY <4>3, <4>4, SliceIs
      <4>6. s \in ToSet(SubSeq(recs, 0 + 1, e))
        BY <4>2, <4>3, <4>4, <4>5 DEF IsSlice
      <4>7. s \in ToSet(SubSeq(log[n].recs, 1, log[n].synced)) /\ n \in LogsFrom(v.log)
        BY <4>1, <4>3, <4>6 DEF LogsFrom
      <4> QED
        BY <4>7
    <3> QED
      BY <3>1, <3>2, <3>3
  <2>3. ASSUME NEW s \in acked \ dropped
        PROVE  s \in OnDisk
    <3>1. Sound(current, log, sst, LastState(current), Kept, Told)
      BY <2>1, LastIsSound DEF IInv
    <3>2. InFiles(sst, LastState(current).files, s) \/ InLogs(log, LastState(current).log, s)
      BY <3>1 DEF Sound, Told
    <3> QED
      BY <2>1, <3>2, OnDiskIs DEF IInv
  <2> QED
    BY <2>2, <2>3
<1> QED
  BY <1>1, Invariance, PTL

\* The last sequence DB::Open restores, and each write increases, covers all there is to be
\* read or recovered: DBImpl::Recover takes the larger of the meta file's and the logs'.
THEOREM SequenceCovers == Spec => []SequenceCoversDisk
<1>1. IInv => SequenceCoversDisk
  <2>1. SUFFICES ASSUME IInv, pc = "up",
                        NEW s \in mem \cup imm \cup Entries(vs.files) \cup Records(LogsFrom(vs.log))
                 PROVE  s <= vs.seq
    BY DEF SequenceCoversDisk
  <2>2. /\ Sound(current, log, sst, vs, Kept, Told) /\ LogsOk(log)
        /\ \A x : InLogs(log, vs.log, x) => x <= vs.seq
        /\ \A x \in mem \cup imm : InLogs(log, vs.log, x)
    BY <2>1 DEF IInv, VersionInv, UpInv, TypeOK
  <2>3. CASE s \in mem \cup imm
    BY <2>2, <2>3
  <2>4. CASE s \in Records(LogsFrom(vs.log))
    BY <2>2, <2>4, RecordsAre
  <2>5. CASE s \in Entries(vs.files)
    <3>1. InFiles(sst, vs.files, s)
      BY <2>5 DEF Entries, InFiles
    <3> QED
      BY <2>2, <3>1, EntriesCovered
  <2> QED
    BY <2>1, <2>3, <2>4, <2>5
<1> QED
  BY <1>1, Invariance, PTL

LEMMA MaxIs ==
  ASSUME NEW S \in SUBSET Nat, NEW x \in S, \A s \in S : s <= x
  PROVE  Max(S) = x
<1>1. \E m \in S : \A y \in S : m >= y
  OBVIOUS
<1>2. Max(S) \in S /\ \A y \in S : Max(S) >= y
  BY <1>1 DEF Max
<1>3. Max(S) >= x /\ Max(S) <= x /\ Max(S) \in Nat /\ x \in Nat
  BY <1>2
<1> QED
  BY <1>3

\* Get finds the newest entry: memtables are newer than files, and the newest entry of the
\* files is in the last file of level 0, also after logs flushed long ago were replayed into
\* files with higher numbers: the newest record of the logs kept is as new as the files.
THEOREM NewestFound == Spec => []NewestIsFound
<1>1. IInv => NewestIsFound
  <2>1. SUFFICES ASSUME IInv, pc = "up", ~cut
                 PROVE  FirstFound = Max({0} \cup mem \cup imm \cup Entries(vs.files))
    BY DEF NewestIsFound
  <2>2. /\ Sound(current, log, sst, vs, Kept, Told) /\ Layered(sst, vs.files) /\ LogsOk(log)
        /\ vs.seq \in Nat /\ vs.next \in Nat
        /\ mem \in SUBSET Nat /\ imm \in SUBSET Nat
    BY <2>1 DEF IInv, VersionInv, TypeOK, Ordered, Versions
  <2>3. /\ \A s \in mem \cup imm : s <= vs.seq
        /\ \A s \in imm, t \in mem : s < t
        /\ \A s, t : InFiles(sst, vs.files, s) /\ t \in mem \cup imm => s < t
    BY <2>1 DEF IInv, UpInv
  <2>4. PICK E : E = Entries(vs.files)
    OBVIOUS
  <2>5. ASSUME NEW s
        PROVE  /\ s \in E <=> InFiles(sst, vs.files, s)
               /\ s \in E => s \in Nat
    <3>1. s \in E <=> InFiles(sst, vs.files, s)
      BY <2>4 DEF Entries, InFiles
    <3> QED
      BY <2>2, <3>1, EntriesCovered
  <2>6. PICK S \in SUBSET Nat : S = {0} \cup mem \cup imm \cup E
    <3>1. PICK x : x = {0} \cup mem \cup imm \cup E
      OBVIOUS
    <3>2. \A s \in x : s \in Nat
      BY <2>2, <2>5, <3>1
    <3> QED
      BY <3>1, <3>2
  <2>7. SUFFICES FirstFound = Max(S)
    BY <2>4, <2>6
  <2>8. ASSUME NEW x \in S, \A s \in S : s <= x
        PROVE  Max(S) = x
    BY <2>8, MaxIs
  <2> DEFINE Level(l) == {f[2] : f \in {g \in vs.files : g[1] = l /\ sst[g[2]] # {}}}
  <2>9. ASSUME NEW f \in vs.files
        PROVE  /\ f \in {0, 1} \X Nat /\ f[1] \in {0, 1} /\ f[2] \in Nat /\ f[2] < vs.next /\ f = <<f[1], f[2]>>
               /\ f[1] = 0 => sst[f[2]] # {}
               /\ sst[f[2]] \in SUBSET Nat /\ \A s \in sst[f[2]] : s <= vs.seq
    BY <2>2 DEF Sound, FileOk
  <2>10. CASE mem # {}
    <3>1. PICK x \in mem : x = Max(mem) /\ \A s \in mem : s <= x
      BY <2>2, <2>3, <2>10, MaxOf
    <3>2. x \in S /\ \A s \in S : s <= x
      BY <2>2, <2>3, <2>5, <2>6, <3>1
    <3>3. FirstFound = Max(mem)
      BY <2>10 DEF FirstFound
    <3> QED
      BY <2>8, <3>1, <3>2, <3>3
  <2>11. CASE mem = {} /\ imm # {}
    <3>1. PICK x \in imm : x = Max(imm) /\ \A s \in imm : s <= x
      BY <2>2, <2>3, <2>11, MaxOf
    <3>2. x \in S /\ \A s \in S : s <= x
      BY <2>2, <2>3, <2>5, <2>6, <2>11, <3>1
    <3>3. FirstFound = Max(imm)
      BY <2>11 DEF FirstFound
    <3> QED
      BY <2>8, <3>1, <3>2, <3>3
  <2>12. CASE mem = {} /\ imm = {} /\ Level(0) # {}
    <3>1. Level(0) \in SUBSET Nat /\ \A n \in Level(0) : n <= vs.next
      BY <2>2, <2>9
    <3>2. PICK n \in Level(0) : n = Max(Level(0)) /\ \A k \in Level(0) : k <= n
      <4> HIDE DEF Level
      <4> QED
        BY <2>2, <2>12, <3>1, MaxOf
    <3>3. PICK g \in vs.files : g[1] = 0 /\ g[2] = n
      BY <3>2
    <3>4. IsTop(vs.files, g)
      <4>1. ASSUME NEW h \in vs.files, h[1] = 0
            PROVE  h[2] <= g[2]
        <5>1. h[2] \in Level(0)
          BY <2>9, <4>1
        <5> QED
          BY <3>2, <3>3, <5>1
      <4> QED
        BY <3>3, <4>1 DEF IsTop
    <3>5. sst[n] \in SUBSET Nat /\ sst[n] # {} /\ \A s \in sst[n] : s <= vs.seq
      BY <2>9, <3>3
    <3>6. PICK x \in sst[n] : x = Max(sst[n]) /\ \A s \in sst[n] : s <= x
      BY <2>2, <3>5, MaxOf
    <3>7. x \in S
      BY <2>5, <2>6, <3>3 DEF InFiles
    <3>8. ASSUME NEW s \in S
          PROVE  s <= x
      <4>1. x \in Nat
        BY <3>5
      <4>2. CASE s = 0
        BY <4>1, <4>2
      <4>3. CASE s \in E
        <5>1. PICK t \in sst[n] : s <= t
          BY <2>2, <2>5, <3>3, <3>4, <4>3 DEF Layered
        <5> QED
          BY <3>5, <3>6, <4>1, <5>1
      <4> QED
        BY <2>6, <2>12, <4>2, <4>3
    <3>9. FirstFound = Max(sst[Max(Level(0))])
      BY <2>12 DEF FirstFound
    <3> QED
      BY <2>8, <3>2, <3>6, <3>7, <3>8, <3>9
  <2>13. CASE mem = {} /\ imm = {} /\ Level(0) = {} /\ Level(1) # {}
    <3>1. PICK g \in vs.files : g[1] = 1 /\ g[2] \in Level(1) /\ sst[g[2]] # {}
      BY <2>13
    <3>2. \A h \in vs.files : h = g
      <4>1. ASSUME NEW h \in vs.files
            PROVE  h[1] = 1
        <5>1. CASE h[1] = 0
          <6>1. h[2] \in Level(0)
            BY <2>9, <5>1
          <6> QED
            BY <2>13, <6>1
        <5> QED
          BY <2>9, <5>1
      <4> QED
        BY <2>2, <3>1, <4>1 DEF Layered
    <3>3. Level(1) = {g[2]}
      BY <3>1, <3>2
    <3>4. Max(Level(1)) = g[2]
      <4>1. {g[2]} \in SUBSET Nat /\ g[2] \in {g[2]} /\ \A s \in {g[2]} : s <= g[2]
        BY <2>9
      <4>2. Max({g[2]}) = g[2]
        BY <4>1, MaxIs
      <4> QED
        BY <3>3, <4>2
    <3>5. PICK x \in sst[g[2]] : x = Max(sst[g[2]]) /\ \A s \in sst[g[2]] : s <= x
      BY <2>2, <2>9, <3>1, MaxOf
    <3>6. x \in S
      BY <2>5, <2>6, <3>5 DEF InFiles
    <3>7. ASSUME NEW s \in S
          PROVE  s <= x
      <4>1. x \in Nat
        BY <2>9, <3>5
      <4>2. CASE s = 0
        BY <4>1, <4>2
      <4>3. CASE s \in E
        BY <2>5, <3>2, <3>5, <4>3 DEF InFiles
      <4> QED
        BY <2>6, <2>13, <4>2, <4>3
    <3>8. FirstFound = Max(sst[Max(Level(1))])
      BY <2>13 DEF FirstFound
    <3> QED
      BY <2>8, <3>4, <3>5, <3>6, <3>7, <3>8
  <2>14. CASE mem = {} /\ imm = {} /\ Level(0) = {} /\ Level(1) = {}
    <3>1. E = {}
      <4>1. SUFFICES ASSUME NEW s \in E
                     PROVE  FALSE
        OBVIOUS
      <4>2. PICK f \in vs.files : s \in sst[f[2]]
        BY <2>5 DEF InFiles
      <4>3. f[2] \in Level(f[1]) /\ f[1] \in {0, 1}
        BY <2>9, <4>2
      <4> QED
        BY <2>14, <4>3
    <3>2. S = {0}
      BY <2>6, <2>14, <3>1
    <3>3. FirstFound = 0
      BY <2>14 DEF FirstFound
    <3>4. 0 \in S /\ \A s \in S : s <= 0
      BY <3>2
    <3> QED
      BY <2>8, <3>3, <3>4
  <2> QED
    BY <2>10, <2>11, <2>12, <2>13, <2>14
<1> QED
  BY <1>1, Invariance, PTL
=============================================================================
