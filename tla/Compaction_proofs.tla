------------------------- MODULE Compaction_proofs -------------------------
(***************************************************************************)
(* Proofs about Compaction, for every set of user keys, number of levels,  *)
(* limits and bounds.                                                      *)
(*                                                                         *)
(* The argument: the files of a version are well formed, entries with the  *)
(* same sequence number are the same entry, the files of a level below     *)
(* level 0 are spread, and level 0 has the newest entry of each user key   *)
(* it has.  The logs of the session hold, of a user key they hold at all,  *)
(* an entry as new as any file has, which is why a replay keeps level 0    *)
(* on top.  What the iterators of a running merge have still to return is  *)
(* never before what it has written.                                       *)
(***************************************************************************)
EXTENDS Compaction, SequenceTheorems, FiniteSetTheorems, TLAPS

----------------------------------------------------------------------------
(* Files.                                                                  *)

Keys == [u : UserKeys, s : Nat \ {0}, t : {"put", "del"}]
Tables == [smallest : Keys \cup {NoKey}, largest : Keys \cup {NoKey}, data : Seq(Keys), allow_seeks : Nat]

Ascending(d) == \A i, j \in 1..Len(d) : i < j => Less(d[i], d[j])

\* The entries of a file ascend, and its bounds are its first and its last entry.
WellFormed(x) ==
  /\ x.data # <<>> /\ Ascending(x.data)
  /\ x.smallest = x.data[1] /\ x.largest = x.data[Len(x.data)]

\* e is an entry of file f.
InFile(t, f, e) == \E i \in 1..Len(t[f].data) : e = t[f].data[i]

\* Entries with the same sequence number are the same, in whatever files they are.
Unique(t, S) ==
  \A f, g \in S : \A i \in 1..Len(t[f].data), j \in 1..Len(t[g].data) :
    t[f].data[i].s = t[g].data[j].s => t[f].data[i] = t[g].data[j]

\* Each file is before the next ones.
Spread(t, fs) == \A i, j \in 1..Len(fs) : i < j => Less(t[fs[i]].largest, t[fs[j]].smallest)

\* What file f has of a user key is newer than what file g has of it.
Newer(t, f, g) == \A a, b : InFile(t, f, a) /\ InFile(t, g, b) /\ a.u = b.u => a.s > b.s

\* Some file of S has an entry of the user key of b that is as new as b.
Topped(t, S, b) == \E h \in S : \E a : InFile(t, h, a) /\ a.u = b.u /\ a.s >= b.s
HasUser(t, f, k) == \E a : InFile(t, f, a) /\ a.u = k

----------------------------------------------------------------------------
(* The inductive invariant.                                                *)

All(F) == UNION {F[l] : l \in Levels}
Sets(fs) == [l \in Levels |-> ToSet(fs[l])]

\* The files F[l] of each level l can be the files of a version.
FilesOk(t, F) == \A f \in All(F) : f \in 1..Len(t) /\ WellFormed(t[f])
Known(t, F, seq) == \A f \in All(F) : \A i \in 1..Len(t[f].data) : t[f].data[i].s <= seq
Apart(F) == \A l, k \in Levels : l # k => F[l] \cap F[k] = {}

\* When level 0 has a user key, it has an entry of it that is as new as any below; when a
\* file of level 0 has one, it or a newer file has an entry as new as any in older files.
NewestOnTop(t, F) ==
  /\ \A f \in F[0], l \in Levels \ {0} : \A g \in F[l] : \A b :
       InFile(t, g, b) /\ HasUser(t, f, b.u) => Topped(t, F[0], b)
  /\ \A f, g \in F[0] : f > g => \A b :
       InFile(t, g, b) /\ HasUser(t, f, b.u) => Topped(t, {h \in F[0] : h >= f}, b)

VersionOk(t, F, seq) ==
  /\ FilesOk(t, F) /\ Apart(F) /\ Unique(t, All(F)) /\ Known(t, F, seq) /\ NewestOnTop(t, F)

States == {"idle", "merge", "error", "overlap", "order", "level"}
TypeOK ==
  /\ table \in Seq(Tables)
  /\ files_ \in [Levels -> Seq(Nat)]
  /\ last_sequence_ \in Nat /\ last_sequence_ <= MaxSeq
  /\ bg \in States

VersionInv ==
  /\ VersionOk(table, Sets(files_), last_sequence_)
  /\ \A l \in Levels \ {0} : Spread(table, files_[l])

\* The logs hold memtables, each one newer than those before it.
LogOk(lg, fl, seq) ==
  /\ lg \in Seq(Seq(Keys)) /\ fl \in 0..Len(lg)
  /\ \A i \in 1..Len(lg) : lg[i] # <<>> /\ Ascending(lg[i])
  /\ \A i \in 1..Len(lg) : \A p \in 1..Len(lg[i]) : lg[i][p].s <= seq
  /\ \A i, j \in 1..Len(lg) : i < j =>
       \A p \in 1..Len(lg[i]), r \in 1..Len(lg[j]) : lg[i][p].s < lg[j][r].s
  /\ \A i \in 1..Len(lg) : \A p, r \in 1..Len(lg[i]) : lg[i][p].s = lg[i][r].s => p = r

InLog(lg, i, e) == \E p \in 1..Len(lg[i]) : e = lg[i][p]

\* An entry of a file is the only one with its number, older than what is not flushed, and
\* no newer than all the logs hold of its user key, if they hold any of it.
EntryKnown(lg, fl, e) ==
  /\ \A i \in 1..Len(lg) : \A a : InLog(lg, i, a) /\ a.s = e.s => a = e
  /\ \A i \in 1..Len(lg) : \A a : InLog(lg, i, a) /\ i > fl => e.s < a.s
  /\ (\E i \in 1..Len(lg) : \E a : InLog(lg, i, a) /\ a.u = e.u) =>
       \E i \in 1..Len(lg) : \E a : InLog(lg, i, a) /\ a.u = e.u /\ a.s >= e.s

LogKnows(lg, fl, t, S) == \A f \in S : \A e : InFile(t, f, e) => EntryKnown(lg, fl, e)

LogInv ==
  /\ LogOk(log, flushed, last_sequence_)
  /\ LogKnows(log, flushed, table, All(Sets(files_)))

SeekInv ==
  file_to_compact_ # NoSeek =>
    /\ file_to_compact_.level \in 0..(NumLevels - 2)
    /\ file_to_compact_.file \in ToSet(files_[file_to_compact_.level])

\* A Get that will charge the current version charges one of its files.
GetOk(g, fs) ==
  g # NoGet => /\ g.seek.level \in 0..(NumLevels - 2)
               /\ g.current => g.seek.file \in ToSet(fs[g.seek.level])
GetsInv ==
  /\ gets \in [Readers -> [seek : [file : Nat, level : Int], current : BOOLEAN]]
  /\ \A r \in Readers : GetOk(gets[r], files_)

\* The inputs of a compaction: files of two levels, and of level 0 all that overlap.
InputsOk(c, t, F) ==
  /\ c.level \in 0..(NumLevels - 2)
  /\ c.inputs[1] \subseteq F[c.level] /\ c.inputs[2] \subseteq F[c.level + 1]
  /\ c.level = 0 => \A f \in F[0] \ c.inputs[1], g \in c.inputs[1] : Newer(t, f, g)

\* What an iterator has still to return.
InIter(it, e) == \E b \in 1..Len(it) : \E i \in 1..Len(it[b]) : e = it[b][i]
IterOk(it) ==
  /\ it \in Seq(Seq(Keys))
  /\ \A b \in 1..Len(it) : it[b] # <<>> /\ Ascending(it[b])
  /\ \A b, c \in 1..Len(it) : b < c =>
       \A i \in 1..Len(it[b]), j \in 1..Len(it[c]) : Less(it[b][i], it[c][j])

Inputs(c) == c.inputs[1] \cup c.inputs[2]
FromFiles(t, S, e) == \E f \in S : InFile(t, f, e)

ListOk(list, t, S) ==
  /\ list \in Seq(Seq(Seq(Keys)))
  /\ \A n \in 1..Len(list) : IterOk(list[n]) /\ \A e : InIter(list[n], e) => FromFiles(t, S, e)

AtMost(a, b) == a = b \/ Less(a, b)
Follow(t, fs) == \A i, j \in 1..Len(fs) : i < j => AtMost(t[fs[i]].largest, t[fs[j]].smallest)

\* The outputs are new files of entries of the inputs, none of them after what is left.
OutputsOk(outputs, list, t, S, F) ==
  /\ outputs \in Seq(Nat)
  /\ \A o \in 1..Len(outputs) :
       /\ outputs[o] \in 1..Len(t) /\ outputs[o] \notin All(F)
       /\ WellFormed(t[outputs[o]])
       /\ \A e : InFile(t, outputs[o], e) => FromFiles(t, S, e)
       /\ \A e, n : InFile(t, outputs[o], e) /\ n \in 1..Len(list) =>
            \A d : InIter(list[n], d) => AtMost(e, d)
  /\ Follow(t, outputs) /\ \A i, j \in 1..Len(outputs) : outputs[i] = outputs[j] => i = j

MergeRecord(x) ==
  x = [c |-> x.c, base |-> x.base, list |-> x.list, last_user_key |-> x.last_user_key,
       index |-> x.index, overlap |-> x.overlap, seen_key |-> x.seen_key,
       outputs |-> x.outputs, building |-> x.building, hidden |-> x.hidden]

MergeInv ==
  bg = "merge" =>
    /\ MergeRecord(m)
    /\ InputsOk(m.c, table, Sets(files_))
    /\ ListOk(m.list, table, Inputs(m.c))
    /\ OutputsOk(m.outputs, m.list, table, Inputs(m.c), Sets(files_))
    /\ m.building => m.outputs # <<>>

IInv == TypeOK /\ VersionInv /\ LogInv /\ SeekInv /\ GetsInv /\ MergeInv /\ OnlyRepeatsStop

----------------------------------------------------------------------------
(* Sets of numbers.                                                        *)

Below == {p \in Nat \X Nat : p[1] < p[2]}

\* Every nonempty set of naturals has a least element.
LEMMA LeastNatural ==
  ASSUME NEW S \in SUBSET Nat, S # {}
  PROVE  \E x0 \in S : \A k \in S : x0 <= k
<1>1. OpToRel(<, Nat) = Below
  BY DEF OpToRel, Below
<1>2. IsWellFoundedOn(OpToRel(<, Nat), Nat)
  BY NatLessThanWellFounded
<1>3. PICK x0 \in S : \A k \in S : ~(<<k, x0>> \in Below)
  BY <1>1, <1>2, WFMin
<1>4. ASSUME NEW k \in S
      PROVE  x0 <= k
  <2>1. <<k, x0>> \notin Below
    BY <1>3
  <2>2. k \in Nat /\ x0 \in Nat
    OBVIOUS
  <2> QED
    BY <2>1, <2>2 DEF Below
<1> QED
  BY <1>4

\* A nonempty set of naturals below a bound has a greatest element.
LEMMA MaxOf ==
  ASSUME NEW S \in SUBSET Nat, S # {}, NEW b \in Nat, \A s \in S : s <= b
  PROVE  Max(S) \in S /\ \A s \in S : s <= Max(S)
<1> DEFINE D == {d \in Nat : \E s \in S : d = b - s}
<1>1. D \in SUBSET Nat /\ D # {}
  <2>1. PICK s \in S : TRUE
    OBVIOUS
  <2>2. b - s \in D
    BY <2>1
  <2> QED
    BY <2>2
<1>2. PICK d \in D : \A k \in D : d <= k
  <2> HIDE DEF D
  <2> QED
    BY <1>1, LeastNatural
<1>3. PICK x0 \in S : d = b - x0
  BY <1>2
<1>4. ASSUME NEW s \in S
      PROVE  x0 >= s
  <2>1. s \in Nat /\ x0 \in Nat /\ s <= b
    OBVIOUS
  <2>3. b - s \in D
    BY <2>1
  <2>2. b - x0 <= b - s
    BY <1>2, <1>3, <2>3
  <2> QED
    BY <2>1, <2>2
<1>5. \E x \in S : \A y \in S : x >= y
  BY <1>4
<1>6. Max(S) \in S /\ \A y \in S : Max(S) >= y
  BY <1>5 DEF Max
<1> QED
  BY <1>6

LEMMA MinOf ==
  ASSUME NEW S \in SUBSET Nat, S # {}
  PROVE  Min(S) \in S /\ \A s \in S : Min(S) <= s
<1>1. \E m0 \in S : \A k \in S : m0 <= k
  BY LeastNatural
<1> QED
  BY <1>1 DEF Min

----------------------------------------------------------------------------
(* Sorting.                                                                *)

\* R is a strict total order of S.
IsOrder(S, R) ==
  /\ \A a \in S : <<a, a>> \notin R
  /\ \A a, b, c \in S : <<a, b>> \in R /\ <<b, c>> \in R => <<a, c>> \in R
  /\ \A a, b \in S : a # b => <<a, b>> \in R \/ <<b, a>> \in R

Ahead(S, R, a) == {b \in S : <<b, a>> \in R}

LEMMA AheadGrows ==
  ASSUME NEW S, IsFiniteSet(S), NEW R, IsOrder(S, R), NEW a \in S
  PROVE  /\ Cardinality(Ahead(S, R, a)) \in Nat
         /\ Cardinality(Ahead(S, R, a)) < Cardinality(S)
         /\ \A b \in S : <<a, b>> \in R => Cardinality(Ahead(S, R, a)) < Cardinality(Ahead(S, R, b))
<1>1. \A b \in S : Ahead(S, R, b) \in SUBSET S
  BY DEF Ahead
<1>2. Cardinality(S) \in Nat /\ \A b \in S : IsFiniteSet(Ahead(S, R, b)) /\ Cardinality(Ahead(S, R, b)) \in Nat
  BY <1>1, FS_Subset, FS_CardinalityType
<1>3. Ahead(S, R, a) # S
  BY DEF Ahead, IsOrder
<1>4. Cardinality(Ahead(S, R, a)) < Cardinality(S)
  <2>1. /\ Cardinality(Ahead(S, R, a)) <= Cardinality(S)
        /\ Cardinality(S) = Cardinality(Ahead(S, R, a)) => S = Ahead(S, R, a)
    BY <1>1, FS_Subset
  <2> QED
    BY <1>2, <1>3, <2>1
<1>5. ASSUME NEW b \in S, <<a, b>> \in R
      PROVE  Cardinality(Ahead(S, R, a)) < Cardinality(Ahead(S, R, b))
  <2>1. Ahead(S, R, a) \in SUBSET Ahead(S, R, b)
    BY <1>5 DEF Ahead, IsOrder
  <2>2. a \in Ahead(S, R, b) /\ a \notin Ahead(S, R, a)
    BY <1>5 DEF Ahead, IsOrder
  <2>3. /\ Cardinality(Ahead(S, R, a)) <= Cardinality(Ahead(S, R, b))
        /\ Cardinality(Ahead(S, R, b)) = Cardinality(Ahead(S, R, a)) => Ahead(S, R, b) = Ahead(S, R, a)
    BY <1>2, <2>1, FS_Subset
  <2> QED
    BY <1>2, <2>2, <2>3
<1> QED
  BY <1>2, <1>4, <1>5

\* SortBy has the elements of S, in the order of R.
LEMMA Sorted ==
  ASSUME NEW S, IsFiniteSet(S), NEW R, IsOrder(S, R)
  PROVE  /\ SortBy(S, R) \in Seq(S) /\ Len(SortBy(S, R)) = Cardinality(S)
         /\ ToSet(SortBy(S, R)) = S
         /\ \A i, j \in 1..Len(SortBy(S, R)) : i < j => <<SortBy(S, R)[i], SortBy(S, R)[j]>> \in R
<1> DEFINE n == Cardinality(S)
           place == [a \in S |-> Cardinality(Ahead(S, R, a)) + 1]
<1>1. n \in Nat
  BY FS_CardinalityType
<1>2. place \in [S -> 1..n]
  BY <1>1, AheadGrows
<1>3. \A a, b \in S : <<a, b>> \in R => place[a] < place[b]
  BY AheadGrows
<1>4. \A a, b \in S : place[a] = place[b] => a = b
  <2>1. \A a \in S : place[a] \in Nat
    BY <1>2
  <2> HIDE DEF place
  <2>2. ASSUME NEW a \in S, NEW b \in S, a # b
        PROVE  place[a] # place[b]
    <3>1. <<a, b>> \in R \/ <<b, a>> \in R
      BY <2>2 DEF IsOrder
    <3>2. place[a] < place[b] \/ place[b] < place[a]
      BY <1>3, <3>1
    <3> QED
      BY <2>1, <3>2
  <2> QED
    BY <2>2
<1> HIDE DEF place
<1>5. place \in Injection(S, 1..n)
  BY <1>2, <1>4 DEF Injection, IsInjective
<1>6. IsFiniteSet(1..n) /\ Cardinality(1..n) = n
  BY <1>1, FS_Interval
<1>7. place \in Surjection(S, 1..n)
  BY <1>5, <1>6, FS_Injection
<1>8. \A i \in 1..n : \E a \in S : place[a] = i
  BY <1>7 DEF Surjection
<1> DEFINE at(i) == CHOOSE a \in S : Cardinality({b \in S : <<b, a>> \in R}) = i - 1
           s == SortBy(S, R)
<1>9. ASSUME NEW i \in 1..n
      PROVE  at(i) \in S /\ place[at(i)] = i
  <2>1. PICK a \in S : place[a] = i
    BY <1>8
  <2>2. ASSUME NEW b \in S
        PROVE  Cardinality(Ahead(S, R, b)) = i - 1 <=> place[b] = i
    <3>1. Cardinality(Ahead(S, R, b)) \in Nat /\ place[b] = Cardinality(Ahead(S, R, b)) + 1
      BY AheadGrows DEF place
    <3> QED
      BY <1>1, <3>1
  <2>3. at(i) = CHOOSE b \in S : Cardinality(Ahead(S, R, b)) = i - 1
    BY DEF Ahead
  <2> HIDE DEF at
  <2>4. at(i) \in S /\ Cardinality(Ahead(S, R, at(i))) = i - 1
    BY <2>1, <2>2, <2>3
  <2> QED
    BY <2>2, <2>4
<1>10. s = [i \in 1..n |-> at(i)]
  BY DEF SortBy
<1> HIDE DEF at, s
<1>11. s \in Seq(S) /\ Len(s) = n /\ DOMAIN s = 1..n
  BY <1>1, <1>9, <1>10
<1>12. \A i \in 1..n : s[i] \in S /\ place[s[i]] = i
  BY <1>9, <1>10
<1>13. ToSet(s) = S
  <2>1. ASSUME NEW a \in S
        PROVE  a \in ToSet(s)
    <3>1. place[a] \in 1..n
      BY <1>2
    <3>2. s[place[a]] = a
      BY <1>4, <1>12, <3>1
    <3> QED
      BY <1>11, <3>1, <3>2 DEF ToSet
  <2> QED
    BY <1>11, <1>12, <2>1 DEF ToSet
<1>14. ASSUME NEW i \in 1..n, NEW j \in 1..n, i < j
       PROVE  <<s[i], s[j]>> \in R
  <2>1. s[i] # s[j] /\ ~(<<s[j], s[i]>> \in R)
    BY <1>3, <1>12, <1>14
  <2> QED
    BY <1>12, <2>1 DEF IsOrder
<1> QED
  BY <1>11, <1>13, <1>14 DEF s

----------------------------------------------------------------------------
(* The order of internal keys.                                             *)

LEMMA ConstantsAre ==
  /\ UserKeys \subseteq Nat \ {0} /\ IsFiniteSet(UserKeys)
  /\ Writable \subseteq UserKeys /\ Deletable \subseteq UserKeys /\ FlushSizes \subseteq Nat \ {0}
  /\ NumLevels \in Nat /\ NumLevels >= 2 /\ L0Threshold <= NumLevels - 2
  /\ {L0Threshold, LevelBase, LevelFactor, AllowSeeks} \subseteq Nat \ {0} /\ MaxSeq \in Nat
BY CompactionAssumption

LEMMA KeyIs ==
  ASSUME NEW a \in Keys
  PROVE  a.u \in UserKeys /\ a.u \in Nat /\ a.u > 0 /\ a.s \in Nat /\ a.s > 0
<1>1. a.u \in UserKeys /\ a.s \in Nat \ {0}
  BY DEF Keys
<1>2. a.u \in Nat \ {0}
  BY <1>1, ConstantsAre
<1> QED
  BY <1>1, <1>2

LEMMA LessTrans ==
  ASSUME NEW a \in Keys, NEW b \in Keys, NEW c \in Keys, Less(a, b), Less(b, c)
  PROVE  Less(a, c)
BY KeyIs DEF Less

LEMMA LessIrreflexive ==
  ASSUME NEW a \in Keys, NEW b \in Keys, Less(a, b)
  PROVE  a # b /\ ~Less(b, a)
BY KeyIs DEF Less

LEMMA LessTotal ==
  ASSUME NEW a \in Keys, NEW b \in Keys, a.s # b.s
  PROVE  Less(a, b) \/ Less(b, a)
BY KeyIs DEF Less

LEMMA LessUser ==
  ASSUME NEW a \in Keys, NEW b \in Keys, Less(a, b)
  PROVE  a.u <= b.u /\ (a.u = b.u => a.s > b.s)
BY KeyIs DEF Less

\* Keys whose sequence numbers differ are ordered.
KeySet(S) == S \subseteq Keys /\ \A a, b \in S : a # b => a.s # b.s
KeyOrder(S) == {p \in S \X S : Less(p[1], p[2])}

LEMMA KeyOrderIs ==
  ASSUME NEW S, NEW a \in S, NEW b \in S
  PROVE  <<a, b>> \in KeyOrder(S) <=> Less(a, b)
BY DEF KeyOrder

LEMMA KeysOrdered ==
  ASSUME NEW S, KeySet(S)
  PROVE  IsOrder(S, KeyOrder(S))
<1>1. ASSUME NEW a \in S
      PROVE  <<a, a>> \notin KeyOrder(S)
  BY KeyOrderIs, LessIrreflexive DEF KeySet
<1>2. ASSUME NEW a \in S, NEW b \in S, NEW c \in S, <<a, b>> \in KeyOrder(S), <<b, c>> \in KeyOrder(S)
      PROVE  <<a, c>> \in KeyOrder(S)
  <2>1. a \in Keys /\ b \in Keys /\ c \in Keys
    BY DEF KeySet
  <2> QED
    BY <1>2, <2>1, KeyOrderIs, LessTrans
<1>3. ASSUME NEW a \in S, NEW b \in S, a # b
      PROVE  <<a, b>> \in KeyOrder(S) \/ <<b, a>> \in KeyOrder(S)
  <2>1. a \in Keys /\ b \in Keys /\ a.s # b.s
    BY <1>3 DEF KeySet
  <2> QED
    BY <2>1, KeyOrderIs, LessTotal
<1> QED
  BY <1>1, <1>2, <1>3 DEF IsOrder

\* A finite set of such keys has a first and a last one.
LEMMA ExtremeKeys ==
  ASSUME NEW S, KeySet(S), IsFiniteSet(S), S # {}
  PROVE  /\ FirstKey(S) \in S /\ \A b \in S \ {FirstKey(S)} : Less(FirstKey(S), b)
         /\ LastKey(S) \in S /\ \A b \in S \ {LastKey(S)} : Less(b, LastKey(S))
<1>1. PICK s : s = SortBy(S, KeyOrder(S))
  OBVIOUS
<1>2. /\ s \in Seq(S) /\ Len(s) = Cardinality(S) /\ ToSet(s) = S
      /\ \A i, j \in 1..Len(s) : i < j => <<s[i], s[j]>> \in KeyOrder(S)
  BY <1>1, KeysOrdered, Sorted
<1>3. Len(s) \in Nat /\ Len(s) # 0
  BY <1>2, FS_EmptySet
<1>4. \A b \in S : \E i \in 1..Len(s) : b = s[i]
  BY <1>2 DEF ToSet
<1>5. 1 \in 1..Len(s) /\ Len(s) \in 1..Len(s) /\ s[1] \in S /\ s[Len(s)] \in S
  BY <1>2, <1>3
<1>6. ASSUME NEW b \in S \ {s[1]}
      PROVE  Less(s[1], b)
  <2>1. PICK i \in 1..Len(s) : b = s[i]
    BY <1>4
  <2>2. 1 < i
    BY <1>6, <2>1
  <2> QED
    BY <1>2, <1>5, <2>1, <2>2, KeyOrderIs
<1>7. ASSUME NEW b \in S \ {s[Len(s)]}
      PROVE  Less(b, s[Len(s)])
  <2>1. PICK i \in 1..Len(s) : b = s[i]
    BY <1>4
  <2>2. i < Len(s)
    BY <1>3, <1>7, <2>1
  <2> QED
    BY <1>2, <1>5, <2>1, <2>2, KeyOrderIs
<1>8. \E a \in S : \A b \in S \ {a} : Less(a, b)
  BY <1>5, <1>6
<1>9. \E a \in S : \A b \in S \ {a} : Less(b, a)
  BY <1>5, <1>7
<1> QED
  BY <1>8, <1>9 DEF FirstKey, LastKey

----------------------------------------------------------------------------
(* Files.                                                                  *)

IsFile(t, f) == t \in Seq(Tables) /\ f \in 1..Len(t) /\ WellFormed(t[f])

LEMMA FileIs ==
  ASSUME NEW t, NEW f, IsFile(t, f)
  PROVE  /\ t[f] \in Tables /\ t[f].data \in Seq(Keys) /\ Len(t[f].data) \in Nat /\ 1 <= Len(t[f].data)
         /\ f \in Nat /\ f <= Len(t)
         /\ t[f].smallest \in Keys /\ t[f].largest \in Keys
         /\ InFile(t, f, t[f].smallest) /\ InFile(t, f, t[f].largest)
<1>0. t \in Seq(Tables) /\ Len(t) \in Nat /\ f \in 1..Len(t)
  BY DEF IsFile
<1>1. t[f] \in Tables /\ t[f].data \in Seq(Keys) /\ f \in Nat /\ Len(t) \in Nat /\ f <= Len(t)
  <2>1. t[f] \in Tables
    BY <1>0
  <2>2. t[f].data \in Seq(Keys)
    BY <2>1 DEF Tables
  <2> QED
    BY <1>0, <2>1, <2>2
<1>2. Len(t[f].data) \in Nat /\ 1 <= Len(t[f].data)
  BY <1>1 DEF IsFile, WellFormed
<1>3. 1 \in 1..Len(t[f].data) /\ Len(t[f].data) \in 1..Len(t[f].data)
  BY <1>2
<1>4. t[f].smallest = t[f].data[1] /\ t[f].largest = t[f].data[Len(t[f].data)]
  BY DEF IsFile, WellFormed
<1>5. t[f].data[1] \in Keys /\ t[f].data[Len(t[f].data)] \in Keys
  BY <1>1, <1>3
<1> QED
  BY <1>1, <1>2, <1>3, <1>4, <1>5 DEF InFile

LEMMA EntryIs ==
  ASSUME NEW t, NEW f, IsFile(t, f), NEW e, InFile(t, f, e)
  PROVE  /\ e \in Keys
         /\ e = t[f].smallest \/ Less(t[f].smallest, e)
         /\ e = t[f].largest \/ Less(e, t[f].largest)
         /\ t[f].smallest.u <= e.u /\ e.u <= t[f].largest.u
<1>1. PICK d : d = t[f].data
  OBVIOUS
<1>2. d \in Seq(Keys) /\ Len(d) \in Nat /\ 1 <= Len(d) /\ t[f].smallest \in Keys /\ t[f].largest \in Keys
  BY <1>1, FileIs
<1>3. Ascending(d) /\ t[f].smallest = d[1] /\ t[f].largest = d[Len(d)]
  BY <1>1 DEF IsFile, WellFormed
<1>4. PICK i \in 1..Len(d) : e = d[i]
  BY <1>1 DEF InFile
<1>5. e \in Keys
  BY <1>2, <1>4
<1>6. i = 1 \/ Less(d[1], d[i])
  BY <1>2, <1>3 DEF Ascending
<1>7. i = Len(d) \/ Less(d[i], d[Len(d)])
  BY <1>2, <1>3 DEF Ascending
<1>8. e = t[f].smallest \/ Less(t[f].smallest, e)
  BY <1>3, <1>4, <1>6
<1>9. e = t[f].largest \/ Less(e, t[f].largest)
  BY <1>3, <1>4, <1>7
<1>10. t[f].smallest.u <= e.u
  BY <1>2, <1>5, <1>8, LessUser, KeyIs
<1>11. e.u <= t[f].largest.u
  BY <1>2, <1>5, <1>9, LessUser, KeyIs
<1> QED
  BY <1>5, <1>8, <1>9, <1>10, <1>11

\* Entries with one number are one.
LEMMA EntryOnce ==
  ASSUME NEW t, NEW S, Unique(t, S), NEW f \in S, NEW g \in S, NEW a, NEW b,
         InFile(t, f, a), InFile(t, g, b), a.s = b.s
  PROVE  a = b
<1>1. PICK i \in 1..Len(t[f].data) : a = t[f].data[i]
  BY DEF InFile
<1>2. PICK j \in 1..Len(t[g].data) : b = t[g].data[j]
  BY DEF InFile
<1> QED
  BY <1>1, <1>2 DEF Unique

FileSet(t, S) == (\A f \in S : IsFile(t, f)) /\ Unique(t, S)

LEMMA FileSetFinite ==
  ASSUME NEW t, NEW S, FileSet(t, S)
  PROVE  IsFiniteSet(S) /\ S \subseteq Nat
<1>1. CASE S = {}
  BY <1>1, FS_EmptySet
<1>2. CASE S # {}
  <2>1. t \in Seq(Tables)
    BY <1>2 DEF FileSet, IsFile
  <2>2. S \subseteq 1..Len(t) /\ Len(t) \in Nat
    BY <2>1 DEF FileSet, IsFile
  <2>3. IsFiniteSet(1..Len(t))
    BY <2>2, FS_Interval
  <2>4. IsFiniteSet(S)
    BY <2>2, <2>3, FS_Subset
  <2>5. 1..Len(t) \subseteq Nat
    BY <2>2
  <2> QED
    BY <2>2, <2>4, <2>5
<1> QED
  BY <1>1, <1>2

FileOrder(t, S) == {p \in S \X S : BySmallestKey(t, p[1], p[2])}

LEMMA FileOrderIs ==
  ASSUME NEW t, NEW S, NEW f \in S, NEW g \in S
  PROVE  <<f, g>> \in FileOrder(t, S) <=> BySmallestKey(t, f, g)
BY DEF FileOrder

\* SaveTo: the files, in the order of their smallest keys.
LEMMA SaveToIs ==
  ASSUME NEW t, NEW S, FileSet(t, S)
  PROVE  /\ SaveTo(t, S) \in Seq(Nat) /\ ToSet(SaveTo(t, S)) = S
         /\ Len(SaveTo(t, S)) = Cardinality(S)
         /\ \A i, j \in 1..Len(SaveTo(t, S)) : i < j => BySmallestKey(t, SaveTo(t, S)[i], SaveTo(t, S)[j])
         /\ \A i, j \in 1..Len(SaveTo(t, S)) : SaveTo(t, S)[i] = SaveTo(t, S)[j] => i = j
<1>1. IsFiniteSet(S) /\ S \subseteq Nat
  BY FileSetFinite
<1>2. IsOrder(S, FileOrder(t, S))
  <2>1. ASSUME NEW f \in S
        PROVE  t[f].smallest \in Keys /\ InFile(t, f, t[f].smallest) /\ f \in Nat
    BY FileIs DEF FileSet
  <2>2. ASSUME NEW f \in S
        PROVE  <<f, f>> \notin FileOrder(t, S)
    BY <2>1, FileOrderIs, LessIrreflexive DEF BySmallestKey
  <2>3. ASSUME NEW f \in S, NEW g \in S, NEW h \in S, <<f, g>> \in FileOrder(t, S), <<g, h>> \in FileOrder(t, S)
        PROVE  <<f, h>> \in FileOrder(t, S)
    <3>1. BySmallestKey(t, f, g) /\ BySmallestKey(t, g, h)
      BY <2>3, FileOrderIs
    <3>2. PICK a, b, c : a = t[f].smallest /\ b = t[g].smallest /\ c = t[h].smallest
      OBVIOUS
    <3>3. a \in Keys /\ b \in Keys /\ c \in Keys /\ f \in Nat /\ g \in Nat /\ h \in Nat
      BY <2>1, <3>2
    <3>4. (Less(a, b) \/ (a = b /\ f < g)) /\ (Less(b, c) \/ (b = c /\ g < h))
      BY <3>1, <3>2 DEF BySmallestKey
    <3>5. Less(a, c) \/ (a = c /\ f < h)
      BY ONLY <3>3, <3>4, LessTrans
    <3>6. BySmallestKey(t, f, h)
      BY <3>2, <3>5 DEF BySmallestKey
    <3> QED
      BY <3>6, FileOrderIs
  <2>4. ASSUME NEW f \in S, NEW g \in S, f # g
        PROVE  <<f, g>> \in FileOrder(t, S) \/ <<g, f>> \in FileOrder(t, S)
    <3>1. CASE t[f].smallest.s = t[g].smallest.s
      <4>1. t[f].smallest = t[g].smallest
        BY <2>1, <3>1, EntryOnce DEF FileSet
      <4>2. f < g \/ g < f
        BY <2>1, <2>4
      <4> QED
        BY <4>1, <4>2, FileOrderIs DEF BySmallestKey
    <3>2. CASE t[f].smallest.s # t[g].smallest.s
      <4>1. Less(t[f].smallest, t[g].smallest) \/ Less(t[g].smallest, t[f].smallest)
        BY <2>1, <3>2, LessTotal
      <4> QED
        BY <4>1, FileOrderIs DEF BySmallestKey
    <3> QED
      BY <3>1, <3>2
  <2> QED
    BY <2>2, <2>3, <2>4 DEF IsOrder
<1>3. PICK s : s = SortBy(S, FileOrder(t, S))
  OBVIOUS
<1>4. SaveTo(t, S) = s
  BY <1>3 DEF SaveTo, FileOrder
<1>5. /\ s \in Seq(S) /\ ToSet(s) = S /\ Len(s) = Cardinality(S)
      /\ \A i, j \in 1..Len(s) : i < j => <<s[i], s[j]>> \in FileOrder(t, S)
  BY <1>1, <1>2, <1>3, Sorted
<1>6. \A i \in 1..Len(s) : s[i] \in S
  BY <1>5
<1>7. \A i, j \in 1..Len(s) : i < j => BySmallestKey(t, s[i], s[j])
  BY <1>5, <1>6, FileOrderIs
<1>8. \A i, j \in 1..Len(s) : s[i] = s[j] => i = j
  <2>1. \A i, j \in 1..Len(s) : i < j => s[i] # s[j]
    BY <1>2, <1>5, <1>6 DEF IsOrder
  <2>2. Len(s) \in Nat
    BY <1>5
  <2> QED
    BY <2>1, <2>2
<1>9. s \in Seq(Nat)
  BY <1>1, <1>5, SeqMonotonic
<1> QED
  BY <1>4, <1>5, <1>7, <1>8, <1>9

\* AddFile's assertion compares neighbours; it says the same of all pairs.
LEMMA OrderedSpread ==
  ASSUME NEW t, NEW fs \in Seq(Nat), \A i \in 1..Len(fs) : IsFile(t, fs[i]), Ordered(t, fs)
  PROVE  Spread(t, fs)
<1> DEFINE Apart0(i, d) == Less(t[fs[i]].largest, t[fs[i + d]].smallest)
<1>1. ASSUME NEW i \in 1..Len(fs)
      PROVE  \A d \in Nat : 1 <= d /\ i + d <= Len(fs) => Apart0(i, d)
  <2> DEFINE Bad == {d \in Nat : 1 <= d /\ i + d <= Len(fs) /\ ~Apart0(i, d)}
  <2>1. SUFFICES ASSUME Bad # {}
                 PROVE  FALSE
    OBVIOUS
  <2>2. PICK d \in Bad : \A k \in Bad : d <= k
    <3>1. Bad \in SUBSET Nat
      OBVIOUS
    <3> HIDE DEF Bad
    <3> QED
      BY <2>1, <3>1, LeastNatural
  <2>3. i + d - 1 \in 1..(Len(fs) - 1) /\ i + d \in 1..Len(fs) /\ i + d - 1 \in 1..Len(fs)
    BY <2>2
  <2>4. Less(t[fs[i + d - 1]].largest, t[fs[i + d]].smallest)
    <3>1. (i + d - 1) + 1 = i + d
      BY <2>2
    <3> QED
      BY <2>3, <3>1 DEF Ordered
  <2>5. CASE d = 1
    BY <2>2, <2>4, <2>5
  <2>6. CASE d # 1
    <3>1. d - 1 \in Nat /\ 1 <= d - 1 /\ i + (d - 1) <= Len(fs) /\ ~(d <= d - 1)
      BY SMTT(30), <2>2, <2>6
    <3>2. Apart0(i, d - 1)
      BY <2>2, <3>1
    <3>3. Less(t[fs[i]].largest, t[fs[i + d - 1]].smallest)
      <4>1. i + (d - 1) = i + d - 1
        BY <2>2
      <4> QED
        BY <3>2, <4>1
    <3>4. IsFile(t, fs[i]) /\ IsFile(t, fs[i + d - 1]) /\ IsFile(t, fs[i + d])
      BY <2>3
    <3>5. PICK a, b, c, e : /\ a = t[fs[i]].largest /\ b = t[fs[i + d - 1]].smallest
                            /\ c = t[fs[i + d - 1]].largest /\ e = t[fs[i + d]].smallest
      OBVIOUS
    <3>6. a \in Keys /\ b \in Keys /\ c \in Keys /\ e \in Keys
      BY <3>4, <3>5, FileIs
    <3>7. c = b \/ Less(b, c)
      <4>1. InFile(t, fs[i + d - 1], c)
        BY <3>4, <3>5, FileIs
      <4> QED
        BY <3>4, <3>5, <4>1, EntryIs
    <3>8. Less(a, e)
      BY <2>4, <3>3, <3>5, <3>6, <3>7, LessTrans
    <3> QED
      BY <2>2, <3>5, <3>8
  <2> QED
    BY <2>5, <2>6
<1>2. ASSUME NEW i \in 1..Len(fs), NEW j \in 1..Len(fs), i < j
      PROVE  Less(t[fs[i]].largest, t[fs[j]].smallest)
  <2>1. j - i \in Nat /\ 1 <= j - i /\ i + (j - i) = j
    BY <1>2
  <2>2. PICK d \in Nat : 1 <= d /\ i + d = j
    BY <2>1
  <2>3. i + d <= Len(fs)
    BY <2>2
  <2>4. Apart0(i, d)
    BY <1>1, <2>2, <2>3
  <2> QED
    BY <2>2, <2>4
<1> QED
  BY <1>2 DEF Spread

----------------------------------------------------------------------------
(* Versions.                                                               *)

LEMMA LevelsAre ==
  /\ Levels = 0..(NumLevels - 1) /\ 0 \in Levels /\ 1 \in Levels /\ NumLevels - 1 \in Levels
  /\ Levels \subseteq Nat
  /\ \A l \in 0..(NumLevels - 2) : l \in Levels /\ l + 1 \in Levels /\ l + 1 # l
BY ConstantsAre DEF Levels

LEMMA VersionFiles ==
  ASSUME NEW t \in Seq(Tables), NEW F, NEW q, VersionOk(t, F, q), NEW S, S \subseteq All(F)
  PROVE  FileSet(t, S)
<1>1. \A f \in All(F) : IsFile(t, f)
  BY DEF VersionOk, FilesOk, IsFile
<1>2. Unique(t, All(F))
  BY DEF VersionOk
<1>3. Unique(t, S)
  BY <1>2 DEF Unique
<1> QED
  BY <1>1, <1>3 DEF FileSet

LEMMA InAll ==
  ASSUME NEW F, NEW l \in Levels, NEW f \in F[l]
  PROVE  f \in All(F)
BY DEF All

LEMMA AllIs ==
  ASSUME NEW F, NEW f \in All(F)
  PROVE  \E l \in Levels : f \in F[l]
BY DEF All

\* Two tables have the same file f, but for the seeks it is allowed.
SameFile(t, t2, f) ==
  /\ f \in 1..Len(t2) /\ t2[f].data = t[f].data
  /\ t2[f].smallest = t[f].smallest /\ t2[f].largest = t[f].largest
SameFiles(t, t2, S) == \A f \in S : SameFile(t, t2, f)

LEMMA SameInFile ==
  ASSUME NEW t, NEW t2, NEW f, SameFile(t, t2, f)
  PROVE  /\ \A e : InFile(t2, f, e) <=> InFile(t, f, e)
         /\ WellFormed(t2[f]) <=> WellFormed(t[f])
BY DEF SameFile, InFile, WellFormed

LEMMA SameNewer ==
  ASSUME NEW t, NEW t2, NEW f, NEW g, SameFile(t, t2, f), SameFile(t, t2, g), Newer(t, f, g)
  PROVE  Newer(t2, f, g)
BY SameInFile DEF Newer

LEMMA SameVersion ==
  ASSUME NEW t, NEW t2, NEW F, NEW q, NEW q2, VersionOk(t, F, q), SameFiles(t, t2, All(F)),
         \A f \in All(F) : \A i \in 1..Len(t[f].data) : t[f].data[i].s <= q => t[f].data[i].s <= q2
  PROVE  VersionOk(t2, F, q2)
<1>1. FilesOk(t2, F)
  <2>1. ASSUME NEW f \in All(F)
        PROVE  f \in 1..Len(t2) /\ WellFormed(t2[f])
    <3>1. SameFile(t, t2, f) /\ WellFormed(t[f])
      BY DEF SameFiles, VersionOk, FilesOk
    <3> QED
      BY <3>1, SameInFile DEF SameFile
  <2> QED
    BY <2>1 DEF FilesOk
<1>2. Unique(t2, All(F))
  <2>1. \A f \in All(F) : t2[f].data = t[f].data
    BY DEF SameFiles, SameFile
  <2> QED
    <3>1. Unique(t, All(F))
      BY ONLY VersionOk(t, F, q) DEF VersionOk
    <3> QED
      <4>1. SUFFICES ASSUME NEW f \in All(F), NEW g \in All(F),
                            NEW i \in 1..Len(t2[f].data), NEW j \in 1..Len(t2[g].data),
                            t2[f].data[i].s = t2[g].data[j].s
                     PROVE  t2[f].data[i] = t2[g].data[j]
        BY DEF Unique
      <4>2. t2[f].data = t[f].data /\ t2[g].data = t[g].data
        BY ONLY <2>1, f \in All(F), g \in All(F)
      <4> QED
        BY <3>1, <4>1, <4>2 DEF Unique
<1>3. Known(t2, F, q2)
  BY DEF VersionOk, Known, SameFiles, SameFile
<1>4. NewestOnTop(t2, F)
  <2>1. \A f \in All(F) : \A e : InFile(t2, f, e) <=> InFile(t, f, e)
    BY SameInFile DEF SameFiles
  <2>2. F[0] \subseteq All(F) /\ \A l \in Levels : F[l] \subseteq All(F)
    BY InAll, LevelsAre
  <2>3. \A S : S \subseteq All(F) => \A b : Topped(t, S, b) => Topped(t2, S, b)
    BY <2>1 DEF Topped
  <2>4. \A f \in All(F) : \A k : HasUser(t2, f, k) => HasUser(t, f, k)
    BY <2>1 DEF HasUser
  <2>5. ASSUME NEW f \in F[0], NEW l \in Levels \ {0}, NEW g \in F[l], NEW b, InFile(t2, g, b), HasUser(t2, f, b.u)
        PROVE  Topped(t2, F[0], b)
    <3>1. InFile(t, g, b) /\ HasUser(t, f, b.u)
      BY <2>1, <2>2, <2>4, <2>5
    <3>2. Topped(t, F[0], b)
      BY <3>1 DEF VersionOk, NewestOnTop
    <3> QED
      BY <2>2, <2>3, <3>2
  <2>6. ASSUME NEW f \in F[0], NEW g \in F[0], f > g, NEW b, InFile(t2, g, b), HasUser(t2, f, b.u)
        PROVE  Topped(t2, {h \in F[0] : h >= f}, b)
    <3>1. InFile(t, g, b) /\ HasUser(t, f, b.u)
      BY <2>1, <2>2, <2>4, <2>6
    <3>2. Topped(t, {h \in F[0] : h >= f}, b)
      BY <2>6, <3>1 DEF VersionOk, NewestOnTop
    <3>3. {h \in F[0] : h >= f} \subseteq All(F)
      BY <2>2
    <3> QED
      BY <2>3, <3>2, <3>3
  <2> QED
    BY <2>5, <2>6 DEF NewestOnTop
<1>5. Apart(F)
  BY DEF VersionOk
<1> QED
  BY <1>1, <1>2, <1>3, <1>4, <1>5 DEF VersionOk

LEMMA SameSpread ==
  ASSUME NEW t, NEW t2, NEW fs, \A i \in 1..Len(fs) : SameFile(t, t2, fs[i])
  PROVE  (Spread(t, fs) => Spread(t2, fs)) /\ (Follow(t, fs) => Follow(t2, fs))
BY DEF Spread, Follow, SameFile

LEMMA SameInputs ==
  ASSUME NEW t, NEW t2, NEW F, NEW c, InputsOk(c, t, F), SameFiles(t, t2, All(F))
  PROVE  InputsOk(c, t2, F)
<1>1. ASSUME c.level = 0, NEW f \in F[0] \ c.inputs[1], NEW g \in c.inputs[1]
      PROVE  Newer(t2, f, g)
  <2>1. g \in F[0] /\ Newer(t, f, g)
    BY <1>1 DEF InputsOk
  <2>2. f \in All(F) /\ g \in All(F)
    BY <2>1, InAll, LevelsAre
  <2>3. SameFile(t, t2, f) /\ SameFile(t, t2, g)
    BY <2>2 DEF SameFiles
  <2> QED
    BY <2>1, <2>3, SameNewer
<1> QED
  BY <1>1 DEF InputsOk

LEMMA InputsInAll ==
  ASSUME NEW t, NEW F, NEW c, InputsOk(c, t, F), NEW f \in Inputs(c)
  PROVE  f \in All(F)
<1>1. c.level \in Levels /\ c.level + 1 \in Levels
  BY LevelsAre DEF InputsOk
<1> QED
  BY <1>1, InAll DEF InputsOk, Inputs

LEMMA SameFrom ==
  ASSUME NEW t, NEW t2, NEW S, SameFiles(t, t2, S), NEW e
  PROVE  FromFiles(t2, S, e) <=> FromFiles(t, S, e)
BY SameInFile DEF SameFiles, FromFiles

LEMMA SameList ==
  ASSUME NEW t, NEW t2, NEW S, SameFiles(t, t2, S), NEW list, ListOk(list, t, S)
  PROVE  ListOk(list, t2, S)
BY SameFrom DEF ListOk

LEMMA SameOutputs ==
  ASSUME NEW t, NEW t2, NEW S, SameFiles(t, t2, S), NEW outputs, NEW list, NEW F, NEW F2,
         OutputsOk(outputs, list, t, S, F),
         \A o \in 1..Len(outputs) : SameFile(t, t2, outputs[o]) /\ outputs[o] \notin All(F2)
  PROVE  OutputsOk(outputs, list, t2, S, F2)
<1>1. Follow(t2, outputs)
  BY SameSpread DEF OutputsOk
<1>2. ASSUME NEW o \in 1..Len(outputs)
      PROVE  /\ outputs[o] \in 1..Len(t2) /\ outputs[o] \notin All(F2)
             /\ WellFormed(t2[outputs[o]])
             /\ \A e : InFile(t2, outputs[o], e) => FromFiles(t2, S, e)
             /\ \A e, n : InFile(t2, outputs[o], e) /\ n \in 1..Len(list) =>
                  \A d : InIter(list[n], d) => AtMost(e, d)
  <2>1. SameFile(t, t2, outputs[o])
    OBVIOUS
  <2>2. /\ \A e : InFile(t2, outputs[o], e) <=> InFile(t, outputs[o], e)
        /\ WellFormed(t2[outputs[o]]) <=> WellFormed(t[outputs[o]])
    BY <2>1, SameInFile
  <2>3. /\ WellFormed(t[outputs[o]])
        /\ \A e : InFile(t, outputs[o], e) => FromFiles(t, S, e)
        /\ \A e, n : InFile(t, outputs[o], e) /\ n \in 1..Len(list) =>
                  \A d : InIter(list[n], d) => AtMost(e, d)
    BY DEF OutputsOk
  <2> QED
    BY <2>1, <2>2, <2>3, SameFrom DEF SameFile
<1> QED
  BY <1>1, <1>2 DEF OutputsOk

\* Files that have no other entries.
LEMMA LogKept ==
  ASSUME NEW lg, NEW fl, NEW t, NEW t2, NEW S, NEW S2, LogKnows(lg, fl, t, S),
         \A f \in S2 : \A e : InFile(t2, f, e) => FromFiles(t, S, e)
  PROVE  LogKnows(lg, fl, t2, S2)
BY DEF LogKnows, FromFiles

LEMMA LogSame ==
  ASSUME NEW lg, NEW fl, NEW t, NEW t2, NEW S, LogKnows(lg, fl, t, S), SameFiles(t, t2, S)
  PROVE  LogKnows(lg, fl, t2, S)
BY SameInFile DEF LogKnows, SameFiles

\* The files F2 are those of the version without the deleted and with the added ones.
Edited(F2, added, deleted) == F2 = [k \in Levels |-> (ToSet(files_[k]) \ deleted[k]) \cup added[k]]

\* The Gets of an old version can be those of any version.
LEMMA OutdatedOk ==
  ASSUME GetsInv, gets' = Outdated
  PROVE  GetsInv'
<1>1. ASSUME NEW r \in Readers
      PROVE  /\ gets'[r] \in [seek : [file : Nat, level : Int], current : BOOLEAN]
             /\ GetOk(gets'[r], files_')
  <2>1. gets[r] \in [seek : [file : Nat, level : Int], current : BOOLEAN]
    BY DEF GetsInv
  <2>2. gets'[r] = [gets[r] EXCEPT !.current = FALSE]
    BY DEF Outdated
  <2>3. gets'[r].seek = gets[r].seek /\ gets'[r].current = FALSE
        /\ gets'[r] \in [seek : [file : Nat, level : Int], current : BOOLEAN]
    BY <2>1, <2>2
  <2>4. ASSUME gets[r] = NoGet
        PROVE  gets'[r] = NoGet
    <3>1. PICK x, g, g2 : x = NoSeek /\ g = gets[r] /\ g2 = gets'[r]
      OBVIOUS
    <3>2. g = [seek |-> x, current |-> FALSE] /\ g2 = [g EXCEPT !.current = FALSE]
      BY <2>2, <2>4, <3>1 DEF NoGet
    <3>3. g2 = [seek |-> x, current |-> FALSE]
      BY ONLY <3>2
    <3> QED
      BY <3>1, <3>3 DEF NoGet
  <2>5. gets'[r] # NoGet => gets'[r].seek.level \in 0..(NumLevels - 2)
    BY <2>3, <2>4 DEF GetsInv, GetOk
  <2> QED
    BY <2>3, <2>5 DEF GetOk
<1>2. gets' \in [Readers -> [seek : [file : Nat, level : Int], current : BOOLEAN]]
  BY <1>1 DEF Outdated
<1> QED
  BY <1>1, <1>2 DEF GetsInv

\* What LogAndApply installs, or the assertion stops the process.
LEMMA InstallEffect ==
  ASSUME NEW t \in Seq(Tables), NEW added, NEW deleted, NEW pointers, NEW then, NEW F, NEW q,
         Install(t, added, deleted, pointers, then), GetsInv, VersionOk(t, F, q), Edited(F, added, deleted)
  PROVE  /\ \/ files_' = files_ /\ file_to_compact_' = file_to_compact_ /\ bg' = "overlap"
            \/ /\ files_' \in [Levels -> Seq(Nat)] /\ \A l \in Levels : ToSet(files_'[l]) = F[l]
               /\ \A l \in Levels \ {0} : Spread(t, files_'[l])
               /\ file_to_compact_' = NoSeek /\ bg' = then
         /\ GetsInv'
<1>1. PICK next : next = NextFiles(t, added, deleted)
  OBVIOUS
<1>2. next = [l \in Levels |-> SaveTo(t, F[l])]
  BY <1>1 DEF NextFiles, Edited
<1>3. ASSUME NEW l \in Levels
      PROVE  FileSet(t, F[l])
  <2>1. F[l] \subseteq All(F)
    BY DEF All
  <2> QED
    BY <2>1, VersionFiles
<1>4. \A l \in Levels : next[l] \in Seq(Nat) /\ ToSet(next[l]) = F[l]
  BY <1>2, <1>3, SaveToIs
<1>5. next \in [Levels -> Seq(Nat)]
  BY <1>2, <1>4
<1>6. ASSUME NEW l \in Levels, Ordered(t, next[l])
      PROVE  Spread(t, next[l])
  <2>1. \A i \in 1..Len(next[l]) : next[l][i] \in F[l]
    BY <1>4 DEF ToSet
  <2>2. \A i \in 1..Len(next[l]) : IsFile(t, next[l][i])
    BY <1>3, <2>1 DEF FileSet
  <2> QED
    BY <1>4, <1>6, <2>2, OrderedSpread
<1> DEFINE ok == \A l \in Levels \ {0} : Ordered(t, next[l])
<1>7. /\ files_' = IF ok THEN next ELSE files_
      /\ file_to_compact_' = IF ok THEN NoSeek ELSE file_to_compact_
      /\ gets' = IF ok THEN Outdated ELSE gets
      /\ bg' = IF ok THEN then ELSE "overlap"
  BY <1>1 DEF Install
<1>8. CASE ok
  <2>1. gets' = Outdated
    BY <1>7, <1>8
  <2> QED
    BY <1>4, <1>5, <1>6, <1>7, <1>8, <2>1, OutdatedOk
<1>9. CASE ~ok
  <2>1. GetsInv'
    BY <1>7, <1>9 DEF GetsInv
  <2> QED
    BY <1>7, <1>9, <2>1
<1> QED
  BY <1>8, <1>9

----------------------------------------------------------------------------
(* CompactionMemtable.                                                     *)

LEMMA NewTableIs ==
  ASSUME NEW d \in Seq(Keys), d # <<>>, Ascending(d)
  PROVE  NewTable(d) \in Tables /\ WellFormed(NewTable(d)) /\ NewTable(d).data = d
<1>1. d[1] \in Keys /\ d[Len(d)] \in Keys /\ AllowSeeks \in Nat
  BY ConstantsAre
<1> QED
  BY <1>1 DEF NewTable, Tables, WellFormed

LEMMA OpIs ==
  ASSUME NEW op \in Ops
  PROVE  op.u \in UserKeys /\ op.t \in {"put", "del"}
<1>1. CASE op \in [u : Writable, t : {"put"}]
  BY <1>1, ConstantsAre
<1>2. CASE op \in [u : IF Deletes < MaxDeletes THEN Deletable ELSE {}, t : {"del"}]
  <2>1. op.u \in Deletable /\ op.t = "del"
    BY <1>2
  <2> QED
    BY <2>1, ConstantsAre
<1> QED
  BY <1>1, <1>2 DEF Ops

\* The numbers of the entries of d are between q and q2, each in one place.
Numbered(d, q, q2) ==
  /\ \A i \in 1..Len(d) : q < d[i].s /\ d[i].s <= q2
  /\ \A i, j \in 1..Len(d) : d[i].s = d[j].s => i = j

Flushed(ops, q) == {[u |-> ops[i].u, s |-> q + i, t |-> ops[i].t] : i \in 1..Len(ops)}

\* A memtable, sorted, is the data of a file.
LEMMA FlushedData ==
  ASSUME NEW n \in Nat \ {0}, NEW ops \in [1..n -> Ops], NEW q \in Nat, NEW d,
         d = SortBy(Flushed(ops, q), KeyOrder(Flushed(ops, q)))
  PROVE  d \in Seq(Keys) /\ d # <<>> /\ Ascending(d) /\ Numbered(d, q, q + n) /\ Len(ops) = n
<1> DEFINE E == Flushed(ops, q)
           e(i) == [u |-> ops[i].u, s |-> q + i, t |-> ops[i].t]
           f == [i \in 1..n |-> e(i)]
<1>1. Len(ops) = n
  OBVIOUS
<1>2. ASSUME NEW i \in 1..n
      PROVE  e(i) \in Keys /\ e(i).s = q + i /\ e(i) \in E
  <2>1. ops[i] \in Ops
    OBVIOUS
  <2>2. ops[i].u \in UserKeys /\ ops[i].t \in {"put", "del"} /\ q + i \in Nat \ {0}
    BY <2>1, OpIs
  <2> QED
    BY <1>1, <2>2 DEF Keys, Flushed
<1>3. \A a \in E : \E i \in 1..n : a = e(i)
  BY <1>1 DEF Flushed
<1> HIDE DEF e, E
<1>4. KeySet(E)
  <2>1. E \subseteq Keys
    BY <1>2, <1>3
  <2>2. ASSUME NEW a \in E, NEW b \in E, a # b
        PROVE  a.s # b.s
    <3>1. PICK i \in 1..n : a = e(i)
      BY <1>3
    <3>2. PICK j \in 1..n : b = e(j)
      BY <1>3
    <3>3. i # j /\ a.s = q + i /\ b.s = q + j
      BY <1>2, <2>2, <3>1, <3>2
    <3> QED
      BY <3>3
  <2> QED
    BY <2>1, <2>2 DEF KeySet
<1>5. IsFiniteSet(E) /\ E # {}
  <2>1. f \in [1..n -> E]
    BY <1>2
  <2>2. \A a \in E : \E i \in 1..n : f[i] = a
    BY <1>3
  <2>3. f \in Surjection(1..n, E)
    BY <2>1, <2>2 DEF Surjection
  <2>4. IsFiniteSet(1..n)
    BY FS_Interval
  <2>5. IsFiniteSet(E)
    BY <2>3, <2>4, FS_Surjection
  <2>6. 1 \in 1..n
    OBVIOUS
  <2> QED
    BY <1>2, <2>5, <2>6
<1>6. /\ d \in Seq(E) /\ Len(d) = Cardinality(E) /\ ToSet(d) = E
      /\ \A i, j \in 1..Len(d) : i < j => <<d[i], d[j]>> \in KeyOrder(E)
  <2>1. d = SortBy(E, KeyOrder(E))
    BY DEF E
  <2>2. IsOrder(E, KeyOrder(E))
    BY <1>4, KeysOrdered
  <2> QED
    BY <1>5, <2>1, <2>2, Sorted
<1>7. E \subseteq Keys
  BY <1>4 DEF KeySet
<1>8. d \in Seq(Keys) /\ Len(d) \in Nat
  BY <1>6, <1>7, SeqMonotonic
<1>9. d # <<>>
  BY <1>5, <1>6 DEF ToSet
<1>10. \A i \in 1..Len(d) : d[i] \in E
  BY <1>6
<1>11. Ascending(d)
  BY <1>6, <1>10, KeyOrderIs DEF Ascending
<1>12. \A i \in 1..Len(d) : q < d[i].s /\ d[i].s <= q + n
  <2> TAKE i \in 1..Len(d)
  <2>1. PICK k \in 1..n : d[i] = e(k)
    BY <1>3, <1>10
  <2>2. d[i].s = q + k
    BY <1>2, <2>1
  <2> QED
    BY <2>2
<1>13. ASSUME NEW i \in 1..Len(d), NEW j \in 1..Len(d), d[i].s = d[j].s
       PROVE  i = j
  <2>1. d[i] = d[j]
    BY <1>4, <1>10, <1>13 DEF KeySet
  <2>2. d[i] \in Keys
    BY <1>8
  <2>3. i < j => d[i] # d[j]
    BY <1>7, <1>10, <1>11, LessIrreflexive DEF Ascending
  <2>4. j < i => d[i] # d[j]
    BY <1>7, <1>10, <1>11, LessIrreflexive DEF Ascending
  <2> QED
    BY <1>8, <2>1, <2>3, <2>4
<1> QED
  BY <1>1, <1>8, <1>9, <1>11, <1>12, <1>13 DEF Numbered

\* File number new is the next one.
Appended(t, t2, x, new) == t2 = Append(t, x) /\ new = Len(t) + 1

LEMMA AppendTable ==
  ASSUME NEW t \in Seq(Tables), NEW x \in Tables, NEW t2, NEW new, Appended(t, t2, x, new)
  PROVE  /\ t2 \in Seq(Tables) /\ Len(t2) = new /\ Len(t) \in Nat /\ new = Len(t) + 1 /\ t2[new] = x
         /\ \A f \in 1..Len(t) : t2[f] = t[f] /\ SameFile(t, t2, f)
<1>1. t2 \in Seq(Tables) /\ Len(t2) = Len(t) + 1 /\ Len(t) \in Nat /\ new = Len(t) + 1 /\ t2[new] = x
  BY DEF Appended
<1>2. ASSUME NEW f \in 1..Len(t)
      PROVE  t2[f] = t[f] /\ SameFile(t, t2, f)
  <2>1. f \in 1..Len(t2) /\ t2[f] = t[f]
    BY <1>1 DEF Appended
  <2> QED
    BY <2>1 DEF SameFile
<1> QED
  BY <1>1, <1>2

LEMMA ToppedMore ==
  ASSUME NEW t, NEW S, NEW S2, S \subseteq S2, NEW b, Topped(t, S, b)
  PROVE  Topped(t, S2, b)
BY DEF Topped

\* A file that has the user key and is newer.
LEMMA NewerTops ==
  ASSUME NEW t, NEW f, NEW g, IsFile(t, f), IsFile(t, g), Newer(t, f, g), NEW b, InFile(t, g, b),
         HasUser(t, f, b.u), NEW S, f \in S
  PROVE  Topped(t, S, b)
<1>1. PICK a : InFile(t, f, a) /\ a.u = b.u
  BY DEF HasUser
<1>2. a.s > b.s
  BY <1>1 DEF Newer
<1>3. a \in Keys /\ b \in Keys
  BY <1>1, EntryIs
<1>4. a.s >= b.s
  BY <1>2, <1>3, KeyIs
<1> QED
  BY <1>1, <1>4 DEF Topped

\* The numbers of x are known, each is that of one entry, and none is in the files F or older.
Latest(x, t, F, q) ==
  /\ \A i \in 1..Len(x.data) : x.data[i].s <= q
  /\ \A i, j \in 1..Len(x.data) : x.data[i].s = x.data[j].s => x.data[i] = x.data[j]
  /\ \A f \in All(F) : \A i \in 1..Len(x.data), j \in 1..Len(t[f].data) : t[f].data[j].s < x.data[i].s

\* A file of newer entries added to level 0.
LEMMA AddNewest ==
  ASSUME NEW t \in Seq(Tables), NEW x \in Tables, WellFormed(x), NEW q \in Nat, NEW F, VersionOk(t, F, q),
         Latest(x, t, F, q), NEW t2, NEW new, Appended(t, t2, x, new),
         NEW F2, F2[0] = F[0] \cup {new}, \A l \in Levels \ {0} : F2[l] = F[l]
  PROVE  /\ VersionOk(t2, F2, q)
         /\ VersionOk(t2, F, q) /\ SameFiles(t, t2, All(F))
         /\ \A f \in All(F) : Newer(t2, new, f) /\ f # new
         /\ All(F2) = All(F) \cup {new}
<1>1. /\ t2 \in Seq(Tables) /\ Len(t2) = new /\ Len(t) \in Nat /\ new = Len(t) + 1 /\ t2[new] = x
      /\ \A f \in 1..Len(t) : t2[f] = t[f] /\ SameFile(t, t2, f)
  BY AppendTable
<1>2. \A f \in All(F) : f \in 1..Len(t) /\ IsFile(t, f)
  BY DEF VersionOk, FilesOk, IsFile
<1>3. SameFiles(t, t2, All(F)) /\ \A f \in All(F) : f # new
  BY <1>1, <1>2 DEF SameFiles
<1>4. All(F2) = All(F) \cup {new}
  <2>1. ASSUME NEW f \in All(F2)
        PROVE  f \in All(F) \cup {new}
    <3>1. PICK l \in Levels : f \in F2[l]
      BY AllIs
    <3> QED
      BY <3>1, InAll
  <2>2. ASSUME NEW f \in All(F)
        PROVE  f \in All(F2)
    <3>1. PICK l \in Levels : f \in F[l]
      BY AllIs
    <3>2. f \in F2[l]
      BY <3>1
    <3> QED
      BY <3>2, InAll
  <2>3. new \in All(F2)
    BY InAll, LevelsAre
  <2> QED
    BY <2>1, <2>2, <2>3
<1>5. VersionOk(t2, F, q)
  BY <1>3, SameVersion
<1>6. ASSUME NEW f \in All(F), NEW i \in 1..Len(t2[new].data), NEW j \in 1..Len(t2[f].data)
      PROVE  t2[f].data[j].s < t2[new].data[i].s
  <2>1. t2[f] = t[f] /\ t2[new] = x
    BY <1>1, <1>2
  <2> QED
    BY <2>1 DEF Latest
<1>7. ASSUME NEW f \in All(F2), NEW i \in 1..Len(t2[f].data)
      PROVE  t2[f].data[i].s \in Nat
  <2>1. IsFile(t2, f)
    <3>1. CASE f = new
      BY <1>1, <3>1 DEF IsFile
    <3>2. CASE f \in All(F)
      BY <1>1, <1>5, <3>2 DEF IsFile, VersionOk, FilesOk
    <3> QED
      BY <1>4, <3>1, <3>2
  <2>2. t2[f].data \in Seq(Keys)
    BY <2>1, FileIs
  <2>3. t2[f].data[i] \in Keys
    BY <2>2
  <2> QED
    BY <2>3, KeyIs
<1>8. ASSUME NEW f \in All(F)
      PROVE  Newer(t2, new, f)
  <2>1. ASSUME NEW a, NEW b, InFile(t2, new, a), InFile(t2, f, b)
        PROVE  a.s > b.s
    <3>1. PICK i \in 1..Len(t2[new].data) : a = t2[new].data[i]
      BY <2>1 DEF InFile
    <3>2. PICK j \in 1..Len(t2[f].data) : b = t2[f].data[j]
      BY <2>1 DEF InFile
    <3>3. b.s < a.s /\ a.s \in Nat /\ b.s \in Nat
      BY <1>4, <1>6, <1>7, <3>1, <3>2
    <3> QED
      BY <3>3
  <2> QED
    BY <2>1 DEF Newer
<1>9. FilesOk(t2, F2)
  BY <1>1, <1>4, <1>5 DEF FilesOk, VersionOk
<1>10. Apart(F2)
  <2>1. Apart(F)
    BY DEF VersionOk
  <2>2. \A l \in Levels : new \notin F[l]
    BY <1>3, InAll
  <2>3. \A l \in Levels : F2[l] = IF l = 0 THEN F[0] \cup {new} ELSE F[l]
    OBVIOUS
  <2> QED
    BY <2>1, <2>2, <2>3, LevelsAre DEF Apart
<1>11. Unique(t2, All(F2))
  <2>1. ASSUME NEW f \in All(F2), NEW g \in All(F2),
               NEW i \in 1..Len(t2[f].data), NEW j \in 1..Len(t2[g].data), t2[f].data[i].s = t2[g].data[j].s
        PROVE  t2[f].data[i] = t2[g].data[j]
    <3>0. t2[f].data[i].s \in Nat /\ t2[g].data[j].s \in Nat
      BY <1>7
    <3>1. CASE f \in All(F) /\ g \in All(F)
      <4>1. Unique(t2, All(F))
        BY <1>5 DEF VersionOk
      <4> QED
        BY <2>1, <3>1, <4>1 DEF Unique
    <3>2. CASE f = new /\ g = new
      <4>1. i \in 1..Len(x.data) /\ j \in 1..Len(x.data) /\ x.data[i].s = x.data[j].s
        BY <1>1, <2>1, <3>2
      <4> QED
        BY <1>1, <3>2, <4>1 DEF Latest
    <3>3. CASE f \in All(F) /\ g = new
      <4>1. t2[f].data[i].s < t2[g].data[j].s
        BY <1>6, <3>3
      <4> QED
        BY <2>1, <3>0, <4>1
    <3>4. CASE f = new /\ g \in All(F)
      <4>1. t2[g].data[j].s < t2[f].data[i].s
        BY <1>6, <3>4
      <4> QED
        BY <2>1, <3>0, <4>1
    <3> QED
      BY <1>4, <3>1, <3>2, <3>3, <3>4
  <2> QED
    BY <2>1 DEF Unique
<1>12. Known(t2, F2, q)
  <2>1. ASSUME NEW f \in All(F2), NEW i \in 1..Len(t2[f].data)
        PROVE  t2[f].data[i].s <= q
    <3>1. CASE f \in All(F)
      BY <1>5, <3>1 DEF VersionOk, Known
    <3>2. CASE f = new
      BY <1>1, <3>2 DEF Latest
    <3> QED
      BY <1>4, <3>1, <3>2
  <2> QED
    BY <2>1 DEF Known
<1>13. NewestOnTop(t2, F2)
  <2>0. /\ \A h \in All(F2) : IsFile(t2, h)
        /\ \A h \in F[0] : h \in All(F) /\ h \in Nat /\ h < new
        /\ new \in F2[0] /\ F[0] \subseteq F2[0] /\ new \in Nat
    BY <1>1, <1>2, <1>9, InAll, LevelsAre DEF IsFile, FilesOk
  <2>1. ASSUME NEW f \in F2[0], NEW l \in Levels \ {0}, NEW g \in F2[l], NEW b, InFile(t2, g, b), HasUser(t2, f, b.u)
        PROVE  Topped(t2, F2[0], b)
    <3>1. g \in F[l] /\ g \in All(F)
      BY InAll
    <3>2. CASE f = new
      <4>1. Newer(t2, new, g) /\ IsFile(t2, new) /\ IsFile(t2, g)
        BY <1>4, <1>8, <2>0, <3>1
      <4> QED
        BY <2>0, <2>1, <3>2, <4>1, NewerTops
    <3>3. CASE f \in F[0]
      <4>1. Topped(t2, F[0], b)
        BY <1>5, <2>1, <3>1, <3>3 DEF VersionOk, NewestOnTop
      <4> QED
        BY <2>0, <4>1, ToppedMore
    <3> QED
      BY <3>2, <3>3
  <2>2. ASSUME NEW f \in F2[0], NEW g \in F2[0], f > g, NEW b, InFile(t2, g, b), HasUser(t2, f, b.u)
        PROVE  Topped(t2, {h \in F2[0] : h >= f}, b)
    <3>1. g # new
      BY <2>0, <2>2
    <3>2. CASE f = new
      <4>1. Newer(t2, new, g) /\ IsFile(t2, new) /\ IsFile(t2, g)
        BY <1>4, <1>8, <2>0, <3>1
      <4>2. f \in {h \in F2[0] : h >= f}
        BY <2>0, <3>2
      <4> QED
        BY <2>2, <3>2, <4>1, <4>2, NewerTops
    <3>3. CASE f \in F[0]
      <4>1. Topped(t2, {h \in F[0] : h >= f}, b)
        BY <1>5, <2>2, <3>1, <3>3 DEF VersionOk, NewestOnTop
      <4>2. {h \in F[0] : h >= f} \subseteq {h \in F2[0] : h >= f}
        BY <2>0
      <4> QED
        BY <4>1, <4>2, ToppedMore
    <3> QED
      BY <3>2, <3>3
  <2> QED
    BY <2>1, <2>2 DEF NewestOnTop
<1> QED
  BY <1>3, <1>4, <1>5, <1>8, <1>9, <1>10, <1>11, <1>12, <1>13 DEF VersionOk

\* A running merge is undisturbed when its files stay the same and level 0 gets newer files.
LEMMA MergeKept ==
  ASSUME NEW t, NEW t2, NEW F, NEW F2, NEW c, NEW list, NEW outputs,
         InputsOk(c, t, F), ListOk(list, t, Inputs(c)), OutputsOk(outputs, list, t, Inputs(c), F),
         SameFiles(t, t2, All(F)),
         \A o \in 1..Len(outputs) : SameFile(t, t2, outputs[o]) /\ outputs[o] \notin All(F2),
         \A l \in Levels : F[l] \subseteq F2[l],
         \A f \in F2[0] \ F[0], g \in F[0] : Newer(t2, f, g)
  PROVE  /\ InputsOk(c, t2, F2) /\ ListOk(list, t2, Inputs(c))
         /\ OutputsOk(outputs, list, t2, Inputs(c), F2)
<1>1. InputsOk(c, t2, F)
  BY SameInputs
<1>2. c.level \in Levels /\ c.level + 1 \in Levels
  BY LevelsAre DEF InputsOk
<1>3. InputsOk(c, t2, F2)
  <2>1. c.inputs[1] \subseteq F2[c.level] /\ c.inputs[2] \subseteq F2[c.level + 1]
    BY <1>1, <1>2 DEF InputsOk
  <2>2. ASSUME c.level = 0, NEW f \in F2[0] \ c.inputs[1], NEW g \in c.inputs[1]
        PROVE  Newer(t2, f, g)
    <3>1. g \in F[0]
      BY <1>1, <2>2 DEF InputsOk
    <3>2. CASE f \in F[0]
      BY <1>1, <2>2, <3>2 DEF InputsOk
    <3>3. CASE f \notin F[0]
      BY <3>1, <3>3
    <3> QED
      BY <3>2, <3>3
  <2> QED
    BY <1>1, <2>1, <2>2 DEF InputsOk
<1>4. SameFiles(t, t2, Inputs(c))
  BY InputsInAll DEF SameFiles
<1> QED
  BY <1>3, <1>4, SameList, SameOutputs

LEMMA SetsAre ==
  ASSUME NEW fs, NEW l \in Levels
  PROVE  Sets(fs)[l] = ToSet(fs[l])
BY DEF Sets

LEMMA FileInLevel ==
  ASSUME NEW t, NEW fs, NEW q, VersionOk(t, Sets(fs), q), NEW l \in Levels,
         NEW i \in 1..Len(fs[l]), fs \in [Levels -> Seq(Nat)]
  PROVE  fs[l][i] \in Sets(fs)[l] /\ fs[l][i] \in All(Sets(fs))
<1>1. fs[l] \in Seq(Nat)
  OBVIOUS
<1>2. fs[l][i] \in ToSet(fs[l])
  BY <1>1 DEF ToSet
<1> QED
  BY <1>2, InAll, SetsAre

LEMMA SpreadKept ==
  ASSUME NEW t, NEW t2, NEW fs, NEW q, VersionOk(t, Sets(fs), q), fs \in [Levels -> Seq(Nat)],
         SameFiles(t, t2, All(Sets(fs))), \A l \in Levels \ {0} : Spread(t, fs[l])
  PROVE  \A l \in Levels \ {0} : Spread(t2, fs[l])
<1> TAKE l \in Levels \ {0}
<1>1. \A i \in 1..Len(fs[l]) : SameFile(t, t2, fs[l][i])
  BY FileInLevel DEF SameFiles
<1> QED
  BY <1>1, SameSpread

\* One more memtable in the logs.
LEMMA LogAppended ==
  ASSUME NEW lg, NEW fl, NEW q \in Nat, NEW q2 \in Nat, q <= q2, LogOk(lg, fl, q),
         NEW d \in Seq(Keys), d # <<>>, Ascending(d), Numbered(d, q, q2), NEW lg2, lg2 = Append(lg, d)
  PROVE  /\ LogOk(lg2, fl, q2)
         /\ Len(lg) \in Nat /\ Len(lg2) = Len(lg) + 1 /\ lg2[Len(lg2)] = d
         /\ \A i \in 1..Len(lg) : lg2[i] = lg[i]
<1>1. lg \in Seq(Seq(Keys)) /\ Len(lg) \in Nat /\ fl \in 0..Len(lg)
  BY DEF LogOk
<1>2. /\ lg2 \in Seq(Seq(Keys)) /\ Len(lg2) = Len(lg) + 1 /\ lg2[Len(lg2)] = d
      /\ \A i \in 1..Len(lg) : lg2[i] = lg[i]
  BY <1>1
<1>3. \A i \in 1..Len(lg2) : i \in 1..Len(lg) \/ i = Len(lg2)
  BY <1>1, <1>2
<1>4. ASSUME NEW i \in 1..Len(lg), NEW p \in 1..Len(lg[i])
      PROVE  lg[i][p].s <= q /\ lg[i][p].s \in Nat
  <2>1. lg[i] \in Seq(Keys)
    BY <1>1
  <2>2. lg[i][p] \in Keys
    BY <2>1
  <2> QED
    BY <2>2, KeyIs DEF LogOk
<1>5. ASSUME NEW p \in 1..Len(d)
      PROVE  q < d[p].s /\ d[p].s <= q2 /\ d[p].s \in Nat
  <2>1. d[p] \in Keys
    OBVIOUS
  <2> QED
    BY <2>1, KeyIs DEF Numbered
<1>6. \A i \in 1..Len(lg2) : lg2[i] # <<>> /\ Ascending(lg2[i])
  BY <1>2, <1>3 DEF LogOk
<1>7. ASSUME NEW i \in 1..Len(lg2), NEW p \in 1..Len(lg2[i])
      PROVE  lg2[i][p].s <= q2
  <2>1. CASE i \in 1..Len(lg)
    BY <1>2, <1>4, <2>1
  <2>2. CASE i = Len(lg2)
    BY <1>2, <1>5, <2>2
  <2> QED
    BY <1>3, <2>1, <2>2
<1>8. ASSUME NEW i \in 1..Len(lg2), NEW j \in 1..Len(lg2), i < j,
             NEW p \in 1..Len(lg2[i]), NEW r \in 1..Len(lg2[j])
      PROVE  lg2[i][p].s < lg2[j][r].s
  <2>0. i \in 1..Len(lg)
    BY <1>1, <1>2, <1>8
  <2>1. CASE j \in 1..Len(lg)
    <3>1. lg2[i] = lg[i] /\ lg2[j] = lg[j]
      BY <1>2, <2>0, <2>1
    <3> QED
      BY <1>8, <2>0, <2>1, <3>1 DEF LogOk
  <2>2. CASE j = Len(lg2)
    <3>1. lg2[i][p].s <= q /\ lg2[i][p].s \in Nat
      BY <1>2, <1>4, <2>0
    <3>2. q < lg2[j][r].s /\ lg2[j][r].s \in Nat
      BY <1>2, <1>5, <2>2
    <3> QED
      BY SMTT(30), <3>1, <3>2
  <2> QED
    BY <1>3, <2>1, <2>2
<1>9. ASSUME NEW i \in 1..Len(lg2), NEW p \in 1..Len(lg2[i]), NEW r \in 1..Len(lg2[i]), lg2[i][p].s = lg2[i][r].s
      PROVE  p = r
  <2>1. CASE i \in 1..Len(lg)
    <3>1. lg2[i] = lg[i]
      BY <1>2, <2>1
    <3> QED
      BY <1>9, <2>1, <3>1 DEF LogOk
  <2>2. CASE i = Len(lg2)
    BY <1>2, <1>9, <2>2 DEF Numbered
  <2> QED
    BY <1>3, <2>1, <2>2
<1>10. fl \in 0..Len(lg2)
  BY <1>1, <1>2
<1> QED
  BY <1>1, <1>2, <1>6, <1>7, <1>8, <1>9, <1>10 DEF LogOk

\* What the files hold is older than the new memtable.
LEMMA LogAppendedKnows ==
  ASSUME NEW lg, NEW fl, NEW q \in Nat, NEW q2 \in Nat, q <= q2, LogOk(lg, fl, q),
         NEW d \in Seq(Keys), d # <<>>, Ascending(d), Numbered(d, q, q2), NEW lg2, lg2 = Append(lg, d),
         NEW t \in Seq(Tables), NEW F, VersionOk(t, F, q), LogKnows(lg, fl, t, All(F))
  PROVE  LogKnows(lg2, fl, t, All(F))
<1>1. /\ Len(lg) \in Nat /\ Len(lg2) = Len(lg) + 1 /\ lg2[Len(lg2)] = d
      /\ \A i \in 1..Len(lg) : lg2[i] = lg[i]
  BY LogAppended
<1>2. PICK n : n = Len(lg2)
  OBVIOUS
<1>3. /\ n \in 1..Len(lg2) /\ \A i \in 1..Len(lg2) : i \in 1..Len(lg) \/ i = n
      /\ \A i \in 1..Len(lg) : i \in 1..Len(lg2)
  BY <1>1, <1>2
<1>4. /\ \A i \in 1..Len(lg) : \A a : InLog(lg2, i, a) <=> InLog(lg, i, a)
      /\ \A a : InLog(lg2, n, a) => q < a.s /\ a.s \in Nat
  <2>1. \A p \in 1..Len(d) : d[p] \in Keys
    OBVIOUS
  <2>2. \A p \in 1..Len(d) : d[p].s \in Nat /\ q < d[p].s
    BY <2>1, KeyIs DEF Numbered
  <2> QED
    BY <1>1, <1>2, <2>2 DEF InLog
<1>5. SUFFICES ASSUME NEW f \in All(F), NEW e, InFile(t, f, e)
               PROVE  EntryKnown(lg2, fl, e)
  BY DEF LogKnows
<1>6. EntryKnown(lg, fl, e)
  BY <1>5 DEF LogKnows
<1>7. e.s <= q /\ e.s \in Nat
  <2>1. IsFile(t, f)
    BY DEF VersionOk, FilesOk, IsFile
  <2>2. e \in Keys
    BY <1>5, <2>1, EntryIs
  <2>3. e.s <= q
    BY <1>5 DEF VersionOk, Known, InFile
  <2> QED
    BY <2>2, <2>3, KeyIs
<1>8. ASSUME NEW a, InLog(lg2, n, a)
      PROVE  a.s > e.s /\ a.s >= e.s /\ a.s # e.s /\ e.s < a.s
  BY <1>4, <1>7, <1>8
<1>9. \A i \in 1..Len(lg2) : \A a : InLog(lg2, i, a) /\ a.s = e.s => a = e
  BY <1>3, <1>4, <1>6, <1>8 DEF EntryKnown
<1>10. \A i \in 1..Len(lg2) : \A a : InLog(lg2, i, a) /\ i > fl => e.s < a.s
  BY <1>3, <1>4, <1>6, <1>8 DEF EntryKnown
<1>11. ASSUME NEW i \in 1..Len(lg2), NEW a, InLog(lg2, i, a), a.u = e.u
       PROVE  \E j \in 1..Len(lg2) : \E b : InLog(lg2, j, b) /\ b.u = e.u /\ b.s >= e.s
  <2>1. CASE i = n
    BY <1>3, <1>8, <1>11, <2>1
  <2>2. CASE i \in 1..Len(lg)
    <3>1. InLog(lg, i, a)
      BY <1>4, <1>11, <2>2
    <3>2. PICK j, b : j \in 1..Len(lg) /\ InLog(lg, j, b) /\ b.u = e.u /\ b.s >= e.s
      BY <1>6, <1>11, <2>2, <3>1 DEF EntryKnown
    <3> QED
      BY <1>3, <1>4, <3>2
  <2> QED
    BY <1>3, <2>1, <2>2
<1> QED
  BY <1>9, <1>10, <1>11 DEF EntryKnown

LEMMA WriteStep ==
  ASSUME IInv, NEW n \in FlushSizes, NEW ops \in [1..n -> Ops], Write(ops)
  PROVE  IInv'
<1>1. PICK q, q2, d : q = last_sequence_ /\ q2 = q + n /\ d = SortBy(Flushed(ops, q), KeyOrder(Flushed(ops, q)))
  OBVIOUS
<1>2. /\ last_sequence_' = q + Len(ops) /\ q + Len(ops) <= MaxSeq /\ log' = Append(log, d) /\ ~Aborted
      /\ UNCHANGED <<table, files_, compactor_pointer_, file_to_compact_, gets, flushed, sessions, bg, m>>
  BY <1>1 DEF Write, Flushed, KeyOrder
<1>3. n \in Nat \ {0} /\ q \in Nat /\ table \in Seq(Tables)
  BY <1>1, ConstantsAre DEF IInv, TypeOK
<1>4. d \in Seq(Keys) /\ d # <<>> /\ Ascending(d) /\ Numbered(d, q, q2) /\ Len(ops) = n
  BY <1>1, <1>3, FlushedData
<1>5. q2 \in Nat /\ q <= q2 /\ last_sequence_' = q2 /\ q2 <= MaxSeq
  BY <1>1, <1>2, <1>3, <1>4
<1>6. /\ LogOk(log, flushed, q) /\ LogKnows(log, flushed, table, All(Sets(files_)))
      /\ VersionOk(table, Sets(files_), q)
  BY <1>1 DEF IInv, LogInv, VersionInv
<1>7. LogOk(log', flushed, q2)
  BY <1>2, <1>3, <1>4, <1>5, <1>6, LogAppended
<1>8. LogKnows(log', flushed, table, All(Sets(files_)))
  <2>1. PICK lg2, F : lg2 = log' /\ F = Sets(files_)
    OBVIOUS
  <2>2. LogKnows(lg2, flushed, table, All(F))
    BY <1>2, <1>3, <1>4, <1>5, <1>6, <2>1, LogAppendedKnows
  <2> QED
    BY <2>1, <2>2
<1>9. VersionOk(table, Sets(files_), q2)
  <2>1. PICK F, t : F = Sets(files_) /\ t = table
    OBVIOUS
  <2>2. ASSUME NEW f \in All(F), NEW i \in 1..Len(t[f].data), t[f].data[i].s <= q
        PROVE  t[f].data[i].s <= q2
    <3>1. IsFile(t, f)
      BY <1>3, <1>6, <2>1 DEF VersionOk, FilesOk, IsFile
    <3>2. t[f].data \in Seq(Keys)
      BY <3>1, FileIs
    <3>3. t[f].data[i] \in Keys
      BY <3>2
    <3>4. t[f].data[i].s \in Nat
      BY <3>3, KeyIs
    <3> QED
      BY <1>3, <1>5, <2>2, <3>4
  <2>3. SameFiles(t, t, All(F))
    BY <1>6, <2>1 DEF SameFiles, SameFile, VersionOk, FilesOk
  <2>4. VersionOk(t, F, q2)
    BY <1>6, <2>1, <2>2, <2>3, SameVersion
  <2> QED
    BY <2>1, <2>4
<1>10. TypeOK'
  BY <1>2, <1>5 DEF IInv, TypeOK
<1>11. VersionInv'
  BY <1>2, <1>5, <1>9 DEF IInv, VersionInv
<1>12. LogInv'
  BY <1>2, <1>5, <1>7, <1>8 DEF LogInv
<1>13. SeekInv'
  BY <1>2 DEF IInv, SeekInv
<1>14. GetsInv'
  BY <1>2 DEF IInv, GetsInv
<1>15. MergeInv'
  BY <1>2 DEF IInv, MergeInv
<1>16. OnlyRepeatsStop'
  BY <1>2 DEF Aborted, OnlyRepeatsStop
<1> QED
  BY <1>10, <1>11, <1>12, <1>13, <1>14, <1>15, <1>16 DEF IInv

\* The first memtable that waits, as a file.
LEMMA FlushedIs ==
  ASSUME NEW lg, NEW fl, NEW q \in Nat, LogOk(lg, fl, q), NEW n, n = fl + 1, n <= Len(lg), NEW x, x = NewTable(lg[n]),
         NEW t \in Seq(Tables), NEW F, VersionOk(t, F, q), LogKnows(lg, fl, t, All(F))
  PROVE  /\ n \in 1..Len(lg) /\ x \in Tables /\ WellFormed(x) /\ x.data = lg[n]
         /\ Latest(x, t, F, q)
         /\ LogOk(lg, n, q) /\ LogKnows(lg, n, t, All(F))
         /\ \A e : InLog(lg, n, e) => EntryKnown(lg, n, e)
<1>1. lg \in Seq(Seq(Keys)) /\ Len(lg) \in Nat /\ fl \in 0..Len(lg) /\ n \in 1..Len(lg) /\ fl \in Nat
  BY DEF LogOk
<1>2. lg[n] \in Seq(Keys) /\ lg[n] # <<>> /\ Ascending(lg[n])
  BY <1>1 DEF LogOk
<1>3. x \in Tables /\ WellFormed(x) /\ x.data = lg[n]
  BY <1>2, NewTableIs
<1>4. \A i \in 1..Len(lg) : \A p \in 1..Len(lg[i]) : lg[i][p].s \in Nat
  <2> TAKE i \in 1..Len(lg)
  <2> TAKE p \in 1..Len(lg[i])
  <2>1. lg[i] \in Seq(Keys)
    BY <1>1
  <2>2. lg[i][p] \in Keys
    BY <2>1
  <2> QED
    BY <2>2, KeyIs
<1>5. Latest(x, t, F, q)
  <2>1. \A i \in 1..Len(x.data) : x.data[i].s <= q
    BY <1>1, <1>3 DEF LogOk
  <2>2. \A i, j \in 1..Len(x.data) : x.data[i].s = x.data[j].s => x.data[i] = x.data[j]
    BY <1>1, <1>3 DEF LogOk
  <2>3. ASSUME NEW f \in All(F), NEW i \in 1..Len(x.data), NEW j \in 1..Len(t[f].data)
        PROVE  t[f].data[j].s < x.data[i].s
    <3>1. InFile(t, f, t[f].data[j]) /\ InLog(lg, n, x.data[i])
      BY <1>3 DEF InFile, InLog
    <3>2. EntryKnown(lg, fl, t[f].data[j]) /\ n > fl
      BY <1>1, <3>1 DEF LogKnows
    <3> QED
      BY <1>1, <3>1, <3>2 DEF EntryKnown
  <2> QED
    BY <2>1, <2>2, <2>3 DEF Latest
<1>6. LogOk(lg, n, q)
  <2>1. n \in 0..Len(lg)
    BY <1>1
  <2> QED
    BY <2>1 DEF LogOk
<1>7. \A e : EntryKnown(lg, fl, e) => EntryKnown(lg, n, e)
  <2>1. \A i \in 1..Len(lg) : i > n => i > fl
    BY <1>1
  <2> QED
    BY <2>1 DEF EntryKnown
<1>8. LogKnows(lg, n, t, All(F))
  BY <1>7 DEF LogKnows
<1>9. ASSUME NEW e, InLog(lg, n, e)
      PROVE  EntryKnown(lg, n, e)
  <2>1. PICK p \in 1..Len(lg[n]) : e = lg[n][p]
    BY <1>9 DEF InLog
  <2>2. e.s \in Nat /\ e.s >= e.s
    BY <1>1, <1>4, <2>1
  <2>3. ASSUME NEW i \in 1..Len(lg), NEW a, InLog(lg, i, a)
        PROVE  /\ a.s \in Nat /\ (i < n => a.s < e.s) /\ (i > n => e.s < a.s)
               /\ i = n /\ a.s = e.s => a = e
    <3>1. PICK r \in 1..Len(lg[i]) : a = lg[i][r]
      BY <2>3 DEF InLog
    <3>2. a.s \in Nat
      BY <1>4, <3>1
    <3>3. i < n => a.s < e.s
      BY <1>1, <2>1, <3>1 DEF LogOk
    <3>4. i > n => e.s < a.s
      <4>1. i > n => n < i
        BY <1>1
      <4> QED
        BY <1>1, <2>1, <3>1, <4>1 DEF LogOk
    <3>5. i = n /\ a.s = e.s => a = e
      BY <1>1, <2>1, <3>1 DEF LogOk
    <3> QED
      BY <3>2, <3>3, <3>4, <3>5
  <2>4. \A i \in 1..Len(lg) : i < n \/ i = n \/ i > n
    BY <1>1
  <2>5. \A i \in 1..Len(lg) : \A a : InLog(lg, i, a) /\ a.s = e.s => a = e
    BY <2>2, <2>3, <2>4
  <2>6. \A i \in 1..Len(lg) : \A a : InLog(lg, i, a) /\ i > n => e.s < a.s
    BY <2>3
  <2>7. \E i \in 1..Len(lg) : \E a : InLog(lg, i, a) /\ a.u = e.u /\ a.s >= e.s
    BY <1>1, <1>9, <2>2
  <2> QED
    BY <2>5, <2>6, <2>7 DEF EntryKnown
<1> QED
  BY <1>1, <1>3, <1>5, <1>6, <1>8, <1>9

LEMMA FlushStep ==
  ASSUME IInv, Flush
  PROVE  IInv'
<1>1. PICK q, F, t, lg, fl, n : /\ q = last_sequence_ /\ F = Sets(files_) /\ t = table
                               /\ lg = log /\ fl = flushed /\ n = fl + 1
  OBVIOUS
<1>2. PICK x, t2, new : x = NewTable(lg[n]) /\ t2 = Append(t, x) /\ new = Len(t) + 1
  OBVIOUS
<1>3. /\ bg \in {"idle", "merge"} /\ fl < Len(lg) /\ flushed' = n /\ log' = lg
      /\ last_sequence_' = q /\ table' = t2
      /\ Install(t2, [NoFiles EXCEPT ![0] = {Len(t2)}], NoFiles, compactor_pointer_, bg)
      /\ m' = m
  BY <1>1, <1>2 DEF Flush
<1>4. q \in Nat /\ q <= MaxSeq /\ t \in Seq(Tables) /\ GetsInv
  BY <1>1 DEF IInv, TypeOK
<1>5. VersionOk(t, F, q) /\ LogOk(lg, fl, q) /\ LogKnows(lg, fl, t, All(F))
  BY <1>1 DEF IInv, VersionInv, LogInv
<1>6. n <= Len(lg)
  BY <1>1, <1>3, <1>5 DEF LogOk
<1>7. /\ n \in 1..Len(lg) /\ x \in Tables /\ WellFormed(x) /\ x.data = lg[n]
      /\ Latest(x, t, F, q)
      /\ LogOk(lg, n, q) /\ LogKnows(lg, n, t, All(F))
      /\ \A e : InLog(lg, n, e) => EntryKnown(lg, n, e)
  <2>1. q \in Nat /\ t \in Seq(Tables) /\ n = fl + 1 /\ x = NewTable(lg[n])
    BY <1>1, <1>2, <1>4
  <2> QED
    BY ONLY SMTT(30), <1>5, <1>6, <2>1, FlushedIs
<1>8. Appended(t, t2, x, new)
  BY <1>2 DEF Appended
<1>9. /\ t2 \in Seq(Tables) /\ Len(t2) = new /\ Len(t) \in Nat /\ new = Len(t) + 1 /\ t2[new] = x
      /\ \A f \in 1..Len(t) : SameFile(t, t2, f)
  BY <1>4, <1>7, <1>8, AppendTable
<1>10. PICK F2 : F2 = [l \in Levels |-> IF l = 0 THEN F[0] \cup {new} ELSE F[l]]
  OBVIOUS
<1>11. F2[0] = F[0] \cup {new} /\ \A l \in Levels \ {0} : F2[l] = F[l]
  BY <1>10, LevelsAre
<1>12. /\ VersionOk(t2, F2, q) /\ VersionOk(t2, F, q) /\ SameFiles(t, t2, All(F))
       /\ \A f \in All(F) : Newer(t2, new, f) /\ f # new
       /\ All(F2) = All(F) \cup {new}
  BY <1>4, <1>5, <1>7, <1>8, <1>11, AddNewest
<1>13. \A l \in Levels : F2[l] = (ToSet(files_[l]) \ NoFiles[l]) \cup [NoFiles EXCEPT ![0] = {Len(t2)}][l]
  <2> TAKE l \in Levels
  <2>1. NoFiles[l] = {} /\ F[l] = ToSet(files_[l])
    BY <1>1, SetsAre DEF NoFiles
  <2>2. [NoFiles EXCEPT ![0] = {Len(t2)}][l] = IF l = 0 THEN {new} ELSE {}
    BY <1>9 DEF NoFiles
  <2> QED
    BY <1>11, <2>1, <2>2
<1>14. /\ \/ files_' = files_ /\ file_to_compact_' = file_to_compact_ /\ bg' = "overlap"
          \/ /\ files_' \in [Levels -> Seq(Nat)] /\ \A l \in Levels : ToSet(files_'[l]) = F2[l]
             /\ \A l \in Levels \ {0} : Spread(t2, files_'[l])
             /\ file_to_compact_' = NoSeek /\ bg' = bg
       /\ GetsInv'
  <2>1. PICK added, deleted, p, then : /\ added = [NoFiles EXCEPT ![0] = {Len(t2)}]
                                       /\ deleted = NoFiles /\ p = compactor_pointer_ /\ then = bg
    OBVIOUS
  <2>2. Install(t2, added, deleted, p, then)
    BY <1>3, <2>1
  <2>3. Edited(F2, added, deleted)
    <3>1. \A l \in Levels : F2[l] = (ToSet(files_[l]) \ deleted[l]) \cup added[l]
      BY <1>13, <2>1
    <3> QED
      BY <1>10, <3>1 DEF Edited
  <2>4. t2 \in Seq(Tables) /\ VersionOk(t2, F2, q)
    BY <1>9, <1>12
  <2>5. /\ \/ files_' = files_ /\ file_to_compact_' = file_to_compact_ /\ bg' = "overlap"
           \/ /\ files_' \in [Levels -> Seq(Nat)] /\ \A l \in Levels : ToSet(files_'[l]) = F2[l]
              /\ \A l \in Levels \ {0} : Spread(t2, files_'[l])
              /\ file_to_compact_' = NoSeek /\ bg' = then
        /\ GetsInv'
    BY <1>4, <2>2, <2>3, <2>4, InstallEffect
  <2> QED
    BY <2>1, <2>5
<1>15. table' \in Seq(Tables) /\ last_sequence_' \in Nat /\ last_sequence_' <= MaxSeq /\ last_sequence_' = q
  BY <1>3, <1>4, <1>9
<1>16. LogKnows(lg, n, t2, All(F)) /\ LogKnows(lg, n, t2, All(F2))
  <2>1. LogKnows(lg, n, t2, All(F))
    BY <1>7, <1>12, LogSame
  <2>2. \A e : InFile(t2, new, e) => InLog(lg, n, e)
    BY <1>7, <1>9 DEF InFile, InLog
  <2> QED
    BY <1>7, <1>12, <2>1, <2>2 DEF LogKnows
<1>17. OnlyRepeatsStop'
  BY <1>3, <1>14 DEF OnlyRepeatsStop
<1>18. CASE files_' = files_ /\ file_to_compact_' = file_to_compact_ /\ bg' = "overlap"
  <2>1. TypeOK'
    BY <1>15, <1>18 DEF IInv, TypeOK, States
  <2>2. VersionInv'
    <3>1. \A l \in Levels \ {0} : Spread(t2, files_[l])
      BY <1>1, <1>5, <1>12, SpreadKept DEF IInv, TypeOK, VersionInv
    <3> QED
      BY <1>1, <1>3, <1>12, <1>15, <1>18, <3>1 DEF VersionInv
  <2>3. SeekInv'
    BY <1>18 DEF IInv, SeekInv
  <2>4. MergeInv'
    BY <1>18 DEF MergeInv
  <2>5. LogInv'
    BY <1>1, <1>3, <1>7, <1>15, <1>18, <1>16 DEF LogInv
  <2> QED
    BY <1>14, <1>17, <2>1, <2>2, <2>3, <2>4, <2>5 DEF IInv
<1>19. CASE /\ files_' \in [Levels -> Seq(Nat)] /\ \A l \in Levels : ToSet(files_'[l]) = F2[l]
            /\ \A l \in Levels \ {0} : Spread(t2, files_'[l])
            /\ file_to_compact_' = NoSeek /\ bg' = bg
  <2>1. TypeOK'
    BY <1>15, <1>19 DEF IInv, TypeOK
  <2>2. Sets(files_') = F2
    BY <1>10, <1>19 DEF Sets
  <2>3. VersionInv'
    BY <1>3, <1>12, <1>15, <1>19, <2>2 DEF VersionInv
  <2>4. SeekInv'
    BY <1>19 DEF SeekInv
  <2>7. LogInv'
    BY <1>3, <1>7, <1>15, <1>16, <2>2 DEF LogInv
  <2>5. ASSUME bg = "merge"
        PROVE  /\ InputsOk(m.c, t2, F2) /\ ListOk(m.list, t2, Inputs(m.c))
               /\ OutputsOk(m.outputs, m.list, t2, Inputs(m.c), F2)
    <3>1. /\ InputsOk(m.c, t, F) /\ ListOk(m.list, t, Inputs(m.c))
          /\ OutputsOk(m.outputs, m.list, t, Inputs(m.c), F)
      BY <1>1, <2>5 DEF IInv, MergeInv
    <3>2. \A o \in 1..Len(m.outputs) : m.outputs[o] \in 1..Len(t) /\ m.outputs[o] \notin All(F)
      BY <3>1 DEF OutputsOk
    <3>3. \A o \in 1..Len(m.outputs) : SameFile(t, t2, m.outputs[o]) /\ m.outputs[o] \notin All(F2)
      BY <1>9, <1>12, <3>2
    <3>4. \A l \in Levels : F[l] \subseteq F2[l]
      BY <1>11
    <3>5. \A f \in F2[0] \ F[0], g \in F[0] : Newer(t2, f, g)
      BY <1>11, <1>12, InAll, LevelsAre
    <3> QED
      BY <1>12, <3>1, <3>3, <3>4, <3>5, MergeKept
  <2>6. MergeInv'
    BY <1>3, <1>19, <2>2, <2>5 DEF IInv, MergeInv
  <2> QED
    BY <1>14, <1>17, <2>1, <2>3, <2>4, <2>6, <2>7 DEF IInv
<1> QED
  BY <1>14, <1>18, <1>19

----------------------------------------------------------------------------
(* Version::Get: the binary search, and the files that are searched.       *)

IsSearch(fs, k, n, f) ==
  f = [i \in 0..n |-> IF i = 0 THEN [lo |-> 0, hi |-> Len(fs)] ELSE Narrow(fs, k, f[i - 1])]

LEMMA SearchExists ==
  ASSUME NEW fs, NEW k, NEW n \in Nat
  PROVE  \E f : IsSearch(fs, k, n, f)
<1> DEFINE Bad == {i \in Nat : ~ \E f : IsSearch(fs, k, i, f)}
<1>1. SUFFICES ASSUME Bad # {}
               PROVE  FALSE
  OBVIOUS
<1>2. PICK b \in Bad : \A i \in Bad : b <= i
  <2>1. Bad \in SUBSET Nat
    OBVIOUS
  <2> HIDE DEF Bad
  <2> QED
    BY <1>1, <2>1, LeastNatural
<1>3. b # 0
  <2>1. IsSearch(fs, k, 0, [i \in 0..0 |-> [lo |-> 0, hi |-> Len(fs)]])
    BY DEF IsSearch
  <2> QED
    BY <2>1
<1>4. b - 1 \in Nat /\ b - 1 \notin Bad
  BY <1>2, <1>3
<1>5. PICK g : IsSearch(fs, k, b - 1, g)
  BY <1>4
<1> DEFINE f == [i \in 0..b |-> IF i < b THEN g[i] ELSE Narrow(fs, k, g[b - 1])]
<1>6. IsSearch(fs, k, b, f)
  <2>1. \A i \in 0..(b - 1) : g[i] = IF i = 0 THEN [lo |-> 0, hi |-> Len(fs)] ELSE Narrow(fs, k, g[i - 1])
    BY <1>5 DEF IsSearch
  <2>2. ASSUME NEW i \in 0..b
        PROVE  f[i] = IF i = 0 THEN [lo |-> 0, hi |-> Len(fs)] ELSE Narrow(fs, k, f[i - 1])
    <3>1. CASE i = 0
      BY <3>1, <2>1, <1>3
    <3>2. CASE i # 0
      <4>1. f[i - 1] = g[i - 1]
        BY <3>2
      <4>2. f[i] = Narrow(fs, k, g[i - 1])
        <5>1. CASE i < b
          BY <5>1, <2>1, <3>2
        <5>2. CASE i = b
          BY <5>2
        <5> QED
          BY <5>1, <5>2
      <4> QED
        BY <4>1, <4>2, <3>2
    <3> QED
      BY <3>1, <3>2
  <2>3. f = [i \in 0..b |-> f[i]]
    OBVIOUS
  <2> HIDE DEF f
  <2> QED
    BY <2>2, <2>3 DEF IsSearch
<1> QED
  BY <1>6

\* The largest user keys of the files do not descend.
Climbs(t, fs) ==
  /\ \A i \in 1..Len(fs) : t[fs[i]].largest.u \in Nat
  /\ \A i, j \in 1..Len(fs) : i < j => t[fs[i]].largest.u <= t[fs[j]].largest.u

\* After i turns: what is left of the range, and what was found out of it.
Ends(fs, k, r, i) ==
  /\ r.lo <= r.hi /\ (r.lo < r.hi => r.hi - r.lo + i <= Len(fs))
  /\ \A j \in 1..r.lo : table[fs[j]].largest.u < k
  /\ r.hi < Len(fs) => k <= table[fs[r.hi + 1]].largest.u
Ranges(fs) == [lo : 0..Len(fs), hi : 0..Len(fs)]

LEMMA NarrowIs ==
  ASSUME NEW fs, Len(fs) \in Nat, Climbs(table, fs), NEW k \in Nat, NEW r \in Ranges(fs), NEW i \in Nat,
         Ends(fs, k, r, i)
  PROVE  Narrow(fs, k, r) \in Ranges(fs) /\ Ends(fs, k, Narrow(fs, k, r), i + 1)
<1>1. PICK lo, hi, n : lo = r.lo /\ hi = r.hi /\ n = Len(fs)
  OBVIOUS
<1>2. lo \in Nat /\ hi \in Nat /\ n \in Nat /\ lo <= hi /\ hi <= n /\ (lo < hi => hi - lo + i <= n)
  BY <1>1 DEF Ends, Ranges
<1>3. PICK mid : mid = (lo + hi) \div 2
  OBVIOUS
<1>4. mid \in Nat /\ (lo < hi => lo <= mid /\ mid < hi)
  BY <1>2, <1>3
<1>5. CASE lo >= hi
  <2>1. Narrow(fs, k, r) = r
    BY <1>1, <1>2, <1>5 DEF Narrow
  <2>2. r.lo <= r.hi /\ ~(r.lo < r.hi)
    BY <1>1, <1>2, <1>5
  <2>3. Ends(fs, k, r, i + 1)
    BY <2>2 DEF Ends
  <2> QED
    BY <2>1, <2>3
<1>6. CASE lo < hi /\ k > table[fs[mid + 1]].largest.u
  <2>1. PICK x : x = Narrow(fs, k, r)
    OBVIOUS
  <2>2. x = [r EXCEPT !.lo = mid + 1]
    BY <1>1, <1>2, <1>3, <1>6, <2>1 DEF Narrow
  <2>3. x.lo = mid + 1 /\ x.hi = hi /\ mid + 1 \in 0..n /\ x \in Ranges(fs)
    BY <1>1, <1>2, <1>4, <1>6, <2>2 DEF Ranges
  <2>4. ASSUME NEW j \in 1..(mid + 1)
        PROVE  table[fs[j]].largest.u < k
    <3>1. j \in 1..Len(fs) /\ mid + 1 \in 1..Len(fs)
      BY <1>1, <1>2, <1>4, <1>6
    <3>2. table[fs[j]].largest.u \in Nat /\ table[fs[mid + 1]].largest.u \in Nat
      BY <3>1 DEF Climbs
    <3>3. j < mid + 1 => table[fs[j]].largest.u <= table[fs[mid + 1]].largest.u
      BY <3>1 DEF Climbs
    <3>4. j = mid + 1 \/ j < mid + 1
      BY <1>4
    <3> QED
      BY <1>6, <3>2, <3>3, <3>4
  <2>5. x.lo <= x.hi /\ (x.lo < x.hi => x.hi - x.lo + (i + 1) <= Len(fs))
    BY <1>1, <1>2, <1>4, <1>6, <2>3
  <2>6. x.hi < Len(fs) => k <= table[fs[x.hi + 1]].largest.u
    BY <1>1, <2>3 DEF Ends
  <2>7. Ends(fs, k, x, i + 1)
    BY <2>3, <2>4, <2>5, <2>6 DEF Ends
  <2> QED
    BY <2>1, <2>3, <2>7
<1>7. CASE lo < hi /\ ~(k > table[fs[mid + 1]].largest.u)
  <2>1. PICK x : x = Narrow(fs, k, r)
    OBVIOUS
  <2>2. x = [r EXCEPT !.hi = mid]
    BY <1>1, <1>2, <1>3, <1>7, <2>1 DEF Narrow
  <2>3. x.lo = lo /\ x.hi = mid /\ mid \in 0..n /\ x \in Ranges(fs)
    BY <1>1, <1>2, <1>4, <1>7, <2>2 DEF Ranges
  <2>4. mid + 1 \in 1..Len(fs)
    BY <1>1, <1>2, <1>4, <1>7
  <2>5. table[fs[mid + 1]].largest.u \in Nat
    BY <2>4 DEF Climbs
  <2>6. k <= table[fs[mid + 1]].largest.u
    BY <1>7, <2>5
  <2>7. x.lo <= x.hi /\ (x.lo < x.hi => x.hi - x.lo + (i + 1) <= Len(fs))
    BY <1>1, <1>2, <1>4, <1>7, <2>3
  <2>8. \A j \in 1..x.lo : table[fs[j]].largest.u < k
    BY <1>1, <2>3 DEF Ends
  <2>9. Ends(fs, k, x, i + 1)
    BY <2>3, <2>6, <2>7, <2>8 DEF Ends
  <2> QED
    BY <2>1, <2>3, <2>9
<1> QED
  BY <1>2, <1>5, <1>6, <1>7

\* FindFile: the first file whose largest user key is not below k.
LEMMA FindFileIs ==
  ASSUME NEW fs, Len(fs) \in Nat, Climbs(table, fs), NEW k \in Nat
  PROVE  /\ FindFile(fs, k) \in 0..Len(fs)
         /\ \A j \in 1..FindFile(fs, k) : table[fs[j]].largest.u < k
         /\ FindFile(fs, k) < Len(fs) => k <= table[fs[FindFile(fs, k) + 1]].largest.u
<1> DEFINE n == Len(fs)
           f == CHOOSE f : f = [i \in 0..n |-> IF i = 0 THEN [lo |-> 0, hi |-> n] ELSE Narrow(fs, k, f[i - 1])]
<1>1. IsSearch(fs, k, n, f)
  BY SearchExists DEF IsSearch
<1>2. FindFile(fs, k) = f[n].hi
  BY DEF FindFile
<1> HIDE DEF f
<1>3. \A i \in 0..n : f[i] = IF i = 0 THEN [lo |-> 0, hi |-> n] ELSE Narrow(fs, k, f[i - 1])
  BY <1>1 DEF IsSearch
<1> DEFINE Bad == {i \in 0..n : ~(f[i] \in Ranges(fs) /\ Ends(fs, k, f[i], i))}
<1>4. Bad = {}
  <2>1. SUFFICES ASSUME Bad # {}
                 PROVE  FALSE
    OBVIOUS
  <2>2. PICK b \in Bad : \A i \in Bad : b <= i
    <3>1. Bad \in SUBSET Nat
      OBVIOUS
    <3> HIDE DEF Bad
    <3> QED
      BY <2>1, <3>1, LeastNatural
  <2>3. b # 0
    <3>1. f[0] = [lo |-> 0, hi |-> n]
      BY <1>3
    <3>2. f[0] \in Ranges(fs) /\ Ends(fs, k, f[0], 0)
      BY <3>1 DEF Ranges, Ends
    <3> QED
      BY <3>2
  <2>4. b - 1 \in 0..n /\ b \in 0..n /\ b - 1 \in Nat /\ ~(b <= b - 1)
    BY <2>3
  <2>5. f[b - 1] \in Ranges(fs) /\ Ends(fs, k, f[b - 1], b - 1)
    BY <2>2, <2>4
  <2>6. f[b] = Narrow(fs, k, f[b - 1])
    BY <2>3, <2>4, <1>3
  <2>7. PICK r, i : r = f[b - 1] /\ i = b - 1
    OBVIOUS
  <2>8. r \in Ranges(fs) /\ i \in Nat /\ Ends(fs, k, r, i)
    BY <2>4, <2>5, <2>7
  <2>9. Narrow(fs, k, r) \in Ranges(fs) /\ Ends(fs, k, Narrow(fs, k, r), i + 1)
    BY <2>8, NarrowIs
  <2>10. i + 1 = b
    BY <2>4, <2>7
  <2> QED
    BY <2>6, <2>7, <2>9, <2>10
<1>5. f[n] \in Ranges(fs) /\ Ends(fs, k, f[n], n)
  BY <1>4
<1>6. PICK r : r = f[n]
  OBVIOUS
<1>7. r.lo \in Nat /\ r.hi \in 0..n /\ r.lo = r.hi
  BY <1>5, <1>6 DEF Ranges, Ends
<1> QED
  BY <1>2, <1>5, <1>6, <1>7 DEF Ends

\* Files that follow each other climb.
LEMMA SpreadClimbs ==
  ASSUME NEW t, NEW fs, \A i \in 1..Len(fs) : IsFile(t, fs[i]), Spread(t, fs)
  PROVE  Climbs(t, fs)
<1>1. ASSUME NEW i \in 1..Len(fs)
      PROVE  /\ t[fs[i]].largest \in Keys /\ t[fs[i]].smallest \in Keys
             /\ t[fs[i]].largest.u \in Nat /\ t[fs[i]].smallest.u \in Nat
             /\ t[fs[i]].smallest.u <= t[fs[i]].largest.u
  <2>1. IsFile(t, fs[i])
    OBVIOUS
  <2>2. t[fs[i]].largest \in Keys /\ t[fs[i]].smallest \in Keys /\ InFile(t, fs[i], t[fs[i]].largest)
    BY <2>1, FileIs
  <2>3. t[fs[i]].smallest.u <= t[fs[i]].largest.u
    BY <2>1, <2>2, EntryIs
  <2> QED
    BY <2>2, <2>3, KeyIs
<1>2. ASSUME NEW i \in 1..Len(fs), NEW j \in 1..Len(fs), i < j
      PROVE  t[fs[i]].largest.u <= t[fs[j]].largest.u
  <2>1. Less(t[fs[i]].largest, t[fs[j]].smallest)
    BY <1>2 DEF Spread
  <2>2. t[fs[i]].largest.u <= t[fs[j]].smallest.u
    BY <1>1, <2>1, LessUser
  <2>3. t[fs[j]].smallest.u <= t[fs[j]].largest.u
    BY <1>1
  <2> QED
    BY <1>1, <2>2, <2>3
<1> QED
  BY <1>1, <1>2 DEF Climbs

\* The files of the version, their levels.
LEMMA LevelFiles ==
  ASSUME IInv, NEW l \in Levels
  PROVE  /\ files_[l] \in Seq(Nat) /\ Len(files_[l]) \in Nat
         /\ \A f \in ToSet(files_[l]) : IsFile(table, f) /\ f \in All(Sets(files_))
         /\ \A i \in 1..Len(files_[l]) : files_[l][i] \in ToSet(files_[l])
         /\ l # 0 => Spread(table, files_[l]) /\ Climbs(table, files_[l])
<1>1. files_[l] \in Seq(Nat) /\ table \in Seq(Tables)
  BY DEF IInv, TypeOK
<1>2. \A f \in ToSet(files_[l]) : f \in All(Sets(files_))
  BY InAll, SetsAre
<1>3. \A f \in ToSet(files_[l]) : IsFile(table, f)
  BY <1>1, <1>2 DEF IInv, VersionInv, VersionOk, FilesOk, IsFile
<1>4. \A i \in 1..Len(files_[l]) : files_[l][i] \in ToSet(files_[l])
  BY <1>1 DEF ToSet
<1>5. ASSUME l # 0
      PROVE  Spread(table, files_[l]) /\ Climbs(table, files_[l])
  <2>1. Spread(table, files_[l])
    BY <1>5 DEF IInv, VersionInv
  <2>2. \A i \in 1..Len(files_[l]) : IsFile(table, files_[l][i])
    BY <1>3, <1>4
  <2> QED
    BY <2>1, <2>2, SpreadClimbs
<1> QED
  BY <1>1, <1>2, <1>3, <1>4, <1>5

IsSearched(c, b) == c = [file |-> c.file, level |-> c.level] /\ c.file \in 0..b /\ c.level \in Nat

\* ForEachFile: files at their levels, below level 0 one of each.
LEMMA Candidates ==
  ASSUME IInv, NEW k \in UserKeys
  PROVE  /\ \A c \in ForEachFile(k) : /\ IsSearched(c, Len(table))
                                      /\ c.level \in Levels /\ c.file \in ToSet(files_[c.level])
         /\ \A c, d \in ForEachFile(k) : c.level = d.level /\ c.level # 0 => c = d
<1> DEFINE at(l) == files_[l][FindFile(files_[l], k) + 1]
           deeper == {l \in 1..(NumLevels - 1) :
                        FindFile(files_[l], k) < Len(files_[l]) /\ table[at(l)].smallest.u <= k}
           top == {g \in ToSet(files_[0]) : Covers(g, k)}
<1>1. ForEachFile(k) = {[file |-> f, level |-> 0] : f \in top} \cup {[file |-> at(l), level |-> l] : l \in deeper}
  BY DEF ForEachFile
<1>2. k \in Nat
  BY ConstantsAre
<1>3. ASSUME NEW l \in deeper
      PROVE  l \in Levels /\ l # 0 /\ at(l) \in ToSet(files_[l])
  <2>1. l \in Levels /\ l # 0
    BY ConstantsAre DEF Levels
  <2>2. Len(files_[l]) \in Nat /\ Climbs(table, files_[l])
    BY <2>1, LevelFiles
  <2>3. FindFile(files_[l], k) \in 0..Len(files_[l])
    BY <1>2, <2>2, FindFileIs
  <2>4. FindFile(files_[l], k) + 1 \in 1..Len(files_[l])
    BY <2>2, <2>3
  <2> QED
    BY <2>1, <2>4, LevelFiles
<1>4. \A f \in top : f \in ToSet(files_[0])
  OBVIOUS
<1> HIDE DEF at, deeper, top
<1>5. ASSUME NEW l \in Levels, NEW f \in ToSet(files_[l])
      PROVE  f \in 0..Len(table)
  <2>1. IsFile(table, f)
    BY LevelFiles
  <2>2. table \in Seq(Tables)
    BY DEF IInv, TypeOK
  <2> QED
    BY <2>1, <2>2 DEF IsFile
<1>6. ASSUME NEW c \in ForEachFile(k)
      PROVE  /\ IsSearched(c, Len(table)) /\ c.level \in Levels /\ c.file \in ToSet(files_[c.level])
             /\ c.level # 0 => c = [file |-> at(c.level), level |-> c.level]
  <2>1. CASE \E f \in top : c = [file |-> f, level |-> 0]
    <3>1. PICK f \in top : c = [file |-> f, level |-> 0]
      BY <2>1
    <3>2. c.level = 0 /\ c.file = f /\ f \in ToSet(files_[0])
      BY <1>4, <3>1
    <3> QED
      BY <1>5, <3>1, <3>2, LevelsAre DEF IsSearched
  <2>2. CASE \E l \in deeper : c = [file |-> at(l), level |-> l]
    <3>1. PICK l \in deeper : c = [file |-> at(l), level |-> l]
      BY <2>2
    <3>2. c.level = l /\ c.file = at(l) /\ l \in Levels /\ l # 0 /\ at(l) \in ToSet(files_[l])
      BY <1>3, <3>1
    <3>3. at(l) \in 0..Len(table) /\ l \in Nat
      BY <1>5, <3>2, LevelsAre
    <3> QED
      BY <3>1, <3>2, <3>3 DEF IsSearched
  <2> QED
    BY <1>1, <2>1, <2>2
<1> QED
  BY <1>6

\* The search has a first file.
LEMMA FirstSearchedIs ==
  ASSUME NEW C, C # {}, NEW b \in Nat, \A c \in C : IsSearched(c, b)
  PROVE  FirstSearched(C) \in C /\ \A d \in C \ {FirstSearched(C)} : SearchedBefore(FirstSearched(C), d)
<1> DEFINE L == {l \in Nat : \E c \in C : l = c.level}
<1>1. L # {} /\ L \in SUBSET Nat
  BY DEF IsSearched
<1>2. PICK l \in L : \A k \in L : l <= k
  <2> HIDE DEF L
  <2> QED
    BY <1>1, LeastNatural
<1>3. \A c \in C : l <= c.level /\ c.level \in Nat /\ c.file \in Nat /\ c.file <= b
  BY <1>2 DEF IsSearched
<1>4. l \in Nat /\ \E c \in C : l = c.level
  OBVIOUS
<1> HIDE DEF L
<1> DEFINE S == {f \in Nat : \E c \in C : l = c.level /\ f = c.file}
<1>5. S # {} /\ S \in SUBSET Nat /\ \A s \in S : s <= b
  BY <1>3, <1>4
<1>6. Max(S) \in S /\ \A s \in S : s <= Max(S)
  <2> HIDE DEF S
  <2> QED
    BY <1>5, MaxOf
<1>7. PICK x : x = Max(S)
  OBVIOUS
<1>8. PICK c \in C : l = c.level /\ x = c.file
  BY <1>6, <1>7
<1>9. ASSUME NEW d \in C \ {c}
      PROVE  SearchedBefore(c, d)
  <2>1. l <= d.level /\ d.level \in Nat /\ d.file \in Nat
    BY <1>3
  <2>2. CASE l = d.level
    <3>1. d.file <= x
      BY <1>6, <1>7, <2>1, <2>2
    <3>2. d.file # x
      <4>1. IsSearched(d, b) /\ IsSearched(c, b)
        OBVIOUS
      <4> QED
        BY <1>8, <1>9, <2>2, <4>1 DEF IsSearched
    <3> QED
      BY <1>3, <1>8, <2>1, <2>2, <3>1, <3>2 DEF SearchedBefore
  <2>3. CASE l # d.level
    BY <1>4, <1>8, <2>1, <2>3 DEF SearchedBefore
  <2> QED
    BY <2>2, <2>3
<1>10. \E a \in C : \A d \in C \ {a} : SearchedBefore(a, d)
  BY <1>9
<1> QED
  BY <1>10 DEF FirstSearched

\* The file charged with a seek has a level below its own.
LEMMA SeekFileIs ==
  ASSUME IInv, NEW k \in UserKeys, SeekFile(k) # NoSeek
  PROVE  /\ SeekFile(k).level \in 0..(NumLevels - 2)
         /\ SeekFile(k).file \in ToSet(files_[SeekFile(k).level])
         /\ SeekFile(k) \in [file : Nat, level : Int]
<1> DEFINE C == ForEachFile(k)
<1>1. PICK first : first = FirstSearched(C)
  OBVIOUS
<1>2. SeekFile(k) = first /\ \E c \in C : c # first
  BY <1>1 DEF SeekFile
<1>3. PICK c \in C : c # first
  BY <1>2
<1>4. Len(table) \in Nat
  BY DEF IInv, TypeOK
<1>5. first \in C /\ \A d \in C \ {first} : SearchedBefore(first, d)
  BY <1>1, <1>3, <1>4, Candidates, FirstSearchedIs
<1>6. /\ first.level \in Levels /\ c.level \in Levels /\ first.file \in ToSet(files_[first.level])
      /\ first.level = c.level /\ first.level # 0 => first = c
  BY <1>3, <1>5, Candidates
<1>7. SearchedBefore(first, c)
  BY <1>3, <1>5
<1>8. first.level < c.level \/ first.level = c.level
  BY <1>7 DEF SearchedBefore
<1>9. first.level \in 0..(NumLevels - 2)
  BY <1>3, <1>6, <1>8, ConstantsAre DEF Levels
<1>10. first \in [file : Nat, level : Int]
  <2>1. IsSearched(first, Len(table))
    BY <1>5, Candidates
  <2>2. first = [file |-> first.file, level |-> first.level] /\ first.file \in Nat /\ first.level \in Int
    BY <1>4, <2>1 DEF IsSearched
  <2>3. PICK a, b : a = first.file /\ b = first.level
    OBVIOUS
  <2>4. [file |-> a, level |-> b] \in [file : Nat, level : Int]
    BY <2>2, <2>3
  <2> QED
    BY <2>2, <2>3, <2>4
<1> QED
  BY <1>2, <1>6, <1>9, <1>10

\* The files are the same but for the seeks they are allowed.
SeeksOnly(t, t2) == t2 \in Seq(Tables) /\ Len(t2) = Len(t) /\ \A f \in 1..Len(t) : SameFile(t, t2, f)

LEMMA SeeksChanged ==
  ASSUME NEW t \in Seq(Tables), NEW f \in 1..Len(t), NEW n \in Nat, NEW t2,
         t2 = [t EXCEPT ![f].allow_seeks = n]
  PROVE  SeeksOnly(t, t2)
<1>1. Len(t) \in Nat /\ DOMAIN t = 1..Len(t) /\ \A g \in 1..Len(t) : t[g] \in Tables
  OBVIOUS
<1>2. ASSUME NEW g \in 1..Len(t)
      PROVE  t2[g] = IF g = f THEN [t[g] EXCEPT !.allow_seeks = n] ELSE t[g]
  BY <1>1
<1>3. ASSUME NEW g \in 1..Len(t)
      PROVE  /\ t2[g] \in Tables /\ t2[g].data = t[g].data
             /\ t2[g].smallest = t[g].smallest /\ t2[g].largest = t[g].largest
  <2>1. t[g] \in Tables
    BY <1>1
  <2>2. CASE g = f
    <3>1. t2[g] = [t[g] EXCEPT !.allow_seeks = n]
      BY <1>2, <2>2
    <3> QED
      BY ONLY <2>1, <3>1, n \in Nat DEF Tables
  <2>3. CASE g # f
    BY <1>2, <2>1, <2>3
  <2> QED
    BY <2>2, <2>3
<1>4. DOMAIN t2 = 1..Len(t) /\ t2 = [g \in 1..Len(t) |-> t2[g]]
  BY <1>1
<1>5. t2 \in [1..Len(t) -> Tables]
  BY <1>3, <1>4
<1>6. t2 \in Seq(Tables) /\ Len(t2) = Len(t)
  BY <1>1, <1>5
<1> QED
  BY <1>3, <1>6 DEF SeeksOnly, SameFile

\* What only the seeks changed leaves the version and a running merge as they are.
LEMMA SeeksKeep ==
  ASSUME IInv, NEW t2, SeeksOnly(table, t2)
  PROVE  /\ SameFiles(table, t2, All(Sets(files_)))
         /\ VersionOk(t2, Sets(files_), last_sequence_)
         /\ \A l \in Levels \ {0} : Spread(t2, files_[l])
         /\ bg = "merge" =>
              /\ InputsOk(m.c, t2, Sets(files_)) /\ ListOk(m.list, t2, Inputs(m.c))
              /\ OutputsOk(m.outputs, m.list, t2, Inputs(m.c), Sets(files_))
<1>1. PICK F, t, q : F = Sets(files_) /\ t = table /\ q = last_sequence_
  OBVIOUS
<1>2. VersionOk(t, F, q)
  BY <1>1 DEF IInv, VersionInv
<1>3. SameFiles(t, t2, All(F))
  BY <1>1, <1>2 DEF VersionOk, FilesOk, SameFiles, SeeksOnly
<1>4. VersionOk(t2, F, q)
  BY <1>2, <1>3, SameVersion
<1>5. \A l \in Levels \ {0} : Spread(t2, files_[l])
  BY <1>1, <1>2, <1>3, SpreadKept DEF IInv, TypeOK, VersionInv
<1>6. ASSUME bg = "merge"
      PROVE  /\ InputsOk(m.c, t2, F) /\ ListOk(m.list, t2, Inputs(m.c))
             /\ OutputsOk(m.outputs, m.list, t2, Inputs(m.c), F)
  <2>1. /\ InputsOk(m.c, t, F) /\ ListOk(m.list, t, Inputs(m.c))
        /\ OutputsOk(m.outputs, m.list, t, Inputs(m.c), F)
    BY <1>1, <1>6 DEF IInv, MergeInv
  <2>2. \A o \in 1..Len(m.outputs) : SameFile(t, t2, m.outputs[o]) /\ m.outputs[o] \notin All(F)
    BY <1>1, <2>1 DEF OutputsOk, SeeksOnly
  <2> QED
    BY <1>3, <2>1, <2>2, MergeKept
<1> QED
  BY <1>1, <1>3, <1>4, <1>5, <1>6

LEMMA SearchVersionStep ==
  ASSUME IInv, NEW r \in Readers, NEW k \in UserKeys, SearchVersion(r, k)
  PROVE  IInv'
<1>1. PICK x, g : x = SeekFile(k) /\ g = [seek |-> x, current |-> TRUE]
  OBVIOUS
<1>2. /\ ~Aborted /\ x # NoSeek /\ gets' = [gets EXCEPT ![r] = g]
      /\ UNCHANGED <<table, files_, compactor_pointer_, file_to_compact_, log, flushed, last_sequence_, sessions, bg, m>>
  BY <1>1 DEF SearchVersion, logVars
<1>3. /\ x.level \in 0..(NumLevels - 2) /\ x.file \in ToSet(files_[x.level])
      /\ x \in [file : Nat, level : Int]
  BY <1>1, <1>2, SeekFileIs
<1>4. GetsInv'
  <2>1. g \in [seek : [file : Nat, level : Int], current : BOOLEAN] /\ g.seek = x
    BY <1>1, <1>3
  <2>2. gets' \in [Readers -> [seek : [file : Nat, level : Int], current : BOOLEAN]]
    BY <1>2, <2>1 DEF IInv, GetsInv
  <2>3. ASSUME NEW s \in Readers
        PROVE  GetOk(gets'[s], files_')
    <3>1. CASE s = r
      <4>1. gets'[s] = g
        BY <1>2, <3>1 DEF IInv, GetsInv
      <4> QED
        BY <1>2, <1>3, <2>1, <4>1 DEF GetOk
    <3>2. CASE s # r
      <4>1. gets'[s] = gets[s]
        BY <1>2, <3>2 DEF IInv, GetsInv
      <4> QED
        BY <1>2, <4>1 DEF IInv, GetsInv, GetOk
    <3> QED
      BY <3>1, <3>2
  <2> QED
    BY <2>2, <2>3 DEF GetsInv
<1>5. TypeOK' /\ VersionInv' /\ LogInv' /\ SeekInv' /\ MergeInv'
  BY <1>2 DEF IInv, TypeOK, VersionInv, LogInv, SeekInv, MergeInv
<1>6. OnlyRepeatsStop'
  BY <1>2 DEF Aborted, OnlyRepeatsStop
<1> QED
  BY <1>4, <1>5, <1>6 DEF IInv

LEMMA UpdateStatsStep ==
  ASSUME IInv, NEW r \in Readers, UpdateStats(r)
  PROVE  IInv'
<1>1. PICK seek, f, t2 : seek = gets[r].seek /\ f = seek.file /\ t2 = table'
  OBVIOUS
<1>2. PICK left : left = IF f \in ToSet(files_[seek.level]) /\ table[f].allow_seeks > 0
                         THEN table[f].allow_seeks - 1 ELSE 0
  OBVIOUS
<1>3. /\ ~Aborted /\ gets[r] # NoGet
      /\ t2 = IF f \in ToSet(files_[seek.level]) THEN [table EXCEPT ![f].allow_seeks = left] ELSE table
      /\ file_to_compact_' = IF ChargesCurrent(r) /\ left = 0 /\ file_to_compact_ = NoSeek
                             THEN seek ELSE file_to_compact_
      /\ gets' = [gets EXCEPT ![r] = NoGet]
      /\ UNCHANGED <<files_, compactor_pointer_, log, flushed, last_sequence_, sessions, bg, m>>
  BY <1>1, <1>2 DEF UpdateStats, logVars
<1>4. seek.level \in 0..(NumLevels - 2) /\ (gets[r].current => seek.file \in ToSet(files_[seek.level]))
  BY <1>1, <1>3 DEF IInv, GetsInv, GetOk
<1>5. seek.level \in Levels /\ table \in Seq(Tables)
  BY <1>4, LevelsAre DEF IInv, TypeOK
<1>6. SeeksOnly(table, t2)
  <2>1. CASE f \in ToSet(files_[seek.level])
    <3>1. IsFile(table, f)
      BY <1>5, <2>1, LevelFiles
    <3>2. f \in 1..Len(table)
      BY <3>1 DEF IsFile
    <3>3. table[f] \in Tables
      BY <1>5, <3>2
    <3>4. table[f].allow_seeks \in Nat
      BY <3>3 DEF Tables
    <3>5. left \in Nat
      BY <1>2, <3>4
    <3> QED
      BY <1>3, <1>5, <2>1, <3>2, <3>5, SeeksChanged
  <2>2. CASE f \notin ToSet(files_[seek.level])
    <3>1. t2 = table
      BY <1>3, <2>2
    <3> QED
      BY <1>5, <3>1 DEF SeeksOnly, SameFile
  <2> QED
    BY <2>1, <2>2
<1>7. /\ SameFiles(table, t2, All(Sets(files_)))
      /\ VersionOk(t2, Sets(files_), last_sequence_)
      /\ \A l \in Levels \ {0} : Spread(t2, files_[l])
      /\ bg = "merge" =>
           /\ InputsOk(m.c, t2, Sets(files_)) /\ ListOk(m.list, t2, Inputs(m.c))
           /\ OutputsOk(m.outputs, m.list, t2, Inputs(m.c), Sets(files_))
  BY <1>6, SeeksKeep
<1>8. TypeOK'
  BY <1>1, <1>3, <1>6 DEF IInv, TypeOK, SeeksOnly
<1>9. VersionInv'
  BY <1>1, <1>3, <1>7 DEF VersionInv
<1>10. LogInv'
  <2>1. LogKnows(log, flushed, t2, All(Sets(files_)))
    BY <1>7, LogSame DEF IInv, LogInv
  <2> QED
    BY <1>1, <1>3, <2>1 DEF IInv, LogInv
<1>11. SeekInv'
  <2>1. CASE ChargesCurrent(r) /\ left = 0 /\ file_to_compact_ = NoSeek
    <3>1. file_to_compact_' = seek /\ seek.file \in ToSet(files_[seek.level])
      BY <1>3, <1>4, <2>1 DEF ChargesCurrent
    <3> QED
      BY <1>3, <1>4, <3>1 DEF SeekInv
  <2>2. CASE ~(ChargesCurrent(r) /\ left = 0 /\ file_to_compact_ = NoSeek)
    <3>1. file_to_compact_' = file_to_compact_
      BY <1>3, <2>2
    <3> QED
      BY <1>3, <3>1 DEF IInv, SeekInv
  <2> QED
    BY <2>1, <2>2
<1>12. GetsInv'
  <2>1. NoGet \in [seek : [file : Nat, level : Int], current : BOOLEAN]
    BY DEF NoGet, NoSeek
  <2>2. gets' \in [Readers -> [seek : [file : Nat, level : Int], current : BOOLEAN]]
    BY <1>3, <2>1 DEF IInv, GetsInv
  <2>3. \A s \in Readers : gets'[s] = NoGet \/ gets'[s] = gets[s]
    BY <1>3 DEF IInv, GetsInv
  <2>4. \A s \in Readers : GetOk(gets'[s], files_')
    BY <1>3, <2>3 DEF IInv, GetsInv, GetOk
  <2> QED
    BY <2>2, <2>4 DEF GetsInv
<1>13. MergeInv'
  BY <1>1, <1>3, <1>7 DEF IInv, MergeInv
<1>14. OnlyRepeatsStop'
  BY <1>3 DEF Aborted, OnlyRepeatsStop
<1> QED
  BY <1>8, <1>9, <1>10, <1>11, <1>12, <1>13, <1>14 DEF IInv

----------------------------------------------------------------------------
(* VersionSet::PickCompaction: the level.                                  *)

\* A product keeps the order of its factors.
LEMMA ProductIs ==
  ASSUME NEW a \in Nat, NEW b \in Nat
  PROVE  a * b \in Nat /\ (a > 0 /\ b > 0 => a * b > 0)
OBVIOUS

LEMMA ProductGrows ==
  ASSUME NEW a \in Nat, NEW b \in Nat, NEW c \in Nat
  PROVE  /\ a <= b => a * c <= b * c
         /\ a < b /\ c > 0 => a * c < b * c
<1>1. ASSUME a <= b
      PROVE  a * c <= b * c
  <2>1. PICK d \in Nat : b = a + d
    <3>1. b - a \in Nat /\ b = a + (b - a)
      BY <1>1
    <3> QED
      BY <3>1
  <2>2. b * c = a * c + d * c
    BY <2>1
  <2>3. d * c \in Nat /\ a * c \in Nat
    BY ProductIs
  <2> QED
    BY <2>2, <2>3
<1>2. ASSUME a < b, c > 0
      PROVE  a * c < b * c
  <2>1. PICK d \in Nat : b = a + d /\ d > 0
    <3>1. b - a \in Nat /\ b = a + (b - a) /\ b - a > 0
      BY <1>2
    <3> QED
      BY <3>1
  <2>2. b * c = a * c + d * c
    BY <2>1
  <2>3. d * c \in Nat /\ d * c > 0 /\ a * c \in Nat
    BY <1>2, <2>1, ProductIs
  <2> QED
    BY <2>2, <2>3
<1> QED
  BY <1>1, <1>2

LEMMA ProductSwaps ==
  ASSUME NEW a \in Nat, NEW b \in Nat, NEW c \in Nat
  PROVE  (a * b) * c = (a * c) * b /\ (a * b) * c = (b * c) * a
OBVIOUS

\* If a/p <= b/q and b/q < c/r then a/p < c/r.
LEMMA FractionsTrans ==
  ASSUME NEW a \in Nat, NEW b \in Nat, NEW c \in Nat, NEW p \in Nat, NEW q \in Nat, NEW r \in Nat,
         p > 0, q > 0, r > 0, a * q <= b * p, b * r < c * q
  PROVE  a * r < c * p
<1>1. /\ a * q \in Nat /\ b * p \in Nat /\ b * r \in Nat /\ c * q \in Nat /\ a * r \in Nat /\ c * p \in Nat
  BY ProductIs
<1>2. (a * q) * r <= (b * p) * r
  BY <1>1, ProductGrows
<1>3. (b * r) * p < (c * q) * p
  BY <1>1, ProductGrows
<1>4. (a * q) * r = (a * r) * q
  BY ProductSwaps
<1>5. (b * p) * r = (b * r) * p
  BY ProductSwaps
<1>6. (c * q) * p = (c * p) * q
  BY ProductSwaps
<1>7. PICK x, y : x = a * r /\ y = c * p
  OBVIOUS
<1>8. x \in Nat /\ y \in Nat /\ x * q \in Nat /\ y * q \in Nat
  BY <1>1, <1>7, ProductIs
<1>9. x * q < y * q
  <2>1. PICK u, v, w, z : u = (a * q) * r /\ v = (b * p) * r /\ w = (b * r) * p /\ z = (c * q) * p
    OBVIOUS
  <2>2. u \in Nat /\ v \in Nat /\ w \in Nat /\ z \in Nat
    BY <1>1, <2>1, ProductIs
  <2>3. u <= v /\ v = w /\ w < z
    BY <1>2, <1>3, <1>5, <2>1
  <2>4. u < z
    BY <2>2, <2>3
  <2> QED
    BY <1>4, <1>6, <1>7, <2>1, <2>4
<1>10. y <= x => y * q <= x * q
  BY <1>8, ProductGrows
<1>11. x < y
  BY <1>8, <1>9, <1>10
<1> QED
  BY <1>7, <1>11

IsLimit(n, f) == f = [l \in 0..n |-> IF l <= 1 THEN LevelBase ELSE LevelFactor * f[l - 1]]

LEMMA LimitExists ==
  ASSUME NEW n \in Nat
  PROVE  \E f : IsLimit(n, f)
<1> DEFINE Bad == {i \in Nat : ~ \E f : IsLimit(i, f)}
<1>1. SUFFICES ASSUME Bad # {}
               PROVE  FALSE
  OBVIOUS
<1>2. PICK b \in Bad : \A i \in Bad : b <= i
  <2>1. Bad \in SUBSET Nat
    OBVIOUS
  <2> HIDE DEF Bad
  <2> QED
    BY <1>1, <2>1, LeastNatural
<1>3. b # 0
  <2>1. IsLimit(0, [l \in 0..0 |-> LevelBase])
    BY DEF IsLimit
  <2> QED
    BY <2>1
<1>4. b - 1 \in Nat /\ b - 1 \notin Bad
  BY <1>2, <1>3
<1>5. PICK g : IsLimit(b - 1, g)
  BY <1>4
<1> DEFINE next(l, h) == IF l <= 1 THEN LevelBase ELSE LevelFactor * h[l - 1]
           f == [l \in 0..b |-> IF l < b THEN g[l] ELSE next(b, g)]
<1>6. IsLimit(b, f)
  <2>1. \A l \in 0..(b - 1) : g[l] = next(l, g)
    BY <1>5 DEF IsLimit
  <2>2. ASSUME NEW l \in 0..b
        PROVE  f[l] = next(l, f)
    <3>1. CASE l <= 1
      <4>1. CASE l < b
        BY <2>1, <3>1, <4>1
      <4>2. CASE l = b
        BY <3>1, <4>2
      <4> QED
        BY <4>1, <4>2
    <3>2. CASE ~(l <= 1)
      <4>1. l - 1 \in 0..b /\ l - 1 < b
        BY <3>2
      <4>2. f[l - 1] = g[l - 1]
        BY <4>1
      <4>3. f[l] = next(l, g)
        <5>1. CASE l < b
          BY <5>1, <2>1
        <5>2. CASE l = b
          BY <5>2
        <5> QED
          BY <5>1, <5>2
      <4> QED
        BY <3>2, <4>2, <4>3
    <3> QED
      BY <3>1, <3>2
  <2>3. f = [l \in 0..b |-> f[l]]
    OBVIOUS
  <2> HIDE DEF f
  <2> QED
    BY <2>2, <2>3 DEF IsLimit
<1> QED
  BY <1>6

LEMMA LevelMaxSizeIs ==
  ASSUME NEW level \in Nat
  PROVE  LevelMaxSize(level) \in Nat /\ LevelMaxSize(level) > 0
<1> DEFINE f == CHOOSE f : f = [l \in 0..level |-> IF l <= 1 THEN LevelBase ELSE LevelFactor * f[l - 1]]
<1>1. IsLimit(level, f)
  BY LimitExists DEF IsLimit
<1>2. LevelMaxSize(level) = f[level]
  BY DEF LevelMaxSize
<1> HIDE DEF f
<1>3. \A l \in 0..level : f[l] = IF l <= 1 THEN LevelBase ELSE LevelFactor * f[l - 1]
  BY <1>1 DEF IsLimit
<1> DEFINE Bad == {l \in 0..level : ~(f[l] \in Nat /\ f[l] > 0)}
<1>4. LevelBase \in Nat /\ LevelBase > 0 /\ LevelFactor \in Nat /\ LevelFactor > 0
  BY ConstantsAre
<1>5. Bad = {}
  <2>1. SUFFICES ASSUME Bad # {}
                 PROVE  FALSE
    OBVIOUS
  <2>2. PICK b \in Bad : \A i \in Bad : b <= i
    <3>1. Bad \in SUBSET Nat
      OBVIOUS
    <3> HIDE DEF Bad
    <3> QED
      BY <2>1, <3>1, LeastNatural
  <2>3. ~(b <= 1)
    BY <1>3, <1>4
  <2>4. b - 1 \in 0..level /\ b \in 0..level /\ ~(b <= b - 1)
    BY <2>3
  <2>5. f[b - 1] \in Nat /\ f[b - 1] > 0
    BY <2>2, <2>4
  <2>6. f[b] = LevelFactor * f[b - 1]
    BY <1>3, <2>3, <2>4
  <2>7. PICK x : x = f[b - 1]
    OBVIOUS
  <2>8. LevelFactor * x \in Nat /\ LevelFactor * x > 0
    BY <1>4, <2>5, <2>7, ProductIs
  <2> QED
    BY <2>6, <2>7, <2>8
<1>6. level \in 0..level
  OBVIOUS
<1> QED
  BY <1>2, <1>5, <1>6

\* The entries of a set of files of the version, counted.
LEMMA TotalFileSizeIs ==
  ASSUME IInv, NEW S, S \subseteq All(Sets(files_))
  PROVE  /\ TotalFileSize(S) \in Nat
         /\ TotalFileSize(S) > 0 => S # {}
<1> DEFINE part(f) == {f} \X (1..Len(table[f].data))
           P == {part(f) : f \in S}
           g == [f \in S |-> part(f)]
<1>1. TotalFileSize(S) = Cardinality(UNION P)
  BY DEF TotalFileSize
<1>2. \A f \in S : IsFile(table, f)
  BY DEF IInv, TypeOK, VersionInv, VersionOk, FilesOk, IsFile
<1>3. IsFiniteSet(S)
  <2>1. VersionOk(table, Sets(files_), last_sequence_) /\ table \in Seq(Tables)
    BY DEF IInv, TypeOK, VersionInv
  <2>2. FileSet(table, S)
    BY <2>1, VersionFiles
  <2> QED
    BY <2>2, FileSetFinite
<1>4. ASSUME NEW f \in S
      PROVE  IsFiniteSet(part(f))
  <2>1. PICK n : n = Len(table[f].data)
    OBVIOUS
  <2>2. n \in Nat
    BY <1>2, <2>1, FileIs
  <2>3. IsFiniteSet(1..n)
    <3>1. 1 \in Int /\ n \in Int
      BY <2>2
    <3> QED
      BY ONLY <3>1, FS_Interval
  <2>4. IsFiniteSet({f})
    BY ONLY FS_Singleton
  <2> QED
    BY <2>1, <2>3, <2>4, FS_Product
<1>5. S = {} => UNION P = {}
  OBVIOUS
<1> HIDE DEF part
<1>6. g \in Surjection(S, P)
  BY DEF Surjection
<1>7. IsFiniteSet(P) /\ \A T \in P : IsFiniteSet(T)
  BY <1>3, <1>4, <1>6, FS_Surjection
<1> HIDE DEF P, g
<1>8. IsFiniteSet(UNION P)
  BY <1>7, FS_UNION
<1>9. Cardinality(UNION P) \in Nat /\ (Cardinality(UNION P) > 0 => UNION P # {})
  BY <1>8, FS_CardinalityType, FS_EmptySet
<1> QED
  BY <1>1, <1>5, <1>9

LEMMA ScoreIs ==
  ASSUME IInv, NEW l \in Levels
  PROVE  /\ Score(l).n \in Nat /\ Score(l).d \in Nat /\ Score(l).d > 0
         /\ Score(l).n >= Score(l).d => files_[l] # <<>>
<1>1. l \in Nat /\ files_[l] \in Seq(Nat) /\ Len(files_[l]) \in Nat
  BY LevelFiles, LevelsAre
<1>2. CASE l = 0
  <2>1. Score(l) = [n |-> Len(files_[0]) \div L0Threshold, d |-> 1]
    BY <1>2 DEF Score
  <2>2. L0Threshold \in Nat /\ L0Threshold > 0
    BY ConstantsAre
  <2>3. PICK n, k : n = Len(files_[0]) /\ k = L0Threshold
    OBVIOUS
  <2>4. n \in Nat /\ k \in Nat /\ k > 0
    BY <1>1, <1>2, <2>2, <2>3
  <2>5. n \div k \in Nat /\ (n = 0 => n \div k = 0)
    BY <2>4
  <2>6. Score(l).n = n \div k /\ Score(l).d = 1
    BY <2>1, <2>3
  <2>7. Score(l).n >= Score(l).d => n # 0
    BY <2>4, <2>5, <2>6
  <2>8. files_[l] = <<>> => n = 0
    BY <1>2, <2>3
  <2> QED
    BY <2>5, <2>6, <2>7, <2>8
<1>3. CASE l # 0
  <2>1. Score(l).n = TotalFileSize(ToSet(files_[l])) /\ Score(l).d = LevelMaxSize(l)
    BY <1>3 DEF Score
  <2>2. ToSet(files_[l]) \subseteq All(Sets(files_))
    BY LevelFiles
  <2>3. /\ Score(l).n \in Nat
        /\ Score(l).n > 0 => ToSet(files_[l]) # {}
    BY <2>1, <2>2, TotalFileSizeIs
  <2>4. Score(l).d \in Nat /\ Score(l).d > 0
    BY <1>1, <2>1, LevelMaxSizeIs
  <2>5. files_[l] = <<>> => ToSet(files_[l]) = {}
    BY DEF ToSet
  <2> QED
    BY <2>3, <2>4, <2>5
<1> QED
  BY <1>2, <1>3

\* The scores of the levels up to n have a first maximum.
FirstHighest(l, n) ==
  /\ l \in 0..n
  /\ \A k \in 0..n : Score(k).n * Score(l).d <= Score(l).n * Score(k).d
  /\ \A k \in 0..(l - 1) : Score(k).n * Score(l).d < Score(l).n * Score(k).d

LEMMA HighestExists ==
  ASSUME IInv, NEW n \in Levels
  PROVE  \E l : FirstHighest(l, n)
<1> DEFINE Bad == {i \in Levels : ~ \E l : FirstHighest(l, i)}
<1>1. SUFFICES ASSUME Bad # {}
               PROVE  FALSE
  OBVIOUS
<1>2. PICK b \in Bad : \A i \in Bad : b <= i
  <2>1. Bad \in SUBSET Nat
    BY LevelsAre
  <2> HIDE DEF Bad
  <2> QED
    BY <1>1, <2>1, LeastNatural
<1>3. b \in Nat /\ b \in Levels /\ 0 \in Levels /\ \A k \in 0..b : k \in Levels
  BY LevelsAre, ConstantsAre
<1>4. \A k \in 0..b : Score(k).n \in Nat /\ Score(k).d \in Nat /\ Score(k).d > 0
  BY <1>3, ScoreIs
<1>5. b # 0
  <2>1. FirstHighest(0, 0)
    <3>1. Score(0).n \in Nat /\ Score(0).d \in Nat
      BY <1>3, <1>4
    <3>2. PICK x, y : x = Score(0).n /\ y = Score(0).d
      OBVIOUS
    <3>3. x * y \in Nat
      BY <3>1, <3>2, ProductIs
    <3>4. x * y <= x * y
      BY <3>3
    <3> QED
      BY <3>2, <3>4 DEF FirstHighest
  <2> QED
    BY <1>2, <2>1
<1>6. b - 1 \in Levels /\ b - 1 \notin Bad /\ b - 1 \in Nat
  BY <1>2, <1>3, <1>5
<1>7. PICK l : FirstHighest(l, b - 1)
  BY <1>6
<1>8. l \in 0..(b - 1) /\ l \in 0..b /\ b \in 0..b
  BY <1>3, <1>7 DEF FirstHighest
<1>9. CASE Score(b).n * Score(l).d <= Score(l).n * Score(b).d
  <2>1. \A k \in 0..b : k \in 0..(b - 1) \/ k = b
    BY <1>3
  <2>2. FirstHighest(l, b)
    BY <1>7, <1>8, <1>9, <2>1 DEF FirstHighest
  <2> QED
    BY <1>2, <2>2
<1>10. CASE ~(Score(b).n * Score(l).d <= Score(l).n * Score(b).d)
  <2>1. PICK bn, bd, ln, ld : bn = Score(b).n /\ bd = Score(b).d /\ ln = Score(l).n /\ ld = Score(l).d
    OBVIOUS
  <2>2. bn \in Nat /\ bd \in Nat /\ ln \in Nat /\ ld \in Nat /\ bd > 0 /\ ld > 0
    BY <1>4, <1>8, <2>1
  <2>3. bn * ld \in Nat /\ ln * bd \in Nat
    BY <2>2, ProductIs
  <2>4. ln * bd < bn * ld
    BY <1>10, <2>1, <2>3
  <2>5. ASSUME NEW k \in 0..(b - 1)
        PROVE  Score(k).n * Score(b).d < Score(b).n * Score(k).d
    <3>1. PICK kn, kd : kn = Score(k).n /\ kd = Score(k).d
      OBVIOUS
    <3>2. kn \in Nat /\ kd \in Nat /\ kd > 0
      BY <1>3, <1>4, <3>1
    <3>3. kn * ld <= ln * kd
      BY <1>7, <2>1, <3>1 DEF FirstHighest
    <3>4. kn * bd < bn * kd
      BY <2>2, <2>4, <3>2, <3>3, FractionsTrans
    <3> QED
      BY <2>1, <3>1, <3>4
  <2>6. ASSUME NEW k \in 0..b
        PROVE  Score(k).n * Score(b).d <= Score(b).n * Score(k).d
    <3>1. PICK kn, kd : kn = Score(k).n /\ kd = Score(k).d
      OBVIOUS
    <3>2. kn \in Nat /\ kd \in Nat
      BY <1>4, <3>1
    <3>3. kn * bd \in Nat /\ bn * kd \in Nat
      BY <2>2, <3>2, ProductIs
    <3>4. k \in 0..(b - 1) => kn * bd < bn * kd
      BY <2>1, <2>5, <3>1
    <3>5. k = b => kn * bd = bn * kd
      BY <2>1, <2>2, <3>1
    <3>6. k \in 0..(b - 1) \/ k = b
      BY <1>3
    <3>7. kn * bd <= bn * kd
      BY <3>3, <3>4, <3>5, <3>6
    <3> QED
      BY <2>1, <3>1, <3>7
  <2>7. FirstHighest(b, b)
    BY <1>8, <2>5, <2>6 DEF FirstHighest
  <2> QED
    BY <1>2, <2>7
<1> QED
  BY <1>9, <1>10

\* A size compaction has a file to start from and a level below it.
LEMMA SizeCompactionIs ==
  ASSUME IInv, SizeCompaction, ~LevelTooDeep
  PROVE  CompactionLevel \in 0..(NumLevels - 2) /\ files_[CompactionLevel] # <<>>
<1>1. NumLevels - 1 \in Levels
  BY LevelsAre
<1>2. PICK l : FirstHighest(l, NumLevels - 1)
  BY <1>1, HighestExists
<1>3. /\ l \in Levels
      /\ \A k \in Levels : Score(k).n * Score(l).d <= Score(l).n * Score(k).d
      /\ \A k \in 0..(l - 1) : Score(k).n * Score(l).d < Score(l).n * Score(k).d
  BY <1>2 DEF FirstHighest, Levels
<1>4. CompactionLevel \in Levels
  BY <1>3 DEF CompactionLevel
<1>5. Score(CompactionLevel).n >= Score(CompactionLevel).d
  BY DEF SizeCompaction
<1>6. PICK c : c = CompactionLevel
  OBVIOUS
<1>7. c \in Levels /\ Score(c).n >= Score(c).d
  BY <1>4, <1>5, <1>6
<1>8. ~(c > L0Threshold) /\ c \in Nat
  BY <1>6, <1>7, LevelsAre DEF LevelTooDeep
<1>9. c \in 0..(NumLevels - 2)
  BY <1>8, ConstantsAre
<1>10. files_[c] # <<>>
  BY <1>7, ScoreIs
<1> QED
  BY <1>6, <1>9, <1>10

LEMMA NextInLevelIs ==
  ASSUME IInv, NEW l \in Levels, files_[l] # <<>>
  PROVE  NextInLevel(l) \in ToSet(files_[l])
<1> DEFINE P(f) == compactor_pointer_[l] = NoKey \/ Less(compactor_pointer_[l], table[f].largest)
           I == {j \in 1..Len(files_[l]) : P(files_[l][j])}
           i == SelectInSeq(files_[l], LAMBDA f : \/ compactor_pointer_[l] = NoKey
                                                  \/ Less(compactor_pointer_[l], table[f].largest))
<1>1. i = IF I # {} THEN Min(I) ELSE 0
  BY DEF SelectInSeq
<1>2. I # {} => Min(I) \in I
  <2>1. I \in SUBSET Nat
    OBVIOUS
  <2> HIDE DEF I
  <2> QED
    BY <2>1, MinOf
<1>3. NextInLevel(l) = files_[l][IF i = 0 THEN 1 ELSE i]
  BY DEF NextInLevel
<1>4. i = 0 \/ i \in 1..Len(files_[l])
  BY <1>1, <1>2
<1>5. files_[l] \in Seq(Nat) /\ 1 \in 1..Len(files_[l])
  BY LevelFiles
<1> HIDE DEF i
<1> QED
  BY <1>3, <1>4, <1>5, LevelFiles

----------------------------------------------------------------------------
(* VersionSet::PickCompaction: the inputs.                                 *)

NumberOrder(S) == {p \in S \X S : p[1] < p[2]}

LEMMA NumbersOrdered ==
  ASSUME NEW S, S \subseteq Nat
  PROVE  /\ IsOrder(S, NumberOrder(S))
         /\ \A a, b \in S : <<a, b>> \in NumberOrder(S) <=> a < b
<1>1. \A a, b \in S : <<a, b>> \in NumberOrder(S) <=> a < b
  BY DEF NumberOrder
<1>2. \A a \in S : a \in Nat
  OBVIOUS
<1> QED
  BY <1>1, <1>2 DEF IsOrder

\* A finite set of naturals has a greatest element.
LEMMA Greatest ==
  ASSUME NEW S, S \subseteq Nat, IsFiniteSet(S), S # {}
  PROVE  \E x0 \in S : \A y \in S : y <= x0
<1>1. PICK s : s = SortBy(S, NumberOrder(S))
  OBVIOUS
<1>2. /\ s \in Seq(S) /\ Len(s) = Cardinality(S) /\ ToSet(s) = S
      /\ \A i, j \in 1..Len(s) : i < j => <<s[i], s[j]>> \in NumberOrder(S)
  BY <1>1, NumbersOrdered, Sorted
<1>3. Len(s) \in Nat /\ Len(s) # 0
  BY <1>2, FS_EmptySet
<1>4. Len(s) \in 1..Len(s) /\ s[Len(s)] \in S
  BY <1>2, <1>3
<1>5. ASSUME NEW y \in S
      PROVE  y <= s[Len(s)]
  <2>1. PICK i \in 1..Len(s) : y = s[i]
    BY <1>2 DEF ToSet
  <2>2. y \in Nat /\ s[Len(s)] \in Nat
    BY <1>4
  <2>3. ASSUME i < Len(s)
        PROVE  s[i] < s[Len(s)]
    <3>1. <<y, s[Len(s)]>> \in NumberOrder(S)
      BY <1>2, <1>4, <2>1, <2>3
    <3>2. \A a, b \in S : <<a, b>> \in NumberOrder(S) <=> a < b
      BY NumbersOrdered
    <3> QED
      BY <1>4, <2>1, <3>1, <3>2
  <2>4. i = Len(s) \/ i < Len(s)
    BY <1>3
  <2> QED
    BY <2>1, <2>2, <2>3, <2>4
<1> QED
  BY <1>4, <1>5

LEMMA ImageFinite ==
  ASSUME NEW S, IsFiniteSet(S), NEW g, NEW T, T = {g[x] : x \in S}
  PROVE  IsFiniteSet(T)
<1> DEFINE h == [x \in S |-> g[x]]
<1>1. h \in [S -> T] /\ \A y \in T : \E x \in S : h[x] = y
  OBVIOUS
<1> HIDE DEF h
<1>2. h \in Surjection(S, T)
  BY <1>1 DEF Surjection
<1> QED
  BY <1>2, FS_Surjection

\* The smallest and the largest keys of files of the version.
LEMMA BoundsAre ==
  ASSUME IInv, NEW S, S \subseteq All(Sets(files_)), S # {}
  PROVE  /\ KeySet({table[f].smallest : f \in S}) /\ IsFiniteSet({table[f].smallest : f \in S})
         /\ KeySet({table[f].largest : f \in S}) /\ IsFiniteSet({table[f].largest : f \in S})
         /\ {table[f].smallest : f \in S} # {} /\ {table[f].largest : f \in S} # {}
<1>1. PICK F, t, q : F = Sets(files_) /\ t = table /\ q = last_sequence_
  OBVIOUS
<1>2. VersionOk(t, F, q) /\ t \in Seq(Tables) /\ S \subseteq All(F)
  BY <1>1 DEF IInv, VersionInv, TypeOK
<1>3. FileSet(t, S)
  BY <1>2, VersionFiles
<1>4. IsFiniteSet(S)
  BY <1>3, FileSetFinite
<1>5. ASSUME NEW f \in S
      PROVE  /\ t[f].smallest \in Keys /\ t[f].largest \in Keys
             /\ InFile(t, f, t[f].smallest) /\ InFile(t, f, t[f].largest)
  BY <1>3, FileIs DEF FileSet
<1>6. Unique(t, S)
  BY <1>3 DEF FileSet
<1>7. PICK lo, hi : lo = [f \in S |-> t[f].smallest] /\ hi = [f \in S |-> t[f].largest]
  OBVIOUS
<1>8. PICK A, B : A = {lo[f] : f \in S} /\ B = {hi[f] : f \in S}
  OBVIOUS
<1>9. IsFiniteSet(A) /\ IsFiniteSet(B)
  BY <1>4, <1>8, ImageFinite
<1>10. ASSUME NEW a \in A, NEW b \in A, a # b
       PROVE  a \in Keys /\ b \in Keys /\ a.s # b.s
  <2>1. PICK f \in S : a = t[f].smallest
    BY <1>7, <1>8
  <2>2. PICK g \in S : b = t[g].smallest
    BY <1>7, <1>8
  <2>3. InFile(t, f, a) /\ InFile(t, g, b) /\ a \in Keys /\ b \in Keys
    BY <1>5, <2>1, <2>2
  <2> QED
    BY <1>6, <1>10, <2>3, EntryOnce
<1>11. ASSUME NEW a \in B, NEW b \in B, a # b
       PROVE  a \in Keys /\ b \in Keys /\ a.s # b.s
  <2>1. PICK f \in S : a = t[f].largest
    BY <1>7, <1>8
  <2>2. PICK g \in S : b = t[g].largest
    BY <1>7, <1>8
  <2>3. InFile(t, f, a) /\ InFile(t, g, b) /\ a \in Keys /\ b \in Keys
    BY <1>5, <2>1, <2>2
  <2> QED
    BY <1>6, <1>11, <2>3, EntryOnce
<1>12. KeySet(A)
  <2>1. A \subseteq Keys
    BY <1>5, <1>7, <1>8
  <2> QED
    BY <1>10, <2>1 DEF KeySet
<1>13. KeySet(B)
  <2>1. B \subseteq Keys
    BY <1>5, <1>7, <1>8
  <2> QED
    BY <1>11, <2>1 DEF KeySet
<1>14. A = {table[f].smallest : f \in S} /\ B = {table[f].largest : f \in S}
  BY <1>1, <1>7, <1>8
<1>15. A # {} /\ B # {}
  BY <1>8
<1> QED
  BY <1>9, <1>12, <1>13, <1>14, <1>15

\* The range of files of the version is between user keys.
LEMMA GetRangeIs ==
  ASSUME IInv, NEW S, S \subseteq All(Sets(files_)), S # {}
  PROVE  /\ \E f \in S : GetRange(S).smallest = table[f].smallest
         /\ \E f \in S : GetRange(S).largest = table[f].largest
         /\ GetRange(S).smallest.u \in UserKeys /\ GetRange(S).largest.u \in UserKeys
<1>1. PICK A, B : A = {table[f].smallest : f \in S} /\ B = {table[f].largest : f \in S}
  OBVIOUS
<1>2. /\ KeySet(A) /\ IsFiniteSet(A) /\ A # {} /\ KeySet(B) /\ IsFiniteSet(B) /\ B # {}
  BY <1>1, BoundsAre
<1>3. LastKey(A) \in A /\ FirstKey(B) \in B
  BY <1>2, ExtremeKeys
<1>4. GetRange(S).smallest = LastKey(A) /\ GetRange(S).largest = FirstKey(B)
  BY <1>1 DEF GetRange
<1>5. LastKey(A) \in Keys /\ FirstKey(B) \in Keys
  BY <1>2, <1>3 DEF KeySet
<1>6. LastKey(A).u \in UserKeys /\ FirstKey(B).u \in UserKeys
  BY <1>5, KeyIs
<1> QED
  BY <1>1, <1>3, <1>4, <1>6

LEMMA ClosedIs ==
  ASSUME NEW range, NEW r \in ClosedRanges(0, range)
  PROVE  /\ r[1] \in UserKeys /\ r[2] \in UserKeys
         /\ r[1] <= range.smallest.u /\ r[2] >= range.largest.u
         /\ \A f \in ToSet(files_[0]) : Overlaps(f, r[1], r[2]) =>
              table[f].smallest.u >= r[1] /\ table[f].largest.u <= r[2]
BY DEF ClosedRanges

LEMMA FileBounds ==
  ASSUME IInv, NEW l \in Levels, NEW f \in ToSet(files_[l])
  PROVE  /\ table[f].smallest.u \in Nat /\ table[f].largest.u \in Nat
         /\ table[f].smallest.u \in UserKeys /\ table[f].largest.u \in UserKeys
         /\ table[f].smallest.u <= table[f].largest.u
         /\ \A e : InFile(table, f, e) => e \in Keys /\ e.u \in Nat /\ table[f].smallest.u <= e.u /\ e.u <= table[f].largest.u
<1>1. IsFile(table, f)
  BY LevelFiles
<1>2. table[f].smallest \in Keys /\ table[f].largest \in Keys /\ InFile(table, f, table[f].largest)
  BY <1>1, FileIs
<1>3. \A e : InFile(table, f, e) => e \in Keys /\ table[f].smallest.u <= e.u /\ e.u <= table[f].largest.u
  BY <1>1, EntryIs
<1> QED
  BY <1>2, <1>3, KeyIs

\* The range of all the user keys is closed.
LEMMA ClosedExists ==
  ASSUME IInv, NEW range, range.smallest.u \in UserKeys, range.largest.u \in UserKeys
  PROVE  ClosedRanges(0, range) # {}
<1>1. UserKeys \subseteq Nat /\ UserKeys # {} /\ IsFiniteSet(UserKeys)
  BY ConstantsAre
<1>2. PICK lo \in UserKeys : \A y \in UserKeys : lo <= y
  BY <1>1, LeastNatural
<1>3. PICK hi \in UserKeys : \A y \in UserKeys : y <= hi
  BY <1>1, Greatest
<1>4. ASSUME NEW f \in ToSet(files_[0])
      PROVE  table[f].smallest.u >= lo /\ table[f].largest.u <= hi
  <2>1. table[f].smallest.u \in UserKeys /\ table[f].largest.u \in UserKeys
    BY FileBounds, LevelsAre
  <2>2. lo <= table[f].smallest.u /\ table[f].largest.u <= hi
    BY <1>2, <1>3, <2>1
  <2> QED
    BY <1>1, <2>1, <2>2
<1>5. lo <= range.smallest.u /\ hi >= range.largest.u
  <2>1. lo <= range.smallest.u /\ range.largest.u <= hi /\ range.largest.u \in Nat /\ hi \in Nat
    BY <1>1, <1>2, <1>3
  <2> QED
    BY <2>1
<1>6. <<lo, hi>> \in ClosedRanges(0, range)
  BY <1>4, <1>5 DEF ClosedRanges
<1> QED
  BY <1>6

\* At level 0 the files that overlap are within one range, and the others out of it.
LEMMA OverlappingIs ==
  ASSUME IInv, NEW range, range.smallest.u \in UserKeys, range.largest.u \in UserKeys
  PROVE  \E lo, hi \in Nat :
           /\ lo <= range.smallest.u /\ hi >= range.largest.u
           /\ GetOverlappingFiles(0, range) = {f \in ToSet(files_[0]) : Overlaps(f, lo, hi)}
           /\ \A f \in ToSet(files_[0]) : Overlaps(f, lo, hi) =>
                table[f].smallest.u >= lo /\ table[f].largest.u <= hi
<1> DEFINE R == ClosedRanges(0, range)
           A == {r[1] : r \in R}
           B == {r[2] : r \in R}
<1>1. R # {}
  BY ClosedExists
<1>2. PICK lo, hi : lo = Max(A) /\ hi = Min(B)
  OBVIOUS
<1>3. GetOverlappingFiles(0, range) = {f \in ToSet(files_[0]) : Overlaps(f, lo, hi)}
  <2>1. lo = Max({r[1] : r \in R}) /\ hi = Min({r[2] : r \in R})
    BY ONLY <1>2
  <2> QED
    BY ONLY <2>1 DEF GetOverlappingFiles
<1>4. UserKeys \subseteq Nat
  BY ConstantsAre
<1>5. \A r \in R : r[1] \in Nat /\ r[2] \in Nat /\ r[1] <= range.smallest.u /\ r[2] >= range.largest.u
  BY <1>4, ClosedIs
<1>6. A \in SUBSET Nat /\ A # {} /\ B \in SUBSET Nat /\ B # {} /\ \A a \in A : a <= range.smallest.u
  BY <1>1, <1>5
<1>7. range.smallest.u \in Nat /\ range.largest.u \in Nat
  BY <1>4
<1>8. lo \in A /\ \A a \in A : a <= lo
  <2>1. PICK b : b = range.smallest.u
    OBVIOUS
  <2>2. b \in Nat /\ \A a \in A : a <= b
    BY <1>6, <1>7, <2>1
  <2> HIDE DEF A
  <2> QED
    BY <1>2, <1>6, <2>2, MaxOf
<1>9. hi \in B /\ \A b \in B : hi <= b
  <2> HIDE DEF B
  <2> QED
    BY <1>2, <1>6, MinOf
<1>10. PICK r1 \in R : lo = r1[1]
  BY <1>8
<1>11. PICK r2 \in R : hi = r2[2]
  BY <1>9
<1>12. lo \in Nat /\ hi \in Nat /\ r2[1] \in Nat /\ r1[2] \in Nat /\ r2[1] <= lo /\ hi <= r1[2]
  BY <1>5, <1>8, <1>9, <1>10, <1>11
<1>13. lo <= range.smallest.u /\ hi >= range.largest.u
  BY <1>5, <1>10, <1>11
<1> HIDE DEF A, B, R
<1>14. ASSUME NEW f \in ToSet(files_[0]), Overlaps(f, lo, hi)
       PROVE  table[f].smallest.u >= lo /\ table[f].largest.u <= hi
  <2>1. table[f].smallest.u \in Nat /\ table[f].largest.u \in Nat
    BY FileBounds, LevelsAre
  <2>2. table[f].smallest.u <= hi /\ table[f].largest.u >= lo
    BY <1>14 DEF Overlaps
  <2>3. Overlaps(f, r1[1], r1[2])
    BY <1>10, <1>12, <2>1, <2>2 DEF Overlaps
  <2>4. Overlaps(f, r2[1], r2[2])
    BY <1>11, <1>12, <2>1, <2>2 DEF Overlaps
  <2>5. table[f].smallest.u >= r1[1]
    BY <2>3, ClosedIs DEF R
  <2>6. table[f].largest.u <= r2[2]
    BY <2>4, ClosedIs DEF R
  <2> QED
    BY <1>10, <1>11, <2>5, <2>6
<1> QED
  BY <1>3, <1>12, <1>13, <1>14

\* The code's boundary inputs: none.
LEMMA NoBoundary ==
  ASSUME IInv, NEW l \in Levels, NEW S
  PROVE  AddBoundaryInputs(ToSet(files_[l]), S) = S
<1> DEFINE fs == ToSet(files_[l])
<1>1. CASE fs = {}
  BY <1>1 DEF AddBoundaryInputs
<1>2. CASE fs # {}
  <2>1. PICK B, last : B = {table[f].largest : f \in fs} /\ last = LastKey(B)
    OBVIOUS
  <2>2. fs \subseteq All(Sets(files_))
    BY LevelFiles
  <2>3. KeySet(B) /\ IsFiniteSet(B) /\ B # {}
    BY <1>2, <2>1, <2>2, BoundsAre
  <2>4. last \in B /\ \A b \in B \ {last} : Less(b, last)
    BY <2>1, <2>3, ExtremeKeys
  <2>5. B \subseteq Keys
    BY <2>3 DEF KeySet
  <2>6. ASSUME NEW f \in fs
        PROVE  ~Less(last, table[f].largest)
    <3>1. PICK b : b = table[f].largest
      OBVIOUS
    <3>2. b \in B
      BY <2>1, <3>1
    <3>3. b \in Keys /\ last \in Keys
      BY <2>4, <2>5, <3>2
    <3>4. b = last \/ Less(b, last)
      BY <2>4, <3>2
    <3>5. ~Less(last, b)
      BY <3>3, <3>4, LessIrreflexive
    <3> QED
      BY <3>1, <3>5
  <2>7. {f \in fs : Less(last, table[f].largest) /\ table[f].largest.u = last.u} = {}
    BY <2>6
  <2> QED
    BY <1>2, <2>1, <2>7 DEF AddBoundaryInputs
<1> QED
  BY <1>1, <1>2

\* The other files of level 0 have no user key of the inputs.
LEMMA Level0Closed ==
  ASSUME IInv, NEW range, range.smallest.u \in UserKeys, range.largest.u \in UserKeys,
         NEW S, S = AddBoundaryInputs(ToSet(files_[0]), GetOverlappingFiles(0, range))
  PROVE  /\ S \subseteq ToSet(files_[0])
         /\ \A f \in ToSet(files_[0]) \ S, g \in S : Newer(table, f, g)
         /\ \A f \in ToSet(files_[0]) :
              table[f].smallest = range.smallest /\ table[f].largest = range.largest => f \in S
<1>0. 0 \in Levels
  BY LevelsAre
<1>1. S = GetOverlappingFiles(0, range)
  BY <1>0, NoBoundary
<1>2. PICK lo, hi : /\ lo \in Nat /\ hi \in Nat
                    /\ lo <= range.smallest.u /\ hi >= range.largest.u
                    /\ S = {f \in ToSet(files_[0]) : Overlaps(f, lo, hi)}
                    /\ \A f \in ToSet(files_[0]) : Overlaps(f, lo, hi) =>
                         table[f].smallest.u >= lo /\ table[f].largest.u <= hi
  BY <1>1, OverlappingIs
<1>3. S \subseteq ToSet(files_[0])
  BY <1>2
<1>4. ASSUME NEW f \in ToSet(files_[0]) \ S, NEW g \in S
      PROVE  Newer(table, f, g)
  <2>1. ASSUME NEW a, NEW b, InFile(table, f, a), InFile(table, g, b)
        PROVE  a.u # b.u
    <3>1. g \in ToSet(files_[0]) /\ ~Overlaps(f, lo, hi) /\ Overlaps(g, lo, hi)
      BY <1>2
    <3>2. a.u \in Nat /\ table[f].smallest.u <= a.u /\ a.u <= table[f].largest.u
      BY <1>0, <2>1, FileBounds
    <3>3. b.u \in Nat /\ table[g].smallest.u <= b.u /\ b.u <= table[g].largest.u
      BY <1>0, <2>1, <3>1, FileBounds
    <3>4. table[g].smallest.u >= lo /\ table[g].largest.u <= hi
      BY <1>2, <3>1
    <3>5. ~(table[f].smallest.u <= hi /\ table[f].largest.u >= lo)
      BY <3>1 DEF Overlaps
    <3>6. /\ table[f].smallest.u \in Nat /\ table[f].largest.u \in Nat
          /\ table[g].smallest.u \in Nat /\ table[g].largest.u \in Nat
      BY <1>0, <3>1, FileBounds
    <3> QED
      BY <1>2, <3>2, <3>3, <3>4, <3>5, <3>6
  <2> QED
    BY <2>1 DEF Newer
<1>5. ASSUME NEW f \in ToSet(files_[0]), table[f].smallest = range.smallest, table[f].largest = range.largest
      PROVE  f \in S
  <2>1. /\ table[f].smallest.u \in Nat /\ table[f].largest.u \in Nat
        /\ table[f].smallest.u <= table[f].largest.u
    BY <1>0, FileBounds
  <2>2. Overlaps(f, lo, hi)
    BY <1>2, <1>5, <2>1 DEF Overlaps
  <2> QED
    BY <1>2, <2>2
<1> QED
  BY ONLY <1>3, <1>4, <1>5

LEMMA OverlappingInLevel ==
  ASSUME NEW l \in Levels, NEW range
  PROVE  GetOverlappingFiles(l, range) \subseteq ToSet(files_[l])
BY ONLY DEF GetOverlappingFiles

LEMMA GrowIs ==
  ASSUME IInv, NEW l \in 0..(NumLevels - 2), NEW first \in ToSet(files_[l])
  PROVE  InputsOk(Grow(l, first), table, Sets(files_))
<1> DEFINE own(range) == AddBoundaryInputs(ToSet(files_[l]), GetOverlappingFiles(l, range))
           below(range) == AddBoundaryInputs(ToSet(files_[l + 1]), GetOverlappingFiles(l + 1, range))
           input0 == IF l = 0 THEN own(GetRange({first})) ELSE AddBoundaryInputs(ToSet(files_[l]), {first})
           input1 == below(GetRange(input0))
           expand0 == own(GetRange(input0 \cup input1))
           expand1 == below(GetRange(expand0))
           grown == /\ input1 # {}
                    /\ TotalFileSize(expand0) > TotalFileSize(input0)
                    /\ TotalFileSize(expand0) < ExpandLimit
                    /\ Cardinality(expand1) = Cardinality(input1)
           inputs == IF grown THEN <<expand0, expand1>> ELSE <<input0, input1>>
           c == Grow(l, first)
<1>1. c.level = l /\ c.inputs = inputs
  BY DEF Grow
<1>2. l \in Levels /\ l + 1 \in Levels
  BY LevelsAre
<1>3. \A range : own(range) \subseteq ToSet(files_[l]) /\ below(range) \subseteq ToSet(files_[l + 1])
  BY <1>2, NoBoundary, OverlappingInLevel
<1>4. input0 \subseteq ToSet(files_[l])
  BY <1>2, <1>3, NoBoundary
<1>5. /\ input1 \subseteq ToSet(files_[l + 1]) /\ expand0 \subseteq ToSet(files_[l])
      /\ expand1 \subseteq ToSet(files_[l + 1])
  BY <1>3
<1>6. /\ ToSet(files_[l]) \subseteq All(Sets(files_)) /\ ToSet(files_[l + 1]) \subseteq All(Sets(files_))
  BY <1>2, LevelFiles
<1>7. ASSUME l = 0
      PROVE  /\ \A f \in ToSet(files_[0]) \ input0, g \in input0 : Newer(table, f, g)
             /\ \A f \in ToSet(files_[0]) \ expand0, g \in expand0 : Newer(table, f, g)
  <2>1. PICK S, r : S = {first} /\ r = GetRange(S)
    OBVIOUS
  <2>2. S \subseteq All(Sets(files_)) /\ S # {}
    BY <1>6, <2>1
  <2>3. /\ r.smallest = table[first].smallest /\ r.largest = table[first].largest
        /\ r.smallest.u \in UserKeys /\ r.largest.u \in UserKeys
    BY <2>1, <2>2, GetRangeIs
  <2>4. PICK I : I = input0
    OBVIOUS
  <2>5. I = AddBoundaryInputs(ToSet(files_[0]), GetOverlappingFiles(0, r))
    BY <1>7, <2>1, <2>4
  <2>6. first \in I /\ \A f \in ToSet(files_[0]) \ I, g \in I : Newer(table, f, g)
    BY <1>7, <2>3, <2>5, Level0Closed
  <2>7. PICK T, r2 : T = input0 \cup input1 /\ r2 = GetRange(T)
    OBVIOUS
  <2>8. T \subseteq All(Sets(files_)) /\ T # {}
    BY <1>4, <1>5, <1>6, <2>4, <2>6, <2>7
  <2>9. r2.smallest.u \in UserKeys /\ r2.largest.u \in UserKeys
    BY <2>7, <2>8, GetRangeIs
  <2>10. PICK X : X = expand0
    OBVIOUS
  <2>11. X = AddBoundaryInputs(ToSet(files_[0]), GetOverlappingFiles(0, r2))
    BY <1>7, <2>7, <2>10
  <2>12. \A f \in ToSet(files_[0]) \ X, g \in X : Newer(table, f, g)
    BY <2>9, <2>11, Level0Closed
  <2> QED
    BY <2>4, <2>6, <2>10, <2>12
<1> HIDE DEF input0, input1, expand0, expand1, grown, c
<1>8. \/ c.inputs[1] = expand0 /\ c.inputs[2] = expand1
      \/ c.inputs[1] = input0 /\ c.inputs[2] = input1
  BY <1>1
<1>9. c.inputs[1] \subseteq Sets(files_)[l] /\ c.inputs[2] \subseteq Sets(files_)[l + 1]
  BY <1>2, <1>4, <1>5, <1>8, SetsAre
<1>10. l = 0 => \A f \in Sets(files_)[0] \ c.inputs[1], g \in c.inputs[1] : Newer(table, f, g)
  BY <1>2, <1>7, <1>8, SetsAre
<1>11. InputsOk(c, table, Sets(files_))
  BY <1>1, <1>9, <1>10 DEF InputsOk
<1> QED
  BY <1>11 DEF c

LEMMA PickCompactionIs ==
  ASSUME IInv, NeedCompaction, ~LevelTooDeep
  PROVE  InputsOk(PickCompaction, table, Sets(files_))
<1>1. CASE SizeCompaction
  <2>1. PICK l : l = CompactionLevel
    OBVIOUS
  <2>2. l \in 0..(NumLevels - 2) /\ files_[l] # <<>>
    BY <1>1, <2>1, SizeCompactionIs
  <2>3. l \in Levels
    BY <2>2, LevelsAre
  <2>4. PICK first : first = NextInLevel(l)
    OBVIOUS
  <2>5. first \in ToSet(files_[l])
    BY <2>2, <2>3, <2>4, NextInLevelIs
  <2>6. InputsOk(Grow(l, first), table, Sets(files_))
    BY <2>2, <2>5, GrowIs
  <2> QED
    BY <1>1, <2>1, <2>4, <2>6 DEF PickCompaction
<1>2. CASE ~SizeCompaction
  <2>1. PICK l, first : l = file_to_compact_.level /\ first = file_to_compact_.file
    OBVIOUS
  <2>2. l \in 0..(NumLevels - 2) /\ first \in ToSet(files_[l])
    BY <1>2, <2>1 DEF NeedCompaction, IInv, SeekInv
  <2>3. InputsOk(Grow(l, first), table, Sets(files_))
    BY <2>2, GrowIs
  <2> QED
    BY <1>2, <2>1, <2>3 DEF PickCompaction
<1> QED
  BY <1>1, <1>2

----------------------------------------------------------------------------
(* Installing what replaces the inputs of a compaction.                    *)

\* F2 are the files F without the inputs, with the files O a level deeper.
Replaced(c, F, F2, O) ==
  \A k \in Levels : F2[k] = IF k = c.level THEN F[k] \ c.inputs[1]
                            ELSE IF k = c.level + 1 THEN (F[k] \ c.inputs[2]) \cup O ELSE F[k]

\* The files O hold entries of the files S.
MadeFrom(t, S, O) ==
  \A o \in O : o \in 1..Len(t) /\ WellFormed(t[o]) /\ \A e : InFile(t, o, e) => FromFiles(t, S, e)

LEMMA ReplacedIs ==
  ASSUME NEW t, NEW c, NEW F, NEW F2, NEW O, Apart(F), InputsOk(c, t, F), Replaced(c, F, F2, O),
         NEW k \in Levels, NEW f \in F2[k]
  PROVE  \/ f \in F[k] /\ f \in All(F) \ Inputs(c)
         \/ f \in O /\ k = c.level + 1 /\ k # 0
<1>1. c.level \in Levels /\ c.level + 1 \in Levels /\ c.level + 1 # c.level /\ c.level + 1 # 0
  BY LevelsAre DEF InputsOk
<1>2. c.inputs[1] \subseteq F[c.level] /\ c.inputs[2] \subseteq F[c.level + 1]
  BY DEF InputsOk
<1>3. \A g \in F[k] : g \in All(F)
  BY InAll
<1>4. \A j \in Levels : j # k => F[j] \cap F[k] = {}
  BY DEF Apart
<1>5. CASE k = c.level
  BY <1>1, <1>2, <1>3, <1>4, <1>5 DEF Replaced, Inputs
<1>6. CASE k = c.level + 1
  BY ZenonT(30), <1>1, <1>2, <1>3, <1>4, <1>6 DEF Replaced, Inputs
<1>7. CASE k # c.level /\ k # c.level + 1
  BY <1>1, <1>2, <1>3, <1>4, <1>7 DEF Replaced, Inputs
<1> QED
  BY <1>5, <1>6, <1>7

LEMMA ToppedOlder ==
  ASSUME NEW t \in Seq(Tables), NEW S, \A h \in S : IsFile(t, h), NEW a \in Keys, NEW b \in Keys,
         a.u = b.u, a.s >= b.s, Topped(t, S, a)
  PROVE  Topped(t, S, b)
<1>1. PICK h \in S : \E x : InFile(t, h, x) /\ x.u = a.u /\ x.s >= a.s
  BY DEF Topped
<1>2. PICK x : InFile(t, h, x) /\ x.u = a.u /\ x.s >= a.s
  BY <1>1
<1>3. x \in Keys
  BY <1>2, EntryIs
<1>4. x.s \in Nat /\ a.s \in Nat /\ b.s \in Nat
  BY <1>3, KeyIs
<1>5. x.s >= b.s /\ x.u = b.u
  BY <1>2, <1>4
<1> QED
  BY <1>2, <1>5 DEF Topped

\* What has topped an entry still does, or file f does, when each file that is taken away
\* is older than f.
LEMMA StillTopped ==
  ASSUME NEW t \in Seq(Tables), NEW S, NEW S2, \A h \in S : IsFile(t, h), NEW f \in S2, S2 \subseteq S,
         \A h \in S : h \in S2 \/ Newer(t, f, h), NEW b \in Keys, HasUser(t, f, b.u), Topped(t, S, b)
  PROVE  Topped(t, S2, b)
<1>1. PICK h \in S : \E x : InFile(t, h, x) /\ x.u = b.u /\ x.s >= b.s
  BY DEF Topped
<1>2. PICK a : InFile(t, h, a) /\ a.u = b.u /\ a.s >= b.s
  BY <1>1
<1>3. CASE h \in S2
  BY <1>2, <1>3 DEF Topped
<1>4. CASE Newer(t, f, h)
  <2>1. IsFile(t, f) /\ IsFile(t, h) /\ a \in Keys
    BY <1>2, EntryIs
  <2>2. HasUser(t, f, a.u)
    BY <1>2
  <2>3. Topped(t, S2, a)
    BY <1>2, <1>4, <2>1, <2>2, NewerTops
  <2>4. \A k \in S2 : IsFile(t, k)
    OBVIOUS
  <2> QED
    BY <1>2, <2>1, <2>3, <2>4, ToppedOlder
<1> QED
  BY <1>3, <1>4

LEMMA ReplacedOk ==
  ASSUME NEW t \in Seq(Tables), NEW c, NEW F, NEW F2, NEW O, NEW q, VersionOk(t, F, q), InputsOk(c, t, F),
         Replaced(c, F, F2, O), MadeFrom(t, Inputs(c), O), O \cap (All(F) \ Inputs(c)) = {}
  PROVE  VersionOk(t, F2, q)
<1>1. Apart(F) /\ FilesOk(t, F) /\ Unique(t, All(F)) /\ Known(t, F, q) /\ NewestOnTop(t, F)
  BY DEF VersionOk
<1>2. \A k \in Levels : \A f \in F2[k] : \/ f \in F[k] /\ f \in All(F) \ Inputs(c)
                                         \/ f \in O /\ k = c.level + 1 /\ k # 0
  BY <1>1, ReplacedIs
<1>3. \A f \in All(F2) : f \in All(F) \ Inputs(c) \/ f \in O
  BY <1>2, AllIs
<1>4. \A f \in Inputs(c) : f \in All(F)
  BY InputsInAll
<1>5. FilesOk(t, F2)
  BY <1>1, <1>3 DEF FilesOk, MadeFrom
<1>6. Apart(F2)
  <2>1. ASSUME NEW k \in Levels, NEW j \in Levels, k # j, NEW f \in F2[k], f \in F2[j]
        PROVE  FALSE
    <3>1. \/ f \in F[k] /\ f \in All(F) \ Inputs(c)
          \/ f \in O /\ k = c.level + 1
      BY <1>2
    <3>2. \/ f \in F[j] /\ f \in All(F) \ Inputs(c)
          \/ f \in O /\ j = c.level + 1
      BY <1>2, <2>1
    <3>3. F[k] \cap F[j] = {}
      BY <1>1, <2>1 DEF Apart
    <3> QED
      BY <2>1, <3>1, <3>2, <3>3
  <2> QED
    BY <2>1 DEF Apart
<1>7. ASSUME NEW f \in All(F2), NEW e, InFile(t, f, e)
      PROVE  \E g \in All(F) : InFile(t, g, e) /\ (f \in O => g \in Inputs(c)) /\ (f \notin O => g = f)
  <2>1. CASE f \in O
    BY <1>4, <1>7, <2>1 DEF MadeFrom, FromFiles
  <2>2. CASE f \notin O
    BY <1>3, <1>7, <2>2
  <2> QED
    BY <2>1, <2>2
<1>8. Unique(t, All(F2))
  <2>1. ASSUME NEW f \in All(F2), NEW g \in All(F2),
               NEW i \in 1..Len(t[f].data), NEW j \in 1..Len(t[g].data), t[f].data[i].s = t[g].data[j].s
        PROVE  t[f].data[i] = t[g].data[j]
    <3>1. PICK a, b : a = t[f].data[i] /\ b = t[g].data[j]
      OBVIOUS
    <3>2. InFile(t, f, a) /\ InFile(t, g, b) /\ a.s = b.s
      BY <2>1, <3>1 DEF InFile
    <3>3. (\E h \in All(F) : InFile(t, h, a)) /\ (\E h \in All(F) : InFile(t, h, b))
      BY <1>7, <3>2
    <3>4. a = b
      BY <1>1, <3>2, <3>3, EntryOnce
    <3> QED
      BY <3>1, <3>4
  <2> QED
    BY <2>1 DEF Unique
<1>9. Known(t, F2, q)
  <2>1. ASSUME NEW f \in All(F2), NEW i \in 1..Len(t[f].data)
        PROVE  t[f].data[i].s <= q
    <3>1. CASE f \in All(F)
      BY <1>1, <3>1 DEF Known
    <3>2. CASE f \in O
      <4>1. PICK b : b = t[f].data[i]
        OBVIOUS
      <4>2. InFile(t, f, b)
        BY <4>1 DEF InFile
      <4>3. PICK g \in Inputs(c) : InFile(t, g, b)
        BY <3>2, <4>2 DEF MadeFrom, FromFiles
      <4>4. PICK j \in 1..Len(t[g].data) : b = t[g].data[j]
        BY <4>3 DEF InFile
      <4>5. g \in All(F)
        BY <1>4
      <4>6. t[g].data[j].s <= q
        BY <1>1, <4>5 DEF Known
      <4> QED
        BY <4>1, <4>4, <4>6
    <3> QED
      BY <1>3, <3>1, <3>2
  <2> QED
    BY <2>1 DEF Known
<1>10. 0 \in Levels
  BY LevelsAre
<1>11. \A f \in F2[0] : f \in F[0] /\ f \in All(F) \ Inputs(c)
  BY <1>2, <1>10
<1>12. \A f \in All(F) : IsFile(t, f)
  BY <1>1 DEF FilesOk, IsFile
<1>13. ASSUME NEW f \in F2[0], NEW h \in F[0]
       PROVE  h \in F2[0] \/ Newer(t, f, h)
  <2>1. c.level \in Levels /\ c.level + 1 \in Levels /\ c.level + 1 # 0
    BY LevelsAre DEF InputsOk
  <2>2. F2[0] = IF 0 = c.level THEN F[0] \ c.inputs[1] ELSE F[0]
    BY <1>10, <2>1 DEF Replaced
  <2>3. CASE c.level = 0
    <3>1. F2[0] = F[0] \ c.inputs[1]
      BY <2>2, <2>3
    <3>2. \A x \in F[0] \ c.inputs[1], y \in c.inputs[1] : Newer(t, x, y)
      BY <2>3 DEF InputsOk
    <3> QED
      BY <3>1, <3>2
  <2>4. CASE c.level # 0
    BY <2>2, <2>4
  <2> QED
    BY <2>3, <2>4
<1>14. F2[0] \subseteq F[0] /\ \A f \in F[0] : f \in All(F) /\ IsFile(t, f)
  BY <1>10, <1>11, <1>12, InAll
<1>15. ASSUME NEW f \in F2[0], NEW k \in Levels \ {0}, NEW g \in F2[k], NEW b, InFile(t, g, b), HasUser(t, f, b.u)
       PROVE  Topped(t, F2[0], b)
  <2>1. f \in F[0] /\ f \in All(F) \ Inputs(c)
    BY <1>11
  <2>2. PICK g0 \in All(F) : InFile(t, g0, b) /\ (g \in O => g0 \in Inputs(c)) /\ (g \notin O => g0 = g)
    <3>1. g \in All(F2)
      BY InAll
    <3> QED
      BY <1>7, <1>15, <3>1
  <2>3. b \in Keys
    BY <1>12, <2>2, EntryIs
  <2>4. CASE \E j \in Levels \ {0} : g0 \in F[j]
    <3>1. Topped(t, F[0], b)
      BY <1>1, <1>15, <2>1, <2>2, <2>4 DEF NewestOnTop
    <3>2. \A h \in F[0] : h \in F2[0] \/ Newer(t, f, h)
      BY <1>13
    <3> QED
      BY <1>14, <1>15, <2>3, <3>1, <3>2, StillTopped
  <2>5. CASE g0 \in F[0]
    <3>1. g0 \in F2[0] \/ Newer(t, f, g0)
      BY <1>13, <2>5
    <3>2. g0 \notin F2[0]
      <4>1. ASSUME g0 \in F2[0]
            PROVE  FALSE
        <5>1. g0 \notin Inputs(c)
          BY <1>11, <4>1
        <5>2. g0 = g
          BY <2>2, <5>1
        <5>3. F2[0] \cap F2[k] = {}
          BY <1>6, <1>10 DEF Apart
        <5> QED
          BY <4>1, <5>2, <5>3
      <4> QED
        BY <4>1
    <3> QED
      BY <1>14, <1>15, <2>2, <2>5, <3>1, <3>2, NewerTops
  <2> QED
    BY <2>2, <2>4, <2>5, AllIs
<1>16. ASSUME NEW f \in F2[0], NEW g \in F2[0], f > g, NEW b, InFile(t, g, b), HasUser(t, f, b.u)
       PROVE  Topped(t, {h \in F2[0] : h >= f}, b)
  <2>1. PICK S, S2 : S = {h \in F[0] : h >= f} /\ S2 = {h \in F2[0] : h >= f}
    OBVIOUS
  <2>2. f \in F[0] /\ g \in F[0]
    BY <1>14
  <2>3. Topped(t, S, b)
    BY <1>1, <1>16, <2>1, <2>2 DEF NewestOnTop
  <2>4. b \in Keys
    BY <1>14, <1>16, <2>2, EntryIs
  <2>5. f \in Nat
    BY <1>14, <2>2, FileIs
  <2>6. f \in S2 /\ S2 \subseteq S /\ \A h \in S : IsFile(t, h)
    BY <1>14, <2>1, <2>5
  <2>7. \A h \in S : h \in S2 \/ Newer(t, f, h)
    BY <1>13, <2>1
  <2>8. Topped(t, S2, b)
    BY <1>16, <2>3, <2>4, <2>6, <2>7, StillTopped
  <2> QED
    BY <2>1, <2>8
<1>17. NewestOnTop(t, F2)
  BY <1>15, <1>16 DEF NewestOnTop
<1> QED
  BY <1>5, <1>6, <1>8, <1>9, <1>17 DEF VersionOk

LEMMA ReplacedKnown ==
  ASSUME NEW t, NEW c, NEW F, NEW F2, NEW O, Apart(F), InputsOk(c, t, F), Replaced(c, F, F2, O),
         MadeFrom(t, Inputs(c), O), NEW lg, NEW fl, LogKnows(lg, fl, t, All(F))
  PROVE  LogKnows(lg, fl, t, All(F2))
<1>1. ASSUME NEW f \in All(F2), NEW e, InFile(t, f, e)
      PROVE  FromFiles(t, All(F), e)
  <2>1. PICK k \in Levels : f \in F2[k]
    BY AllIs
  <2>2. f \in All(F) \/ f \in O
    BY <2>1, ReplacedIs
  <2>3. CASE f \in All(F)
    BY <1>1, <2>3 DEF FromFiles
  <2>4. CASE f \in O
    <3>1. FromFiles(t, Inputs(c), e)
      BY <1>1, <2>4 DEF MadeFrom
    <3> QED
      BY <3>1, InputsInAll DEF FromFiles
  <2> QED
    BY <2>2, <2>3, <2>4
<1> QED
  BY <1>1, LogKept

\* The edit of a compaction: its inputs deleted, the files O added below.
IsEdit(c, added, deleted, O) ==
  /\ added = [NoFiles EXCEPT ![c.level + 1] = O]
  /\ deleted = [NoFiles EXCEPT ![c.level] = c.inputs[1], ![c.level + 1] = c.inputs[2]]

LEMMA EditIs ==
  ASSUME NEW c, c.level \in 0..(NumLevels - 2), NEW O, NEW added, NEW deleted, NEW F2,
         IsEdit(c, added, deleted, O), Edited(F2, added, deleted)
  PROVE  Replaced(c, Sets(files_), F2, O)
<1>1. PICK l, A, B : l = c.level /\ A = c.inputs[1] /\ B = c.inputs[2]
  OBVIOUS
<1>2. l \in Levels /\ l + 1 \in Levels /\ l + 1 # l
  BY <1>1, LevelsAre
<1>3. ASSUME NEW k \in Levels
      PROVE  F2[k] = IF k = l THEN Sets(files_)[k] \ A
                     ELSE IF k = l + 1 THEN (Sets(files_)[k] \ B) \cup O ELSE Sets(files_)[k]
  <2>1. added[k] = IF k = l + 1 THEN O ELSE {}
    BY <1>1 DEF NoFiles, IsEdit
  <2>2. deleted[k] = IF k = l + 1 THEN B ELSE IF k = l THEN A ELSE {}
    BY <1>1 DEF NoFiles, IsEdit
  <2>3. F2[k] = (Sets(files_)[k] \ deleted[k]) \cup added[k]
    BY SetsAre DEF Edited
  <2>4. CASE k = l
    BY <1>2, <2>1, <2>2, <2>3, <2>4
  <2>5. CASE k = l + 1
    BY <1>2, <2>1, <2>2, <2>3, <2>5
  <2>6. CASE k # l /\ k # l + 1
    BY <2>1, <2>2, <2>3, <2>6
  <2> QED
    BY <2>4, <2>5, <2>6
<1> QED
  BY <1>1, <1>3 DEF Replaced

\* What Install leaves of the invariant, whichever way it goes.
LEMMA Installed ==
  ASSUME NEW t \in Seq(Tables), NEW added, NEW deleted, NEW pointers, NEW then, NEW F2, NEW q, NEW lg, NEW fl,
         Install(t, added, deleted, pointers, then), VersionOk(t, F2, q), VersionOk(t, Sets(files_), q),
         LogKnows(lg, fl, t, All(F2)), LogKnows(lg, fl, t, All(Sets(files_))),
         Edited(F2, added, deleted), files_ \in [Levels -> Seq(Nat)], SeekInv, GetsInv,
         \A l \in Levels \ {0} : Spread(t, files_[l])
  PROVE  /\ files_' \in [Levels -> Seq(Nat)]
         /\ VersionOk(t, Sets(files_'), q)
         /\ LogKnows(lg, fl, t, All(Sets(files_')))
         /\ \A l \in Levels \ {0} : Spread(t, files_'[l])
         /\ SeekInv' /\ GetsInv'
         /\ bg' \in {"overlap", then}
<1>2. /\ \/ files_' = files_ /\ file_to_compact_' = file_to_compact_ /\ bg' = "overlap"
         \/ /\ files_' \in [Levels -> Seq(Nat)] /\ \A l \in Levels : ToSet(files_'[l]) = F2[l]
            /\ \A l \in Levels \ {0} : Spread(t, files_'[l])
            /\ file_to_compact_' = NoSeek /\ bg' = then
      /\ GetsInv'
  BY InstallEffect
<1>3. CASE files_' = files_ /\ file_to_compact_' = file_to_compact_ /\ bg' = "overlap"
  BY <1>2, <1>3 DEF SeekInv
<1>4. CASE /\ files_' \in [Levels -> Seq(Nat)] /\ \A l \in Levels : ToSet(files_'[l]) = F2[l]
           /\ \A l \in Levels \ {0} : Spread(t, files_'[l])
           /\ file_to_compact_' = NoSeek /\ bg' = then
  <2>1. F2 = [k \in Levels |-> F2[k]]
    BY DEF Edited
  <2>2. Sets(files_') = F2
    BY <1>4, <2>1 DEF Sets
  <2>3. SeekInv'
    BY <1>4 DEF SeekInv
  <2> QED
    BY <1>2, <1>4, <2>2, <2>3
<1> QED
  BY <1>2, <1>3, <1>4

LEMMA MoveFileStep ==
  ASSUME IInv, NEW c, InputsOk(c, table, Sets(files_)), MoveFile(c), bg = "idle"
  PROVE  IInv'
<1>1. PICK f, t2, F, q : /\ f = CHOOSE g \in c.inputs[1] : TRUE
                         /\ t2 = [table EXCEPT ![f].allow_seeks = AllowSeeks]
                         /\ F = Sets(files_) /\ q = last_sequence_
  OBVIOUS
<1>2. PICK added, deleted : /\ added = [NoFiles EXCEPT ![c.level + 1] = {f}]
                            /\ deleted = [NoFiles EXCEPT ![c.level] = {f}]
  OBVIOUS
<1>3. /\ SingalMove(c) /\ table' = t2
      /\ Install(t2, added, deleted, [compactor_pointer_ EXCEPT ![c.level] = c.pointer], "idle")
      /\ UNCHANGED <<logVars, m>>
  BY <1>1, <1>2 DEF MoveFile
<1>4. VersionOk(table, F, q) /\ table \in Seq(Tables) /\ InputsOk(c, table, F)
  BY <1>1 DEF IInv, VersionInv, TypeOK
<1>5. c.level \in 0..(NumLevels - 2) /\ c.level \in Levels /\ c.inputs[1] \subseteq F[c.level]
  BY <1>4, LevelsAre DEF InputsOk
<1>6. c.inputs[1] = {f} /\ c.inputs[2] = {}
  <2>1. Cardinality(c.inputs[1]) = 1 /\ c.inputs[2] = {}
    BY <1>3 DEF SingalMove
  <2>2. c.inputs[1] \subseteq All(F)
    BY <1>5, InAll
  <2>3. FileSet(table, c.inputs[1])
    BY <1>4, <2>2, VersionFiles
  <2>4. IsFiniteSet(c.inputs[1])
    BY <2>3, FileSetFinite
  <2>5. \E x : c.inputs[1] = {x}
    BY <2>1, <2>4, FS_Singleton
  <2> QED
    BY <1>1, <2>1, <2>5
<1>7. f \in F[c.level] /\ f \in All(F)
  BY <1>5, <1>6, InAll
<1>8. f \in 1..Len(table) /\ AllowSeeks \in Nat
  BY <1>4, <1>7, ConstantsAre DEF VersionOk, FilesOk
<1>9. SeeksOnly(table, t2)
  BY <1>1, <1>4, <1>8, SeeksChanged
<1>10. /\ t2 \in Seq(Tables) /\ VersionOk(t2, F, q) /\ SameFiles(table, t2, All(F))
       /\ \A l \in Levels \ {0} : Spread(t2, files_[l])
  BY <1>1, <1>9, SeeksKeep DEF SeeksOnly
<1>11. InputsOk(c, t2, F)
  BY <1>4, <1>10, SameInputs
<1>12. PICK F2 : Edited(F2, added, deleted)
  BY DEF Edited
<1>13. Replaced(c, F, F2, {f})
  <2>1. PICK O : O = {f}
    OBVIOUS
  <2>2. IsEdit(c, added, deleted, O)
    <3>1. PICK l : l = c.level
      OBVIOUS
    <3>2. l \in Levels /\ l + 1 \in Levels /\ l + 1 # l
      BY <1>5, <3>1, LevelsAre
    <3>3. deleted = [NoFiles EXCEPT ![l] = O]
      BY <1>2, <2>1, <3>1
    <3>4. deleted = [NoFiles EXCEPT ![l] = O, ![l + 1] = {}]
      BY <3>2, <3>3 DEF NoFiles
    <3> QED
      BY <1>2, <1>6, <2>1, <3>1, <3>4 DEF IsEdit
  <2>3. Replaced(c, Sets(files_), F2, O)
    BY <1>5, <1>12, <2>2, EditIs
  <2> QED
    BY <1>1, <2>1, <2>3
<1>14. MadeFrom(t2, Inputs(c), {f}) /\ {f} \cap (All(F) \ Inputs(c)) = {}
  <2>1. f \in Inputs(c)
    BY <1>6 DEF Inputs
  <2>2. f \in 1..Len(t2) /\ WellFormed(t2[f])
    BY <1>7, <1>10 DEF VersionOk, FilesOk
  <2> QED
    BY <2>1, <2>2 DEF MadeFrom, FromFiles
<1>15. PICK lg, fl : lg = log /\ fl = flushed
  OBVIOUS
<1>21. LogKnows(lg, fl, t2, All(F))
  <2>1. LogKnows(lg, fl, table, All(F))
    BY <1>1, <1>15 DEF IInv, LogInv
  <2> QED
    BY <1>10, <2>1, LogSame
<1>22. VersionOk(t2, F2, q) /\ LogKnows(lg, fl, t2, All(F2))
  <2>1. PICK O : O = {f}
    OBVIOUS
  <2>2. Replaced(c, F, F2, O) /\ MadeFrom(t2, Inputs(c), O) /\ O \cap (All(F) \ Inputs(c)) = {}
    BY <1>13, <1>14, <2>1
  <2>3. Apart(F)
    BY <1>4 DEF VersionOk
  <2> QED
    BY <1>10, <1>11, <1>21, <2>2, <2>3, ReplacedOk, ReplacedKnown
<1>16. PICK fs : fs = files_'
  OBVIOUS
<1>17. /\ fs \in [Levels -> Seq(Nat)] /\ VersionOk(t2, Sets(fs), q)
       /\ LogKnows(lg, fl, t2, All(Sets(fs)))
       /\ \A l \in Levels \ {0} : Spread(t2, fs[l])
       /\ SeekInv' /\ GetsInv' /\ bg' \in {"overlap", "idle"}
  <2>1. PICK then, pointers : then = "idle" /\ pointers = [compactor_pointer_ EXCEPT ![c.level] = c.pointer]
    OBVIOUS
  <2>2. Install(t2, added, deleted, pointers, then)
    BY <1>3, <2>1
  <2>3. VersionOk(t2, Sets(files_), q) /\ LogKnows(lg, fl, t2, All(Sets(files_)))
    BY <1>1, <1>10, <1>21
  <2>4. files_ \in [Levels -> Seq(Nat)] /\ SeekInv /\ GetsInv
    BY DEF IInv, TypeOK
  <2>5. /\ fs \in [Levels -> Seq(Nat)] /\ VersionOk(t2, Sets(fs), q)
        /\ LogKnows(lg, fl, t2, All(Sets(fs)))
        /\ \A l \in Levels \ {0} : Spread(t2, fs[l])
        /\ SeekInv' /\ GetsInv' /\ bg' \in {"overlap", then}
    BY <1>10, <1>12, <1>16, <1>22, <2>2, <2>3, <2>4, Installed
  <2> QED
    BY <2>1, <2>5
<1>18. log' = lg /\ flushed' = fl /\ last_sequence_' = q
  BY <1>1, <1>3, <1>15 DEF logVars
<1>19. TypeOK'
  BY <1>1, <1>3, <1>10, <1>16, <1>17, <1>18 DEF IInv, TypeOK, States
<1>20. VersionInv' /\ LogInv'
  <2>1. LogOk(lg, fl, q)
    BY <1>1, <1>15 DEF IInv, LogInv
  <2> QED
    BY <1>3, <1>16, <1>17, <1>18, <2>1 DEF VersionInv, LogInv
<1>23. MergeInv' /\ OnlyRepeatsStop'
  BY <1>17 DEF MergeInv, OnlyRepeatsStop
<1> QED
  BY <1>17, <1>19, <1>20, <1>23 DEF IInv

\* The outputs of a merge are made from its inputs.
LEMMA OutputsMade ==
  ASSUME NEW t, NEW F, NEW c, NEW list, NEW outputs, OutputsOk(outputs, list, t, Inputs(c), F)
  PROVE  MadeFrom(t, Inputs(c), ToSet(outputs)) /\ ToSet(outputs) \cap (All(F) \ Inputs(c)) = {}
<1>1. outputs \in Seq(Nat)
  BY DEF OutputsOk
<1>2. \A o \in ToSet(outputs) : \E i \in 1..Len(outputs) : o = outputs[i]
  BY <1>1 DEF ToSet
<1>3. \A o \in ToSet(outputs) : /\ o \in 1..Len(t) /\ o \notin All(F) /\ WellFormed(t[o])
                                /\ \A e : InFile(t, o, e) => FromFiles(t, Inputs(c), e)
  BY <1>2 DEF OutputsOk
<1> QED
  BY <1>3 DEF MadeFrom

\* GarbageFilesClean leaves the files of the version as they are.
LEMMA CleanKeeps ==
  ASSUME NEW t \in Seq(Tables), NEW fs \in [Levels -> Seq(Nat)], NEW q, VersionOk(t, Sets(fs), q),
         \A l \in Levels \ {0} : Spread(t, fs[l]), NEW t2, t2 = OnlyFiles(t, fs),
         NEW lg, NEW fl, LogKnows(lg, fl, t, All(Sets(fs)))
  PROVE  /\ t2 \in Seq(Tables) /\ VersionOk(t2, Sets(fs), q)
         /\ \A l \in Levels \ {0} : Spread(t2, fs[l])
         /\ LogKnows(lg, fl, t2, All(Sets(fs)))
<1> DEFINE live == UNION {ToSet(fs[l]) : l \in Levels}
<1>1. live = All(Sets(fs))
  BY DEF All, Sets
<1>2. t2 = [f \in 1..Len(t) |-> IF f \in live THEN t[f] ELSE Gone]
  BY DEF OnlyFiles
<1> HIDE DEF live
<1>3. Gone \in Tables
  <2>1. <<>> \in Seq(Keys)
    OBVIOUS
  <2> QED
    BY <2>1 DEF Gone, Tables
<1>4. Len(t) \in Nat /\ \A f \in 1..Len(t) : t[f] \in Tables
  OBVIOUS
<1>5. t2 \in [1..Len(t) -> Tables]
  BY <1>2, <1>3, <1>4
<1>6. t2 \in Seq(Tables) /\ Len(t2) = Len(t)
  BY <1>4, <1>5
<1>7. \A f \in All(Sets(fs)) : f \in 1..Len(t)
  BY DEF VersionOk, FilesOk
<1>8. \A f \in All(Sets(fs)) : f \in 1..Len(t2) /\ t2[f] = t[f]
  BY <1>1, <1>2, <1>6, <1>7
<1>9. SameFiles(t, t2, All(Sets(fs)))
  BY <1>8 DEF SameFiles, SameFile
<1>10. VersionOk(t2, Sets(fs), q)
  BY <1>9, SameVersion
<1>11. \A l \in Levels \ {0} : Spread(t2, fs[l])
  BY <1>9, SpreadKept
<1>12. LogKnows(lg, fl, t2, All(Sets(fs)))
  BY <1>9, LogSame
<1> QED
  BY <1>6, <1>10, <1>11, <1>12

LEMMA FailMergeStep ==
  ASSUME IInv, FailMerge
  PROVE  IInv'
<1>1. PICK t2, fs, q, lg, fl : /\ t2 = table' /\ fs = files_ /\ q = last_sequence_
                               /\ lg = log /\ fl = flushed
  OBVIOUS
<1>2. /\ t2 = OnlyFiles(table, fs) /\ bg' = "error"
      /\ UNCHANGED <<files_, file_to_compact_, gets>>
      /\ last_sequence_' = q /\ log' = lg /\ flushed' = fl
  BY <1>1 DEF FailMerge, logVars
<1>3. /\ table \in Seq(Tables) /\ fs \in [Levels -> Seq(Nat)] /\ VersionOk(table, Sets(fs), q)
      /\ \A l \in Levels \ {0} : Spread(table, fs[l])
      /\ LogKnows(lg, fl, table, All(Sets(fs))) /\ LogOk(lg, fl, q)
  BY <1>1 DEF IInv, TypeOK, VersionInv, LogInv
<1>4. /\ t2 \in Seq(Tables) /\ VersionOk(t2, Sets(fs), q) /\ \A l \in Levels \ {0} : Spread(t2, fs[l])
      /\ LogKnows(lg, fl, t2, All(Sets(fs)))
  BY <1>2, <1>3, CleanKeeps
<1>5. TypeOK'
  BY <1>1, <1>2, <1>4 DEF IInv, TypeOK, States
<1>6. VersionInv' /\ LogInv'
  BY <1>1, <1>2, <1>3, <1>4 DEF VersionInv, LogInv
<1>7. SeekInv' /\ GetsInv'
  BY <1>2 DEF IInv, SeekInv, GetsInv
<1>8. MergeInv' /\ OnlyRepeatsStop'
  BY <1>2 DEF MergeInv, OnlyRepeatsStop
<1> QED
  BY <1>5, <1>6, <1>7, <1>8 DEF IInv

LEMMA InstallMergeStep ==
  ASSUME IInv, InstallMerge
  PROVE  IInv'
<1>1. PICK c, outputs, list, t, F, q, lg, fl :
        /\ c = m.c /\ outputs = m.outputs /\ list = m.list
        /\ t = table /\ F = Sets(files_) /\ q = last_sequence_ /\ lg = log /\ fl = flushed
  OBVIOUS
<1>2. PICK O, added, deleted, pointers :
        /\ O = ToSet(outputs) /\ added = [NoFiles EXCEPT ![c.level + 1] = O]
        /\ deleted = AddInputDeletions(c) /\ pointers = [compactor_pointer_ EXCEPT ![c.level] = c.pointer]
  OBVIOUS
<1>3. /\ bg = "merge" /\ Install(t, added, deleted, pointers, "idle") /\ table' = OnlyFiles(t, files_')
      /\ last_sequence_' = q /\ log' = lg /\ flushed' = fl
  BY <1>1, <1>2 DEF InstallMerge, logVars
<1>4. /\ t \in Seq(Tables) /\ VersionOk(t, F, q) /\ files_ \in [Levels -> Seq(Nat)] /\ SeekInv /\ GetsInv
      /\ \A l \in Levels \ {0} : Spread(t, files_[l])
      /\ LogOk(lg, fl, q) /\ LogKnows(lg, fl, t, All(F))
  BY <1>1 DEF IInv, TypeOK, VersionInv, LogInv
<1>5. InputsOk(c, t, F) /\ OutputsOk(outputs, list, t, Inputs(c), F)
  BY <1>1, <1>3 DEF IInv, MergeInv
<1>6. MadeFrom(t, Inputs(c), O) /\ O \cap (All(F) \ Inputs(c)) = {}
  BY <1>2, <1>5, OutputsMade
<1>7. IsEdit(c, added, deleted, O)
  BY <1>2 DEF IsEdit, AddInputDeletions
<1>8. PICK F2 : Edited(F2, added, deleted)
  BY DEF Edited
<1>9. c.level \in 0..(NumLevels - 2) /\ Apart(F)
  BY <1>4, <1>5 DEF InputsOk, VersionOk
<1>10. Replaced(c, F, F2, O)
  BY <1>1, <1>7, <1>8, <1>9, EditIs
<1>11. VersionOk(t, F2, q) /\ LogKnows(lg, fl, t, All(F2))
  BY <1>4, <1>5, <1>6, <1>9, <1>10, ReplacedOk, ReplacedKnown
<1>12. /\ files_' \in [Levels -> Seq(Nat)] /\ VersionOk(t, Sets(files_'), q)
       /\ LogKnows(lg, fl, t, All(Sets(files_')))
       /\ \A l \in Levels \ {0} : Spread(t, files_'[l])
       /\ SeekInv' /\ GetsInv' /\ bg' \in {"overlap", "idle"}
  <2>1. PICK then : then = "idle"
    OBVIOUS
  <2>2. Install(t, added, deleted, pointers, then)
    BY <1>3, <2>1
  <2>3. VersionOk(t, Sets(files_), q) /\ LogKnows(lg, fl, t, All(Sets(files_)))
    BY <1>1, <1>4
  <2>4. /\ files_' \in [Levels -> Seq(Nat)] /\ VersionOk(t, Sets(files_'), q)
        /\ LogKnows(lg, fl, t, All(Sets(files_')))
        /\ \A l \in Levels \ {0} : Spread(t, files_'[l])
        /\ SeekInv' /\ GetsInv' /\ bg' \in {"overlap", then}
    BY <1>4, <1>8, <1>11, <2>2, <2>3, Installed
  <2> QED
    BY <2>1, <2>4
<1>13. PICK fs, t2 : fs = files_' /\ t2 = table'
  OBVIOUS
<1>14. /\ t2 \in Seq(Tables) /\ VersionOk(t2, Sets(fs), q) /\ \A l \in Levels \ {0} : Spread(t2, fs[l])
       /\ LogKnows(lg, fl, t2, All(Sets(fs)))
  BY <1>3, <1>4, <1>12, <1>13, CleanKeeps
<1>15. TypeOK'
  BY <1>1, <1>3, <1>12, <1>13, <1>14 DEF IInv, TypeOK, States
<1>16. VersionInv' /\ LogInv'
  BY <1>3, <1>4, <1>13, <1>14 DEF VersionInv, LogInv
<1>17. MergeInv' /\ OnlyRepeatsStop'
  BY <1>12 DEF MergeInv, OnlyRepeatsStop
<1> QED
  BY <1>12, <1>15, <1>16, <1>17 DEF IInv

----------------------------------------------------------------------------
(* The start of a merge.                                                   *)

\* Some of the files that are spread, sorted, are spread.
LEMMA SortedSpread ==
  ASSUME NEW t, NEW fs \in Seq(Nat), Spread(t, fs), NEW S, S \subseteq ToSet(fs), FileSet(t, S), NEW s, s = SaveTo(t, S)
  PROVE  Spread(t, s)
<1>1. /\ s \in Seq(Nat) /\ ToSet(s) = S
      /\ \A i, j \in 1..Len(s) : i < j => BySmallestKey(t, s[i], s[j])
      /\ \A i, j \in 1..Len(s) : s[i] = s[j] => i = j
  BY SaveToIs
<1>2. ASSUME NEW i \in 1..Len(s), NEW j \in 1..Len(s), i < j
      PROVE  Less(t[s[i]].largest, t[s[j]].smallest)
  <2>1. PICK f, g : f = s[i] /\ g = s[j]
    OBVIOUS
  <2>2. f \in S /\ g \in S /\ f # g
    <3>1. i # j
      BY <1>1, <1>2
    <3> QED
      BY <1>1, <2>1, <3>1 DEF ToSet
  <2>3. IsFile(t, f) /\ IsFile(t, g)
    BY <2>2 DEF FileSet
  <2>4. f \in ToSet(fs) /\ g \in ToSet(fs)
    BY <2>2
  <2>5. PICK p \in 1..Len(fs) : f = fs[p]
    BY <2>4 DEF ToSet
  <2>6. PICK r \in 1..Len(fs) : g = fs[r]
    BY <2>4 DEF ToSet
  <2>7. PICK x, y, z : x = t[f].smallest /\ y = t[g].smallest /\ z = t[g].largest
    OBVIOUS
  <2>8. x \in Keys /\ y \in Keys /\ z \in Keys /\ (z = y \/ Less(y, z))
    <3>1. x \in Keys /\ y \in Keys /\ z \in Keys /\ InFile(t, g, z)
      BY <2>3, <2>7, FileIs
    <3> QED
      BY <2>3, <2>7, <3>1, EntryIs
  <2>9. x = y \/ Less(x, y)
    <3>1. BySmallestKey(t, f, g)
      BY <1>1, <1>2, <2>1
    <3> QED
      BY <2>7, <3>1 DEF BySmallestKey
  <2>10. p # r
    BY <2>2, <2>5, <2>6
  <2>11. ~(r < p)
    <3>1. SUFFICES ASSUME r < p
                   PROVE  FALSE
      OBVIOUS
    <3>2. Less(z, x)
      BY <2>5, <2>6, <2>7, <3>1 DEF Spread
    <3>3. Less(y, x)
      BY <2>8, <3>2, LessTrans
    <3> QED
      BY <2>8, <2>9, <3>3, LessIrreflexive
  <2>12. p < r
    BY <2>10, <2>11
  <2> QED
    BY <2>1, <2>5, <2>6, <2>12 DEF Spread
<1> QED
  BY <1>2 DEF Spread

\* The data of files in a row.
AllData(t, s) == [i \in 1..Len(s) |-> t[s[i]].data]

LEMMA AllDataIs ==
  ASSUME NEW t, NEW s \in Seq(Nat), NEW S, ToSet(s) = S, FileSet(t, S), Spread(t, s), NEW it, it = AllData(t, s)
  PROVE  IterOk(it) /\ \A e : InIter(it, e) => FromFiles(t, S, e)
<1>1. ASSUME NEW b \in 1..Len(s)
      PROVE  /\ s[b] \in S /\ IsFile(t, s[b]) /\ t[s[b]].data \in Seq(Keys) /\ t[s[b]].data # <<>>
             /\ Ascending(t[s[b]].data)
  <2>1. s[b] \in S
    BY DEF ToSet
  <2>2. IsFile(t, s[b])
    BY <2>1 DEF FileSet
  <2> QED
    BY <2>1, <2>2, FileIs DEF IsFile, WellFormed
<1>2. Len(s) \in Nat /\ it \in [1..Len(s) -> Seq(Keys)]
  BY <1>1 DEF AllData
<1>3. it \in Seq(Seq(Keys)) /\ Len(it) = Len(s) /\ \A b \in 1..Len(s) : it[b] = t[s[b]].data
  BY <1>2 DEF AllData
<1>4. ASSUME NEW b \in 1..Len(it), NEW c \in 1..Len(it), b < c,
             NEW i \in 1..Len(it[b]), NEW j \in 1..Len(it[c])
      PROVE  Less(it[b][i], it[c][j])
  <2>1. PICK f, g, x, y : f = s[b] /\ g = s[c] /\ x = it[b][i] /\ y = it[c][j]
    OBVIOUS
  <2>2. IsFile(t, f) /\ IsFile(t, g)
    BY <1>1, <1>3, <2>1
  <2>3. InFile(t, f, x) /\ InFile(t, g, y)
    BY <1>3, <2>1 DEF InFile
  <2>4. PICK v, w : v = t[f].largest /\ w = t[g].smallest
    OBVIOUS
  <2>5. v \in Keys /\ w \in Keys /\ x \in Keys /\ y \in Keys
    BY <2>2, <2>3, <2>4, FileIs, EntryIs
  <2>6. (x = v \/ Less(x, v)) /\ (y = w \/ Less(w, y))
    BY <2>2, <2>3, <2>4, EntryIs
  <2>7. Less(v, w)
    BY <1>3, <1>4, <2>1, <2>4 DEF Spread
  <2>8. Less(x, w)
    BY <2>5, <2>6, <2>7, LessTrans
  <2>9. Less(x, y)
    BY <2>5, <2>6, <2>8, LessTrans
  <2> QED
    BY <2>1, <2>9
<1>5. IterOk(it)
  BY <1>1, <1>3, <1>4 DEF IterOk
<1>6. ASSUME NEW e, InIter(it, e)
      PROVE  FromFiles(t, S, e)
  <2>1. PICK b \in 1..Len(it) : \E i \in 1..Len(it[b]) : e = it[b][i]
    BY <1>6 DEF InIter
  <2>2. InFile(t, s[b], e) /\ s[b] \in S
    BY <1>1, <1>3, <2>1 DEF InFile
  <2> QED
    BY <2>2 DEF FromFiles
<1> QED
  BY <1>5, <1>6

\* The iterator of one file.
LEMMA OneFileIs ==
  ASSUME NEW t, NEW f, IsFile(t, f), NEW it, it = <<t[f].data>>
  PROVE  IterOk(it) /\ \A e : InIter(it, e) => InFile(t, f, e)
<1>1. t[f].data \in Seq(Keys) /\ t[f].data # <<>> /\ Ascending(t[f].data)
  BY FileIs DEF IsFile, WellFormed
<1>2. it \in Seq(Seq(Keys)) /\ Len(it) = 1 /\ it[1] = t[f].data
  BY <1>1
<1>3. \A b \in 1..Len(it) : b = 1
  BY <1>2
<1>4. IterOk(it)
  BY <1>1, <1>2, <1>3 DEF IterOk
<1> QED
  BY <1>2, <1>3, <1>4 DEF InIter, InFile

\* One iterator for all the files of a level.
LEMMA OneIterator ==
  ASSUME NEW t, NEW S, NEW it, IterOk(it), \A e : InIter(it, e) => FromFiles(t, S, e), NEW list, list = <<it>>
  PROVE  ListOk(list, t, S)
<1>1. it \in Seq(Seq(Keys))
  BY DEF IterOk
<1>2. list \in Seq(Seq(Seq(Keys))) /\ Len(list) = 1 /\ list[1] = it
  BY <1>1
<1>3. \A n \in 1..Len(list) : n = 1
  BY <1>2
<1> QED
  BY <1>2, <1>3 DEF ListOk

\* One iterator for each file.
FileByFile(t, s) == [i \in 1..Len(s) |-> <<t[s[i]].data>>]

LEMMA FileByFileIs ==
  ASSUME NEW t, NEW s \in Seq(Nat), NEW S, ToSet(s) = S, FileSet(t, S),
         NEW list, list = FileByFile(t, s)
  PROVE  ListOk(list, t, S)
<1>1. ASSUME NEW b \in 1..Len(s)
      PROVE  s[b] \in S /\ IsFile(t, s[b])
  BY DEF ToSet, FileSet
<1>2. ASSUME NEW b \in 1..Len(s)
      PROVE  IterOk(<<t[s[b]].data>>) /\ \A e : InIter(<<t[s[b]].data>>, e) => InFile(t, s[b], e)
  <2>1. PICK it, f : it = <<t[s[b]].data>> /\ f = s[b]
    OBVIOUS
  <2>2. IterOk(it) /\ \A e : InIter(it, e) => InFile(t, f, e)
    BY <1>1, <2>1, OneFileIs
  <2> QED
    BY <2>1, <2>2
<1>3. \A b \in 1..Len(s) : list[b] = <<t[s[b]].data>>
  BY DEF FileByFile
<1>4. ASSUME NEW b \in 1..Len(s)
      PROVE  IterOk(list[b]) /\ \A e : InIter(list[b], e) => InFile(t, s[b], e)
  BY <1>2, <1>3
<1>5. Len(s) \in Nat /\ list \in [1..Len(s) -> Seq(Seq(Keys))]
  <2>1. \A b \in 1..Len(s) : list[b] \in Seq(Seq(Keys))
    BY <1>4 DEF IterOk
  <2> QED
    BY <2>1 DEF FileByFile
<1>6. list \in Seq(Seq(Seq(Keys))) /\ Len(list) = Len(s)
  BY <1>5
<1>7. \A b \in 1..Len(list) : \A e : InIter(list[b], e) => FromFiles(t, S, e)
  BY <1>1, <1>4, <1>6 DEF FromFiles
<1> QED
  BY <1>4, <1>6, <1>7 DEF ListOk

\* The iterators of two sets of files.
LEMMA JoinedLists ==
  ASSUME NEW t, NEW S, NEW T, NEW a, NEW b, ListOk(a, t, S), ListOk(b, t, T), NEW list, list = a \o b
  PROVE  ListOk(list, t, S \cup T)
<1>1. a \in Seq(Seq(Seq(Keys))) /\ b \in Seq(Seq(Seq(Keys)))
  BY DEF ListOk
<1>2. /\ list \in Seq(Seq(Seq(Keys))) /\ Len(list) = Len(a) + Len(b)
      /\ \A n \in 1..Len(list) : list[n] = IF n <= Len(a) THEN a[n] ELSE b[n - Len(a)]
  BY <1>1
<1>3. ASSUME NEW n \in 1..Len(list)
      PROVE  \/ n \in 1..Len(a) /\ list[n] = a[n]
             \/ n - Len(a) \in 1..Len(b) /\ list[n] = b[n - Len(a)] /\ ~(n \in 1..Len(a))
  BY <1>1, <1>2
<1>4. \A n \in 1..Len(a) : IterOk(a[n]) /\ \A e : InIter(a[n], e) => FromFiles(t, S, e)
  BY DEF ListOk
<1>5. \A n \in 1..Len(b) : IterOk(b[n]) /\ \A e : InIter(b[n], e) => FromFiles(t, T, e)
  BY DEF ListOk
<1>6. ASSUME NEW n \in 1..Len(list)
      PROVE  IterOk(list[n]) /\ \A e : InIter(list[n], e) => FromFiles(t, S \cup T, e)
  BY <1>3, <1>4, <1>5 DEF FromFiles
<1> QED
  BY <1>2, <1>6 DEF ListOk

LEMMA MergedListIs ==
  ASSUME IInv, NEW c, InputsOk(c, table, Sets(files_)), NEW list, list = MergedList(c)
  PROVE  ListOk(list, table, Inputs(c))
<1>1. PICK t, F, q, A, B, s, r : /\ t = table /\ F = Sets(files_) /\ q = last_sequence_
                                 /\ A = c.inputs[1] /\ B = c.inputs[2]
                                 /\ s = SaveTo(t, A) /\ r = SaveTo(t, B)
  OBVIOUS
<1>2. PICK upper, lower :
        /\ upper = IF c.level = 0 THEN FileByFile(t, s) ELSE <<AllData(t, s)>>
        /\ lower = IF B = {} THEN <<>> ELSE <<AllData(t, r)>>
  OBVIOUS
<1>3. list = upper \o lower
  <2>1. (IF c.level = 0 THEN [i \in 1..Len(s) |-> <<AllData(t, s)[i]>>] ELSE <<AllData(t, s)>>) = upper
    BY <1>2 DEF AllData, FileByFile
  <2>2. list = (IF c.level = 0 THEN [i \in 1..Len(s) |-> <<AllData(t, s)[i]>>] ELSE <<AllData(t, s)>>)
                 \o (IF B = {} THEN <<>> ELSE <<AllData(t, r)>>)
    BY <1>1 DEF MergedList, AllData
  <2> QED
    BY <1>2, <2>1, <2>2
<1>4. VersionOk(t, F, q) /\ t \in Seq(Tables) /\ InputsOk(c, t, F)
  BY <1>1 DEF IInv, VersionInv, TypeOK
<1>5. /\ c.level \in Levels /\ c.level + 1 \in Levels \ {0} /\ c.level + 1 # c.level
      /\ A \subseteq F[c.level] /\ B \subseteq F[c.level + 1]
  BY <1>1, <1>4, LevelsAre DEF InputsOk
<1>6. A \subseteq All(F) /\ B \subseteq All(F)
  BY <1>5, InAll
<1>7. FileSet(t, A) /\ FileSet(t, B)
  BY <1>4, <1>6, VersionFiles
<1>8. s \in Seq(Nat) /\ ToSet(s) = A
  BY <1>1, <1>7, SaveToIs
<1>9. r \in Seq(Nat) /\ ToSet(r) = B
  BY <1>1, <1>7, SaveToIs
<1>10. ListOk(upper, t, A)
  <2>1. CASE c.level = 0
    <3>1. upper = FileByFile(t, s)
      BY <1>2, <2>1
    <3> QED
      BY <1>7, <1>8, <3>1, FileByFileIs
  <2>2. CASE c.level # 0
    <3>1. A \subseteq ToSet(files_[c.level]) /\ c.level \in Levels \ {0}
      BY <1>1, <1>5, <2>2, SetsAre
    <3>2. Spread(t, s)
      <4>1. PICK fs : fs = files_[c.level]
        OBVIOUS
      <4>2. Spread(t, fs) /\ fs \in Seq(Nat) /\ A \subseteq ToSet(fs)
        BY <1>1, <3>1, <4>1, LevelFiles
      <4> QED
        BY <1>1, <1>7, <4>2, SortedSpread
    <3>3. PICK it : it = AllData(t, s)
      OBVIOUS
    <3>4. IterOk(it) /\ \A e : InIter(it, e) => FromFiles(t, A, e)
      BY <1>7, <1>8, <3>2, <3>3, AllDataIs
    <3>5. upper = <<it>>
      BY <1>2, <2>2, <3>3
    <3> QED
      BY <3>4, <3>5, OneIterator
  <2> QED
    BY <2>1, <2>2
<1>11. ListOk(lower, t, B)
  <2>1. CASE B = {}
    <3>1. lower = <<>>
      BY <1>2, <2>1
    <3>2. lower \in Seq(Seq(Seq(Keys))) /\ Len(lower) = 0
      BY <3>1
    <3> QED
      BY <3>2 DEF ListOk
  <2>2. CASE B # {}
    <3>1. B \subseteq ToSet(files_[c.level + 1]) /\ c.level + 1 \in Levels \ {0}
      BY <1>1, <1>5, SetsAre
    <3>2. Spread(t, r)
      <4>1. PICK fs : fs = files_[c.level + 1]
        OBVIOUS
      <4>2. Spread(t, fs) /\ fs \in Seq(Nat) /\ B \subseteq ToSet(fs)
        BY <1>1, <3>1, <4>1, LevelFiles
      <4> QED
        BY <1>1, <1>7, <4>2, SortedSpread
    <3>3. PICK it : it = AllData(t, r)
      OBVIOUS
    <3>4. IterOk(it) /\ \A e : InIter(it, e) => FromFiles(t, B, e)
      BY <1>7, <1>9, <3>2, <3>3, AllDataIs
    <3>5. lower = <<it>>
      BY <1>2, <2>2, <3>3
    <3> QED
      BY <3>4, <3>5, OneIterator
  <2> QED
    BY <2>1, <2>2
<1>12. ListOk(list, t, A \cup B)
  BY <1>3, <1>10, <1>11, JoinedLists
<1> QED
  BY <1>1, <1>12 DEF Inputs

LEMMA StartMergeStep ==
  ASSUME IInv, NEW c, InputsOk(c, table, Sets(files_)), StartMerge(c)
  PROVE  IInv'
<1>1. PICK x, list, t, F : x = m' /\ list = MergedList(c) /\ t = table /\ F = Sets(files_)
  OBVIOUS
<1>2. /\ bg' = "merge"
      /\ x = [c |-> c, base |-> files_, list |-> list,
              last_user_key |-> 0, index |-> 1, overlap |-> 0, seen_key |-> FALSE,
              outputs |-> <<>>, building |-> FALSE, hidden |-> {}]
      /\ UNCHANGED <<table, files_, file_to_compact_, gets, log, flushed, last_sequence_>>
  BY <1>1 DEF StartMerge, logVars
<1>3. /\ x.c = c /\ x.list = list /\ x.outputs = <<>> /\ ~x.building /\ MergeRecord(x)
  BY <1>2 DEF MergeRecord
<1>4. ListOk(list, t, Inputs(c))
  BY <1>1, MergedListIs
<1>5. OutputsOk(<<>>, list, t, Inputs(c), F)
  BY DEF OutputsOk, Follow
<1>6. MergeInv'
  <2>1. InputsOk(x.c, t, F) /\ ListOk(x.list, t, Inputs(x.c)) /\ OutputsOk(x.outputs, x.list, t, Inputs(x.c), F)
    BY <1>1, <1>3, <1>4, <1>5
  <2> QED
    BY <1>1, <1>2, <1>3, <2>1 DEF MergeInv
<1>7. TypeOK' /\ VersionInv' /\ LogInv' /\ SeekInv'
  BY <1>2 DEF IInv, TypeOK, VersionInv, LogInv, SeekInv, States
<1>8. GetsInv' /\ OnlyRepeatsStop'
  BY <1>2 DEF IInv, GetsInv, OnlyRepeatsStop
<1> QED
  BY <1>6, <1>7, <1>8 DEF IInv

LEMMA BackgroundCompactionStep ==
  ASSUME IInv, BackgroundCompaction
  PROVE  IInv'
<1>1. PICK c : c = PickCompaction
  OBVIOUS
<1>2. bg = "idle" /\ NeedCompaction /\ ~LevelTooDeep /\ (MoveFile(c) \/ StartMerge(c))
  BY <1>1 DEF BackgroundCompaction, MayPick
<1>3. InputsOk(c, table, Sets(files_))
  BY <1>1, <1>2, PickCompactionIs
<1> QED
  BY <1>2, <1>3, MoveFileStep, StartMergeStep

LEMMA PickAbortsStep ==
  ASSUME IInv, PickAborts
  PROVE  IInv'
<1>1. bg' = "level" /\ UNCHANGED <<table, files_, file_to_compact_, gets, log, flushed, last_sequence_>>
  BY DEF PickAborts, logVars
<1>2. TypeOK' /\ VersionInv' /\ LogInv' /\ SeekInv'
  BY <1>1 DEF IInv, TypeOK, VersionInv, LogInv, SeekInv, States
<1>3. GetsInv' /\ MergeInv' /\ OnlyRepeatsStop'
  BY <1>1 DEF IInv, GetsInv, MergeInv, OnlyRepeatsStop
<1> QED
  BY <1>2, <1>3 DEF IInv

----------------------------------------------------------------------------
(* The merge, one entry at a time.                                         *)

\* The entry an iterator is at is the least one it has left.
LEMMA HeadIs ==
  ASSUME NEW it, IterOk(it), it # <<>>
  PROVE  /\ 1 \in 1..Len(it) /\ it[1] \in Seq(Keys) /\ 1 \in 1..Len(it[1])
         /\ it[1][1] \in Keys /\ InIter(it, it[1][1])
         /\ \A e : InIter(it, e) => e \in Keys /\ (e = it[1][1] \/ Less(it[1][1], e))
<1>1. it \in Seq(Seq(Keys)) /\ Len(it) \in Nat /\ Len(it) # 0
  BY DEF IterOk
<1>2. 1 \in 1..Len(it) /\ \A b \in 1..Len(it) : it[b] \in Seq(Keys)
  BY <1>1
<1>3. it[1] # <<>> /\ Ascending(it[1])
  BY <1>2 DEF IterOk
<1>4. 1 \in 1..Len(it[1])
  BY <1>2, <1>3
<1>5. it[1][1] \in Keys /\ InIter(it, it[1][1])
  BY <1>2, <1>4 DEF InIter
<1>6. ASSUME NEW e, InIter(it, e)
      PROVE  e \in Keys /\ (e = it[1][1] \/ Less(it[1][1], e))
  <2>1. PICK b \in 1..Len(it) : \E i \in 1..Len(it[b]) : e = it[b][i]
    BY <1>6 DEF InIter
  <2>2. PICK i \in 1..Len(it[b]) : e = it[b][i]
    BY <2>1
  <2>3. it[b] \in Seq(Keys)
    BY <1>2
  <2>4. e \in Keys
    BY <2>2, <2>3
  <2>5. CASE b = 1
    <3>1. i = 1 \/ 1 < i
      BY <2>3
    <3> QED
      BY <1>3, <1>4, <2>2, <2>4, <2>5, <3>1 DEF Ascending
  <2>6. CASE b # 1
    <3>1. 1 < b
      BY <1>1, <2>6
    <3> QED
      BY <1>2, <1>4, <2>2, <2>4, <3>1 DEF IterOk
  <2> QED
    BY <2>5, <2>6
<1> QED
  BY <1>2, <1>4, <1>5, <1>6

LEMMA TailIs ==
  ASSUME NEW S, NEW s \in Seq(S), s # <<>>
  PROVE  /\ Tail(s) \in Seq(S) /\ Len(Tail(s)) = Len(s) - 1 /\ Len(s) \in Nat /\ Len(s) >= 1
         /\ \A i \in 1..Len(Tail(s)) : Tail(s)[i] = s[i + 1] /\ i + 1 \in 1..Len(s)
OBVIOUS

\* Next of an iterator passes one entry, the least.
LEMMA AdvanceIs ==
  ASSUME NEW it, IterOk(it), it # <<>>, NEW it2, it2 = Advance(it)
  PROVE  /\ IterOk(it2)
         /\ \A e : InIter(it2, e) => InIter(it, e) /\ Less(it[1][1], e)
<1>1. it \in Seq(Seq(Keys)) /\ Len(it) \in Nat /\ 1 \in 1..Len(it) /\ it[1] \in Seq(Keys) /\ 1 \in 1..Len(it[1])
  BY HeadIs DEF IterOk
<1>2. \A b \in 1..Len(it) : it[b] \in Seq(Keys) /\ it[b] # <<>> /\ Ascending(it[b])
  BY <1>1 DEF IterOk
<1>3. \A b, c \in 1..Len(it) : b < c =>
        \A i \in 1..Len(it[b]), j \in 1..Len(it[c]) : Less(it[b][i], it[c][j])
  BY DEF IterOk
<1>4. CASE Len(it[1]) = 1
  <2>1. it2 = Tail(it)
    BY <1>4 DEF Advance
  <2>2. /\ it2 \in Seq(Seq(Keys)) /\ Len(it2) \in Nat
        /\ \A b \in 1..Len(it2) : it2[b] = it[b + 1] /\ b + 1 \in 1..Len(it)
    BY <1>1, <2>1, TailIs
  <2>3. ASSUME NEW b \in 1..Len(it2)
        PROVE  it2[b] # <<>> /\ Ascending(it2[b])
    BY <1>2, <2>2
  <2>4. ASSUME NEW b \in 1..Len(it2), NEW c \in 1..Len(it2), b < c,
               NEW i \in 1..Len(it2[b]), NEW j \in 1..Len(it2[c])
        PROVE  Less(it2[b][i], it2[c][j])
    <3>1. b + 1 < c + 1
      BY <2>2, <2>4
    <3> QED
      BY <1>3, <2>2, <3>1
  <2>5. IterOk(it2)
    BY <2>2, <2>3, <2>4 DEF IterOk
  <2>6. ASSUME NEW e, InIter(it2, e)
        PROVE  InIter(it, e) /\ Less(it[1][1], e)
    <3>1. PICK b \in 1..Len(it2) : \E i \in 1..Len(it2[b]) : e = it2[b][i]
      BY <2>6 DEF InIter
    <3>2. PICK i \in 1..Len(it2[b]) : e = it2[b][i]
      BY <3>1
    <3>3. PICK d : d = b + 1
      OBVIOUS
    <3>4. d \in 1..Len(it) /\ i \in 1..Len(it[d]) /\ e = it[d][i] /\ 1 < d
      BY <2>2, <3>2, <3>3
    <3> QED
      BY <1>1, <1>3, <3>4 DEF InIter
  <2> QED
    BY <2>5, <2>6
<1>5. CASE Len(it[1]) # 1
  <2>1. PICK u : u = Tail(it[1])
    OBVIOUS
  <2>2. it2 = [it EXCEPT ![1] = u]
    BY <1>5, <2>1 DEF Advance
  <2>3. /\ u \in Seq(Keys) /\ Len(u) = Len(it[1]) - 1 /\ Len(it[1]) \in Nat /\ Len(it[1]) >= 1
        /\ \A i \in 1..Len(u) : u[i] = it[1][i + 1] /\ i + 1 \in 1..Len(it[1])
    BY <1>1, <1>2, <2>1, TailIs
  <2>4. u # <<>> /\ Len(u) \in Nat
    <3>1. Len(u) \in Nat /\ Len(u) # 0
      BY <1>5, <2>3
    <3>2. Len(<<>>) = 0
      OBVIOUS
    <3> QED
      BY <3>1, <3>2
  <2>5. it2 \in Seq(Seq(Keys)) /\ Len(it2) = Len(it) /\ \A b \in 1..Len(it) : it2[b] = IF b = 1 THEN u ELSE it[b]
    BY <1>1, <2>2, <2>3
  <2>6. Ascending(u)
    <3>1. ASSUME NEW i \in 1..Len(u), NEW j \in 1..Len(u), i < j
          PROVE  Less(u[i], u[j])
      <4>1. PICK x, y : x = i + 1 /\ y = j + 1
        OBVIOUS
      <4>2. x \in 1..Len(it[1]) /\ y \in 1..Len(it[1]) /\ x < y /\ u[i] = it[1][x] /\ u[j] = it[1][y]
        BY <2>3, <3>1, <4>1
      <4>3. Ascending(it[1])
        BY <1>1, <1>2
      <4> QED
        BY <4>2, <4>3 DEF Ascending
    <3> QED
      BY <3>1 DEF Ascending
  <2>7. \A b \in 1..Len(it2) : it2[b] # <<>> /\ Ascending(it2[b])
    BY <1>2, <2>4, <2>5, <2>6
  <2>8. ASSUME NEW b \in 1..Len(it2), NEW i \in 1..Len(it2[b])
        PROVE  \E j \in 1..Len(it[b]) : it2[b][i] = it[b][j] /\ (b = 1 => 1 < j)
    <3>1. CASE b = 1
      <4>1. i \in 1..Len(u) /\ it2[b][i] = u[i]
        BY <2>5, <2>8, <3>1
      <4>2. PICK j : j = i + 1
        OBVIOUS
      <4>3. j \in 1..Len(it[1]) /\ u[i] = it[1][j] /\ 1 < j
        BY <2>3, <2>4, <4>1, <4>2
      <4> QED
        BY <3>1, <4>1, <4>3
    <3>2. CASE b # 1
      BY <2>5, <2>8, <3>2
    <3> QED
      BY <3>1, <3>2
  <2>9. ASSUME NEW b \in 1..Len(it2), NEW c \in 1..Len(it2), b < c,
               NEW i \in 1..Len(it2[b]), NEW j \in 1..Len(it2[c])
        PROVE  Less(it2[b][i], it2[c][j])
    <3>1. PICK x \in 1..Len(it[b]) : it2[b][i] = it[b][x]
      BY <2>8
    <3>2. PICK y \in 1..Len(it[c]) : it2[c][j] = it[c][y]
      BY <2>8
    <3>3. b \in 1..Len(it) /\ c \in 1..Len(it)
      BY <2>5
    <3> QED
      BY <1>3, <2>9, <3>1, <3>2, <3>3
  <2>10. IterOk(it2)
    BY <2>5, <2>7, <2>9 DEF IterOk
  <2>11. ASSUME NEW e, InIter(it2, e)
         PROVE  InIter(it, e) /\ Less(it[1][1], e)
    <3>1. PICK b \in 1..Len(it2) : \E i \in 1..Len(it2[b]) : e = it2[b][i]
      BY <2>11 DEF InIter
    <3>2. PICK j \in 1..Len(it[b]) : e = it[b][j] /\ (b = 1 => 1 < j)
      BY <2>8, <3>1
    <3>3. b \in 1..Len(it)
      BY <2>5
    <3>4. InIter(it, e)
      BY <3>2, <3>3 DEF InIter
    <3>5. CASE b = 1
      <4>1. Ascending(it[1])
        BY <1>1, <1>2
      <4> QED
        BY <1>1, <3>2, <3>4, <3>5, <4>1 DEF Ascending
    <3>6. CASE b # 1
      <4>1. 1 < b
        BY <1>1, <3>3, <3>6
      <4> QED
        BY <1>1, <1>3, <3>2, <3>3, <3>4, <4>1
    <3> QED
      BY <3>5, <3>6
  <2> QED
    BY <2>10, <2>11
<1> QED
  BY <1>4, <1>5

LEMMA FindSmallestIs ==
  ASSUME NEW list, NEW n, n = FindSmallest(list), n # 0
  PROVE  /\ n \in 1..Len(list) /\ list[n] # <<>>
         /\ \A i \in 1..Len(list) : list[i] # <<>> => ~Less(list[i][1][1], list[n][1][1])
<1> DEFINE P(it) == it # <<>> /\ \A i \in 1..Len(list) : list[i] # <<>> => ~Less(list[i][1][1], it[1][1])
           I == {j \in 1..Len(list) : P(list[j])}
<1>1. n = IF I # {} THEN Min(I) ELSE 0
  BY DEF FindSmallest, SelectInSeq
<1>2. I # {} => Min(I) \in I
  <2>1. I \in SUBSET Nat
    OBVIOUS
  <2> HIDE DEF I
  <2> QED
    BY <2>1, MinOf
<1>3. n \in I
  BY <1>1, <1>2
<1> QED
  BY <1>3

\* The lists before and after an entry, which nothing that is left is before.
Rest(list, list2, key) ==
  /\ Len(list2) = Len(list)
  /\ \E n \in 1..Len(list) : InIter(list[n], key)
  /\ \A n \in 1..Len(list2) : \A d : InIter(list2[n], d) => InIter(list[n], d) /\ AtMost(key, d)

Stepped(list, list2, n) == list2 = [list EXCEPT ![n] = Advance(list[n])]

LEMMA SteppedIs ==
  ASSUME NEW t, NEW S, FileSet(t, S), NEW list, ListOk(list, t, S), NEW n, n = FindSmallest(list), n # 0,
         NEW key, key = list[n][1][1], NEW list2, Stepped(list, list2, n)
  PROVE  ListOk(list2, t, S) /\ Rest(list, list2, key) /\ key \in Keys /\ FromFiles(t, S, key)
<1>1. /\ n \in 1..Len(list) /\ list[n] # <<>>
      /\ \A i \in 1..Len(list) : list[i] # <<>> => ~Less(list[i][1][1], key)
  BY FindSmallestIs
<1>2. list \in Seq(Seq(Seq(Keys))) /\ \A i \in 1..Len(list) : IterOk(list[i]) /\ list[i] \in Seq(Seq(Keys))
  BY DEF ListOk, IterOk
<1>3. PICK it, it2 : it = list[n] /\ it2 = Advance(it)
  OBVIOUS
<1>4. IterOk(it) /\ it # <<>>
  BY <1>1, <1>2, <1>3
<1>5. IterOk(it2) /\ \A e : InIter(it2, e) => InIter(it, e) /\ Less(key, e)
  BY <1>3, <1>4, AdvanceIs
<1>6. key \in Keys /\ InIter(it, key)
  BY <1>3, <1>4, HeadIs
<1>7. \A i \in 1..Len(list) : \A e : InIter(list[i], e) => FromFiles(t, S, e)
  BY DEF ListOk
<1>8. FromFiles(t, S, key)
  BY <1>1, <1>3, <1>6, <1>7
<1>9. it2 \in Seq(Seq(Keys))
  BY <1>5 DEF IterOk
<1>10. /\ list2 \in Seq(Seq(Seq(Keys))) /\ Len(list2) = Len(list)
       /\ \A i \in 1..Len(list) : list2[i] = IF i = n THEN it2 ELSE list[i]
  <2>1. list2 = [list EXCEPT ![n] = it2]
    BY <1>3 DEF Stepped
  <2> QED
    BY <1>1, <1>2, <1>9, <2>1
<1>11. ASSUME NEW i \in 1..Len(list), NEW d, InIter(list2[i], d)
       PROVE  InIter(list[i], d) /\ AtMost(key, d)
  <2>1. CASE i = n
    BY <1>3, <1>5, <1>10, <1>11, <2>1 DEF AtMost
  <2>2. CASE i # n
    <3>1. list2[i] = list[i] /\ InIter(list[i], d) /\ IterOk(list[i])
      BY <1>2, <1>10, <1>11, <2>2
    <3>2. list[i] # <<>>
      BY <3>1 DEF InIter
    <3>3. PICK h : h = list[i][1][1]
      OBVIOUS
    <3>4. h \in Keys /\ InIter(list[i], h) /\ d \in Keys /\ (d = h \/ Less(h, d))
      BY <3>1, <3>2, <3>3, HeadIs
    <3>5. ~Less(h, key)
      BY <1>1, <3>2, <3>3
    <3>6. CASE h.s = key.s
      <4>1. PICK f \in S : InFile(t, f, h)
        BY <1>7, <3>4 DEF FromFiles
      <4>2. PICK g \in S : InFile(t, g, key)
        BY <1>8 DEF FromFiles
      <4>3. h = key
        BY <3>6, <4>1, <4>2, EntryOnce DEF FileSet
      <4> QED
        BY <3>1, <3>4, <4>3 DEF AtMost
    <3>7. CASE h.s # key.s
      <4>1. Less(key, h)
        BY <1>6, <3>4, <3>5, <3>7, LessTotal
      <4>2. Less(key, d)
        BY <1>6, <3>4, <4>1, LessTrans
      <4> QED
        BY <3>1, <4>2 DEF AtMost
    <3> QED
      BY <3>6, <3>7
  <2> QED
    BY <2>1, <2>2
<1>12. Rest(list, list2, key)
  BY <1>1, <1>3, <1>6, <1>10, <1>11 DEF Rest
<1>13. \A i \in 1..Len(list2) : IterOk(list2[i]) /\ \A e : InIter(list2[i], e) => FromFiles(t, S, e)
  BY <1>2, <1>5, <1>7, <1>10, <1>11
<1> QED
  BY <1>6, <1>8, <1>10, <1>12, <1>13 DEF ListOk

LEMMA OutputsRest ==
  ASSUME NEW outputs, NEW list, NEW list2, NEW t, NEW S, NEW F, NEW key,
         OutputsOk(outputs, list, t, S, F), Rest(list, list2, key)
  PROVE  /\ OutputsOk(outputs, list2, t, S, F)
         /\ \A o \in 1..Len(outputs) : \A e : InFile(t, outputs[o], e) => AtMost(e, key)
<1>1. ASSUME NEW o \in 1..Len(outputs)
      PROVE  \A e, n : InFile(t, outputs[o], e) /\ n \in 1..Len(list2) => \A d : InIter(list2[n], d) => AtMost(e, d)
  BY DEF OutputsOk, Rest
<1>2. ASSUME NEW o \in 1..Len(outputs), NEW e, InFile(t, outputs[o], e)
      PROVE  AtMost(e, key)
  BY <1>2 DEF OutputsOk, Rest
<1> QED
  BY <1>1, <1>2 DEF OutputsOk

\* builder->Add to the file of the last output.
LEMMA AddToLast ==
  ASSUME NEW t \in Seq(Tables), NEW F, NEW S, NEW list, NEW outputs, NEW key \in Keys,
         OutputsOk(outputs, list, t, S, F), outputs # <<>>, FromFiles(t, S, key), S \subseteq All(F),
         \A o \in 1..Len(outputs) : \A e : InFile(t, outputs[o], e) => AtMost(e, key),
         \A n \in 1..Len(list) : \A d : InIter(list[n], d) => AtMost(key, d),
         FilesOk(t, F),
         NEW f, f = Last(outputs), Less(Last(t[f].data), key), NEW t2, t2 = [t EXCEPT ![f] = AddEntry(t[f], key)]
  PROVE  /\ t2 \in Seq(Tables) /\ SameFiles(t, t2, All(F))
         /\ OutputsOk(outputs, list, t2, S, F)
<1>1. PICK n : n = Len(outputs)
  OBVIOUS
<1>2. outputs \in Seq(Nat) /\ n \in Nat /\ n \in 1..Len(outputs) /\ f = outputs[n]
  BY <1>1 DEF OutputsOk, Last
<1>3. f \in 1..Len(t) /\ f \notin All(F) /\ WellFormed(t[f]) /\ IsFile(t, f)
  BY <1>2 DEF OutputsOk, IsFile
<1>4. PICK d, d2 : d = t[f].data /\ d2 = Append(d, key)
  OBVIOUS
<1>5. /\ d \in Seq(Keys) /\ Len(d) \in Nat /\ Len(d) >= 1 /\ t[f] \in Tables
      /\ t[f].smallest \in Keys /\ t[f].largest \in Keys
  BY <1>3, <1>4, FileIs
<1>6. d2 \in Seq(Keys) /\ Len(d2) = Len(d) + 1 /\ \A i \in 1..Len(d2) : d2[i] = IF i <= Len(d) THEN d[i] ELSE key
  BY <1>4, <1>5
<1>7. PICK x : x = AddEntry(t[f], key)
  OBVIOUS
<1>8. x \in Tables /\ x.data = d2 /\ x.largest = key /\ x.smallest = t[f].smallest
  <2>1. x = [t[f] EXCEPT !.data = d2, !.largest = key]
    BY <1>4, <1>7 DEF AddEntry
  <2> QED
    BY <1>5, <1>6, <2>1 DEF Tables
<1>9. /\ t2 \in Seq(Tables) /\ Len(t2) = Len(t)
      /\ \A g \in 1..Len(t) : t2[g] = IF g = f THEN x ELSE t[g]
  <2>1. t2 = [t EXCEPT ![f] = x]
    BY <1>7
  <2> QED
    BY <1>3, <1>8, <2>1
<1>10. \A g \in 1..Len(t) : g # f => SameFile(t, t2, g)
  BY <1>9 DEF SameFile
<1>11. SameFiles(t, t2, All(F))
  BY <1>3, <1>10 DEF SameFiles, FilesOk
<1>12. \A e : InFile(t2, f, e) => InFile(t, f, e) \/ e = key
  <2>1. t2[f].data = d2
    BY <1>3, <1>8, <1>9
  <2>2. ASSUME NEW e, InFile(t2, f, e)
        PROVE  InFile(t, f, e) \/ e = key
    <3>1. PICK i \in 1..Len(d2) : e = d2[i]
      BY <2>1, <2>2 DEF InFile
    <3>2. CASE i <= Len(d)
      <4>1. i \in 1..Len(d) /\ e = d[i]
        BY <1>5, <1>6, <3>1, <3>2
      <4> QED
        BY <1>4, <4>1 DEF InFile
    <3>3. CASE ~(i <= Len(d))
      BY <1>6, <3>1, <3>3
    <3> QED
      BY <3>2, <3>3
  <2> QED
    BY <2>2
<1>13. ASSUME NEW i \in 1..Len(d)
       PROVE  Less(d[i], key)
  <2>1. PICK a, b : a = d[i] /\ b = t[f].largest
    OBVIOUS
  <2>2. b = d[Len(d)]
    BY <1>3, <1>4, <2>1 DEF WellFormed
  <2>3. Less(b, key)
    BY <1>4, <2>2 DEF Last
  <2>4. InFile(t, f, a)
    BY <1>4, <2>1 DEF InFile
  <2>5. a \in Keys /\ b \in Keys /\ (a = b \/ Less(a, b))
    BY <1>3, <1>5, <2>1, <2>4, EntryIs
  <2>6. Less(a, key)
    BY <2>3, <2>5, LessTrans
  <2> QED
    BY <2>1, <2>6
<1>14. Ascending(d2)
  <2>1. ASSUME NEW i \in 1..Len(d2), NEW j \in 1..Len(d2), i < j
        PROVE  Less(d2[i], d2[j])
    <3>1. i \in 1..Len(d) /\ d2[i] = d[i]
      BY <1>5, <1>6, <2>1
    <3>2. CASE j <= Len(d)
      <4>1. j \in 1..Len(d) /\ d2[j] = d[j]
        BY <1>5, <1>6, <3>2
      <4>2. Ascending(d)
        BY <1>3, <1>4 DEF WellFormed
      <4> QED
        BY <2>1, <3>1, <4>1, <4>2 DEF Ascending
    <3>3. CASE ~(j <= Len(d))
      <4>1. d2[j] = key
        BY <1>6, <3>3
      <4> QED
        BY <1>13, <3>1, <4>1
    <3> QED
      BY <3>2, <3>3
  <2> QED
    BY <2>1 DEF Ascending
<1>15. WellFormed(x)
  <2>1. d2[1] = d[1] /\ d2[Len(d2)] = key /\ d2 # <<>>
    <3>1. 1 \in 1..Len(d2) /\ Len(d2) \in 1..Len(d2) /\ 1 <= Len(d) /\ ~(Len(d2) <= Len(d))
      BY <1>5, <1>6
    <3>2. d2 # <<>>
      BY <1>4, <1>5
    <3> QED
      BY <1>6, <3>1, <3>2
  <2>2. t[f].smallest = d[1]
    BY <1>3, <1>4 DEF WellFormed
  <2> QED
    BY <1>8, <1>14, <2>1, <2>2 DEF WellFormed
<1>16. \A o \in 1..Len(outputs) : o # n => outputs[o] # f
  BY <1>2 DEF OutputsOk
<1>17. \A o \in 1..Len(outputs) : outputs[o] \in 1..Len(t)
  BY DEF OutputsOk
<1>18. \A o \in 1..Len(outputs) : o # n => SameFile(t, t2, outputs[o])
  BY <1>10, <1>16, <1>17
<1>19. \A e : FromFiles(t, S, e) => FromFiles(t2, S, e)
  <2>1. SameFiles(t, t2, S)
    BY <1>11 DEF SameFiles
  <2> QED
    BY <2>1, SameFrom
<1>20. ASSUME NEW o \in 1..Len(outputs)
       PROVE  /\ outputs[o] \in 1..Len(t2) /\ outputs[o] \notin All(F)
              /\ WellFormed(t2[outputs[o]])
              /\ \A e : InFile(t2, outputs[o], e) => FromFiles(t2, S, e)
              /\ \A e, k : InFile(t2, outputs[o], e) /\ k \in 1..Len(list) =>
                   \A z : InIter(list[k], z) => AtMost(e, z)
  <2>1. outputs[o] \in 1..Len(t2) /\ outputs[o] \notin All(F)
    BY <1>9, <1>17 DEF OutputsOk
  <2>2. /\ \A e : InFile(t, outputs[o], e) => FromFiles(t, S, e)
        /\ \A e, k : InFile(t, outputs[o], e) /\ k \in 1..Len(list) =>
             \A z : InIter(list[k], z) => AtMost(e, z)
    BY DEF OutputsOk
  <2>3. CASE o = n
    <3>1. outputs[o] = f /\ t2[f] = x
      BY <1>2, <1>3, <1>9, <2>3
    <3>2. \A e : InFile(t2, f, e) => FromFiles(t2, S, e)
      BY <1>12, <1>19, <2>2, <3>1
    <3>3. \A e, k : InFile(t2, f, e) /\ k \in 1..Len(list) => \A z : InIter(list[k], z) => AtMost(e, z)
      BY <1>12, <2>2, <3>1
    <3> QED
      BY <1>15, <2>1, <3>1, <3>2, <3>3
  <2>4. CASE o # n
    <3>1. SameFile(t, t2, outputs[o]) /\ WellFormed(t[outputs[o]])
      BY <1>18, <2>4 DEF OutputsOk
    <3>2. /\ \A e : InFile(t2, outputs[o], e) <=> InFile(t, outputs[o], e)
          /\ WellFormed(t2[outputs[o]])
      BY <3>1, SameInFile
    <3> QED
      BY <1>19, <2>1, <2>2, <3>2
  <2> QED
    BY <2>3, <2>4
<1>21. Follow(t2, outputs)
  <2>1. ASSUME NEW i \in 1..Len(outputs), NEW j \in 1..Len(outputs), i < j
        PROVE  AtMost(t2[outputs[i]].largest, t2[outputs[j]].smallest)
    <3>1. AtMost(t[outputs[i]].largest, t[outputs[j]].smallest)
      BY <2>1 DEF OutputsOk, Follow
    <3>2. i # n
      BY <1>1, <1>2, <2>1
    <3>3. t2[outputs[i]].largest = t[outputs[i]].largest
      BY <1>18, <3>2 DEF SameFile
    <3>4. t2[outputs[j]].smallest = t[outputs[j]].smallest
      <4>1. CASE j = n
        BY <1>2, <1>3, <1>8, <1>9, <4>1
      <4>2. CASE j # n
        BY <1>18, <4>2 DEF SameFile
      <4> QED
        BY <4>1, <4>2
    <3> QED
      BY <3>1, <3>3, <3>4
  <2> QED
    BY <2>1 DEF Follow
<1>23. \A i, j \in 1..Len(outputs) : outputs[i] = outputs[j] => i = j
  BY DEF OutputsOk
<1>22. OutputsOk(outputs, list, t2, S, F)
  BY <1>2, <1>20, <1>21, <1>23 DEF OutputsOk
<1> QED
  BY <1>9, <1>11, <1>22

\* A new output of one entry.
LEMMA NewOutput ==
  ASSUME NEW t \in Seq(Tables), NEW F, NEW S, NEW list, NEW outputs, NEW key \in Keys,
         OutputsOk(outputs, list, t, S, F), FromFiles(t, S, key), S \subseteq All(F),
         \A o \in 1..Len(outputs) : \A e : InFile(t, outputs[o], e) => AtMost(e, key),
         \A n \in 1..Len(list) : \A d : InIter(list[n], d) => AtMost(key, d),
         FilesOk(t, F), NEW x, x = NewTable(<<key>>), NEW new, NEW t2, Appended(t, t2, x, new),
         NEW outputs2, outputs2 = Append(outputs, new)
  PROVE  /\ t2 \in Seq(Tables) /\ SameFiles(t, t2, All(F))
         /\ OutputsOk(outputs2, list, t2, S, F)
<1>1. PICK d : d = <<key>>
  OBVIOUS
<1>2. d \in Seq(Keys) /\ d # <<>> /\ Len(d) = 1 /\ d[1] = key /\ Ascending(d)
  BY <1>1 DEF Ascending
<1>3. x \in Tables /\ WellFormed(x) /\ x.data = d
  BY <1>1, <1>2, NewTableIs
<1>4. x.smallest = key /\ x.largest = key
  BY <1>2, <1>3 DEF WellFormed
<1>5. /\ t2 \in Seq(Tables) /\ Len(t2) = new /\ Len(t) \in Nat /\ new = Len(t) + 1 /\ t2[new] = x
      /\ \A g \in 1..Len(t) : SameFile(t, t2, g)
  BY <1>3, AppendTable
<1>6. SameFiles(t, t2, All(F)) /\ new \notin All(F)
  BY <1>5 DEF SameFiles, FilesOk
<1>7. outputs \in Seq(Nat) /\ \A o \in 1..Len(outputs) : outputs[o] \in 1..Len(t) /\ outputs[o] \notin All(F)
  BY DEF OutputsOk
<1>8. SameFiles(t, t2, S)
  BY <1>6 DEF SameFiles
<1>9. OutputsOk(outputs, list, t2, S, F)
  BY <1>5, <1>7, <1>8, SameOutputs
<1>10. PICK n : n = Len(outputs)
  OBVIOUS
<1>11. /\ n \in Nat /\ outputs2 \in Seq(Nat) /\ Len(outputs2) = n + 1
       /\ \A o \in 1..n : outputs2[o] = outputs[o]
       /\ outputs2[n + 1] = new
  BY <1>5, <1>7, <1>10
<1>12. \A e : InFile(t2, new, e) => e = key
  BY <1>2, <1>3, <1>5 DEF InFile
<1>13. FromFiles(t2, S, key)
  BY <1>8, SameFrom
<1>14. ASSUME NEW o \in 1..Len(outputs2)
       PROVE  /\ outputs2[o] \in 1..Len(t2) /\ outputs2[o] \notin All(F)
              /\ WellFormed(t2[outputs2[o]])
              /\ \A e : InFile(t2, outputs2[o], e) => FromFiles(t2, S, e)
              /\ \A e, k : InFile(t2, outputs2[o], e) /\ k \in 1..Len(list) =>
                   \A z : InIter(list[k], z) => AtMost(e, z)
  <2>1. CASE o = n + 1
    <3>1. outputs2[o] = new /\ new \in 1..Len(t2) /\ WellFormed(t2[new])
      BY <1>3, <1>5, <1>11, <2>1
    <3> QED
      BY <1>6, <1>12, <1>13, <3>1
  <2>2. CASE o # n + 1
    <3>1. o \in 1..Len(outputs) /\ outputs2[o] = outputs[o]
      BY <1>10, <1>11, <2>2
    <3> QED
      BY <1>9, <3>1 DEF OutputsOk
  <2> QED
    BY <2>1, <2>2
<1>15. Follow(t2, outputs2)
  <2>1. ASSUME NEW i \in 1..Len(outputs2), NEW j \in 1..Len(outputs2), i < j
        PROVE  AtMost(t2[outputs2[i]].largest, t2[outputs2[j]].smallest)
    <3>1. i \in 1..Len(outputs) /\ outputs2[i] = outputs[i]
      BY <1>10, <1>11, <2>1
    <3>2. CASE j = n + 1
      <4>1. PICK f : f = outputs[i]
        OBVIOUS
      <4>2. SameFile(t, t2, f) /\ WellFormed(t[f]) /\ f \in 1..Len(t)
        BY <1>5, <1>7, <3>1, <4>1 DEF OutputsOk
      <4>3. IsFile(t, f)
        BY <4>2 DEF IsFile
      <4>4. InFile(t, f, t[f].largest)
        BY <4>3, FileIs
      <4>5. AtMost(t[f].largest, key)
        BY <3>1, <4>1, <4>4
      <4>6. t2[f].largest = t[f].largest /\ t2[outputs2[j]].smallest = key
        BY <1>4, <1>5, <1>11, <3>2, <4>2 DEF SameFile
      <4> QED
        BY <3>1, <4>1, <4>5, <4>6
    <3>3. CASE j # n + 1
      <4>1. j \in 1..Len(outputs) /\ outputs2[j] = outputs[j]
        BY <1>10, <1>11, <3>3
      <4> QED
        BY <1>9, <2>1, <3>1, <4>1 DEF OutputsOk, Follow
    <3> QED
      BY <3>2, <3>3
  <2> QED
    BY <2>1 DEF Follow
<1>17. ASSUME NEW i \in 1..Len(outputs2), NEW j \in 1..Len(outputs2), outputs2[i] = outputs2[j]
       PROVE  i = j
  <2>1. \A o \in 1..n : outputs[o] # new
    BY <1>5, <1>7, <1>10
  <2>2. \A o \in 1..(n + 1) : o \in 1..n \/ o = n + 1
    BY <1>11
  <2>3. \A o, p \in 1..n : outputs[o] = outputs[p] => o = p
    BY <1>10 DEF OutputsOk
  <2> QED
    BY <1>11, <1>17, <2>1, <2>2, <2>3
<1>16. OutputsOk(outputs2, list, t2, S, F)
  BY <1>11, <1>14, <1>15, <1>17 DEF OutputsOk
<1> QED
  BY <1>5, <1>6, <1>16

IsRecord(x, c0, b0, l0, u, n, o, s, w, b, h) ==
  x = [c |-> c0, base |-> b0, list |-> l0, last_user_key |-> u, index |-> n, overlap |-> o,
       seen_key |-> s, outputs |-> w, building |-> b, hidden |-> h]

LEMMA RecordIs ==
  ASSUME NEW c0, NEW b0, NEW l0, NEW u, NEW n, NEW o, NEW s, NEW w, NEW b, NEW h, NEW x,
         IsRecord(x, c0, b0, l0, u, n, o, s, w, b, h)
  PROVE  x.c = c0 /\ x.list = l0 /\ x.outputs = w /\ x.building = b /\ MergeRecord(x)
BY DEF MergeRecord, IsRecord

LEMMA RecordHas ==
  ASSUME NEW x, MergeRecord(x)
  PROVE  \E b0, u, n, o, s, h : IsRecord(x, x.c, b0, x.list, u, n, o, s, x.outputs, x.building, h)
<1>1. IsRecord(x, x.c, x.base, x.list, x.last_user_key, x.index, x.overlap, x.seen_key, x.outputs, x.building, x.hidden)
  BY DEF MergeRecord, IsRecord
<1> QED
  BY <1>1

\* What an entry changes of the merge's record.
Advanced(x, x2, i, a, u, n, o, h) ==
  x2 = [x EXCEPT !.list[i] = a, !.last_user_key = u, !.index = n, !.overlap = o,
                 !.seen_key = TRUE, !.hidden = h]
Written(x, x2, w, b) == x2 = [x EXCEPT !.outputs = w, !.building = b]

LEMMA RecordAdvances ==
  ASSUME NEW x, MergeRecord(x), NEW i, NEW a, NEW u, NEW n, NEW o, NEW h, NEW x2,
         Advanced(x, x2, i, a, u, n, o, h), a = Advance(x.list[i])
  PROVE  /\ MergeRecord(x2) /\ x2.c = x.c /\ x2.outputs = x.outputs
         /\ Stepped(x.list, x2.list, i)
<1>1. PICK l2, true, c0, l0, w, b : /\ l2 = [x.list EXCEPT ![i] = a] /\ true = TRUE
                                    /\ c0 = x.c /\ l0 = x.list /\ w = x.outputs /\ b = x.building
  OBVIOUS
<1>2. PICK b0, u0, n0, o0, s0, h0 : IsRecord(x, c0, b0, l0, u0, n0, o0, s0, w, b, h0)
  BY <1>1, RecordHas
<1>3. x2 = [x EXCEPT !.list = l2, !.last_user_key = u, !.index = n, !.overlap = o,
                     !.seen_key = true, !.hidden = h]
  BY <1>1 DEF Advanced
<1>4. IsRecord(x2, c0, b0, l2, u, n, o, true, w, b, h)
  BY <1>2, <1>3 DEF IsRecord
<1>5. x2.c = c0 /\ x2.outputs = w /\ x2.list = l2 /\ MergeRecord(x2)
  BY ONLY <1>4, RecordIs
<1>6. Stepped(x.list, l2, i)
  BY <1>1 DEF Stepped
<1> QED
  BY <1>1, <1>5, <1>6

LEMMA RecordWritten ==
  ASSUME NEW x, MergeRecord(x), NEW w, NEW b, NEW x2, Written(x, x2, w, b)
  PROVE  /\ MergeRecord(x2) /\ x2.c = x.c /\ x2.list = x.list
         /\ x2.outputs = w /\ x2.building = b
<1>1. PICK c0, l0 : c0 = x.c /\ l0 = x.list
  OBVIOUS
<1>2. PICK b0, u, n, o, s, w0, b1, h : IsRecord(x, c0, b0, l0, u, n, o, s, w0, b1, h)
  BY <1>1, RecordHas
<1>3. IsRecord(x2, c0, b0, l0, u, n, o, s, w, b, h)
  BY <1>2 DEF IsRecord, Written
<1>4. x2.c = c0 /\ x2.outputs = w /\ x2.list = l0 /\ x2.building = b /\ MergeRecord(x2)
  BY ONLY <1>3, RecordIs
<1> QED
  BY <1>1, <1>4

LEMMA RecordDropped ==
  ASSUME NEW x, MergeRecord(x), NEW b, NEW x2, x2 = [x EXCEPT !.building = b]
  PROVE  /\ MergeRecord(x2) /\ x2.c = x.c /\ x2.list = x.list
         /\ x2.outputs = x.outputs /\ x2.building = b
<1>1. PICK c0, l0, w : c0 = x.c /\ l0 = x.list /\ w = x.outputs
  OBVIOUS
<1>2. PICK b0, u, n, o, s, b1, h : IsRecord(x, c0, b0, l0, u, n, o, s, w, b1, h)
  BY <1>1, RecordHas
<1>3. IsRecord(x2, c0, b0, l0, u, n, o, s, w, b, h)
  BY <1>2 DEF IsRecord
<1>4. x2.c = c0 /\ x2.outputs = w /\ x2.list = l0 /\ x2.building = b /\ MergeRecord(x2)
  BY ONLY <1>3, RecordIs
<1> QED
  BY <1>1, <1>4

\* An output that gets its first entry.
LEMMA FirstEntry ==
  ASSUME NEW key \in Keys, NEW t \in Seq(Tables), NEW t1, t1 = Append(t, OpenCompactionSSTable(key)),
         NEW f, f = Len(t1), NEW t2, t2 = [t1 EXCEPT ![f] = AddEntry(t1[f], key)],
         NEW x, x = NewTable(<<key>>)
  PROVE  Appended(t, t2, x, f)
<1>1. PICK open : open = OpenCompactionSSTable(key)
  OBVIOUS
<1>2. x = [smallest |-> key, largest |-> key, data |-> <<key>>, allow_seeks |-> AllowSeeks]
  BY DEF NewTable
<1>3. open = [smallest |-> key, largest |-> key, data |-> <<>>, allow_seeks |-> AllowSeeks]
  BY <1>1 DEF OpenCompactionSSTable, NewTable
<1>4. /\ AddEntry(open, key) = [open EXCEPT !.data = Append(open.data, key), !.largest = key]
      /\ open.data = <<>>
  BY <1>3 DEF AddEntry
<1>5. Append(<<>>, key) = <<key>>
  OBVIOUS
<1>6. AddEntry(open, key) = [open EXCEPT !.data = <<key>>, !.largest = key]
  BY <1>4, <1>5
<1>7. AddEntry(open, key) = x
  BY <1>2, <1>3, <1>6
<1>8. t1 = Append(t, open) /\ Len(t) \in Nat /\ f = Len(t) + 1 /\ t1[f] = open
  BY <1>1
<1>9. t2 = [t1 EXCEPT ![f] = x]
  BY <1>7, <1>8
<1>10. t2 = Append(t, x)
  <2>0. DOMAIN t1 = 1..(Len(t) + 1)
    BY <1>8
  <2>1. t2 = [i \in 1..(Len(t) + 1) |-> IF i = f THEN x ELSE t1[i]]
    BY <1>9, <2>0
  <2>2. Append(t, x) = [i \in 1..(Len(t) + 1) |-> IF i = Len(t) + 1 THEN x ELSE t[i]]
    BY <1>8
  <2>3. \A i \in 1..Len(t) : t1[i] = t[i]
    BY <1>8
  <2>4. \A i \in 1..(Len(t) + 1) : (IF i = f THEN x ELSE t1[i]) = (IF i = Len(t) + 1 THEN x ELSE t[i])
    BY <1>8, <2>3
  <2> QED
    BY <2>1, <2>2, <2>4
<1> QED
  BY <1>8, <1>10 DEF Appended


\* What is left to show of a merge that goes on, whatever it has written.
LEMMA MergeGoesOn ==
  ASSUME IInv, bg = "merge", NEW t2 \in Seq(Tables), SameFiles(table, t2, All(Sets(files_))),
         NEW x, MergeRecord(x), x.c = m.c, ListOk(x.list, table, Inputs(m.c)),
         OutputsOk(x.outputs, x.list, t2, Inputs(m.c), Sets(files_)), x.building => x.outputs # <<>>,
         m' = x, table' = t2, UNCHANGED <<files_, file_to_compact_, gets, log, flushed, last_sequence_, bg>>
  PROVE  IInv'
<1>1. PICK F, q, t, c : F = Sets(files_) /\ q = last_sequence_ /\ t = table /\ c = m.c
  OBVIOUS
<1>2. t \in Seq(Tables) /\ VersionOk(t, F, q) /\ InputsOk(c, t, F) /\ SameFiles(t, t2, All(F))
  BY <1>1 DEF IInv, TypeOK, VersionInv, MergeInv
<1>3. VersionOk(t2, F, q)
  BY <1>2, SameVersion
<1>4. \A l \in Levels \ {0} : Spread(t2, files_[l])
  BY <1>1, <1>2, SpreadKept DEF IInv, TypeOK, VersionInv
<1>5. InputsOk(c, t2, F)
  BY <1>2, SameInputs
<1>6. SameFiles(t, t2, Inputs(c))
  BY <1>2, InputsInAll DEF SameFiles
<1>7. ListOk(x.list, t, Inputs(c))
  BY <1>1
<1>8. ListOk(x.list, t2, Inputs(c))
  BY <1>6, <1>7, SameList
<1>9. TypeOK'
  BY DEF IInv, TypeOK
<1>10. VersionInv'
  BY <1>1, <1>3, <1>4 DEF VersionInv
<1>11. SeekInv' /\ GetsInv' /\ OnlyRepeatsStop'
  BY DEF IInv, SeekInv, GetsInv, OnlyRepeatsStop
<1>12. MergeInv'
  BY <1>1, <1>5, <1>8 DEF MergeInv
<1>13. LogInv'
  <2>1. PICK lg, fl : lg = log /\ fl = flushed
    OBVIOUS
  <2>2. LogOk(lg, fl, q) /\ LogKnows(lg, fl, t, All(F))
    BY <1>1, <2>1 DEF IInv, LogInv
  <2>3. LogKnows(lg, fl, t2, All(F))
    BY <1>2, <2>2, LogSame
  <2> QED
    BY <1>1, <2>1, <2>2, <2>3 DEF LogInv
<1> QED
  BY <1>9, <1>10, <1>11, <1>12, <1>13 DEF IInv

LEMMA MergeEntryStep ==
  ASSUME IInv, MergeEntry
  PROVE  IInv'
<1>1. PICK i, key, p, a : i = FindSmallest(m.list) /\ key = m.list[i][1][1] /\ p = Passed(key) /\ a = Advance(m.list[i])
  OBVIOUS
<1>2. PICK x : x = [m EXCEPT !.list[i] = a, !.last_user_key = key.u, !.index = p.index,
                             !.overlap = p.overlap, !.seen_key = TRUE,
                             !.hidden = m.hidden \cup {k \in {key} : Hidden(key)}]
  OBVIOUS
<1> DEFINE append == m.building /\ ~p.stop
           t == IF append THEN table ELSE Append(table, OpenCompactionSSTable(key))
           f == IF append THEN Last(m.outputs) ELSE Len(t)
           written == [t EXCEPT ![f] = AddEntry(t[f], key)]
<1>3. /\ bg = "merge" /\ i # 0 /\ ~Refused(key)
      /\ UNCHANGED <<files_, file_to_compact_, gets, log, flushed, last_sequence_, bg>>
      /\ IF Drop(key)
         THEN m' = [x EXCEPT !.building = append] /\ UNCHANGED table
         ELSE /\ m' = [x EXCEPT !.outputs = IF append THEN x.outputs ELSE Append(x.outputs, f),
                                !.building = Len(written[f].data) < MaxFileSize]
              /\ table' = written
  BY ONLY ZenonT(30), MergeEntry, <1>1, <1>2 DEF MergeEntry, NextKey, logVars
<1>4. /\ MergeRecord(m) /\ InputsOk(m.c, table, Sets(files_))
      /\ ListOk(m.list, table, Inputs(m.c))
      /\ OutputsOk(m.outputs, m.list, table, Inputs(m.c), Sets(files_))
      /\ m.building => m.outputs # <<>>
  BY <1>3 DEF IInv, MergeInv
<1>5. MergeRecord(x) /\ x.c = m.c /\ x.outputs = m.outputs /\ Stepped(m.list, x.list, i)
  <2>1. PICK u, n, o, h : u = key.u /\ n = p.index /\ o = p.overlap /\ h = m.hidden \cup {k \in {key} : Hidden(key)}
    OBVIOUS
  <2>2. Advanced(m, x, i, a, u, n, o, h)
    BY <1>2, <2>1 DEF Advanced
  <2>3. PICK y : y = m
    OBVIOUS
  <2>4. Advanced(y, x, i, a, u, n, o, h) /\ a = Advance(y.list[i]) /\ MergeRecord(y)
    BY <1>1, <1>4, <2>2, <2>3
  <2>5. MergeRecord(x) /\ x.c = y.c /\ x.outputs = y.outputs /\ Stepped(y.list, x.list, i)
    BY ONLY <2>4, RecordAdvances
  <2> QED
    BY ONLY <2>3, <2>5
<1>6. PICK F, S, list, list2, outs, tab : /\ F = Sets(files_) /\ S = Inputs(m.c) /\ list = m.list /\ list2 = x.list
                                          /\ outs = m.outputs /\ tab = table
  OBVIOUS
<1>7. tab \in Seq(Tables) /\ VersionOk(tab, F, last_sequence_) /\ FilesOk(tab, F)
  BY <1>6 DEF IInv, TypeOK, VersionInv, VersionOk
<1>8. S \subseteq All(F)
  BY <1>4, <1>6, InputsInAll
<1>9. FileSet(tab, S)
  BY <1>7, <1>8, VersionFiles
<1>10. Stepped(list, list2, i)
  BY <1>5, <1>6
<1>11. ListOk(list, tab, S) /\ i = FindSmallest(list) /\ i # 0 /\ key = list[i][1][1]
  BY <1>1, <1>3, <1>4, <1>6
<1>12. ListOk(list2, tab, S) /\ Rest(list, list2, key) /\ key \in Keys /\ FromFiles(tab, S, key)
  BY <1>9, <1>10, <1>11, SteppedIs
<1>13. OutputsOk(outs, list, tab, S, F)
  BY <1>4, <1>6
<1>14. /\ OutputsOk(outs, list2, tab, S, F)
       /\ \A o \in 1..Len(outs) : \A e : InFile(tab, outs[o], e) => AtMost(e, key)
  BY <1>12, <1>13, OutputsRest
<1>15. \A n \in 1..Len(list2) : \A d : InIter(list2[n], d) => AtMost(key, d)
  BY <1>12 DEF Rest
<1>16. PICK x2, t2 : x2 = m' /\ t2 = table'
  OBVIOUS
<1>17. SUFFICES /\ t2 \in Seq(Tables) /\ SameFiles(table, t2, All(Sets(files_)))
                /\ MergeRecord(x2) /\ x2.c = m.c /\ ListOk(x2.list, table, Inputs(m.c))
                /\ OutputsOk(x2.outputs, x2.list, t2, Inputs(m.c), Sets(files_))
                /\ x2.building => x2.outputs # <<>>
  BY <1>3, <1>16, MergeGoesOn
<1>18. SUFFICES /\ t2 \in Seq(Tables) /\ SameFiles(tab, t2, All(F))
                /\ MergeRecord(x2) /\ x2.c = x.c /\ x2.list = x.list
                /\ OutputsOk(x2.outputs, list2, t2, S, F)
                /\ x2.building => x2.outputs # <<>>
  BY <1>5, <1>6, <1>12
<1>19. CASE Drop(key)
  <2>1. PICK b : b = append
    OBVIOUS
  <2>2. x2 = [x EXCEPT !.building = b] /\ t2 = tab
    BY <1>3, <1>6, <1>16, <1>19, <2>1
  <2>3. MergeRecord(x2) /\ x2.c = x.c /\ x2.list = x.list /\ x2.outputs = x.outputs /\ x2.building = b
    BY <1>5, <2>2, RecordDropped
  <2>4. x2.building => m.building
    BY <2>1, <2>3
  <2>5. x2.building => x2.outputs # <<>>
    BY <1>4, <1>5, <2>3, <2>4
  <2>6. SameFiles(tab, t2, All(F))
    BY <1>7, <2>2 DEF SameFiles, SameFile, FilesOk
  <2> QED
    BY <1>5, <1>6, <1>7, <1>14, <2>2, <2>3, <2>5, <2>6
<1>20. CASE ~Drop(key) /\ append
  <2>1. PICK b, g : b = (Len(written[f].data) < MaxFileSize) /\ g = Last(outs)
    OBVIOUS
  <2>2. t2 = [tab EXCEPT ![g] = AddEntry(tab[g], key)]
    BY <1>3, <1>6, <1>16, <1>20, <2>1
  <2>3. Written(x, x2, outs, b)
    BY <1>3, <1>5, <1>6, <1>16, <1>20, <2>1 DEF Written
  <2>4. MergeRecord(x2) /\ x2.c = x.c /\ x2.list = x.list /\ x2.outputs = outs
    BY <1>5, <2>3, RecordWritten
  <2>5. outs # <<>>
    BY <1>4, <1>6, <1>20
  <2>7. Less(Last(tab[g].data), key)
    BY <1>1, <1>3, <1>6, <1>20, <2>1 DEF Refused
  <2> HIDE DEF append, t, f, written
  <2>6. t2 \in Seq(Tables) /\ SameFiles(tab, t2, All(F)) /\ OutputsOk(outs, list2, t2, S, F)
    BY ZenonT(30), <1>7, <1>8, <1>12, <1>14, <1>15, <2>1, <2>2, <2>5, <2>7, AddToLast
  <2> QED
    BY <2>4, <2>5, <2>6
<1>21. CASE ~Drop(key) /\ ~append
  <2>1. PICK b, t1, g : b = (Len(written[f].data) < MaxFileSize) /\ t1 = Append(tab, OpenCompactionSSTable(key)) /\ g = Len(t1)
    OBVIOUS
  <2>2. t2 = [t1 EXCEPT ![g] = AddEntry(t1[g], key)]
    BY <1>3, <1>6, <1>16, <1>21, <2>1
  <2>3. PICK outs2, y : outs2 = Append(outs, g) /\ y = NewTable(<<key>>)
    OBVIOUS
  <2>4. Written(x, x2, outs2, b)
    <3>1. x.outputs = outs /\ f = g
      BY ONLY <1>5, <1>6, <1>21, <2>1
    <3>2. x2 = [x EXCEPT !.outputs = Append(x.outputs, f), !.building = Len(written[f].data) < MaxFileSize]
      BY ONLY <1>3, <1>16, <1>21
    <3> QED
      BY ONLY <3>1, <3>2, <2>1, <2>3 DEF Written
  <2>5. MergeRecord(x2) /\ x2.c = x.c /\ x2.list = x.list /\ x2.outputs = outs2
    BY <1>5, <2>4, RecordWritten
  <2> HIDE DEF append, t, f, written
  <2>6. Appended(tab, t2, y, g)
    BY <1>7, <1>12, <2>1, <2>2, <2>3, FirstEntry
  <2>7. t2 \in Seq(Tables) /\ SameFiles(tab, t2, All(F)) /\ OutputsOk(outs2, list2, t2, S, F)
    BY ZenonT(30), <1>7, <1>8, <1>12, <1>14, <1>15, <2>3, <2>6, NewOutput
  <2>8. outs2 # <<>>
    <3>1. outs \in Seq(Nat)
      BY <1>13 DEF OutputsOk
    <3> QED
      BY <2>3, <3>1
  <2> QED
    BY <2>5, <2>7, <2>8
<1> QED
  BY <1>19, <1>20, <1>21

LEMMA AddAbortsStep ==
  ASSUME IInv, AddAborts
  PROVE  IInv'
<1>1. /\ bg = "merge" /\ bg' = "order" /\ FindSmallest(m.list) # 0 /\ Refused(NextKey)
      /\ UNCHANGED <<table, files_, file_to_compact_, gets, log, flushed, last_sequence_, m>>
  BY DEF AddAborts, logVars
<1>2. TypeOK' /\ VersionInv' /\ LogInv' /\ SeekInv'
  BY <1>1 DEF IInv, TypeOK, VersionInv, LogInv, SeekInv, States
<1>3. GetsInv' /\ MergeInv'
  BY <1>1 DEF IInv, GetsInv, MergeInv
<1>4. PICK list, n, key, outputs, t, F, S, f, last :
        /\ list = m.list /\ n = FindSmallest(list) /\ key = list[n][1][1] /\ outputs = m.outputs
        /\ t = table /\ F = Sets(files_) /\ S = Inputs(m.c) /\ f = Last(outputs) /\ last = Last(t[f].data)
  OBVIOUS
<1>5. key = NextKey
  BY <1>4 DEF NextKey
<1>6. ListOk(list, t, S) /\ OutputsOk(outputs, list, t, S, F) /\ outputs # <<>> /\ ~Less(last, key)
  BY <1>1, <1>4, <1>5 DEF IInv, MergeInv, Refused
<1>7. n \in 1..Len(list) /\ list[n] # <<>>
  BY <1>1, <1>4, FindSmallestIs
<1>8. InIter(list[n], key)
  <2>1. IterOk(list[n])
    BY <1>6, <1>7 DEF ListOk
  <2> QED
    BY <1>4, <1>7, <2>1, HeadIs
<1>9. Len(outputs) \in 1..Len(outputs) /\ f = outputs[Len(outputs)]
  BY <1>4, <1>6 DEF OutputsOk, Last
<1>10. IsFile(t, f)
  BY <1>4, <1>6, <1>9 DEF OutputsOk, IsFile, IInv, TypeOK
<1>11. InFile(t, f, last)
  <2>1. last = t[f].largest
    BY <1>4, <1>10 DEF IsFile, WellFormed, Last
  <2> QED
    BY <1>10, <2>1, FileIs
<1>12. AtMost(last, key)
  BY <1>6, <1>7, <1>8, <1>9, <1>11 DEF OutputsOk
<1>13. key = last
  BY <1>6, <1>12 DEF AtMost
<1>14. NextKey = Last(table[Last(m.outputs)].data)
  BY <1>4, <1>5, <1>13
<1>15. OnlyRepeatsStop'
  BY <1>1, <1>14 DEF OnlyRepeatsStop, NextKey
<1> QED
  BY <1>2, <1>3, <1>15 DEF IInv

----------------------------------------------------------------------------
(* DB::Open.                                                               *)

\* The files from n + 1 on are the logs.
AreLogs(t, n, lg) ==
  /\ Len(t) = n + Len(lg)
  /\ \A i \in 1..Len(lg) : WellFormed(t[n + i]) /\ t[n + i].data = lg[i]

LEMMA LogFile ==
  ASSUME NEW t, NEW n \in Nat, NEW lg, Len(lg) \in Nat, AreLogs(t, n, lg), NEW f \in (n + 1)..Len(t)
  PROVE  /\ f - n \in 1..Len(lg) /\ f \in 1..Len(t) /\ WellFormed(t[f])
         /\ \A e : InFile(t, f, e) <=> InLog(lg, f - n, e)
         /\ t[f].data = lg[f - n]
<1>1. PICK i : i = f - n
  OBVIOUS
<1>2. i \in 1..Len(lg) /\ f = n + i /\ f \in 1..Len(t)
  BY <1>1 DEF AreLogs
<1>3. WellFormed(t[f]) /\ t[f].data = lg[i]
  BY <1>2 DEF AreLogs
<1> QED
  BY <1>1, <1>2, <1>3 DEF InFile, InLog

\* Of two logs the later one is newer.
LEMMA LogOrder ==
  ASSUME NEW lg, NEW fl, NEW q, LogOk(lg, fl, q), NEW i \in 1..Len(lg), NEW j \in 1..Len(lg),
         NEW a, NEW b, InLog(lg, i, a), InLog(lg, j, b)
  PROVE  /\ i < j => a.s < b.s
         /\ i = j /\ a.s = b.s => a = b
         /\ a \in Keys /\ a.s <= q
<1>1. PICK p \in 1..Len(lg[i]) : a = lg[i][p]
  BY DEF InLog
<1>2. PICK r \in 1..Len(lg[j]) : b = lg[j][r]
  BY DEF InLog
<1>3. lg[i] \in Seq(Keys)
  BY DEF LogOk
<1>4. a \in Keys
  BY <1>1, <1>3
<1>5. i < j => a.s < b.s
  BY <1>1, <1>2 DEF LogOk
<1>6. i = j /\ a.s = b.s => a = b
  BY <1>1, <1>2 DEF LogOk
<1>7. a.s <= q
  BY <1>1 DEF LogOk
<1> QED
  BY <1>4, <1>5, <1>6, <1>7

LEMMA ReplayUnique ==
  ASSUME NEW t \in Seq(Tables), NEW S, NEW S2, NEW n \in Nat, NEW lg, NEW fl, NEW q, LogOk(lg, fl, q),
         Unique(t, S), LogKnows(lg, fl, t, S), AreLogs(t, n, lg), S2 \subseteq S \cup (n + 1)..Len(t)
  PROVE  Unique(t, S2)
<1>1. Len(lg) \in Nat
  BY DEF LogOk
<1>2. ASSUME NEW f \in S, NEW g \in (n + 1)..Len(t), NEW a, NEW b, InFile(t, f, a), InFile(t, g, b), a.s = b.s
      PROVE  a = b
  <2>1. g - n \in 1..Len(lg) /\ InLog(lg, g - n, b)
    BY <1>1, <1>2, LogFile
  <2>2. EntryKnown(lg, fl, a)
    BY <1>2 DEF LogKnows
  <2> QED
    BY <1>2, <2>1, <2>2 DEF EntryKnown
<1>3. ASSUME NEW f \in (n + 1)..Len(t), NEW g \in (n + 1)..Len(t), NEW a, NEW b,
             InFile(t, f, a), InFile(t, g, b), a.s = b.s
      PROVE  a = b
  <2>1. PICK i, j : i = f - n /\ j = g - n
    OBVIOUS
  <2>2. i \in 1..Len(lg) /\ j \in 1..Len(lg) /\ InLog(lg, i, a) /\ InLog(lg, j, b)
    BY <1>1, <1>3, <2>1, LogFile
  <2>3. (i < j => a.s < b.s) /\ (j < i => b.s < a.s) /\ (i = j => a = b)
    BY <1>3, <2>2, LogOrder
  <2>4. a.s \in Nat /\ b.s \in Nat
    <3>1. a \in Keys /\ b \in Keys
      BY <2>2, LogOrder
    <3> QED
      BY <3>1, KeyIs
  <2>5. i < j \/ j < i \/ i = j
    BY <1>1, <2>2
  <2> QED
    BY <1>3, <2>3, <2>4, <2>5
<1>4. ASSUME NEW f \in S2, NEW g \in S2,
             NEW i \in 1..Len(t[f].data), NEW j \in 1..Len(t[g].data), t[f].data[i].s = t[g].data[j].s
      PROVE  t[f].data[i] = t[g].data[j]
  <2>1. PICK a, b : a = t[f].data[i] /\ b = t[g].data[j]
    OBVIOUS
  <2>2. InFile(t, f, a) /\ InFile(t, g, b) /\ a.s = b.s
    BY <1>4, <2>1 DEF InFile
  <2>3. CASE f \in S /\ g \in S
    BY <2>1, <2>2, <2>3, EntryOnce
  <2>4. CASE f \in S /\ g \in (n + 1)..Len(t)
    BY <1>2, <2>1, <2>2, <2>4
  <2>5. CASE f \in (n + 1)..Len(t) /\ g \in S
    BY <1>2, <2>1, <2>2, <2>5
  <2>6. CASE f \in (n + 1)..Len(t) /\ g \in (n + 1)..Len(t)
    BY <1>3, <2>1, <2>2, <2>6
  <2>7. f \in S \cup (n + 1)..Len(t) /\ g \in S \cup (n + 1)..Len(t)
    OBVIOUS
  <2> QED
    BY <2>3, <2>4, <2>5, <2>6, <2>7
<1> QED
  BY <1>4 DEF Unique

\* The logs, replayed into level 0: the version stays consistent.  They hold the newest
\* entry of a user key with the older ones.
LEMMA ReplayOk ==
  ASSUME NEW t \in Seq(Tables), NEW F, NEW q \in Nat, VersionOk(t, F, q), NEW n \in Nat, NEW lg, NEW fl,
         LogOk(lg, fl, q), LogKnows(lg, fl, t, All(F)), AreLogs(t, n, lg), \A f \in All(F) : f <= n,
         NEW F2, F2[0] = F[0] \cup (n + 1)..Len(t), \A l \in Levels \ {0} : F2[l] = F[l]
  PROVE  VersionOk(t, F2, q)
<1>1. FilesOk(t, F) /\ Apart(F) /\ Unique(t, All(F)) /\ Known(t, F, q) /\ NewestOnTop(t, F)
  BY DEF VersionOk
<1>2. Len(lg) \in Nat /\ 0 \in Levels
  BY LevelsAre DEF LogOk
<1>3. PICK N : N = (n + 1)..Len(t)
  OBVIOUS
<1>4. \A f \in N : /\ f - n \in 1..Len(lg) /\ f \in 1..Len(t) /\ WellFormed(t[f])
                   /\ \A e : InFile(t, f, e) <=> InLog(lg, f - n, e)
                   /\ t[f].data = lg[f - n]
  BY <1>2, <1>3, LogFile
<1>5. \A f \in All(F) : f \in 1..Len(t) /\ WellFormed(t[f]) /\ IsFile(t, f) /\ f \in Nat /\ f \notin N
  BY <1>1, <1>3 DEF FilesOk, IsFile
<1>6. \A f \in N : IsFile(t, f) /\ f \in Nat
  BY <1>3, <1>4 DEF IsFile
<1>7. ASSUME NEW l \in Levels, NEW f \in F2[l]
      PROVE  (f \in F[l] /\ f \in All(F)) \/ (f \in N /\ l = 0)
  <2>1. CASE l = 0
    <3>1. f \in F[0] \/ f \in N
      BY <1>3, <2>1
    <3>2. f \in F[0] => f \in All(F)
      BY <1>2, InAll
    <3> QED
      BY <2>1, <3>1, <3>2
  <2>2. CASE l # 0
    <3>1. f \in F[l]
      BY <2>2
    <3> QED
      BY <3>1, InAll
  <2> QED
    BY <2>1, <2>2
<1>8. \A f \in All(F2) : f \in All(F) \/ f \in N
  BY <1>7, AllIs
<1>9. FilesOk(t, F2)
  BY <1>4, <1>5, <1>8 DEF FilesOk
<1>10. Apart(F2)
  <2>1. ASSUME NEW l \in Levels, NEW k \in Levels, l # k, NEW f \in F2[l], f \in F2[k]
        PROVE  FALSE
    <3>1. F[l] \cap F[k] = {}
      BY <1>1, <2>1 DEF Apart
    <3> QED
      BY <1>5, <1>7, <2>1, <3>1
  <2> QED
    BY <2>1 DEF Apart
<1>11. Unique(t, All(F2))
  <2>1. All(F2) \subseteq All(F) \cup (n + 1)..Len(t)
    BY <1>3, <1>8
  <2> QED
    BY <1>1, <2>1, ReplayUnique
<1>12. Known(t, F2, q)
  <2>1. ASSUME NEW f \in N, NEW i \in 1..Len(t[f].data)
        PROVE  t[f].data[i].s <= q
    BY <1>4 DEF LogOk
  <2> QED
    BY <1>1, <1>8, <2>1 DEF Known
<1>13. F[0] \subseteq F2[0] /\ N \subseteq F2[0] /\ \A f \in F2[0] : f \in F[0] \/ f \in N
  BY <1>3
<1>15. ASSUME NEW l \in Levels, NEW g \in F[l], NEW b, InFile(t, g, b)
       PROVE  EntryKnown(lg, fl, b) /\ b \in Keys /\ b.s \in Nat
  <2>1. g \in All(F)
    BY InAll
  <2>2. b \in Keys
    BY <1>5, <1>15, <2>1, EntryIs
  <2> QED
    BY <1>15, <2>1, <2>2, KeyIs DEF LogKnows
<1>16. ASSUME NEW f \in N, NEW b, EntryKnown(lg, fl, b), HasUser(t, f, b.u)
       PROVE  \E j \in 1..Len(lg) : \E a : InLog(lg, j, a) /\ a.u = b.u /\ a.s >= b.s
  <2>1. PICK a : InFile(t, f, a) /\ a.u = b.u
    BY <1>16 DEF HasUser
  <2>2. f - n \in 1..Len(lg) /\ InLog(lg, f - n, a)
    BY <1>4, <2>1
  <2> QED
    BY <1>16, <2>1, <2>2 DEF EntryKnown
<1>17. ASSUME NEW j \in 1..Len(lg)
       PROVE  n + j \in N /\ \A e : InFile(t, n + j, e) <=> InLog(lg, j, e)
  <2>1. PICK h : h = n + j
    OBVIOUS
  <2>2. h \in N /\ h - n = j
    BY <1>2, <1>3, <2>1 DEF AreLogs
  <2> QED
    BY <1>4, <2>1, <2>2
<1>18. ASSUME NEW f \in F2[0], NEW l \in Levels \ {0}, NEW g \in F2[l], NEW b, InFile(t, g, b), HasUser(t, f, b.u)
       PROVE  Topped(t, F2[0], b)
  <2>1. g \in F[l]
    BY <1>18
  <2>2. CASE f \in F[0]
    <3>1. Topped(t, F[0], b)
      BY <1>1, <1>18, <2>1, <2>2 DEF NewestOnTop
    <3> QED
      BY <1>13, <3>1, ToppedMore
  <2>3. CASE f \in N
    <3>1. EntryKnown(lg, fl, b)
      BY <1>15, <1>18, <2>1
    <3>2. PICK j \in 1..Len(lg) : \E a : InLog(lg, j, a) /\ a.u = b.u /\ a.s >= b.s
      BY <1>16, <1>18, <2>3, <3>1
    <3> QED
      BY <1>13, <1>17, <3>2 DEF Topped
  <2> QED
    BY <1>13, <2>2, <2>3
<1>19. ASSUME NEW f \in F2[0], NEW g \in F2[0], f > g, NEW b, InFile(t, g, b), HasUser(t, f, b.u)
       PROVE  Topped(t, {h \in F2[0] : h >= f}, b)
  <2>1. PICK S : S = {h \in F2[0] : h >= f}
    OBVIOUS
  <2>2. \A h \in F2[0] : h \in Nat
    BY <1>2, <1>5, <1>6, <1>13, InAll
  <2>3. f \in S
    BY <2>1, <2>2
  <2>4. CASE f \in F[0]
    <3>1. g \in F[0]
      <4>1. f <= n
        BY <1>2, <2>4, InAll
      <4>2. g \notin N
        BY <1>3, <1>19, <2>2, <4>1
      <4> QED
        BY <1>13, <4>2
    <3>2. PICK S0 : S0 = {h \in F[0] : h >= f}
      OBVIOUS
    <3>3. Topped(t, S0, b)
      BY <1>1, <1>19, <2>4, <3>1, <3>2 DEF NewestOnTop
    <3>4. S0 \subseteq S
      BY <1>13, <2>1, <3>2
    <3>5. Topped(t, S, b)
      BY <3>3, <3>4, ToppedMore
    <3> QED
      BY <2>1, <3>5
  <2>5. ASSUME f \in N
        PROVE  Topped(t, S, b)
    <3>1. PICK a : InFile(t, f, a) /\ a.u = b.u
      BY <1>19 DEF HasUser
    <3>2. PICK i : i = f - n
      OBVIOUS
    <3>3. i \in 1..Len(lg) /\ InLog(lg, i, a)
      BY <1>4, <2>5, <3>1, <3>2
    <3>4. a \in Keys /\ a.s \in Nat
      BY <3>3, LogOrder, KeyIs
    <3>5. CASE g \in N
      <4>1. PICK j : j = g - n
        OBVIOUS
      <4>2. j \in 1..Len(lg) /\ InLog(lg, j, b) /\ j < i
        BY <1>4, <1>19, <2>2, <3>2, <3>5, <4>1
      <4>3. b.s < a.s /\ b \in Keys /\ b.s \in Nat
        BY <3>3, <4>2, LogOrder, KeyIs
      <4>4. a.s >= b.s
        BY <3>4, <4>3
      <4> QED
        BY <2>3, <3>1, <4>4 DEF Topped
    <3>6. CASE g \in F[0]
      <4>1. EntryKnown(lg, fl, b) /\ b.s \in Nat
        BY <1>2, <1>15, <1>19, <3>6
      <4>2. PICK j \in 1..Len(lg) : \E c : InLog(lg, j, c) /\ c.u = b.u /\ c.s >= b.s
        BY <1>16, <1>19, <2>5, <4>1
      <4>3. PICK c : InLog(lg, j, c) /\ c.u = b.u /\ c.s >= b.s
        BY <4>2
      <4>4. CASE j < i
        <5>1. c.s < a.s /\ c \in Keys /\ c.s \in Nat
          BY <3>3, <4>3, <4>4, LogOrder, KeyIs
        <5>2. a.s >= b.s
          BY <3>4, <4>1, <4>3, <5>1
        <5> QED
          BY <2>3, <3>1, <5>2 DEF Topped
      <4>5. CASE ~(j < i)
        <5>1. PICK h : h = n + j
          OBVIOUS
        <5>2. h \in F2[0] /\ InFile(t, h, c)
          BY <1>13, <1>17, <4>3, <5>1
        <5>3. h >= f
          BY <1>2, <2>2, <3>2, <3>3, <4>5, <5>1
        <5>4. h \in S
          BY <2>1, <5>2, <5>3
        <5> QED
          BY <4>3, <5>2, <5>4 DEF Topped
      <4> QED
        BY <4>4, <4>5
    <3> QED
      BY <1>13, <3>5, <3>6
  <2> QED
    BY <1>13, <2>1, <2>4, <2>5
<1>20. NewestOnTop(t, F2)
  BY <1>18, <1>19 DEF NewestOnTop
<1> QED
  BY <1>9, <1>10, <1>11, <1>12, <1>20 DEF VersionOk

\* The tables of the recovered version: the files it has, with new FileMetas, and the logs.
Fresh(t, S) == [f \in 1..Len(t) |-> IF f \in S THEN [t[f] EXCEPT !.allow_seeks = AllowSeeks] ELSE Gone]
LogTables(lg) == [i \in 1..Len(lg) |-> NewTable(lg[i])]

LEMMA FreshIs ==
  ASSUME NEW t \in Seq(Tables), NEW S, NEW t2, t2 = Fresh(t, S)
  PROVE  t2 \in Seq(Tables) /\ Len(t2) = Len(t) /\ \A f \in S : f \in 1..Len(t) => SameFile(t, t2, f)
<1>1. Gone \in Tables
  <2>1. <<>> \in Seq(Keys)
    OBVIOUS
  <2> QED
    BY <2>1 DEF Gone, Tables
<1>2. Len(t) \in Nat /\ AllowSeeks \in Nat /\ \A f \in 1..Len(t) : t[f] \in Tables
  BY ConstantsAre
<1>3. \A f \in 1..Len(t) : [t[f] EXCEPT !.allow_seeks = AllowSeeks] \in Tables
  BY <1>2 DEF Tables
<1>4. t2 \in [1..Len(t) -> Tables]
  BY <1>1, <1>3 DEF Fresh
<1>5. t2 \in Seq(Tables) /\ Len(t2) = Len(t)
  BY <1>2, <1>4
<1>6. ASSUME NEW f \in S, f \in 1..Len(t)
      PROVE  SameFile(t, t2, f)
  <2>1. t2[f] = [t[f] EXCEPT !.allow_seeks = AllowSeeks]
    BY <1>6 DEF Fresh
  <2>2. t[f] \in Tables
    BY <1>2, <1>6
  <2>3. t2[f].data = t[f].data /\ t2[f].smallest = t[f].smallest /\ t2[f].largest = t[f].largest
    BY <2>1, <2>2 DEF Tables
  <2> QED
    BY <1>5, <1>6, <2>3 DEF SameFile
<1> QED
  BY <1>5, <1>6

LEMMA LogTablesAre ==
  ASSUME NEW lg, NEW fl, NEW q, LogOk(lg, fl, q), NEW x, x = LogTables(lg)
  PROVE  x \in Seq(Tables) /\ Len(x) = Len(lg) /\ \A i \in 1..Len(lg) : WellFormed(x[i]) /\ x[i].data = lg[i]
<1>1. Len(lg) \in Nat /\ \A i \in 1..Len(lg) : lg[i] \in Seq(Keys) /\ lg[i] # <<>> /\ Ascending(lg[i])
  BY DEF LogOk
<1>2. \A i \in 1..Len(lg) : x[i] = NewTable(lg[i])
  BY DEF LogTables
<1>3. \A i \in 1..Len(lg) : x[i] \in Tables /\ WellFormed(x[i]) /\ x[i].data = lg[i]
  BY <1>1, <1>2, NewTableIs
<1>4. x \in [1..Len(lg) -> Tables]
  BY <1>3 DEF LogTables
<1> QED
  BY <1>1, <1>3, <1>4

LEMMA ReopenStep ==
  ASSUME IInv, Reopen
  PROVE  IInv'
<1>1. PICK t, n, F, q, lg, fl : /\ t = table /\ n = Len(table) /\ F = Sets(files_) /\ q = last_sequence_
                                /\ lg = log /\ fl = flushed
  OBVIOUS
<1>2. PICK fresh, x, t2 : fresh = Fresh(t, All(F)) /\ x = LogTables(lg) /\ t2 = fresh \o x
  OBVIOUS
<1>3. /\ t \in Seq(Tables) /\ n \in Nat /\ q \in Nat /\ q <= MaxSeq /\ files_ \in [Levels -> Seq(Nat)]
      /\ VersionOk(t, F, q) /\ LogOk(lg, fl, q) /\ LogKnows(lg, fl, t, All(F))
      /\ \A l \in Levels \ {0} : Spread(t, files_[l])
  BY <1>1 DEF IInv, TypeOK, VersionInv, LogInv
<1>4. fresh \in Seq(Tables) /\ Len(fresh) = n /\ \A f \in All(F) : SameFile(t, fresh, f) /\ f \in 1..n
  <2>1. \A f \in All(F) : f \in 1..Len(t)
    BY <1>3 DEF VersionOk, FilesOk
  <2> QED
    BY <1>1, <1>2, <1>3, <2>1, FreshIs
<1>5. x \in Seq(Tables) /\ Len(x) = Len(lg) /\ \A i \in 1..Len(lg) : WellFormed(x[i]) /\ x[i].data = lg[i]
  BY <1>2, <1>3, LogTablesAre
<1>6. /\ t2 \in Seq(Tables) /\ Len(t2) = n + Len(lg) /\ Len(lg) \in Nat
      /\ \A f \in 1..n : t2[f] = fresh[f]
      /\ \A i \in 1..Len(lg) : t2[n + i] = x[i]
  <2>1. t2 = fresh \o x /\ fresh \in Seq(Tables) /\ x \in Seq(Tables) /\ Len(fresh) = n /\ Len(x) = Len(lg)
    BY ONLY <1>2, <1>4, <1>5
  <2>2. n \in Nat /\ Len(lg) \in Nat
    BY ONLY <2>1
  <2>3. /\ t2 \in Seq(Tables) /\ Len(t2) = n + Len(lg)
        /\ \A i \in 1..(n + Len(lg)) : t2[i] = IF i <= n THEN fresh[i] ELSE x[i - n]
    BY ONLY <2>1, ConcatProperties
  <2>4. ASSUME NEW f \in 1..n
        PROVE  t2[f] = fresh[f]
    <3>1. f \in 1..(n + Len(lg)) /\ f <= n
      BY ONLY <2>2, f \in 1..n
    <3> QED
      BY ONLY <2>3, <3>1
  <2>5. ASSUME NEW i \in 1..Len(lg)
        PROVE  t2[n + i] = x[i]
    <3>1. n + i \in 1..(n + Len(lg)) /\ ~(n + i <= n) /\ (n + i) - n = i
      BY ONLY <2>2, i \in 1..Len(lg)
    <3> QED
      BY ONLY <2>3, <3>1
  <2> QED
    BY ONLY <2>2, <2>3, <2>4, <2>5
<1>7. AreLogs(t2, n, lg)
  BY <1>5, <1>6 DEF AreLogs
<1>8. SameFiles(t, t2, All(F))
  BY <1>4, <1>6 DEF SameFiles, SameFile
<1>9. VersionOk(t2, F, q) /\ LogKnows(lg, fl, t2, All(F)) /\ \A l \in Levels \ {0} : Spread(t2, files_[l])
  BY <1>1, <1>3, <1>8, SameVersion, LogSame, SpreadKept
<1>10. PICK F2 : F2 = [l \in Levels |-> IF l = 0 THEN F[0] \cup (n + 1)..Len(t2) ELSE F[l]]
  OBVIOUS
<1>11. F2[0] = F[0] \cup (n + 1)..Len(t2) /\ \A l \in Levels \ {0} : F2[l] = F[l]
  BY <1>10, LevelsAre
<1>12. VersionOk(t2, F2, q)
  <2>1. \A f \in All(F) : f <= n
    BY <1>3, <1>4
  <2> QED
    BY <1>3, <1>6, <1>7, <1>9, <1>11, <2>1, ReplayOk
<1>13. PICK q2 : q2 = last_sequence_'
  OBVIOUS
<1>14. q2 \in Nat /\ q <= q2 /\ q2 <= MaxSeq
  BY <1>1, <1>3, <1>13, ConstantsAre DEF Reopen
<1>15. VersionOk(t2, F2, q2)
  <2>1. \A f \in All(F2) : f \in 1..Len(t2) /\ t2[f].data \in Seq(Keys)
    <3> TAKE f \in All(F2)
    <3>1. f \in 1..Len(t2) /\ WellFormed(t2[f])
      BY <1>12 DEF VersionOk, FilesOk
    <3>2. IsFile(t2, f)
      BY <1>6, <3>1 DEF IsFile
    <3> QED
      BY <3>1, <3>2, FileIs
  <2>2. ASSUME NEW f \in All(F2), NEW i \in 1..Len(t2[f].data), t2[f].data[i].s <= q
        PROVE  t2[f].data[i].s <= q2
    <3>1. t2[f].data[i] \in Keys
      BY <2>1
    <3>2. t2[f].data[i].s \in Nat
      BY <3>1, KeyIs
    <3> QED
      BY <1>3, <1>14, <2>2, <3>2
  <2>3. SameFiles(t2, t2, All(F2))
    BY <2>1 DEF SameFiles, SameFile
  <2> QED
    BY <1>12, <2>2, <2>3, SameVersion
<1>16. PICK fs : fs = files_'
  OBVIOUS
<1>17. table' = t2
  <2>1. PICK kept, old : /\ kept = OnlyFiles(table, files_)
                         /\ old = [f \in 1..Len(table) |-> IF kept[f] = Gone THEN Gone
                                                           ELSE [kept[f] EXCEPT !.allow_seeks = AllowSeeks]]
    OBVIOUS
  <2>2. table' = Replayed(old)
    BY <2>1 DEF Reopen
  <2>3. Replayed(old) = old \o x
    BY <1>1, <1>2 DEF Replayed, LogTables
  <2>4. kept = [f \in 1..n |-> IF f \in All(F) THEN t[f] ELSE Gone]
    BY <1>1, <2>1 DEF OnlyFiles, All, Sets
  <2>5. \A f \in All(F) : t[f] # Gone
    BY <1>3 DEF VersionOk, FilesOk, WellFormed, Gone
  <2>6. \A f \in 1..n : (IF kept[f] = Gone THEN Gone ELSE [kept[f] EXCEPT !.allow_seeks = AllowSeeks])
                          = IF f \in All(F) THEN [t[f] EXCEPT !.allow_seeks = AllowSeeks] ELSE Gone
    BY <2>4, <2>5
  <2>7. old = fresh
    BY <1>1, <1>2, <2>1, <2>6 DEF Fresh
  <2> QED
    BY <1>2, <2>2, <2>3, <2>7
<1>18. fs = [l \in Levels |-> SaveTo(t2, F2[l])]
  <2>1. PICK added : added = (n + 1)..Len(t2)
    OBVIOUS
  <2>2. fs = NextFiles(t2, [NoFiles EXCEPT ![0] = added], NoFiles)
    BY <1>1, <1>16, <1>17, <2>1 DEF Reopen
  <2>3. ASSUME NEW l \in Levels
        PROVE  (ToSet(files_[l]) \ NoFiles[l]) \cup [NoFiles EXCEPT ![0] = added][l] = F2[l]
    <3>1. NoFiles[l] = {} /\ F[l] = ToSet(files_[l])
      BY <1>1, SetsAre DEF NoFiles
    <3>2. [NoFiles EXCEPT ![0] = added][l] = IF l = 0 THEN added ELSE {}
      BY DEF NoFiles
    <3> QED
      BY <1>11, <2>1, <3>1, <3>2
  <2> QED
    BY <2>2, <2>3 DEF NextFiles
<1>19. ASSUME NEW l \in Levels
       PROVE  fs[l] \in Seq(Nat) /\ ToSet(fs[l]) = F2[l] /\ (l # 0 => Spread(t2, fs[l]))
  <2>1. FileSet(t2, F2[l])
    <3>1. F2[l] \subseteq All(F2)
      BY InAll
    <3> QED
      BY <1>6, <1>12, <3>1, VersionFiles
  <2>2. fs[l] \in Seq(Nat) /\ ToSet(fs[l]) = F2[l]
    BY <1>18, <2>1, SaveToIs
  <2>3. ASSUME l # 0
        PROVE  Spread(t2, fs[l])
    <3>1. PICK old, S, s : old = files_[l] /\ S = F2[l] /\ s = fs[l]
      OBVIOUS
    <3>2. old \in Seq(Nat) /\ Spread(t2, old) /\ S \subseteq ToSet(old) /\ FileSet(t2, S) /\ s = SaveTo(t2, S)
      BY <1>1, <1>3, <1>9, <1>11, <1>18, <2>1, <2>3, <3>1, SetsAre
    <3>3. Spread(t2, s)
      BY ONLY <3>2, SortedSpread
    <3> QED
      BY <3>1, <3>3
  <2> QED
    BY <2>2, <2>3
<1>20. fs \in [Levels -> Seq(Nat)] /\ Sets(fs) = F2
  BY <1>10, <1>18, <1>19 DEF Sets
<1>21. /\ file_to_compact_' = NoSeek /\ gets' = [r \in Readers |-> NoGet]
       /\ log' = <<>> /\ flushed' = 0 /\ bg' = "idle"
  BY DEF Reopen
<1>22. TypeOK'
  BY <1>6, <1>13, <1>14, <1>16, <1>17, <1>20, <1>21 DEF TypeOK, States
<1>23. VersionInv'
  BY <1>13, <1>15, <1>16, <1>17, <1>19, <1>20 DEF VersionInv
<1>24. LogInv'
  <2>1. PICK no : no = <<>>
    OBVIOUS
  <2>2. no \in Seq(Seq(Keys)) /\ Len(no) = 0
    BY <2>1
  <2>3. \A i \in 1..Len(no) : FALSE
    BY <2>2
  <2>4. LogOk(no, 0, q2)
    BY <2>2, <2>3 DEF LogOk
  <2>5. \A S : LogKnows(no, 0, t2, S)
    BY <2>3 DEF LogKnows, EntryKnown
  <2> QED
    BY <1>13, <1>17, <1>21, <2>1, <2>4, <2>5 DEF LogInv
<1>25. SeekInv' /\ MergeInv' /\ OnlyRepeatsStop'
  BY <1>21 DEF SeekInv, MergeInv, OnlyRepeatsStop
<1>26. GetsInv'
  BY <1>21 DEF GetsInv, GetOk, NoGet, NoSeek
<1> QED
  BY <1>22, <1>23, <1>24, <1>25, <1>26 DEF IInv

LEMMA InitOk ==
  ASSUME Init
  PROVE  IInv
<1>1. /\ table = <<>> /\ files_ = [l \in Levels |-> <<>>] /\ file_to_compact_ = NoSeek
      /\ gets = [r \in Readers |-> NoGet] /\ log = <<>> /\ flushed = 0 /\ last_sequence_ = 0 /\ bg = "idle"
  BY DEF Init
<1>2. <<>> \in Seq(Nat) /\ <<>> \in Seq(Tables) /\ <<>> \in Seq(Seq(Keys)) /\ Len(<<>>) = 0
  OBVIOUS
<1>3. TypeOK
  BY <1>1, <1>2, ConstantsAre DEF TypeOK, States
<1>4. PICK F : F = Sets(files_)
  OBVIOUS
<1>5. \A l \in Levels : files_[l] = <<>> /\ F[l] = {}
  BY <1>1, <1>4, SetsAre DEF ToSet
<1>6. All(F) = {}
  BY <1>5, AllIs
<1>7. VersionOk(table, F, last_sequence_)
  <2>1. FilesOk(table, F) /\ Unique(table, All(F)) /\ Known(table, F, last_sequence_)
    BY <1>6 DEF FilesOk, Unique, Known
  <2>2. Apart(F) /\ NewestOnTop(table, F)
    BY <1>5, LevelsAre DEF Apart, NewestOnTop
  <2> QED
    BY <2>1, <2>2 DEF VersionOk
<1>8. \A l \in Levels \ {0} : Spread(table, files_[l])
  BY <1>5 DEF Spread
<1>9. VersionInv
  BY <1>4, <1>7, <1>8 DEF VersionInv
<1>10. LogInv
  <2>1. \A i \in 1..Len(log) : FALSE
    BY <1>1
  <2>2. LogOk(log, flushed, last_sequence_)
    BY <1>1, <1>2, <2>1 DEF LogOk
  <2>3. LogKnows(log, flushed, table, All(F))
    BY <1>6 DEF LogKnows
  <2> QED
    BY <1>4, <2>2, <2>3 DEF LogInv
<1>11. SeekInv /\ MergeInv /\ OnlyRepeatsStop
  BY <1>1 DEF SeekInv, MergeInv, OnlyRepeatsStop
<1>12. GetsInv
  BY <1>1 DEF GetsInv, GetOk, NoGet, NoSeek
<1> QED
  BY <1>3, <1>9, <1>10, <1>11, <1>12 DEF IInv

----------------------------------------------------------------------------
(* The specification keeps the invariant.                                  *)

LEMMA NextOk ==
  ASSUME IInv, [Next]_vars
  PROVE  IInv'
<1>1. CASE UNCHANGED vars
  <2>1. TypeOK' /\ VersionInv' /\ LogInv' /\ SeekInv'
    BY <1>1 DEF vars, IInv, TypeOK, VersionInv, LogInv, SeekInv
  <2>2. GetsInv' /\ MergeInv' /\ OnlyRepeatsStop'
    BY <1>1 DEF vars, IInv, GetsInv, MergeInv, OnlyRepeatsStop, NextKey
  <2> QED
    BY <2>1, <2>2 DEF IInv
<1>2. ASSUME NEW n \in FlushSizes, NEW ops \in [1..n -> Ops], Write(ops)
      PROVE  IInv'
  BY <1>2, WriteStep
<1>3. CASE Flush
  BY <1>3, FlushStep
<1>4. ASSUME NEW r \in Readers, NEW k \in UserKeys, SearchVersion(r, k)
      PROVE  IInv'
  BY <1>4, SearchVersionStep
<1>5. ASSUME NEW r \in Readers, UpdateStats(r)
      PROVE  IInv'
  BY <1>5, UpdateStatsStep
<1>6. CASE BackgroundCompaction
  BY <1>6, BackgroundCompactionStep
<1>7. CASE PickAborts
  BY <1>7, PickAbortsStep
<1>8. CASE MergeEntry
  BY <1>8, MergeEntryStep
<1>9. CASE AddAborts
  BY <1>9, AddAbortsStep
<1>10. CASE InstallMerge
  BY <1>10, InstallMergeStep
<1>11. CASE FailMerge
  BY <1>11, FailMergeStep
<1>12. CASE Reopen
  BY <1>12, ReopenStep
<1> QED
  BY <1>1, <1>2, <1>3, <1>4, <1>5, <1>6, <1>7, <1>8, <1>9, <1>10, <1>11, <1>12 DEF Next

\* In every reachable state, whatever is flushed, merged and, after a reopen, replayed:
\* the files of the version are well formed, entries with the same number are the same,
\* the files of a deeper level are apart, and level 0 has the newest entry of each user
\* key it has; what is in the logs and not flushed is newer than every file; and a running
\* merge has written, in order, what its iterators returned.
THEOREM Invariance == Spec => []IInv
<1>1. Init => IInv
  BY InitOk
<1>2. IInv /\ [Next]_vars => IInv'
  BY NextOk
<1> QED
  BY <1>1, <1>2, PTL DEF Spec


----------------------------------------------------------------------------
(* What Version::Get finds.                                                *)

LEMMA HoldsIs ==
  ASSUME NEW f, NEW k
  PROVE  Holds(f, k) <=> \E e : InFile(table, f, e) /\ e.u = k
BY DEF Holds, InFile

LEMMA DataIs ==
  ASSUME NEW f, IsFile(table, f), NEW e
  PROVE  e \in ToSet(table[f].data) <=> InFile(table, f, e)
<1>1. table[f].data \in Seq(Keys)
  BY FileIs
<1>2. DOMAIN table[f].data = 1..Len(table[f].data)
  BY <1>1
<1> QED
  BY <1>2 DEF ToSet, InFile

LEMMA EntriesAre ==
  ASSUME NEW S, \A f \in S : IsFile(table, f), NEW e
  PROVE  e \in Entries(S) <=> \E f \in S : InFile(table, f, e)
<1>1. e \in Entries(S) <=> \E f \in S : e \in ToSet(table[f].data)
  BY DEF Entries
<1> QED
  BY <1>1, DataIs

\* The first entry of a user key in a file, which is its newest.
FirstOf(f, k) == table[f].data[SelectInSeq(table[f].data, LAMBDA e : e.u = k)]

LEMMA FirstOfKey ==
  ASSUME NEW f, IsFile(table, f), NEW k, Holds(f, k)
  PROVE  /\ InFile(table, f, FirstOf(f, k)) /\ FirstOf(f, k).u = k
         /\ \A e : InFile(table, f, e) /\ e.u = k => e.s <= FirstOf(f, k).s
<1>1. PICK d : d = table[f].data
  OBVIOUS
<1> DEFINE I == {i \in 1..Len(d) : d[i].u = k}
<1>2. FirstOf(f, k) = d[IF I # {} THEN Min(I) ELSE 0]
  BY <1>1 DEF FirstOf, SelectInSeq
<1>3. I # {}
  BY <1>1 DEF Holds
<1>4. I \in SUBSET Nat
  OBVIOUS
<1>5. PICK n : n = Min(I)
  OBVIOUS
<1>6. n \in I /\ \A i \in I : n <= i
  <2> HIDE DEF I
  <2> QED
    BY <1>3, <1>4, <1>5, MinOf
<1>7. FirstOf(f, k) = d[n]
  BY <1>2, <1>3, <1>5
<1>8. d \in Seq(Keys) /\ Ascending(d)
  BY <1>1, FileIs DEF IsFile, WellFormed
<1>9. n \in 1..Len(d) /\ d[n].u = k /\ n \in Nat
  BY <1>6
<1>10. ASSUME NEW i \in 1..Len(d), d[i].u = k
       PROVE  d[i].s <= d[n].s
  <2>1. n <= i
    BY <1>6, <1>10
  <2>2. d[i] \in Keys /\ d[n] \in Keys
    BY <1>8, <1>9
  <2>3. d[i].s \in Nat /\ d[n].s \in Nat
    BY <2>2, KeyIs
  <2>4. CASE n = i
    BY <2>3, <2>4
  <2>5. CASE n < i
    <3>1. Less(d[n], d[i])
      BY <1>8, <1>9, <2>5 DEF Ascending
    <3>2. d[n].s > d[i].s
      BY <1>9, <1>10, <2>2, <3>1, LessUser
    <3> QED
      BY <2>3, <3>2
  <2> QED
    BY <1>9, <2>1, <2>4, <2>5
<1> HIDE DEF I
<1> QED
  BY <1>1, <1>7, <1>9, <1>10 DEF InFile

\* The file the binary search finds at a level has the newest entry of k at that level,
\* although a user key may be split over the end of a file and the beginning of the next.
LEMMA SearchFinds ==
  ASSUME IInv, NEW k \in UserKeys, NEW l \in Levels, NEW f \in ToSet(files_[l]), Holds(f, k)
  PROVE  \E c \in ForEachFile(k) :
           /\ c.level = l /\ Holds(c.file, k) /\ (l = 0 => c.file = f)
           /\ \A e : InFile(table, f, e) /\ e.u = k =>
                \E d : InFile(table, c.file, d) /\ d.u = k /\ e.s <= d.s
<1>1. k \in Nat
  BY ConstantsAre
<1>2. PICK e0 : InFile(table, f, e0) /\ e0.u = k
  BY HoldsIs
<1>3. /\ table[f].smallest.u \in Nat /\ table[f].largest.u \in Nat
      /\ table[f].smallest.u <= k /\ k <= table[f].largest.u
  BY <1>2, FileBounds
<1>4. \A e : InFile(table, f, e) => e \in Keys /\ e.s \in Nat
  BY FileBounds, KeyIs
<1>5. CASE l = 0
  <2>1. PICK c : c = [file |-> f, level |-> 0]
    OBVIOUS
  <2>2. c.file = f /\ c.level = 0
    BY <2>1
  <2>3. c \in ForEachFile(k)
    BY <1>3, <1>5, <2>1 DEF ForEachFile, Covers
  <2>4. \A e : InFile(table, f, e) /\ e.u = k => e.s <= e.s
    BY <1>4
  <2> QED
    BY <1>5, <2>2, <2>3, <2>4
<1>6. CASE l # 0
  <2>1. PICK fs : fs = files_[l]
    OBVIOUS
  <2>2. /\ fs \in Seq(Nat) /\ Len(fs) \in Nat /\ Spread(table, fs) /\ Climbs(table, fs)
        /\ \A i \in 1..Len(fs) : fs[i] \in ToSet(files_[l])
    BY <1>6, <2>1, LevelFiles
  <2>3. PICK p \in 1..Len(fs) : fs[p] = f
    BY <2>1, <2>2 DEF ToSet
  <2>4. PICK j : j = FindFile(fs, k)
    OBVIOUS
  <2>5. /\ j \in 0..Len(fs)
        /\ \A i \in 1..j : table[fs[i]].largest.u < k
        /\ j < Len(fs) => k <= table[fs[j + 1]].largest.u
    BY <1>1, <2>2, <2>4, FindFileIs
  <2>6. j < p
    <3>1. ~(p \in 1..j)
      BY <1>1, <1>3, <2>3, <2>5
    <3> QED
      BY <2>2, <2>3, <2>5, <3>1
  <2>7. PICK q, g : q = j + 1 /\ g = fs[q]
    OBVIOUS
  <2>8. q \in 1..Len(fs) /\ q <= p /\ j < Len(fs) /\ q \in Nat /\ p \in Nat
    BY <2>2, <2>5, <2>6, <2>7
  <2>9. k <= table[g].largest.u /\ g \in ToSet(files_[l])
    BY <2>2, <2>5, <2>7, <2>8
  <2>10. IsFile(table, g) /\ IsFile(table, f)
    BY <2>9, LevelFiles
  <2>11. /\ table[g].smallest.u \in Nat /\ table[g].largest.u \in Nat
         /\ table[g].smallest.u <= table[g].largest.u
    BY <2>9, FileBounds
  <2>12. /\ table[g].smallest.u <= k /\ Holds(g, k)
         /\ \A e : InFile(table, f, e) /\ e.u = k => \E d : InFile(table, g, d) /\ d.u = k /\ e.s <= d.s
    <3>1. CASE q = p
      <4>1. g = f
        BY <2>3, <2>7, <3>1
      <4>2. \A e : InFile(table, f, e) /\ e.u = k => e.s <= e.s
        BY <1>4
      <4> QED
        BY <1>3, <4>1, <4>2
    <3>2. CASE q < p
      <4>1. PICK a, b : a = table[g].largest /\ b = table[f].smallest
        OBVIOUS
      <4>2. Less(a, b)
        BY <2>2, <2>3, <2>7, <2>8, <3>2, <4>1 DEF Spread
      <4>3. a \in Keys /\ b \in Keys /\ InFile(table, g, a)
        BY <2>10, <4>1, FileIs
      <4>4. a.u <= b.u
        BY <4>2, <4>3, LessUser
      <4>5. a.u = k
        BY <1>1, <1>3, <2>9, <2>11, <4>1, <4>4
      <4>6. table[g].smallest.u <= k
        BY <2>11, <4>1, <4>5
      <4>7. Holds(g, k)
        BY <4>3, <4>5, HoldsIs
      <4>8. ASSUME NEW e, InFile(table, f, e), e.u = k
            PROVE  e.s <= a.s
        <5>1. e \in Keys /\ (e = b \/ Less(b, e))
          BY <2>10, <4>1, <4>8, EntryIs
        <5>2. Less(a, e)
          BY <4>2, <4>3, <5>1, LessTrans
        <5>3. a.s > e.s
          BY <4>3, <4>5, <4>8, <5>1, <5>2, LessUser
        <5>4. a.s \in Nat /\ e.s \in Nat
          BY <4>3, <5>1, KeyIs
        <5> QED
          BY <5>3, <5>4
      <4> QED
        BY <4>3, <4>5, <4>6, <4>7, <4>8
    <3> QED
      BY <2>8, <3>1, <3>2
  <2>13. PICK c : c = [file |-> g, level |-> l]
    OBVIOUS
  <2>14. c.file = g /\ c.level = l
    BY <2>13
  <2>15. c \in ForEachFile(k)
    <3>1. l \in 1..(NumLevels - 1)
      BY <1>6, LevelsAre, ConstantsAre
    <3>2. FindFile(files_[l], k) < Len(files_[l]) /\ g = files_[l][FindFile(files_[l], k) + 1]
      BY <2>1, <2>4, <2>7, <2>8
    <3> QED
      BY <2>12, <2>13, <3>1, <3>2 DEF ForEachFile
  <2> QED
    BY <1>6, <2>12, <2>14, <2>15
<1> QED
  BY <1>5, <1>6


Having(k) == {l \in Levels : \E f \in ToSet(files_[l]) : Holds(f, k)}
TopEntries(k) == {e \in Entries(ToSet(files_[Min(Having(k))])) : e.u = k}

LEMMA GetIs ==
  ASSUME IInv, NEW k \in UserKeys, NEW having, having = Having(k), NEW top, top = TopEntries(k)
  PROVE  Get(k) = IF having = {} THEN NoKey ELSE CHOOSE e \in top : \A o \in top : o.s <= e.s
<1>1. PICK C : C = {c \in ForEachFile(k) : Holds(c.file, k)}
  OBVIOUS
<1>2. PICK c : c = FirstSearched(C)
  OBVIOUS
<1>3. Get(k) = IF C = {} THEN NoKey ELSE FirstOf(c.file, k)
  BY <1>1, <1>2 DEF Get, FirstOf
<1>4. \A d \in C : d \in ForEachFile(k) /\ Holds(d.file, k)
  BY <1>1
<1>5. \A d \in ForEachFile(k) : Holds(d.file, k) => d \in C
  BY <1>1
<1>6. \A d \in C : /\ IsSearched(d, Len(table)) /\ d.level \in Levels
                   /\ d.file \in ToSet(files_[d.level]) /\ d.level \in having
  BY <1>4, Candidates DEF Having
<1>7. CASE having = {}
  BY <1>3, <1>6, <1>7
<1>8. CASE having # {}
  <2>1. PICK l : l = Min(having)
    OBVIOUS
  <2>2. l \in having /\ (\A i \in having : l <= i) /\ having \in SUBSET Nat
    <3>1. having \in SUBSET Nat
      BY LevelsAre DEF Having
    <3> QED
      BY <1>8, <2>1, <3>1, MinOf
  <2>3. l \in Levels /\ l \in Nat /\ \E f \in ToSet(files_[l]) : Holds(f, k)
    BY <2>2 DEF Having
  <2>4. PICK d \in C : d.level = l
    BY <1>5, <2>3, SearchFinds
  <2>5. Len(table) \in Nat
    BY DEF IInv, TypeOK
  <2>6. c \in C /\ \A b \in C \ {c} : SearchedBefore(c, b)
    BY <1>2, <1>6, <2>4, <2>5, FirstSearchedIs
  <2>7. c.level = l
    <3>1. c.level \in Nat /\ l <= c.level
      BY <1>6, <2>2, <2>6
    <3>2. c = d \/ c.level <= l
      BY <2>3, <2>4, <2>6, <3>1 DEF SearchedBefore
    <3> QED
      BY <2>3, <2>4, <3>1, <3>2
  <2>8. c.file \in ToSet(files_[l]) /\ Holds(c.file, k) /\ c \in ForEachFile(k) /\ c.file \in Nat
    <3>1. c.file \in ToSet(files_[l]) /\ IsSearched(c, Len(table))
      BY <1>6, <2>6, <2>7
    <3>2. c.file \in Nat
      BY <2>5, <3>1 DEF IsSearched
    <3> QED
      BY <1>4, <2>6, <3>1, <3>2
  <2>9. \A f \in ToSet(files_[l]) : IsFile(table, f) /\ f \in All(Sets(files_))
    BY <2>3, LevelFiles
  <2>10. PICK e : e = FirstOf(c.file, k)
    OBVIOUS
  <2>11. /\ InFile(table, c.file, e) /\ e.u = k
         /\ \A o : InFile(table, c.file, o) /\ o.u = k => o.s <= e.s
    BY <2>8, <2>9, <2>10, FirstOfKey
  <2>12. \A o : o \in top <=> o.u = k /\ \E f \in ToSet(files_[l]) : InFile(table, f, o)
    BY <2>1, <2>9, EntriesAre DEF TopEntries
  <2>13. e \in top
    BY <2>8, <2>11, <2>12
  <2>14. \A o \in top : o \in Keys /\ o.s \in Nat
    <3> TAKE o \in top
    <3>1. PICK f \in ToSet(files_[l]) : InFile(table, f, o)
      BY <2>12
    <3>2. o \in Keys
      BY <2>3, <3>1, FileBounds
    <3> QED
      BY <3>2, KeyIs
  <2>15. ASSUME NEW o \in top
         PROVE  o.s <= e.s
    <3>1. o.u = k /\ o.s \in Nat /\ e.s \in Nat
      BY <2>12, <2>13, <2>14
    <3>2. PICK f \in ToSet(files_[l]) : InFile(table, f, o)
      BY <2>12
    <3>3. Holds(f, k)
      BY <3>1, <3>2, HoldsIs
    <3>4. PICK b \in ForEachFile(k) :
            /\ b.level = l /\ Holds(b.file, k) /\ (l = 0 => b.file = f)
            /\ \A x : InFile(table, f, x) /\ x.u = k =>
                 \E y : InFile(table, b.file, y) /\ y.u = k /\ x.s <= y.s
      BY <2>3, <3>3, SearchFinds
    <3>5. CASE c = b
      <4>1. PICK y : InFile(table, c.file, y) /\ y.u = k /\ o.s <= y.s
        BY <3>1, <3>2, <3>4, <3>5
      <4>2. y.s <= e.s
        BY <2>11, <4>1
      <4>3. y \in Keys /\ y.s \in Nat
        BY <2>3, <2>8, <4>1, FileBounds, KeyIs
      <4> QED
        BY <3>1, <4>1, <4>2, <4>3
    <3>6. CASE c # b
      <4>1. l = 0
        BY <2>7, <2>8, <3>4, <3>6, Candidates
      <4>2. b \in C /\ b.file = f
        BY <1>5, <3>4, <4>1
      <4>3. c.file > f
        BY <2>3, <2>6, <2>7, <3>4, <3>6, <4>2 DEF SearchedBefore
      <4>4. PICK F : F = Sets(files_)
        OBVIOUS
      <4>5. c.file \in F[0] /\ f \in F[0]
        BY <2>3, <2>8, <3>2, <4>1, <4>4, SetsAre
      <4>6. NewestOnTop(table, F)
        BY <4>4 DEF IInv, VersionInv, VersionOk
      <4>7. HasUser(table, c.file, o.u)
        BY <2>11, <3>1 DEF HasUser
      <4>8. Topped(table, {h \in F[0] : h >= c.file}, o)
        BY <3>2, <4>3, <4>5, <4>6, <4>7 DEF NewestOnTop
      <4>9. PICK h \in F[0] : h >= c.file /\ \E a : InFile(table, h, a) /\ a.u = o.u /\ a.s >= o.s
        BY <4>8 DEF Topped
      <4>10. PICK a : InFile(table, h, a) /\ a.u = k /\ a.s >= o.s
        BY <3>1, <4>9
      <4>11. h \in ToSet(files_[l]) /\ Holds(h, k)
        BY <2>3, <4>1, <4>4, <4>10, HoldsIs, SetsAre
      <4>12. PICK d0 \in ForEachFile(k) : d0.level = l /\ Holds(d0.file, k) /\ (l = 0 => d0.file = h)
        BY <2>3, <4>11, SearchFinds
      <4>13. d0 \in C /\ d0.file = h /\ d0.level = c.level
        BY <1>5, <2>7, <4>1, <4>12
      <4>14. h \in Nat /\ a.s \in Nat
        BY <2>3, <2>9, <4>10, <4>11, FileIs, FileBounds, KeyIs
      <4>15. h = c.file
        <5>1. CASE d0 = c
          BY <4>13, <5>1
        <5>2. CASE d0 # c
          <6>1. SearchedBefore(c, d0)
            BY <2>6, <4>13, <5>2
          <6>2. c.file > h
            BY <2>3, <2>7, <4>13, <6>1 DEF SearchedBefore
          <6> QED
            BY <2>8, <4>9, <4>14, <6>2
        <5> QED
          BY <5>1, <5>2
      <4>16. a.s <= e.s
        BY <2>11, <4>10, <4>15
      <4> QED
        BY <3>1, <4>10, <4>14, <4>16
    <3> QED
      BY <3>5, <3>6
  <2>16. PICK x : x = CHOOSE y \in top : \A o \in top : o.s <= y.s
    OBVIOUS
  <2>17. x \in top /\ \A o \in top : o.s <= x.s
    BY <2>13, <2>15, <2>16
  <2>18. x.s = e.s
    <3>1. x.s <= e.s /\ e.s <= x.s /\ x.s \in Nat /\ e.s \in Nat
      BY <2>13, <2>14, <2>15, <2>17
    <3> QED
      BY <3>1
  <2>19. x = e
    <3>1. PICK f \in ToSet(files_[l]) : InFile(table, f, x)
      BY <2>12, <2>17
    <3>2. PICK S : S = All(Sets(files_))
      OBVIOUS
    <3>3. Unique(table, S) /\ f \in S /\ c.file \in S
      BY <2>8, <2>9, <3>1, <3>2 DEF IInv, VersionInv, VersionOk
    <3> QED
      BY <2>11, <2>18, <3>1, <3>3, EntryOnce
  <2>20. Get(k) = e
    BY <1>3, <2>6, <2>10
  <2> QED
    BY <1>8, <2>16, <2>19, <2>20
<1> QED
  BY <1>7, <1>8

----------------------------------------------------------------------------
(* The properties.                                                         *)

LEMMA LiveIs ==
  ASSUME NEW f
  PROVE  /\ f \in Live <=> \E l \in Levels : f \in ToSet(files_[l])
         /\ f \in Live <=> f \in All(Sets(files_))
<1>1. f \in Live <=> \E l \in Levels : f \in ToSet(files_[l])
  BY DEF Live
<1>2. f \in All(Sets(files_)) <=> \E l \in Levels : f \in Sets(files_)[l]
  BY DEF All
<1> QED
  BY <1>1, <1>2, SetsAre

LEMMA IInvWellFormed ==
  ASSUME IInv
  PROVE  FilesWellFormed
<1>1. ASSUME NEW f \in Live \cup Outputs
      PROVE  IsFile(table, f)
  <2>1. table \in Seq(Tables) /\ FilesOk(table, Sets(files_))
    BY DEF IInv, TypeOK, VersionInv, VersionOk
  <2>2. CASE f \in Live
    BY <2>1, <2>2, LiveIs DEF IsFile, FilesOk
  <2>3. CASE f \notin Live
    <3>1. f \in Outputs
      BY <2>3
    <3>2. bg = "merge" /\ f \in ToSet(m.outputs)
      BY <3>1 DEF Outputs
    <3>3. OutputsOk(m.outputs, m.list, table, Inputs(m.c), Sets(files_))
      BY <3>2 DEF IInv, MergeInv
    <3>4. PICK outputs : outputs = m.outputs
      OBVIOUS
    <3>5. outputs \in Seq(Nat) /\ \A o \in 1..Len(outputs) : outputs[o] \in 1..Len(table) /\ WellFormed(table[outputs[o]])
      BY <3>3, <3>4 DEF OutputsOk
    <3>6. PICK o \in 1..Len(outputs) : outputs[o] = f
      BY <3>2, <3>4, <3>5 DEF ToSet
    <3> QED
      BY <2>1, <3>5, <3>6 DEF IsFile
  <2> QED
    BY <2>2, <2>3
<1>2. ASSUME NEW f \in Live \cup Outputs, NEW d, d = table[f].data
      PROVE  /\ d # <<>>
             /\ \A i \in 1..(Len(d) - 1) : Less(d[i], d[i + 1])
             /\ table[f].smallest = d[1] /\ table[f].largest = d[Len(d)]
  <2>1. IsFile(table, f)
    BY <1>1
  <2>2. WellFormed(table[f])
    BY <2>1 DEF IsFile
  <2>3. d \in Seq(Keys) /\ Len(d) \in Nat
    BY <1>2, <2>1, FileIs
  <2>4. /\ d # <<>> /\ Ascending(d)
        /\ table[f].smallest = d[1] /\ table[f].largest = d[Len(d)]
    BY <1>2, <2>2 DEF WellFormed
  <2>5. ASSUME NEW i \in 1..(Len(d) - 1)
        PROVE  Less(d[i], d[i + 1])
    <3>1. i \in 1..Len(d) /\ i + 1 \in 1..Len(d) /\ i < i + 1
      BY <2>3
    <3> QED
      BY <2>4, <3>1 DEF Ascending
  <2> QED
    BY <2>4, <2>5
<1>3. ASSUME bg = "merge"
      PROVE  \A i \in 1..(Len(m.outputs) - 1) : ~Less(table[m.outputs[i + 1]].smallest, table[m.outputs[i]].largest)
  <2>1. PICK outputs : outputs = m.outputs
    OBVIOUS
  <2>2. outputs \in Seq(Nat) /\ Follow(table, outputs) /\ ToSet(outputs) = Outputs
    BY <1>3, <2>1 DEF IInv, MergeInv, OutputsOk, Outputs
  <2>3. ASSUME NEW i \in 1..(Len(outputs) - 1)
        PROVE  ~Less(table[outputs[i + 1]].smallest, table[outputs[i]].largest)
    <3>1. i \in 1..Len(outputs) /\ i + 1 \in 1..Len(outputs) /\ i < i + 1
      BY <2>2
    <3>2. PICK f, g : f = outputs[i] /\ g = outputs[i + 1]
      OBVIOUS
    <3>3. IsFile(table, f) /\ IsFile(table, g)
      BY <1>1, <2>2, <3>1, <3>2 DEF ToSet
    <3>4. PICK a, b : a = table[f].largest /\ b = table[g].smallest
      OBVIOUS
    <3>5. a \in Keys /\ b \in Keys
      BY <3>3, <3>4, FileIs
    <3>6. AtMost(a, b)
      BY <2>2, <3>1, <3>2, <3>4 DEF Follow
    <3>7. ~Less(b, a)
      BY <3>5, <3>6, LessIrreflexive DEF AtMost
    <3> QED
      BY <3>2, <3>4, <3>7
  <2> QED
    BY <2>1, <2>3
<1> QED
  BY <1>2, <1>3 DEF FilesWellFormed

LEMMA IInvLevel0 ==
  ASSUME IInv
  PROVE  Level0Newest
<1>1. SUFFICES ASSUME NEW g \in Live \ ToSet(files_[0]), NEW b \in ToSet(table[g].data),
                      NEW f \in ToSet(files_[0]), Holds(f, b.u)
               PROVE  \E a \in Entries(ToSet(files_[0])) : a.u = b.u /\ a.s >= b.s
  BY DEF Level0Newest
<1>2. PICK l \in Levels : g \in ToSet(files_[l])
  BY LiveIs
<1>3. 0 \in Levels /\ l # 0
  BY <1>1, <1>2, LevelsAre
<1>4. IsFile(table, g) /\ \A h \in ToSet(files_[0]) : IsFile(table, h)
  BY <1>2, <1>3, LevelFiles
<1>5. InFile(table, g, b) /\ HasUser(table, f, b.u)
  BY <1>1, <1>4, DataIs, HoldsIs DEF HasUser
<1>6. PICK F : F = Sets(files_)
  OBVIOUS
<1>7. f \in F[0] /\ g \in F[l] /\ NewestOnTop(table, F) /\ F[0] = ToSet(files_[0])
  BY <1>2, <1>3, <1>6, SetsAre DEF IInv, VersionInv, VersionOk
<1>8. Topped(table, F[0], b)
  BY <1>3, <1>5, <1>7 DEF NewestOnTop
<1>9. PICK h \in F[0] : \E a : InFile(table, h, a) /\ a.u = b.u /\ a.s >= b.s
  BY <1>8 DEF Topped
<1>10. PICK a : InFile(table, h, a) /\ a.u = b.u /\ a.s >= b.s
  BY <1>9
<1>11. a \in Entries(ToSet(files_[0]))
  BY <1>4, <1>7, <1>10, EntriesAre
<1> QED
  BY <1>10, <1>11

LEMMA IInvSeek ==
  ASSUME IInv
  PROVE  SeekCompactionInRange
<1>1. NumLevels \in Nat
  BY ConstantsAre
<1> QED
  BY <1>1 DEF IInv, SeekInv, SeekCompactionInRange

LEMMA IInvGet ==
  ASSUME IInv
  PROVE  GetFindsNewestOfLevel
<1>1. \A k \in UserKeys :
        Get(k) = IF Having(k) = {} THEN NoKey ELSE CHOOSE e \in TopEntries(k) : \A o \in TopEntries(k) : o.s <= e.s
  BY GetIs
<1> QED
  BY <1>1 DEF GetFindsNewestOfLevel, Having, TopEntries

\* Whatever is flushed, picked, merged, installed and replayed, and in whichever order,
\* the bounds of every file describe its data, its entries ascend, and the outputs of a
\* merge follow each other: DoCompactionLevel loses the order of none of its inputs.
THEOREM AlwaysWellFormed == Spec => []FilesWellFormed
<1>1. IInv => FilesWellFormed
  BY IInvWellFormed
<1> QED
  BY <1>1, Invariance, PTL

\* When level 0 has a user key, it has an entry of it as new as any of a deeper level:
\* the inputs of a compaction of level 0, what is flushed while it runs and what DB::Open
\* replays leave it so.
THEOREM AlwaysLevel0Newest == Spec => []Level0Newest
<1>1. IInv => Level0Newest
  BY IInvLevel0
<1> QED
  BY <1>1, Invariance, PTL

\* SSTableBuilder::Add's assertion fails for nothing but an entry the merge has just
\* written: DoCompactionLevel never goes back in the order of its keys.
THEOREM AlwaysOnlyRepeatsStop == Spec => []OnlyRepeatsStop
<1>1. IInv => OnlyRepeatsStop
  BY DEF IInv
<1> QED
  BY <1>1, Invariance, PTL

\* Version::Get finds the newest entry of a user key in the first level that has one,
\* for every layout of files the flushes, compactions and reopens can produce.
THEOREM GetAlwaysFindsNewest == Spec => []GetFindsNewestOfLevel
<1>1. IInv => GetFindsNewestOfLevel
  BY IInvGet
<1> QED
  BY <1>1, Invariance, PTL

\* The file UpdateStats marks for a seek compaction is a file of the current version
\* until it is taken, also when the Get that charges it has an old version, and it is
\* never one of the last level.
THEOREM SeekAlwaysInRange == Spec => []SeekCompactionInRange
<1>1. IInv => SeekCompactionInRange
  BY IInvSeek
<1> QED
  BY <1>1, Invariance, PTL

=============================================================================
