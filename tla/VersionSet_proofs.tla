-------------------------- MODULE VersionSet_proofs --------------------------
(***************************************************************************)
(* Proofs about versions, memtables and SSTable files, for any number of   *)
(* readers, files and memtables: the reference counts are exact, a running *)
(* Get keeps everything it can reach, and no file that somebody may still  *)
(* want is deleted or given away.                                          *)
(***************************************************************************)
EXTENDS VersionSet, FiniteSetTheorems, TLAPS

----------------------------------------------------------------------------
(* The inductive invariant.                                                *)

\* mu_ is released for the write of the meta log, for a flush, for a compaction.
Logging == bg \in {"install", "nested_install", "apply", "move"}
Building == bg \in {"build", "nested_build"}
Installing == bg \in {"install", "nested_install"}
Compacting == bg \in {"merge", "nested_build", "nested_install", "apply", "move"}

\* The Gets that hold a version or a memtable.
Holders(v) == {r \in Readers : reader[r].version = v}
MemHolders(g) == {r \in Readers : reader[r].mem = g}
ImmHolders(g) == {r \in Readers : reader[r].imm = g}

Bit(p) == IF p THEN 1 ELSE 0

\* refs_ of a version counts the version set, the Builder, the compaction and the
\* Gets; refs_ of a memtable counts the database and the Gets.
RefCount(v) ==
  Bit(v = current_) + Bit(v = current_ /\ Logging) + Bit(v = comp.version)
    + Cardinality(Holders(v))
MemRefCount(g) ==
  Bit(g = mem_) + Bit(g = imm_) + Cardinality(MemHolders(g)) + Cardinality(ImmHolders(g))

RefsInv == \A v \in Versions : refs[v] = RefCount(v)
MemRefsInv == \A g \in Gens : memRefs[g] = MemRefCount(g)

Used(n) == n < next_file_number_

\* Files of versions and of the meta log are on disk.  As long as nothing has
\* failed the meta log names only the current version's files and those of the
\* edit that is being written: GarbageFilesClean may delete the others.
FilesInv ==
  /\ \A v \in Versions : refs[v] = 0 => files[v] = {}
  /\ \A v \in Versions : \A n \in files[v] : n \in disk /\ Used(n)
  /\ \A n \in named : n \in disk /\ Used(n)
  /\ background_ok => named \subseteq files[current_] \cup edit.added

\* What the background thread knows across the unlock.
FlushInv ==
  /\ Building => /\ imm_ # 0 /\ flush \in Numbers /\ Used(flush)
                 /\ flush \notin named \cup comp.outputs
                 /\ \A v \in Versions : flush \notin files[v]
  /\ Installing => /\ imm_ # 0
                   /\ \E f \in disk : /\ edit = [added |-> {f}, deleted |-> {}]
                                      /\ sources[f] = {imm_}
                                      /\ Used(f) /\ f \notin comp.outputs

CompInv ==
  /\ IF Compacting
     THEN /\ comp.version \in Versions
          /\ comp.inputs \subseteq files[comp.version]
          /\ \A n \in comp.outputs : /\ n \in files_writing_ /\ n \in disk /\ Used(n)
                                     /\ \A v \in Versions : n \notin files[v]
     ELSE comp = NoCompaction
  /\ ~Logging => edit = NoEdit
  /\ bg = "move" => edit = [added |-> comp.inputs, deleted |-> comp.inputs]
                    /\ comp.outputs = {}
  /\ bg = "apply" => /\ edit = [added |-> comp.outputs, deleted |-> comp.inputs]
                     /\ \A n \in comp.outputs : sources[n] = InputSources

\* Everything written so far can be reached through a view.
Complete(view) == (1..view.mem) \cup {-f : f \in Recovered} \subseteq Reach(view)
Now == [mem |-> mem_, imm |-> imm_, version |-> current_]

ViewInv ==
  /\ Complete(Now)
  /\ \A r \in Readers : reader[r] # NoView =>
       reader[r].mem \in Gens /\ reader[r].version \in Versions /\ Complete(reader[r])

Inv ==
  /\ TypeOK
  /\ RefsInv
  /\ MemRefsInv
  /\ FilesInv
  /\ FlushInv
  /\ CompInv
  /\ ViewInv

----------------------------------------------------------------------------
(* Counting references.                                                    *)

\* The holders of anything are finitely many.
LEMMA CountType ==
  ASSUME NEW S \in SUBSET Readers
  PROVE  /\ IsFiniteSet(S) /\ Cardinality(S) \in Nat
         /\ Cardinality(S) = 0 <=> S = {}
BY VersionSetAssumption, FS_Subset, FS_CardinalityType, FS_EmptySet

LEMMA HoldersType ==
  /\ \A v : Holders(v) \in SUBSET Readers
  /\ \A g : MemHolders(g) \in SUBSET Readers
  /\ \A g : ImmHolders(g) \in SUBSET Readers
BY DEF Holders, MemHolders, ImmHolders

LEMMA CountNat ==
  /\ \A v : Cardinality(Holders(v)) \in Nat
  /\ \A g : Cardinality(MemHolders(g)) \in Nat
  /\ \A g : Cardinality(ImmHolders(g)) \in Nat
BY HoldersType, CountType

\* Whoever holds a version or a memtable is counted.
LEMMA HoldersCount ==
  /\ \A r \in Readers : Cardinality(Holders(reader[r].version)) > 0
  /\ \A r \in Readers : Cardinality(MemHolders(reader[r].mem)) > 0
  /\ \A r \in Readers : Cardinality(ImmHolders(reader[r].imm)) > 0
<1>1. \A r \in Readers : /\ r \in Holders(reader[r].version)
                         /\ r \in MemHolders(reader[r].mem)
                         /\ r \in ImmHolders(reader[r].imm)
  BY DEF Holders, MemHolders, ImmHolders
<1>2. \A S \in SUBSET Readers : S # {} => Cardinality(S) > 0
  BY CountType
<1> QED  BY <1>1, <1>2, HoldersType

LEMMA CountTypes ==
  /\ \A v : RefCount(v) \in Nat
  /\ \A g : MemRefCount(g) \in Nat
BY CountNat DEF RefCount, MemRefCount, Bit

\* A version that somebody uses is not freed.
AllAlive ==
  /\ current_ \in Versions => refs[current_] > 0
  /\ comp.version \in Versions => refs[comp.version] > 0
  /\ \A r \in Readers : reader[r].version \in Versions => refs[reader[r].version] > 0

LEMMA Alive == RefsInv => AllAlive
BY CountNat, HoldersCount DEF RefsInv, RefCount, Bit, AllAlive

LEMMA MemAlive ==
  MemRefsInv =>
    /\ mem_ \in Gens => memRefs[mem_] > 0
    /\ imm_ \in Gens => memRefs[imm_] > 0
    /\ \A r \in Readers : reader[r].mem \in Gens => memRefs[reader[r].mem] > 0
    /\ \A r \in Readers : reader[r].imm \in Gens => memRefs[reader[r].imm] > 0
BY CountNat, HoldersCount DEF MemRefsInv, MemRefCount, Bit

\* There are more Version objects than holders: LogAndApply finds a free one.
LEMMA FreeVersion ==
  ASSUME TypeOK, RefsInv
  PROVE  \E v \in Versions : refs[v] = 0
<1> DEFINE g == [r \in Readers |-> reader[r].version]
           S == {reader[r].version : r \in Readers}
           T == (S \cup {comp.version}) \cup {current_}
<1>1. g \in Surjection(Readers, S)
  BY DEF Surjection
<1>2. IsFiniteSet(S) /\ Cardinality(S) <= Cardinality(Readers)
  BY <1>1, FS_Surjection, VersionSetAssumption
<1>3. /\ Cardinality(S) \in Nat /\ Cardinality(Readers) \in Nat /\ Cardinality(Versions) \in Nat
  BY <1>2, FS_CardinalityType, VersionSetAssumption
<1> HIDE DEF S
<1>4. IsFiniteSet(S \cup {comp.version}) /\ Cardinality(S \cup {comp.version}) <= Cardinality(S) + 1
  BY <1>2, <1>3, FS_AddElement
<1>5. Cardinality(S \cup {comp.version}) \in Nat
  BY <1>4, FS_CardinalityType
<1>6. IsFiniteSet(T) /\ Cardinality(T) <= Cardinality(S \cup {comp.version}) + 1
  BY <1>4, <1>5, FS_AddElement
<1>7. Cardinality(T) \in Nat /\ Cardinality(T) < Cardinality(Versions)
  <2>1. Cardinality(T) \in Nat
    BY <1>6, FS_CardinalityType
  <2> HIDE DEF T
  <2> QED  BY <1>2, <1>3, <1>4, <1>5, <1>6, <2>1, VersionSetAssumption
<1>8. ~(Versions \subseteq T)
  BY <1>3, <1>6, <1>7, FS_Subset
<1>9. PICK v \in Versions : v \notin T
  BY <1>8
<1>10. Holders(v) = {}
  BY <1>9 DEF Holders, S
<1>11. Cardinality(Holders(v)) = 0
  BY <1>10, FS_EmptySet
<1>12. v # current_ /\ v # comp.version
  BY <1>9
<1> QED  BY <1>11, <1>12 DEF RefsInv, RefCount, Bit

\* The version LogAndApply makes is nobody's.
LEMMA FreeIsUnused ==
  ASSUME TypeOK, RefsInv, NEW v \in Versions, refs[v] = 0
  PROVE  /\ v # current_ /\ v # comp.version /\ Holders(v) = {}
         /\ \A r \in Readers : reader[r].version # v
<1>1. RefCount(v) = 0
  BY DEF RefsInv
<1>2. v # current_ /\ v # comp.version /\ Cardinality(Holders(v)) = 0
  BY <1>1, CountNat DEF RefCount, Bit
<1>3. Holders(v) = {}
  BY <1>2, HoldersType, CountType
<1> QED  BY <1>2, <1>3 DEF Holders

----------------------------------------------------------------------------
(* LogAndApply.                                                            *)

\* The files an edit turns those of the current version into.
LEMMA SaveToType == TypeOK => SaveTo \in SUBSET Numbers /\ files[current_] \in SUBSET Numbers
BY DEF TypeOK, SaveTo

\* LogAndApply has installed version v and released version rel.
Installed(v, rel) ==
  /\ v \in Versions /\ refs[v] = 0
  /\ v # current_ /\ v # comp.version /\ (\A r \in Readers : reader[r].version # v)
  /\ current_' = v
  /\ refs' \in [Versions -> Int]
  /\ \A u \in Versions :
       refs'[u] = IF u = v THEN 1
                  ELSE refs[u] - (IF u = current_ THEN 2 ELSE 0) - (IF u = rel THEN 1 ELSE 0)
  /\ files' \in [Versions -> SUBSET Numbers]
  /\ files'[v] = SaveTo
  /\ \A u \in Versions : u # v => files'[u] = IF refs'[u] > 0 THEN files[u] ELSE {}
  /\ named' = (named \ edit.deleted) \cup edit.added
  /\ edit' = NoEdit

LEMMA SucceedsInstalls ==
  ASSUME TypeOK, RefsInv, NEW rel \in Versions \cup {0}, rel = 0 \/ rel = comp.version,
         LogAndApplySucceeds(rel)
  PROVE  \E v \in Versions : Installed(v, rel)
<1> DEFINE v == CHOOSE w \in Versions : refs[w] = 0
           rs == AppendVersion(v)
<1>1. v \in Versions /\ refs[v] = 0
  BY FreeVersion
<1>2. /\ refs' = IF rel = 0 THEN rs ELSE Unref(rs, rel)
      /\ files' = Kept([files EXCEPT ![v] = SaveTo], refs')
      /\ current_' = v
      /\ named' = (named \ edit.deleted) \cup edit.added
      /\ edit' = NoEdit
  BY DEF LogAndApplySucceeds
<1> HIDE DEF v
<1>3. v # current_ /\ v # comp.version /\ \A r \in Readers : reader[r].version # v
  BY <1>1, FreeIsUnused
<1>4. refs \in [Versions -> Nat] /\ current_ \in Versions /\ 0 \notin Versions
      /\ files \in [Versions -> SUBSET Numbers]
  BY VersionSetAssumption DEF TypeOK
<1>5. /\ rs \in [Versions -> Int]
      /\ \A u \in Versions : rs[u] = IF u = v THEN 1
                                     ELSE refs[u] - (IF u = current_ THEN 2 ELSE 0)
  BY <1>1, <1>3, <1>4 DEF AppendVersion, Unref
<1> HIDE DEF rs
<1>6. /\ refs' \in [Versions -> Int]
      /\ \A u \in Versions :
           refs'[u] = IF u = v THEN 1
                      ELSE refs[u] - (IF u = current_ THEN 2 ELSE 0) - (IF u = rel THEN 1 ELSE 0)
  <2>1. CASE rel = 0
    BY <1>2, <1>4, <1>5, <2>1
  <2>2. CASE rel # 0
    <3>1. rel \in Versions /\ rel # v /\ refs' = [rs EXCEPT ![rel] = @ - 1]
      BY <1>2, <1>3, <2>2 DEF Unref
    <3> QED  BY <1>4, <1>5, <3>1
  <2> QED  BY <2>1, <2>2
<1>7. /\ files' \in [Versions -> SUBSET Numbers]
      /\ files'[v] = SaveTo
      /\ \A u \in Versions : u # v => files'[u] = IF refs'[u] > 0 THEN files[u] ELSE {}
  <2>1. refs'[v] > 0
    BY <1>1, <1>6
  <2> QED  BY <1>1, <1>2, <1>4, <2>1, SaveToType DEF Kept
<1> QED  BY <1>1, <1>2, <1>3, <1>6, <1>7 DEF Installed

\* LogAndApply has failed and released version rel.
Failed(rel) ==
  /\ refs' \in [Versions -> Int]
  /\ \A u \in Versions :
       refs'[u] = refs[u] - (IF u = current_ THEN 1 ELSE 0) - (IF u = rel THEN 1 ELSE 0)
  /\ files' = [u \in Versions |-> IF refs'[u] > 0 THEN files[u] ELSE {}]
  /\ edit' = NoEdit /\ background_ok' = FALSE
  /\ current_' = current_ /\ named' = named

LEMMA FailsFails ==
  ASSUME TypeOK, NEW rel \in Versions \cup {0}, LogAndApplyFails(rel)
  PROVE  Failed(rel)
<1> DEFINE rs == Unref(refs, current_)
<1>1. refs \in [Versions -> Nat] /\ current_ \in Versions /\ 0 \notin Versions
  BY VersionSetAssumption DEF TypeOK
<1>2. /\ rs \in [Versions -> Int]
      /\ \A u \in Versions : rs[u] = refs[u] - (IF u = current_ THEN 1 ELSE 0)
  BY <1>1 DEF Unref
<1>3. refs' = IF rel = 0 THEN rs ELSE Unref(rs, rel)
  BY DEF LogAndApplyFails
<1> HIDE DEF rs
<1>4. /\ refs' \in [Versions -> Int]
      /\ \A u \in Versions :
           refs'[u] = refs[u] - (IF u = current_ THEN 1 ELSE 0) - (IF u = rel THEN 1 ELSE 0)
  <2>1. CASE rel = 0
    BY <1>1, <1>2, <1>3, <2>1
  <2>2. CASE rel # 0
    BY <1>1, <1>2, <1>3, <2>2 DEF Unref
  <2> QED  BY <2>1, <2>2
<1> QED  BY <1>4 DEF LogAndApplyFails, Kept, Failed

----------------------------------------------------------------------------
(* The reference counts of versions stay exact.                            *)

\* A step of the background thread or of the writer holds and drops for itself.
LEMMA RefsFrom ==
  ASSUME reader' = reader,
         \A v \in Versions : refs'[v] = Bit(v = current_') + Bit(v = current_' /\ Logging')
                                          + Bit(v = comp'.version) + Cardinality(Holders(v))
  PROVE  RefsInv'
BY DEF RefsInv, RefCount, Holders

LEMMA RefsSame ==
  ASSUME RefsInv, UNCHANGED <<refs, current_, comp, reader>>, Logging' = Logging
  PROVE  RefsInv'
BY DEF RefsInv, RefCount, Holders

LEMMA RefsFacts ==
  ASSUME TypeOK, RefsInv
  PROVE  /\ refs \in [Versions -> Nat] /\ current_ \in Versions /\ 0 \notin Versions
         /\ \A v \in Versions :
              /\ refs[v] = Bit(v = current_) + Bit(v = current_ /\ Logging)
                             + Bit(v = comp.version) + Cardinality(Holders(v))
              /\ Cardinality(Holders(v)) \in Nat
BY CountNat, VersionSetAssumption DEF TypeOK, RefsInv, RefCount

\* Get's reference to the current version.
LEMMA RefsGetStarts ==
  ASSUME Inv, NEW r \in Readers, GetStarts(r) PROVE RefsInv'
<1>1. /\ refs' = [refs EXCEPT ![current_] = @ + 1]
      /\ reader[r] = NoView
      /\ reader' = [reader EXCEPT ![r] = [mem |-> mem_, imm |-> imm_, version |-> current_]]
      /\ current_' = current_ /\ comp' = comp /\ bg' = bg
  BY DEF GetStarts, Ref
<1>2. TypeOK /\ RefsInv
  BY DEF Inv
<1>3. DOMAIN reader = Readers
  BY DEF Inv, TypeOK
<1> SUFFICES ASSUME NEW v \in Versions PROVE refs'[v] = RefCount(v)'
  BY DEF RefsInv
<1>4. v # 0
  BY VersionSetAssumption
<1>5. Cardinality(Holders(v)') = Cardinality(Holders(v)) + Bit(v = current_)
  <2>1. CASE v = current_
    <3>1. Holders(v)' = Holders(v) \cup {r} /\ r \notin Holders(v)
      BY <1>1, <1>3, <1>4, <2>1 DEF Holders, NoView
    <3>2. IsFiniteSet(Holders(v))
      BY HoldersType, CountType
    <3> QED  BY <2>1, <3>1, <3>2, FS_AddElement DEF Bit
  <2>2. CASE v # current_
    <3>1. Holders(v)' = Holders(v)
      BY <1>1, <1>3, <1>4, <2>2 DEF Holders, NoView
    <3> QED  BY <2>2, <3>1, CountNat DEF Bit
  <2> QED  BY <2>1, <2>2
<1>6. refs'[v] = refs[v] + Bit(v = current_)
  BY <1>1, <1>2, RefsFacts DEF Bit
<1> QED  BY <1>1, <1>2, <1>5, <1>6, RefsFacts DEF RefCount, Bit, Logging

\* It is given back when Get returns.
LEMMA RefsGetEnds ==
  ASSUME Inv, NEW r \in Readers, GetEnds(r) PROVE RefsInv' /\ refs' \in [Versions -> Int]
<1> DEFINE u == reader[r].version
<1>1. /\ refs' = [refs EXCEPT ![u] = @ - 1]
      /\ reader' = [reader EXCEPT ![r] = NoView]
      /\ current_' = current_ /\ comp' = comp /\ bg' = bg
  BY DEF GetEnds, Unref
<1>2. TypeOK /\ RefsInv /\ u \in Versions
  BY DEF Inv, ViewInv, GetEnds
<1>3. DOMAIN reader = Readers
  BY DEF Inv, TypeOK
<1>4. refs' \in [Versions -> Int]
  BY <1>1, <1>2, RefsFacts
<1> SUFFICES ASSUME NEW v \in Versions PROVE refs'[v] = RefCount(v)'
  BY <1>4 DEF RefsInv
<1>5. v # 0
  BY VersionSetAssumption
<1>6. Cardinality(Holders(v)') = Cardinality(Holders(v)) - Bit(v = u)
  <2>1. CASE v = u
    <3>1. Holders(v)' = Holders(v) \ {r} /\ r \in Holders(v)
      BY <1>1, <1>3, <1>5, <2>1 DEF Holders, NoView
    <3>2. IsFiniteSet(Holders(v))
      BY HoldersType, CountType
    <3> QED  BY <2>1, <3>1, <3>2, FS_RemoveElement DEF Bit
  <2>2. CASE v # u
    <3>1. Holders(v)' = Holders(v)
      BY <1>1, <1>3, <1>5, <2>2 DEF Holders, NoView
    <3> QED  BY <2>2, <3>1, CountNat DEF Bit
  <2> QED  BY <2>1, <2>2
<1>7. refs'[v] = refs[v] - Bit(v = u)
  BY <1>1, <1>2, RefsFacts DEF Bit
<1> QED  BY <1>1, <1>2, <1>6, <1>7, RefsFacts DEF RefCount, Bit, Logging

\* The background thread's references: the Builder's and the compaction's.
LEMMA RefsFlushBuilt ==
  ASSUME Inv, FlushBuilt PROVE RefsInv'
<1>1. TypeOK /\ RefsInv /\ reader' = reader /\ comp' = comp /\ ~Logging
  BY DEF Inv, FlushBuilt, Logging
<1>2. CASE LogAndApplyStarts({flush}, {}) /\ bg' = IF Nested THEN "nested_install" ELSE "install"
  <2>1. Logging' /\ refs' = [refs EXCEPT ![current_] = @ + 1] /\ current_' = current_
    BY <1>2 DEF Logging, LogAndApplyStarts, Ref
  <2> QED  BY <1>1, <2>1, RefsFacts, RefsFrom DEF Bit
<1>3. CASE bg' = (IF Nested THEN "merge" ELSE "idle") /\ UNCHANGED versionVars
  BY <1>1, <1>3, RefsSame DEF versionVars, Logging
<1> QED  BY <1>2, <1>3 DEF FlushBuilt

LEMMA RefsInstall ==
  ASSUME Inv, Logging, ~Logging', reader' = reader, NEW rel \in Versions \cup {0},
         \/ rel = 0 /\ comp' = comp
         \/ rel = comp.version /\ comp' = NoCompaction,
         (\E v \in Versions : Installed(v, rel)) \/ Failed(rel)
  PROVE  RefsInv'
<1>1. TypeOK /\ RefsInv
  BY DEF Inv
<1>2. \A v \in Versions : Bit(v = comp'.version) = Bit(v = comp.version) - Bit(v = rel)
  BY <1>1, RefsFacts DEF NoCompaction, Bit
<1>3. ASSUME NEW v \in Versions, Installed(v, rel) PROVE RefsInv'
  <2>1. Cardinality(Holders(v)) = 0 /\ v # rel
    <3>1. refs[v] = 0 /\ v # comp.version
      BY <1>3 DEF Installed
    <3> QED  BY <1>1, <3>1, RefsFacts DEF Bit
  <2>2. \A u \in Versions : refs'[u] = Bit(u = current_') + Bit(u = current_' /\ Logging')
                                          + Bit(u = comp'.version) + Cardinality(Holders(u))
    <3> SUFFICES ASSUME NEW u \in Versions
                 PROVE  refs'[u] = Bit(u = current_') + Bit(u = current_' /\ Logging')
                                     + Bit(u = comp'.version) + Cardinality(Holders(u))
      OBVIOUS
    <3>1. CASE u = v
      <4>1. refs'[u] = 1 /\ u = current_' /\ u # comp.version
        BY <1>3, <3>1 DEF Installed
      <4>2. Bit(u = comp'.version) = 0
        BY <1>2, <2>1, <3>1, <4>1 DEF Bit
      <4> QED  BY <2>1, <3>1, <4>1, <4>2 DEF Bit
    <3>2. CASE u # v
      <4>1. refs'[u] = refs[u] - (IF u = current_ THEN 2 ELSE 0) - (IF u = rel THEN 1 ELSE 0)
            /\ u # current_'
        BY <1>3, <3>2 DEF Installed
      <4> QED  BY <1>1, <1>2, <4>1, RefsFacts DEF Bit
    <3> QED  BY <3>1, <3>2
  <2> QED  BY <2>2, RefsFrom
<1>4. CASE Failed(rel)
  <2>1. \A u \in Versions : refs'[u] = Bit(u = current_') + Bit(u = current_' /\ Logging')
                                          + Bit(u = comp'.version) + Cardinality(Holders(u))
    BY <1>1, <1>2, <1>4, RefsFacts DEF Failed, Bit
  <2> QED  BY <2>1, RefsFrom
<1> QED  BY <1>3, <1>4

LEMMA RefsCompactionStarts ==
  ASSUME Inv, CompactionStarts PROVE RefsInv'
<1>1. TypeOK /\ RefsInv /\ reader' = reader /\ current_' = current_ /\ ~Logging
      /\ comp'.version = current_ /\ comp = NoCompaction
  BY DEF Inv, CompInv, CompactionStarts, Logging, Compacting
<1>2. CASE bg' = "merge" /\ refs' = Ref(refs, current_)
  <2>1. ~Logging' /\ refs' = [refs EXCEPT ![current_] = @ + 1]
    BY <1>2 DEF Logging, Ref
  <2> QED  BY <1>1, <2>1, RefsFacts, RefsFrom DEF Bit, NoCompaction
<1>3. CASE bg' = "move" /\ refs' = Ref(Ref(refs, current_), current_)
  <2>1. Logging' /\ refs' = [[refs EXCEPT ![current_] = @ + 1] EXCEPT ![current_] = @ + 1]
    BY <1>3 DEF Logging, Ref
  <2>2. \A v \in Versions : refs'[v] = refs[v] + (IF v = current_ THEN 2 ELSE 0)
    BY <1>1, <2>1, RefsFacts
  <2> QED  BY <1>1, <2>1, <2>2, RefsFacts, RefsFrom DEF Bit, NoCompaction
<1> QED  BY <1>2, <1>3 DEF CompactionStarts

LEMMA RefsMergeFails ==
  ASSUME Inv, MergeFails PROVE RefsInv'
<1>1. /\ TypeOK /\ RefsInv /\ reader' = reader /\ current_' = current_ /\ ~Logging /\ ~Logging'
      /\ comp' = NoCompaction /\ comp.version \in Versions
      /\ refs' = [refs EXCEPT ![comp.version] = @ - 1]
  BY DEF Inv, CompInv, MergeFails, Logging, Compacting, Unref
<1> QED  BY <1>1, RefsFacts, RefsFrom DEF Bit, NoCompaction

LEMMA RefsMergeEnds ==
  ASSUME Inv, MergeEnds PROVE RefsInv'
<1>1. /\ TypeOK /\ RefsInv /\ reader' = reader /\ current_' = current_ /\ ~Logging /\ Logging'
      /\ comp' = comp /\ refs' = [refs EXCEPT ![current_] = @ + 1]
  BY DEF Inv, MergeEnds, LogAndApplyStarts, Logging, Ref
<1> QED  BY <1>1, RefsFacts, RefsFrom DEF Bit

\* The three steps that end a LogAndApply, as one: the version it installs or
\* not, and the version it releases.
LEMMA InstallSteps ==
  ASSUME Inv
  PROVE  /\ FlushInstalled =>
              /\ Logging /\ ~Logging' /\ reader' = reader /\ comp' = comp
              /\ (\E v \in Versions : Installed(v, 0)) \/ Failed(0)
         /\ MoveEnds \/ CompactionInstalled =>
              /\ Logging /\ ~Logging' /\ reader' = reader /\ comp' = NoCompaction
              /\ comp.version \in Versions
              /\ (\E v \in Versions : Installed(v, comp.version)) \/ Failed(comp.version)
<1>1. TypeOK /\ RefsInv
  BY DEF Inv
<1>2. ASSUME FlushInstalled
      PROVE  /\ Logging /\ ~Logging' /\ reader' = reader /\ comp' = comp
             /\ (\E v \in Versions : Installed(v, 0)) \/ Failed(0)
  <2>1. Logging /\ ~Logging' /\ reader' = reader /\ comp' = comp
    BY <1>2 DEF FlushInstalled, Logging
  <2>2. LogAndApplySucceeds(0) \/ LogAndApplyFails(0)
    BY <1>2 DEF FlushInstalled
  <2> QED  BY <1>1, <2>1, <2>2, SucceedsInstalls, FailsFails
<1>3. ASSUME MoveEnds \/ CompactionInstalled
      PROVE  /\ Logging /\ ~Logging' /\ reader' = reader /\ comp' = NoCompaction
             /\ comp.version \in Versions
             /\ (\E v \in Versions : Installed(v, comp.version)) \/ Failed(comp.version)
  <2>1. Logging /\ ~Logging' /\ reader' = reader /\ comp' = NoCompaction
    BY <1>3 DEF MoveEnds, CompactionInstalled, Logging
  <2>2. comp.version \in Versions
    BY <1>3 DEF Inv, CompInv, MoveEnds, CompactionInstalled, Compacting
  <2>3. LogAndApplySucceeds(comp.version) \/ LogAndApplyFails(comp.version)
    BY <1>3 DEF MoveEnds, CompactionInstalled
  <2> QED  BY <1>1, <2>1, <2>2, <2>3, SucceedsInstalls, FailsFails
<1> QED  BY <1>2, <1>3

LEMMA RefsStep == Inv /\ [Next]_vars => RefsInv'
<1> SUFFICES ASSUME Inv, [Next]_vars PROVE RefsInv'
  OBVIOUS
<1>1. RefsInv
  BY DEF Inv
<1>2. CASE SwitchMemtable \/ FlushStarts \/ OpenCompactionSSTable \/ UNCHANGED vars
  <2>1. CASE SwitchMemtable \/ UNCHANGED vars
    BY <1>1, <2>1, RefsSame DEF SwitchMemtable, vars, versionVars, Logging
  <2>2. CASE FlushStarts
    BY <1>1, <2>2, RefsSame DEF FlushStarts, versionVars, Logging
  <2>3. CASE OpenCompactionSSTable
    BY <1>1, <2>3 DEF OpenCompactionSSTable, versionVars, Logging, RefsInv, RefCount, Holders
  <2> QED  BY <1>2, <2>1, <2>2, <2>3
<1>3. CASE \E r \in Readers : GetStarts(r) \/ GetEnds(r)
  BY <1>3, RefsGetStarts, RefsGetEnds
<1>4. CASE FlushBuilt
  BY <1>4, RefsFlushBuilt
<1>5. CASE FlushInstalled
  BY <1>5, InstallSteps, RefsInstall
<1>6. CASE MoveEnds \/ CompactionInstalled
  BY <1>6, InstallSteps, RefsInstall
<1>7. CASE CompactionStarts \/ MergeFails \/ MergeEnds
  BY <1>7, RefsCompactionStarts, RefsMergeFails, RefsMergeEnds
<1> QED  BY <1>2, <1>3, <1>4, <1>5, <1>6, <1>7 DEF Next

----------------------------------------------------------------------------
(* The reference counts of memtables stay exact.                           *)

LEMMA MemFacts ==
  ASSUME TypeOK, MemRefsInv
  PROVE  /\ memRefs \in [Gens -> Nat] /\ mem_ \in Gens /\ 0 \notin Gens
         /\ imm_ # 0 => imm_ \in Gens
         /\ \A g \in Gens :
              /\ memRefs[g] = Bit(g = mem_) + Bit(g = imm_)
                                + Cardinality(MemHolders(g)) + Cardinality(ImmHolders(g))
              /\ Cardinality(MemHolders(g)) \in Nat
              /\ Cardinality(ImmHolders(g)) \in Nat
<1>1. memRefs \in [Gens -> Nat] /\ mem_ \in Gens /\ 0 \notin Gens
  BY DEF TypeOK, Gens
<1>2. imm_ # 0 => imm_ \in Gens
  BY VersionSetAssumption DEF TypeOK, Gens
<1> QED  BY <1>1, <1>2, CountNat DEF MemRefsInv, MemRefCount

\* No Get begins or ends.
LEMMA MemRefsFrom ==
  ASSUME reader' = reader,
         \A g \in Gens : memRefs'[g] = Bit(g = mem_') + Bit(g = imm_')
                           + Cardinality(MemHolders(g)) + Cardinality(ImmHolders(g))
  PROVE  MemRefsInv'
BY DEF MemRefsInv, MemRefCount, MemHolders, ImmHolders

LEMMA MemSwitch ==
  ASSUME Inv, SwitchMemtable
  PROVE  MemRefsInv' /\ memRefs' \in [Gens -> Nat] /\ mem_' \in Gens /\ imm_' \in 0..MaxGen
<1>1. TypeOK /\ MemRefsInv /\ reader' = reader /\ imm_ = 0 /\ imm_ \in 0..MaxGen
  BY DEF Inv, TypeOK, SwitchMemtable
<1>2. CASE UNCHANGED memVars
  BY <1>1, <1>2, MemFacts DEF memVars, MemRefsInv, MemRefCount, MemHolders, ImmHolders
<1>3. CASE imm_' = mem_ /\ mem_' = mem_ + 1 /\ memRefs' = Ref(memRefs, mem_ + 1)
  <2>1. mem_ + 1 \in Gens /\ mem_ \in 0..MaxGen
    BY <1>1, MemFacts, VersionSetAssumption DEF SwitchMemtable, Gens
  <2>2. /\ memRefs' \in [Gens -> Nat]
        /\ \A g \in Gens : memRefs'[g] = memRefs[g] + Bit(g = mem_ + 1)
    BY <1>1, <1>3, <2>1, MemFacts DEF Ref, Bit
  <2>3. \A g \in Gens : memRefs'[g] = Bit(g = mem_') + Bit(g = imm_')
                           + Cardinality(MemHolders(g)) + Cardinality(ImmHolders(g))
    BY <1>1, <1>3, <2>2, MemFacts DEF Bit
  <2> QED  BY <1>1, <1>3, <2>1, <2>2, <2>3, MemRefsFrom
<1> QED  BY <1>2, <1>3 DEF SwitchMemtable

\* Get holds both memtables.
LEMMA MemGetStarts ==
  ASSUME Inv, NEW r \in Readers, GetStarts(r)
  PROVE  MemRefsInv' /\ memRefs' \in [Gens -> Nat]
<1>1. /\ reader[r] = NoView
      /\ reader' = [reader EXCEPT ![r] = [mem |-> mem_, imm |-> imm_, version |-> current_]]
      /\ mem_' = mem_ /\ imm_' = imm_ /\ memRefs' = ViewRefs
  BY DEF GetStarts
<1>2. TypeOK /\ MemRefsInv /\ DOMAIN reader = Readers
  BY DEF Inv, TypeOK
<1>3. /\ memRefs' \in [Gens -> Nat]
      /\ \A g \in Gens : memRefs'[g] = memRefs[g] + Bit(g = mem_) + Bit(g = imm_)
  <2>1. CASE imm_ = 0
    BY <1>1, <1>2, <2>1, MemFacts DEF ViewRefs, Ref, Bit
  <2>2. CASE imm_ # 0
    <3>1. memRefs' = [[memRefs EXCEPT ![mem_] = @ + 1] EXCEPT ![imm_] = @ + 1]
      BY <1>1, <2>2 DEF ViewRefs, Ref
    <3> QED  BY <1>2, <2>2, <3>1, MemFacts DEF Bit
  <2> QED  BY <2>1, <2>2
<1> SUFFICES ASSUME NEW g \in Gens PROVE memRefs'[g] = MemRefCount(g)'
  BY <1>3 DEF MemRefsInv
<1>4. g # 0
  BY DEF Gens
<1>5. Cardinality(MemHolders(g)') = Cardinality(MemHolders(g)) + Bit(g = mem_)
  <2>1. CASE g = mem_
    <3>1. MemHolders(g)' = MemHolders(g) \cup {r} /\ r \notin MemHolders(g)
      BY <1>1, <1>2, <1>4, <2>1 DEF MemHolders, NoView
    <3> QED  BY <2>1, <3>1, FS_AddElement, HoldersType, CountType DEF Bit
  <2>2. CASE g # mem_
    <3>1. MemHolders(g)' = MemHolders(g)
      BY <1>1, <1>2, <1>4, <2>2 DEF MemHolders, NoView
    <3> QED  BY <2>2, <3>1, CountNat DEF Bit
  <2> QED  BY <2>1, <2>2
<1>6. Cardinality(ImmHolders(g)') = Cardinality(ImmHolders(g)) + Bit(g = imm_)
  <2>1. CASE g = imm_
    <3>1. ImmHolders(g)' = ImmHolders(g) \cup {r} /\ r \notin ImmHolders(g)
      BY <1>1, <1>2, <1>4, <2>1 DEF ImmHolders, NoView
    <3> QED  BY <2>1, <3>1, FS_AddElement, HoldersType, CountType DEF Bit
  <2>2. CASE g # imm_
    <3>1. ImmHolders(g)' = ImmHolders(g)
      BY <1>1, <1>2, <1>4, <2>2 DEF ImmHolders, NoView
    <3> QED  BY <2>2, <3>1, CountNat DEF Bit
  <2> QED  BY <2>1, <2>2
<1> QED  BY <1>1, <1>2, <1>3, <1>5, <1>6, MemFacts DEF MemRefCount, Bit

\* It gives both back, the immutable one only if it had one.
LEMMA MemGetEnds ==
  ASSUME Inv, NEW r \in Readers, GetEnds(r)
  PROVE  MemRefsInv' /\ memRefs' \in [Gens -> Int]
<1> DEFINE m == reader[r].mem
           i == reader[r].imm
<1>1. /\ reader' = [reader EXCEPT ![r] = NoView]
      /\ mem_' = mem_ /\ imm_' = imm_ /\ memRefs' = ViewUnrefs(reader[r])
  BY DEF GetEnds
<1>2. TypeOK /\ MemRefsInv /\ DOMAIN reader = Readers /\ m \in Gens /\ (i # 0 => i \in Gens)
  <2>1. m \in Gens
    BY DEF Inv, ViewInv, GetEnds
  <2>2. i \in 0..MaxGen
    BY DEF Inv, TypeOK
  <2>3. i # 0 => i \in Gens
    BY <2>2, VersionSetAssumption DEF Gens
  <2>4. TypeOK /\ MemRefsInv /\ DOMAIN reader = Readers
    BY DEF Inv, TypeOK
  <2> QED  BY <2>1, <2>3, <2>4
<1>3. /\ memRefs' \in [Gens -> Int]
      /\ \A g \in Gens : memRefs'[g] = memRefs[g] - Bit(g = m) - Bit(g = i)
  <2>1. CASE i = 0
    BY <1>1, <1>2, <2>1, MemFacts DEF ViewUnrefs, Unref, Bit
  <2>2. CASE i # 0
    <3>1. memRefs' = [[memRefs EXCEPT ![m] = @ - 1] EXCEPT ![i] = @ - 1]
      BY <1>1, <2>2 DEF ViewUnrefs, Unref
    <3> QED  BY <1>2, <2>2, <3>1, MemFacts DEF Bit
  <2> QED  BY <2>1, <2>2
<1> SUFFICES ASSUME NEW g \in Gens PROVE memRefs'[g] = MemRefCount(g)'
  BY <1>3 DEF MemRefsInv
<1>4. g # 0
  BY DEF Gens
<1>5. Cardinality(MemHolders(g)') = Cardinality(MemHolders(g)) - Bit(g = m)
  <2>1. CASE g = m
    <3>1. MemHolders(g)' = MemHolders(g) \ {r} /\ r \in MemHolders(g)
      BY <1>1, <1>2, <1>4, <2>1 DEF MemHolders, NoView
    <3> QED  BY <2>1, <3>1, FS_RemoveElement, HoldersType, CountType DEF Bit
  <2>2. CASE g # m
    <3>1. MemHolders(g)' = MemHolders(g)
      BY <1>1, <1>2, <1>4, <2>2 DEF MemHolders, NoView
    <3> QED  BY <2>2, <3>1, CountNat DEF Bit
  <2> QED  BY <2>1, <2>2
<1>6. Cardinality(ImmHolders(g)') = Cardinality(ImmHolders(g)) - Bit(g = i)
  <2>1. CASE g = i
    <3>1. ImmHolders(g)' = ImmHolders(g) \ {r} /\ r \in ImmHolders(g)
      BY <1>1, <1>2, <1>4, <2>1 DEF ImmHolders, NoView
    <3> QED  BY <2>1, <3>1, FS_RemoveElement, HoldersType, CountType DEF Bit
  <2>2. CASE g # i
    <3>1. ImmHolders(g)' = ImmHolders(g)
      BY <1>1, <1>2, <1>4, <2>2 DEF ImmHolders, NoView
    <3> QED  BY <2>2, <3>1, CountNat DEF Bit
  <2> QED  BY <2>1, <2>2
<1> QED  BY <1>1, <1>2, <1>3, <1>5, <1>6, MemFacts DEF MemRefCount, Bit

\* The database lets the flushed memtable go.
LEMMA MemInstalled ==
  ASSUME Inv, FlushInstalled
  PROVE  MemRefsInv' /\ memRefs' \in [Gens -> Int] /\ mem_' = mem_ /\ imm_' \in {0, imm_}
<1>1. TypeOK /\ MemRefsInv /\ reader' = reader /\ imm_ # 0
  BY DEF Inv, FlushInv, FlushInstalled, Installing
<1>2. CASE UNCHANGED memVars
  BY <1>1, <1>2, MemFacts DEF memVars, MemRefsInv, MemRefCount, MemHolders, ImmHolders
<1>3. CASE memRefs' = Unref(memRefs, imm_) /\ imm_' = 0 /\ mem_' = mem_
  <2>1. /\ memRefs' \in [Gens -> Int]
        /\ \A g \in Gens : memRefs'[g] = memRefs[g] - Bit(g = imm_)
    BY <1>1, <1>3, MemFacts DEF Unref, Bit
  <2>2. \A g \in Gens : memRefs'[g] = Bit(g = mem_') + Bit(g = imm_')
                           + Cardinality(MemHolders(g)) + Cardinality(ImmHolders(g))
    BY <1>1, <1>3, <2>1, MemFacts DEF Bit
  <2> QED  BY <1>1, <1>3, <2>1, <2>2, MemRefsFrom
<1> QED  BY <1>2, <1>3 DEF FlushInstalled

LEMMA MemRefsStep ==
  Inv /\ [Next]_vars => /\ MemRefsInv' /\ memRefs' \in [Gens -> Nat]
                        /\ mem_' \in Gens /\ imm_' \in 0..MaxGen
<1> SUFFICES ASSUME Inv, [Next]_vars
             PROVE  /\ MemRefsInv' /\ memRefs' \in [Gens -> Nat]
                    /\ mem_' \in Gens /\ imm_' \in 0..MaxGen
  OBVIOUS
<1>1. /\ TypeOK /\ MemRefsInv /\ memRefs \in [Gens -> Nat]
      /\ mem_ \in Gens /\ imm_ \in 0..MaxGen /\ 0 \in 0..MaxGen
  BY VersionSetAssumption DEF Inv, TypeOK
<1>2. (\A g : MemRefCount(g) \in Nat)'
  BY CountTypes, PTL
<1>3. MemRefsInv' /\ memRefs' \in [Gens -> Int] => memRefs' \in [Gens -> Nat]
  BY <1>2 DEF MemRefsInv
<1>4. CASE SwitchMemtable
  BY <1>4, MemSwitch
<1>5. ASSUME NEW r \in Readers, GetStarts(r)
      PROVE  /\ MemRefsInv' /\ memRefs' \in [Gens -> Nat]
             /\ mem_' \in Gens /\ imm_' \in 0..MaxGen
  BY <1>1, <1>5, MemGetStarts DEF GetStarts
<1>6. ASSUME NEW r \in Readers, GetEnds(r)
      PROVE  /\ MemRefsInv' /\ memRefs' \in [Gens -> Nat]
             /\ mem_' \in Gens /\ imm_' \in 0..MaxGen
  BY <1>1, <1>3, <1>6, MemGetEnds DEF GetEnds
<1>7. CASE FlushInstalled
  BY <1>1, <1>3, <1>7, MemInstalled
<1>8. CASE \/ FlushStarts \/ FlushBuilt \/ CompactionStarts \/ MoveEnds
           \/ OpenCompactionSSTable \/ MergeFails \/ MergeEnds \/ CompactionInstalled
           \/ UNCHANGED vars
  <2>1. UNCHANGED memVars /\ reader' = reader
    BY <1>8 DEF FlushStarts, FlushBuilt, CompactionStarts, MoveEnds, OpenCompactionSSTable,
                MergeFails, MergeEnds, CompactionInstalled, vars, memVars
  <2> QED  BY <1>1, <2>1 DEF memVars, MemRefsInv, MemRefCount, MemHolders, ImmHolders
<1> QED  BY <1>4, <1>5, <1>6, <1>7, <1>8 DEF Next

----------------------------------------------------------------------------
(* Files.                                                                  *)

\* GarbageFilesClean keeps what a version holds or somebody writes, and after an
\* error everything.
LEMMA GCFacts ==
  ASSUME TypeOK, NEW ok \in BOOLEAN, GarbageFilesClean(ok)
  PROVE  /\ disk' \subseteq disk
         /\ ~ok => disk' = disk
         /\ \A v \in Versions : \A n \in files'[v] : n \in disk => n \in disk'
         /\ \A n \in files_writing_' : n \in disk => n \in disk'
         /\ sources' \in [Numbers -> SUBSET Sources]
         /\ \A n \in disk' : sources'[n] = sources[n]
<1>1. disk' = IF ok THEN disk \cap (files_writing_' \cup UNION {files'[v] : v \in Versions})
                    ELSE disk
  BY DEF GarbageFilesClean, Remaining, Live
<1>2. disk \subseteq Numbers /\ sources \in [Numbers -> SUBSET Sources]
  BY DEF TypeOK
<1>3. sources' = [n \in Numbers |-> IF n \in disk' THEN sources[n] ELSE {}]
  BY DEF GarbageFilesClean
<1>4. disk' \subseteq disk /\ (~ok => disk' = disk)
  BY <1>1
<1>5. \A v \in Versions : \A n \in files'[v] : n \in disk => n \in disk'
  BY <1>1
<1>6. \A n \in files_writing_' : n \in disk => n \in disk'
  BY <1>1
<1>7. sources' \in [Numbers -> SUBSET Sources] /\ \A n \in disk' : sources'[n] = sources[n]
  BY <1>2, <1>3, <1>4
<1> QED  BY <1>4, <1>5, <1>6, <1>7

\* The files of the edit in the meta log are there.
LEMMA EditAdded ==
  ASSUME Inv, Logging
  PROVE  \A n \in edit.added : n \in disk /\ Used(n)
<1>1. CASE Installing
  BY <1>1 DEF Inv, FlushInv
<1>2. CASE bg = "move"
  <2>1. comp.version \in Versions /\ comp.inputs \subseteq files[comp.version]
    BY <1>2 DEF Inv, CompInv, Compacting
  <2> QED  BY <1>2, <2>1 DEF Inv, CompInv, FilesInv
<1>3. CASE bg = "apply"
  BY <1>3 DEF Inv, CompInv, Compacting
<1> QED  BY <1>1, <1>2, <1>3 DEF Logging, Installing

\* What is true of versions that stay listed, whichever way LogAndApply ends.
LEMMA HeldFiles ==
  ASSUME RefsInv', reader' = reader,
         NEW fresh,
         \A u \in Versions : u # fresh => files'[u] = IF refs'[u] > 0 THEN files[u] ELSE {},
         \A r \in Readers : reader[r].version # fresh
  PROVE  \A r \in Readers : reader[r].version \in Versions =>
           files'[reader[r].version] = files[reader[r].version]
<1>1. AllAlive'
  BY Alive, PTL
<1> QED  BY <1>1 DEF AllAlive

\* A version is installed and, except after a move, files are cleaned up.
LEMMA InstallFiles ==
  ASSUME Inv, Logging, NEW v \in Versions, NEW rel, Installed(v, rel), RefsInv',
         next_file_number_' = next_file_number_, background_ok' = background_ok,
         UNCHANGED <<disk, sources>> \/ GarbageFilesClean(background_ok)
  PROVE  /\ FilesInv'
         /\ disk' \subseteq disk
         /\ sources' \in [Numbers -> SUBSET Sources]
         /\ \A n \in disk' : sources'[n] = sources[n]
         /\ \A n \in files_writing_' : n \in disk => n \in disk'
         /\ \A u \in Versions : u # v => files'[u] \subseteq files[u]
<1>1. /\ disk' \subseteq disk
      /\ ~background_ok => disk' = disk
      /\ \A u \in Versions : \A n \in files'[u] : n \in disk => n \in disk'
      /\ \A n \in files_writing_' : n \in disk => n \in disk'
      /\ sources' \in [Numbers -> SUBSET Sources]
      /\ \A n \in disk' : sources'[n] = sources[n]
  <2>1. TypeOK /\ background_ok \in BOOLEAN /\ sources \in [Numbers -> SUBSET Sources]
    BY DEF Inv, TypeOK
  <2>2. CASE UNCHANGED <<disk, sources>>
    BY <2>1, <2>2
  <2>3. CASE GarbageFilesClean(background_ok)
    BY <2>1, <2>3, GCFacts
  <2> QED  BY <2>2, <2>3
<1>2. /\ \A u \in Versions : refs[u] = 0 => files[u] = {}
      /\ \A u \in Versions : \A n \in files[u] : n \in disk /\ Used(n)
      /\ \A n \in named : n \in disk /\ Used(n)
      /\ background_ok => named \subseteq files[current_] \cup edit.added
      /\ current_ \in Versions
  BY DEF Inv, FilesInv, TypeOK
<1>3. \A n \in edit.added : n \in disk /\ Used(n)
  BY EditAdded
<1>4. \A n : Used(n)' <=> Used(n)
  BY DEF Used
<1>5. /\ refs'[v] = 1 /\ current_' = v /\ files'[v] = SaveTo
      /\ named' = (named \ edit.deleted) \cup edit.added
      /\ \A u \in Versions : u # v => files'[u] = IF refs'[u] > 0 THEN files[u] ELSE {}
  BY DEF Installed
<1>6. \A n \in SaveTo : n \in disk /\ Used(n)
  BY <1>2, <1>3 DEF SaveTo
<1>7. \A u \in Versions : refs'[u] = 0 => files'[u] = {}
  BY <1>5
<1>8. \A u \in Versions : u # v => files'[u] \subseteq files[u]
  BY <1>5
<1>9. \A u \in Versions : \A n \in files'[u] : n \in disk' /\ Used(n)
  BY <1>1, <1>2, <1>5, <1>6, <1>8
<1>10. background_ok => named' \subseteq SaveTo
  BY <1>2, <1>5 DEF SaveTo
<1>11. \A n \in named' : n \in disk' /\ Used(n)
  <2>1. \A n \in named' : n \in disk /\ Used(n)
    BY <1>2, <1>3, <1>5
  <2>2. background_ok => \A n \in named' : n \in disk'
    BY <1>5, <1>9, <1>10
  <2> QED  BY <1>1, <2>1, <2>2
<1>12. background_ok' => named' \subseteq files'[current_'] \cup edit'.added
  BY <1>5, <1>10
<1> QED  BY <1>1, <1>4, <1>7, <1>8, <1>9, <1>11, <1>12 DEF FilesInv

\* The meta log could not be written, or a merge failed: versions may go, no file
\* does.
LEMMA ReleaseFiles ==
  ASSUME Inv, next_file_number_' = next_file_number_, UNCHANGED <<disk, named, current_>>,
         files' = [u \in Versions |-> IF refs'[u] > 0 THEN files[u] ELSE {}],
         background_ok' => background_ok /\ edit' = edit /\ refs'[current_] > 0
  PROVE  FilesInv' /\ \A u \in Versions : files'[u] \subseteq files[u]
<1>1. /\ \A u \in Versions : \A n \in files[u] : n \in disk /\ Used(n)
      /\ \A n \in named : n \in disk /\ Used(n)
      /\ background_ok => named \subseteq files[current_] \cup edit.added
      /\ current_ \in Versions
  BY DEF Inv, FilesInv, TypeOK
<1>2. \A n : Used(n)' <=> Used(n)
  BY DEF Used
<1>3. \A u \in Versions : files'[u] \subseteq files[u] /\ (refs'[u] = 0 => files'[u] = {})
  OBVIOUS
<1>4. background_ok' => named' \subseteq files'[current_'] \cup edit'.added
  BY <1>1
<1> QED  BY <1>1, <1>2, <1>3, <1>4 DEF FilesInv

----------------------------------------------------------------------------
(* What a Get can reach.                                                   *)

\* A view keeps what it shows while its version's files keep their contents.
LEMMA CompleteKept ==
  ASSUME NEW view, Complete(view), dropped \subseteq dropped',
         files'[view.version] = files[view.version],
         \A n \in files[view.version] : sources'[n] = sources[n]
  PROVE  Complete(view)'
BY DEF Complete, Reach

\* The views of the Gets that go on, in a step that leaves their versions alone.
LEMMA ReadersKept ==
  ASSUME Inv, dropped \subseteq dropped', reader' = reader,
         \A r \in Readers : reader[r].version \in Versions =>
           /\ files'[reader[r].version] = files[reader[r].version]
           /\ \A n \in files[reader[r].version] : sources'[n] = sources[n]
  PROVE  \A r \in Readers : reader'[r] # NoView =>
           reader'[r].mem \in Gens /\ reader'[r].version \in Versions /\ Complete(reader[r])'
<1> SUFFICES ASSUME NEW r \in Readers, reader[r] # NoView
             PROVE  /\ reader[r].mem \in Gens /\ reader[r].version \in Versions
                    /\ Complete(reader[r])'
  OBVIOUS
<1>1. reader[r].mem \in Gens /\ reader[r].version \in Versions /\ Complete(reader[r])
  BY DEF Inv, ViewInv
<1> QED  BY <1>1 DEF Complete, Reach

----------------------------------------------------------------------------
(* Types.                                                                  *)

LEMMA RefsType == Inv /\ [Next]_vars => refs' \in [Versions -> Nat]
<1> SUFFICES ASSUME Inv, [Next]_vars PROVE refs' \in [Versions -> Nat]
  OBVIOUS
<1>1. RefsInv' /\ refs \in [Versions -> Nat]
  BY RefsStep DEF Inv, TypeOK
<1>2. (\A v : RefCount(v) \in Nat)'
  BY CountTypes, PTL
<1> SUFFICES refs' \in [Versions -> Int]
  BY <1>1, <1>2 DEF RefsInv
<1>3. CASE \E r \in Readers : GetStarts(r) \/ GetEnds(r)
  BY <1>1, <1>3, RefsGetEnds DEF GetStarts, Ref
<1>4. CASE FlushInstalled \/ MoveEnds \/ CompactionInstalled
  BY <1>4, InstallSteps DEF Installed, Failed
<1>5. CASE FlushBuilt
  BY <1>1, <1>5 DEF FlushBuilt, LogAndApplyStarts, Ref, versionVars
<1>6. CASE CompactionStarts
  BY <1>1, <1>6 DEF CompactionStarts, Ref
<1>7. CASE MergeFails \/ MergeEnds
  BY <1>1, <1>7 DEF MergeFails, MergeEnds, LogAndApplyStarts, Ref, Unref
<1>8. CASE SwitchMemtable \/ FlushStarts \/ OpenCompactionSSTable \/ UNCHANGED vars
  BY <1>1, <1>8 DEF SwitchMemtable, FlushStarts, OpenCompactionSSTable, versionVars, vars
<1> QED  BY <1>3, <1>4, <1>5, <1>6, <1>7, <1>8 DEF Next

\* The types of everything but the memtables and the counts.
OtherTypes ==
  /\ next_file_number_ \in 1..(MaxNumber + 1)
  /\ files \in [Versions -> SUBSET Numbers]
  /\ current_ \in Versions
  /\ disk \subseteq Numbers
  /\ sources \in [Numbers -> SUBSET Sources]
  /\ dropped \subseteq Sources
  /\ files_writing_ \subseteq Numbers
  /\ named \subseteq Numbers
  /\ reader \in [Readers -> [mem : 0..MaxGen, imm : 0..MaxGen, version : Versions \cup {0}]]
  /\ bg \in {"idle", "build", "install", "merge", "nested_build", "nested_install",
             "apply", "move"}
  /\ flush \in 0..MaxNumber
  /\ comp \in [version : Versions \cup {0}, inputs : SUBSET Numbers, outputs : SUBSET Numbers]
  /\ edit \in [added : SUBSET Numbers, deleted : SUBSET Numbers]
  /\ background_ok \in BOOLEAN

LEMMA NumberTaken ==
  ASSUME TypeOK, HaveNumber, NextFileNumber
  PROVE  /\ next_file_number_ \in Numbers /\ next_file_number_ \in 0..MaxNumber
         /\ next_file_number_' \in 1..(MaxNumber + 1)
         /\ \A n \in Numbers : Used(n) => n # next_file_number_ /\ Used(n)'
         /\ next_file_number_ < next_file_number_'
<1>1. MaxNumber \in Nat /\ next_file_number_ \in 1..(MaxNumber + 1)
      /\ next_file_number_' = next_file_number_ + 1 /\ next_file_number_ <= MaxNumber
  BY VersionSetAssumption DEF TypeOK, HaveNumber, NextFileNumber
<1>2. /\ next_file_number_ \in 1..MaxNumber /\ next_file_number_ \in 0..MaxNumber
      /\ next_file_number_' \in 1..(MaxNumber + 1)
  BY <1>1
<1>3. \A n \in 1..MaxNumber : n < next_file_number_ =>
        n # next_file_number_ /\ n < next_file_number_'
  BY <1>1
<1>4. next_file_number_ < next_file_number_'
  BY <1>1
<1> QED  BY <1>2, <1>3, <1>4 DEF Numbers, Used

LEMMA NoneTypes ==
  /\ NoCompaction \in [version : Versions \cup {0}, inputs : SUBSET Numbers, outputs : SUBSET Numbers]
  /\ NoEdit \in [added : SUBSET Numbers, deleted : SUBSET Numbers]
  /\ NoView \in [mem : 0..MaxGen, imm : 0..MaxGen, version : Versions \cup {0}]
BY VersionSetAssumption DEF NoCompaction, NoEdit, NoView

LEMMA InstallTypes ==
  ASSUME Inv, RefsInv', Logging,
         FlushInstalled \/ MoveEnds \/ CompactionInstalled
  PROVE  /\ files' \in [Versions -> SUBSET Numbers] /\ current_' \in Versions
         /\ named' \subseteq Numbers /\ edit' \in [added : SUBSET Numbers, deleted : SUBSET Numbers]
         /\ background_ok' \in BOOLEAN
         /\ disk' \subseteq Numbers /\ sources' \in [Numbers -> SUBSET Sources]
<1>1. OtherTypes
  BY DEF Inv, TypeOK, OtherTypes
<1>2. ASSUME NEW rel, NEW v \in Versions, Installed(v, rel)
      PROVE  /\ files' \in [Versions -> SUBSET Numbers] /\ current_' \in Versions
             /\ named' \subseteq Numbers
             /\ edit' \in [added : SUBSET Numbers, deleted : SUBSET Numbers]
  BY <1>1, <1>2, NoneTypes DEF Installed, OtherTypes
<1>3. ASSUME NEW rel, Failed(rel)
      PROVE  /\ files' \in [Versions -> SUBSET Numbers] /\ current_' \in Versions
             /\ named' \subseteq Numbers
             /\ edit' \in [added : SUBSET Numbers, deleted : SUBSET Numbers]
  BY <1>1, <1>3, NoneTypes DEF Failed, OtherTypes
<1>4. background_ok' \in BOOLEAN
  BY <1>1 DEF OtherTypes, FlushInstalled, MoveEnds, CompactionInstalled, LogAndApplyFails
<1>5. UNCHANGED <<disk, sources>> \/ GarbageFilesClean(background_ok)
  BY DEF FlushInstalled, MoveEnds, CompactionInstalled, diskVars
<1>6. disk' \subseteq Numbers /\ sources' \in [Numbers -> SUBSET Sources]
  <2>1. TypeOK /\ background_ok \in BOOLEAN
    BY DEF Inv, TypeOK
  <2>2. CASE GarbageFilesClean(background_ok)
    BY <1>1, <2>1, <2>2, GCFacts DEF OtherTypes
  <2> QED  BY <1>1, <1>5, <2>2 DEF OtherTypes
<1> QED  BY <1>2, <1>3, <1>4, <1>6, InstallSteps

LEMMA OtherTypesStep == Inv /\ [Next]_vars => OtherTypes'
<1> SUFFICES ASSUME Inv, [Next]_vars PROVE OtherTypes'
  OBVIOUS
<1>1. TypeOK /\ OtherTypes /\ mem_ \in 0..MaxGen /\ imm_ \in 0..MaxGen
  BY SMTT(30) DEF Inv, TypeOK, OtherTypes, Gens
<1>2. CASE SwitchMemtable
  <2>1. next_file_number_' \in 1..(MaxNumber + 1)
    BY <1>1, <1>2, NumberTaken DEF SwitchMemtable
  <2>2. background_ok' \in BOOLEAN
    BY <1>1, <1>2 DEF SwitchMemtable, OtherTypes
  <2> QED  BY <1>1, <1>2, <2>1, <2>2 DEF SwitchMemtable, OtherTypes, versionVars, diskVars
<1>3. ASSUME NEW r \in Readers, GetStarts(r) PROVE OtherTypes'
  <2>1. reader' \in [Readers -> [mem : 0..MaxGen, imm : 0..MaxGen, version : Versions \cup {0}]]
    BY <1>1, <1>3 DEF GetStarts, OtherTypes
  <2> QED  BY <1>1, <1>3, <2>1 DEF GetStarts, OtherTypes, diskVars
<1>4. ASSUME NEW r \in Readers, GetEnds(r) PROVE OtherTypes'
  <2>1. reader' \in [Readers -> [mem : 0..MaxGen, imm : 0..MaxGen, version : Versions \cup {0}]]
    BY <1>1, <1>4, NoneTypes DEF GetEnds, OtherTypes
  <2>2. files' \in [Versions -> SUBSET Numbers]
    BY <1>1, <1>4 DEF GetEnds, Kept, OtherTypes
  <2> QED  BY <1>1, <1>4, <2>1, <2>2 DEF GetEnds, OtherTypes, diskVars
<1>5. CASE FlushStarts
  <2>1. /\ next_file_number_' \in 1..(MaxNumber + 1) /\ flush' \in 0..MaxNumber
        /\ files_writing_' \subseteq Numbers
    BY <1>1, <1>5, NumberTaken DEF FlushStarts, OtherTypes
  <2>2. bg' \in {"build", "nested_build"}
    BY <1>5 DEF FlushStarts
  <2> QED  BY <1>1, <1>5, <2>1, <2>2 DEF FlushStarts, OtherTypes, versionVars
<1>6. CASE FlushBuilt
  <2>1. flush \in Numbers /\ imm_ # 0 /\ imm_ \in Sources
    <3>1. flush \in Numbers /\ imm_ # 0
      BY <1>6 DEF Inv, FlushInv, FlushBuilt, Building
    <3>2. imm_ \in Gens
      BY <1>1, <3>1, VersionSetAssumption DEF Gens
    <3> QED  BY <3>1, <3>2 DEF Sources
  <2>2. /\ flush' \in 0..MaxNumber /\ files_writing_' \subseteq Numbers
    BY <1>1, <1>6, VersionSetAssumption DEF FlushBuilt, OtherTypes
  <2>3. CASE /\ disk' = disk \cup {flush} /\ sources' = [sources EXCEPT ![flush] = {imm_}]
             /\ LogAndApplyStarts({flush}, {})
             /\ bg' = IF Nested THEN "nested_install" ELSE "install"
             /\ UNCHANGED background_ok
    <3>1. disk' \subseteq Numbers /\ sources' \in [Numbers -> SUBSET Sources]
      BY <1>1, <2>1, <2>3 DEF OtherTypes
    <3>2. /\ edit' \in [added : SUBSET Numbers, deleted : SUBSET Numbers]
          /\ named' \subseteq Numbers /\ files' = files /\ current_' = current_
      BY <1>1, <2>1, <2>3 DEF LogAndApplyStarts, OtherTypes
    <3>3. bg' \in {"nested_install", "install"} /\ background_ok' = background_ok
      BY <2>3
    <3> QED  BY <1>1, <1>6, <2>2, <3>1, <3>2, <3>3 DEF FlushBuilt, OtherTypes
  <2>4. CASE /\ disk' \in {disk \ {flush}, disk \cup {flush}}
             /\ background_ok' = FALSE
             /\ bg' = IF Nested THEN "merge" ELSE "idle"
             /\ UNCHANGED <<sources, edit, named, versionVars>>
    <3>1. disk' \subseteq Numbers /\ bg' \in {"merge", "idle"}
      BY <1>1, <2>1, <2>4 DEF OtherTypes
    <3>2. UNCHANGED <<sources, edit, named, files, current_>> /\ background_ok' = FALSE
      BY <2>4 DEF versionVars
    <3> QED  BY <1>1, <1>6, <2>2, <3>1, <3>2 DEF FlushBuilt, OtherTypes
  <2> QED  BY <1>6, <2>3, <2>4 DEF FlushBuilt
<1>7. CASE FlushInstalled
  <2>1. bg' \in {"merge", "idle"}
    BY <1>7 DEF FlushInstalled
  <2>2. UNCHANGED <<next_file_number_, dropped, files_writing_, reader, flush, comp>>
    BY <1>7 DEF FlushInstalled
  <2>3. RefsInv' /\ Logging
    BY <1>7, RefsStep, InstallSteps
  <2> QED  BY <1>1, <1>7, <2>1, <2>2, <2>3, InstallTypes DEF OtherTypes
<1>8. CASE CompactionStarts
  <2>1. PICK inputs \in SUBSET files[current_] \ {{}} :
          /\ comp' = [version |-> current_, inputs |-> inputs, outputs |-> {}]
          /\ \/ bg' = "merge" /\ UNCHANGED edit
             \/ bg' = "move" /\ edit' = [added |-> inputs, deleted |-> inputs]
          /\ UNCHANGED named
    BY <1>8 DEF CompactionStarts
  <2>2. inputs \in SUBSET Numbers
    BY <1>1 DEF OtherTypes
  <2>3. comp' \in [version : Versions \cup {0}, inputs : SUBSET Numbers, outputs : SUBSET Numbers]
    BY <1>1, <2>1, <2>2 DEF OtherTypes
  <2>4. edit' \in [added : SUBSET Numbers, deleted : SUBSET Numbers] /\ bg' \in {"merge", "move"}
    BY <1>1, <2>1, <2>2 DEF OtherTypes
  <2> QED  BY <1>1, <1>8, <2>1, <2>3, <2>4 DEF CompactionStarts, OtherTypes, diskVars
<1>9. CASE MoveEnds
  <2>1. UNCHANGED <<next_file_number_, dropped, files_writing_, reader, flush>>
        /\ bg' = "idle" /\ comp' = NoCompaction
    BY <1>9 DEF MoveEnds, diskVars
  <2>2. RefsInv' /\ Logging
    BY <1>9, RefsStep, InstallSteps
  <2> QED  BY <1>1, <1>9, <2>1, <2>2, InstallTypes, NoneTypes DEF OtherTypes
<1>10. CASE OpenCompactionSSTable
  <2>1. /\ next_file_number_' \in 1..(MaxNumber + 1) /\ next_file_number_ \in Numbers
    BY <1>1, <1>10, NumberTaken DEF OpenCompactionSSTable
  <2>2. /\ files_writing_' \subseteq Numbers /\ disk' \subseteq Numbers
    BY <1>1, <1>10, <2>1 DEF OpenCompactionSSTable, OtherTypes
  <2>3. comp' \in [version : Versions \cup {0}, inputs : SUBSET Numbers, outputs : SUBSET Numbers]
    BY <1>1, <1>10, <2>1 DEF OpenCompactionSSTable, OtherTypes
  <2> QED  BY <1>1, <1>10, <2>1, <2>2, <2>3 DEF OpenCompactionSSTable, OtherTypes, versionVars
<1>11. CASE MergeFails
  <2>1. files' \in [Versions -> SUBSET Numbers] /\ files_writing_' \subseteq Numbers
    BY <1>1, <1>11 DEF MergeFails, Kept, OtherTypes
  <2> QED  BY <1>1, <1>11, <2>1, NoneTypes DEF MergeFails, OtherTypes
<1>12. CASE MergeEnds
  <2>1. InputSources \subseteq Sources
    BY <1>1 DEF InputSources, OtherTypes
  <2>2. sources' \in [Numbers -> SUBSET Sources]
    BY <1>1, <1>12, <2>1 DEF MergeEnds, OtherTypes
  <2>3. /\ edit' \in [added : SUBSET Numbers, deleted : SUBSET Numbers]
        /\ named' \subseteq Numbers /\ files' = files /\ current_' = current_
    BY <1>1, <1>12 DEF MergeEnds, LogAndApplyStarts, OtherTypes
  <2> QED  BY <1>1, <1>12, <2>2, <2>3 DEF MergeEnds, OtherTypes
<1>13. CASE CompactionInstalled
  <2>1. InputSources \subseteq Sources
    BY <1>1 DEF InputSources, OtherTypes
  <2>2. dropped' \subseteq Sources /\ files_writing_' \subseteq Numbers
    BY <1>1, <1>13, <2>1 DEF CompactionInstalled, OtherTypes
  <2>3. UNCHANGED <<next_file_number_, reader, flush>> /\ bg' = "idle" /\ comp' = NoCompaction
    BY <1>13 DEF CompactionInstalled
  <2>4. RefsInv' /\ Logging
    BY <1>13, RefsStep, InstallSteps
  <2> QED  BY <1>1, <1>13, <2>2, <2>3, <2>4, InstallTypes, NoneTypes DEF OtherTypes
<1>14. CASE UNCHANGED vars
  BY <1>1, <1>14 DEF vars, OtherTypes
<1> QED  BY <1>2, <1>3, <1>4, <1>5, <1>6, <1>7, <1>8, <1>9, <1>10, <1>11, <1>12, <1>13, <1>14
         DEF Next

LEMMA TypeStep == Inv /\ [Next]_vars => TypeOK'
<1>1. Inv /\ [Next]_vars => OtherTypes' /\ refs' \in [Versions -> Nat]
  BY OtherTypesStep, RefsType
<1> QED  BY <1>1, MemRefsStep DEF OtherTypes, TypeOK

----------------------------------------------------------------------------
(* The rest of the invariant, action by action.                            *)

Rest == FilesInv /\ FlushInv /\ CompInv /\ ViewInv

\* File numbers only grow.
LEMMA UsedKept ==
  ASSUME TypeOK,
         next_file_number_' = next_file_number_ \/ (HaveNumber /\ NextFileNumber)
  PROVE  \A n \in Numbers : Used(n) => Used(n)'
<1>1. CASE next_file_number_' = next_file_number_
  BY <1>1 DEF Used
<1>2. CASE HaveNumber /\ NextFileNumber
  BY <1>2, NumberTaken
<1> QED  BY <1>1, <1>2

\* The invariant's facts about files, with the types they need.
LEMMA FilesFacts ==
  ASSUME Inv
  PROVE  /\ \A v \in Versions : files[v] \subseteq Numbers
         /\ named \subseteq Numbers /\ comp.outputs \subseteq Numbers /\ comp.inputs \subseteq Numbers
         /\ edit.added \subseteq Numbers /\ disk \subseteq Numbers
         /\ current_ \in Versions
         /\ \A v \in Versions : refs[v] = 0 => files[v] = {}
         /\ \A v \in Versions : \A n \in files[v] : n \in disk /\ Used(n)
         /\ \A n \in named : n \in disk /\ Used(n)
         /\ background_ok => named \subseteq files[current_] \cup edit.added
BY DEF Inv, TypeOK, FilesInv

LEMMA CompFacts ==
  ASSUME Inv, Compacting
  PROVE  /\ comp.version \in Versions
         /\ comp.inputs \subseteq files[comp.version]
         /\ \A n \in comp.outputs : /\ n \in files_writing_ /\ n \in disk /\ Used(n)
                                    /\ \A v \in Versions : n \notin files[v]
BY DEF Inv, CompInv

\* Nothing that a view shows changes.
LEMMA ViewsSame ==
  ASSUME Inv, UNCHANGED <<mem_, imm_, current_, files, dropped, reader>>,
         \A v \in Versions : \A n \in files[v] : sources'[n] = sources[n]
  PROVE  ViewInv'
<1>1. \A r \in Readers : reader'[r] # NoView =>
        reader'[r].mem \in Gens /\ reader'[r].version \in Versions /\ Complete(reader[r])'
  BY ReadersKept
<1>2. Complete(Now)'
  <2>1. Complete(Now) /\ Now' = Now /\ Now.version = current_ /\ current_ \in Versions
    BY DEF Inv, ViewInv, TypeOK, Now
  <2> QED  BY <2>1 DEF Complete, Reach
<1> QED  BY <1>1, <1>2 DEF ViewInv

LEMMA RestSwitch == ASSUME Inv, SwitchMemtable PROVE Rest'
<1>1. /\ UNCHANGED <<files, refs, current_, disk, sources, dropped, files_writing_, named,
                     reader, bg, flush, comp, edit>>
      /\ background_ok /\ imm_ = 0 /\ HaveNumber /\ NextFileNumber
  BY DEF SwitchMemtable, versionVars, diskVars
<1>2. \A n \in Numbers : Used(n) => Used(n)'
  BY <1>1, UsedKept DEF Inv
<1>3. FilesInv'
  BY <1>1, <1>2, FilesFacts DEF FilesInv
<1>4. FlushInv'
  BY <1>1 DEF Inv, FlushInv, Building, Installing
<1>5. CompInv'
  <2>1. Compacting => \A n \in comp.outputs : Used(n)'
    BY <1>2, CompFacts, FilesFacts
  <2> QED  BY <1>1, <2>1 DEF Inv, CompInv, Compacting, Logging, InputSources
<1>6. ViewInv'
  <2>1. \A r \in Readers : reader'[r] # NoView =>
          reader'[r].mem \in Gens /\ reader'[r].version \in Versions /\ Complete(reader[r])'
    BY <1>1, ReadersKept
  <2>2. Complete(Now)'
    <3>1. (1..mem_) \cup {-f : f \in Recovered} \subseteq
            {mem_, 0} \cup dropped \cup UNION {sources[n] : n \in files[current_]}
      BY <1>1 DEF Inv, ViewInv, Complete, Now, Reach
    <3>2. mem_ \in Nat /\ mem_ >= 1 /\ 0 \notin 1..mem_
      BY DEF Inv, TypeOK, Gens
    <3>3. CASE UNCHANGED memVars
      BY <1>1, <3>1, <3>3 DEF memVars, Complete, Now, Reach
    <3>4. CASE imm_' = mem_ /\ mem_' = mem_ + 1
      <4>1. 1..(mem_ + 1) = (1..mem_) \cup {mem_ + 1}
        BY <3>2
      <4>2. {-f : f \in Recovered} \subseteq
              {mem_} \cup dropped \cup UNION {sources[n] : n \in files[current_]}
        <5>1. \A f \in Recovered : f \in Nat /\ f # 0 /\ -f # 0
          BY VersionSetAssumption
        <5> QED  BY <3>1, <5>1
      <4>3. 1..mem_ \subseteq
              {mem_} \cup dropped \cup UNION {sources[n] : n \in files[current_]}
        BY <3>1, <3>2
      <4>4. (1..(mem_ + 1)) \cup {-f : f \in Recovered} \subseteq
              {mem_ + 1, mem_} \cup dropped \cup UNION {sources[n] : n \in files[current_]}
        BY <4>1, <4>2, <4>3
      <4> QED  BY <1>1, <3>4, <4>4 DEF Complete, Now, Reach
    <3> QED  BY <3>3, <3>4 DEF SwitchMemtable
  <2> QED  BY <2>1, <2>2 DEF ViewInv
<1> QED  BY <1>3, <1>4, <1>5, <1>6 DEF Rest

LEMMA RestGetStarts == ASSUME Inv, NEW r \in Readers, GetStarts(r) PROVE Rest'
<1>1. /\ UNCHANGED <<next_file_number_, mem_, imm_, files, current_, disk, sources, dropped,
                     files_writing_, named, bg, flush, comp, edit, background_ok>>
      /\ refs' = [refs EXCEPT ![current_] = @ + 1]
      /\ reader' = [reader EXCEPT ![r] = Now]
  BY DEF GetStarts, diskVars, Ref, Now
<1>2. refs \in [Versions -> Nat] /\ mem_ \in Gens /\ current_ \in Versions
      /\ DOMAIN reader = Readers
  BY DEF Inv, TypeOK
<1>3. FilesInv'
  <2>1. \A v \in Versions : refs'[v] = 0 => refs[v] = 0
    BY <1>1, <1>2
  <2> QED  BY <1>1, <2>1, FilesFacts DEF FilesInv, Used
<1>4. FlushInv' /\ CompInv'
  BY <1>1 DEF Inv, FlushInv, CompInv, Building, Installing, Compacting, Logging, InputSources,
              Used
<1>5. Complete(Now)' /\ Now' = Now
  BY <1>1 DEF Inv, ViewInv, Now, Complete, Reach
<1>6. ASSUME NEW s \in Readers, reader'[s] # NoView
      PROVE  reader'[s].mem \in Gens /\ reader'[s].version \in Versions /\ Complete(reader[s])'
  <2>1. CASE s = r
    <3>1. reader'[s] = Now /\ Now.mem = mem_ /\ Now.version = current_
      BY <1>1, <1>2, <2>1 DEF Now
    <3> QED  BY <1>2, <1>5, <3>1 DEF Complete, Reach
  <2>2. CASE s # r
    <3>1. reader'[s] = reader[s]
      BY <1>1, <1>2, <2>2
    <3>2. reader[s].mem \in Gens /\ reader[s].version \in Versions /\ Complete(reader[s])
      BY <1>6, <3>1 DEF Inv, ViewInv
    <3> QED  BY <1>1, <3>1, <3>2 DEF Complete, Reach
  <2> QED  BY <2>1, <2>2
<1>7. ViewInv'
  BY <1>5, <1>6 DEF ViewInv
<1> QED  BY <1>3, <1>4, <1>7 DEF Rest

LEMMA RestGetEnds == ASSUME Inv, RefsInv', NEW r \in Readers, GetEnds(r) PROVE Rest'
<1>1. /\ UNCHANGED <<next_file_number_, mem_, imm_, current_, disk, sources, dropped,
                     files_writing_, named, bg, flush, comp, edit, background_ok>>
      /\ files' = [v \in Versions |-> IF refs'[v] > 0 THEN files[v] ELSE {}]
      /\ reader' = [reader EXCEPT ![r] = NoView]
  BY DEF GetEnds, diskVars, Kept
<1>2. current_ \in Versions /\ DOMAIN reader = Readers
  BY DEF Inv, TypeOK
<1>3. /\ refs'[current_] > 0
      /\ comp.version \in Versions => refs'[comp.version] > 0
      /\ \A s \in Readers : reader'[s].version \in Versions => refs'[reader'[s].version] > 0
  <2>1. AllAlive'
    BY Alive, PTL
  <2> QED  BY <1>1, <1>2, <2>1 DEF AllAlive
<1>4. FilesInv' /\ \A u \in Versions : files'[u] \subseteq files[u]
  BY <1>1, <1>3, ReleaseFiles
<1>5. FlushInv'
  BY <1>1, <1>4 DEF Inv, FlushInv, Building, Installing, Used
<1>6. CompInv'
  <2>1. Compacting => files'[comp.version] = files[comp.version]
    BY <1>1, <1>3, CompFacts
  <2> QED  BY <1>1, <1>4, <2>1 DEF Inv, CompInv, Compacting, Logging, InputSources, Used
<1>7. Complete(Now)'
  <2>1. Complete(Now) /\ Now' = Now /\ Now.version = current_ /\ files'[current_] = files[current_]
    BY <1>1, <1>2, <1>3 DEF Inv, ViewInv, Now
  <2>2. dropped' = dropped /\ sources' = sources
    BY <1>1
  <2> QED  BY <2>1, <2>2 DEF Complete, Reach
<1>8. ASSUME NEW s \in Readers, reader'[s] # NoView
      PROVE  reader'[s].mem \in Gens /\ reader'[s].version \in Versions /\ Complete(reader[s])'
  <2>1. reader'[s] = reader[s]
    BY <1>1, <1>2, <1>8
  <2>2. reader[s].mem \in Gens /\ reader[s].version \in Versions /\ Complete(reader[s])
    BY <1>8, <2>1 DEF Inv, ViewInv
  <2>3. files'[reader[s].version] = files[reader[s].version]
    BY <1>1, <1>3, <2>1, <2>2
  <2> QED  BY <1>1, <2>1, <2>2, <2>3 DEF Complete, Reach
<1>9. ViewInv'
  BY <1>7, <1>8 DEF ViewInv
<1> QED  BY <1>4, <1>5, <1>6, <1>9 DEF Rest

LEMMA RestFlushStarts == ASSUME Inv, FlushStarts PROVE Rest'
<1>1. /\ UNCHANGED <<mem_, imm_, files, refs, current_, disk, sources, dropped, named, reader,
                     comp, edit, background_ok>>
      /\ HaveNumber /\ NextFileNumber /\ flush' = next_file_number_ /\ imm_ # 0
      /\ files_writing_ \subseteq files_writing_'
      /\ \/ bg = "idle" /\ bg' = "build"
         \/ bg = "merge" /\ bg' = "nested_build"
  BY DEF FlushStarts, versionVars, memVars
<1>2. /\ next_file_number_ \in Numbers
      /\ \A n \in Numbers : Used(n) => n # next_file_number_ /\ Used(n)'
      /\ next_file_number_ < next_file_number_'
  BY <1>1, NumberTaken DEF Inv
<1>3. FilesInv'
  BY <1>1, <1>2, FilesFacts DEF FilesInv
<1>4. CompInv'
  <2>1. Compacting' = Compacting /\ ~Logging /\ ~Logging'
    BY <1>1 DEF Compacting, Logging
  <2>2. Compacting => \A n \in comp.outputs : Used(n)'
    BY <1>2, CompFacts, FilesFacts
  <2> QED  BY <1>1, <2>1, <2>2 DEF Inv, CompInv
<1>5. FlushInv'
  <2>1. \A n \in comp.outputs : Used(n)
    <3>1. bg = "idle" => comp.outputs = {}
      BY DEF Inv, CompInv, Compacting, NoCompaction
    <3>2. bg = "merge" => Compacting
      BY DEF Compacting
    <3> QED  BY <1>1, <3>1, <3>2, CompFacts
  <2>2. /\ flush' \notin named' \cup comp'.outputs /\ \A v \in Versions : flush' \notin files'[v]
    BY <1>1, <1>2, <2>1, FilesFacts
  <2> QED  BY <1>1, <1>2, <2>2 DEF FlushInv, Installing, Used
<1>6. ViewInv'
  BY <1>1, ViewsSame
<1> QED  BY <1>3, <1>4, <1>5, <1>6 DEF Rest

LEMMA RestFlushBuilt ==
  ASSUME Inv, FlushBuilt, NEW f, f = flush PROVE Rest'
<1>1. /\ imm_ # 0 /\ f \in Numbers /\ Used(f) /\ f \notin named \cup comp.outputs
      /\ \A v \in Versions : f \notin files[v]
  BY DEF Inv, FlushInv, FlushBuilt, Building
<1>2. /\ UNCHANGED <<next_file_number_, mem_, imm_, dropped, reader, comp>>
      /\ files_writing_' = files_writing_ \ {f}
      /\ ~Logging /\ edit = NoEdit /\ bg \in {"build", "nested_build"}
      /\ Nested <=> bg = "nested_build"
  BY DEF FlushBuilt, memVars, Inv, CompInv, Logging, Nested
<1>3. \A n : Used(n)' <=> Used(n)
  BY <1>2 DEF Used
<1>4. /\ Compacting <=> bg = "nested_build"
      /\ ~Compacting => comp = NoCompaction
      /\ comp.outputs \subseteq files_writing_'
  <2>1. Compacting <=> bg = "nested_build"
    BY <1>2 DEF Compacting
  <2>2. ~Compacting => comp = NoCompaction
    BY DEF Inv, CompInv
  <2>3. Compacting => comp.outputs \subseteq files_writing_'
    BY <1>1, <1>2, CompFacts
  <2> QED  BY <2>1, <2>2, <2>3 DEF NoCompaction
<1>5. CASE /\ disk' = disk \cup {f} /\ sources' = [sources EXCEPT ![f] = {imm_}]
           /\ LogAndApplyStarts({f}, {})
           /\ bg' = IF Nested THEN "nested_install" ELSE "install"
           /\ UNCHANGED background_ok
  <2>1. /\ edit' = [added |-> {f}, deleted |-> {}] /\ named' = named \cup {f}
        /\ refs' = [refs EXCEPT ![current_] = @ + 1] /\ files' = files /\ current_' = current_
        /\ disk' = disk \cup {f} /\ background_ok' = background_ok
    BY <1>5 DEF LogAndApplyStarts, Ref
  <2>2. \A n : n # f => sources'[n] = sources[n]
    BY <1>5 DEF Inv, TypeOK
  <2>3. sources'[f] = {imm_}
    BY <1>1, <1>5 DEF Inv, TypeOK
  <2>4. FilesInv'
    <3>1. \A v \in Versions : refs'[v] = 0 => refs[v] = 0
      BY <2>1 DEF Inv, TypeOK
    <3>2. background_ok => named \subseteq files[current_]
      BY <1>2, FilesFacts DEF NoEdit
    <3> QED  BY <1>1, <1>3, <2>1, <3>1, <3>2, FilesFacts DEF FilesInv
  <2>5. FlushInv'
    <3>1. ~Building' /\ f \in disk' /\ Used(f)' /\ f \notin comp'.outputs /\ imm_' = imm_
      BY <1>1, <1>2, <1>3, <1>5, <2>1 DEF Building
    <3> QED  BY <1>1, <2>1, <2>3, <3>1 DEF FlushInv
  <2>6. CompInv'
    <3>1. /\ Compacting' = Compacting /\ Logging' /\ bg' # "move" /\ bg' # "apply"
      BY <1>2, <1>4, <1>5 DEF Compacting, Logging
    <3>2. Compacting =>
          /\ comp'.version \in Versions /\ comp'.inputs \subseteq files'[comp'.version]
          /\ \A n \in comp'.outputs : /\ n \in files_writing_' /\ n \in disk' /\ Used(n)'
                                      /\ \A v \in Versions : n \notin files'[v]
      BY <1>2, <1>3, <1>4, <2>1, CompFacts
    <3> QED  BY <1>2, <1>4, <3>1, <3>2 DEF CompInv
  <2>7. ViewInv'
    BY <1>1, <1>2, <2>1, <2>2, ViewsSame
  <2> QED  BY <2>4, <2>5, <2>6, <2>7 DEF Rest
<1>6. CASE /\ disk' \in {disk \ {f}, disk \cup {f}}
           /\ background_ok' = FALSE
           /\ bg' = IF Nested THEN "merge" ELSE "idle"
           /\ UNCHANGED <<sources, edit, named, versionVars>>
  <2>1. UNCHANGED <<sources, edit, named, files, refs, current_>>
    BY <1>6 DEF versionVars
  <2>2. \A n \in disk : n # f => n \in disk'
    BY <1>6
  <2>3. FilesInv'
    BY <1>1, <1>3, <1>6, <2>1, <2>2, FilesFacts DEF FilesInv
  <2>4. FlushInv'
    BY <1>6 DEF FlushInv, Building, Installing
  <2>5. CompInv'
    <3>1. Compacting' = Compacting /\ ~Logging' /\ edit' = NoEdit
      BY <1>2, <1>4, <1>6, <2>1 DEF Compacting, Logging
    <3>2. Compacting =>
          /\ comp'.version \in Versions /\ comp'.inputs \subseteq files'[comp'.version]
          /\ \A n \in comp'.outputs : /\ n \in files_writing_' /\ n \in disk' /\ Used(n)'
                                      /\ \A v \in Versions : n \notin files'[v]
      BY <1>1, <1>2, <1>3, <1>4, <2>1, <2>2, CompFacts
    <3>3. bg' # "move" /\ bg' # "apply"
      BY <1>6
    <3> QED  BY <1>2, <1>4, <3>1, <3>2, <3>3 DEF CompInv
  <2>6. ViewInv'
    BY <1>2, <2>1, ViewsSame
  <2> QED  BY <2>3, <2>4, <2>5, <2>6 DEF Rest
<1> QED  BY <1>5, <1>6 DEF FlushBuilt

\* The database's own view, with the same files.
LEMMA NowKept ==
  ASSUME Complete(Now), UNCHANGED <<mem_, imm_, current_, sources, dropped>>,
         files'[current_] = files[current_]
  PROVE  Complete(Now)'
BY DEF Complete, Now, Reach

\* The views after versions were released.
LEMMA ReleaseViews ==
  ASSUME Inv, RefsInv', UNCHANGED <<reader, mem_, imm_, current_, sources, dropped>>,
         files' = [u \in Versions |-> IF refs'[u] > 0 THEN files[u] ELSE {}]
  PROVE  ViewInv'
<1>1. AllAlive'
  BY Alive, PTL
<1>2. current_ \in Versions
  BY DEF Inv, TypeOK
<1>3. \A r \in Readers : reader[r].version \in Versions =>
        files'[reader[r].version] = files[reader[r].version]
  BY <1>1 DEF AllAlive
<1>4. \A r \in Readers : reader'[r] # NoView =>
        reader'[r].mem \in Gens /\ reader'[r].version \in Versions /\ Complete(reader[r])'
  BY <1>3, ReadersKept
<1>5. Complete(Now)'
  <2>1. Complete(Now)
    BY DEF Inv, ViewInv
  <2>2. files'[current_] = files[current_]
    BY <1>1, <1>2 DEF AllAlive
  <2> QED  BY <2>1, <2>2, NowKept
<1> QED  BY <1>4, <1>5 DEF ViewInv

\* The Gets' views after a version was installed.
LEMMA InstalledReaders ==
  ASSUME Inv, RefsInv', reader' = reader, NEW v \in Versions, NEW rel, Installed(v, rel),
         FilesInv', dropped \subseteq dropped', \A n \in disk' : sources'[n] = sources[n]
  PROVE  \A r \in Readers : reader'[r] # NoView =>
           reader'[r].mem \in Gens /\ reader'[r].version \in Versions /\ Complete(reader[r])'
<1>1. \A r \in Readers : reader[r].version \in Versions =>
        files'[reader[r].version] = files[reader[r].version]
  <2>1. /\ \A u \in Versions : u # v => files'[u] = IF refs'[u] > 0 THEN files[u] ELSE {}
        /\ \A r \in Readers : reader[r].version # v
    BY DEF Installed
  <2> QED  BY <2>1, HeldFiles
<1>2. \A u \in Versions : \A n \in files'[u] : n \in disk'
  BY DEF FilesInv
<1>3. \A r \in Readers : reader[r].version \in Versions =>
        \A n \in files[reader[r].version] : sources'[n] = sources[n]
  BY <1>1, <1>2
<1> QED  BY <1>1, <1>3, ReadersKept

LEMMA RestFlushInstalled == ASSUME Inv, RefsInv', FlushInstalled PROVE Rest'
<1>1. /\ UNCHANGED <<next_file_number_, dropped, files_writing_, reader, flush, comp>>
      /\ Logging /\ Installing /\ ~Logging' /\ ~Building' /\ ~Installing'
      /\ bg' # "move" /\ bg' # "apply" /\ Compacting' = Compacting
  BY DEF FlushInstalled, Logging, Installing, Building, Compacting, Nested
<1>2. FlushInv'
  BY <1>1 DEF FlushInv
<1>3. \A n : Used(n)' <=> Used(n)
  BY <1>1 DEF Used
<1>4. comp.version \in Versions => refs'[comp.version] > 0
  <2>1. AllAlive'
    BY Alive, PTL
  <2> QED  BY <1>1, <2>1 DEF AllAlive
<1>5. PICK f \in disk : /\ edit = [added |-> {f}, deleted |-> {}]
                        /\ sources[f] = {imm_}
                        /\ Used(f) /\ f \notin comp.outputs
  BY <1>1 DEF Inv, FlushInv
<1>6. CASE /\ LogAndApplySucceeds(0) /\ imm_' = 0
           /\ GarbageFilesClean(background_ok) /\ UNCHANGED <<mem_, background_ok>>
  <2>1. PICK v \in Versions : Installed(v, 0)
    BY <1>6, SucceedsInstalls DEF Inv
  <2>2. /\ FilesInv'
        /\ disk' \subseteq disk
        /\ \A n \in disk' : sources'[n] = sources[n]
        /\ \A n \in files_writing_' : n \in disk => n \in disk'
        /\ \A u \in Versions : u # v => files'[u] \subseteq files[u]
    BY <1>1, <1>6, <2>1, InstallFiles
  <2>3. files'[v] = files[current_] \cup {f} /\ edit' = NoEdit /\ v # comp.version
        /\ current_' = v
    BY <1>5, <2>1 DEF Installed, SaveTo
  <2>4. CompInv'
    <3>1. Compacting => files'[comp.version] = files[comp.version]
      BY <1>4, <2>1, CompFacts DEF Installed
    <3>2. Compacting => \A n \in comp.outputs : n \in disk' /\ \A u \in Versions : n \notin files'[u]
      <4> SUFFICES ASSUME Compacting, NEW n \in comp.outputs
                   PROVE  n \in disk' /\ \A u \in Versions : n \notin files'[u]
        OBVIOUS
      <4>1. n \in disk'
        BY <1>1, <2>2, CompFacts
      <4>2. n \notin files'[v]
        BY <1>5, <2>3, CompFacts, FilesFacts
      <4> QED  BY <2>2, <4>1, <4>2, CompFacts
    <3>3. Compacting =>
          /\ comp'.version \in Versions /\ comp'.inputs \subseteq files'[comp'.version]
          /\ \A n \in comp'.outputs : /\ n \in files_writing_' /\ n \in disk' /\ Used(n)'
                                      /\ \A u \in Versions : n \notin files'[u]
      BY <1>1, <1>3, <3>1, <3>2, CompFacts
    <3>4. ~Compacting => comp' = NoCompaction
      BY <1>1 DEF Inv, CompInv
    <3> QED  BY <1>1, <2>3, <3>3, <3>4 DEF CompInv
  <2>5. Complete(Now)'
    <3>1. (1..mem_) \cup {-g : g \in Recovered} \subseteq
            {mem_, imm_} \cup dropped \cup UNION {sources[n] : n \in files[current_]}
      BY DEF Inv, ViewInv, Complete, Now, Reach
    <3>2. \A n \in files'[v] : sources'[n] = sources[n]
      BY <2>1, <2>2 DEF FilesInv
    <3>3. UNION {sources[n] : n \in files[current_]} \subseteq UNION {sources'[n] : n \in files'[v]}
      BY <2>3, <3>2
    <3>4. imm_ \in UNION {sources'[n] : n \in files'[v]}
      BY <1>5, <2>3, <3>2
    <3>5. (1..mem_) \cup {-g : g \in Recovered} \subseteq
            {mem_, 0} \cup dropped \cup UNION {sources'[n] : n \in files'[v]}
      BY <3>1, <3>3, <3>4
    <3> QED  BY <1>1, <1>6, <2>3, <3>5 DEF Complete, Now, Reach
  <2>6. ViewInv'
    BY <1>1, <2>1, <2>2, <2>5, InstalledReaders DEF ViewInv
  <2> QED  BY <1>2, <2>2, <2>4, <2>6 DEF Rest
<1>7. CASE LogAndApplyFails(0) /\ UNCHANGED <<memVars, disk, sources>>
  <2>1. Failed(0)
    BY <1>7, FailsFails DEF Inv
  <2>2. FilesInv' /\ \A u \in Versions : files'[u] \subseteq files[u]
    BY <1>1, <1>7, <2>1, ReleaseFiles DEF Failed
  <2>3. CompInv'
    <3>1. Compacting => files'[comp.version] = files[comp.version]
      BY <1>4, <2>1, CompFacts DEF Failed
    <3>2. Compacting =>
          /\ comp'.version \in Versions /\ comp'.inputs \subseteq files'[comp'.version]
          /\ \A n \in comp'.outputs : /\ n \in files_writing_' /\ n \in disk' /\ Used(n)'
                                      /\ \A u \in Versions : n \notin files'[u]
      BY <1>1, <1>3, <1>7, <2>2, <3>1, CompFacts
    <3>3. ~Compacting => comp' = NoCompaction
      BY <1>1 DEF Inv, CompInv
    <3>4. edit' = NoEdit
      BY <2>1 DEF Failed
    <3> QED  BY <1>1, <3>2, <3>3, <3>4 DEF CompInv
  <2>4. ViewInv'
    BY <1>1, <1>7, <2>1, ReleaseViews DEF Failed, memVars
  <2> QED  BY <1>2, <2>2, <2>3, <2>4 DEF Rest
<1> QED  BY <1>6, <1>7 DEF FlushInstalled

LEMMA RestCompactionStarts == ASSUME Inv, CompactionStarts PROVE Rest'
<1>1. /\ UNCHANGED <<next_file_number_, mem_, imm_, files, current_, disk, sources, dropped,
                     files_writing_, named, reader, flush, background_ok>>
      /\ bg = "idle" /\ edit = NoEdit
  BY DEF CompactionStarts, memVars, diskVars, Inv, CompInv, Logging
<1>2. PICK inputs \in SUBSET files[current_] \ {{}} :
        /\ comp' = [version |-> current_, inputs |-> inputs, outputs |-> {}]
        /\ \/ bg' = "merge" /\ refs' = Ref(refs, current_) /\ edit' = edit
           \/ bg' = "move" /\ edit' = [added |-> inputs, deleted |-> inputs]
              /\ refs' = Ref(Ref(refs, current_), current_)
  BY DEF CompactionStarts
<1>3. refs \in [Versions -> Nat] /\ current_ \in Versions
  BY DEF Inv, TypeOK
<1>4. FilesInv'
  <2>1. \A v \in Versions : refs'[v] = 0 => refs[v] = 0
    BY <1>2, <1>3 DEF Ref
  <2>2. background_ok => named \subseteq files[current_]
    BY <1>1, FilesFacts DEF NoEdit
  <2> QED  BY <1>1, <2>1, <2>2, FilesFacts DEF FilesInv, Used
<1>5. FlushInv'
  BY <1>2 DEF FlushInv, Building, Installing
<1>6. CompInv'
  <2>1. /\ Compacting' /\ comp'.version \in Versions /\ comp'.inputs \subseteq files'[comp'.version]
        /\ comp'.outputs = {} /\ comp'.inputs = inputs
    BY <1>1, <1>2, <1>3 DEF Compacting
  <2>2. CASE bg' = "merge" /\ edit' = edit
    BY <1>1, <2>1, <2>2 DEF CompInv
  <2>3. CASE bg' = "move" /\ edit' = [added |-> inputs, deleted |-> inputs]
    BY <2>1, <2>3 DEF CompInv, Logging
  <2> QED  BY <1>2, <2>2, <2>3
<1>7. ViewInv'
  BY <1>1, ViewsSame
<1> QED  BY <1>4, <1>5, <1>6, <1>7 DEF Rest

\* What is left of a job when it ends.
LEMMA JobEnds ==
  ASSUME bg' = "idle", comp' = NoCompaction, edit' = NoEdit
  PROVE  FlushInv' /\ CompInv'
BY DEF FlushInv, CompInv, Building, Installing, Compacting, Logging

LEMMA RestMoveEnds == ASSUME Inv, RefsInv', MoveEnds PROVE Rest'
<1>1. /\ UNCHANGED <<next_file_number_, mem_, imm_, disk, sources, dropped, files_writing_,
                     reader, flush>>
      /\ bg = "move" /\ bg' = "idle" /\ comp' = NoCompaction /\ Logging
  BY DEF MoveEnds, memVars, diskVars, Logging
<1>2. comp.version \in Versions /\ edit = [added |-> comp.inputs, deleted |-> comp.inputs]
  BY <1>1 DEF Inv, CompInv, Compacting
<1>3. CASE LogAndApplySucceeds(comp.version) /\ UNCHANGED background_ok
  <2>1. PICK v \in Versions : Installed(v, comp.version)
    BY <1>2, <1>3, SucceedsInstalls DEF Inv
  <2>2. FilesInv' /\ \A n \in disk' : sources'[n] = sources[n]
    BY <1>1, <1>3, <2>1, InstallFiles
  <2>3. edit' = NoEdit /\ current_' = v /\ files[current_] \subseteq files'[v]
    BY <1>2, <2>1 DEF Installed, SaveTo
  <2>4. Complete(Now)'
    <3>1. (1..mem_) \cup {-g : g \in Recovered} \subseteq
            {mem_, imm_} \cup dropped \cup UNION {sources[n] : n \in files[current_]}
      BY DEF Inv, ViewInv, Complete, Now, Reach
    <3>2. UNION {sources[n] : n \in files[current_]} \subseteq UNION {sources[n] : n \in files'[v]}
      BY <2>3
    <3>3. (1..mem_) \cup {-g : g \in Recovered} \subseteq
            {mem_, imm_} \cup dropped \cup UNION {sources[n] : n \in files'[v]}
      BY <3>1, <3>2
    <3> QED  BY <1>1, <2>3, <3>3 DEF Complete, Now, Reach
  <2>5. ViewInv'
    BY <1>1, <2>1, <2>2, <2>4, InstalledReaders DEF ViewInv
  <2> QED  BY <1>1, <2>2, <2>3, <2>5, JobEnds DEF Rest
<1>4. CASE LogAndApplyFails(comp.version)
  <2>1. Failed(comp.version)
    BY <1>2, <1>4, FailsFails DEF Inv
  <2>2. FilesInv'
    BY <1>1, <2>1, ReleaseFiles DEF Failed
  <2>3. ViewInv'
    BY <1>1, <2>1, ReleaseViews DEF Failed
  <2>4. edit' = NoEdit
    BY <2>1 DEF Failed
  <2> QED  BY <1>1, <2>2, <2>3, <2>4, JobEnds DEF Rest
<1> QED  BY <1>3, <1>4 DEF MoveEnds

LEMMA RestOpen == ASSUME Inv, OpenCompactionSSTable, NEW k, k = next_file_number_ PROVE Rest'
<1>1. /\ UNCHANGED <<mem_, imm_, files, refs, current_, sources, dropped, named, reader, bg,
                     flush, edit, background_ok>>
      /\ bg = "merge" /\ HaveNumber /\ NextFileNumber
      /\ comp' = [version |-> comp.version, inputs |-> comp.inputs,
                  outputs |-> comp.outputs \cup {k}]
      /\ files_writing_' = files_writing_ \cup {k} /\ disk' = disk \cup {k}
  BY DEF OpenCompactionSSTable, versionVars, memVars
<1>2. /\ \A n \in Numbers : Used(n) => n # k /\ Used(n)'
      /\ Used(k)'
  BY <1>1, NumberTaken DEF Inv, Used
<1>3. FilesInv'
  BY <1>1, <1>2, FilesFacts DEF FilesInv
<1>4. FlushInv'
  BY <1>1 DEF FlushInv, Building, Installing
<1>5. CompInv'
  <2>1. Compacting /\ Compacting' /\ ~Logging /\ ~Logging'
    BY <1>1 DEF Compacting, Logging
  <2>2. \A v \in Versions : k \notin files[v]
    BY <1>2, FilesFacts
  <2>3. \A n \in comp'.outputs : /\ n \in files_writing_' /\ n \in disk' /\ Used(n)'
                                 /\ \A v \in Versions : n \notin files'[v]
    BY <1>1, <1>2, <2>1, <2>2, CompFacts, FilesFacts
  <2>4. comp'.version \in Versions /\ comp'.inputs \subseteq files'[comp'.version]
    BY <1>1, <2>1, CompFacts
  <2>5. edit' = NoEdit
    BY <1>1, <2>1 DEF Inv, CompInv
  <2> QED  BY <1>1, <2>1, <2>3, <2>4, <2>5 DEF CompInv
<1>6. ViewInv'
  BY <1>1, ViewsSame
<1> QED  BY <1>3, <1>4, <1>5, <1>6 DEF Rest

LEMMA RestMergeFails == ASSUME Inv, RefsInv', MergeFails PROVE Rest'
<1>1. /\ UNCHANGED <<next_file_number_, mem_, imm_, current_, disk, sources, dropped, named,
                     reader, flush, edit>>
      /\ files' = [u \in Versions |-> IF refs'[u] > 0 THEN files[u] ELSE {}]
      /\ bg = "merge" /\ bg' = "idle" /\ comp' = NoCompaction /\ background_ok' = FALSE
  BY DEF MergeFails, memVars, Kept
<1>2. edit' = NoEdit
  BY <1>1 DEF Inv, CompInv, Logging
<1>3. FilesInv'
  BY <1>1, ReleaseFiles
<1>4. ViewInv'
  BY <1>1, ReleaseViews
<1> QED  BY <1>1, <1>2, <1>3, <1>4, JobEnds DEF Rest

LEMMA RestMergeEnds == ASSUME Inv, MergeEnds PROVE Rest'
<1>1. /\ UNCHANGED <<next_file_number_, mem_, imm_, files, current_, disk, dropped,
                     files_writing_, reader, flush, comp, background_ok>>
      /\ bg = "merge" /\ bg' = "apply" /\ edit = NoEdit /\ Compacting
      /\ edit' = [added |-> comp.outputs, deleted |-> comp.inputs]
      /\ named' = named \cup comp.outputs
      /\ refs' = [refs EXCEPT ![current_] = @ + 1]
      /\ sources' = [n \in Numbers |-> IF n \in comp.outputs THEN InputSources ELSE sources[n]]
  BY DEF MergeEnds, LogAndApplyStarts, memVars, Ref, Inv, CompInv, Logging, Compacting
<1>2. \A v \in Versions : \A n \in files[v] : sources'[n] = sources[n]
  BY <1>1, CompFacts, FilesFacts
<1>3. FilesInv'
  <2>1. \A v \in Versions : refs'[v] = 0 => refs[v] = 0
    BY <1>1 DEF Inv, TypeOK
  <2>2. background_ok => named \subseteq files[current_]
    BY <1>1, FilesFacts DEF NoEdit
  <2> QED  BY <1>1, <2>1, <2>2, CompFacts, FilesFacts DEF FilesInv, Used
<1>4. FlushInv'
  BY <1>1 DEF FlushInv, Building, Installing
<1>5. CompInv'
  <2>1. Compacting' /\ Logging'
    BY <1>1 DEF Compacting, Logging
  <2>2. \A n \in comp.inputs : sources'[n] = sources[n]
    BY <1>1, <1>2, CompFacts
  <2>3. InputSources' = InputSources
    BY <1>1, <2>2 DEF InputSources
  <2>4. \A n \in comp'.outputs : sources'[n] = InputSources'
    BY <1>1, <2>3, FilesFacts
  <2>5. /\ comp'.version \in Versions /\ comp'.inputs \subseteq files'[comp'.version]
        /\ \A n \in comp'.outputs : /\ n \in files_writing_' /\ n \in disk' /\ Used(n)'
                                    /\ \A v \in Versions : n \notin files'[v]
    BY <1>1, CompFacts DEF Used
  <2> QED  BY <1>1, <2>1, <2>4, <2>5 DEF CompInv
<1>6. ViewInv'
  BY <1>1, <1>2, ViewsSame
<1> QED  BY <1>3, <1>4, <1>5, <1>6 DEF Rest

LEMMA RestCompactionInstalled == ASSUME Inv, RefsInv', CompactionInstalled PROVE Rest'
<1>1. /\ UNCHANGED <<next_file_number_, mem_, imm_, reader, flush>>
      /\ bg = "apply" /\ bg' = "idle" /\ comp' = NoCompaction /\ Logging /\ Compacting
  BY DEF CompactionInstalled, memVars, Logging, Compacting
<1>2. /\ comp.version \in Versions /\ edit = [added |-> comp.outputs, deleted |-> comp.inputs]
      /\ \A n \in comp.outputs : sources[n] = InputSources
  BY <1>1 DEF Inv, CompInv
<1>3. CASE /\ LogAndApplySucceeds(comp.version)
           /\ dropped' = IF comp.outputs = {} THEN dropped \cup InputSources ELSE dropped
           /\ GarbageFilesClean(background_ok)
           /\ UNCHANGED background_ok
  <2>1. PICK v \in Versions : Installed(v, comp.version)
    BY <1>2, <1>3, SucceedsInstalls DEF Inv
  <2>2. FilesInv' /\ \A n \in disk' : sources'[n] = sources[n]
    BY <1>1, <1>3, <2>1, InstallFiles
  <2>3. /\ edit' = NoEdit /\ current_' = v
        /\ files'[v] = (files[current_] \ comp.inputs) \cup comp.outputs
    BY <1>2, <2>1 DEF Installed, SaveTo
  <2>4. dropped \subseteq dropped'
    BY <1>3
  <2>5. Complete(Now)'
    <3>1. (1..mem_) \cup {-g : g \in Recovered} \subseteq
            {mem_, imm_} \cup dropped \cup UNION {sources[n] : n \in files[current_]}
      BY DEF Inv, ViewInv, Complete, Now, Reach
    <3>2. \A n \in files'[v] : sources'[n] = sources[n]
      BY <2>1, <2>2 DEF FilesInv
    <3>3. InputSources \subseteq dropped' \cup UNION {sources'[n] : n \in files'[v]}
      <4>1. CASE comp.outputs = {}
        BY <1>3, <4>1
      <4>2. ASSUME NEW o \in comp.outputs
            PROVE  InputSources \subseteq UNION {sources'[n] : n \in files'[v]}
        <5>1. o \in files'[v] /\ sources'[o] = InputSources
          BY <1>2, <2>3, <3>2
        <5> QED  BY <5>1
      <4> QED  BY <4>1, <4>2
    <3>4. ASSUME NEW n \in files[current_]
          PROVE  sources[n] \subseteq dropped' \cup UNION {sources'[m] : m \in files'[v]}
      <4>1. CASE n \in comp.inputs
        <5>1. sources[n] \subseteq InputSources
          BY <4>1 DEF InputSources
        <5> QED  BY <3>3, <5>1
      <4>2. CASE n \notin comp.inputs
        <5>1. n \in files'[v] /\ sources'[n] = sources[n]
          BY <2>3, <3>2, <4>2
        <5> QED  BY <5>1
      <4> QED  BY <4>1, <4>2
    <3>5. (1..mem_) \cup {-g : g \in Recovered} \subseteq
            {mem_, imm_} \cup dropped' \cup UNION {sources'[n] : n \in files'[v]}
      BY <2>4, <3>1, <3>4
    <3> QED  BY <1>1, <2>3, <3>5 DEF Complete, Now, Reach
  <2>6. ViewInv'
    BY <1>1, <2>1, <2>2, <2>4, <2>5, InstalledReaders DEF ViewInv
  <2> QED  BY <1>1, <2>2, <2>3, <2>6, JobEnds DEF Rest
<1>4. CASE LogAndApplyFails(comp.version) /\ UNCHANGED <<disk, sources, dropped>>
  <2>1. Failed(comp.version)
    BY <1>2, <1>4, FailsFails DEF Inv
  <2>2. FilesInv'
    BY <1>1, <1>4, <2>1, ReleaseFiles DEF Failed
  <2>3. ViewInv'
    BY <1>1, <1>4, <2>1, ReleaseViews DEF Failed
  <2>4. edit' = NoEdit
    BY <2>1 DEF Failed
  <2> QED  BY <1>1, <2>2, <2>3, <2>4, JobEnds DEF Rest
<1> QED  BY <1>3, <1>4 DEF CompactionInstalled

LEMMA RestStep == Inv /\ [Next]_vars => Rest'
<1> SUFFICES ASSUME Inv, [Next]_vars PROVE Rest'
  OBVIOUS
<1>1. RefsInv'
  BY RefsStep
<1>2. CASE SwitchMemtable
  BY <1>2, RestSwitch
<1>3. CASE \E r \in Readers : GetStarts(r) \/ GetEnds(r)
  BY <1>1, <1>3, RestGetStarts, RestGetEnds
<1>4. CASE FlushStarts
  BY <1>4, RestFlushStarts
<1>5. CASE FlushBuilt
  BY <1>5, RestFlushBuilt
<1>6. CASE FlushInstalled
  BY <1>1, <1>6, RestFlushInstalled
<1>7. CASE CompactionStarts
  BY <1>7, RestCompactionStarts
<1>8. CASE MoveEnds
  BY <1>1, <1>8, RestMoveEnds
<1>9. CASE OpenCompactionSSTable
  BY <1>9, RestOpen
<1>10. CASE MergeFails
  BY <1>1, <1>10, RestMergeFails
<1>11. CASE MergeEnds
  BY <1>11, RestMergeEnds
<1>12. CASE CompactionInstalled
  BY <1>1, <1>12, RestCompactionInstalled
<1>13. CASE UNCHANGED vars
  <2>1. FilesInv' /\ FlushInv' /\ CompInv'
    BY <1>13 DEF vars, Inv, FilesInv, FlushInv, CompInv, Building, Installing, Compacting,
                 Logging, InputSources, Used
  <2>2. ViewInv'
    BY <1>13, ViewsSame DEF vars
  <2> QED  BY <2>1, <2>2 DEF Rest
<1> QED  BY <1>2, <1>3, <1>4, <1>5, <1>6, <1>7, <1>8, <1>9, <1>10, <1>11, <1>12, <1>13 DEF Next

----------------------------------------------------------------------------
(* Every reachable state.                                                  *)

\* DB::Open leaves one version, one memtable and the recovered files.
LEMMA InitInv == Init => Inv
<1> SUFFICES ASSUME Init PROVE Inv
  OBVIOUS
<1>1. PICK c \in Versions : c = current_
  <2>1. Versions # {}
    <3>1. Cardinality(Readers) \in Nat /\ Cardinality(Versions) \in Nat
      BY FS_CardinalityType, VersionSetAssumption
    <3>2. Cardinality(Versions) # 0
      BY <3>1, VersionSetAssumption
    <3> QED  BY <3>2, FS_EmptySet
  <2> QED  BY <2>1 DEF Init
<1>2. 0 \notin Versions /\ 1 \in Gens /\ 0 \notin Gens /\ Recovered \subseteq Numbers
      /\ \A n \in Recovered : n < FirstNumber
  BY VersionSetAssumption DEF Gens, Numbers
<1>3. TypeOK
  <2>1. next_file_number_ \in 1..(MaxNumber + 1)
    BY VersionSetAssumption DEF Init
  <2>2. mem_ \in Gens /\ imm_ \in 0..MaxGen /\ memRefs \in [Gens -> Nat]
    BY <1>2, VersionSetAssumption DEF Init
  <2>3. /\ files \in [Versions -> SUBSET Numbers] /\ refs \in [Versions -> Nat]
        /\ current_ \in Versions
    BY <1>1, <1>2 DEF Init
  <2>4. disk \subseteq Numbers /\ named \subseteq Numbers /\ files_writing_ \subseteq Numbers
        /\ dropped \subseteq Sources
    BY <1>2, VersionSetAssumption DEF Init, Numbers
  <2>5. sources \in [Numbers -> SUBSET Sources]
    BY <1>2 DEF Init, Sources
  <2>6. reader \in [Readers -> [mem : 0..MaxGen, imm : 0..MaxGen, version : Versions \cup {0}]]
    BY NoneTypes DEF Init
  <2>7. flush \in 0..MaxNumber
    BY VersionSetAssumption DEF Init
  <2> QED  BY <2>1, <2>2, <2>3, <2>4, <2>5, <2>6, <2>7, NoneTypes DEF Init, TypeOK
<1>4. \A v \in Versions : Holders(v) = {}
  BY <1>2 DEF Init, Holders, NoView
<1>5. \A g \in Gens : MemHolders(g) = {} /\ ImmHolders(g) = {}
  BY <1>2 DEF Init, MemHolders, ImmHolders, NoView
<1>6. Cardinality({}) = 0
  BY FS_EmptySet
<1>7. RefsInv
  <2>1. \A v \in Versions : refs[v] = Bit(v = current_) /\ v # comp.version
    BY <1>2 DEF Init, Bit, NoCompaction
  <2>2. ~Logging
    BY DEF Init, Logging
  <2> QED  BY <1>4, <1>6, <2>1, <2>2 DEF RefsInv, RefCount, Bit
<1>8. MemRefsInv
  <2>1. \A g \in Gens : memRefs[g] = Bit(g = mem_) /\ g # imm_
    BY <1>2 DEF Init, Bit
  <2> QED  BY <1>5, <1>6, <2>1 DEF MemRefsInv, MemRefCount, Bit
<1>9. FilesInv
  <2>1. /\ \A v \in Versions : refs[v] = 0 => files[v] = {}
        /\ \A v \in Versions : files[v] \subseteq Recovered
        /\ files[current_] = Recovered
    BY <1>1 DEF Init
  <2>2. named = Recovered /\ Recovered \subseteq disk /\ \A n \in Recovered : Used(n)
    BY <1>2 DEF Init, Used
  <2> QED  BY <2>1, <2>2 DEF FilesInv
<1>10. FlushInv /\ CompInv
  BY DEF Init, FlushInv, CompInv, Building, Installing, Compacting, Logging
<1>11. ViewInv
  <2>1. \A f \in Recovered : sources[f] = {-f} /\ f \in files[current_]
    BY <1>1, <1>2 DEF Init
  <2>2. \A r \in Readers : reader[r] = NoView
    BY DEF Init
  <2>3. {-f : f \in Recovered} \subseteq UNION {sources[n] : n \in files[current_]}
    BY <2>1
  <2>4. 1..mem_ \subseteq {mem_, imm_}
    BY DEF Init
  <2> QED  BY <2>2, <2>3, <2>4 DEF ViewInv, Complete, Now, Reach
<1> QED  BY <1>3, <1>7, <1>8, <1>9, <1>10, <1>11 DEF Inv

\* The counts are exact and everything needed is kept, at every interleaving of
\* Gets, the writer and the background thread.
THEOREM Invariance == Spec => []Inv
<1>1. Inv /\ [Next]_vars => Inv'
  BY TypeStep, RefsStep, MemRefsStep, RestStep DEF Inv, Rest
<1> QED  BY InitInv, <1>1, PTL DEF Spec

\* The variables keep their types; refs_ never drops below zero.
THEOREM TypeCorrect == Spec => []TypeOK
<1>1. Inv => TypeOK
  BY DEF Inv
<1> QED  BY Invariance, <1>1, PTL

\* Get uses mem_, imm_ and its version without mu_, and none of them is freed
\* under it (dbimpl.cc, Get).
THEOREM ViewsAreAlive == Spec => []ViewAlive
<1>1. ASSUME Inv PROVE ViewAlive
  <2> SUFFICES ASSUME NEW r \in Readers, reader[r] # NoView
               PROVE  /\ memRefs[reader[r].mem] > 0
                      /\ reader[r].imm # 0 => memRefs[reader[r].imm] > 0
                      /\ refs[reader[r].version] > 0
    BY DEF ViewAlive
  <2>1. reader[r].mem \in Gens /\ reader[r].version \in Versions
    BY <1>1 DEF Inv, ViewInv
  <2>2. reader[r].imm \in 0..MaxGen
    BY <1>1 DEF Inv, TypeOK
  <2>3. reader[r].imm # 0 => reader[r].imm \in Gens
    BY <2>2, VersionSetAssumption DEF Gens
  <2> QED  BY <1>1, <2>1, <2>3, Alive, MemAlive DEF Inv, AllAlive
<1> QED  BY Invariance, <1>1, PTL

\* A Get that took its references before a flush or a compaction still reaches
\* every entry written before it.
THEOREM ViewsAreComplete == Spec => []ViewComplete
<1>1. Inv => ViewComplete
  BY DEF Inv, ViewInv, Complete, ViewComplete
<1> QED  BY Invariance, <1>1, PTL

\* GarbageFilesClean and the removal of a failed flush never delete a file that
\* a version holds, a merge is writing or the meta log may name.
THEOREM NeededFilesStay == Spec => []NeededFilesOnDisk
<1>1. ASSUME Inv PROVE NeededFilesOnDisk
  <2>1. \A n \in comp.outputs : n \in disk
    <3>1. CASE Compacting
      BY <1>1, <3>1, CompFacts
    <3>2. CASE ~Compacting
      BY <1>1, <3>2 DEF Inv, CompInv, NoCompaction
    <3> QED  BY <3>1, <3>2
  <2> QED  BY <1>1, <2>1, FilesFacts DEF NeededFilesOnDisk
<1> QED  BY Invariance, <1>1, PTL

\* Every path through LogAndApply, SingalMove, a merge and Get gives back the
\* references it took (the assertion of ~VersionSet, version.cc:33).
THEOREM NoVersionLeaks == Spec => []NoVersionLeak
<1>1. ASSUME Inv PROVE NoVersionLeak
  <2> SUFFICES ASSUME bg = "idle", \A r \in Readers : reader[r] = NoView
               PROVE  refs = [v \in Versions |-> IF v = current_ THEN 1 ELSE 0]
    BY DEF NoVersionLeak
  <2>1. TypeOK /\ RefsInv /\ comp = NoCompaction /\ ~Logging
    BY <1>1 DEF Inv, CompInv, Compacting, Logging
  <2>2. \A v \in Versions : Holders(v) = {}
    BY <2>1, RefsFacts DEF Holders, NoView
  <2>3. \A v \in Versions : Cardinality(Holders(v)) = 0
    BY <2>2, FS_EmptySet
  <2>4. \A v \in Versions : v # comp.version
    BY <2>1, RefsFacts DEF NoCompaction
  <2>5. \A v \in Versions : refs[v] = IF v = current_ THEN 1 ELSE 0
    BY <2>1, <2>3, <2>4, RefsFacts DEF Bit
  <2> QED  BY <2>1, <2>5, RefsFacts
<1> QED  BY Invariance, <1>1, PTL

\* A new SSTable's number belongs to no file that is still wanted, though files
\* of that name may lie on disk since a crash (version.h, NextFileNumber).
THEOREM NumbersAreFresh == Spec => FreshNumbers
<1>1. ASSUME Inv, [Next]_vars
      PROVE  [\A n \in files_writing_' \ files_writing_ :
                n \notin named \cup comp.outputs /\ \A v \in Versions : n \notin files[v]]_vars
  <2>1. CASE FlushStarts \/ OpenCompactionSSTable
    <3>1. /\ files_writing_' \ files_writing_ \subseteq {next_file_number_}
          /\ HaveNumber /\ NextFileNumber /\ bg \in {"idle", "merge"}
      BY <2>1 DEF FlushStarts, OpenCompactionSSTable
    <3>2. \A n \in Numbers : Used(n) => n # next_file_number_
      BY <1>1, <3>1, NumberTaken DEF Inv
    <3>3. \A n \in comp.outputs : Used(n)
      <4>1. CASE Compacting
        BY <1>1, <4>1, CompFacts
      <4>2. CASE ~Compacting
        BY <1>1, <4>2 DEF Inv, CompInv, NoCompaction
      <4> QED  BY <4>1, <4>2
    <3> QED  BY <1>1, <3>1, <3>2, <3>3, FilesFacts
  <2>2. CASE ~(FlushStarts \/ OpenCompactionSSTable)
    <3>1. files_writing_' \subseteq files_writing_
      BY <1>1, <2>2 DEF Next, SwitchMemtable, GetStarts, GetEnds, FlushBuilt, FlushInstalled,
         CompactionStarts, MoveEnds, MergeFails, MergeEnds, CompactionInstalled, vars, diskVars
    <3> QED  BY <3>1
  <2> QED  BY <2>1, <2>2
<1> QED  BY Invariance, <1>1, PTL DEF Spec, FreshNumbers
=============================================================================
