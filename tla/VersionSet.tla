----------------------------- MODULE VersionSet -----------------------------
(***************************************************************************)
(* Versions, memtables and SSTable files while readers, flushes and        *)
(* compactions run together (db/version/version.cc, version.h, and the     *)
(* parts of db/dbimpl.cc that build, install and delete SSTables).         *)
(*                                                                         *)
(* Get takes a reference to mem_, imm_ and the current version under mu_   *)
(* and then reads without it.  The one background job (module Background)  *)
(* releases mu_ while it builds an SSTable, merges, and writes the meta    *)
(* log; a merge may flush a new immutable memtable in between.             *)
(* GarbageFilesClean deletes every SSTable file no listed version holds    *)
(* and files_writing_ does not name.                                       *)
(*                                                                         *)
(* A version is a set of file numbers (levels and key ranges do not matter *)
(* here).  What a file holds is the set of sources its entries come from:  *)
(* memtables of this session, and, negated, the files recovered from       *)
(* earlier ones.                                                           *)
(***************************************************************************)
EXTENDS Integers, FiniteSets

CONSTANTS
  Readers,      \* threads that call Get
  Versions,     \* Version objects, a set of positive numbers
  Recovered,    \* the files of the version DB::Open recovered
  Orphans,      \* SSTable files a crash left behind, some with numbers still to come
  FirstNumber,  \* next_file_number_ after DB::Open
  MaxNumber,    \* bound: file numbers given out
  MaxGen        \* bound: memtables of the session

ASSUME VersionSetAssumption ==
  /\ IsFiniteSet(Readers)
  /\ Versions \subseteq Nat \ {0} /\ IsFiniteSet(Versions)
  /\ Cardinality(Versions) >= Cardinality(Readers) + 3
  /\ FirstNumber \in Nat \ {0}
  /\ MaxNumber \in Nat /\ MaxNumber >= FirstNumber
  /\ Recovered \subseteq 1..(FirstNumber - 1)
  /\ Orphans \subseteq (1..MaxNumber) \ Recovered
  /\ MaxGen \in Nat \ {0}

VARIABLES
  next_file_number_,
  mem_, imm_,       \* generations of the two memtables, 0 for nullptr
  memRefs,          \* MemTable::refs_ by generation
  files, refs,      \* by version: its files_ and refs_; freed when refs_ is 0
  current_,
  disk,             \* SSTable files in the database directory
  sources,          \* by file: the sources its entries come from
  dropped,          \* sources whose entries a merge read and wrote nowhere
  files_writing_,
  named,            \* files the meta log names, or may name after a failed write
  reader,           \* by thread: what Get holds
  bg,               \* where the background thread is
  flush,            \* number of the SSTable being flushed, 0 for none
  comp,             \* the compaction: its input version, inputs and outputs
  edit,             \* the edit LogAndApply is writing
  background_ok

vars == <<next_file_number_, mem_, imm_, memRefs, files, refs, current_, disk, sources,
          dropped, files_writing_, named, reader, bg, flush, comp, edit, background_ok>>
memVars == <<mem_, imm_, memRefs>>
versionVars == <<files, refs, current_>>
diskVars == <<disk, sources, dropped, files_writing_>>

Numbers == 1..MaxNumber
Gens == 1..MaxGen
Sources == Gens \cup {-f : f \in Recovered}

NoView == [mem |-> 0, imm |-> 0, version |-> 0]
NoEdit == [added |-> {}, deleted |-> {}]
NoCompaction == [version |-> 0, inputs |-> {}, outputs |-> {}]

TypeOK ==
  /\ next_file_number_ \in 1..(MaxNumber + 1)
  /\ mem_ \in Gens
  /\ imm_ \in 0..MaxGen
  /\ memRefs \in [Gens -> Nat]
  /\ files \in [Versions -> SUBSET Numbers]
  /\ refs \in [Versions -> Nat]
  /\ current_ \in Versions
  /\ disk \subseteq Numbers
  /\ sources \in [Numbers -> SUBSET Sources]
  /\ dropped \subseteq Sources
  /\ files_writing_ \subseteq Numbers
  /\ named \subseteq Numbers
  /\ reader \in [Readers -> [mem : 0..MaxGen, imm : 0..MaxGen, version : Versions \cup {0}]]
  /\ bg \in {"idle", "build", "install", "merge", "nested_build", "nested_install",
             "apply", "move"}
  /\ flush \in 0..MaxNumber
  /\ comp \in [version : Versions \cup {0}, inputs : SUBSET Numbers, outputs : SUBSET Numbers]
  /\ edit \in [added : SUBSET Numbers, deleted : SUBSET Numbers]
  /\ background_ok \in BOOLEAN

\* DB::Open has recovered a version and made an empty memtable.
Init ==
  /\ current_ = CHOOSE v \in Versions : TRUE
  /\ files = [v \in Versions |-> IF v = current_ THEN Recovered ELSE {}]
  /\ refs = [v \in Versions |-> IF v = current_ THEN 1 ELSE 0]
  /\ next_file_number_ = FirstNumber
  /\ mem_ = 1 /\ imm_ = 0
  /\ memRefs = [g \in Gens |-> IF g = 1 THEN 1 ELSE 0]
  /\ disk = Recovered \cup Orphans
  /\ sources = [n \in Numbers |-> IF n \in Recovered THEN {-n} ELSE {}]
  /\ dropped = {}
  /\ files_writing_ = {}
  /\ named = Recovered
  /\ reader = [r \in Readers |-> NoView]
  /\ bg = "idle" /\ flush = 0 /\ comp = NoCompaction /\ edit = NoEdit
  /\ background_ok = TRUE

----------------------------------------------------------------------------
(* File numbers and references.                                            *)

\* A plausible slip: the number is read and not advanced.
NumberKept == next_file_number_' = next_file_number_

\* VersionSet::NextFileNumber; the caller uses next_file_number_ itself.
NextFileNumber == next_file_number_' = next_file_number_ + 1

HaveNumber == next_file_number_ <= MaxNumber

Ref(f, x) == [f EXCEPT ![x] = @ + 1]
Unref(f, x) == [f EXCEPT ![x] = @ - 1]

\* A Version whose refs_ drops to 0 is deleted and leaves the list.
Kept(fs, rs) == [v \in Versions |-> IF rs[v] > 0 THEN fs[v] ELSE {}]

----------------------------------------------------------------------------
(* Foreground: MakeRoomForWrite switches memtables, Get reads.             *)

\* The new log takes a number; its creation may fail, and closing the old log
\* may fail, which is a background error.
SwitchMemtable ==
  /\ background_ok /\ imm_ = 0
  /\ mem_ < MaxGen /\ HaveNumber
  /\ NextFileNumber
  /\ \/ UNCHANGED <<memVars, background_ok>>
     \/ /\ imm_' = mem_
        /\ mem_' = mem_ + 1
        /\ memRefs' = Ref(memRefs, mem_ + 1)
        /\ background_ok' \in BOOLEAN
  /\ UNCHANGED <<versionVars, diskVars, named, reader, bg, flush, comp, edit>>

\* A plausible slip: imm_ is used without a reference.
ViewRefsOfMem == Ref(memRefs, mem_)

ViewRefs == IF imm_ = 0 THEN Ref(memRefs, mem_) ELSE Ref(Ref(memRefs, mem_), imm_)

GetStarts(r) ==
  /\ reader[r] = NoView
  /\ reader' = [reader EXCEPT ![r] = [mem |-> mem_, imm |-> imm_, version |-> current_]]
  /\ memRefs' = ViewRefs
  /\ refs' = Ref(refs, current_)
  /\ UNCHANGED <<next_file_number_, mem_, imm_, files, current_, diskVars, named, bg, flush,
                 comp, edit, background_ok>>

\* A plausible slip: the references are dropped twice when there is no imm.
ViewUnrefsTwice(view) ==
  Unref(Unref(memRefs, view.mem), IF view.imm = 0 THEN view.mem ELSE view.imm)

ViewUnrefs(view) ==
  IF view.imm = 0 THEN Unref(memRefs, view.mem)
                  ELSE Unref(Unref(memRefs, view.mem), view.imm)

GetEnds(r) ==
  /\ reader[r] # NoView
  /\ reader' = [reader EXCEPT ![r] = NoView]
  /\ memRefs' = ViewUnrefs(reader[r])
  /\ refs' = Unref(refs, reader[r].version)
  /\ files' = Kept(files, refs')
  /\ UNCHANGED <<next_file_number_, mem_, imm_, current_, diskVars, named, bg, flush, comp,
                 edit, background_ok>>

----------------------------------------------------------------------------
(* LogAndApply and GarbageFilesClean.                                      *)

\* Before the unlock: the Builder holds the current version, and the record may
\* reach the meta log from here on.
LogAndApplyStarts(added, deleted) ==
  /\ edit' = [added |-> added, deleted |-> deleted]
  /\ named' = named \cup added
  /\ refs' = Ref(refs, current_)
  /\ UNCHANGED <<files, current_>>

\* A plausible slip: the edit of a compaction is applied to its input version.
SaveToInputVersion ==
  (files[IF comp.version = 0 THEN current_ ELSE comp.version] \ edit.deleted) \cup edit.added

\* Builder::SaveTo, with current_ as the base.
SaveTo == (files[current_] \ edit.deleted) \cup edit.added

\* A plausible slip: the Builder does not give its base version back.
AppendOnly(v) == [Unref(refs, current_) EXCEPT ![v] = 1]

\* AppendVersion, and the end of the Builder.
AppendVersion(v) == [Unref(Unref(refs, current_), current_) EXCEPT ![v] = 1]

\* The record is durable; release is a version the caller lets go of, 0 for none.
LogAndApplySucceeds(release) ==
  LET v  == CHOOSE w \in Versions : refs[w] = 0
      rs == AppendVersion(v)
  IN  /\ refs' = IF release = 0 THEN rs ELSE Unref(rs, release)
      /\ files' = Kept([files EXCEPT ![v] = SaveTo], refs')
      /\ current_' = v
      /\ named' = (named \ edit.deleted) \cup edit.added
      /\ edit' = NoEdit

\* The record may or may not be in the meta log; the new version is deleted.
LogAndApplyFails(release) ==
  LET rs == Unref(refs, current_)
  IN  /\ refs' = IF release = 0 THEN rs ELSE Unref(rs, release)
      /\ files' = Kept(files, refs')
      /\ edit' = NoEdit
      /\ background_ok' = FALSE
      /\ UNCHANGED <<current_, named>>

\* A plausible slip: files being written are not live.
LiveListed(fs, cur, writing) == UNION {fs[v] : v \in Versions}

\* files_writing_ and AddLiveFiles; fs is {} for a version that is not listed.
Live(fs, cur, writing) == writing \cup UNION {fs[v] : v \in Versions}

\* What GarbageFilesClean leaves on disk: after an error it deletes nothing.
Remaining(ok, live) == IF ok THEN disk \cap live ELSE disk

\* disk and sources after GarbageFilesClean; everything else is up to date.
GarbageFilesClean(ok) ==
  /\ disk' = Remaining(ok, Live(files', current_', files_writing_'))
  /\ sources' = [n \in Numbers |-> IF n \in disk' THEN sources[n] ELSE {}]

----------------------------------------------------------------------------
(* CompactionMemtable, by itself or inside the loop of a merge.            *)

Nested == bg \in {"nested_build", "nested_install"}

FlushStarts ==
  /\ \/ bg = "idle" /\ background_ok
     \/ bg = "merge"
  /\ imm_ # 0
  /\ HaveNumber /\ NextFileNumber
  /\ flush' = next_file_number_
  /\ files_writing_' = files_writing_ \cup {next_file_number_}
  /\ bg' = IF bg = "idle" THEN "build" ELSE "nested_build"
  /\ UNCHANGED <<memVars, versionVars, disk, sources, dropped, named, reader, comp, edit,
                 background_ok>>

\* WriteLevel0SSTable ends.  Nothing is logged on an error, which removes the
\* file, or when the database is being closed, which leaves it.
FlushBuilt ==
  /\ bg \in {"build", "nested_build"}
  /\ files_writing_' = files_writing_ \ {flush}
  /\ flush' = 0
  /\ \/ /\ disk' = disk \cup {flush}
        /\ sources' = [sources EXCEPT ![flush] = {imm_}]
        /\ LogAndApplyStarts({flush}, {})
        /\ bg' = IF Nested THEN "nested_install" ELSE "install"
        /\ UNCHANGED background_ok
     \/ /\ disk' \in {disk \ {flush}, disk \cup {flush}}
        /\ background_ok' = FALSE
        /\ bg' = IF Nested THEN "merge" ELSE "idle"
        /\ UNCHANGED <<sources, edit, named, versionVars>>
  /\ UNCHANGED <<next_file_number_, memVars, dropped, reader, comp>>

FlushInstalled ==
  /\ bg \in {"install", "nested_install"}
  /\ bg' = IF Nested THEN "merge" ELSE "idle"
  /\ UNCHANGED <<next_file_number_, dropped, files_writing_, reader, flush, comp>>
  /\ \/ /\ LogAndApplySucceeds(0)
        /\ memRefs' = Unref(memRefs, imm_)
        /\ imm_' = 0
        /\ GarbageFilesClean(background_ok)
        /\ UNCHANGED <<mem_, background_ok>>
     \/ /\ LogAndApplyFails(0)
        /\ UNCHANGED <<memVars, disk, sources>>

----------------------------------------------------------------------------
(* Compactions.                                                            *)

\* PickCompaction holds the current version.  A compaction of one file may only
\* move it to the next level (SingalMove), which goes straight to LogAndApply.
CompactionStarts ==
  /\ bg = "idle" /\ background_ok /\ imm_ = 0
  /\ \E inputs \in SUBSET files[current_] \ {{}} :
       /\ comp' = [version |-> current_, inputs |-> inputs, outputs |-> {}]
       /\ \/ /\ bg' = "merge"
             /\ refs' = Ref(refs, current_)
             /\ UNCHANGED <<edit, named>>
          \/ /\ Cardinality(inputs) = 1
             /\ bg' = "move"
             /\ edit' = [added |-> inputs, deleted |-> inputs]
             /\ refs' = Ref(Ref(refs, current_), current_)
             /\ UNCHANGED named
  /\ UNCHANGED <<next_file_number_, memVars, files, current_, diskVars, reader, flush,
                 background_ok>>

\* LogAndApply of a move has returned; ~Compaction lets the input version go.
MoveEnds ==
  /\ bg = "move"
  /\ bg' = "idle"
  /\ comp' = NoCompaction
  /\ \/ LogAndApplySucceeds(comp.version) /\ UNCHANGED background_ok
     \/ LogAndApplyFails(comp.version)
  /\ UNCHANGED <<next_file_number_, memVars, diskVars, reader, flush>>

\* OpenCompactionSSTable.
OpenCompactionSSTable ==
  /\ bg = "merge"
  /\ HaveNumber /\ NextFileNumber
  /\ comp' = [version |-> comp.version, inputs |-> comp.inputs,
              outputs |-> comp.outputs \cup {next_file_number_}]
  /\ files_writing_' = files_writing_ \cup {next_file_number_}
  /\ disk' = disk \cup {next_file_number_}
  /\ UNCHANGED <<memVars, versionVars, sources, dropped, named, reader, bg, flush, edit,
                 background_ok>>

\* The loop ends with an error, or because the database is being closed:
\* RecordBackgroundError, CleanCompaction, ReleaseInput, and no file is deleted.
MergeFails ==
  /\ bg = "merge"
  /\ background_ok' = FALSE
  /\ files_writing_' = files_writing_ \ comp.outputs
  /\ refs' = Unref(refs, comp.version)
  /\ files' = Kept(files, refs')
  /\ comp' = NoCompaction
  /\ bg' = "idle"
  /\ UNCHANGED <<next_file_number_, memVars, current_, disk, sources, dropped, named, reader,
                 flush, edit>>

InputSources == UNION {sources[n] : n \in comp.inputs}

\* The loop is through and LogCompactionResult calls LogAndApply.
MergeEnds ==
  /\ bg = "merge"
  /\ sources' = [n \in Numbers |-> IF n \in comp.outputs THEN InputSources ELSE sources[n]]
  /\ LogAndApplyStarts(comp.outputs, comp.inputs)
  /\ bg' = "apply"
  /\ UNCHANGED <<next_file_number_, memVars, disk, dropped, files_writing_, reader, flush,
                 comp, background_ok>>

\* LogAndApply has returned: CleanCompaction, ReleaseInput, GarbageFilesClean.
CompactionInstalled ==
  /\ bg = "apply"
  /\ files_writing_' = files_writing_ \ comp.outputs
  /\ bg' = "idle"
  /\ comp' = NoCompaction
  /\ \/ /\ LogAndApplySucceeds(comp.version)
        /\ dropped' = IF comp.outputs = {} THEN dropped \cup InputSources ELSE dropped
        /\ GarbageFilesClean(background_ok)
        /\ UNCHANGED background_ok
     \/ /\ LogAndApplyFails(comp.version)
        /\ UNCHANGED <<disk, sources, dropped>>
  /\ UNCHANGED <<next_file_number_, memVars, reader, flush>>

----------------------------------------------------------------------------
Next ==
  \/ SwitchMemtable
  \/ \E r \in Readers : GetStarts(r) \/ GetEnds(r)
  \/ FlushStarts
  \/ FlushBuilt
  \/ FlushInstalled
  \/ CompactionStarts
  \/ MoveEnds
  \/ OpenCompactionSSTable
  \/ MergeFails
  \/ MergeEnds
  \/ CompactionInstalled

Spec == Init /\ [][Next]_vars

----------------------------------------------------------------------------
\* A running Get never touches a memtable or a version that was freed.
ViewAlive ==
  \A r \in Readers : reader[r] # NoView =>
    /\ memRefs[reader[r].mem] > 0
    /\ reader[r].imm # 0 => memRefs[reader[r].imm] > 0
    /\ refs[reader[r].version] > 0

\* What a Get with this view can reach: the memtables it holds and the entries
\* of its version's files (or what a merge found superseded).
Reach(view) ==
  {view.mem, view.imm} \cup dropped \cup UNION {sources[n] : n \in files[view.version]}

\* Version::Get and the memtables together still show every memtable up to the
\* reader's own and everything recovered, whatever was flushed or compacted
\* since the reader took its references.
ViewComplete ==
  \A r \in Readers : reader[r] # NoView =>
    (1..reader[r].mem) \cup {-f : f \in Recovered} \subseteq Reach(reader[r])

\* Every file that somebody may still want is on disk: those of a version that a
\* reader or a merge holds, the outputs of the running merge, also when a flush
\* inside its loop has cleaned up, and those the meta log names and a reopened
\* database would look for, also after a failed write of the meta log.
NeededFilesOnDisk ==
  named \cup comp.outputs \cup UNION {files[v] : v \in Versions} \subseteq disk

\* ~VersionSet: assert(dummy_head_.next_ == &dummy_head_) (version.cc:33) holds
\* when no job and no Get is running: only the current version is listed.
NoVersionLeak ==
  bg = "idle" /\ (\A r \in Readers : reader[r] = NoView)
    => refs = [v \in Versions |-> IF v = current_ THEN 1 ELSE 0]

\* An SSTable that is created, and truncates what has its name, never has the
\* number of a file that a version holds, the meta log may name or the merge has
\* written.
FreshNumbers ==
  [][\A n \in files_writing_' \ files_writing_ :
       n \notin named \cup comp.outputs /\ \A v \in Versions : n \notin files[v]]_vars
=============================================================================
