----------------------------- MODULE LogFormat -----------------------------
(***************************************************************************)
(* The record format of the write-ahead logs and of the meta logs          *)
(* (db/log/log_writer.cc, log_reader.cc).  log::Writer cuts a record into  *)
(* fragments that never cross a block; log::Reader puts them together      *)
(* again.  Between the two the file may lose its end (a crash or a power   *)
(* loss), a fragment may be damaged on the disk, or an Append may fail     *)
(* while the writer goes on.                                               *)
(*                                                                         *)
(* A byte of the file is a cell: the first byte of a header with all that  *)
(* the header says, the others of it, a byte of a record, or padding.  The *)
(* reader's buffer_ is the part (lo, hi] of the file.                      *)
(***************************************************************************)
EXTENDS Integers, Sequences

CONSTANTS
  BlockSize,   \* kBlockSize
  HeadSize,    \* KLogHeadSize
  MaxRecord,   \* bound: length of a record
  MaxFile      \* bound: no record is begun beyond this file size

ASSUME LogAssumption ==
  /\ HeadSize \in Nat \ {0}
  /\ BlockSize \in Nat /\ BlockSize > HeadSize
  /\ MaxRecord \in Nat \ {0}
  /\ MaxFile \in Nat

VARIABLES
  file,            \* the bytes of the log
  block_offset_,   \* Writer: where it believes to be in the block
  slice,           \* AddRecord in progress: what is left of the record
  ends,            \* for each record begun, the file size at its end; 0: unfinished
  lens,            \* for each record begun, its length
  broken,          \* file size when an Append failed; NoFault before
  damaged,         \* offset of the header whose crc does not match; NoFault: none
  reading,         \* the log is read back
  lo, hi,          \* Reader: buffer_ is the bytes lo+1 .. hi, hi has been read
  eof_,            \* Reader
  buffer,          \* ReadRecord: the fragments put together so far
  records          \* what ReadRecord has returned so far

logVars == <<file, block_offset_, slice, ends, lens, broken, damaged, reading, lo, hi, eof_,
             buffer, records>>
writerVars == <<block_offset_, slice, ends, lens, broken>>
readerVars == <<lo, hi, eof_, buffer, records>>

NoFault == -1
Idle == [rec |-> 0, from |-> 0, remain |-> 0, begin |-> FALSE]

\* The checksum in a header stands for what it was computed over: the type and the
\* bytes of the record behind from.
Header(type, len, rec, from) ==
  [kind |-> "head", type |-> type, len |-> len, rec |-> rec, from |-> from]
Rest == [kind |-> "rest"]
Pad == [kind |-> "pad"]
Byte(rec, i) == [kind |-> "byte", rec |-> rec, at |-> i]
Times(cell, n) == [i \in 1..n |-> cell]
Payload(rec, from, len) == [i \in 1..len |-> Byte(rec, from + i)]

LogInit ==
  /\ file = <<>> /\ block_offset_ = 0 /\ slice = Idle
  /\ ends = <<>> /\ lens = <<>>
  /\ broken = NoFault /\ damaged = NoFault
  /\ reading = FALSE
  /\ lo = 0 /\ hi = 0 /\ eof_ = FALSE /\ buffer = <<>> /\ records = <<>>

----------------------------------------------------------------------------
(* log::Writer *)

\* AddRecord is called.  No caller writes an empty record: a batch and an edit
\* have a header.
AddRecord(n) ==
  /\ ~reading /\ slice = Idle
  /\ Len(file) < MaxFile
  /\ slice' = [rec |-> Len(lens) + 1, from |-> 0, remain |-> n, begin |-> TRUE]
  /\ lens' = Append(lens, n)
  /\ ends' = Append(ends, 0)
  /\ UNCHANGED <<file, block_offset_, broken, damaged, reading, readerVars>>

\* What is left in the block is too short for a header: it is filled with zeros.
Padding(left) == IF left < HeadSize THEN left ELSE 0

BlockStart(left) == IF left < HeadSize THEN 0 ELSE block_offset_

FragmentLength(offset) ==
  LET avail == BlockSize - offset - HeadSize
  IN  IF slice.remain < avail THEN slice.remain ELSE avail

FragmentType(begin, end) ==
  CASE begin /\ end   -> "full"
    [] begin /\ ~end  -> "first"
    [] ~begin /\ end  -> "last"
    [] ~begin /\ ~end -> "middle"

\* One turn of AddRecord's loop, with WritePhysicalRecord.  Append only copies into
\* the file's buffer, which is empty here; a write that fails, in Flush or in an
\* Append that fills the buffer, has put any part of the padding, the header and the
\* bytes into the file, and the rest is forgotten.  block_offset_ moves on all the
\* same and the loop ends.
WriteFragment ==
  /\ slice # Idle /\ ~reading
  /\ LET left   == BlockSize - block_offset_
         pad    == Times(Pad, Padding(left))
         offset == BlockStart(left)
         len    == FragmentLength(offset)
         end    == slice.remain = len
         header == <<Header(FragmentType(slice.begin, end), len, slice.rec, slice.from)>>
                     \o Times(Rest, HeadSize - 1)
         bytes  == Payload(slice.rec, slice.from, len)
         whole  == file \o pad \o header \o bytes
     IN  /\ block_offset_' = offset + HeadSize + len
         /\ \/ /\ file' = whole
               /\ slice' = IF end THEN Idle
                           ELSE [slice EXCEPT !.from = @ + len, !.remain = @ - len,
                                              !.begin = FALSE]
               /\ ends' = IF end THEN [ends EXCEPT ![slice.rec] = Len(file')] ELSE ends
               /\ UNCHANGED broken
            \/ /\ broken = NoFault
               /\ \E n \in Len(file)..Len(whole) - 1 : file' = SubSeq(whole, 1, n)
               /\ broken' = Len(file)
               /\ slice' = Idle
               /\ UNCHANGED ends
  /\ UNCHANGED <<lens, damaged, reading, readerVars>>

----------------------------------------------------------------------------
(* The file between the two *)

\* The process or the machine stops: a part of the end may be missing when the
\* log is read, also in the middle of a record that is being written.
Cut ==
  /\ ~reading
  /\ \E n \in 0..Len(file) : file' = SubSeq(file, 1, n)
  /\ reading' = TRUE
  /\ slice' = Idle
  /\ UNCHANGED <<block_offset_, ends, lens, broken, damaged, readerVars>>

\* One fragment no longer matches its checksum.
Damage ==
  /\ reading /\ lo = 0 /\ hi = 0 /\ ~eof_
  /\ damaged = NoFault /\ broken = NoFault
  /\ damaged' \in {i - 1 : i \in {i \in 1..Len(file) : file[i].kind = "head"}}
  /\ UNCHANGED <<file, writerVars, reading, readerVars>>

----------------------------------------------------------------------------
(* log::Reader *)

Buffered == hi - lo

\* src_->Read(kBlockSize): the next block, or what is left of the file.
ReadBlock ==
  LET n == IF hi + BlockSize < Len(file) THEN hi + BlockSize ELSE Len(file)
  IN  /\ lo' = hi
      /\ hi' = n
      /\ eof_' = (n - hi < BlockSize)

WholeHeader(at) ==
  /\ file[at + 1].kind = "head"
  /\ \A i \in 2..HeadSize : file[at + i] = Rest

\* The checksum matches: a whole, undamaged header with its own bytes behind it.
CrcMatches(at, len) ==
  /\ WholeHeader(at)
  /\ at # damaged
  /\ \A i \in 1..len : file[at + HeadSize + i] = Byte(file[at + 1].rec, file[at + 1].from + i)

\* What a header that is not there, or not whole, says: any length.
LengthAt(at) == IF WholeHeader(at) THEN {file[at + 1].len} ELSE 0..BlockSize

KeepBuffer(type) == buffer                 \* slip: FIRST does not start over
\* ReadRecord: what buffer holds before the fragment is added.
Collected(type) == IF type \in {"full", "first"} THEN <<>> ELSE buffer

\* ReadRecord's switch on the type of a fragment.
TakeFragment(type, bytes) ==
  IF type \in {"full", "last"}
  THEN /\ records' = Append(records, Collected(type) \o bytes)
       /\ buffer' = <<>>
  ELSE /\ buffer' = Collected(type) \o bytes
       /\ UNCHANGED records

\* KBadRecord: the rest of the block is dropped, the fragments collected so far
\* are kept ("ignore the bad record.").  With eof_ set and a length beyond the
\* buffer the answer is KEof, which ReadPhysicalRecord repeats at the next call.
BadRecord ==
  /\ lo' = hi
  /\ UNCHANGED <<hi, eof_, buffer, records>>

\* One call of ReadPhysicalRecord by ReadRecord.
ReadFragment ==
  /\ reading
  /\ \/ /\ Buffered < HeadSize /\ ~eof_
        /\ ReadBlock
        /\ UNCHANGED <<buffer, records>>
     \/ /\ Buffered >= HeadSize
        /\ \E len \in LengthAt(lo) :
             IF HeadSize + len > Buffered \/ ~CrcMatches(lo, len)
             THEN BadRecord
             ELSE /\ lo' = lo + HeadSize + len
                  /\ TakeFragment(file[lo + 1].type,
                                  SubSeq(file, lo + HeadSize + 1, lo + HeadSize + len))
                  /\ UNCHANGED <<hi, eof_>>
  /\ UNCHANGED <<file, writerVars, damaged, reading>>

ReadEnds == reading /\ eof_ /\ Buffered < HeadSize

LogNext ==
  \/ \E n \in 1..MaxRecord : AddRecord(n)
  \/ WriteFragment
  \/ Cut
  \/ Damage
  \/ ReadFragment

LogSpec == LogInit /\ [][LogNext]_logVars

----------------------------------------------------------------------------
Record(r) == Payload(r, 0, lens[r])

\* The bytes from the damaged header to the end of its block.
DamagedBytes == damaged + 1 .. (damaged \div BlockSize + 1) * BlockSize

\* A record that AddRecord finished, that is whole in the file and before the
\* failed append, and none of whose bytes or headers is among the damaged ones.
Intact(r) ==
  /\ ends[r] \in 1..Len(file)
  /\ broken # NoFault => ends[r] <= broken
  /\ LET start == IF r = 1 THEN 0 ELSE ends[r - 1]
     IN  damaged # NoFault =>
           \A i \in start + 1 .. ends[r] : i \in DamagedBytes => file[i] = Pad

IntactRecords == {r \in 1..Len(lens) : Intact(r)}

\* What a recovery gets from the log (log_reader.cc:22-58): every intact record,
\* once and in the order of the AddRecord calls, wherever the blocks end and
\* wherever the file was cut; a damaged fragment costs no more than the records
\* with a part in the rest of its block, a failed append none that came before
\* it; and without damage nothing else is returned.
LogReadsBack ==
  ReadEnds =>
    /\ \A r \in IntactRecords : \E i \in 1..Len(records) : records[i] = Record(r)
    /\ \A i, j \in 1..Len(records), r, q \in IntactRecords :
         i < j /\ records[i] = Record(r) /\ records[j] = Record(q) => r < q
    /\ damaged = NoFault /\ broken = NoFault =>
         \A i \in 1..Len(records) : \E r \in IntactRecords : records[i] = Record(r)
=============================================================================
