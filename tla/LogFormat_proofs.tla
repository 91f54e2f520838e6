-------------------------- MODULE LogFormat_proofs --------------------------
(***************************************************************************)
(* Proofs about LogFormat, for every block and header size, records of any *)
(* length and files of any size.                                           *)
(*                                                                         *)
(* The argument: in the sound part of the file, which ends where the file  *)
(* was cut or an append failed, a header is at every block start and       *)
(* behind every fragment with room for one; the fragments of a record      *)
(* follow each other; and the reader stands at a header, with the bytes    *)
(* before it in its buffer unless one of them was damaged.                 *)
(***************************************************************************)
EXTENDS LogFormat, SequenceTheorems, TLAPS

----------------------------------------------------------------------------
(* Headers and fragments of a file fl.                                     *)

Types == {"full", "first", "middle", "last"}
HeadCells == [kind : {"head"}, type : Types, len : Nat, rec : Nat, from : Nat]
ByteCells == [kind : {"byte"}, rec : Nat, at : Nat]
Cells == HeadCells \cup ByteCells \cup {Rest, Pad}

Bases == {k * BlockSize : k \in Nat}

Heads(fl) == {h \in 0..(Len(fl) - 1) : fl[h + 1].kind = "head"}

\* What the header at h says.
Rec(fl, h) == fl[h + 1].rec
Off(fl, h) == fl[h + 1].from
Size(fl, h) == fl[h + 1].len
Ending(fl, h) == fl[h + 1].type \in {"full", "last"}
Beginning(fl, h) == fl[h + 1].type \in {"full", "first"}

End(fl, h) == h + HeadSize + Size(fl, h)
NoHeads(fl, from, to) == \A h \in Heads(fl) : ~(from <= h /\ h < to)

\* A record is ended once, and nothing of a record comes behind a later one.
InOrder(fl) ==
  \A h, n \in Heads(fl) : h < n =>
    /\ Rec(fl, h) <= Rec(fl, n)
    /\ Ending(fl, h) => Rec(fl, h) < Rec(fl, n)
AllHeads(fl, ls) ==
  /\ \A h \in Heads(fl) : Rec(fl, h) \in 1..Len(ls) /\ (Ending(fl, h) => Size(fl, h) >= 1)
  /\ InOrder(fl)

----------------------------------------------------------------------------
(* The sound part of the file, its first s bytes.                          *)

InBlock(fl, h) == \E b \in Bases : b <= h /\ End(fl, h) <= b + BlockSize

\* What a header says is true of its record.
Truthful(fl, h, es, ls) ==
  /\ Beginning(fl, h) => Off(fl, h) = 0
  /\ Ending(fl, h) => /\ Off(fl, h) + Size(fl, h) = ls[Rec(fl, h)]
                      /\ es[Rec(fl, h)] = End(fl, h)
  /\ ~Ending(fl, h) => es[Rec(fl, h)] = 0 \/ End(fl, h) < es[Rec(fl, h)]
  /\ Rec(fl, h) > 1 => es[Rec(fl, h) - 1] \in 1..h

\* Behind a header are the rest of it and its bytes, as far as s.
Body(fl, h, s) ==
  /\ \A i \in 2..HeadSize : h + i <= s => fl[h + i] = Rest
  /\ \A i \in 1..Size(fl, h) : h + HeadSize + i <= s =>
       fl[h + HeadSize + i] = Byte(Rec(fl, h), Off(fl, h) + i)

\* n goes on where h ends.
Continues(fl, h, n) ==
  ~Ending(fl, h) /\ Rec(fl, n) = Rec(fl, h) /\ Off(fl, n) = Off(fl, h) + Size(fl, h)
HasFirst(fl, n) ==
  \E h \in Heads(fl) : h < n /\ NoHeads(fl, h + 1, n) /\ Continues(fl, h, n)

HeadsOk(fl, s, es, ls) ==
  \A h \in Heads(fl) : h < s =>
    /\ InBlock(fl, h) /\ Truthful(fl, h, es, ls) /\ Body(fl, h, s)
    /\ ~Beginning(fl, h) => HasFirst(fl, h)
Starts(fl, s) == \A b \in Bases : b < s => b \in Heads(fl)
Follows(fl, s) ==
  \A h \in Heads(fl), b \in Bases :
    b <= h /\ End(fl, h) + HeadSize <= b + BlockSize /\ End(fl, h) < s => End(fl, h) \in Heads(fl)
EndsAre(fl, s, es, ls) ==
  \A r \in 1..Len(ls) : es[r] \in 1..s =>
    \E h \in Heads(fl) : Rec(fl, h) = r /\ Ending(fl, h) /\ End(fl, h) = es[r]

SoundFile(fl, s, es, ls) ==
  HeadsOk(fl, s, es, ls) /\ Starts(fl, s) /\ Follows(fl, s) /\ EndsAre(fl, s, es, ls)

Sound == IF broken = NoFault \/ Len(file) <= broken THEN Len(file) ELSE broken

----------------------------------------------------------------------------
(* The inductive invariant.                                                *)

Slices == [rec : Nat, from : Nat, remain : Nat, begin : BOOLEAN]

TypeOK ==
  /\ file \in Seq(Cells) /\ block_offset_ \in 0..BlockSize /\ slice \in Slices
  /\ lens \in Seq(Nat \ {0}) /\ ends \in Seq(Nat) /\ Len(ends) = Len(lens)
  /\ broken \in Nat \cup {NoFault} /\ damaged \in Nat \cup {NoFault} /\ reading \in BOOLEAN
  /\ lo \in Nat /\ hi \in Nat /\ eof_ \in BOOLEAN
  /\ buffer \in Seq(Cells) /\ records \in Seq(Seq(Cells))

FileInv == AllHeads(file, lens) /\ SoundFile(file, Sound, ends, lens)

\* The last header of the file, when record rc goes on behind it from byte fr.
GoesOn(fl, rc, fr) ==
  \E h \in Heads(fl) : /\ NoHeads(fl, h + 1, Len(fl)) /\ ~Ending(fl, h)
                       /\ Rec(fl, h) = rc /\ Off(fl, h) + Size(fl, h) = fr

\* AddRecord in progress.
SliceInv ==
  slice # Idle =>
    /\ slice.rec = Len(lens) /\ slice.rec >= 1 /\ ends[slice.rec] = 0
    /\ slice.remain >= 1 /\ slice.from + slice.remain = lens[slice.rec]
    /\ slice.begin => slice.from = 0
    /\ ~slice.begin => block_offset_ = BlockSize
    /\ ~slice.begin /\ broken = NoFault => GoesOn(file, slice.rec, slice.from)
    /\ \A h \in Heads(file) :
         Ending(file, h) \/ slice.begin \/ (broken # NoFault /\ h < broken)
           => Rec(file, h) < slice.rec

\* The writer knows where it is until an append fails.
AppendInv ==
  /\ \E b \in Bases : Len(file) = b + block_offset_
  /\ \A h \in Heads(file) : End(file, h) <= Len(file)
  /\ \A r \in 1..Len(lens) : ends[r] \in 0..Len(file)
  /\ \A r \in 1..Len(lens) : ends[r] = 0 => slice # Idle /\ r = Len(lens)

WriterInv ==
  ~reading =>
    /\ SliceInv /\ damaged = NoFault
    /\ broken = NoFault => AppendInv
    /\ broken # NoFault => broken <= Len(file)
    /\ lo = 0 /\ hi = 0 /\ ~eof_ /\ buffer = <<>> /\ records = <<>>

\* Where the reader is, with bytes l+1 .. u in its buffer_.
PlaceAt(l, u, e) ==
  /\ l <= u /\ u <= Len(file)
  /\ l < u => \E b \in Bases : b <= l /\ u <= b + BlockSize /\ (u = b + BlockSize \/ u = Len(file))
  /\ e => u = Len(file)
  /\ ~e => u \in Bases
  /\ u - l >= HeadSize /\ l < Sound => l \in Heads(file)
  /\ \A h \in Heads(file) : h < l /\ End(file, h) <= Sound => End(file, h) <= l

\* The record whose end is the end of x.
RecordOf(x) == x[Len(x)].rec

\* What has been returned, rs, when the reader is at l.
RecordsAt(l, rs) ==
  /\ \A i \in 1..Len(rs) : rs[i] # <<>> /\ RecordOf(rs[i]) \in Nat
  /\ \A i, j \in 1..Len(rs) : i < j => RecordOf(rs[i]) < RecordOf(rs[j])
  /\ \A i \in 1..Len(rs), h \in Heads(file) : l <= h => RecordOf(rs[i]) < Rec(file, h)
  /\ \A r \in 1..Len(lens) : Intact(r) /\ ends[r] <= l => \E i \in 1..Len(rs) : rs[i] = Record(r)
  /\ damaged = NoFault /\ broken = NoFault =>
       \A i \in 1..Len(rs) : \E r \in 1..Len(lens) : Intact(r) /\ rs[i] = Record(r)

\* What has been collected, bf: the bytes of the record that the next header goes on with.
BufferAt(l, bf) ==
  \A n \in Heads(file) :
    n < Sound /\ l <= n /\ NoHeads(file, l, n) /\ ~Beginning(file, n) /\ Intact(Rec(file, n))
      => bf = Payload(Rec(file, n), 0, Off(file, n))

ReaderInv ==
  reading =>
    /\ slice = Idle
    /\ damaged # NoFault => damaged \in Heads(file) /\ broken = NoFault
    /\ PlaceAt(lo, hi, eof_) /\ RecordsAt(lo, records) /\ BufferAt(lo, buffer)

IInv == TypeOK /\ FileInv /\ WriterInv /\ ReaderInv

----------------------------------------------------------------------------
(* Blocks.                                                                 *)

LEMMA Sizes ==
  /\ BlockSize \in Nat
  /\ HeadSize \in Nat
  /\ HeadSize >= 1
  /\ BlockSize > HeadSize
BY LogAssumption

\* What is needed of products: more blocks are longer by one at least.
LEMMA MoreBlocks ==
  ASSUME NEW n \in Nat, NEW j \in Nat, NEW k \in Nat, j < k
  PROVE  j * n + n <= k * n
<1>1. PICK d \in Nat : k = j + 1 + d
  <2>1. k - j - 1 \in Nat /\ k = j + 1 + (k - j - 1)
    OBVIOUS
  <2> QED
    BY <2>1
<1>2. d * n \in Nat
  OBVIOUS
<1>3. k * n = j * n + n + d * n
  BY <1>1
<1> QED
  BY <1>2, <1>3

LEMMA BasesAre ==
  /\ Bases \subseteq Nat
  /\ 0 \in Bases
  /\ \A b \in Bases : b + BlockSize \in Bases
<1>1. Bases \subseteq Nat
  BY Sizes DEF Bases
<1>2. 0 \in Bases
  <2>1. 0 = 0 * BlockSize
    BY Sizes
  <2> QED
    BY <2>1 DEF Bases
<1>3. ASSUME NEW b \in Bases
      PROVE  b + BlockSize \in Bases
  <2>1. PICK k \in Nat : b = k * BlockSize
    BY DEF Bases
  <2>2. b + BlockSize = (k + 1) * BlockSize
    BY <2>1, Sizes
  <2> QED
    BY <2>2 DEF Bases
<1> QED
  BY <1>1, <1>2, <1>3

LEMMA NextBase ==
  ASSUME NEW b \in Bases, NEW c \in Bases, b < c
  PROVE  b + BlockSize <= c
<1>1. PICK j \in Nat : b = j * BlockSize
  BY DEF Bases
<1>2. PICK k \in Nat : c = k * BlockSize
  BY DEF Bases
<1>3. CASE j < k
  BY <1>1, <1>2, <1>3, MoreBlocks, Sizes
<1>4. CASE k < j
  <2>1. c + BlockSize <= b
    BY <1>1, <1>2, <1>4, MoreBlocks, Sizes
  <2> QED
    BY <2>1, BasesAre, Sizes
<1>5. CASE j = k
  BY <1>1, <1>2, <1>5, BasesAre
<1> QED
  BY <1>3, <1>4, <1>5

LEMMA OneBlock ==
  ASSUME NEW b \in Bases, NEW c \in Bases, NEW x \in Nat,
         b <= x, x < b + BlockSize, c <= x, x < c + BlockSize
  PROVE  b = c
<1>1. b \in Nat /\ c \in Nat
  BY BasesAre
<1>2. CASE b < c
  BY <1>1, <1>2, NextBase, Sizes
<1>3. CASE c < b
  BY <1>1, <1>3, NextBase, Sizes
<1> QED
  BY <1>1, <1>2, <1>3

\* The end of the block of d, as DamagedBytes computes it.
LEMMA BlockOf ==
  ASSUME NEW d \in Nat, NEW b \in Bases, b <= d, d < b + BlockSize
  PROVE  (d \div BlockSize + 1) * BlockSize = b + BlockSize
<1>1. PICK n \in Nat : n = BlockSize /\ n > 0
  BY Sizes
<1>2. PICK k \in Nat : b = k * n
  BY <1>1 DEF Bases
<1>3. d \div n \in Nat /\ d % n \in 0..(n - 1) /\ d = n * (d \div n) + (d % n)
  BY <1>1
<1>4. PICK q \in Nat : q = d \div n
  BY <1>3
<1>5. q * n <= d /\ d < q * n + n
  BY <1>3, <1>4, <1>1
<1>6. q * n \in Bases
  BY <1>1 DEF Bases
<1>7. q * n = b
  BY <1>5, <1>6, <1>1, OneBlock
<1>8. (q + 1) * n = q * n + n
  BY <1>1
<1> QED
  BY <1>7, <1>8, <1>1, <1>4

----------------------------------------------------------------------------
(* Cells and headers.                                                      *)

LEMMA HeadsAre ==
  ASSUME NEW fl \in Seq(Cells), NEW h \in Heads(fl)
  PROVE  /\ h \in Nat
         /\ h < Len(fl)
         /\ Rec(fl, h) \in Nat
         /\ Off(fl, h) \in Nat
         /\ Size(fl, h) \in Nat
         /\ End(fl, h) \in Nat
         /\ End(fl, h) = h + HeadSize + Size(fl, h)
         /\ h < End(fl, h)
         /\ fl[h + 1].type \in Types
<1>1. h \in 0..(Len(fl) - 1) /\ fl[h + 1].kind = "head"
  BY DEF Heads
<1>2. Len(fl) \in Nat /\ h \in Nat /\ h + 1 \in 1..Len(fl)
  BY <1>1
<1>3. fl[h + 1] \in Cells
  BY <1>2
<1>4. fl[h + 1] \in HeadCells
  BY <1>1, <1>3 DEF Cells, ByteCells, Rest, Pad
<1>5. Rec(fl, h) \in Nat /\ Off(fl, h) \in Nat /\ Size(fl, h) \in Nat /\ fl[h + 1].type \in Types
  BY <1>4 DEF HeadCells, Rec, Off, Size
<1>6. End(fl, h) = h + HeadSize + Size(fl, h)
  BY DEF End
<1> QED
  BY <1>1, <1>2, <1>5, <1>6, Sizes

LEMMA HeadCell ==
  ASSUME NEW fl, NEW h \in Heads(fl)
  PROVE  /\ fl[h + 1] # Rest
         /\ fl[h + 1] # Pad
         /\ \A r, i : fl[h + 1] # Byte(r, i)
BY DEF Heads, Rest, Pad, Byte

LEMMA BodyHasNoHeads ==
  ASSUME NEW fl \in Seq(Cells), NEW h \in Heads(fl), NEW s \in Nat, Body(fl, h, s),
         NEW n \in Heads(fl), h < n, n < s
  PROVE  End(fl, h) <= n
<1>1. h \in Nat /\ n \in Nat /\ Size(fl, h) \in Nat /\ End(fl, h) = h + HeadSize + Size(fl, h)
  BY HeadsAre
<1>2. ASSUME n < End(fl, h)
      PROVE  FALSE
  <2>1. PICK k \in Nat : k = n - h + 1
    BY <1>1
  <2>2. n + 1 = h + k /\ k >= 2 /\ h + k <= s
    BY <2>1, <1>1
  <2>3. CASE k <= HeadSize
    <3>1. fl[h + k] = Rest
      BY <2>2, <2>3, Sizes DEF Body
    <3> QED
      BY <3>1, <2>2, HeadCell
  <2>4. CASE k > HeadSize
    <3>1. PICK i \in Nat : i = k - HeadSize
      BY <2>4, Sizes
    <3>2. i \in 1..Size(fl, h) /\ h + HeadSize + i = n + 1
      BY <3>1, <2>1, <2>4, <1>1, <1>2, Sizes
    <3>3. fl[h + HeadSize + i] = Byte(Rec(fl, h), Off(fl, h) + i)
      BY <3>2, <2>2 DEF Body
    <3> QED
      BY <3>2, <3>3, HeadCell
  <2> QED
    BY <2>3, <2>4, Sizes
<1> QED
  BY <1>1, <1>2, Sizes

----------------------------------------------------------------------------
(* Two files with the same first bytes.                                    *)

Agree(fl, f2, n) ==
  n \in Nat /\ n <= Len(fl) /\ n <= Len(f2) /\ \A i \in 1..n : f2[i] = fl[i]

SameHead(fl, f2, h) ==
  /\ Rec(f2, h) = Rec(fl, h)
  /\ Off(f2, h) = Off(fl, h)
  /\ Size(f2, h) = Size(fl, h)
  /\ End(f2, h) = End(fl, h)
  /\ Ending(f2, h) <=> Ending(fl, h)
  /\ Beginning(f2, h) <=> Beginning(fl, h)

LEMMA AgreeHeads ==
  ASSUME NEW fl \in Seq(Cells), NEW f2 \in Seq(Cells), NEW n \in Nat, Agree(fl, f2, n),
         NEW h \in Nat, h < n
  PROVE  /\ h \in Heads(fl) <=> h \in Heads(f2)
         /\ SameHead(fl, f2, h)
<1>1. h + 1 \in 1..n /\ h \in 0..(Len(fl) - 1) /\ h \in 0..(Len(f2) - 1)
  BY DEF Agree
<1>2. f2[h + 1] = fl[h + 1]
  BY <1>1 DEF Agree
<1>3. h \in Heads(fl) <=> h \in Heads(f2)
  BY <1>1, <1>2 DEF Heads
<1>4. SameHead(fl, f2, h)
  BY <1>2 DEF SameHead, Rec, Off, Size, End, Ending, Beginning
<1> QED
  BY <1>3, <1>4

LEMMA AgreeHasFirst ==
  ASSUME NEW fl \in Seq(Cells), NEW f2 \in Seq(Cells), NEW n \in Nat, Agree(fl, f2, n),
         NEW h \in Heads(fl), h < n, HasFirst(fl, h)
  PROVE  HasFirst(f2, h)
<1>1. PICK p \in Heads(fl) : p < h /\ NoHeads(fl, p + 1, h) /\ Continues(fl, p, h)
  BY DEF HasFirst
<1>2. h \in Nat /\ p \in Nat /\ p < n
  BY <1>1, HeadsAre
<1>3. p \in Heads(f2) /\ SameHead(fl, f2, p) /\ SameHead(fl, f2, h)
  BY <1>1, <1>2, AgreeHeads
<1>4. ASSUME NEW q \in Heads(f2), p + 1 <= q, q < h
      PROVE  FALSE
  <2>1. q \in Nat /\ q < n
    BY <1>2, <1>4, HeadsAre
  <2>2. q \in Heads(fl)
    BY <2>1, AgreeHeads
  <2> QED
    BY <2>2, <1>1, <1>4 DEF NoHeads
<1>5. NoHeads(f2, p + 1, h)
  BY <1>4 DEF NoHeads
<1>6. Continues(f2, p, h)
  BY <1>1, <1>3 DEF Continues, SameHead
<1> QED
  BY <1>1, <1>3, <1>5, <1>6 DEF HasFirst

LEMMA AgreeBody ==
  ASSUME NEW fl \in Seq(Cells), NEW f2 \in Seq(Cells), NEW s \in Nat, Agree(fl, f2, s),
         NEW h \in Heads(fl), h < s, Body(fl, h, s)
  PROVE  Body(f2, h, s)
<1>1. h \in Nat /\ Size(fl, h) \in Nat
  BY HeadsAre
<1>2. Rec(f2, h) = Rec(fl, h) /\ Off(f2, h) = Off(fl, h) /\ Size(f2, h) = Size(fl, h)
  BY <1>1, AgreeHeads DEF SameHead
<1>3. ASSUME NEW i \in 2..HeadSize, h + i <= s
      PROVE  f2[h + i] = Rest
  <2>1. fl[h + i] = Rest
    BY <1>3 DEF Body
  <2>2. h + i \in 1..s
    BY <1>1, <1>3, Sizes
  <2> QED
    BY <2>1, <2>2 DEF Agree
<1>4. ASSUME NEW i \in 1..Size(fl, h), h + HeadSize + i <= s
      PROVE  f2[h + HeadSize + i] = Byte(Rec(fl, h), Off(fl, h) + i)
  <2>1. fl[h + HeadSize + i] = Byte(Rec(fl, h), Off(fl, h) + i)
    BY <1>4 DEF Body
  <2>2. h + HeadSize + i \in 1..s
    BY <1>1, <1>4, Sizes
  <2> QED
    BY <2>1, <2>2 DEF Agree
<1> QED
  BY <1>2, <1>3, <1>4 DEF Body

\* The sound part is told by its bytes.
LEMMA SoundAgrees ==
  ASSUME NEW fl \in Seq(Cells), NEW f2 \in Seq(Cells), NEW s \in Nat, Agree(fl, f2, s),
         NEW es, NEW ls, SoundFile(fl, s, es, ls)
  PROVE  SoundFile(f2, s, es, ls)
<1>1. ASSUME NEW h \in Heads(f2), h < s
      PROVE  h \in Nat /\ h \in Heads(fl) /\ SameHead(fl, f2, h)
  BY <1>1, HeadsAre, AgreeHeads
<1>2. HeadsOk(f2, s, es, ls)
  <2> SUFFICES ASSUME NEW h \in Heads(f2), h < s
               PROVE  /\ InBlock(f2, h)
                      /\ Truthful(f2, h, es, ls)
                      /\ Body(f2, h, s)
                      /\ ~Beginning(f2, h) => HasFirst(f2, h)
    BY DEF HeadsOk
  <2>1. h \in Nat /\ h \in Heads(fl) /\ SameHead(fl, f2, h)
    BY <1>1
  <2>2. /\ InBlock(fl, h)
        /\ Truthful(fl, h, es, ls)
        /\ Body(fl, h, s)
        /\ ~Beginning(fl, h) => HasFirst(fl, h)
    BY <2>1 DEF SoundFile, HeadsOk
  <2>3. InBlock(f2, h)
    BY <2>1, <2>2 DEF InBlock, SameHead
  <2>4. Truthful(f2, h, es, ls)
    BY <2>1, <2>2 DEF Truthful, SameHead
  <2>5. Body(f2, h, s)
    BY <2>1, <2>2, AgreeBody
  <2>6. ~Beginning(f2, h) => HasFirst(f2, h)
    BY <2>1, <2>2, AgreeHasFirst DEF SameHead
  <2> QED
    BY <2>3, <2>4, <2>5, <2>6
<1>3. Starts(f2, s)
  <2> SUFFICES ASSUME NEW b \in Bases, b < s
               PROVE  b \in Heads(f2)
    BY DEF Starts
  <2>1. b \in Heads(fl) /\ b \in Nat
    BY BasesAre DEF SoundFile, Starts
  <2> QED
    BY <2>1, AgreeHeads
<1>4. Follows(f2, s)
  <2> SUFFICES ASSUME NEW h \in Heads(f2), NEW b \in Bases,
                      b <= h, End(f2, h) + HeadSize <= b + BlockSize, End(f2, h) < s
               PROVE  End(f2, h) \in Heads(f2)
    BY DEF Follows
  <2>1. h \in Nat /\ End(f2, h) \in Nat /\ h < s
    BY HeadsAre
  <2>2. h \in Heads(fl) /\ End(f2, h) = End(fl, h)
    BY <2>1, <1>1 DEF SameHead
  <2>3. End(fl, h) \in Heads(fl)
    BY <2>2 DEF SoundFile, Follows
  <2> QED
    BY <2>1, <2>2, <2>3, AgreeHeads
<1>5. EndsAre(f2, s, es, ls)
  <2> SUFFICES ASSUME NEW r \in 1..Len(ls), es[r] \in 1..s
               PROVE  \E h \in Heads(f2) : Rec(f2, h) = r /\ Ending(f2, h) /\ End(f2, h) = es[r]
    BY DEF EndsAre
  <2>1. PICK h \in Heads(fl) : Rec(fl, h) = r /\ Ending(fl, h) /\ End(fl, h) = es[r]
    BY DEF SoundFile, EndsAre
  <2>2. h \in Nat /\ h < s
    BY <2>1, HeadsAre
  <2>3. h \in Heads(f2) /\ SameHead(fl, f2, h)
    BY <2>1, <2>2, AgreeHeads
  <2> QED
    BY <2>1, <2>3 DEF SameHead
<1> QED
  BY <1>2, <1>3, <1>4, <1>5 DEF SoundFile

\* The first bytes of the sound part are sound.
LEMMA SoundShrinks ==
  ASSUME NEW fl \in Seq(Cells), NEW s \in Nat, NEW t \in Nat, t <= s,
         NEW es, NEW ls, SoundFile(fl, s, es, ls)
  PROVE  SoundFile(fl, t, es, ls)
<1>1. HeadsOk(fl, t, es, ls)
  <2> SUFFICES ASSUME NEW h \in Heads(fl), h < t
               PROVE  /\ InBlock(fl, h)
                      /\ Truthful(fl, h, es, ls)
                      /\ Body(fl, h, t)
                      /\ ~Beginning(fl, h) => HasFirst(fl, h)
    BY DEF HeadsOk
  <2>1. h \in Nat /\ h < s /\ Size(fl, h) \in Nat
    BY HeadsAre
  <2>2. /\ InBlock(fl, h)
        /\ Truthful(fl, h, es, ls)
        /\ Body(fl, h, s)
        /\ ~Beginning(fl, h) => HasFirst(fl, h)
    BY <2>1 DEF SoundFile, HeadsOk
  <2>3. ASSUME NEW i \in 2..HeadSize, h + i <= t
        PROVE  fl[h + i] = Rest
    <3>1. h + i <= s
      BY <2>1, <2>3, Sizes
    <3> QED
      BY <3>1, <2>2 DEF Body
  <2>4. ASSUME NEW i \in 1..Size(fl, h), h + HeadSize + i <= t
        PROVE  fl[h + HeadSize + i] = Byte(Rec(fl, h), Off(fl, h) + i)
    <3>1. h + HeadSize + i <= s
      BY <2>1, <2>4, Sizes
    <3> QED
      BY <3>1, <2>2 DEF Body
  <2>5. Body(fl, h, t)
    BY <2>3, <2>4 DEF Body
  <2> QED
    BY <2>2, <2>5
<1>2. Starts(fl, t)
  BY BasesAre DEF SoundFile, Starts
<1>3. Follows(fl, t)
  <2> SUFFICES ASSUME NEW h \in Heads(fl), NEW b \in Bases,
                      b <= h, End(fl, h) + HeadSize <= b + BlockSize, End(fl, h) < t
               PROVE  End(fl, h) \in Heads(fl)
    BY DEF Follows
  <2>1. End(fl, h) \in Nat /\ End(fl, h) < s
    BY HeadsAre
  <2> QED
    BY <2>1 DEF SoundFile, Follows
<1>4. EndsAre(fl, t, es, ls)
  BY DEF SoundFile, EndsAre
<1> QED
  BY <1>1, <1>2, <1>3, <1>4 DEF SoundFile

\* AllHeads goes over to a file with fewer headers and at least as many records.
LEMMA AllHeadsOfPart ==
  ASSUME NEW fl \in Seq(Cells), NEW f2 \in Seq(Cells), NEW n \in Nat, Agree(fl, f2, n), Len(f2) = n,
         NEW ls, AllHeads(fl, ls)
  PROVE  AllHeads(f2, ls)
<1>1. ASSUME NEW h \in Heads(f2)
      PROVE  h \in Heads(fl) /\ SameHead(fl, f2, h)
  BY HeadsAre, AgreeHeads
<1>2. \A h \in Heads(f2) : Rec(f2, h) \in 1..Len(ls) /\ (Ending(f2, h) => Size(f2, h) >= 1)
  BY <1>1 DEF AllHeads, SameHead
<1>3. InOrder(f2)
  BY <1>1 DEF AllHeads, InOrder, SameHead
<1> QED
  BY <1>2, <1>3 DEF AllHeads

----------------------------------------------------------------------------
(* The bytes of a record.                                                  *)

LEMMA HeaderIsCell ==
  ASSUME NEW ty \in Types, NEW ln \in Nat, NEW r \in Nat, NEW fr \in Nat
  PROVE  Header(ty, ln, r, fr) \in Cells
BY DEF Header, Cells, HeadCells

LEMMA ByteIsCell ==
  ASSUME NEW r \in Nat, NEW i \in Nat
  PROVE  Byte(r, i) \in Cells
BY DEF Byte, Cells, ByteCells

LEMMA TimesIs ==
  ASSUME NEW c \in Cells, NEW n \in Nat
  PROVE  /\ Times(c, n) \in Seq(Cells)
         /\ Len(Times(c, n)) = n
         /\ \A i \in 1..n : Times(c, n)[i] = c
BY DEF Times

LEMMA PayloadIs ==
  ASSUME NEW r \in Nat, NEW fr \in Nat, NEW n \in Nat
  PROVE  /\ Payload(r, fr, n) \in Seq(Cells)
         /\ Len(Payload(r, fr, n)) = n
         /\ \A i \in 1..n : Payload(r, fr, n)[i] = Byte(r, fr + i)
<1>1. \A i \in 1..n : Byte(r, fr + i) \in Cells
  BY ByteIsCell
<1> QED
  BY <1>1 DEF Payload

\* y holds n bytes of record r, from fr on; a holds n cells c.
Bytes(y, r, fr, n) == Len(y) = n /\ \A i \in 1..n : y[i] = Byte(r, fr + i)
Filled(a, c, n) == Len(a) = n /\ \A i \in 1..n : a[i] = c

LEMMA PayloadBytes ==
  ASSUME NEW r \in Nat, NEW fr \in Nat, NEW n \in Nat
  PROVE  Bytes(Payload(r, fr, n), r, fr, n)
BY ONLY PayloadIs, r \in Nat, fr \in Nat, n \in Nat DEF Bytes

LEMMA TimesFills ==
  ASSUME NEW c \in Cells, NEW n \in Nat
  PROVE  Filled(Times(c, n), c, n)
BY ONLY TimesIs, c \in Cells, n \in Nat DEF Filled

\* A sequence of the bytes of a record is a Payload.
LEMMA IsPayload ==
  ASSUME NEW r \in Nat, NEW fr \in Nat, NEW n \in Nat,
         NEW x \in Seq(Cells), Len(x) = n, \A i \in 1..n : x[i] = Byte(r, fr + i)
  PROVE  x = Payload(r, fr, n)
<1>1. PICK y \in Seq(Cells) : y = Payload(r, fr, n)
  BY PayloadIs
<1>2. Len(y) = n /\ \A i \in 1..n : y[i] = Byte(r, fr + i)
  <2>1. Bytes(y, r, fr, n)
    BY ONLY <1>1, PayloadBytes, r \in Nat, fr \in Nat, n \in Nat
  <2> QED
    BY ONLY <2>1 DEF Bytes
<1>3. x = y
  BY <1>2, SeqEqual
<1> QED
  BY <1>1, <1>3

\* z is x followed by y.
Joined(x, y, z) ==
  /\ z \in Seq(Cells)
  /\ Len(x) \in Nat
  /\ Len(y) \in Nat
  /\ Len(z) = Len(x) + Len(y)
  /\ \A i \in 1..Len(x) : z[i] = x[i]
  /\ \A i \in 1..Len(y) : z[Len(x) + i] = y[i]

LEMMA Joins ==
  ASSUME NEW x \in Seq(Cells), NEW y \in Seq(Cells)
  PROVE  Joined(x, y, x \o y)
<1>1. Len(x) \in Nat /\ Len(y) \in Nat
  OBVIOUS
<1>2. x \o y \in Seq(Cells) /\ Len(x \o y) = Len(x) + Len(y)
  BY ConcatProperties
<1>3. ASSUME NEW i \in 1..Len(x)
      PROVE  (x \o y)[i] = x[i]
  BY <1>1, ConcatProperties
<1>4. ASSUME NEW i \in 1..Len(y)
      PROVE  (x \o y)[Len(x) + i] = y[i]
  <2>1. PICK j \in Nat : j = Len(x) + i
    BY <1>1
  <2>2. j \in 1..(Len(x) + Len(y)) /\ ~(j <= Len(x)) /\ j - Len(x) = i
    BY <1>1, <2>1
  <2>3. (x \o y)[j] = y[j - Len(x)]
    BY <2>2, ConcatProperties
  <2> QED
    BY <2>1, <2>2, <2>3
<1> QED
  BY <1>1, <1>2, <1>3, <1>4 DEF Joined

LEMMA PayloadsJoin ==
  ASSUME NEW r \in Nat, NEW n \in Nat, NEW k \in Nat
  PROVE  Payload(r, 0, n) \o Payload(r, n, k) = Payload(r, 0, n + k)
<1>1. PICK x \in Seq(Cells) : x = Payload(r, 0, n)
  BY PayloadIs
<1>2. PICK y \in Seq(Cells) : y = Payload(r, n, k)
  BY PayloadIs
<1>3. Len(x) = n /\ (\A i \in 1..n : x[i] = Byte(r, 0 + i))
  <2>1. Bytes(x, r, 0, n)
    BY ONLY <1>1, PayloadBytes, r \in Nat, n \in Nat
  <2> QED
    BY ONLY <2>1 DEF Bytes
<1>4. Len(y) = k /\ (\A i \in 1..k : y[i] = Byte(r, n + i))
  <2>1. Bytes(y, r, n, k)
    BY ONLY <1>2, PayloadBytes, r \in Nat, n \in Nat, k \in Nat
  <2> QED
    BY ONLY <2>1 DEF Bytes
<1>5. PICK z : z = x \o y
  OBVIOUS
<1>6. Joined(x, y, z)
  BY <1>5, Joins
<1>7. z \in Seq(Cells) /\ Len(z) = n + k
  BY ONLY <1>3, <1>4, <1>6 DEF Joined
<1>8. ASSUME NEW i \in 1..(n + k)
      PROVE  z[i] = Byte(r, 0 + i)
  <2>1. CASE i <= n
    BY ONLY <2>1, <1>3, <1>6, n \in Nat, k \in Nat, i \in 1..(n + k) DEF Joined
  <2>2. CASE i > n
    <3>1. PICK j \in 1..k : i = n + j
      <4>1. i - n \in 1..k /\ i = n + (i - n)
        BY <2>2
      <4> QED
        BY <4>1
    <3>2. z[n + j] = y[j]
      BY ONLY <1>3, <1>4, <1>6, j \in 1..k DEF Joined
    <3>3. y[j] = Byte(r, n + j)
      BY <1>4
    <3>4. n + j = 0 + i
      BY <3>1
    <3> QED
      BY ONLY <3>1, <3>2, <3>3, <3>4
  <2> QED
    BY <2>1, <2>2
<1>9. z = Payload(r, 0, n + k)
  <2>1. PICK t \in Nat : t = n + k
    OBVIOUS
  <2>2. Len(z) = t /\ \A i \in 1..t : z[i] = Byte(r, 0 + i)
    BY <1>7, <1>8, <2>1
  <2>3. z = Payload(r, 0, t)
    BY ONLY <2>2, <1>7, IsPayload, t \in Nat, r \in Nat
  <2> QED
    BY <2>1, <2>3
<1> QED
  BY <1>1, <1>2, <1>5, <1>9

\* The record at the end of a sequence of cells.
LEMMA LastRecord ==
  ASSUME NEW x \in Seq(Cells), NEW r \in Nat, NEW fr \in Nat, NEW n \in Nat, n >= 1
  PROVE  /\ x \o Payload(r, fr, n) \in Seq(Cells)
         /\ x \o Payload(r, fr, n) # <<>>
         /\ RecordOf(x \o Payload(r, fr, n)) = r
<1>1. PICK y \in Seq(Cells) : y = Payload(r, fr, n)
  BY PayloadIs
<1>2. Len(y) = n /\ (\A i \in 1..n : y[i] = Byte(r, fr + i))
  <2>1. Bytes(y, r, fr, n)
    BY ONLY <1>1, PayloadBytes, r \in Nat, fr \in Nat, n \in Nat
  <2> QED
    BY ONLY <2>1 DEF Bytes
<1>3. PICK z : z = x \o y
  OBVIOUS
<1>4. Joined(x, y, z)
  BY <1>3, Joins
<1>5. z \in Seq(Cells) /\ Len(z) = Len(x) + n /\ Len(x) \in Nat
  BY ONLY <1>2, <1>4 DEF Joined
<1>6. z[Len(x) + n] = Byte(r, fr + n)
  BY ONLY <1>2, <1>4, n \in Nat, n >= 1 DEF Joined
<1>7. z[Len(z)] = Byte(r, fr + n)
  BY <1>5, <1>6
<1>8. RecordOf(z) = r
  BY ONLY <1>7 DEF RecordOf, Byte
<1>9. z # <<>>
  BY ONLY <1>5, n \in Nat, n >= 1
<1> QED
  BY <1>1, <1>3, <1>5, <1>8, <1>9

LEMMA RecordOfPayload ==
  ASSUME NEW r \in Nat, NEW n \in Nat, n >= 1
  PROVE  RecordOf(Payload(r, 0, n)) = r
<1>1. PICK y \in Seq(Cells) : y = Payload(r, 0, n)
  BY PayloadIs
<1>2. Len(y) = n /\ (\A i \in 1..n : y[i] = Byte(r, 0 + i))
  <2>1. Bytes(y, r, 0, n)
    BY ONLY <1>1, PayloadBytes, r \in Nat, n \in Nat
  <2> QED
    BY ONLY <2>1 DEF Bytes
<1>3. y[Len(y)] = Byte(r, 0 + n)
  BY <1>2
<1>4. RecordOf(y) = r
  BY ONLY <1>3 DEF RecordOf, Byte
<1> QED
  BY <1>1, <1>4

----------------------------------------------------------------------------
(* A fragment is appended.                                                 *)

\* f2 is fl with padding up to n, then a header and its bytes.
Written(fl, f2, n, ty, ln, rc, fr) ==
  /\ f2 \in Seq(Cells)
  /\ n \in Nat /\ Len(fl) <= n /\ n < Len(f2)
  /\ Agree(fl, f2, Len(fl))
  /\ \A i \in 1..Len(f2) : i > Len(fl) /\ i # n + 1 => f2[i].kind # "head"
  /\ f2[n + 1] = Header(ty, ln, rc, fr)
  /\ \A i \in 2..HeadSize : f2[n + i] = Rest
  /\ \A i \in 1..ln : f2[n + HeadSize + i] = Byte(rc, fr + i)

\* What AddRecord appends: padding, a header, and the ln bytes behind it.
FragmentOf(fl, p, ty, ln, rc, fr) ==
  ((fl \o Times(Pad, p)) \o (<<Header(ty, ln, rc, fr)>> \o Times(Rest, HeadSize - 1)))
    \o Payload(rc, fr, ln)

Longer(fl, f2, p, ln) == Len(f2) = Len(fl) + p + HeadSize + ln

LEMMA WrittenFragment ==
  ASSUME NEW fl \in Seq(Cells), NEW p \in Nat, NEW ty \in Types, NEW ln \in Nat, NEW rc \in Nat,
         NEW fr \in Nat
  PROVE  /\ Written(fl, FragmentOf(fl, p, ty, ln, rc, fr), Len(fl) + p, ty, ln, rc, fr)
         /\ Longer(fl, FragmentOf(fl, p, ty, ln, rc, fr), p, ln)
<1>1. PICK hd \in Cells : hd = Header(ty, ln, rc, fr)
  BY HeaderIsCell
<1>2. Pad \in Cells /\ Rest \in Cells /\ ln \in Nat /\ HeadSize - 1 \in Nat
  BY Sizes DEF Cells
<1>3. PICK a \in Seq(Cells) : a = Times(Pad, p)
  BY <1>2, TimesIs
<1>4. PICK c \in Seq(Cells) : c = Times(Rest, HeadSize - 1)
  BY <1>2, TimesIs
<1>5. PICK y \in Seq(Cells) : y = Payload(rc, fr, ln)
  BY <1>2, PayloadIs
<1>6. Len(a) = p /\ \A i \in 1..p : a[i] = Pad
  <2>1. Filled(a, Pad, p)
    BY ONLY <1>2, <1>3, TimesFills, p \in Nat
  <2> QED
    BY ONLY <2>1 DEF Filled
<1>7. Len(c) = HeadSize - 1 /\ \A i \in 1..(HeadSize - 1) : c[i] = Rest
  <2>1. Filled(c, Rest, HeadSize - 1)
    BY ONLY <1>2, <1>4, TimesFills
  <2> QED
    BY ONLY <2>1 DEF Filled
<1>8. Len(y) = ln /\ \A i \in 1..ln : y[i] = Byte(rc, fr + i)
  <2>1. Bytes(y, rc, fr, ln)
    BY ONLY <1>5, PayloadBytes, rc \in Nat, fr \in Nat, ln \in Nat
  <2> QED
    BY ONLY <2>1 DEF Bytes
<1>9. PICK d : d = <<hd>>
  OBVIOUS
<1>10. d \in Seq(Cells) /\ Len(d) = 1 /\ d[1] = hd
  BY <1>9
<1>11. PICK u : u = d \o c
  OBVIOUS
<1>12. PICK v : v = fl \o a
  OBVIOUS
<1>13. Joined(d, c, u) /\ Joined(fl, a, v)
  BY <1>10, <1>11, <1>12, Joins
<1>14. PICK w : w = v \o u
  OBVIOUS
<1>15. Joined(v, u, w)
  <2>1. u \in Seq(Cells) /\ v \in Seq(Cells)
    BY ONLY <1>13 DEF Joined
  <2> QED
    BY <2>1, <1>14, Joins
<1>16. PICK f2 : f2 = w \o y
  OBVIOUS
<1>17. Joined(w, y, f2)
  <2>1. w \in Seq(Cells)
    BY ONLY <1>15 DEF Joined
  <2> QED
    BY <2>1, <1>16, Joins
<1>18. f2 = FragmentOf(fl, p, ty, ln, rc, fr)
  BY <1>1, <1>3, <1>4, <1>5, <1>9, <1>11, <1>12, <1>14, <1>16 DEF FragmentOf
<1>19. PICK n \in Nat : n = Len(fl) + p
  OBVIOUS
<1>20. Len(u) = HeadSize /\ Len(fl) \in Nat /\ Len(v) = n /\ Len(w) = n + HeadSize
       /\ f2 \in Seq(Cells) /\ Len(f2) = n + HeadSize + ln
  BY ONLY <1>6, <1>7, <1>8, <1>10, <1>13, <1>15, <1>17, <1>19, Sizes DEF Joined
<1>21. ASSUME NEW i \in 1..Len(fl)
       PROVE  f2[i] = fl[i]
  <2>1. i \in 1..Len(v) /\ i \in 1..Len(w)
    BY <1>20, <1>19, Sizes
  <2> QED
    BY ONLY <2>1, i \in 1..Len(fl), <1>13, <1>15, <1>17 DEF Joined
<1>22. ASSUME NEW i \in 1..n, i > Len(fl)
       PROVE  f2[i] = Pad
  <2>1. i \in 1..Len(v) /\ i \in 1..Len(w)
    BY <1>20, Sizes
  <2>2. PICK j \in 1..p : i = Len(fl) + j
    <3>1. i - Len(fl) \in 1..p /\ i = Len(fl) + (i - Len(fl))
      BY <1>19, <1>20, <1>22
    <3> QED
      BY <3>1
  <2>3. f2[i] = v[i]
    BY ONLY <2>1, <1>15, <1>17 DEF Joined
  <2>4. v[Len(fl) + j] = a[j]
    BY ONLY j \in 1..p, <1>6, <1>13 DEF Joined
  <2> QED
    BY ONLY <2>2, <2>3, <2>4, <1>6, j \in 1..p
<1>23. ASSUME NEW i \in 1..HeadSize
       PROVE  f2[n + i] = u[i]
  <2>1. n + i \in 1..Len(w)
    BY <1>20, Sizes
  <2>2. f2[n + i] = w[n + i]
    BY ONLY <2>1, <1>17 DEF Joined
  <2>3. w[n + i] = u[i]
    BY ONLY i \in 1..HeadSize, <1>20, <1>15 DEF Joined
  <2> QED
    BY <2>2, <2>3
<1>24. f2[n + 1] = hd
  <2>1. u[1] = d[1]
    BY ONLY <1>10, <1>13 DEF Joined
  <2>2. f2[n + 1] = u[1]
    BY <1>23, Sizes
  <2> QED
    BY <2>1, <2>2, <1>10
<1>25. ASSUME NEW i \in 2..HeadSize
       PROVE  f2[n + i] = Rest
  <2>1. PICK j \in 1..(HeadSize - 1) : i = 1 + j
    <3>1. i - 1 \in 1..(HeadSize - 1) /\ i = 1 + (i - 1)
      BY Sizes
    <3> QED
      BY <3>1
  <2>2. u[1 + j] = c[j]
    BY ONLY j \in 1..(HeadSize - 1), <1>7, <1>10, <1>13 DEF Joined
  <2>3. c[j] = Rest
    BY <1>7
  <2>4. f2[n + i] = u[i]
    BY <1>23, Sizes
  <2> QED
    BY ONLY <2>1, <2>2, <2>3, <2>4
<1>26. ASSUME NEW i \in 1..ln
       PROVE  f2[n + HeadSize + i] = Byte(rc, fr + i)
  <2>1. f2[Len(w) + i] = y[i]
    BY ONLY i \in 1..ln, <1>8, <1>17 DEF Joined
  <2>2. y[i] = Byte(rc, fr + i)
    BY <1>8
  <2> QED
    BY ONLY <2>1, <2>2, <1>20
<1>27. ASSUME NEW i \in 1..Len(f2), i > Len(fl), i # n + 1
       PROVE  f2[i].kind # "head"
  <2>0. i \in Nat /\ i <= n + HeadSize + ln /\ HeadSize \in Nat /\ ln \in Nat
    BY <1>20, <1>2, Sizes
  <2>1. CASE i <= n
    <3>1. f2[i] = Pad
      BY <2>0, <2>1, <1>27, <1>20, <1>22
    <3> QED
      BY <3>1 DEF Pad
  <2>2. CASE i > n /\ i <= n + HeadSize
    <3>1. PICK j \in 2..HeadSize : i = n + j
      <4>1. i - n \in 2..HeadSize /\ i = n + (i - n)
        BY <2>0, <2>2, <1>27
      <4> QED
        BY <4>1
    <3>2. f2[n + j] = Rest
      BY <1>25
    <3> QED
      BY ONLY <3>1, <3>2 DEF Rest
  <2>3. CASE i > n + HeadSize
    <3>1. PICK j \in 1..ln : i = n + HeadSize + j
      <4>1. i - (n + HeadSize) \in 1..ln /\ i = n + HeadSize + (i - (n + HeadSize))
        BY <2>0, <2>3
      <4> QED
        BY <4>1
    <3>2. f2[n + HeadSize + j] = Byte(rc, fr + j)
      BY <1>26
    <3> QED
      BY ONLY <3>1, <3>2 DEF Byte
  <2> QED
    BY <2>0, <2>1, <2>2, <2>3
<1>29. n < Len(f2) /\ Len(fl) <= n /\ Len(fl) <= Len(f2)
  BY <1>19, <1>20, <1>2, Sizes
<1>30. Agree(fl, f2, Len(fl))
  BY ONLY <1>20, <1>29, <1>21 DEF Agree
<1>31. Written(fl, f2, n, ty, ln, rc, fr)
  BY ONLY <1>1, <1>20, <1>24, <1>25, <1>26, <1>27, <1>29, <1>30, n \in Nat DEF Written
<1>32. Longer(fl, f2, p, ln)
  BY ONLY <1>19, <1>20 DEF Longer
<1> QED
  BY ONLY <1>18, <1>19, <1>31, <1>32

EndingType(ty) == ty \in {"full", "last"}
BeginningType(ty) == ty \in {"full", "first"}

LEMMA WrittenHeads ==
  ASSUME NEW fl \in Seq(Cells), NEW f2, NEW n, NEW ty \in Types, NEW ln \in Nat, NEW rc \in Nat,
         NEW fr \in Nat, Written(fl, f2, n, ty, ln, rc, fr)
  PROVE  /\ f2 \in Seq(Cells)
         /\ n \in Heads(f2)
         /\ \A h \in Heads(fl) : h \in Heads(f2) /\ h < n /\ h < Len(fl) /\ SameHead(fl, f2, h)
         /\ \A h \in Heads(f2) : h \in Heads(fl) \/ h = n
         /\ Rec(f2, n) = rc
         /\ Off(f2, n) = fr
         /\ Size(f2, n) = ln
         /\ Ending(f2, n) <=> EndingType(ty)
         /\ Beginning(f2, n) <=> BeginningType(ty)
         /\ Body(f2, n, Len(f2))
<1>1. f2 \in Seq(Cells) /\ n \in Nat /\ Len(fl) <= n /\ n < Len(f2) /\ Agree(fl, f2, Len(fl))
      /\ Len(fl) \in Nat /\ Len(f2) \in Nat
  BY DEF Written
<1>2. f2[n + 1] = Header(ty, ln, rc, fr)
  BY DEF Written
<1>3. f2[n + 1].kind = "head" /\ f2[n + 1].type = ty /\ f2[n + 1].len = ln /\ f2[n + 1].rec = rc
      /\ f2[n + 1].from = fr
  BY ONLY <1>2 DEF Header
<1>4. n \in Heads(f2)
  BY <1>1, <1>3 DEF Heads
<1>5. ASSUME NEW h \in Heads(fl)
      PROVE  h \in Heads(f2) /\ h < n /\ h < Len(fl) /\ SameHead(fl, f2, h)
  <2>1. h \in Nat /\ h < Len(fl)
    BY HeadsAre
  <2> QED
    BY <2>1, <1>1, AgreeHeads
<1>6. ASSUME NEW h \in Heads(f2), h # n
      PROVE  h \in Heads(fl)
  <2>1. h \in Nat /\ h < Len(f2) /\ f2[h + 1].kind = "head"
    BY <1>1 DEF Heads
  <2>2. CASE h < Len(fl)
    BY <2>1, <2>2, <1>1, AgreeHeads
  <2>3. CASE h >= Len(fl)
    <3>1. PICK i \in 1..Len(f2) : i = h + 1
      BY <2>1, <1>1
    <3>2. i > Len(fl) /\ i # n + 1
      BY <3>1, <2>1, <2>3, <1>1, <1>6
    <3>3. f2[i].kind # "head"
      BY <3>2 DEF Written
    <3> QED
      BY <3>1, <3>3, <2>1
  <2> QED
    BY <2>1, <2>2, <2>3, <1>1
<1>7. Rec(f2, n) = rc /\ Off(f2, n) = fr /\ Size(f2, n) = ln
  BY ONLY <1>3 DEF Rec, Off, Size
<1>8. (Ending(f2, n) <=> EndingType(ty)) /\ (Beginning(f2, n) <=> BeginningType(ty))
  BY ONLY <1>3 DEF Ending, Beginning, EndingType, BeginningType
<1>9. Body(f2, n, Len(f2))
  <2>1. \A i \in 2..HeadSize : f2[n + i] = Rest
    BY DEF Written
  <2>2. \A i \in 1..ln : f2[n + HeadSize + i] = Byte(rc, fr + i)
    BY DEF Written
  <2> QED
    BY ONLY <2>1, <2>2, <1>7 DEF Body
<1> QED
  BY <1>1, <1>4, <1>5, <1>6, <1>7, <1>8, <1>9

\* The headers of f2 are those of fl and one new header, at n.
NewHead(fl, f2, n, ty, ln, rc, fr) ==
  /\ n \in Heads(f2)
  /\ \A h \in Heads(fl) : h < n /\ SameHead(fl, f2, h)
  /\ \A h \in Heads(f2) : h \in Heads(fl) \/ h = n
  /\ Rec(f2, n) = rc /\ Off(f2, n) = fr /\ Size(f2, n) = ln
  /\ Ending(f2, n) <=> EndingType(ty)

LEMMA WrittenNewHead ==
  ASSUME NEW fl \in Seq(Cells), NEW f2, NEW n, NEW ty \in Types, NEW ln \in Nat, NEW rc \in Nat,
         NEW fr \in Nat, Written(fl, f2, n, ty, ln, rc, fr)
  PROVE  NewHead(fl, f2, n, ty, ln, rc, fr)
<1>1. n \in Heads(f2) /\ Rec(f2, n) = rc /\ Off(f2, n) = fr /\ Size(f2, n) = ln
  BY WrittenHeads
<1>2. Ending(f2, n) <=> EndingType(ty)
  BY WrittenHeads
<1>3. \A h \in Heads(fl) : h < n /\ SameHead(fl, f2, h)
  BY WrittenHeads
<1>4. \A h \in Heads(f2) : h \in Heads(fl) \/ h = n
  BY WrittenHeads
<1> QED
  BY ONLY <1>1, <1>2, <1>3, <1>4 DEF NewHead

\* The record being written is the last one.
LEMMA AllHeadsGrow ==
  ASSUME NEW fl \in Seq(Cells), NEW f2, NEW n, NEW ty \in Types, NEW ln \in Nat, NEW rc \in Nat,
         NEW fr \in Nat, Written(fl, f2, n, ty, ln, rc, fr),
         NEW ls, AllHeads(fl, ls), Len(ls) \in Nat, rc = Len(ls), rc >= 1,
         EndingType(ty) => ln >= 1,
         \A h \in Heads(fl) : Ending(fl, h) => Rec(fl, h) < rc
  PROVE  AllHeads(f2, ls)
<1>1. ASSUME NEW h \in Heads(f2)
      PROVE  Rec(f2, h) \in 1..Len(ls) /\ (Ending(f2, h) => Size(f2, h) >= 1)
  <2>1. CASE h \in Heads(fl)
    <3>1. SameHead(fl, f2, h)
      BY <2>1, WrittenHeads
    <3>2. Rec(fl, h) \in 1..Len(ls) /\ (Ending(fl, h) => Size(fl, h) >= 1)
      BY <2>1 DEF AllHeads
    <3> QED
      BY <3>1, <3>2 DEF SameHead
  <2>2. CASE h = n
    <3>1. Rec(f2, n) = rc /\ Size(f2, n) = ln
      BY WrittenHeads
    <3>2. Ending(f2, n) <=> EndingType(ty)
      BY WrittenHeads
    <3> QED
      BY <2>2, <3>1, <3>2
  <2>3. h \in Heads(fl) \/ h = n
    BY WrittenHeads
  <2> QED
    BY <2>1, <2>2, <2>3
<1>2. ASSUME NEW h \in Heads(f2), NEW q \in Heads(f2), h < q
      PROVE  Rec(f2, h) <= Rec(f2, q) /\ (Ending(f2, h) => Rec(f2, h) < Rec(f2, q))
  <2>1. n \in Heads(f2) /\ f2 \in Seq(Cells)
    BY WrittenHeads
  <2>2. h \in Nat /\ q \in Nat /\ n \in Nat
    BY <2>1, HeadsAre
  <2>3. CASE q = n
    <3>0. h # n
      BY <1>2, <2>2, <2>3
    <3>1. h \in Heads(fl) /\ SameHead(fl, f2, h)
      BY <3>0, WrittenHeads
    <3>2. Rec(fl, h) \in 1..Len(ls) /\ (Ending(fl, h) => Rec(fl, h) < rc)
      BY <3>1 DEF AllHeads
    <3>3. Rec(f2, q) = rc
      BY <2>3, WrittenHeads
    <3> QED
      BY <3>1, <3>2, <3>3 DEF SameHead
  <2>4. CASE q # n
    <3>1. q \in Heads(fl) /\ SameHead(fl, f2, q) /\ q < n
      BY <2>4, WrittenHeads
    <3>0. h # n
      BY <1>2, <2>2, <3>1
    <3>2. h \in Heads(fl) /\ SameHead(fl, f2, h)
      BY <3>0, WrittenHeads
    <3>3. Rec(fl, h) <= Rec(fl, q) /\ (Ending(fl, h) => Rec(fl, h) < Rec(fl, q))
      BY <3>1, <3>2, <1>2 DEF AllHeads, InOrder
    <3> QED
      BY <3>1, <3>2, <3>3 DEF SameHead
  <2> QED
    BY <2>3, <2>4
<1> QED
  BY <1>1, <1>2 DEF AllHeads, InOrder

\* The conditions under which a whole fragment keeps the file sound.  es and e2 are the
\* ends of the records before and after.
Fits(fl, f2, n, ty, ln, rc, fr, es, e2, ls) ==
  /\ Len(f2) = n + HeadSize + ln
  /\ \E b \in Bases : b <= n /\ Len(f2) <= b + BlockSize
  /\ \A b \in Bases : Len(fl) <= b /\ b < Len(f2) => b = n
  /\ \A b \in Bases : b < Len(fl) /\ Len(fl) + HeadSize <= b + BlockSize => n = Len(fl)
  /\ \A h \in Heads(fl) : End(fl, h) <= Len(fl)
  /\ \A h \in Heads(fl) : Ending(fl, h) => Rec(fl, h) < rc
  /\ \A r \in 1..Len(ls) : es[r] \in 0..Len(fl) /\ (es[r] = 0 => r = rc)
  /\ BeginningType(ty) => fr = 0
  /\ ~BeginningType(ty) => GoesOn(fl, rc, fr)
  /\ EndingType(ty) => fr + ln = ls[rc] /\ e2[rc] = Len(f2)
  /\ ~EndingType(ty) => e2[rc] = 0
  /\ \A r \in 1..Len(ls) : r # rc => e2[r] = es[r]

LEMMA SoundGrows ==
  ASSUME NEW fl \in Seq(Cells), NEW f2, NEW n, NEW ty \in Types, NEW ln \in Nat, NEW rc \in Nat,
         NEW fr \in Nat, Written(fl, f2, n, ty, ln, rc, fr),
         NEW es, NEW e2, NEW ls, AllHeads(fl, ls), Len(ls) \in Nat, rc = Len(ls), rc >= 1,
         SoundFile(fl, Len(fl), es, ls), Fits(fl, f2, n, ty, ln, rc, fr, es, e2, ls)
  PROVE  SoundFile(f2, Len(f2), e2, ls)
<1>1. /\ f2 \in Seq(Cells)
      /\ n \in Heads(f2)
      /\ n \in Nat
      /\ Len(fl) \in Nat
      /\ Len(f2) \in Nat
      /\ Len(fl) <= n
      /\ Len(f2) = n + HeadSize + ln
      /\ End(f2, n) = Len(f2)
      /\ n < Len(f2)
      /\ Agree(fl, f2, Len(fl))
  <2>1. f2 \in Seq(Cells) /\ n \in Heads(f2) /\ Size(f2, n) = ln
    BY WrittenHeads
  <2>2. n \in Nat /\ End(f2, n) = n + HeadSize + Size(f2, n) /\ n < Len(f2)
    BY <2>1, HeadsAre
  <2>3. Len(f2) = n + HeadSize + ln
    BY DEF Fits
  <2>4. Len(fl) <= n /\ Agree(fl, f2, Len(fl))
    BY DEF Written
  <2>5. Len(fl) \in Nat /\ Len(f2) \in Nat
    BY <2>1
  <2> QED
    BY <2>1, <2>2, <2>3, <2>4, <2>5
<1>2. ASSUME NEW h \in Heads(fl)
      PROVE  /\ h \in Nat
             /\ h \in Heads(f2)
             /\ h < n
             /\ h < Len(fl)
             /\ SameHead(fl, f2, h)
             /\ End(fl, h) \in Nat
             /\ End(fl, h) <= Len(fl)
             /\ Size(fl, h) \in Nat
  BY HeadsAre, WrittenHeads DEF Fits
<1>3. \A h \in Heads(f2) : h \in Heads(fl) \/ h = n
  BY WrittenHeads
<1>4. ASSUME NEW h \in Heads(fl)
      PROVE  /\ InBlock(f2, h)
             /\ Truthful(f2, h, e2, ls)
             /\ Body(f2, h, Len(f2))
             /\ ~Beginning(f2, h) => HasFirst(f2, h)
  <2>1. /\ InBlock(fl, h)
        /\ Truthful(fl, h, es, ls)
        /\ Body(fl, h, Len(fl))
        /\ ~Beginning(fl, h) => HasFirst(fl, h)
    BY <1>2 DEF SoundFile, HeadsOk
  <2>2. InBlock(f2, h)
    BY <2>1, <1>2 DEF InBlock, SameHead
  <2>3. Truthful(f2, h, e2, ls)
    <3>1. Rec(fl, h) \in 1..Len(ls)
      BY DEF AllHeads
    <3>2. Rec(fl, h) > 1 => Rec(fl, h) - 1 \in 1..Len(ls) /\ Rec(fl, h) - 1 # rc
      BY <3>1
    <3>3. Rec(fl, h) > 1 => e2[Rec(fl, h) - 1] = es[Rec(fl, h) - 1]
      BY <3>2 DEF Fits
    <3>4. CASE Rec(fl, h) # rc
      <4>1. e2[Rec(fl, h)] = es[Rec(fl, h)]
        BY <3>1, <3>4 DEF Fits
      <4> QED
        BY <2>1, <3>3, <4>1, <1>2 DEF Truthful, SameHead
    <3>5. CASE Rec(fl, h) = rc
      <4>1. ~Ending(fl, h)
        BY <3>1, <3>5 DEF Fits
      <4>2. e2[rc] = 0 \/ e2[rc] = Len(f2)
        BY DEF Fits
      <4>3. End(fl, h) < Len(f2)
        BY <1>1, <1>2
      <4> QED
        BY <2>1, <3>3, <3>5, <4>1, <4>2, <4>3, <1>2 DEF Truthful, SameHead
    <3> QED
      BY <3>4, <3>5
  <2>4. Body(f2, h, Len(f2))
    <3>1. Body(f2, h, Len(fl))
      BY <2>1, <1>1, <1>2, AgreeBody
    <3>2. h + HeadSize + Size(f2, h) <= Len(fl) /\ Size(f2, h) \in Nat
      BY <1>2, HeadsAre DEF SameHead
    <3>3. ASSUME NEW i \in 2..HeadSize
          PROVE  f2[h + i] = Rest
      <4>1. h + i <= Len(fl)
        BY <3>2, <1>1, <1>2, Sizes
      <4> QED
        BY <4>1, <3>1 DEF Body
    <3>4. ASSUME NEW i \in 1..Size(f2, h)
          PROVE  f2[h + HeadSize + i] = Byte(Rec(f2, h), Off(f2, h) + i)
      <4>1. h + HeadSize + i <= Len(fl)
        BY <3>2, <1>1, <1>2, Sizes
      <4> QED
        BY <4>1, <3>1 DEF Body
    <3> QED
      BY <3>3, <3>4 DEF Body
  <2>5. ~Beginning(f2, h) => HasFirst(f2, h)
    BY <2>1, <1>1, <1>2, AgreeHasFirst DEF SameHead
  <2> QED
    BY <2>2, <2>3, <2>4, <2>5
<1>5. /\ InBlock(f2, n)
      /\ Truthful(f2, n, e2, ls)
      /\ Body(f2, n, Len(f2))
      /\ ~Beginning(f2, n) => HasFirst(f2, n)
  <2>0. Rec(f2, n) = rc /\ Off(f2, n) = fr /\ Size(f2, n) = ln
        /\ (Ending(f2, n) <=> EndingType(ty)) /\ (Beginning(f2, n) <=> BeginningType(ty))
    BY WrittenHeads
  <2>1. InBlock(f2, n)
    BY <1>1 DEF InBlock, Fits
  <2>2. Truthful(f2, n, e2, ls)
    <3>1. rc > 1 => e2[rc - 1] \in 1..n
      <4>1. ASSUME rc > 1
            PROVE  e2[rc - 1] \in 1..n
        <5>1. rc - 1 \in 1..Len(ls) /\ rc - 1 # rc
          BY <4>1
        <5>2. e2[rc - 1] = es[rc - 1]
          BY <5>1 DEF Fits
        <5>3. es[rc - 1] \in 0..Len(fl) /\ es[rc - 1] # 0
          BY <5>1 DEF Fits
        <5> QED
          BY <5>2, <5>3, <1>1
      <4> QED
        BY <4>1
    <3>2. BeginningType(ty) => fr = 0
      BY DEF Fits
    <3>3. EndingType(ty) => fr + ln = ls[rc] /\ e2[rc] = Len(f2)
      BY DEF Fits
    <3>4. ~EndingType(ty) => e2[rc] = 0
      BY DEF Fits
    <3> QED
      BY <2>0, <3>1, <3>2, <3>3, <3>4, <1>1 DEF Truthful
  <2>3. Body(f2, n, Len(f2))
    BY WrittenHeads
  <2>4. ASSUME ~Beginning(f2, n)
        PROVE  HasFirst(f2, n)
    <3>1. GoesOn(fl, rc, fr)
      BY <2>0, <2>4 DEF Fits
    <3>2. PICK h \in Heads(fl) : /\ NoHeads(fl, h + 1, Len(fl))
                                 /\ ~Ending(fl, h)
                                 /\ Rec(fl, h) = rc
                                 /\ Off(fl, h) + Size(fl, h) = fr
      BY <3>1 DEF GoesOn
    <3>3. h \in Heads(f2) /\ h < n /\ SameHead(fl, f2, h)
      BY <1>2
    <3>4. NoHeads(f2, h + 1, n)
      <4> SUFFICES ASSUME NEW q \in Heads(f2), h + 1 <= q, q < n
                   PROVE  FALSE
        BY DEF NoHeads
      <4>1. q \in Heads(fl)
        BY <1>1, <1>3
      <4>2. q < Len(fl)
        BY <4>1, <1>2
      <4> QED
        BY <3>2, <4>1, <4>2 DEF NoHeads
    <3>5. Continues(f2, h, n)
      BY <2>0, <3>2, <3>3 DEF Continues, SameHead
    <3> QED
      BY <3>3, <3>4, <3>5 DEF HasFirst
  <2> QED
    BY <2>1, <2>2, <2>3, <2>4
<1>6. HeadsOk(f2, Len(f2), e2, ls)
  BY <1>3, <1>4, <1>5 DEF HeadsOk
<1>7. Starts(f2, Len(f2))
  <2> SUFFICES ASSUME NEW b \in Bases, b < Len(f2)
               PROVE  b \in Heads(f2)
    BY DEF Starts
  <2>0. b \in Nat
    BY BasesAre
  <2>1. CASE b < Len(fl)
    BY <2>1, <1>2 DEF SoundFile, Starts
  <2>2. CASE Len(fl) <= b
    BY <2>2, <1>1 DEF Fits
  <2> QED
    BY <2>0, <2>1, <2>2, <1>1
<1>8. Follows(f2, Len(f2))
  <2> SUFFICES ASSUME NEW h \in Heads(f2), NEW b \in Bases,
                      b <= h, End(f2, h) + HeadSize <= b + BlockSize, End(f2, h) < Len(f2)
               PROVE  End(f2, h) \in Heads(f2)
    BY DEF Follows
  <2>1. h \in Heads(fl)
    BY <1>1, <1>3
  <2>2. End(f2, h) = End(fl, h) /\ End(fl, h) \in Nat /\ End(fl, h) <= Len(fl) /\ h \in Nat /\ h < Len(fl)
    BY <2>1, <1>2 DEF SameHead
  <2>3. CASE End(fl, h) < Len(fl)
    <3>1. End(fl, h) \in Heads(fl)
      BY <2>1, <2>2, <2>3 DEF SoundFile, Follows
    <3> QED
      BY <3>1, <2>2, <1>2
  <2>4. CASE End(fl, h) = Len(fl)
    <3>1. b \in Nat /\ b < Len(fl)
      BY <2>2, <1>1, BasesAre
    <3>2. n = Len(fl)
      BY <2>2, <2>4, <3>1 DEF Fits
    <3> QED
      BY <2>2, <2>4, <3>2, <1>1
  <2> QED
    BY <2>2, <2>3, <2>4, <1>1
<1>9. EndsAre(f2, Len(f2), e2, ls)
  <2> SUFFICES ASSUME NEW r \in 1..Len(ls), e2[r] \in 1..Len(f2)
               PROVE  \E h \in Heads(f2) : Rec(f2, h) = r /\ Ending(f2, h) /\ End(f2, h) = e2[r]
    BY DEF EndsAre
  <2>1. CASE r = rc
    <3>1. EndingType(ty) /\ e2[rc] = Len(f2)
      BY <2>1 DEF Fits
    <3>2. Rec(f2, n) = rc /\ Ending(f2, n)
      BY <3>1, WrittenHeads
    <3> QED
      BY <2>1, <3>1, <3>2, <1>1
  <2>2. CASE r # rc
    <3>1. e2[r] = es[r] /\ es[r] \in 1..Len(fl)
      BY <2>2, <1>1 DEF Fits
    <3>2. PICK h \in Heads(fl) : Rec(fl, h) = r /\ Ending(fl, h) /\ End(fl, h) = es[r]
      BY <3>1 DEF SoundFile, EndsAre
    <3> QED
      BY <3>1, <3>2, <1>2 DEF SameHead
  <2> QED
    BY <2>1, <2>2
<1> QED
  BY <1>6, <1>7, <1>8, <1>9 DEF SoundFile

\* Records es, ls and e2, l2 are the same as far as the sound part tells of them.
SameRecords(fl, s, es, ls, e2, l2) ==
  /\ \A h \in Heads(fl) : h < s =>
       /\ Rec(fl, h) \in 1..Len(ls)
       /\ l2[Rec(fl, h)] = ls[Rec(fl, h)]
       /\ e2[Rec(fl, h)] = es[Rec(fl, h)]
       /\ Rec(fl, h) > 1 => e2[Rec(fl, h) - 1] = es[Rec(fl, h) - 1]
  /\ \A r \in 1..Len(l2) : e2[r] \in 1..s => r \in 1..Len(ls) /\ es[r] = e2[r]

LEMMA SoundOfRecords ==
  ASSUME NEW fl, NEW s, NEW es, NEW ls, NEW e2, NEW l2,
         SoundFile(fl, s, es, ls), SameRecords(fl, s, es, ls, e2, l2)
  PROVE  SoundFile(fl, s, e2, l2)
<1>1. ASSUME NEW h \in Heads(fl), h < s
      PROVE  /\ InBlock(fl, h)
             /\ Truthful(fl, h, e2, l2)
             /\ Body(fl, h, s)
             /\ ~Beginning(fl, h) => HasFirst(fl, h)
  <2>1. /\ InBlock(fl, h)
        /\ Truthful(fl, h, es, ls)
        /\ Body(fl, h, s)
        /\ ~Beginning(fl, h) => HasFirst(fl, h)
    BY <1>1 DEF SoundFile, HeadsOk
  <2>2. /\ l2[Rec(fl, h)] = ls[Rec(fl, h)]
        /\ e2[Rec(fl, h)] = es[Rec(fl, h)]
        /\ Rec(fl, h) > 1 => e2[Rec(fl, h) - 1] = es[Rec(fl, h) - 1]
    BY <1>1 DEF SameRecords
  <2>3. Truthful(fl, h, e2, l2)
    BY <2>1, <2>2 DEF Truthful
  <2> QED
    BY <2>1, <2>3
<1>2. HeadsOk(fl, s, e2, l2)
  BY <1>1 DEF HeadsOk
<1>3. EndsAre(fl, s, e2, l2)
  <2> SUFFICES ASSUME NEW r \in 1..Len(l2), e2[r] \in 1..s
               PROVE  \E h \in Heads(fl) : Rec(fl, h) = r /\ Ending(fl, h) /\ End(fl, h) = e2[r]
    BY DEF EndsAre
  <2>1. r \in 1..Len(ls) /\ es[r] = e2[r]
    BY DEF SameRecords
  <2> QED
    BY <2>1 DEF SoundFile, EndsAre
<1> QED
  BY <1>2, <1>3 DEF SoundFile

----------------------------------------------------------------------------
(* log::Writer keeps the invariant.                                        *)

LEMMA InitOk ==
  ASSUME LogInit
  PROVE  IInv
<1>1. file = <<>> /\ Len(file) = 0 /\ Heads(file) = {}
  BY DEF LogInit, Heads
<1>2. TypeOK
  <2>1. slice \in Slices
    BY DEF LogInit, Idle, Slices
  <2>2. file \in Seq(Cells) /\ buffer \in Seq(Cells) /\ records \in Seq(Seq(Cells))
    BY DEF LogInit
  <2>3. lens \in Seq(Nat \ {0}) /\ ends \in Seq(Nat) /\ Len(ends) = Len(lens)
    BY DEF LogInit
  <2>4. block_offset_ \in 0..BlockSize
    BY Sizes DEF LogInit
  <2> QED
    BY <2>1, <2>2, <2>3, <2>4 DEF LogInit, TypeOK
<1>3. Sound = 0
  BY <1>1 DEF Sound, LogInit
<1>4. FileInv
  <2>1. AllHeads(file, lens)
    BY <1>1 DEF AllHeads, InOrder
  <2>2. HeadsOk(file, Sound, ends, lens) /\ Follows(file, Sound)
    BY <1>1 DEF HeadsOk, Follows
  <2>3. Starts(file, Sound)
    BY <1>3, BasesAre DEF Starts
  <2>4. EndsAre(file, Sound, ends, lens)
    BY <1>3 DEF EndsAre, LogInit
  <2> QED
    BY <2>1, <2>2, <2>3, <2>4 DEF FileInv, SoundFile
<1>5. WriterInv
  <2>1. AppendInv
    <3>1. \E b \in Bases : Len(file) = b + block_offset_
      BY <1>1, BasesAre DEF LogInit
    <3>2. Len(lens) = 0
      BY DEF LogInit
    <3> QED
      BY <1>1, <3>1, <3>2 DEF AppendInv
  <2>2. SliceInv
    BY DEF SliceInv, LogInit
  <2> QED
    BY <2>1, <2>2 DEF WriterInv, LogInit
<1>6. ReaderInv
  BY DEF ReaderInv, LogInit
<1> QED
  BY <1>2, <1>4, <1>5, <1>6 DEF IInv

LEMMA SoundIs ==
  ASSUME TypeOK
  PROVE  /\ Sound \in Nat
         /\ Sound <= Len(file)
         /\ Len(file) \in Nat
         /\ broken = NoFault => Sound = Len(file)
         /\ broken # NoFault => Sound <= broken
         /\ broken # NoFault /\ broken <= Len(file) => Sound = broken
BY DEF TypeOK, Sound, NoFault

LEMMA AddRecordOk ==
  ASSUME IInv, NEW n \in 1..MaxRecord, AddRecord(n)
  PROVE  IInv'
<1> USE DEF IInv
<1>1. /\ ~reading
      /\ slice = Idle
      /\ slice' = [rec |-> Len(lens) + 1, from |-> 0, remain |-> n, begin |-> TRUE]
      /\ lens' = Append(lens, n)
      /\ ends' = Append(ends, 0)
      /\ file' = file /\ block_offset_' = block_offset_ /\ broken' = broken /\ damaged' = damaged
      /\ reading' = reading
      /\ lo' = lo /\ hi' = hi /\ eof_' = eof_ /\ buffer' = buffer /\ records' = records
  BY DEF AddRecord, readerVars
<1>2. n \in Nat \ {0}
  BY LogAssumption
<1>3. /\ lens \in Seq(Nat \ {0})
      /\ ends \in Seq(Nat)
      /\ Len(ends) = Len(lens)
      /\ Len(lens) \in Nat
      /\ file \in Seq(Cells)
  BY DEF TypeOK
<1>4. /\ lens' \in Seq(Nat \ {0})
      /\ ends' \in Seq(Nat)
      /\ Len(ends') = Len(lens')
      /\ Len(lens') = Len(lens) + 1
      /\ \A r \in 1..Len(lens) : lens'[r] = lens[r] /\ ends'[r] = ends[r]
      /\ lens'[Len(lens) + 1] = n
      /\ ends'[Len(lens) + 1] = 0
  BY <1>1, <1>2, <1>3
<1>5. /\ slice' \in Slices
      /\ slice' # Idle
      /\ slice'.rec = Len(lens) + 1
      /\ slice'.from = 0
      /\ slice'.remain = n
      /\ slice'.begin = TRUE
  BY <1>1, <1>2, <1>3 DEF Slices, Idle
<1>6. TypeOK'
  BY <1>1, <1>4, <1>5 DEF TypeOK
<1>7. Sound' = Sound
  BY <1>1 DEF Sound
<1>8. ASSUME NEW h \in Heads(file)
      PROVE  Rec(file, h) \in 1..Len(lens)
  BY DEF FileInv, AllHeads
<1>9. FileInv'
  <2>1. AllHeads(file, lens')
    BY <1>3, <1>4 DEF FileInv, AllHeads
  <2>2. SameRecords(file, Sound, ends, lens, ends', lens')
    <3>1. ASSUME NEW h \in Heads(file)
          PROVE  /\ Rec(file, h) \in 1..Len(lens)
                 /\ lens'[Rec(file, h)] = lens[Rec(file, h)]
                 /\ ends'[Rec(file, h)] = ends[Rec(file, h)]
                 /\ Rec(file, h) > 1 => ends'[Rec(file, h) - 1] = ends[Rec(file, h) - 1]
      <4>1. PICK r \in 1..Len(lens) : r = Rec(file, h)
        BY <1>8
      <4>2. r > 1 => r - 1 \in 1..Len(lens)
        BY <1>3
      <4> QED
        BY <4>1, <4>2, <1>4
    <3>2. ASSUME NEW r \in 1..Len(lens'), ends'[r] \in 1..Sound
          PROVE  r \in 1..Len(lens) /\ ends[r] = ends'[r]
      <4>1. r # Len(lens) + 1
        BY <3>2, <1>4
      <4>2. r \in 1..Len(lens)
        BY <4>1, <1>3, <1>4
      <4> QED
        BY <4>2, <1>4
    <3> QED
      BY <3>1, <3>2 DEF SameRecords
  <2>3. SoundFile(file, Sound, ends', lens')
    BY <2>2, SoundOfRecords DEF FileInv
  <2> QED
    BY <2>1, <2>3, <1>1, <1>7 DEF FileInv
<1>10. WriterInv'
  <2>1. SliceInv'
    <3>1. ASSUME NEW h \in Heads(file')
          PROVE  Rec(file', h) < slice'.rec
      BY <1>1, <1>3, <1>5, <1>8
    <3> QED
      BY <1>2, <1>4, <1>5, <3>1 DEF SliceInv
  <2>2. ASSUME broken = NoFault
        PROVE  AppendInv'
    <3>1. AppendInv
      BY <1>1, <2>2 DEF WriterInv
    <3>2. ASSUME NEW r \in 1..Len(lens')
          PROVE  ends'[r] \in 0..Len(file) /\ (ends'[r] = 0 => r = Len(lens'))
      <4>1. CASE r = Len(lens) + 1
        BY <4>1, <1>3, <1>4
      <4>2. CASE r # Len(lens) + 1
        <5>1. r \in 1..Len(lens)
          BY <4>2, <1>3, <1>4
        <5>2. ends[r] \in 0..Len(file) /\ ends[r] # 0
          BY <5>1, <3>1, <1>1 DEF AppendInv
        <5> QED
          BY <5>1, <5>2, <1>4
      <4> QED
        BY <4>1, <4>2
    <3>3. (\E b \in Bases : Len(file) = b + block_offset_) /\ \A h \in Heads(file) : End(file, h) <= Len(file)
      BY <3>1 DEF AppendInv
    <3> QED
      BY <3>2, <3>3, <1>1, <1>5 DEF AppendInv
  <2> QED
    BY <2>1, <2>2, <1>1 DEF WriterInv
<1>11. ReaderInv'
  BY <1>1 DEF ReaderInv
<1> QED
  BY <1>6, <1>9, <1>10, <1>11

LEMMA FragmentTypeIs ==
  ASSUME NEW bg \in BOOLEAN, NEW en \in BOOLEAN
  PROVE  /\ FragmentType(bg, en) \in Types
         /\ EndingType(FragmentType(bg, en)) <=> en
         /\ BeginningType(FragmentType(bg, en)) <=> bg
<1>1. CASE bg /\ en
  BY <1>1 DEF FragmentType, Types, EndingType, BeginningType
<1>2. CASE bg /\ ~en
  BY <1>2 DEF FragmentType, Types, EndingType, BeginningType
<1>3. CASE ~bg /\ en
  BY <1>3 DEF FragmentType, Types, EndingType, BeginningType
<1>4. CASE ~bg /\ ~en
  BY <1>4 DEF FragmentType, Types, EndingType, BeginningType
<1> QED
  BY <1>1, <1>2, <1>3, <1>4

\* The numbers of one turn of AddRecord's loop: p bytes of padding, then a header at
\* offset o of its block and ln bytes; ty is the type in the header.
Turn(p, o, ln, ty) ==
  /\ p \in Nat /\ o \in Nat /\ ln \in Nat /\ ty \in Types
  /\ BlockSize - block_offset_ < HeadSize => p = BlockSize - block_offset_ /\ o = 0
  /\ BlockSize - block_offset_ >= HeadSize => p = 0 /\ o = block_offset_
  /\ o + HeadSize + ln <= BlockSize
  /\ ln <= slice.remain
  /\ ln < slice.remain => o + HeadSize + ln = BlockSize
  /\ EndingType(ty) <=> ln = slice.remain
  /\ BeginningType(ty) <=> slice.begin

Succeeds(p, ln, ty) ==
  /\ file' = FragmentOf(file, p, ty, ln, slice.rec, slice.from)
  /\ slice' = IF ln = slice.remain THEN Idle
              ELSE [slice EXCEPT !.from = @ + ln, !.remain = @ - ln, !.begin = FALSE]
  /\ ends' = IF ln = slice.remain THEN [ends EXCEPT ![slice.rec] = Len(file')] ELSE ends
  /\ broken' = broken

Fails(p, ln, ty) ==
  /\ broken = NoFault
  /\ LET whole == FragmentOf(file, p, ty, ln, slice.rec, slice.from)
     IN  \E n \in Len(file)..Len(whole) - 1 : file' = SubSeq(whole, 1, n)
  /\ broken' = Len(file)
  /\ slice' = Idle
  /\ ends' = ends

LEMMA WriteFragmentIs ==
  ASSUME TypeOK, WriteFragment
  PROVE  \E p, o, ln, ty :
           /\ Turn(p, o, ln, ty)
           /\ block_offset_' = o + HeadSize + ln
           /\ Succeeds(p, ln, ty) \/ Fails(p, ln, ty)
<1>1. PICK left : left = BlockSize - block_offset_
  OBVIOUS
<1>2. block_offset_ \in Nat /\ block_offset_ <= BlockSize /\ left \in Nat
      /\ slice.remain \in Nat /\ slice.begin \in BOOLEAN /\ slice.rec \in Nat /\ slice.from \in Nat
  BY <1>1, Sizes DEF TypeOK, Slices
<1>3. PICK p : p = Padding(left)
  OBVIOUS
<1>4. PICK o : o = BlockStart(left)
  OBVIOUS
<1>5. /\ p \in Nat /\ o \in Nat
      /\ left < HeadSize => p = left /\ o = 0
      /\ left >= HeadSize => p = 0 /\ o = block_offset_
      /\ o + HeadSize <= BlockSize
  BY <1>1, <1>2, <1>3, <1>4, Sizes DEF Padding, BlockStart
<1>6. PICK ln : ln = FragmentLength(o)
  OBVIOUS
<1>7. /\ ln \in Nat
      /\ o + HeadSize + ln <= BlockSize
      /\ ln <= slice.remain
      /\ ln < slice.remain => o + HeadSize + ln = BlockSize
  BY <1>2, <1>5, <1>6, Sizes DEF FragmentLength
<1>8. PICK en \in BOOLEAN : en <=> ln = slice.remain
  <2>1. (ln = slice.remain) \in BOOLEAN
    OBVIOUS
  <2> QED
    BY <2>1
<1>9. PICK bg \in BOOLEAN : bg = slice.begin
  BY <1>2
<1>10. PICK ty : ty = FragmentType(bg, en)
  OBVIOUS
<1>11. ty \in Types /\ (EndingType(ty) <=> en) /\ (BeginningType(ty) <=> bg)
  BY <1>10, FragmentTypeIs
<1>12. Turn(p, o, ln, ty)
  BY ONLY <1>1, <1>5, <1>7, <1>8, <1>9, <1>11 DEF Turn
<1>13. ty = FragmentType(slice.begin, slice.remain = ln)
  BY <1>8, <1>9, <1>10 DEF FragmentType
<1>14. PICK hd : hd = <<Header(ty, ln, slice.rec, slice.from)>> \o Times(Rest, HeadSize - 1)
  OBVIOUS
<1>15. PICK bs : bs = Payload(slice.rec, slice.from, ln)
  OBVIOUS
<1>16. PICK pd : pd = Times(Pad, p)
  OBVIOUS
<1>17. PICK wh : wh = ((file \o pd) \o hd) \o bs
  OBVIOUS
<1>18. /\ block_offset_' = o + HeadSize + ln
       /\ \/ /\ file' = wh
             /\ slice' = IF slice.remain = ln THEN Idle
                         ELSE [slice EXCEPT !.from = @ + ln, !.remain = @ - ln, !.begin = FALSE]
             /\ ends' = IF slice.remain = ln THEN [ends EXCEPT ![slice.rec] = Len(file')] ELSE ends
             /\ broken' = broken
          \/ /\ broken = NoFault
             /\ \E n \in Len(file)..Len(wh) - 1 : file' = SubSeq(wh, 1, n)
             /\ broken' = Len(file)
             /\ slice' = Idle
             /\ ends' = ends
  BY ONLY WriteFragment, <1>1, <1>3, <1>4, <1>6, <1>13, <1>14, <1>15, <1>16, <1>17 DEF WriteFragment
<1>19. wh = FragmentOf(file, p, ty, ln, slice.rec, slice.from)
  BY ONLY <1>14, <1>15, <1>16, <1>17 DEF FragmentOf
<1>20. Succeeds(p, ln, ty) \/ Fails(p, ln, ty)
  BY ONLY <1>18, <1>19 DEF Succeeds, Fails
<1> QED
  BY ONLY <1>12, <1>18, <1>20

\* What SliceInv says of the record in progress, and where its next header goes.
LEMMA Writing ==
  ASSUME IInv, ~reading, slice # Idle
  PROVE  /\ slice.rec \in Nat
         /\ slice.from \in Nat
         /\ slice.remain \in Nat
         /\ slice.begin \in BOOLEAN
         /\ slice.rec = Len(lens)
         /\ Len(lens) \in Nat
         /\ slice.rec >= 1
         /\ ends[slice.rec] = 0
         /\ slice.remain >= 1
         /\ slice.from + slice.remain = lens[slice.rec]
         /\ slice.begin => slice.from = 0
         /\ ~slice.begin => block_offset_ = BlockSize
         /\ ~slice.begin /\ broken = NoFault => GoesOn(file, slice.rec, slice.from)
         /\ \A h \in Heads(file) : Ending(file, h) => Rec(file, h) < slice.rec
         /\ \A h \in Heads(file) : broken # NoFault /\ h < broken => Rec(file, h) < slice.rec
<1>1. SliceInv
  BY DEF IInv, WriterInv
<1>2. slice.rec \in Nat /\ slice.from \in Nat /\ slice.remain \in Nat /\ slice.begin \in BOOLEAN
  BY DEF IInv, TypeOK, Slices
<1>3. Len(lens) \in Nat
  BY DEF IInv, TypeOK
<1> QED
  BY <1>1, <1>2, <1>3 DEF SliceInv

\* Where the fragment comes to lie.
LEMMA TurnPlace ==
  ASSUME IInv, ~reading, slice # Idle, broken = NoFault,
         NEW p, NEW o, NEW ln, NEW ty, Turn(p, o, ln, ty), NEW n, n = Len(file) + p
  PROVE  /\ \E b \in Bases : n = b + o
         /\ \A b \in Bases : Len(file) <= b /\ b < n + HeadSize + ln => b = n
         /\ \A b \in Bases : b < Len(file) /\ Len(file) + HeadSize <= b + BlockSize => n = Len(file)
<1>1. PICK k \in Bases : Len(file) = k + block_offset_
  BY DEF IInv, WriterInv, AppendInv
<1>2. k \in Nat /\ block_offset_ \in Nat /\ block_offset_ <= BlockSize
  BY BasesAre DEF IInv, TypeOK
<1>3. p \in Nat /\ o \in Nat /\ ln \in Nat /\ o + HeadSize + ln <= BlockSize
  BY DEF Turn
<1>4. CASE BlockSize - block_offset_ < HeadSize
  <2>1. p = BlockSize - block_offset_ /\ o = 0
    BY <1>4 DEF Turn
  <2>2. n = k + BlockSize
    BY <2>1, <1>1, <1>2, Sizes
  <2>3. n \in Bases
    BY <2>2, BasesAre
  <2>4. ASSUME NEW b \in Bases, Len(file) <= b, b < n + HeadSize + ln
        PROVE  b = n
    <3>1. b \in Nat
      BY BasesAre
    <3>2. k < b
      BY <2>4, <3>1, <1>1, <1>2, <1>4, Sizes
    <3>3. k + BlockSize <= b
      BY <3>2, NextBase
    <3>4. b < n + BlockSize
      BY <2>4, <3>1, <2>1, <2>2, <1>2, <1>3, Sizes
    <3> QED
      BY <3>1, <3>3, <3>4, <2>2, <2>3, <1>2, Sizes, OneBlock
  <2>5. ASSUME NEW b \in Bases, b < Len(file), Len(file) + HeadSize <= b + BlockSize
        PROVE  n = Len(file)
    <3>1. b \in Nat
      BY BasesAre
    <3>2. CASE b < k
      BY <3>1, <3>2, <2>5, <1>1, <1>2, Sizes, NextBase
    <3>3. CASE k < b
      BY <3>1, <3>3, <2>5, <1>1, <1>2, Sizes, NextBase
    <3>4. CASE b = k
      BY <3>4, <2>5, <1>1, <1>2, <1>4, Sizes
    <3> QED
      BY <3>1, <3>2, <3>3, <3>4, <1>2
  <2>6. n = n + o
    BY <2>1, <2>2, <1>2, Sizes
  <2> QED
    BY <2>3, <2>4, <2>5, <2>6
<1>5. CASE BlockSize - block_offset_ >= HeadSize
  <2>1. p = 0 /\ o = block_offset_
    BY <1>5 DEF Turn
  <2>2. n = Len(file)
    BY <2>1, <1>1, <1>2
  <2>3. ASSUME NEW b \in Bases, Len(file) <= b, b < n + HeadSize + ln
        PROVE  b = n
    <3>1. b \in Nat
      BY BasesAre
    <3>2. b < k + BlockSize /\ k <= b
      BY <2>3, <3>1, <2>1, <2>2, <1>1, <1>2, <1>3, Sizes
    <3>3. b = k
      BY <3>1, <3>2, <1>2, Sizes, OneBlock
    <3> QED
      BY <3>1, <3>3, <2>2, <2>3, <1>1, <1>2
  <2> QED
    BY <2>1, <2>2, <2>3, <1>1
<1> QED
  BY <1>2, <1>4, <1>5, Sizes

LEMMA SucceedsOk ==
  ASSUME IInv, ~reading, slice # Idle, NEW p, NEW o, NEW ln, NEW ty, Turn(p, o, ln, ty),
         Succeeds(p, ln, ty), block_offset_' = o + HeadSize + ln,
         UNCHANGED <<lens, damaged, reading, lo, hi, eof_, buffer, records>>
  PROVE  IInv'
<1>1. PICK rc : rc = slice.rec
  OBVIOUS
<1>2. PICK fr : fr = slice.from
  OBVIOUS
<1>3. PICK n : n = Len(file) + p
  OBVIOUS
<1>4. /\ p \in Nat /\ o \in Nat /\ ln \in Nat /\ ty \in Types
      /\ o + HeadSize + ln <= BlockSize
      /\ ln <= slice.remain
      /\ ln < slice.remain => o + HeadSize + ln = BlockSize
      /\ EndingType(ty) <=> ln = slice.remain
      /\ BeginningType(ty) <=> slice.begin
  BY DEF Turn
<1>5. /\ rc \in Nat /\ fr \in Nat /\ slice.remain \in Nat /\ slice.begin \in BOOLEAN
      /\ rc = Len(lens) /\ Len(lens) \in Nat /\ rc >= 1
      /\ ends[rc] = 0
      /\ slice.remain >= 1
      /\ fr + slice.remain = lens[rc]
      /\ slice.begin => fr = 0
      /\ ~slice.begin /\ broken = NoFault => GoesOn(file, rc, fr)
      /\ \A h \in Heads(file) : Ending(file, h) => Rec(file, h) < rc
      /\ \A h \in Heads(file) : broken # NoFault /\ h < broken => Rec(file, h) < rc
  BY <1>1, <1>2, Writing
<1>6. file \in Seq(Cells) /\ Len(file) \in Nat /\ ends \in Seq(Nat) /\ Len(ends) = Len(lens)
  BY DEF IInv, TypeOK
<1>7. file' = FragmentOf(file, p, ty, ln, rc, fr)
  BY <1>1, <1>2 DEF Succeeds
<1>8. Written(file, file', n, ty, ln, rc, fr) /\ Len(file') = n + HeadSize + ln
  <2>1. file \in Seq(Cells) /\ p \in Nat /\ ty \in Types /\ ln \in Nat /\ rc \in Nat /\ fr \in Nat
    BY <1>4, <1>5, <1>6
  <2>2. Written(file, FragmentOf(file, p, ty, ln, rc, fr), Len(file) + p, ty, ln, rc, fr)
    BY ONLY <2>1, WrittenFragment
  <2>3. Longer(file, FragmentOf(file, p, ty, ln, rc, fr), p, ln)
    BY ONLY <2>1, WrittenFragment
  <2>4. Len(FragmentOf(file, p, ty, ln, rc, fr)) = Len(file) + p + HeadSize + ln
    BY ONLY <2>3 DEF Longer
  <2> QED
    BY ONLY <2>2, <2>4, <1>3, <1>7
<1>9. file' \in Seq(Cells) /\ n \in Nat /\ n < Len(file') /\ Len(file) <= n /\ Len(file') \in Nat
  BY <1>8 DEF Written
<1>10. NewHead(file, file', n, ty, ln, rc, fr)
  <2>1. file \in Seq(Cells) /\ ty \in Types /\ ln \in Nat /\ rc \in Nat /\ fr \in Nat
    BY ONLY <1>4, <1>5, <1>6
  <2> QED
    BY ONLY <2>1, <1>8, WrittenNewHead
<1>11. /\ ends' \in Seq(Nat)
       /\ Len(ends') = Len(lens)
       /\ EndingType(ty) => ends'[rc] = Len(file')
       /\ ~EndingType(ty) => ends'[rc] = 0
       /\ \A r \in 1..Len(lens) : r # rc => ends'[r] = ends[r]
  <2>1. CASE EndingType(ty)
    <3>1. ends' = [ends EXCEPT ![rc] = Len(file')]
      BY <2>1, <1>1, <1>4 DEF Succeeds
    <3> QED
      BY ONLY <2>1, <3>1, <1>5, <1>6, <1>9
  <2>2. CASE ~EndingType(ty)
    <3>1. ends' = ends
      BY <2>2, <1>4 DEF Succeeds
    <3> QED
      BY ONLY <2>2, <3>1, <1>5, <1>6
  <2> QED
    BY <2>1, <2>2
<1>12. /\ slice' \in Slices
       /\ EndingType(ty) => slice' = Idle
       /\ ~EndingType(ty) => /\ slice' # Idle
                             /\ slice'.rec = rc
                             /\ slice'.from = fr + ln
                             /\ slice'.remain = slice.remain - ln
                             /\ slice'.begin = FALSE
                             /\ slice.remain - ln >= 1
  <2>1. CASE EndingType(ty)
    <3>1. slice' = Idle
      BY <2>1, <1>4 DEF Succeeds
    <3> QED
      BY <2>1, <3>1 DEF Idle, Slices
  <2>2. CASE ~EndingType(ty)
    <3>1. slice' = [slice EXCEPT !.from = @ + ln, !.remain = @ - ln, !.begin = FALSE]
      BY <2>2, <1>4 DEF Succeeds
    <3>2. slice \in [rec : Nat, from : Nat, remain : Nat, begin : BOOLEAN]
      BY DEF IInv, TypeOK, Slices
    <3>3. slice.remain - ln \in Nat /\ fr + ln \in Nat /\ slice.remain - ln >= 1
      BY <2>2, <1>4, <1>5
    <3>4. /\ slice'.rec = rc
          /\ slice'.from = fr + ln
          /\ slice'.remain = slice.remain - ln
          /\ slice'.begin = FALSE
      BY ONLY <3>1, <3>2, <1>1, <1>2
    <3>5. slice' \in Slices
      BY ONLY <3>1, <3>2, <3>3, <1>2 DEF Slices
    <3>6. slice' # Idle
      BY <3>4, <1>5 DEF Idle
    <3> QED
      BY <2>2, <3>3, <3>4, <3>5, <3>6
  <2> QED
    BY <2>1, <2>2
<1>13. broken' = broken /\ broken \in Nat \cup {NoFault}
  BY DEF Succeeds, IInv, TypeOK
<1>14. TypeOK'
  <2>1. block_offset_' \in 0..BlockSize
    BY <1>4, Sizes
  <2> QED
    BY <2>1, <1>9, <1>11, <1>12, <1>13 DEF IInv, TypeOK
<1>15. AllHeads(file, lens) /\ SoundFile(file, Sound, ends, lens)
  BY DEF IInv, FileInv
<1>16. AllHeads(file', lens)
  <2>1. EndingType(ty) => ln >= 1
    BY <1>4, <1>5
  <2> QED
    BY <2>1, <1>4, <1>5, <1>6, <1>8, <1>15, AllHeadsGrow
<1>17. ASSUME broken = NoFault
       PROVE  SoundFile(file', Len(file'), ends', lens)
  <2>1. Sound = Len(file)
    BY <1>17, SoundIs DEF IInv
  <2>2. Fits(file, file', n, ty, ln, rc, fr, ends, ends', lens)
    <3>1. \E b \in Bases : b <= n /\ Len(file') <= b + BlockSize
      <4>1. PICK b \in Bases : n = b + o
        BY <1>3, <1>17, TurnPlace
      <4>2. b \in Nat
        BY BasesAre
      <4>3. b <= n /\ Len(file') <= b + BlockSize
        BY <4>1, <4>2, <1>4, <1>8, <1>9, Sizes
      <4> QED
        BY <4>3
    <3>2. \A b \in Bases : Len(file) <= b /\ b < Len(file') => b = n
      BY <1>3, <1>8, <1>17, TurnPlace
    <3>3. \A b \in Bases : b < Len(file) /\ Len(file) + HeadSize <= b + BlockSize => n = Len(file)
      BY <1>3, <1>17, TurnPlace
    <3>4. /\ \A h \in Heads(file) : End(file, h) <= Len(file)
          /\ \A r \in 1..Len(lens) : ends[r] \in 0..Len(file) /\ (ends[r] = 0 => r = rc)
      BY <1>5, <1>17 DEF IInv, WriterInv, AppendInv
    <3>5. (BeginningType(ty) => fr = 0) /\ (~BeginningType(ty) => GoesOn(file, rc, fr))
      BY <1>4, <1>5, <1>17
    <3>6. EndingType(ty) => fr + ln = lens[rc] /\ ends'[rc] = Len(file')
      BY <1>4, <1>5, <1>11
    <3> QED
      BY ONLY <3>1, <3>2, <3>3, <3>4, <3>5, <3>6, <1>5, <1>8, <1>11 DEF Fits
  <2>3. PICK f2 : f2 = file'
    OBVIOUS
  <2>4. PICK e2 : e2 = ends'
    OBVIOUS
  <2>5. SoundFile(f2, Len(f2), e2, lens)
    <3>1. Written(file, f2, n, ty, ln, rc, fr) /\ Fits(file, f2, n, ty, ln, rc, fr, ends, e2, lens)
      BY ONLY <2>2, <2>3, <2>4, <1>8
    <3>2. SoundFile(file, Len(file), ends, lens)
      BY <2>1, <1>15
    <3> QED
      BY ONLY <3>1, <3>2, <1>4, <1>5, <1>6, <1>15, SoundGrows
  <2> QED
    BY ONLY <2>3, <2>4, <2>5
<1>18. ASSUME broken # NoFault
       PROVE  /\ SoundFile(file', broken, ends', lens)
              /\ Sound' = broken
              /\ broken <= Len(file)
              /\ broken \in Nat
  <2>1. broken <= Len(file) /\ broken \in Nat
    BY <1>13, <1>18 DEF IInv, WriterInv
  <2>2. Sound = broken
    BY <2>1, <1>18, SoundIs DEF IInv
  <2>3. Sound' = broken
    BY <2>1, <1>9, <1>13, <1>18, <1>6 DEF Sound
  <2>4. SameRecords(file, broken, ends, lens, ends', lens)
    <3>1. ASSUME NEW h \in Heads(file), h < broken
          PROVE  /\ Rec(file, h) \in 1..Len(lens)
                 /\ ends'[Rec(file, h)] = ends[Rec(file, h)]
                 /\ Rec(file, h) > 1 => ends'[Rec(file, h) - 1] = ends[Rec(file, h) - 1]
      <4>1. PICK r \in 1..Len(lens) : r = Rec(file, h)
        BY <1>15 DEF AllHeads
      <4>2. r < rc
        BY <3>1, <4>1, <1>5, <1>18
      <4>3. r # rc /\ r - 1 # rc /\ (r > 1 => r - 1 \in 1..Len(lens))
        BY <4>2, <1>5
      <4> QED
        BY <4>1, <4>3, <1>11
    <3>2. ASSUME NEW r \in 1..Len(lens), ends'[r] \in 1..broken
          PROVE  ends[r] = ends'[r]
      <4>1. ends'[rc] = 0 \/ ends'[rc] = Len(file')
        BY <1>11
      <4>2. Len(file') > broken
        BY <2>1, <1>6, <1>9
      <4>3. r # rc
        BY <3>2, <4>1, <4>2, <2>1, <1>9
      <4> QED
        BY <4>3, <1>11
    <3> QED
      BY <3>1, <3>2 DEF SameRecords
  <2>5. SoundFile(file, broken, ends', lens)
    <3>1. SoundFile(file, broken, ends, lens)
      BY <2>2, <1>15
    <3> QED
      BY <2>4, <3>1, SoundOfRecords
  <2>6. Agree(file, file', broken)
    <3>1. Agree(file, file', Len(file))
      BY <1>8 DEF Written
    <3> QED
      BY ONLY <3>1, <2>1, <1>6, <1>9 DEF Agree
  <2>7. SoundFile(file', broken, ends', lens)
    BY ONLY <2>5, <2>6, <2>1, <1>6, <1>9, SoundAgrees
  <2> QED
    BY <2>1, <2>3, <2>7
<1>19. FileInv'
  <2>1. lens' = lens
    OBVIOUS
  <2>2. CASE broken = NoFault
    <3>1. Sound' = Len(file')
      BY <2>2, <1>13 DEF Sound
    <3> QED
      BY <2>1, <2>2, <3>1, <1>16, <1>17 DEF FileInv
  <2>3. CASE broken # NoFault
    BY <2>1, <2>3, <1>16, <1>18 DEF FileInv
  <2> QED
    BY <2>2, <2>3
<1>20. SliceInv'
  <2> SUFFICES ASSUME ~EndingType(ty)
               PROVE  SliceInv'
    BY <1>12 DEF SliceInv
  <2>1. /\ slice'.rec = rc /\ slice'.from = fr + ln /\ slice'.remain = slice.remain - ln
        /\ slice'.begin = FALSE /\ slice.remain - ln >= 1
    BY <1>12
  <2>2. slice'.rec = Len(lens') /\ slice'.rec >= 1 /\ ends'[slice'.rec] = 0 /\ slice'.remain >= 1
    BY <2>1, <1>5, <1>11
  <2>3. slice'.from + slice'.remain = lens'[slice'.rec]
    BY <2>1, <1>4, <1>5
  <2>4. block_offset_' = BlockSize
    BY <1>4, <1>5
  <2>5. n \in Heads(file') /\ ~Ending(file', n) /\ Rec(file', n) = rc /\ Off(file', n) = fr /\ Size(file', n) = ln
        /\ (\A h \in Heads(file') : h \in Heads(file) \/ h = n)
        /\ (\A h \in Heads(file) : h < n /\ SameHead(file, file', h))
    BY ONLY ~EndingType(ty), <1>10 DEF NewHead
  <2>6. GoesOn(file', rc, fr + ln)
    <3>1. NoHeads(file', n + 1, Len(file'))
      <4> SUFFICES ASSUME NEW h \in Heads(file'), n + 1 <= h
                   PROVE  FALSE
        BY DEF NoHeads
      <4>1. h \in Nat
        BY <1>9, HeadsAre
      <4> QED
        BY <4>1, <2>5, <1>9
    <3> QED
      BY <3>1, <2>5 DEF GoesOn
  <2>7. ASSUME NEW h \in Heads(file'), Ending(file', h) \/ (broken # NoFault /\ h < broken)
        PROVE  Rec(file', h) < rc
    <3>1. h \in Heads(file) /\ SameHead(file, file', h)
      <4>1. h # n
        BY <2>5, <2>7, <1>6, <1>9, <1>18
      <4> QED
        BY <4>1, <2>5
    <3> QED
      BY <3>1, <2>7, <1>5 DEF SameHead
  <2> QED
    BY <2>1, <2>2, <2>3, <2>4, <2>6, <2>7, <1>13 DEF SliceInv
<1>21. ASSUME broken = NoFault
       PROVE  AppendInv'
  <2>1. \E b \in Bases : Len(file') = b + block_offset_'
    <3>1. PICK b \in Bases : n = b + o
      BY <1>3, <1>21, TurnPlace
    <3>2. b \in Nat
      BY BasesAre
    <3>3. Len(file') = b + block_offset_'
      BY <3>1, <3>2, <1>4, <1>8, Sizes
    <3> QED
      BY <3>3
  <2>2. AppendInv
    BY <1>21 DEF IInv, WriterInv
  <2>3. ASSUME NEW h \in Heads(file')
        PROVE  End(file', h) <= Len(file')
    <3>1. CASE h = n
      <4>1. End(file', n) = n + HeadSize + ln
        <5>1. Size(file', n) = ln
          BY ONLY <1>10 DEF NewHead
        <5> QED
          BY ONLY <5>1 DEF End
      <4> QED
        BY <3>1, <4>1, <1>8, <1>9
    <3>2. CASE h \in Heads(file)
      <4>1. End(file', h) = End(file, h)
        <5>1. SameHead(file, file', h)
          BY ONLY <3>2, <1>10 DEF NewHead
        <5> QED
          BY ONLY <5>1 DEF SameHead
      <4>2. End(file, h) <= Len(file) /\ End(file, h) \in Nat
        BY <3>2, <2>2, <1>6, HeadsAre DEF AppendInv
      <4> QED
        BY <4>1, <4>2, <1>6, <1>9
    <3>3. h \in Heads(file) \/ h = n
      BY ONLY h \in Heads(file'), <1>10 DEF NewHead
    <3> QED
      BY <3>1, <3>2, <3>3
  <2>4. ASSUME NEW r \in 1..Len(lens)
        PROVE  /\ ends'[r] \in 0..Len(file')
               /\ ends'[r] = 0 => slice' # Idle /\ r = Len(lens)
    <3>1. CASE r = rc
      BY <3>1, <1>5, <1>9, <1>11, <1>12
    <3>2. CASE r # rc
      <4>1. ends[r] \in 0..Len(file) /\ ends[r] # 0
        BY <3>2, <2>2, <1>5 DEF AppendInv
      <4> QED
        BY <3>2, <4>1, <1>6, <1>9, <1>11
    <3> QED
      BY <3>1, <3>2
  <2> QED
    BY <2>1, <2>3, <2>4 DEF AppendInv
<1>22. WriterInv'
  <2>1. damaged' = NoFault /\ lo' = 0 /\ hi' = 0 /\ ~eof_' /\ buffer' = <<>> /\ records' = <<>>
    BY DEF IInv, WriterInv
  <2>2. broken' # NoFault => broken' <= Len(file')
    BY <1>6, <1>9, <1>13, <1>18
  <2> QED
    BY <2>1, <2>2, <1>13, <1>20, <1>21 DEF WriterInv
<1>23. ReaderInv'
  BY DEF ReaderInv
<1> QED
  BY <1>14, <1>19, <1>22, <1>23 DEF IInv

LEMMA FailsOk ==
  ASSUME IInv, ~reading, slice # Idle, NEW p, NEW o, NEW ln, NEW ty, Turn(p, o, ln, ty),
         Fails(p, ln, ty), block_offset_' = o + HeadSize + ln,
         UNCHANGED <<lens, damaged, reading, lo, hi, eof_, buffer, records>>
  PROVE  IInv'
<1>1. PICK rc : rc = slice.rec
  OBVIOUS
<1>2. PICK fr : fr = slice.from
  OBVIOUS
<1>3. PICK n : n = Len(file) + p
  OBVIOUS
<1>4. /\ p \in Nat /\ o \in Nat /\ ln \in Nat /\ ty \in Types
      /\ o + HeadSize + ln <= BlockSize
      /\ EndingType(ty) <=> ln = slice.remain
  BY DEF Turn
<1>5. /\ rc \in Nat /\ fr \in Nat /\ slice.remain \in Nat
      /\ rc = Len(lens) /\ Len(lens) \in Nat /\ rc >= 1
      /\ slice.remain >= 1
      /\ \A h \in Heads(file) : Ending(file, h) => Rec(file, h) < rc
  BY <1>1, <1>2, Writing
<1>6. file \in Seq(Cells) /\ Len(file) \in Nat
  BY DEF IInv, TypeOK
<1>7. AllHeads(file, lens) /\ SoundFile(file, Len(file), ends, lens)
  BY SoundIs DEF IInv, FileInv, Fails
<1>8. /\ file' \in Seq(Cells)
      /\ Len(file) <= Len(file')
      /\ Len(file') \in Nat
      /\ Agree(file, file', Len(file))
      /\ AllHeads(file', lens)
  <2>1. PICK wh : wh = FragmentOf(file, p, ty, ln, rc, fr)
    OBVIOUS
  <2>2. PICK m \in Len(file)..Len(wh) - 1 : file' = SubSeq(wh, 1, m)
    BY <2>1, <1>1, <1>2 DEF Fails
  <2>3. Written(file, wh, n, ty, ln, rc, fr)
    <3>1. file \in Seq(Cells) /\ p \in Nat /\ ty \in Types /\ ln \in Nat /\ rc \in Nat /\ fr \in Nat
      BY <1>4, <1>5, <1>6
    <3>2. Written(file, FragmentOf(file, p, ty, ln, rc, fr), Len(file) + p, ty, ln, rc, fr)
      BY ONLY <3>1, WrittenFragment
    <3> QED
      BY ONLY <2>1, <3>2, <1>3
  <2>4. wh \in Seq(Cells) /\ Len(wh) \in Nat /\ Agree(file, wh, Len(file))
    BY ONLY <2>3 DEF Written
  <2>5. AllHeads(wh, lens)
    <3>1. EndingType(ty) => ln >= 1
      BY <1>4, <1>5
    <3> QED
      BY ONLY <2>3, <3>1, <1>4, <1>5, <1>6, <1>7, AllHeadsGrow
  <2>6. m \in Nat /\ Len(file) <= m /\ m <= Len(wh)
    BY <2>4, <1>6
  <2>7. file' \in Seq(Cells) /\ Len(file') = m /\ \A i \in 1..m : file'[i] = wh[i]
    BY ONLY <2>2, <2>4, <2>6, SubSeqProperties
  <2>8. Agree(wh, file', m)
    BY ONLY <2>4, <2>6, <2>7 DEF Agree
  <2>9. AllHeads(file', lens)
    BY ONLY <2>4, <2>5, <2>6, <2>7, <2>8, AllHeadsOfPart
  <2>10. Agree(file, file', Len(file))
    BY ONLY <2>4, <2>6, <2>7, <1>6 DEF Agree
  <2> QED
    BY ONLY <2>6, <2>7, <2>9, <2>10
<1>9. broken' = Len(file) /\ slice' = Idle /\ ends' = ends
  BY DEF Fails
<1>10. TypeOK'
  <2>1. block_offset_' \in 0..BlockSize
    BY <1>4, Sizes
  <2>2. slice' \in Slices
    BY <1>9 DEF Idle, Slices
  <2> QED
    BY <2>1, <2>2, <1>6, <1>8, <1>9 DEF IInv, TypeOK
<1>11. Len(file) # NoFault
  BY <1>6 DEF NoFault
<1>12. FileInv'
  <2>1. Sound' = Len(file)
    BY <1>6, <1>8, <1>9, <1>11 DEF Sound
  <2>2. SoundFile(file', Len(file), ends, lens)
    BY ONLY <1>6, <1>7, <1>8, SoundAgrees
  <2> QED
    BY <2>1, <2>2, <1>8, <1>9 DEF FileInv
<1>13. WriterInv'
  <2>1. damaged' = NoFault /\ lo' = 0 /\ hi' = 0 /\ ~eof_' /\ buffer' = <<>> /\ records' = <<>>
    BY DEF IInv, WriterInv
  <2>2. SliceInv'
    BY <1>9 DEF SliceInv
  <2> QED
    BY <2>1, <2>2, <1>8, <1>9, <1>11 DEF WriterInv
<1>14. ReaderInv'
  BY DEF ReaderInv
<1> QED
  BY <1>10, <1>12, <1>13, <1>14 DEF IInv

LEMMA WriteFragmentOk ==
  ASSUME IInv, WriteFragment
  PROVE  IInv'
<1>1. ~reading /\ slice # Idle /\ UNCHANGED <<lens, damaged, reading, lo, hi, eof_, buffer, records>>
  BY DEF WriteFragment, readerVars
<1>2. TypeOK
  BY DEF IInv
<1>3. PICK p, o, ln, ty : /\ Turn(p, o, ln, ty)
                          /\ block_offset_' = o + HeadSize + ln
                          /\ Succeeds(p, ln, ty) \/ Fails(p, ln, ty)
  BY <1>2, WriteFragmentIs
<1>4. CASE Succeeds(p, ln, ty)
  BY ONLY IInv, <1>1, <1>3, <1>4, SucceedsOk
<1>5. CASE Fails(p, ln, ty)
  BY ONLY IInv, <1>1, <1>3, <1>5, FailsOk
<1> QED
  BY <1>3, <1>4, <1>5

----------------------------------------------------------------------------
(* The file between the two.                                               *)

LEMMA CutOk ==
  ASSUME IInv, Cut
  PROVE  IInv'
<1>1. /\ ~reading /\ reading' = TRUE /\ slice' = Idle
      /\ UNCHANGED <<block_offset_, ends, lens, broken, damaged, lo, hi, eof_, buffer, records>>
  BY DEF Cut, readerVars
<1>2. PICK n \in 0..Len(file) : file' = SubSeq(file, 1, n)
  BY DEF Cut
<1>3. TypeOK /\ file \in Seq(Cells) /\ Len(file) \in Nat /\ lens \in Seq(Nat \ {0}) /\ ends \in Seq(Nat)
      /\ broken \in Nat \cup {NoFault}
  BY DEF IInv, TypeOK
<1>4. /\ lo = 0 /\ hi = 0 /\ ~eof_ /\ buffer = <<>> /\ records = <<>> /\ damaged = NoFault
      /\ broken # NoFault => broken <= Len(file)
  BY <1>1 DEF IInv, WriterInv
<1>5. file' \in Seq(Cells) /\ Len(file') = n /\ n \in Nat /\ n <= Len(file) /\ \A i \in 1..n : file'[i] = file[i]
  <2>1. n \in Nat /\ n <= Len(file)
    BY <1>3
  <2> QED
    BY <2>1, <1>2, <1>3, SubSeqProperties
<1>6. TypeOK'
  BY <1>1, <1>3, <1>5 DEF TypeOK, Idle, Slices
<1>7. Agree(file, file', n)
  BY ONLY <1>3, <1>5 DEF Agree
<1>8. Sound' \in Nat /\ Sound' <= Sound /\ Sound' <= n /\ Sound \in Nat
  <2>1. Sound = IF broken = NoFault THEN Len(file) ELSE broken
    BY <1>3, <1>4, SoundIs
  <2>2. Sound' = IF broken = NoFault \/ n <= broken THEN n ELSE broken
    BY <1>1, <1>5 DEF Sound
  <2> QED
    BY <2>1, <2>2, <1>3, <1>4, <1>5 DEF NoFault
<1>9. AllHeads(file', lens)
  BY ONLY IInv, <1>3, <1>5, <1>7, AllHeadsOfPart DEF IInv, FileInv
<1>10. PICK s \in Nat : s = Sound'
  BY <1>8
<1>11. SoundFile(file', s, ends, lens)
  <2>1. SoundFile(file, s, ends, lens)
    <3>1. SoundFile(file, Sound, ends, lens)
      BY DEF IInv, FileInv
    <3>2. s <= Sound
      BY <1>8, <1>10
    <3> QED
      BY ONLY <3>1, <3>2, <1>3, <1>8, SoundShrinks, s \in Nat
  <2>2. Agree(file, file', s)
    BY ONLY <1>5, <1>7, <1>8, <1>10 DEF Agree
  <2> QED
    BY ONLY <2>1, <2>2, <1>3, <1>5, SoundAgrees, s \in Nat
<1>12. FileInv'
  BY <1>1, <1>9, <1>10, <1>11 DEF FileInv
<1>13. WriterInv'
  BY <1>1 DEF WriterInv
<1>14. PlaceAt(lo, hi, eof_)'
  <2>1. lo' = 0 /\ hi' = 0 /\ ~eof_'
    BY <1>1, <1>4
  <2>2. \A h \in Heads(file') : h \in Nat
    BY <1>5, HeadsAre
  <2> QED
    BY <2>1, <2>2, <1>5, BasesAre, Sizes DEF PlaceAt
<1>15. RecordsAt(lo, records)'
  <2>1. lo' = 0 /\ records' = <<>> /\ Len(records') = 0
    BY <1>1, <1>4
  <2>2. ASSUME NEW r \in 1..Len(lens'), Intact(r)', ends'[r] <= 0
        PROVE  FALSE
    BY <2>2, <1>5 DEF Intact
  <2> QED
    BY <2>1, <2>2 DEF RecordsAt
<1>16. BufferAt(lo, buffer)'
  <2> SUFFICES ASSUME NEW q \in Heads(file'), q < Sound', NoHeads(file', 0, q), ~Beginning(file', q)
               PROVE  FALSE
    BY <1>1, <1>4 DEF BufferAt
  <2>1. HasFirst(file', q)
    BY <1>10, <1>11 DEF SoundFile, HeadsOk
  <2>2. PICK h \in Heads(file') : h < q
    BY <2>1 DEF HasFirst
  <2>3. h \in Nat
    BY <1>5, HeadsAre
  <2> QED
    BY <2>2, <2>3 DEF NoHeads
<1>17. ReaderInv'
  BY <1>1, <1>4, <1>14, <1>15, <1>16 DEF ReaderInv
<1> QED
  BY <1>6, <1>12, <1>13, <1>17 DEF IInv

LEMMA DamageOk ==
  ASSUME IInv, Damage
  PROVE  IInv'
<1>1. /\ reading /\ lo = 0 /\ hi = 0 /\ ~eof_ /\ broken = NoFault
      /\ UNCHANGED <<file, block_offset_, slice, ends, lens, broken, reading, lo, hi, eof_, buffer, records>>
  BY DEF Damage, writerVars, readerVars
<1>2. file \in Seq(Cells) /\ Len(file) \in Nat
  BY DEF IInv, TypeOK
<1>3. damaged' \in Heads(file) /\ damaged' \in Nat
  <2>1. PICK i \in 1..Len(file) : file[i].kind = "head" /\ damaged' = i - 1
    BY DEF Damage
  <2>2. i - 1 \in 0..(Len(file) - 1) /\ (i - 1) + 1 = i /\ i - 1 \in Nat
    BY <1>2
  <2> QED
    BY <2>1, <2>2 DEF Heads
<1>4. TypeOK'
  BY <1>1, <1>3 DEF IInv, TypeOK
<1>5. Sound' = Sound
  BY <1>1 DEF Sound
<1>6. FileInv'
  BY <1>1, <1>5 DEF IInv, FileInv
<1>7. WriterInv'
  BY <1>1 DEF WriterInv
<1>8. PlaceAt(lo, hi, eof_)'
  <2>1. PlaceAt(lo, hi, eof_)
    BY <1>1 DEF IInv, ReaderInv
  <2> QED
    BY <2>1, <1>1, <1>5 DEF PlaceAt
<1>9. RecordsAt(lo, records)'
  <2>1. RecordsAt(lo, records)
    BY <1>1 DEF IInv, ReaderInv
  <2>2. ASSUME NEW r \in 1..Len(lens'), Intact(r)', ends'[r] <= lo'
        PROVE  FALSE
    BY <2>2, <1>1, <1>2 DEF Intact
  <2>3. damaged' # NoFault
    BY <1>3 DEF NoFault
  <2> QED
    BY <2>1, <2>2, <2>3, <1>1 DEF RecordsAt
<1>10. BufferAt(lo, buffer)'
  <2> SUFFICES ASSUME NEW q \in Heads(file), q < Sound, NoHeads(file, 0, q), ~Beginning(file, q)
               PROVE  FALSE
    BY <1>1, <1>5 DEF BufferAt
  <2>1. HasFirst(file, q)
    BY DEF IInv, FileInv, SoundFile, HeadsOk
  <2>2. PICK h \in Heads(file) : h < q
    BY <2>1 DEF HasFirst
  <2>3. h \in Nat
    BY <1>2, HeadsAre
  <2> QED
    BY <2>2, <2>3 DEF NoHeads
<1>11. ReaderInv'
  BY <1>1, <1>3, <1>8, <1>9, <1>10 DEF IInv, ReaderInv
<1> QED
  BY <1>4, <1>6, <1>7, <1>11 DEF IInv

----------------------------------------------------------------------------
(* log::Reader keeps the invariant.                                        *)

LEMMA Reading ==
  ASSUME IInv, reading
  PROVE  /\ TypeOK
         /\ file \in Seq(Cells)
         /\ Len(file) \in Nat
         /\ lo \in Nat
         /\ hi \in Nat
         /\ lo <= hi
         /\ hi <= Len(file)
         /\ Len(lens) \in Nat
         /\ Sound \in Nat
         /\ Sound <= Len(file)
         /\ AllHeads(file, lens)
         /\ SoundFile(file, Sound, ends, lens)
         /\ PlaceAt(lo, hi, eof_)
         /\ RecordsAt(lo, records)
         /\ BufferAt(lo, buffer)
<1>1. TypeOK /\ FileInv /\ ReaderInv
  BY DEF IInv
<1>2. PlaceAt(lo, hi, eof_) /\ RecordsAt(lo, records) /\ BufferAt(lo, buffer)
  BY <1>1 DEF ReaderInv
<1>3. lo <= hi /\ hi <= Len(file)
  BY <1>2 DEF PlaceAt
<1>4. file \in Seq(Cells) /\ lo \in Nat /\ hi \in Nat /\ Len(lens) \in Nat
  BY <1>1 DEF TypeOK
<1>5. Sound \in Nat /\ Sound <= Len(file) /\ Len(file) \in Nat
  BY <1>1, SoundIs
<1> QED
  BY <1>1, <1>2, <1>3, <1>4, <1>5 DEF FileInv

LEMMA HeadIsSound ==
  ASSUME NEW fl, NEW s, NEW es, NEW ls, SoundFile(fl, s, es, ls), NEW h \in Heads(fl), h < s
  PROVE  /\ InBlock(fl, h)
         /\ Truthful(fl, h, es, ls)
         /\ Body(fl, h, s)
         /\ ~Beginning(fl, h) => HasFirst(fl, h)
BY DEF SoundFile, HeadsOk

\* What is left to show of a step of the reader.
LEMMA ReaderStep ==
  ASSUME IInv, reading, UNCHANGED <<file, block_offset_, slice, ends, lens, broken, damaged, reading>>,
         lo' \in Nat, hi' \in Nat, eof_' \in BOOLEAN, buffer' \in Seq(Cells), records' \in Seq(Seq(Cells)),
         PlaceAt(lo', hi', eof_'), RecordsAt(lo', records'), BufferAt(lo', buffer')
  PROVE  IInv'
<1>1. TypeOK'
  BY DEF IInv, TypeOK
<1>2. Sound' = Sound
  BY DEF Sound
<1>3. FileInv'
  BY <1>2 DEF IInv, FileInv
<1>4. WriterInv'
  BY DEF WriterInv
<1>5. \A r : Intact(r)' <=> Intact(r)
  BY DEF Intact, DamagedBytes
<1>6. \A r : Record(r)' = Record(r)
  BY DEF Record
<1>7. PlaceAt(lo, hi, eof_)'
  BY <1>2 DEF PlaceAt
<1>8. RecordsAt(lo, records)'
  BY <1>5, <1>6 DEF RecordsAt
<1>9. BufferAt(lo, buffer)'
  BY <1>2, <1>5 DEF BufferAt
<1>10. ReaderInv'
  BY <1>7, <1>8, <1>9 DEF IInv, ReaderInv
<1> QED
  BY <1>1, <1>3, <1>4, <1>10 DEF IInv

\* An intact record ends with a header of the sound part.
LEMMA IntactEnd ==
  ASSUME IInv, NEW r \in 1..Len(lens), Intact(r)
  PROVE  /\ ends[r] \in Nat
         /\ ends[r] >= 1
         /\ ends[r] <= Sound
         /\ ends[r] <= Len(file)
         /\ \E h \in Heads(file) : Rec(file, h) = r /\ Ending(file, h) /\ End(file, h) = ends[r]
<1>1. TypeOK
  BY DEF IInv
<1>2. ends[r] \in 1..Len(file) /\ (broken # NoFault => ends[r] <= broken)
  BY DEF Intact
<1>3. ends[r] \in Nat /\ ends[r] >= 1 /\ ends[r] <= Len(file) /\ Len(file) \in Nat
  BY <1>1, <1>2 DEF TypeOK
<1>4. ends[r] <= Sound
  BY <1>2, <1>3 DEF Sound
<1>5. ends[r] \in 1..Sound
  BY <1>1, <1>3, <1>4, SoundIs
<1>6. \E h \in Heads(file) : Rec(file, h) = r /\ Ending(file, h) /\ End(file, h) = ends[r]
  BY <1>5 DEF IInv, FileInv, SoundFile, EndsAre
<1> QED
  BY <1>3, <1>4, <1>6

\* No fragment crosses the end of what has been read.
LEMMA EndsInside ==
  ASSUME IInv, reading, NEW h \in Heads(file), h < hi, End(file, h) <= Sound
  PROVE  End(file, h) <= hi
<1>1. h \in Nat /\ End(file, h) \in Nat /\ h < End(file, h)
  BY Reading, HeadsAre
<1>2. CASE eof_
  <2>1. hi = Len(file)
    BY <1>2, Reading DEF PlaceAt
  <2> QED
    BY <2>1, <1>1, Reading
<1>3. CASE ~eof_
  <2>1. hi \in Bases
    BY <1>3, Reading DEF PlaceAt
  <2>2. h < Sound
    BY <1>1, Reading
  <2>3. InBlock(file, h)
    BY <2>2, Reading, HeadIsSound
  <2>4. PICK b \in Bases : b <= h /\ End(file, h) <= b + BlockSize
    BY <2>3 DEF InBlock
  <2>5. b \in Nat /\ b < hi
    BY <2>4, <1>1, BasesAre, Reading
  <2>6. b + BlockSize <= hi
    BY <2>1, <2>5, NextBase
  <2> QED
    BY <2>4, <2>5, <2>6, <1>1, Sizes, Reading
<1> QED
  BY <1>2, <1>3 DEF IInv, TypeOK

\* What is left of the buffer_ is too short for a header: it holds none.
LEMMA NothingLeft ==
  ASSUME IInv, reading, hi - lo < HeadSize, ~eof_, NEW h \in Heads(file), lo <= h, h < hi, h < Sound
  PROVE  FALSE
<1>1. h \in Nat /\ End(file, h) = h + HeadSize + Size(file, h) /\ Size(file, h) \in Nat
  BY Reading, HeadsAre
<1>2. hi \in Bases
  BY Reading DEF PlaceAt
<1>3. PICK b \in Bases : b <= h /\ End(file, h) <= b + BlockSize
  BY Reading, HeadIsSound DEF InBlock
<1>4. b \in Nat /\ b < hi
  BY <1>1, <1>3, BasesAre, Reading
<1>5. b + BlockSize <= hi
  BY <1>2, <1>4, NextBase
<1> QED
  BY <1>1, <1>3, <1>4, <1>5, Reading, Sizes

\* Nothing has an end between lo and hi when what is left is too short for a header.
LEMMA NoEndLeft ==
  ASSUME IInv, reading, hi - lo < HeadSize, NEW r \in 1..Len(lens), Intact(r), ends[r] <= hi
  PROVE  ends[r] <= lo
<1>1. PICK h \in Heads(file) : Rec(file, h) = r /\ Ending(file, h) /\ End(file, h) = ends[r]
  BY IntactEnd
<1>2. ends[r] \in Nat /\ ends[r] <= Sound
  BY IntactEnd
<1>3. h \in Nat /\ End(file, h) = h + HeadSize + Size(file, h) /\ Size(file, h) \in Nat
  BY Reading, HeadsAre
<1>4. h < lo
  BY <1>1, <1>2, <1>3, Reading, Sizes
<1> QED
  BY <1>1, <1>2, <1>4, Reading DEF PlaceAt

LEMMA ReadBlockOk ==
  ASSUME IInv, reading, Buffered < HeadSize, ~eof_, ReadBlock,
         UNCHANGED <<file, block_offset_, slice, ends, lens, broken, damaged, reading, buffer, records>>
  PROVE  IInv'
<1>1. PICK n : n = IF hi + BlockSize < Len(file) THEN hi + BlockSize ELSE Len(file)
  OBVIOUS
<1>2. lo' = hi /\ hi' = n /\ eof_' = (n - hi < BlockSize)
  BY <1>1 DEF ReadBlock
<1>3. hi \in Bases /\ hi \in Nat /\ lo \in Nat /\ lo <= hi /\ hi <= Len(file) /\ Len(file) \in Nat
      /\ hi - lo < HeadSize
  BY Reading DEF PlaceAt, Buffered
<1>4. /\ n \in Nat /\ hi <= n /\ n <= Len(file) /\ n <= hi + BlockSize
      /\ n = hi + BlockSize \/ n = Len(file)
      /\ n - hi < BlockSize => n = Len(file)
      /\ ~(n - hi < BlockSize) => n = hi + BlockSize
  BY <1>1, <1>3, Sizes
<1>5. PlaceAt(hi, n, n - hi < BlockSize)
  <2>1. hi < n => \E b \in Bases : b <= hi /\ n <= b + BlockSize /\ (n = b + BlockSize \/ n = Len(file))
    BY <1>3, <1>4
  <2>2. ~(n - hi < BlockSize) => n \in Bases
    BY <1>3, <1>4, BasesAre
  <2>3. n - hi >= HeadSize /\ hi < Sound => hi \in Heads(file)
    BY <1>3, Reading DEF SoundFile, Starts
  <2>4. \A h \in Heads(file) : h < hi /\ End(file, h) <= Sound => End(file, h) <= hi
    BY EndsInside
  <2> QED
    BY <2>1, <2>2, <2>3, <2>4, <1>4 DEF PlaceAt
<1>6. RecordsAt(hi, records)
  <2>1. \A i \in 1..Len(records), h \in Heads(file) : hi <= h => RecordOf(records[i]) < Rec(file, h)
    <3> SUFFICES ASSUME NEW i \in 1..Len(records), NEW h \in Heads(file), hi <= h
                 PROVE  RecordOf(records[i]) < Rec(file, h)
      OBVIOUS
    <3>1. h \in Nat /\ lo <= h
      BY <1>3, Reading, HeadsAre
    <3> QED
      BY <3>1, Reading DEF RecordsAt
  <2>2. \A r \in 1..Len(lens) : Intact(r) /\ ends[r] <= hi => \E i \in 1..Len(records) : records[i] = Record(r)
    BY <1>3, NoEndLeft, Reading DEF RecordsAt
  <2> QED
    BY <2>1, <2>2, Reading DEF RecordsAt
<1>7. BufferAt(hi, buffer)
  <2> SUFFICES ASSUME NEW q \in Heads(file), q < Sound, hi <= q, NoHeads(file, hi, q),
                      ~Beginning(file, q), Intact(Rec(file, q))
               PROVE  buffer = Payload(Rec(file, q), 0, Off(file, q))
    BY DEF BufferAt
  <2>1. q \in Nat /\ lo <= q
    BY <1>3, Reading, HeadsAre
  <2>2. NoHeads(file, lo, q)
    <3> SUFFICES ASSUME NEW h \in Heads(file), lo <= h, h < q
                 PROVE  FALSE
      BY DEF NoHeads
    <3>1. h \in Nat /\ h < Sound
      BY <2>1, Reading, HeadsAre
    <3>2. h < hi
      BY <3>1, <1>3 DEF NoHeads
    <3> QED
      BY <3>1, <3>2, <1>3, NothingLeft
  <2> QED
    BY <2>1, <2>2, Reading DEF BufferAt
<1>8. lo' \in Nat /\ hi' \in Nat /\ eof_' \in BOOLEAN /\ buffer' \in Seq(Cells) /\ records' \in Seq(Seq(Cells))
  BY <1>2, <1>3, <1>4 DEF IInv, TypeOK
<1>9. PlaceAt(lo', hi', eof_') /\ RecordsAt(lo', records') /\ BufferAt(lo', buffer')
  BY <1>2, <1>5, <1>6, <1>7
<1> QED
  BY ONLY IInv, reading, <1>8, <1>9, ReaderStep,
     UNCHANGED <<file, block_offset_, slice, ends, lens, broken, damaged, reading, buffer, records>>

\* What the checksum shows: the whole fragment is there.
LEMMA CrcShows ==
  ASSUME IInv, reading, NEW ln \in LengthAt(lo), Buffered >= HeadSize, HeadSize + ln <= Buffered,
         CrcMatches(lo, ln)
  PROVE  /\ lo \in Heads(file)
         /\ ln = Size(file, lo)
         /\ End(file, lo) <= hi
         /\ End(file, lo) = lo + HeadSize + ln
         /\ Body(file, lo, Len(file))
         /\ SubSeq(file, lo + HeadSize + 1, lo + HeadSize + ln) = Payload(Rec(file, lo), Off(file, lo), ln)
<1>1. file[lo + 1].kind = "head" /\ WholeHeader(lo)
  BY DEF CrcMatches, WholeHeader
<1>2. lo \in Nat /\ hi \in Nat /\ hi <= Len(file) /\ Len(file) \in Nat /\ file \in Seq(Cells)
  BY Reading
<1>3. ln = Size(file, lo)
  BY <1>1 DEF LengthAt, Size
<1>4. lo + 1 <= hi
  BY <1>2, Sizes DEF Buffered
<1>5. lo \in Heads(file)
  BY <1>1, <1>2, <1>4 DEF Heads
<1>6. ln \in Nat /\ End(file, lo) = lo + HeadSize + ln /\ Rec(file, lo) \in Nat /\ Off(file, lo) \in Nat
  BY <1>2, <1>3, <1>5, HeadsAre
<1>7. End(file, lo) <= hi
  BY <1>2, <1>6, Sizes DEF Buffered
<1>8. /\ \A i \in 2..HeadSize : file[lo + i] = Rest
      /\ \A i \in 1..ln : file[lo + HeadSize + i] = Byte(Rec(file, lo), Off(file, lo) + i)
  BY DEF CrcMatches, WholeHeader, Rec, Off
<1>9. Body(file, lo, Len(file))
  BY <1>3, <1>8 DEF Body
<1>10. PICK x : x = SubSeq(file, lo + HeadSize + 1, lo + HeadSize + ln)
  OBVIOUS
<1>11. PICK k \in Nat : k = lo + HeadSize
  BY <1>2, Sizes
<1>12. k + ln <= Len(file)
  BY <1>2, <1>6, <1>7, <1>11
<1>13. x = SubSeq(file, k + 1, k + ln)
  BY <1>10, <1>11
<1>14. x \in Seq(Cells) /\ Len(x) = ln /\ \A i \in 1..ln : x[i] = file[k + i]
  <2>1. k + 1 \in Nat /\ k + ln \in Nat /\ k + 1 \in 1..(Len(file) + 1) /\ k + ln \in k..Len(file)
    BY <1>2, <1>6, <1>12
  <2>2. x \in Seq(Cells)
    BY ONLY <2>1, <1>2, <1>6, <1>12, <1>13, SubSeqProperties
  <2>3. Len(x) = ln
    BY ONLY <2>1, <1>2, <1>6, <1>12, <1>13, SubSeqProperties, k \in Nat
  <2>4. ASSUME NEW i \in 1..ln
        PROVE  x[i] = file[k + i]
    BY ONLY <2>1, <1>2, <1>6, <1>12, <1>13, SubSeqProperties, k \in Nat, i \in 1..ln
  <2> QED
    BY <2>2, <2>3, <2>4
<1>15. \A i \in 1..ln : x[i] = Byte(Rec(file, lo), Off(file, lo) + i)
  BY <1>8, <1>11, <1>14
<1>16. x = Payload(Rec(file, lo), Off(file, lo), ln)
  <2>1. PICK r \in Nat : r = Rec(file, lo)
    BY <1>6
  <2>2. PICK f \in Nat : f = Off(file, lo)
    BY <1>6
  <2>3. \A i \in 1..ln : x[i] = Byte(r, f + i)
    BY ONLY <2>1, <2>2, <1>15
  <2>4. x = Payload(r, f, ln)
    BY ONLY r \in Nat, f \in Nat, <1>6, <1>14, <2>3, IsPayload
  <2> QED
    BY ONLY <2>1, <2>2, <2>4
<1> QED
  BY <1>3, <1>5, <1>6, <1>7, <1>9, <1>10, <1>16

\* With the fragment at lo an intact record is complete up to its end.
LEMMA Assembled ==
  ASSUME IInv, reading, lo \in Heads(file), lo < Sound, Intact(Rec(file, lo))
  PROVE  Collected(file[lo + 1].type) \o Payload(Rec(file, lo), Off(file, lo), Size(file, lo))
           = Payload(Rec(file, lo), 0, Off(file, lo) + Size(file, lo))
<1>1. PICK r \in Nat : r = Rec(file, lo)
  BY Reading, HeadsAre
<1>2. PICK f \in Nat : f = Off(file, lo)
  BY Reading, HeadsAre
<1>3. PICK n \in Nat : n = Size(file, lo)
  BY Reading, HeadsAre
<1>4. PICK c : c = Collected(file[lo + 1].type)
  OBVIOUS
<1>5. c = Payload(r, 0, f)
  <2>1. CASE Beginning(file, lo)
    <3>1. c = <<>>
      BY <2>1, <1>4 DEF Collected, Beginning
    <3>2. f = 0
      BY <2>1, <1>2, Reading, HeadIsSound DEF Truthful
    <3>3. Payload(r, 0, 0) = <<>>
      <4>1. PICK y \in Seq(Cells) : y = Payload(r, 0, 0)
        BY PayloadIs
      <4>2. Len(y) = 0
        <5>1. Bytes(y, r, 0, 0)
          BY ONLY <4>1, PayloadBytes, r \in Nat
        <5> QED
          BY ONLY <5>1 DEF Bytes
      <4>3. y = <<>>
        BY ONLY <4>2, y \in Seq(Cells), EmptySeq
      <4> QED
        BY <4>1, <4>3
    <3> QED
      BY <3>1, <3>2, <3>3
  <2>2. CASE ~Beginning(file, lo)
    <3>1. c = buffer
      BY <2>2, <1>4 DEF Collected, Beginning
    <3>2. NoHeads(file, lo, lo)
      <4> SUFFICES ASSUME NEW h \in Heads(file), lo <= h, h < lo
                   PROVE  FALSE
        BY DEF NoHeads
      <4>1. h \in Nat
        BY Reading, HeadsAre
      <4> QED
        BY <4>1, Reading
    <3>3. buffer = Payload(Rec(file, lo), 0, Off(file, lo))
      BY <2>2, <3>2, Reading DEF BufferAt
    <3> QED
      BY <3>1, <3>3, <1>1, <1>2
  <2> QED
    BY <2>1, <2>2
<1>6. Payload(r, 0, f) \o Payload(r, f, n) = Payload(r, 0, f + n)
  BY PayloadsJoin
<1> QED
  BY ONLY <1>1, <1>2, <1>3, <1>4, <1>5, <1>6

\* Behind the fragment at lo, the first header that goes on with a record goes on
\* with that fragment.
LEMMA GoesOnWithLo ==
  ASSUME IInv, reading, lo \in Heads(file), Body(file, lo, Len(file)),
         NEW q \in Heads(file), q < Sound, End(file, lo) <= q, NoHeads(file, End(file, lo), q),
         ~Beginning(file, q)
  PROVE  Continues(file, lo, q)
<1>1. HasFirst(file, q)
  BY Reading, HeadIsSound
<1>2. PICK h \in Heads(file) : h < q /\ NoHeads(file, h + 1, q) /\ Continues(file, h, q)
  BY <1>1 DEF HasFirst
<1>3. /\ h \in Nat /\ q \in Nat /\ lo \in Nat /\ End(file, lo) \in Nat /\ lo < End(file, lo)
      /\ h < Len(file) /\ Len(file) \in Nat
  BY Reading, HeadsAre
<1>4. ~(h < lo)
  <2>1. ASSUME h < lo
        PROVE  FALSE
    <3>1. h + 1 <= lo /\ lo < q
      BY <2>1, <1>3
    <3> QED
      BY <3>1, <1>2 DEF NoHeads
  <2> QED
    BY <2>1
<1>5. ~(End(file, lo) <= h)
  BY <1>2 DEF NoHeads
<1>6. ~(lo < h)
  <2>1. ASSUME lo < h
        PROVE  FALSE
    <3>1. End(file, lo) <= h
      BY <2>1, <1>3, Reading, BodyHasNoHeads
    <3> QED
      BY <3>1, <1>5
  <2> QED
    BY <2>1
<1>7. h = lo
  BY <1>3, <1>4, <1>6
<1> QED
  BY <1>2, <1>7

\* An intact record that ends behind lo and not behind the fragment at lo ends with it.
LEMMA EndsAtLo ==
  ASSUME IInv, reading, lo \in Heads(file), Body(file, lo, Len(file)),
         NEW r \in 1..Len(lens), Intact(r), lo < ends[r], ends[r] <= End(file, lo)
  PROVE  Rec(file, lo) = r /\ Ending(file, lo) /\ lo < Sound
<1>1. PICK h \in Heads(file) : Rec(file, h) = r /\ Ending(file, h) /\ End(file, h) = ends[r]
  BY IntactEnd
<1>2. ends[r] \in Nat /\ ends[r] <= Sound
  BY IntactEnd
<1>3. h \in Nat /\ lo \in Nat /\ h < End(file, h) /\ End(file, lo) \in Nat /\ h < Len(file) /\ Len(file) \in Nat
  BY Reading, HeadsAre
<1>4. ~(h < lo)
  <2>1. ASSUME h < lo
        PROVE  FALSE
    <3>1. End(file, h) <= lo
      BY <2>1, <1>1, <1>2, Reading DEF PlaceAt
    <3> QED
      BY <3>1, <1>1, <1>2, <1>3
  <2> QED
    BY <2>1
<1>5. ~(lo < h)
  <2>1. ASSUME lo < h
        PROVE  FALSE
    <3>1. End(file, lo) <= h
      BY <2>1, <1>3, Reading, BodyHasNoHeads
    <3> QED
      BY <3>1, <1>1, <1>2, <1>3
  <2> QED
    BY <2>1
<1>6. h = lo
  BY <1>3, <1>4, <1>5
<1> QED
  BY <1>1, <1>2, <1>3, <1>6, Reading

\* A fragment of a record is taken from the buffer_.
LEMMA PlaceBehind ==
  ASSUME IInv, reading, lo \in Heads(file), Body(file, lo, Len(file)), End(file, lo) <= hi
  PROVE  PlaceAt(End(file, lo), hi, eof_)
<1>1. PICK l \in Nat : l = End(file, lo)
  BY Reading, HeadsAre
<1>2. lo \in Nat /\ lo < l /\ l <= hi /\ hi \in Nat /\ hi <= Len(file) /\ Len(file) \in Nat
  BY <1>1, Reading, HeadsAre
<1>3. PICK b \in Bases : b <= lo /\ hi <= b + BlockSize /\ (hi = b + BlockSize \/ hi = Len(file))
  BY <1>2, Reading DEF PlaceAt
<1>4. b \in Nat /\ b <= l
  BY <1>2, <1>3, BasesAre
<1>5. hi - l >= HeadSize /\ l < Sound => l \in Heads(file)
  <2>1. ASSUME hi - l >= HeadSize, l < Sound
        PROVE  l \in Heads(file)
    <3>1. l + HeadSize <= b + BlockSize
      BY <2>1, <1>2, <1>3, <1>4, Sizes
    <3> QED
      BY <3>1, <2>1, <1>1, <1>3, Reading DEF SoundFile, Follows
  <2> QED
    BY <2>1
<1>6. \A h \in Heads(file) : h < l /\ End(file, h) <= Sound => End(file, h) <= l
  <2> SUFFICES ASSUME NEW h \in Heads(file), h < l, End(file, h) <= Sound
               PROVE  End(file, h) <= l
    OBVIOUS
  <2>1. h \in Nat /\ End(file, h) \in Nat /\ h < Len(file)
    BY Reading, HeadsAre
  <2>2. CASE h < lo
    <3>1. End(file, h) <= lo
      BY <2>2, Reading DEF PlaceAt
    <3> QED
      BY <3>1, <2>1, <1>2
  <2>3. CASE h = lo
    BY <2>3, <1>1
  <2>4. CASE lo < h
    <3>1. l <= h
      BY <2>1, <2>4, <1>1, <1>2, Reading, BodyHasNoHeads
    <3> QED
      BY <3>1, <2>1, <1>2
  <2> QED
    BY <2>1, <2>2, <2>3, <2>4, <1>2
<1>7. (eof_ => hi = Len(file)) /\ (~eof_ => hi \in Bases)
  BY Reading DEF PlaceAt
<1>8. PlaceAt(l, hi, eof_)
  BY <1>2, <1>3, <1>4, <1>5, <1>6, <1>7 DEF PlaceAt
<1> QED
  BY <1>1, <1>8

LEMMA TakeFragmentOk ==
  ASSUME IInv, reading, lo \in Heads(file), Body(file, lo, Len(file)), End(file, lo) <= hi,
         lo' = End(file, lo), hi' = hi, eof_' = eof_,
         TakeFragment(file[lo + 1].type, Payload(Rec(file, lo), Off(file, lo), Size(file, lo))),
         UNCHANGED <<file, block_offset_, slice, ends, lens, broken, damaged, reading>>
  PROVE  IInv'
<1>1. PICK r \in Nat : r = Rec(file, lo)
  BY Reading, HeadsAre
<1>2. PICK f \in Nat : f = Off(file, lo)
  BY Reading, HeadsAre
<1>3. PICK n \in Nat : n = Size(file, lo)
  BY Reading, HeadsAre
<1>4. PICK l \in Nat : l = End(file, lo)
  BY Reading, HeadsAre
<1>5. PICK x : x = Collected(file[lo + 1].type) \o Payload(r, f, n)
  OBVIOUS
<1>6. lo \in Nat /\ lo < l /\ l <= hi /\ Len(file) \in Nat /\ r \in 1..Len(lens)
  <2>1. Rec(file, lo) \in 1..Len(lens)
    BY Reading DEF AllHeads
  <2> QED
    BY <2>1, <1>1, <1>4, Reading, HeadsAre
<1>7. ASSUME Intact(r), lo < Sound
      PROVE  x = Payload(r, 0, f + n)
  BY <1>1, <1>2, <1>3, <1>5, <1>7, Assembled
<1>8. buffer \in Seq(Cells) /\ records \in Seq(Seq(Cells)) /\ Len(records) \in Nat
  BY DEF IInv, TypeOK
<1>9. Collected(file[lo + 1].type) \in Seq(Cells)
  BY <1>8 DEF Collected
<1>10. x \in Seq(Cells)
  BY ONLY <1>5, <1>9, PayloadIs, ConcatProperties, r \in Nat, f \in Nat, n \in Nat
<1>11. PlaceAt(l, hi, eof_)
  BY <1>4, PlaceBehind
<1>12. \A i \in 1..Len(records), h \in Heads(file) : l <= h => RecordOf(records[i]) < Rec(file, h)
  <2> SUFFICES ASSUME NEW i \in 1..Len(records), NEW h \in Heads(file), l <= h
               PROVE  RecordOf(records[i]) < Rec(file, h)
    OBVIOUS
  <2>1. h \in Nat /\ lo <= h
    BY <1>6, Reading, HeadsAre
  <2> QED
    BY <2>1, Reading DEF RecordsAt
<1>13. ASSUME NEW q \in 1..Len(lens), Intact(q), ends[q] <= l, ~(ends[q] <= lo)
       PROVE  q = r /\ Ending(file, lo) /\ lo < Sound
  <2>1. lo < ends[q] /\ ends[q] <= End(file, lo)
    BY <1>4, <1>6, <1>13, IntactEnd
  <2> QED
    BY <2>1, <1>1, <1>13, EndsAtLo
<1>14. ASSUME NEW q \in Heads(file), q < Sound, l <= q, NoHeads(file, l, q), ~Beginning(file, q)
       PROVE  Continues(file, lo, q) /\ lo < Sound
  <2>1. Continues(file, lo, q)
    BY <1>4, <1>14, GoesOnWithLo
  <2>2. q \in Nat
    BY Reading, HeadsAre
  <2> QED
    BY <2>1, <2>2, <1>6, <1>14, Reading
<1>15. CASE Ending(file, lo)
  <2>1. records' = Append(records, x) /\ buffer' = <<>>
    BY <1>1, <1>2, <1>3, <1>5, <1>15 DEF TakeFragment, Ending
  <2>2. n >= 1
    BY <1>3, <1>15, Reading DEF AllHeads
  <2>3. x # <<>> /\ RecordOf(x) = r
    BY ONLY <2>2, <1>5, <1>9, LastRecord, r \in Nat, f \in Nat, n \in Nat
  <2>4. PICK rs : rs = records'
    OBVIOUS
  <2>5. /\ rs \in Seq(Seq(Cells))
        /\ Len(rs) = Len(records) + 1
        /\ \A i \in 1..Len(records) : rs[i] = records[i]
        /\ rs[Len(records) + 1] = x
    BY ONLY <2>1, <2>4, <1>8, <1>10, AppendProperties
  <2>6. ASSUME NEW i \in 1..Len(rs)
        PROVE  \/ i \in 1..Len(records) /\ rs[i] = records[i]
               \/ i = Len(records) + 1 /\ rs[i] = x
    BY <2>5, <1>8
  <2>7. \A i \in 1..Len(records) : records[i] # <<>> /\ RecordOf(records[i]) \in Nat
    BY Reading DEF RecordsAt
  <2>8. \A i \in 1..Len(records) : RecordOf(records[i]) < r
    <3>1. \A i \in 1..Len(records), h \in Heads(file) : lo <= h => RecordOf(records[i]) < Rec(file, h)
      BY Reading DEF RecordsAt
    <3> QED
      BY <3>1, <1>1, <1>6
  <2>9. ASSUME Intact(r), lo < Sound
        PROVE  x = Record(r)
    <3>1. f + n = lens[r]
      BY <2>9, <1>1, <1>2, <1>3, <1>15, Reading, HeadIsSound DEF Truthful
    <3> QED
      BY <2>9, <3>1, <1>7 DEF Record
  <2>10. RecordsAt(l, rs)
    <3>1. \A i \in 1..Len(rs) : rs[i] # <<>> /\ RecordOf(rs[i]) \in Nat
      BY <2>3, <2>6, <2>7
    <3>2. \A i, j \in 1..Len(rs) : i < j => RecordOf(rs[i]) < RecordOf(rs[j])
      <4> SUFFICES ASSUME NEW i \in 1..Len(rs), NEW j \in 1..Len(rs), i < j
                   PROVE  RecordOf(rs[i]) < RecordOf(rs[j])
        OBVIOUS
      <4>1. i \in 1..Len(records) /\ rs[i] = records[i]
        BY <2>5, <2>6, <1>8
      <4>2. CASE j \in 1..Len(records) /\ rs[j] = records[j]
        BY <4>1, <4>2, Reading DEF RecordsAt
      <4>3. CASE rs[j] = x
        BY <4>1, <4>3, <2>3, <2>8
      <4> QED
        BY <4>2, <4>3, <2>6
    <3>3. \A i \in 1..Len(rs), h \in Heads(file) : l <= h => RecordOf(rs[i]) < Rec(file, h)
      <4> SUFFICES ASSUME NEW i \in 1..Len(rs), NEW h \in Heads(file), l <= h
                   PROVE  RecordOf(rs[i]) < Rec(file, h)
        OBVIOUS
      <4>1. r < Rec(file, h)
        <5>1. h \in Nat /\ lo < h
          BY <1>6, Reading, HeadsAre
        <5> QED
          BY <5>1, <1>1, <1>15, Reading DEF AllHeads, InOrder
      <4> QED
        BY <4>1, <2>3, <2>6, <1>12
    <3>4. \A q \in 1..Len(lens) : Intact(q) /\ ends[q] <= l => \E i \in 1..Len(rs) : rs[i] = Record(q)
      <4> SUFFICES ASSUME NEW q \in 1..Len(lens), Intact(q), ends[q] <= l
                   PROVE  \E i \in 1..Len(rs) : rs[i] = Record(q)
        OBVIOUS
      <4>1. CASE ends[q] <= lo
        <5>1. PICK i \in 1..Len(records) : records[i] = Record(q)
          BY <4>1, Reading DEF RecordsAt
        <5>2. i \in 1..Len(rs) /\ rs[i] = Record(q)
          BY <5>1, <2>5, <1>8
        <5> QED
          BY <5>2
      <4>2. CASE ~(ends[q] <= lo)
        <5>1. q = r /\ lo < Sound
          BY <4>2, <1>13
        <5>2. x = Record(q)
          BY <5>1, <2>9
        <5>3. Len(records) + 1 \in 1..Len(rs)
          BY <2>5, <1>8
        <5> QED
          BY <5>2, <5>3, <2>5
      <4> QED
        BY <4>1, <4>2
    <3>5. ASSUME damaged = NoFault, broken = NoFault, NEW i \in 1..Len(rs)
          PROVE  \E q \in 1..Len(lens) : Intact(q) /\ rs[i] = Record(q)
      <4>1. CASE i \in 1..Len(records) /\ rs[i] = records[i]
        BY <3>5, <4>1, Reading DEF RecordsAt
      <4>2. CASE rs[i] = x
        <5>1. Sound = Len(file)
          BY <3>5, SoundIs, Reading
        <5>2. lo < Sound
          BY <5>1, <1>6, Reading
        <5>3. ends[r] = l
          BY <5>2, <1>1, <1>4, <1>15, Reading, HeadIsSound DEF Truthful
        <5>4. l \in 1..Len(file)
          BY <1>6, Reading
        <5>5. Intact(r)
          BY <3>5, <5>3, <5>4 DEF Intact
        <5> QED
          BY <4>2, <5>2, <5>5, <2>9, <1>6
      <4> QED
        BY <4>1, <4>2, <2>6
    <3> QED
      BY ONLY <3>1, <3>2, <3>3, <3>4, <3>5 DEF RecordsAt
  <2>11. BufferAt(l, buffer')
    <3> SUFFICES ASSUME NEW q \in Heads(file), q < Sound, l <= q, NoHeads(file, l, q), ~Beginning(file, q)
                 PROVE  FALSE
      BY DEF BufferAt
    <3>1. Continues(file, lo, q)
      BY <1>14
    <3> QED
      BY <3>1, <1>15 DEF Continues
  <2>12. lo' \in Nat /\ hi' \in Nat /\ eof_' \in BOOLEAN /\ buffer' \in Seq(Cells) /\ records' \in Seq(Seq(Cells))
    <3>1. lo' \in Nat /\ hi' \in Nat /\ eof_' \in BOOLEAN
      BY <1>4 DEF IInv, TypeOK
    <3>2. buffer' \in Seq(Cells)
      BY ONLY <2>1, EmptySeq
    <3> QED
      BY ONLY <3>1, <3>2, <2>4, <2>5
  <2>13. PlaceAt(lo', hi', eof_') /\ RecordsAt(lo', records') /\ BufferAt(lo', buffer')
    <3>1. PlaceAt(lo', hi', eof_')
      BY <1>4, <1>11
    <3>2. RecordsAt(lo', records')
      BY ONLY <2>4, <2>10, <1>4, lo' = End(file, lo)
    <3>3. BufferAt(lo', buffer')
      BY ONLY <2>11, <1>4, lo' = End(file, lo)
    <3> QED
      BY <3>1, <3>2, <3>3
  <2> QED
    BY ONLY IInv, reading, <2>12, <2>13, ReaderStep,
       UNCHANGED <<file, block_offset_, slice, ends, lens, broken, damaged, reading>>
<1>16. CASE ~Ending(file, lo)
  <2>1. buffer' = x /\ records' = records
    BY <1>1, <1>2, <1>3, <1>5, <1>16 DEF TakeFragment, Ending
  <2>2. RecordsAt(l, records)
    <3>1. \A q \in 1..Len(lens) : Intact(q) /\ ends[q] <= l => \E i \in 1..Len(records) : records[i] = Record(q)
      <4> SUFFICES ASSUME NEW q \in 1..Len(lens), Intact(q), ends[q] <= l
                   PROVE  \E i \in 1..Len(records) : records[i] = Record(q)
        OBVIOUS
      <4>1. ends[q] <= lo
        BY <1>13, <1>16
      <4> QED
        BY <4>1, Reading DEF RecordsAt
    <3>2. RecordsAt(lo, records)
      BY Reading
    <3> QED
      BY ONLY <3>1, <3>2, <1>12 DEF RecordsAt
  <2>3. BufferAt(l, x)
    <3> SUFFICES ASSUME NEW q \in Heads(file), q < Sound, l <= q, NoHeads(file, l, q), ~Beginning(file, q),
                        Intact(Rec(file, q))
                 PROVE  x = Payload(Rec(file, q), 0, Off(file, q))
      BY DEF BufferAt
    <3>1. Continues(file, lo, q) /\ lo < Sound
      BY <1>14
    <3>2. Rec(file, q) = r /\ Off(file, q) = f + n
      BY <3>1, <1>1, <1>2, <1>3 DEF Continues
    <3>3. x = Payload(r, 0, f + n)
      BY <3>1, <3>2, <1>7
    <3> QED
      BY ONLY <3>2, <3>3
  <2>4. lo' \in Nat /\ hi' \in Nat /\ eof_' \in BOOLEAN /\ buffer' \in Seq(Cells) /\ records' \in Seq(Seq(Cells))
    <3>1. lo' \in Nat /\ hi' \in Nat /\ eof_' \in BOOLEAN
      BY <1>4 DEF IInv, TypeOK
    <3> QED
      BY ONLY <3>1, <2>1, <1>8, <1>10
  <2>5. PlaceAt(lo', hi', eof_') /\ RecordsAt(lo', records') /\ BufferAt(lo', buffer')
    <3>1. PlaceAt(lo', hi', eof_')
      BY <1>4, <1>11
    <3>2. RecordsAt(lo', records')
      BY ONLY <2>1, <2>2, <1>4, lo' = End(file, lo)
    <3>3. BufferAt(lo', buffer')
      BY ONLY <2>1, <2>3, <1>4, lo' = End(file, lo)
    <3> QED
      BY <3>1, <3>2, <3>3
  <2> QED
    BY ONLY IInv, reading, <2>4, <2>5, ReaderStep,
       UNCHANGED <<file, block_offset_, slice, ends, lens, broken, damaged, reading>>
<1> QED
  BY <1>15, <1>16

\* An undamaged fragment of the sound part is dropped only when it is not whole.
LEMMA NotWhole ==
  ASSUME IInv, reading, Buffered >= HeadSize, lo < Sound, lo # damaged, NEW ln \in LengthAt(lo),
         HeadSize + ln > Buffered \/ ~CrcMatches(lo, ln)
  PROVE  lo \in Heads(file) /\ End(file, lo) > Sound
<1>1. lo \in Heads(file)
  BY Reading DEF PlaceAt, Buffered
<1>2. /\ lo \in Nat /\ hi \in Nat /\ lo < hi /\ hi <= Len(file) /\ Len(file) \in Nat
      /\ Sound \in Nat /\ Sound <= Len(file)
      /\ End(file, lo) = lo + HeadSize + Size(file, lo) /\ End(file, lo) \in Nat
      /\ Size(file, lo) \in Nat
  BY <1>1, Reading, HeadsAre, Sizes DEF Buffered
<1>3. InBlock(file, lo) /\ Body(file, lo, Sound)
  BY <1>1, Reading, HeadIsSound
<1> SUFFICES ASSUME End(file, lo) <= Sound
             PROVE  FALSE
  BY <1>1, <1>2
<1>4. WholeHeader(lo)
  <2> SUFFICES ASSUME NEW i \in 2..HeadSize
               PROVE  file[lo + i] = Rest
    BY <1>1 DEF WholeHeader, Heads
  <2>1. lo + i <= Sound
    BY <1>2, Sizes
  <2> QED
    BY <2>1, <1>3 DEF Body
<1>5. ln = Size(file, lo)
  BY <1>4 DEF LengthAt, Size
<1>6. CASE HeadSize + ln > Buffered
  <2>1. End(file, lo) > hi
    BY <1>2, <1>5, <1>6, Sizes DEF Buffered
  <2>2. PICK b \in Bases : b <= lo /\ hi <= b + BlockSize /\ (hi = b + BlockSize \/ hi = Len(file))
    BY <1>2, Reading DEF PlaceAt
  <2>3. PICK c \in Bases : c <= lo /\ End(file, lo) <= c + BlockSize
    BY <1>3 DEF InBlock
  <2>4. b \in Nat /\ c \in Nat
    BY BasesAre
  <2>5. lo < b + BlockSize /\ lo < c + BlockSize
    BY <2>2, <2>3, <2>4, <1>2, Sizes
  <2>6. b = c
    BY <2>2, <2>3, <2>5, <1>2, OneBlock
  <2>7. hi = Len(file)
    BY <2>1, <2>2, <2>3, <2>4, <2>6, <1>2, Sizes
  <2> QED
    BY <2>1, <2>7, <1>2
<1>7. CASE ~CrcMatches(lo, ln)
  <2>1. \A i \in 1..ln : file[lo + HeadSize + i] = Byte(file[lo + 1].rec, file[lo + 1].from + i)
    <3> SUFFICES ASSUME NEW i \in 1..ln
                 PROVE  file[lo + HeadSize + i] = Byte(Rec(file, lo), Off(file, lo) + i)
      BY DEF Rec, Off
    <3>1. lo + HeadSize + i <= Sound
      BY <1>2, <1>5, Sizes
    <3> QED
      BY <3>1, <1>3, <1>5 DEF Body
  <2> QED
    BY <2>1, <1>4, <1>7 DEF CrcMatches
<1> QED
  BY <1>6, <1>7

\* No header of an intact record is among the damaged bytes.
LEMMA NotDamaged ==
  ASSUME IInv, reading, lo < hi, lo = damaged, NEW h \in Heads(file), lo <= h, h < hi, h < Sound,
         Intact(Rec(file, h)), h < ends[Rec(file, h)]
  PROVE  FALSE
<1>1. PICK r \in 1..Len(lens) : r = Rec(file, h)
  BY Reading DEF AllHeads
<1>2. h \in Nat /\ lo \in Nat /\ hi \in Nat /\ Len(lens) \in Nat /\ r \in Nat
  BY Reading, HeadsAre
<1>3. ends[r] \in Nat /\ Intact(r) /\ h < ends[r]
  BY <1>1, IntactEnd
<1>4. PICK d \in Nat : d = damaged
  BY <1>2
<1>5. PICK b \in Bases : b <= lo /\ hi <= b + BlockSize
  BY Reading DEF PlaceAt
<1>6. b \in Nat /\ b <= d /\ d < b + BlockSize
  BY <1>2, <1>4, <1>5, BasesAre, Sizes
<1>7. (d \div BlockSize + 1) * BlockSize = b + BlockSize
  BY <1>6, BlockOf
<1>8. h + 1 \in DamagedBytes
  <2>1. DamagedBytes = (d + 1)..(b + BlockSize)
    BY <1>4, <1>7 DEF DamagedBytes
  <2> QED
    BY <2>1, <1>2, <1>4, <1>5, <1>6, Sizes
<1>9. PICK st : st = IF r = 1 THEN 0 ELSE ends[r - 1]
  OBVIOUS
<1>10. damaged # NoFault
  BY <1>4 DEF NoFault
<1>11. \A i \in st + 1 .. ends[r] : i \in DamagedBytes => file[i] = Pad
  BY <1>3, <1>9, <1>10 DEF Intact
<1>12. st \in Nat /\ st <= h
  <2>1. r > 1 => ends[r - 1] \in 1..h
    BY <1>1, Reading, HeadIsSound DEF Truthful
  <2> QED
    BY <2>1, <1>2, <1>9
<1>13. h + 1 \in st + 1 .. ends[r]
  BY <1>2, <1>3, <1>12
<1> QED
  BY <1>8, <1>11, <1>13, HeadCell

LEMMA BadRecordOk ==
  ASSUME IInv, reading, Buffered >= HeadSize, NEW ln \in LengthAt(lo),
         HeadSize + ln > Buffered \/ ~CrcMatches(lo, ln), BadRecord,
         UNCHANGED <<file, block_offset_, slice, ends, lens, broken, damaged, reading>>
  PROVE  IInv'
<1>1. lo' = hi /\ hi' = hi /\ eof_' = eof_ /\ buffer' = buffer /\ records' = records
  BY DEF BadRecord
<1>2. lo \in Nat /\ hi \in Nat /\ lo < hi /\ Len(file) \in Nat /\ hi <= Len(file) /\ Sound \in Nat
  BY Reading, Sizes DEF Buffered
<1>3. PlaceAt(hi, hi, eof_)
  <2>1. \A h \in Heads(file) : h < hi /\ End(file, h) <= Sound => End(file, h) <= hi
    BY EndsInside
  <2>2. (eof_ => hi = Len(file)) /\ (~eof_ => hi \in Bases)
    BY Reading DEF PlaceAt
  <2> QED
    BY <2>1, <2>2, <1>2, Sizes DEF PlaceAt
<1>4. ASSUME lo < Sound, lo # damaged, NEW h \in Heads(file), lo < h
      PROVE  Sound <= h
  <2>1. lo \in Heads(file) /\ End(file, lo) > Sound
    BY <1>4, NotWhole
  <2>2. Body(file, lo, Sound)
    BY <2>1, <1>4, Reading, HeadIsSound
  <2>3. h \in Nat /\ End(file, lo) \in Nat
    BY <2>1, Reading, HeadsAre
  <2>4. h < Sound => End(file, lo) <= h
    BY <2>1, <2>2, <1>2, <1>4, Reading, BodyHasNoHeads
  <2> QED
    BY <2>1, <2>3, <2>4, <1>2
<1>5. ASSUME NEW r \in 1..Len(lens), Intact(r), ends[r] <= hi
      PROVE  ends[r] <= lo
  <2> SUFFICES ASSUME lo < ends[r]
               PROVE  FALSE
    BY <1>2, <1>5, IntactEnd
  <2>1. ends[r] \in Nat /\ ends[r] <= Sound
    BY <1>5, IntactEnd
  <2>2. PICK h \in Heads(file) : Rec(file, h) = r /\ Ending(file, h) /\ End(file, h) = ends[r]
    BY <1>5, IntactEnd
  <2>3. h \in Nat /\ h < End(file, h)
    BY Reading, HeadsAre
  <2>4. ~(h < lo)
    <3>1. ASSUME h < lo
          PROVE  FALSE
      <4>1. End(file, h) <= lo
        BY <2>1, <2>2, <3>1, Reading DEF PlaceAt
      <4> QED
        BY <4>1, <2>1, <2>2, <1>2
    <3> QED
      BY <3>1
  <2>5. lo < Sound /\ h < Sound /\ h < hi /\ lo <= h
    BY <2>1, <2>2, <2>3, <2>4, <1>2, <1>5
  <2>6. CASE lo = damaged
    BY <2>2, <2>3, <2>5, <2>6, <1>2, <1>5, NotDamaged
  <2>7. CASE lo # damaged
    <3>1. CASE lo < h
      BY <3>1, <2>3, <2>5, <2>7, <1>2, <1>4
    <3>2. CASE lo = h
      <4>1. End(file, lo) > Sound
        BY <2>5, <2>7, NotWhole
      <4> QED
        BY <4>1, <3>2, <2>1, <2>2, <1>2
    <3> QED
      BY <3>1, <3>2, <2>3, <2>5, <1>2
  <2> QED
    BY <2>6, <2>7
<1>6. RecordsAt(hi, records)
  <2>1. \A i \in 1..Len(records), h \in Heads(file) : hi <= h => RecordOf(records[i]) < Rec(file, h)
    <3> SUFFICES ASSUME NEW i \in 1..Len(records), NEW h \in Heads(file), hi <= h
                 PROVE  RecordOf(records[i]) < Rec(file, h)
      OBVIOUS
    <3>1. h \in Nat /\ lo <= h
      BY <1>2, Reading, HeadsAre
    <3> QED
      BY <3>1, Reading DEF RecordsAt
  <2>2. \A r \in 1..Len(lens) : Intact(r) /\ ends[r] <= hi => \E i \in 1..Len(records) : records[i] = Record(r)
    BY <1>5, Reading DEF RecordsAt
  <2>3. RecordsAt(lo, records)
    BY Reading
  <2> QED
    BY ONLY <2>1, <2>2, <2>3 DEF RecordsAt
<1>7. BufferAt(hi, buffer)
  <2> SUFFICES ASSUME NEW q \in Heads(file), q < Sound, hi <= q, NoHeads(file, hi, q),
                      ~Beginning(file, q), Intact(Rec(file, q))
               PROVE  FALSE
    BY DEF BufferAt
  <2>1. q \in Nat /\ lo < q /\ lo < Sound
    BY <1>2, Reading, HeadsAre
  <2>2. lo = damaged
    BY <2>1, <1>2, <1>4
  <2>3. lo \in Heads(file)
    BY <2>1, Reading DEF PlaceAt, Buffered
  <2>4. PICK h \in Heads(file) : h < q /\ NoHeads(file, h + 1, q) /\ Continues(file, h, q)
    BY Reading, HeadIsSound DEF HasFirst
  <2>5. h \in Nat /\ h < Sound /\ h < End(file, h) /\ End(file, h) \in Nat
    BY <2>1, <2>4, <1>2, Reading, HeadsAre
  <2>6. lo <= h
    <3>1. ASSUME h < lo
          PROVE  FALSE
      <4>1. h + 1 <= lo
        BY <3>1, <2>5, <1>2
      <4> QED
        BY <4>1, <2>1, <2>3, <2>4 DEF NoHeads
    <3> QED
      BY <3>1, <2>5, <1>2
  <2>7. h < hi
    BY <2>4, <2>5, <1>2 DEF NoHeads
  <2>8. Intact(Rec(file, h)) /\ ~Ending(file, h)
    BY <2>4 DEF Continues
  <2>9. PICK r \in 1..Len(lens) : r = Rec(file, h)
    BY Reading DEF AllHeads
  <2>10. ends[r] = 0 \/ End(file, h) < ends[r]
    BY <2>5, <2>8, <2>9, Reading, HeadIsSound DEF Truthful
  <2>11. ends[r] \in Nat /\ ends[r] >= 1
    BY <2>8, <2>9, IntactEnd
  <2>12. h < ends[Rec(file, h)]
    BY <2>5, <2>9, <2>10, <2>11
  <2> QED
    BY <2>2, <2>5, <2>6, <2>7, <2>8, <2>12, <1>2, NotDamaged
<1>8. lo' \in Nat /\ hi' \in Nat /\ eof_' \in BOOLEAN /\ buffer' \in Seq(Cells) /\ records' \in Seq(Seq(Cells))
  BY <1>1, <1>2 DEF IInv, TypeOK
<1>9. PlaceAt(lo', hi', eof_') /\ RecordsAt(lo', records') /\ BufferAt(lo', buffer')
  BY <1>1, <1>3, <1>6, <1>7
<1> QED
  BY ONLY IInv, reading, <1>8, <1>9, ReaderStep,
     UNCHANGED <<file, block_offset_, slice, ends, lens, broken, damaged, reading>>

LEMMA ReadFragmentOk ==
  ASSUME IInv, ReadFragment
  PROVE  IInv'
<1>1. reading /\ UNCHANGED <<file, block_offset_, slice, ends, lens, broken, damaged, reading>>
  BY DEF ReadFragment, writerVars
<1>2. CASE Buffered < HeadSize /\ ~eof_ /\ ReadBlock /\ UNCHANGED <<buffer, records>>
  BY ONLY IInv, <1>1, <1>2, ReadBlockOk
<1>3. ASSUME Buffered >= HeadSize, NEW ln \in LengthAt(lo),
             IF HeadSize + ln > Buffered \/ ~CrcMatches(lo, ln)
             THEN BadRecord
             ELSE /\ lo' = lo + HeadSize + ln
                  /\ TakeFragment(file[lo + 1].type, SubSeq(file, lo + HeadSize + 1, lo + HeadSize + ln))
                  /\ UNCHANGED <<hi, eof_>>
      PROVE  IInv'
  <2>1. CASE HeadSize + ln > Buffered \/ ~CrcMatches(lo, ln)
    <3>1. BadRecord
      BY <1>3, <2>1
    <3> QED
      BY ONLY IInv, <1>1, <1>3, <2>1, <3>1, BadRecordOk, ln \in LengthAt(lo)
  <2>2. CASE ~(HeadSize + ln > Buffered \/ ~CrcMatches(lo, ln))
    <3>1. /\ lo' = lo + HeadSize + ln
          /\ TakeFragment(file[lo + 1].type, SubSeq(file, lo + HeadSize + 1, lo + HeadSize + ln))
          /\ hi' = hi /\ eof_' = eof_
      BY <1>3, <2>2
    <3>2. CrcMatches(lo, ln)
      BY <2>2
    <3>3. HeadSize + ln <= Buffered
      <4>1. ln \in Nat
        <5>1. file[lo + 1].kind = "head"
          BY <3>2 DEF CrcMatches, WholeHeader
        <5>2. lo \in Heads(file)
          BY <5>1, <1>1, <1>3, Reading, Sizes DEF Heads, Buffered
        <5>3. ln = Size(file, lo)
          BY <3>2 DEF CrcMatches, LengthAt, Size
        <5> QED
          BY <5>2, <5>3, <1>1, Reading, HeadsAre
      <4> QED
        BY <4>1, <2>2, <1>1, Reading, Sizes DEF Buffered
    <3>4. /\ lo \in Heads(file)
          /\ ln = Size(file, lo)
          /\ End(file, lo) <= hi
          /\ End(file, lo) = lo + HeadSize + ln
          /\ Body(file, lo, Len(file))
          /\ SubSeq(file, lo + HeadSize + 1, lo + HeadSize + ln) = Payload(Rec(file, lo), Off(file, lo), ln)
      BY ONLY IInv, <1>1, <1>3, <3>2, <3>3, CrcShows, ln \in LengthAt(lo)
    <3>5. lo' = End(file, lo)
      BY ONLY <3>1, <3>4
    <3>6. TakeFragment(file[lo + 1].type, Payload(Rec(file, lo), Off(file, lo), Size(file, lo)))
      BY ONLY <3>1, <3>4
    <3>7. lo \in Heads(file) /\ End(file, lo) <= hi /\ Body(file, lo, Len(file)) /\ hi' = hi /\ eof_' = eof_
      BY <3>1, <3>4
    <3> QED
      BY ONLY IInv, <1>1, <3>5, <3>6, <3>7, TakeFragmentOk
  <2> QED
    BY <2>1, <2>2
<1> QED
  BY <1>2, <1>3 DEF ReadFragment

----------------------------------------------------------------------------
(* The theorems.                                                           *)

\* The inductive invariant holds, for every block size and every length of records:
\* headers stand where the reader looks for them, and what it has collected and
\* returned is what was written (log_writer.cc, log_reader.cc).
THEOREM Invariance == LogSpec => []IInv
<1>1. LogInit => IInv
  BY InitOk
<1>2. IInv /\ [LogNext]_logVars => IInv'
  <2> SUFFICES ASSUME IInv, [LogNext]_logVars
               PROVE  IInv'
    OBVIOUS
  <2>1. ASSUME NEW n \in 1..MaxRecord, AddRecord(n)
        PROVE  IInv'
    BY <2>1, AddRecordOk
  <2>2. CASE WriteFragment
    BY <2>2, WriteFragmentOk
  <2>3. CASE Cut
    BY <2>3, CutOk
  <2>4. CASE Damage
    BY <2>4, DamageOk
  <2>5. CASE ReadFragment
    BY <2>5, ReadFragmentOk
  <2>6. CASE UNCHANGED logVars
    BY <2>6 DEF logVars, IInv, TypeOK, FileInv, Sound, WriterInv, SliceInv, AppendInv, ReaderInv,
                PlaceAt, RecordsAt, BufferAt, Intact, DamagedBytes, Record
  <2> QED
    BY <2>1, <2>2, <2>3, <2>4, <2>5, <2>6 DEF LogNext
<1> QED
  BY <1>1, <1>2, PTL DEF LogSpec

\* A recovery gets every intact record, once and in order, and nothing else when
\* nothing was damaged (Reader::ReadRecord, log_reader.cc:22).
THEOREM LogAlwaysReadsBack == LogSpec => []LogReadsBack
<1>1. IInv => LogReadsBack
  <2> SUFFICES ASSUME IInv, ReadEnds
               PROVE  /\ \A r \in IntactRecords : \E i \in 1..Len(records) : records[i] = Record(r)
                      /\ \A i, j \in 1..Len(records), r, q \in IntactRecords :
                           i < j /\ records[i] = Record(r) /\ records[j] = Record(q) => r < q
                      /\ damaged = NoFault /\ broken = NoFault =>
                           \A i \in 1..Len(records) : \E r \in IntactRecords : records[i] = Record(r)
    BY DEF LogReadsBack
  <2>1. reading /\ eof_ /\ hi - lo < HeadSize
    BY DEF ReadEnds, Buffered
  <2>2. hi = Len(file) /\ RecordsAt(lo, records)
    BY <2>1, Reading DEF PlaceAt
  <2>3. ASSUME NEW r \in IntactRecords
        PROVE  \E i \in 1..Len(records) : records[i] = Record(r)
    <3>1. r \in 1..Len(lens) /\ Intact(r)
      BY DEF IntactRecords
    <3>2. ends[r] <= lo
      BY <3>1, <2>1, <2>2, IntactEnd, NoEndLeft
    <3> QED
      BY <3>1, <3>2, <2>2 DEF RecordsAt
  <2>4. ASSUME NEW r \in IntactRecords
        PROVE  RecordOf(Record(r)) = r
    <3>1. r \in 1..Len(lens) /\ lens \in Seq(Nat \ {0})
      BY DEF IntactRecords, IInv, TypeOK
    <3>2. r \in Nat /\ lens[r] \in Nat /\ lens[r] >= 1
      BY <3>1
    <3> QED
      BY <3>2, RecordOfPayload DEF Record
  <2>5. ASSUME NEW i \in 1..Len(records), NEW j \in 1..Len(records), NEW r \in IntactRecords,
               NEW q \in IntactRecords, i < j, records[i] = Record(r), records[j] = Record(q)
        PROVE  r < q
    <3>1. RecordOf(records[i]) < RecordOf(records[j])
      BY <2>2, <2>5 DEF RecordsAt
    <3>2. RecordOf(Record(r)) < RecordOf(Record(q))
      BY ONLY <3>1, <2>5
    <3> QED
      BY <3>2, <2>4
  <2>6. ASSUME damaged = NoFault, broken = NoFault, NEW i \in 1..Len(records)
        PROVE  \E r \in IntactRecords : records[i] = Record(r)
    BY <2>2, <2>6 DEF RecordsAt, IntactRecords
  <2> QED
    BY ONLY <2>3, <2>5, <2>6
<1> QED
  BY <1>1, Invariance, PTL
=============================================================================
