---------------------------- MODULE OrderedTable ----------------------------
(***************************************************************************)
(* What an SSTable promises (include/sstable_builder.h, sstable_reader.h,  *)
(* iterator.h): the keys that were added, in their order, and cursors over *)
(* them.  pos is the cursor: the place of its entry, 0 when it is not      *)
(* Valid().                                                                *)
(***************************************************************************)
EXTENDS Naturals, Sequences

CONSTANTS
  Keys,         \* the keys that can be added or sought
  Before(_, _)  \* the comparator

VARIABLES
  entries,      \* what was added
  closed,       \* the table is finished and open for reading
  pos,
  op            \* the last call on the cursor, so that each has its own result

\* Where the first key that is not before k is; 0 when there is none.
FirstNotBefore(k) ==
  LET found == {i \in 1..Len(entries) : ~Before(entries[i], k)}
  IN  IF found = {} THEN 0 ELSE CHOOSE i \in found : \A j \in found : i <= j

Init == entries = <<>> /\ closed = FALSE /\ pos = 0 /\ op = <<"none">>

Add(k) ==
  /\ ~closed
  /\ entries = <<>> \/ Before(entries[Len(entries)], k)
  /\ entries' = Append(entries, k)
  /\ UNCHANGED <<closed, pos, op>>

Finish == ~closed /\ closed' = TRUE /\ UNCHANGED <<entries, pos, op>>

Move(call, p) ==
  /\ closed
  /\ op' = call
  /\ pos' = p
  /\ UNCHANGED <<entries, closed>>

Next ==
  \/ Finish
  \/ \E k \in Keys : Add(k) \/ Move(<<"Seek", k>>, FirstNotBefore(k))
  \/ Move(<<"SeekToFirst">>, IF entries = <<>> THEN 0 ELSE 1)
  \/ Move(<<"SeekToLast">>, Len(entries))
  \/ pos # 0 /\ Move(<<"Next">>, IF pos = Len(entries) THEN 0 ELSE pos + 1)
  \/ pos # 0 /\ Move(<<"Prev">>, pos - 1)

Spec == Init /\ [][Next]_<<entries, closed, pos, op>>
=============================================================================
