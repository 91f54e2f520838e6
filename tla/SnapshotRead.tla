---------------------------- MODULE SnapshotRead ----------------------------
(***************************************************************************)
(* What Get needs of a memtable that is written while it is read: a read   *)
(* that began when sequence numbers up to s were published returns the     *)
(* newest entry of its user key among the first s, whatever was inserted   *)
(* meanwhile.  The i-th entry inserted has sequence number i.  Module      *)
(* MemTable shows that the skip list implements this.                      *)
(***************************************************************************)
EXTENDS Naturals, Sequences

CONSTANTS Readers, Entries, UserKey(_), UserKeys

VARIABLES
  log,         \* the entries inserted so far
  published,   \* the last sequence number readers may use
  get          \* by reader: its key, its snapshot, and what it found

readVars == <<log, published, get>>

NotFound == 0

\* The sequence number of the newest entry of user key k up to s.
Newest(k, s) ==
  LET of == {i \in 1..s : UserKey(log[i]) = k}
  IN  IF of = {} THEN NotFound ELSE CHOOSE i \in of : \A j \in of : j <= i

Idle == [key |-> NotFound, seq |-> 0, found |-> NotFound, done |-> FALSE]

Init ==
  /\ log = <<>> /\ published = 0
  /\ get = [r \in Readers |-> Idle]

Insert ==
  /\ \E e \in Entries : log' = Append(log, e)
  /\ UNCHANGED <<published, get>>

Publish ==
  /\ published' \in published..Len(log)
  /\ UNCHANGED <<log, get>>

Begin(r) ==
  /\ \E k \in UserKeys :
       get' = [get EXCEPT ![r] = [key |-> k, seq |-> published, found |-> NotFound,
                                  done |-> FALSE]]
  /\ UNCHANGED <<log, published>>

Finish(r) ==
  /\ get[r] # Idle /\ ~get[r].done
  /\ get' = [get EXCEPT ![r] = [key |-> get[r].key, seq |-> get[r].seq,
                                found |-> Newest(get[r].key, get[r].seq), done |-> TRUE]]
  /\ UNCHANGED <<log, published>>

Next ==
  \/ Insert
  \/ Publish
  \/ \E r \in Readers : Begin(r) \/ Finish(r)

Spec == Init /\ [][Next]_readVars
=============================================================================
