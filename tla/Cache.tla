------------------------------- MODULE Cache --------------------------------
(***************************************************************************)
(* What include/cache.h promises its clients: a record inserted under a    *)
(* key stays bound to it until it is replaced, erased or, when no client   *)
(* holds a handle to it, evicted; and a record is deleted exactly when it  *)
(* is neither bound nor held ("the record will be kept until the handle    *)
(* point to it is release").  Which unheld records are evicted is left     *)
(* open.  Module TableCache shows that the LRU cache implements this.      *)
(***************************************************************************)
EXTENDS FiniteSets

CONSTANTS
  Keys,
  Clients,
  Records,   \* identities a record can have; one is reused once it is deleted
  None       \* neither a record nor a key: no handle, no binding

VARIABLES
  bound,     \* by key: the record Lookup finds
  held,      \* by client: the record it has a handle to
  alive      \* the records not yet given to their deleter

cacheVars == <<bound, held, alive>>

Reached(b, h) == ({b[k] : k \in Keys} \cup {h[c] : c \in Clients}) \ {None}

Init ==
  /\ bound = [k \in Keys |-> None]
  /\ held = [c \in Clients |-> None]
  /\ alive = {}

\* The deleter runs for what no key and no client reaches any more.
Settle == alive' = Reached(bound', held')

Unheld(k) == \A c \in Clients : held[c] # bound[k]

Lookup(c, k) ==
  /\ held[c] = None /\ bound[k] # None
  /\ held' = [held EXCEPT ![c] = bound[k]]
  /\ bound' = bound
  /\ Settle

Insert(c, k) ==
  /\ held[c] = None
  /\ \E r \in Records \ alive, evicted \in SUBSET {j \in Keys \ {k} : Unheld(j)} :
       /\ held' = [held EXCEPT ![c] = r]
       /\ bound' = [j \in Keys |-> IF j = k THEN r ELSE IF j \in evicted THEN None ELSE bound[j]]
  /\ Settle

Release(c) ==
  /\ held[c] # None
  /\ held' = [held EXCEPT ![c] = None]
  /\ bound' = bound
  /\ Settle

Erase(k) ==
  /\ bound' = [bound EXCEPT ![k] = None]
  /\ held' = held
  /\ Settle

\* The cache is destroyed, which no client may see.
Destroy ==
  /\ \A c \in Clients : held[c] = None
  /\ bound' = [k \in Keys |-> None]
  /\ held' = held
  /\ Settle

Next ==
  \/ \E c \in Clients, k \in Keys : Lookup(c, k) \/ Insert(c, k)
  \/ \E c \in Clients : Release(c)
  \/ \E k \in Keys : Erase(k)
  \/ Destroy

Spec == Init /\ [][Next]_cacheVars
=============================================================================
