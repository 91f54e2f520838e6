---------------------------- MODULE MCTableCache ----------------------------
(* Instance of TableCache for TLC: three tables, two of which share a hash   *)
(* bucket until the table has grown.                                         *)
EXTENDS TableCache, TLC

MCHash == (1 :> 0) @@ (2 :> 2) @@ (3 :> 1)
Symmetry == Permutations(Threads)
=============================================================================
