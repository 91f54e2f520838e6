---------------------------- MODULE MCWriteQueue ----------------------------
(* Instance of WriteQueue for TLC: a small batch of one operation and a      *)
(* larger one of two, with limits that let one follower in or stop it.       *)
EXTENDS WriteQueue

MCBatches == {[size |-> 1, count |-> 1], [size |-> 2, count |-> 2]}
=============================================================================
