------------------------------- MODULE Files -------------------------------
(***************************************************************************)
(* The two file formats of the engine: a log that is written, loses bytes  *)
(* and is read back, or an SSTable that is built and read.  The formats    *)
(* share no state, so a behaviour has one file of either kind.             *)
(***************************************************************************)
EXTENDS LogFormat, SSTable

vars == <<logVars, tableVars>>

Init == LogInit /\ TableInit

Next ==
  \/ TableInit /\ LogNext /\ UNCHANGED tableVars
  \/ LogInit /\ TableNext /\ UNCHANGED logVars

Spec == Init /\ [][Next]_vars
=============================================================================
