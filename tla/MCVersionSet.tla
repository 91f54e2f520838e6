---------------------------- MODULE MCVersionSet ----------------------------
(* Instance of VersionSet for TLC. *)
EXTENDS VersionSet, TLC

Symmetry == Permutations(Readers)
=============================================================================
