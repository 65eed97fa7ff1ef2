-------------------------- MODULE MCSharedSession --------------------------
(***************************************************************************)
(* Small instances of SharedSession.                                       *)
(***************************************************************************)
EXTENDS SharedSession, TLC

Symmetry == Permutations(Workers) \cup Permutations(Sessions)
=============================================================================
