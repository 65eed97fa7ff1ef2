---------------------------- MODULE MCREPLPool ----------------------------
(***************************************************************************)
(* Small instances of REPLPool: goroutines and REPLs are interchangeable,  *)
(* so the safety runs use their permutations as symmetry.                  *)
(***************************************************************************)
EXTENDS REPLPool, TLC

Symmetry == Permutations(Workers) \cup Permutations(REPLs)
=============================================================================
