------------------------------- MODULE MCSCD2 -------------------------------
(* SCD2 with interchangeable keys and values. *)
EXTENDS SCD2, TLC

Symmetry == Permutations(Keys) \cup Permutations(Values)
=============================================================================
