-------------------------- MODULE MCMaterialization --------------------------
(***************************************************************************)
(* The instance of Materialization that TLC checks: one key and NULL, two  *)
(* times, two interchangeable values, and windows with and without time 2. *)
(***************************************************************************)
EXTENDS Materialization, TLC

MCWindows == {{1}, {1, 2}}

Symmetry == Permutations(Vals)
=============================================================================
