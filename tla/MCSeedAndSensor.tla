--------------------------- MODULE MCSeedAndSensor ---------------------------
(* The instance of SeedAndSensor that TLC checks: three rows, then two. *)
EXTENDS SeedAndSensor

MCSizes == <<3, 2>>
=============================================================================
