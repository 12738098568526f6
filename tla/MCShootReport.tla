--------------------------- MODULE MCShootReport ----------------------------
(***************************************************************************)
(* ShootReport for TLC. The names are interchangeable, but the run checks  *)
(* liveness and uses no symmetry.                                          *)
(***************************************************************************)
EXTENDS ShootReport
=============================================================================
