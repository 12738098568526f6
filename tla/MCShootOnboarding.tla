-------------------------- MODULE MCShootOnboarding --------------------------
(***************************************************************************)
(* Small instances of ShootOnboarding for TLC.                             *)
(***************************************************************************)
EXTENDS ShootOnboarding

CONSTANTS a, b, g, h

(* Two CareInstructions on one garden, or on one each.                      *)
SameGarden == [o \in Owners |-> g]
OwnGarden == [o \in Owners |-> IF o = a THEN g ELSE h]
=============================================================================
