----------------------------- MODULE MCShootAuth -----------------------------
(***************************************************************************)
(* Small instances of ShootAuth for TLC.                                   *)
(***************************************************************************)
EXTENDS ShootAuth

CONSTANTS s1, s2, own

(* The second Shoot has a ConfigMap of its own, or none has.                *)
OneOwn == [s \in Shoots |-> IF s = s2 THEN own ELSE None]
NoneOwn == [s \in Shoots |-> None]
=============================================================================
