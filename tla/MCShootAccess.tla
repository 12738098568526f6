--------------------------- MODULE MCShootAccess ----------------------------
(***************************************************************************)
(* ShootAccess for TLC: three specs that give a plain key two values, and  *)
(* claim a reserved key and the workerless key.                            *)
(***************************************************************************)
EXTENDS ShootAccess

CONSTANTS k, url, other

MCKeys == {k, url, other, Workerless}

MCSpecs ==
  {[keys |-> {k, url}, val |-> "v1", rbac |-> TRUE],
   [keys |-> {k}, val |-> "v2", rbac |-> TRUE],
   [keys |-> {Workerless}, val |-> "v1", rbac |-> FALSE]}
=============================================================================
