-------------------------- MODULE MCGardenManagers --------------------------
(***************************************************************************)
(* Small instances of GardenManagers for TLC.                              *)
(***************************************************************************)
EXTENDS GardenManagers, TLC

CONSTANTS m1, m2, m3, k1, k2

(* Two CareInstructions with one name in two namespaces, and one alone.     *)
OneCareInstruction == {[namespace |-> "org1", name |-> "ci"]}
TwoCareInstructions == OneCareInstruction \cup {[namespace |-> "org2", name |-> "ci"]}

(* Two revisions of a spec on one garden, with or without a ConfigMap.      *)
SpecsNoAuth == {[garden |-> "garden", auth |-> None, rev |-> r] : r \in 1 .. 2}
OneSpecNoAuth == {[garden |-> "garden", auth |-> None, rev |-> 1]}
SpecsWithAndWithoutAuth == {[garden |-> "garden", auth |-> x, rev |-> 1] : x \in {"auth", None}}
OneSpecWithAuth == {[garden |-> "garden", auth |-> "auth", rev |-> 1]}

(* Managers are interchangeable, and so are REST configs.                   *)
Symmetry == {p @@ q : p \in Permutations(Managers), q \in Permutations(Configs)}
=============================================================================
