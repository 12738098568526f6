CONSTANTS
  s1 = s1
  s2 = s2
  own = own
  Shoots = {s1, s2}
  Names = {default, own}
  Default = default
  FirstRef <- OneOwn
  Contents = {"v1", "v2"}
  Foreign = "foreign"
  None = None
  Controllers = {k1, k2}
  First = k1
  Tampering = TRUE
  Overlap = TRUE
  MaxEdits = 2
  MaxFaults = 1
SPECIFICATION FairSpec
INVARIANTS TypeOK AtRestCopied NoDanglingReference IInv
PROPERTIES SoleOwner AppliedIfUndisturbed
CHECK_DEADLOCK FALSE
