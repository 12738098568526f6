CONSTANTS
  s1 = s1
  s2 = s2
  own = own
  Shoots = {s1, s2}
  Names = {default}
  Default = default
  FirstRef <- NoneOwn
  Contents = {"v1", "v2"}
  Foreign = "foreign"
  None = None
  Controllers = {k1, k2}
  First = k1
  Tampering = FALSE
  Overlap = FALSE
  MaxEdits = 1
  MaxFaults = 0
SPECIFICATION FairSpec
PROPERTY Applied
CHECK_DEADLOCK FALSE
