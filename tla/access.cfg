CONSTANTS
  k = k
  url = url
  other = other
  Workerless = wl
  Keys <- MCKeys
  Reserved = {url}
  Values = {"v1", "v2"}
  Foreign = "foreign"
  Own = "own"
  None = None
  Specs <- MCSpecs
  Controllers = {k1, k2}
  First = k1
  MaxEdits = 2
  MaxFaults = 2
SPECIFICATION FairSpec
INVARIANTS TypeOK NoForgottenAnnotation AtRestSecret IInv
PROPERTIES ForeignKept AccessSettles
CHECK_DEADLOCK FALSE
