CONSTANTS
  a = a
  b = b
  g = g
  h = h
  Owners = {a}
  Gardens = {g}
  GardenOf <- SameGarden
  ByLabel = {}
  ByState = {}
  URLs = {"u1"}
  CAs = {"c1"}
  None = None
  Restarts = {a}
  Hasty = FALSE
  Moves = TRUE
  MaxEdits = 2
  MaxFaults = 0
SPECIFICATION FairSpec
PROPERTY CleanedUp
CHECK_DEADLOCK FALSE
