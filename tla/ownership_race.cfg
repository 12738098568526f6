CONSTANTS
  a = a
  b = b
  g = g
  h = h
  Owners = {a, b}
  Gardens = {g}
  GardenOf <- SameGarden
  ByLabel = {}
  ByState = {}
  URLs = {"u1"}
  CAs = {"c1"}
  None = None
  Restarts = {}
  Hasty = FALSE
  Moves = FALSE
  MaxEdits = 2
  MaxFaults = 0
SPECIFICATION Spec
PROPERTY OwnershipStable
CHECK_DEADLOCK FALSE
