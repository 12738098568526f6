CONSTANTS
  a = a
  b = b
  g = g
  h = h
  Owners = {a, b}
  Gardens = {g}
  GardenOf <- SameGarden
  ByLabel = {a}
  ByState = {a, b}
  URLs = {"u1", "u2"}
  CAs = {"c1", "c2"}
  None = None
  Restarts = {a, b}
  Hasty = FALSE
  Moves = TRUE
  MaxEdits = 3
  MaxFaults = 1
SPECIFICATION FairSpec
INVARIANTS TypeOK AtRestOnboarded IInv
PROPERTIES Onboarded SecretCurrent CleanedUpIfAttentive DeletesOnlyOnboarded
CHECK_DEADLOCK FALSE
