CONSTANTS
  CareInstructions <- OneCareInstruction
  Specs <- OneSpecWithAuth
  Gardens = {"garden"}
  KubeconfigGardens = {}
  AuthNames = {"auth"}
  Contents = {1, 2}
  Configs = {k1, k2}
  k1 = k1
  k2 = k2
  m1 = m1
  m2 = m2
  m3 = m3
  Managers = {m1, m2, m3}
  None = None
  FirstContent = None
  AuthRollback = TRUE
  MaxEdits = 2
  MaxFaults = 1
SPECIFICATION Spec
SYMMETRY Symmetry
INVARIANTS TypeOK GardenClientSet AtRestHasManager RestInv
CHECK_DEADLOCK FALSE
PROPERTY ImplementsShootControllers
