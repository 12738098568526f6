CONSTANTS
  CareInstructions <- TwoCareInstructions
  Specs <- OneSpecNoAuth
  Gardens = {"garden"}
  KubeconfigGardens = {}
  AuthNames = {}
  Contents = {1, 2}
  Configs = {k1}
  k1 = k1
  k2 = k2
  m1 = m1
  m2 = m2
  m3 = m3
  Managers = {m1, m2, m3}
  None = None
  FirstContent = None
  AuthRollback = TRUE
  MaxEdits = 2
  MaxFaults = 0
SPECIFICATION Spec
SYMMETRY Symmetry
INVARIANTS OneControllerPerCareInstruction NoOrphanManager AtRestHasManager IInv
CHECK_DEADLOCK FALSE
