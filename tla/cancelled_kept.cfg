CONSTANTS
  CareInstructions <- OneCareInstruction
  Specs <- OneSpecNoAuth
  Gardens = {"garden"}
  KubeconfigGardens = {"garden"}
  AuthNames = {}
  Contents = {1, 2}
  Configs = {k1}
  k1 = k1
  k2 = k2
  m1 = m1
  m2 = m2
  m3 = m3
  Managers = {m1, m2}
  None = None
  FirstContent = None
  AuthRollback = FALSE
  MaxEdits = 1
  MaxFaults = 1
SPECIFICATION Spec
INVARIANT AtRestNotCancelled
CHECK_DEADLOCK FALSE
