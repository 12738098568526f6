CONSTANTS
  CareInstructions <- OneCareInstruction
  Specs <- SpecsWithAndWithoutAuth
  Gardens = {"garden"}
  KubeconfigGardens = {"garden"}
  AuthNames = {"auth"}
  Contents = {1, 2}
  Configs = {k1, k2}
  k1 = k1
  k2 = k2
  m1 = m1
  m2 = m2
  m3 = m3
  Managers = {m1, m2}
  None = None
  FirstContent = 1
  AuthRollback = FALSE
  MaxEdits = 1
  MaxFaults = 1
SPECIFICATION FairSpec
PROPERTIES Converges DeletionCompletes SpecAppliedUnlessOvertaken AuthApplied
CHECK_DEADLOCK FALSE
