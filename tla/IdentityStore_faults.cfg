SPECIFICATION Spec
CONSTANTS
  k1 = k1
  k2 = k2
  k3 = k3
  k4 = k4
  NoKey = NoKey
  Key = {k1, k2, k3}
  Foreign = {k3}
  Origin = {"new", "plaintext", "extension"}
  Command = {"init", "extInit", "import", "extImport", "recover", "upgrade", "migrate", "legacy"}
  Answer = {"ok", "refused", "error"}
  Fault = {"abort", "nocopy", "nounlink", "wipe", "nohelper", "corrupt"}
  MaxWrap = 3
  MaxFault = 1
SYMMETRY Symmetry
INVARIANTS
  UpgradeKeepsCopy
  PairConsistent
  MigrationKeepsWrapKey
CHECK_DEADLOCK FALSE
