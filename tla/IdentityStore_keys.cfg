SPECIFICATION Spec
CONSTANTS
  k1 = k1
  k2 = k2
  k3 = k3
  k4 = k4
  NoKey = NoKey
  Key = {k1, k2, k3, k4}
  Foreign = {k4}
  Origin = {"new", "extension"}
  Command = {"init", "extInit", "import", "extImport", "upgrade", "migrate", "legacy"}
  Answer = {"ok", "refused"}
  Fault = {"abort", "nocopy", "nounlink"}
  MaxWrap = 3
  MaxFault = 2
SYMMETRY Symmetry
INVARIANTS
  TypeOK
  KeyInvariant
  KeyRecoverable
CHECK_DEADLOCK FALSE
