SPECIFICATION FairSpec
CONSTANTS
  k1 = k1
  k2 = k2
  k3 = k3
  k4 = k4
  NoKey = NoKey
  Key = {k1, k2}
  Foreign = {}
  Origin = {"new", "plaintext", "extension"}
  Command = {"upgrade", "migrate"}
  Answer = {"ok", "refused", "error"}
  Fault = {"abort", "nocopy", "nounlink"}
  MaxWrap = 4
  MaxFault = 2
PROPERTIES
  UpgradeConverges
  UsableKeyStable
CHECK_DEADLOCK FALSE
