\* Two persons, two labels, two keys with two values.
CONSTANTS
  Person = {p1, p2}
  Nobody = Nobody
  Local = Local
  Label = {l1, l2}
  NoLabel = NoLabel
  Name = {n1, n2}
  Value = {v1, v2}
  NoValue = NoValue
  Nickname = {Local}
  HandPolicy <- OwnerAndOne
SYMMETRY Symmetry
SPECIFICATION Spec
INVARIANT RunAndUnlockAgree
PROPERTY WritesOnlyForConfigured
PROPERTY WritesInsidePolicy
PROPERTY WrittenPassesVerify
PROPERTY NoAccidentalWipe
PROPERTY OthersUntouched
PROPERTY ConfiguredKeepAccess
