\* Two persons, two labels, two keys with one value.
CONSTANTS
  Person = {p1, p2}
  Nobody = Nobody
  Local = Local
  Label = {l1, l2}
  NoLabel = NoLabel
  Name = {n1, n2}
  Value = {v1}
  NoValue = NoValue
  Nickname = {Local}
  HandPolicy <- OwnerAndOne
SYMMETRY Symmetry
SPECIFICATION Spec
PROPERTY SameRecipients
