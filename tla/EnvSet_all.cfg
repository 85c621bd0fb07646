\* .env and another file, two commands at a time.
CONSTANTS
  Dot = Dot
  local = local
  f1 = f1
  f2 = f2
  File = {Dot, local}
  Flow = {f1, f2}
  NoFile = NoFile
  Blank = Blank
  Foreign = Foreign
  MaxVersion = 2
SYMMETRY Symmetry
SPECIFICATION Spec
INVARIANT TypeOK
INVARIANT LossNeedsLateSave
INVARIANT DotNeedsCrossing
PROPERTY DeletedOpened
CHECK_DEADLOCK FALSE
