\* Three directories, three files, two keys; scans from two roots that may overlap and from one.
CONSTANTS
  d1 = d1  d2 = d2  d3 = d3
  f1 = f1  f2 = f2  f3 = f3
  k1 = k1  k2 = k2
  Dir <- MCDir
  File <- MCFile
  Key <- MCKey
  Top = Top
  NoKey = NoKey
  Required = k1
  Tree <- MCTree
  Content <- MCContent
  Scans <- MCScans
  Changes = 1
CHECK_DEADLOCK FALSE
SPECIFICATION Spec
INVARIANT FindsAll
INVARIANT ShallowFirst
INVARIANT BudgetExact
INVARIANT VerdictTrue
INVARIANT ResolvedOpens
