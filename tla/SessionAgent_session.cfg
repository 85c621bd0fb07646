\* Two clients, three daemons.
CONSTANTS
  Client = {p1, p2}
  Agent = {a1, a2, a3}
  NoAgent = NoAgent
  IdleTtl = 1
  Absolute = 2
SYMMETRY Symmetry
SPECIFICATION Spec
INVARIANT KeyExpires
INVARIANT StopHolds
INVARIANT HeldIsReachable
INVARIANT ReachInvariant
PROPERTY ActsAsOneCell
