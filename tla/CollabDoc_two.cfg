SPECIFICATION Spec
CONSTANTS
  c1 = c1
  c2 = c2
  Client = {c1, c2}
  MaxEvent = 2
SYMMETRY Symmetry
CHECK_DEADLOCK FALSE
INVARIANTS
  SteadyConverged
  LogComplete
  OneBase
  UsersWatch
