CONSTANTS
  A = A  B = B
  Chat = {A, B}
  MaxTurns = 3  MaxMoves = 3  MaxPages = 3
  Null = Null
SPECIFICATION Spec
INVARIANT ResponsesReady
CHECK_DEADLOCK FALSE
