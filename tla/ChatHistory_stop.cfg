CONSTANTS
  MaxQuestions = 3  MaxAnswers = 4  MaxCalls = 2
  Menus <- Stops
  Null = Null
SPECIFICATION Spec
INVARIANT StopReaches
CHECK_DEADLOCK FALSE
