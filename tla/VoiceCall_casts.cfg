CONSTANTS
  MaxUtterances = 2
  MaxModels = 2
  MaxSentences = 2
  Undefined = Undefined
  Casts <- AllCasts
SPECIFICATION CastSpec
INVARIANT NothingDropped
PROPERTIES ListensAgain SpeaksInTurn
CHECK_DEADLOCK FALSE
