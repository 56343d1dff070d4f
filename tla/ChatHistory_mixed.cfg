CONSTANTS
  MaxQuestions = 3  MaxAnswers = 4  MaxCalls = 2
  Menus <- Mixed
  Null = Null
SPECIFICATION Spec
INVARIANTS LinksAgree ShownIsLeaf QuestionsAnswered UndoneWorked
PROPERTIES OnlyDoneDamaged TreeSpec
CHECK_DEADLOCK FALSE
