SPECIFICATION Spec
CONSTANTS
  MaxGeneration = 3
  MaxDepth = 3
  NOTHING = NOTHING
INVARIANTS NoForeignResponse
PROPERTIES ToldInOrder ExchangeEnds
CHECK_DEADLOCK FALSE
