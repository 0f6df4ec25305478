SPECIFICATION Spec
CONSTANTS
  MaxTurns = 2
  MaxCommands = 3
  CompactAttempts = 1
INVARIANTS
  TypeOK
  MemoryIsLogMinusTakenBack
  AnswersFollowTheirPrompts
  TurnEndsOnce
PROPERTIES
  PromptIsFreeAgain
CHECK_DEADLOCK FALSE
