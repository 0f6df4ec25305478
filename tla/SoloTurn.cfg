SPECIFICATION Spec
CONSTANTS
  MaxIterations = 3
  MaxTools = 2
  Files = {f1, f2}
INVARIANTS
  TypeOK
  EndMarkIsLast
  DoneReportsWhatSucceeded
  ModelCallsAreBounded
  BudgetIsReported
PROPERTIES
  NothingAfterTheTurn
  TurnEnds
CHECK_DEADLOCK FALSE
