SPECIFICATION Spec
CONSTANTS
  N = 3
  Kinds = {read, write}
  Keys = {k1, k2}
INVARIANTS
  TypeOK
  GrantsAreTheUsers
  NothingRunsUngranted
  NoDoublePrompt
  InFlightIsAsked
PROPERTIES
  NoQuestionAfterCancel
  SerialBatchEnds
CHECK_DEADLOCK FALSE
