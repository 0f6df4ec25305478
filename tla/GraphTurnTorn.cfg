SPECIFICATION Safe
CONSTANTS
  MaxSteps = 2
  MaxTools = 3
  Files = {f1}
INVARIANTS
  NoFilesClaimIsTrue
CHECK_DEADLOCK FALSE
