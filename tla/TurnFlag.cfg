SPECIFICATION Safe
CONSTANTS
  MaxTurns = 2
  MaxCommands = 0
  CompactAttempts = 3
INVARIANTS
  InterruptedMeansCancelled
CHECK_DEADLOCK FALSE
