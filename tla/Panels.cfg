SPECIFICATION EscSpec
CONSTANTS
  NModels = 2
  NRows = 1
  NEntries = 2
  NOptions = 2
INVARIANTS TypeOK BothHalvesAgree
PROPERTIES KeysChangeOnlyWhereOpened EscGivesThePromptBack
CHECK_DEADLOCK FALSE
