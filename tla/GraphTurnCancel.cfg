SPECIFICATION Spec
CONSTANTS
  MaxSteps = 2
  MaxTools = 3
  Files = {f1}
PROPERTIES
  NoBackgroundWrites
CHECK_DEADLOCK FALSE
