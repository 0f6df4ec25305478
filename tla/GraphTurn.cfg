SPECIFICATION Spec
CONSTANTS
  MaxSteps = 3
  MaxTools = 4
  Files = {f1}
INVARIANTS
  TypeOK
  GateSeesLatestDispatch
  AcceptedCodeWasJudged
  RepairIsByNewCode
  DiffsDeliveredInOrder
  MutatingStepsAreReported
  NoFilesClaimCoversSteps
PROPERTIES
  TurnEnds
  RefinesStepRunner
CHECK_DEADLOCK FALSE
