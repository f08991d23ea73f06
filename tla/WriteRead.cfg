\* Three steps, five tries: the Null Response limit and the try limit differ.
CONSTANTS
  StepLast = 2
  StepFloor = 0
  Lookback = 2
  MinDecrementLookback = 2
  AdjustmentInterval = 2
  MaxTries = 5
  InitialStep = 1
  NullMsgAdjustment = TRUE
  NoStep = NoStep
SPECIFICATION FairSpec
INVARIANTS LoopState
PROPERTIES ResultIsTrue GivesUpAtSlowestStep TroubleSlowsDown SpeedUpIsEarned OperationsReturn
