\* Features the monitor does not have, which it says with Null Responses.
CONSTANTS
  StepLast = 2
  StepFloor = 0
  Lookback = 2
  MinDecrementLookback = 2
  AdjustmentInterval = 2
  MaxTries = 5
  InitialStep = 1
  NullMsgAdjustment = TRUE
  NoStep = NoStep
SPECIFICATION FairSpec
PROPERTY UnsupportedDoesNotSlowDown
