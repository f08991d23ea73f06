\* A sleep multiplier is set while no operation is in progress.
CONSTANTS
  StepLast = 2
  StepFloor = 0
  Lookback = 2
  MinDecrementLookback = 2
  AdjustmentInterval = 2
  MaxTries = 1
  InitialStep = 1
  NullMsgAdjustment = FALSE
  NoStep = NoStep
SPECIFICATION Spec
INVARIANT MultiplierTakesEffect
