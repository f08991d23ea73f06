SPECIFICATION Spec
CONSTANTS
  Buses = {1, 2}
  MaxChanges = 3
  MaxAge = 1
  Durations = {1}
  StabilizeAdded = FALSE
  NoBus = NoBus
  NoEntry = NoEntry
INVARIANTS
  KnownHasDisplay
\* abort() and dw_stop_watch_displays stop the threads.
CHECK_DEADLOCK FALSE
