SPECIFICATION Spec
CONSTANTS
  Buses = {1, 2}
  MaxChanges = 2
  MaxAge = 1
  Durations = {1}
  StabilizeAdded = FALSE
  NoBus = NoBus
  NoEntry = NoEntry
INVARIANTS
  EventsAreSane
PROPERTIES
  GoneIsReported
  NoFalseDisconnect
  DiscardedStaysDiscarded
  LoopsEnd
\* abort() and dw_stop_watch_displays stop the threads.
CHECK_DEADLOCK FALSE
