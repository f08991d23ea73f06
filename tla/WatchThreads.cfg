\* A client, a redetection and the end of the program.  The program may end.
CONSTANTS
  Clients = {c1}
  Redetector = r
  Main = m
  NoThread = NoThread
  MaxPairs = 2
  MaxRedetects = 1
  MaxFound = 1
SPECIFICATION FairSpec
INVARIANTS OnePair NoStaleUse QueueIsLive
PROPERTIES StopReturns
CHECK_DEADLOCK FALSE
