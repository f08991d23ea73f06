\* A stop that does not wait, and a start.  The program may end.
CONSTANTS
  Clients = {c1}
  Redetector = r
  Main = m
  NoThread = NoThread
  MaxPairs = 2
  MaxRedetects = 0
  MaxFound = 0
SPECIFICATION FairSpec
PROPERTIES StopHalts
CHECK_DEADLOCK FALSE
