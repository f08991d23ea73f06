\* As Detection.cfg: the display numbers have no gap.
SPECIFICATION Spec
CONSTANTS
  None = none
  BusCount = 3
  Sockets <- MCSockets
  Layouts <- MCLayouts
  Callers = {c1, c2}
  AsyncThreshold = 2
INVARIANTS
  NoGap
