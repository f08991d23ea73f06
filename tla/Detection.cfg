\* Three buses, two callers; two displays or more are checked by threads.
SPECIFICATION Spec
CONSTANTS
  None = none
  BusCount = 3
  Sockets <- MCSockets
  Layouts <- MCLayouts
  Callers = {c1, c2}
  AsyncThreshold = 2
INVARIANTS
  NumbersInOrder
  ListIsComplete
  FlagsFitTogether
PROPERTIES
  CallersGetList
