\* Two threads in one instance and a third in another; two displays, so that a
\* callback can leave two handles open; a failed try is tried again once.
\* Threads end and processes die: no deadlock check.
SPECIFICATION Spec
CONSTANTS
  t1 = t1
  t2 = t2
  t3 = t3
  i1 = i1
  i2 = i2
  Threads <- MCThreads
  Instances <- MCInstances
  InstanceOf <- MCInstanceOf
  Buses = {b1, b2}
  MaxTries = 1
  MaxOpens <- MCMaxOpens
  NoThread = NoThread
  NoBus = NoBus
CHECK_DEADLOCK FALSE
INVARIANTS
  NothingLeftBehind
  OneOpenHandle
  LockCoversDescriptor
PROPERTIES
  OpenReturns
