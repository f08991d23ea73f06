\* A call tries to complete while quiesce_api waits for it.
CONSTANTS
  Clients = {c1}
  Redetectors = {r1}
  MaxPolls = 2
  MaxLeaks = 0
  NoThread = NoThread
SPECIFICATION Spec
INVARIANT OutstandingCallsCanComplete
