\* Two threads redetect.
CONSTANTS
  Clients = {c1}
  Redetectors = {r1, r2}
  MaxPolls = 2
  MaxLeaks = 0
  NoThread = NoThread
SPECIFICATION Spec
INVARIANT AtMostOneRedetection
