\* Two clients, one thread that redetects.
CONSTANTS
  Clients = {c1, c2}
  Redetectors = {r1}
  MaxPolls = 3
  MaxLeaks = 1
  NoThread = NoThread
SPECIFICATION FairSpec
INVARIANTS CountIsCalls DrainedUnlessGaveUp
PROPERTIES NoCallStartsDuringRedetection NobodyIsLeftWaiting
