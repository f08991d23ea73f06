\* Two threads and two displays: a thread can hold one lock while it asks for,
\* gives up or scans the other thread's.  Flags is what i2c_open_bus passes.
SPECIFICATION FairSpec
CONSTANTS
  Threads = {t1, t2}
  Displays = {d1, d2}
  Dlrs = {r1, r2}
  Flags = {"NONE"}
  MaxTries = 2
  NoThread = NoThread
  NoDisplay = NoDisplay
  NoDlr = NoDlr
INVARIANTS
  Exclusion
  LocksMatchAnswers
  UnlockIsDefined
  NoSelfDeadlock
PROPERTIES
  ImplementsExclusiveUse
  CallsReturn
