\* Three fragments a table; an offset of one byte is enough for all.
SPECIFICATION Spec
CONSTANTS
  a = a
  b = b
  Blank = blank
  None = none
  Tables <- MCTables
  MaxLength = 5
  Capabilities <- MCCapabilities
  Registers = {r1, r2}
  ReadFragment = 2
  WriteFragment = 2
  OffsetBase = 6
  MaxReadTries = 2
  MaxWriteTries = 2
  MaxPacketTries = 2
INVARIANTS
  WholeOrError
  SetTellsTheTruth
PROPERTIES
  TableSetWhole
  CallsEnd
