\* As VcpAccess.cfg, but the last fragment needs an offset of two bytes.
SPECIFICATION Spec
CONSTANTS
  a = a
  b = b
  Blank = blank
  None = none
  Tables <- MCTables
  MaxLength = 5
  Capabilities <- MCCapabilities
  Registers = {r1, r2}
  ReadFragment = 2
  WriteFragment = 2
  OffsetBase = 3
  MaxReadTries = 2
  MaxWriteTries = 2
  MaxPacketTries = 2
PROPERTY
  TableSetWhole
