\* Bytes at the edges of their fields.  A behaviour is one exchange and ends.
SPECIFICATION PacketsSpec
CONSTANTS
  None = none
  Features = {16, 2}
  Settings = {0, 255, 256, 65535}
  Values <- MCValues
  ReadOffsets = {0, 32, 256, 65535}
  WriteOffsets = {0, 28, 255}
  Fragments <- MCFragments
  Fill = {0, 255}
  Damage = {1, 2, 4, 8, 16, 32, 64, 128, 255, 230, 232, 235, 237}
CHECK_DEADLOCK FALSE
INVARIANTS
  RequestUnderstood
  AnswerUnderstood
  NothingMisread
