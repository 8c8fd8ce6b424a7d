SPECIFICATION Spec
CONSTANTS
  Threads = {"t1"}
  TakeTurns = {TRUE}
  CriticalFails = {FALSE}
  Modes = {"plain", "keyed"}
  KeySizes = {31, 32}
  KEY_LEN = 32
  ArrayLen = 2
  Offsets <- AllOffsets
  Lengths <- MCLengths
  IntMax = 7
  MaxLen = 4
  NoOutput = NoOutput
INVARIANT
  RangeInArray
