SPECIFICATION Spec
CONSTANTS
  Threads = {t1, t2}
  TakeTurns = {TRUE, FALSE}
  Modes = {"plain", "keyed"}
  KeySizes = {31, 32}
  KEY_LEN = 32
  ArrayLen = 2
  Offsets <- MCOffsets
  Lengths <- MCLengths
  IntMax = 5
  MaxLen = 2
  NoOutput = NoOutput
INVARIANTS
  OpenWhileInside
  Released
PROPERTIES
  RangeInArray
  ImplementsStream
SYMMETRY AnyThread
CHECK_DEADLOCK FALSE
