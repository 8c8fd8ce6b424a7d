SPECIFICATION Spec
CONSTANTS
  Threads = {t1, t2}
  TakeTurns = {TRUE, FALSE}
  CriticalFails = {TRUE, FALSE}
  Modes = {"plain", "keyed"}
  KeySizes = {31, 32}
  KEY_LEN = 32
  ArrayLen = 2
  Offsets <- MCOffsets
  Lengths <- MCLengths
  IntMax = 15
  MaxLen = 2
  NoOutput = NoOutput
INVARIANTS
  AlwaysDefined
  FreedWhenClosed
PROPERTY
  ImplementsStream
SYMMETRY AnyThread
CHECK_DEADLOCK FALSE
