SPECIFICATION WideSpec
CONSTANTS
  CHUNK_LEN = 2
  MaxLen = 136
  Modes = {hash}
  Counters = {0, 64}
  Targets <- MCTargets
INVARIANTS
  WideTypeOK
  WritesFit
  RootNotCompressed
  PairIsReference
