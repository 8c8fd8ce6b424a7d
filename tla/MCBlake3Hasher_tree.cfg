SPECIFICATION FairSpec
CONSTANTS
  CHUNK_LEN = 2
  MaxLen = 63
  MAX_DEPTH = 5
  Modes = {hash, keyed}
  NoOutput = NoOutput
INVARIANTS
  TypeOK
  InputAccounted
  StackCanonical
  MergedWhenNeeded
  StackFits
  NothingCompressedTooEarly
  PairToStartFrom
PROPERTIES
  ImplementsHash
  CallsReturn
