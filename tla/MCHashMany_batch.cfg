SPECIFICATION ManySpec
CONSTANTS
  BLOCK_LEN = 2
  CHUNK_LEN = 8
  Counters = {0, 1, 5}
  MaxInputs = 5
  ModeFlags <- MCModeFlags
INVARIANT
  SameAsAlone
