SPECIFICATION Spec
CONSTANTS
  BLOCK_LEN = 4
  CHUNK_LEN = 16
  Counters = {0, 1, 2}
INVARIANTS
  TypeOK
  OutputIsReference
  LastBlockKept
