CONSTANTS
  BLOCK_LEN = 4
  MaxSeek = 9
  MaxOutLen = 14
SPECIFICATION Spec
INVARIANT TypeOK
INVARIANT OnlyTheWindow
INVARIANT WindowComplete
