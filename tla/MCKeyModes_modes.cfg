SPECIFICATION ModesSpec
CONSTANTS
  KEY_LEN = 8
  Keys <- MCKeys
  IV <- MCIV
  Contexts = {c1, c2}
INVARIANT
  ModesApart
