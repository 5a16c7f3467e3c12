SPECIFICATION Spec
CONSTANTS
  Files = {1, 2}
  MAX_OPEN_FILES = 2
  NR_DIRECT_ZONES = 1
  U32_PER_BLOCK = 2
  ZoneBits = 9
  BLOCKSIZE = 2
  Tail = 1
  Data <- Marks
  MaxBlocks <- Long
  Once = {1, 2}
  Habits <- NotShort
INVARIANTS
  MovedToNumber
CHECK_DEADLOCK FALSE
