SPECIFICATION Spec
CONSTANTS
  Files = {1, 2}
  MAX_OPEN_FILES = 2
  NR_DIRECT_ZONES = 1
  U32_PER_BLOCK = 3
  ZoneBits = 9
  BLOCKSIZE = 2
  Tail = 1
  Data <- Marks
  MaxBlocks <- OneLong
  Once = {1, 2}
  Habits <- NotExclusive
INVARIANTS
  IndexCopiesAgree
CHECK_DEADLOCK FALSE
