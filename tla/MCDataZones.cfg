SPECIFICATION Spec
CONSTANTS
  Files = {1, 2}
  MAX_OPEN_FILES = 2
  NR_DIRECT_ZONES = 1
  U32_PER_BLOCK = 3
  ZoneBits = 10
  BLOCKSIZE = 2
  Tail = 1
  Data <- Marks
  MaxBlocks <- TwoShort
  Once = {1, 2}
  Habits <- AllHabits
INVARIANTS
  TypeOK
  ZonesOwned
  IndexCopiesAgree
PROPERTIES
  ImplementsBlocks
CHECK_DEADLOCK FALSE
