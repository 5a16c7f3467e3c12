SPECIFICATION FairSpec
CONSTANTS
  zero = zero
  x = x
  y = y
  junk = junk
  Files = {1, 2}
  BLOCKSIZE = 2
  NrDirect = 2
  ZoneBits = 2
  MAX_OPEN_FILES = 2
  Byte <- Bytes3
  Zero = zero
  Junk = junk
  Data <- Pieces3
  Counts = {1, 2, 5}
  MaxSize = 4
  Habits <- AllHabits
INVARIANTS
  TypeOK
  ZonesOwned
PROPERTIES
  ImplementsFiles
  EveryCallReturns
