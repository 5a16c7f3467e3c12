SPECIFICATION FairSpec
CONSTANTS
  zero = zero
  x = x
  y = y
  junk = junk
  Files = {1, 2}
  BLOCKSIZE = 2
  NrDirect = 2
  ZoneBits = 3
  MAX_OPEN_FILES = 2
  Byte <- Bytes3
  Zero = zero
  Junk = junk
  Data <- LongPieces
  Counts = {}
  MaxSize = 5
  Habits <- Careless
INVARIANTS
  ZonesHeld
PROPERTIES
  OthersUntouched
  EveryCallReturns
CHECK_DEADLOCK FALSE
