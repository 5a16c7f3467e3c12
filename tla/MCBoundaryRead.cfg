SPECIFICATION Spec
CONSTANTS
  zero = zero
  x = x
  y = y
  junk = junk
  Files = {1}
  BLOCKSIZE = 2
  NrDirect = 3
  ZoneBits = 3
  MAX_OPEN_FILES = 2
  Byte <- Bytes3
  Zero = zero
  Junk = junk
  Data <- Pieces3
  Counts = {1, 2, 5}
  MaxSize = 6
  Habits <- NotInside
INVARIANTS
  ReadIsFile
