SPECIFICATION Spec
CONSTANTS
  usr = usr
  bin = bin
  etc = etc
  bad = bad
  NoName = bad
  Names <- TwoNames
  Paths <- TwoNamePaths
  DIR_PER_BLOCK = 3
  NrDirect = 2
  InodeBits = 3
  ZoneBits = 2
  MAX_OPEN_FILES = 1
  JunkEntries <- Junk
  MaxEntries = 3
  Calls <- OneSession
  Careful = FALSE
PROPERTIES
  FailedCloseWritesNothing
