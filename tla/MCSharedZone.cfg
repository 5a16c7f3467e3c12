SPECIFICATION Spec
CONSTANTS
  usr = usr
  bin = bin
  etc = etc
  bad = bad
  NoName = bad
  Names <- ThreeNames
  Paths <- ThreeNamePaths
  DIR_PER_BLOCK = 2
  NrDirect = 3
  InodeBits = 7
  ZoneBits = 2
  MAX_OPEN_FILES = 1
  JunkEntries <- Junk
  MaxEntries = 4
  Calls <- MkdirOnly
  Careful = TRUE
PROPERTIES
  AddKeepsEntries
