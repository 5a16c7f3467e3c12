SPECIFICATION Spec
CONSTANTS
  usr = usr
  bin = bin
  etc = etc
  bad = bad
  NoName = bad
  Names <- TwoNames
  Paths <- TwoNamePaths
  DIR_PER_BLOCK = 2
  NrDirect = 2
  InodeBits = 4
  ZoneBits = 2
  MAX_OPEN_FILES = 1
  JunkEntries <- Junk
  MaxEntries = 3
  Calls <- DirCalls
  Careful = TRUE
PROPERTIES
  OnlyRenameLoses
