SPECIFICATION Spec
CONSTANTS
  usr = usr
  bin = bin
  etc = etc
  bad = bad
  NoName = bad
  Names <- OneName
  Paths <- OneNamePaths
  DIR_PER_BLOCK = 4
  NrDirect = 2
  InodeBits = 4
  ZoneBits = 2
  MAX_OPEN_FILES = 1
  JunkEntries <- Junk
  MaxEntries = 3
  Calls <- EveryCall
  Careful = TRUE
INVARIANTS
  TypeOK
  EntriesSound
  ZonesOwned
PROPERTIES
  OnlyRenameLoses
