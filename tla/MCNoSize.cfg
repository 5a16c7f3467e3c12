SPECIFICATION Spec
CONSTANTS
  BITS = 2
  BLOCKSIZE = 2
  I_NODE_BYTES = 1
  IMAP_BLOCKS = 1
  InodeBlocks = 1
  ZMAP_BLOCKS = 2
  ZONES = 3
  DevBlocks = 7
  Super <- SuperBytes
  Inodes <- MCInodes
  RootInode <- Dir
  Contents <- MCContents
  Leftovers <- Dirty
  MaxZone = 5
  Freed = {2, 5}
  Habits <- AllHabits
INVARIANTS
  OpenKnowsSize
