SPECIFICATION Spec
CONSTANTS
  zeros = zeros
  bytes = bytes
  CACHED_BLOCKS = 2
  devsize = 5
  LastRequest = 6
  BadBlocks = {4}
  Data <- MCData
  Zero = zeros
INVARIANTS
  TypeOK
  CleanAgrees
PROPERTIES
  SuperBlockKept
  ImplementsStore
