SPECIFICATION Spec
CONSTANTS
  bit_count = 6
  ninodes = 4
INVARIANT
  InsideTable
