SPECIFICATION Spec
CONSTANTS
  bit_count = 5
  DeviceZones = 3
  Content <- MCContent
  zeros = zeros
  bytes = bytes
INVARIANTS
  TypeOK
  HintFree
PROPERTIES
  ImplementsPool
  FreshZoneIsZero
