SPECIFICATION SetSpec
CONSTANTS
  Unnamed = Unnamed
  Tables <- MCTables
  Packets <- MCPackets
  MaxKeys = 3
  SetIds = {1}
INVARIANTS
  KeysFit
  LookupFindsKeys
CHECK_DEADLOCK FALSE
