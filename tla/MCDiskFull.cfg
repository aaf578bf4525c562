SPECIFICATION Spec
CONSTANTS
  MaxLen = 2
  PacketLen = {1, 2}
  MaxRecords = 3
INVARIANTS
  ReplaysPrefix
CHECK_DEADLOCK FALSE
