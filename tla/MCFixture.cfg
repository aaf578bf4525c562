SPECIFICATION Spec
CONSTANTS
  MaxLen = 2
  PacketLen = {0, 1, 2, 3}
  MaxRecords = 3
INVARIANTS
  ReplaysRecorded
  LosesOnlyTheTail
PROPERTIES
  ReplayEnds
CHECK_DEADLOCK FALSE
