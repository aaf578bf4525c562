SPECIFICATION Spec
CONSTANTS
  N = 3
  KernelRoom = 2
  BATCH = 2
  ChannelCapacity = 1
  SinkCapacity = 1
  MaxOut = 2
  MayPanic = TRUE
INVARIANTS
  TypeOK
  InOrder
  Accounted
  SinkGetsEveryBatch
  StopsReceiving
PROPERTIES
  ShutdownReturns
  OrphanEnds
  BufferedIsPushed
CHECK_DEADLOCK FALSE
