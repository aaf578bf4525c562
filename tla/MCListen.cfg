SPECIFICATION ListenSpec
CONSTANTS
  r0 = r0
  s0 = s0
  None = None
  K = 2
  M = 1
  NumSets = 1
  Root = {r0}
  Sig = {s0}
  CompleteLeaf <- MCCompleteLeaf
  LastLeaf <- MCLastLeaf
  Malformed = {}
  Packet <- MCPacket
  ShredVersion = 1
  L = 1
  Recovery = TRUE
  W = 16
  N = 3
  KernelRoom = 2
  BATCH = 2
  ChannelCapacity = 1
  MaxOut = 2
  MarkerLeaf <- MCMarkerLeaf
  BadLeaf = {}
  Fields <- MCFields
INVARIANTS
  BuildsWhatArrived
  RunsAccounted
  SnapshotSkew
CHECK_DEADLOCK FALSE
