SPECIFICATION Spec
CONSTANTS
  r0 = r0
  s0 = s0
  None = None
  K = 1
  M = 1
  NumSets = 2
  Root = {r0}
  Sig = {s0}
  CompleteLeaf <- MCCompleteLeaf
  LastLeaf <- MCLastLeaf
  Malformed = {}
  Packet <- MCPacket
  ShredVersion = 1
  L = 1
  Recovery = TRUE
  W = 16
INVARIANTS
  ExactlyOnce
  HandedIsRemembered
  Bounded
  WindowFollowsBatches
  KeptIsNotStale
PROPERTIES
  EvictsOnlyFarSlots
CHECK_DEADLOCK FALSE
