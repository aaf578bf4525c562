SPECIFICATION Spec
CONSTANTS
  r0 = r0
  r1 = r1
  s0 = s0
  None = None
  K = 2
  M = 2
  NumSets = 1
  Root = {r0, r1}
  Sig = {s0}
  CompleteLeaf <- MCCompleteLeaf
  LastLeaf = {}
  MarkerLeaf <- MCMarkerLeaf
  BadLeaf = {}
  Malformed = {}
  Packet <- MCPacket
  L = 1
  W = 16
  Cost = 2
  MaxRecords = 6
  MaxSample = 250
INVARIANTS
  RebuiltAtThreshold
  EagerIsNoLater
  ClassesMatchPolicies
  NearestRank
CHECK_DEADLOCK FALSE
