SPECIFICATION Spec
CONSTANTS
  r0 = r0
  r1 = r1
  r2 = r2
  s0 = s0
  None = None
  K = 2
  M = 2
  NumSets = 3
  Root = {r0, r1, r2}
  Sig = {s0}
  CompleteLeaf <- MCCompleteLeaf
  LastLeaf <- MCLastLeaf
  Malformed = {}
  Packet <- MCPacket
  Recovery = TRUE
PROPERTIES
  OrderIndependent
