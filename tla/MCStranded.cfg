SPECIFICATION Spec
CONSTANTS
  r0 = r0
  r1 = r1
  r2 = r2
  r3 = r3
  s0 = s0
  s1 = s1
  None = None
  K = 2
  M = 2
  NumSets = 2
  Root = {r0, r1, r2, r3}
  Sig = {s0, s1}
  CompleteLeaf <- MCCompleteLeaf
  LastLeaf <- MCLastLeaf
  Malformed <- MCMalformed
  Packet <- MCPacket
  Recovery = TRUE
INVARIANTS
  PresentIsReceived
