SPECIFICATION Spec
CONSTANTS
  MaxLeaves = 6
INVARIANTS
  ProofBindsPosition
  NoneIsTooShort
