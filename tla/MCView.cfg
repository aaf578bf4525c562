SPECIFICATION Spec
CONSTANTS
  Width <- MCWidth
  Block <- MCBlock
  TopBit = 16
  Wrong = {0, 1, 2, 16, 17}
  MaxCell = 24
  U16 = 20
INVARIANTS
  BoundariesMatch
  AcceptsWhatDecodeAccepts
  SecondPassAgrees
  SignaturesInside
PROPERTIES
  ErrorIsLast
CHECK_DEADLOCK FALSE
