SPECIFICATION Spec
CONSTANTS
  Frames <- MCFrames
  MaxNibble = 3
  EthLen = 1
  WordLen = 2
  IcmpLen = 1
  ProtoAt = 1
  OffsetAt = 1
  BufferSize = 16
  Snap = 8
  Row = 2
  UIntMod = 64
INVARIANTS
  PayloadPrinted
  OnlyThisFrame
CHECK_DEADLOCK FALSE
