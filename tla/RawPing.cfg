SPECIFICATION Spec
CONSTANTS
  Byte = 2
  IpLen = 4
  IpCheck = 2
  IcmpLen = 4
  IcmpCheck = 2
  MaxPayload = 6
  MaxReply = 9
INVARIANT ChecksumsHold
CHECK_DEADLOCK FALSE
