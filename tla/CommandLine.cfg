SPECIFICATION ParseSpec
CONSTANTS
  Numbers <- MCNumbers
  MinPort = 2
  MaxPort = 5
  UIntMod = 8
  ExtraArgs = 3
INVARIANTS
  ParseTypeOK
  ParsesAsDocumented
CHECK_DEADLOCK FALSE
