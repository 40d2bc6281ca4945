SPECIFICATION ParseSpec
CONSTANTS
  Numbers <- MCNumbers
  MinPort = 2
  MaxPort = 5
  UIntMod = 8
  ExtraArgs = 2
INVARIANT ListReadsItsAddress
CHECK_DEADLOCK FALSE
