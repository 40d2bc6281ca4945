SPECIFICATION MCSpec
CONSTANTS
  Clients = {c1, c2}
  NoClient = noclient
  MaxLen = 6
  Chunk = 2
  ByeLen = 1
  Capacity = 2
  Leftover = 1
  MaxFaults = 1
  IntHalf = 6
INVARIANTS
  TypeOK
  DataReachesAsker
  FirstDatagramArrives
  LossIsNoticed
 
CHECK_DEADLOCK FALSE
