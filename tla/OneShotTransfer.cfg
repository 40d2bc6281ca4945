SPECIFICATION FairSpec
CONSTANTS
  Clients = {c1, c2}
  NoClient = noclient
  MaxLen = 3
  Chunk = 2
  Capacity = 2
  Backlog = 2
  MaxFaults = 1
INVARIANTS
  TypeOK
  OneSender
  FailedWritesOnlyAdd
  UnnoticedLossIsSmall
PROPERTY ProgramsEnd
CHECK_DEADLOCK FALSE
