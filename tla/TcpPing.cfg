SPECIFICATION FairSpec
CONSTANTS
  Clients = {c1, c2}
  NoClient = noclient
  Pings = 2
  NUL = 4
  Chunk = 2
  Capacity = 3
  Backlog = 1
INVARIANTS
  TypeOK
  EchoIntact
  WrongOnlyAfterTrouble
  StuckOnlyWithoutNUL
PROPERTY EveryPingEnds
CHECK_DEADLOCK FALSE
