SPECIFICATION FairSpec
CONSTANTS
  Clients = {c1, c2}
  NoClient = noclient
  Backlog = 1
  Chunk = 3
  Capacity = 3
  MaxLines = 1
INVARIANTS
  TypeOK
  TextIntact
PROPERTY EveryoneServed
CHECK_DEADLOCK FALSE
