SPECIFICATION FairSpec
CONSTANTS
  MaxLen = 4
  MaxEntries = 2
  Chunk = 2
  Heap = 2
  Capacity = 3
  SizeMod = 4
INVARIANTS
  TypeOK
  NothingLostOrRepeated
  ExactCopy
  NoMutualWait
  QuitIsHeard
PROPERTIES
  ImplementsFileCopy
  ImplementsSession
  SessionEnds
CHECK_DEADLOCK FALSE
