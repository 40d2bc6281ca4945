SPECIFICATION Spec
CONSTANTS
  Procs = {p0, p1, p2, p3}
  Root = p0
  Reaper = init
  Clients = {c1, c2, c3, c4}
  NoConn = noconn
  Backlog = 2
SYMMETRY Symmetry
INVARIANTS
  TypeOK
  NoDescriptorLeak
  ExclusiveService
  NobodyAbandoned
  SlotPerSession
PROPERTIES
  ServiceOutlivesForkFailure
  ImplementsSessions
CHECK_DEADLOCK FALSE
