SPECIFICATION LiveSpec
CONSTANTS
  Procs = {p0, p1, p2}
  Root = p0
  Reaper = init
  Clients = {c1, c2, c3, c4}
  NoConn = noconn
  Backlog = 1
PROPERTIES
  SessionEnds
  ConnectionsReleased
CHECK_DEADLOCK FALSE
