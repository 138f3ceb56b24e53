SPECIFICATION FairSpec
CONSTANTS
  Process = {p1, p2}
  Conn = {c1, c2}
  Trap = {t1, t2}
  None = None
  SockBuf = 2
  Retries = 1
  MaxSessions = 2
  MaxStarting = 1
INVARIANTS
  ClientsGetTraps
  NoDanglingClient
  ConnectionsServeSessions
  NoIdleDaemon
PROPERTIES
  TrapsArrive
  LossNoticed
  DaemonEnds
CHECK_DEADLOCK FALSE
