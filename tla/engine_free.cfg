SPECIFICATION Spec
CONSTANTS
  Session = {s1, s2, s3}
  ReqId = {r1, r2}
  None = None
  CallbackOps = {"open", "close", "close_busy", "asynch", "synch", "synch_busy", "wait", "event", "loop", "error"}
  CbKinds = {"trapcb", "infocb"}
  Outcome = {"response", "report", "not_in_time", "timeout"}
  MaxDepth = 4
INVARIANTS
  TypeOK
  PendingCounted
  TrapRefCount
  LibrarySessionsOwned
  RegistryServesSessions
PROPERTY KeepsContract
CONSTRAINT RequestsOrTraps
SYMMETRY Symmetry
CHECK_DEADLOCK FALSE
