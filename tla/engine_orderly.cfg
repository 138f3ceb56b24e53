SPECIFICATION Spec
CONSTANTS
  Session = {s1, s2}
  ReqId = {r1, r2}
  None = None
  CallbackOps = {"open", "close", "asynch"}
  CbKinds = {"trapcb", "infocb"}
  Outcome = {"response", "not_in_time", "timeout"}
  MaxDepth = 4
INVARIANTS
  FlagTellsCallback
  CallbackReturnsToLibrary
  PumpSessionAllocated
  SynchOwnsState
  SynchCounted
  PendingIsHeld
  TrapLoopInList
  TrapReachesAll
SYMMETRY Symmetry
