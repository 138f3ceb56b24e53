SPECIFICATION Spec
CONSTANTS
  Session = {s1, s2}
  ReqId = {r1, r2}
  None = None
  CallbackOps = {"open", "close", "asynch"}
  CbKinds = {}
  Outcome = {"response", "timeout"}
  MaxDepth = 4
PROPERTY CallbackBeforeClose
CHECK_DEADLOCK FALSE
