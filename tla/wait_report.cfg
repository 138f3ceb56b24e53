SPECIFICATION FairSpec
CONSTANTS
  Session = {s1, s2}
  ReqId = {r1, r2}
  None = None
  CallbackOps = {}
  CbKinds = {}
  Outcome = {"response", "report", "timeout"}
  MaxDepth = 4
PROPERTY WaitReturns
