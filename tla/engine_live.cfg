SPECIFICATION FairSpec
CONSTANTS
  Session = {s1, s2}
  ReqId = {r1, r2, r3}
  None = None
  CallbackOps = {"open", "close", "asynch"}
  CbKinds = {}
  Outcome = {"response", "timeout"}
  MaxDepth = 4
PROPERTIES SynchReturns WaitReturns LoopReturns
