SPECIFICATION Spec
CONSTANTS
  NoRun = NoRun
  NoId = NoId
  Ids = {s1}
  Clients = {c1, c2}
  Resumers = {}
  Runs = {r1, r2}
  Accounts = {a1, a2}
  Ops = {"start", "stop", "switch", "crash"}
  EarlyIds = FALSE
  AutoResumeMax = 0
  MaxFaults = 0
INVARIANT AtMostOneProcess
