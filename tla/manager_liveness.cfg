SPECIFICATION FairSpec
CONSTANTS
  NoRun = NoRun
  NoId = NoId
  Ids = {s1}
  Clients = {c1}
  Resumers = {}
  Runs = {r1, r2}
  Accounts = {a1}
  Ops = {"start", "stop", "sigterm"}
  EarlyIds = FALSE
  AutoResumeMax = 0
  MaxFaults = 0
PROPERTY CallsReturn
