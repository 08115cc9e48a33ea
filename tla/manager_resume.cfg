SPECIFICATION FairSpec
CONSTANTS
  NoRun = NoRun
  NoId = NoId
  Ids = {s1, s2, s3}
  Clients = {}
  Resumers = {g1}
  Runs = {r1, r2}
  Accounts = {a1}
  Ops = {"crash"}
  EarlyIds = FALSE
  AutoResumeMax = 2
  MaxFaults = 0
PROPERTY ResumeAttempted
