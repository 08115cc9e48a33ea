SPECIFICATION Spec
CONSTANTS
  NoRun = NoRun
  NoId = NoId
  Ids = {s1}
  Clients = {c1}
  Resumers = {g1}
  Runs = {r1, r2}
  Accounts = {a1}
  Ops = {"create", "start", "stop", "remove", "sigterm", "crash"}
  EarlyIds = FALSE
  AutoResumeMax = 0
  MaxFaults = 1
INVARIANT TypeOK
INVARIANT AtMostOneProcess
INVARIANT NoPhantomRunning
INVARIANT UserStopWins
PROPERTY RowFollowsLifecycle
