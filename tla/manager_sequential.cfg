SPECIFICATION Spec
CONSTANTS
  NoRun = NoRun
  NoId = NoId
  Ids = {s1}
  Clients = {c1}
  Resumers = {}
  Runs = {r1, r2}
  Accounts = {a1, a2}
  Ops = {"create", "start", "stop", "remove", "switch", "switch_rollback", "crash"}
  EarlyIds = FALSE
  AutoResumeMax = 0
  MaxFaults = 1
INVARIANT AccountAgrees
INVARIANT NoGhost
INVARIANT RowTracksProcess
