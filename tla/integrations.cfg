SPECIFICATION Spec
CONSTANTS
  Ids = {1, 2}
  MaxKeys = 2
  Callers = {"c", "d"}
  MaxAdmin = 2
  MaxVerify = 2
  Probed = {1}
INVARIANT OneTarget
INVARIANT VerifiedWasEnabled
INVARIANT OldKeyForgotten
CHECK_DEADLOCK FALSE
