SPECIFICATION Spec
CONSTANTS
  Actors = {"pump", "chat"}
  IdleThreshold = 1
  TurnThreshold = 1
  MaxActivity = 2
  MaxTime = 5
  MaxArms = 2
INVARIANT TypeOK
INVARIANT IdleOncePerWindow
INVARIANT TurnOncePerArming
PROPERTY EndedStays
CHECK_DEADLOCK FALSE
