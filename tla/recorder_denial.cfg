CONSTANTS
  a = a
  b = b
  Read = Read
  Bash = Bash
  Ids <- TwoIds
  Tools <- TwoTools
  Responses <- SameTool
  MaxTurns = 1
  MaxFaults = 0
  MaxCrashes = 0
SPECIFICATION Spec
INVARIANT DeniedNeverRan
CHECK_DEADLOCK FALSE
