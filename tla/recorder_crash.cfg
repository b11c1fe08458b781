CONSTANTS
  a = a
  b = b
  Read = Read
  Bash = Bash
  Ids <- TwoIds
  Tools <- TwoTools
  Responses <- CallsThenShort
  MaxTurns = 2
  MaxFaults = 1
  MaxCrashes = 1
SPECIFICATION Spec
INVARIANTS TypeOK AnswersAreTrue TurnsComplete ReportedIsDurable
CHECK_DEADLOCK FALSE
