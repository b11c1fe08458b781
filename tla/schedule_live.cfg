CONSTANTS
  r1 = r1
  r2 = r2
  Rules <- TwoRules
  Drafts <- Rivals
  Requests <- None
  Spends <- Free
  Flaky <- None
  Retention = 2
  MaxTime = 1
  MaxRollbacks = 0
  MaxRevision <- PauseFirst
  MaxReviews = 2
  MaxFaults = 0
  MaxCrashes = 1
  Mixed = FALSE
SPECIFICATION FairSpec
PROPERTIES UnsettledSettles 
