CONSTANTS
  r1 = r1
  r2 = r2
  Rules <- OneRule
  Drafts <- CappedOrJob
  Requests <- OneRequest
  Spends <- Little
  Flaky <- OneRule
  Retention = 1
  MaxTime = 1
  MaxRollbacks = 1
  MaxRevision <- FourTimes
  MaxReviews = 2
  MaxFaults = 1
  MaxCrashes = 1
  Mixed = FALSE
SPECIFICATION Spec
INVARIANTS TypeOK RunsOnce RecordIsTrue ReservationFrozen
PROPERTIES RunsWithinBudget OccurrencesAdvance RunsAsConfirmed
