CONSTANTS
  p1 = p1
  j1 = j1
  j2 = j2
  Projects = {p1}
  Jobs <- TwoJobs
  ProjectOf <- Placed
  MaxActive = 2
  MaxRetained = 2
  MaxEntries = 1
  MaxFaults = 1
  MaxCrashes = 1
SPECIFICATION FairSpec
INVARIANTS TypeOK PermitsBalance  
PROPERTIES ImplementsLedger CallsFinish
CHECK_DEADLOCK FALSE
