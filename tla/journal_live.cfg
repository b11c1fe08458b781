CONSTANTS
  c1 = c1
  c2 = c2
  Nobody = Nobody
  Clients <- TwoClients
  Closers <- TwoClients
  MaxGroups = 2
  MaxGroupSize = 1
  MaxTears = 0
  Faults <- Transient
SPECIFICATION FairSpec
PROPERTIES CallsReturn QueueDrains
CHECK_DEADLOCK FALSE
