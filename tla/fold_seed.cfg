CONSTANTS
  c1 = c1
  c2 = c2
  Nobody = Nobody
  Clients <- TwoClients
  Closers <- TwoClients
  MaxGroups = 2
  MaxGroupSize = 1
  MaxTears = 0
  Faults <- NoFaults
SPECIFICATION ProjectionSpec
INVARIANT SkipsOnlySeed

CHECK_DEADLOCK FALSE
