CONSTANTS
  c1 = c1
  c2 = c2
  Nobody = Nobody
  Clients <- TwoClients
  Closers <- None
  MaxGroups = 2
  MaxGroupSize = 2
  MaxTears = 2
  Faults <- AllFaults
SPECIFICATION Spec
INVARIANTS TypeOK QueueContinuesLog AckedDurable
PROPERTIES FatalIsFinal 
