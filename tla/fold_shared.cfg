CONSTANTS
  c1 = c1
  c2 = c2
  Nobody = Nobody
  Clients <- TwoClients
  Closers <- TwoClients
  MaxGroups = 2
  MaxGroupSize = 1
  MaxTears = 1
  Faults <- Transient
SPECIFICATION ProjectionSpec
SYMMETRY Symmetry
INVARIANTS ReadType FoldIsLog ReplayIsLog  LastOwnerCloses
CHECK_DEADLOCK FALSE
