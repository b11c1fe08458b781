CONSTANTS
  i1 = i1
  i2 = i2
  Nil = Nil
  Inputs <- TwoInputs
  Limit = 2
  MaxFaults = 1
  MaxOthers = 0
SPECIFICATION Spec
INVARIANT InsertedOnce
