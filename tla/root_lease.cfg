CONSTANTS
  p1 = p1
  p2 = p2
  p3 = p3
  Procs <- ThreeProcs
  Depth = 2
SPECIFICATION Spec
SYMMETRY Symmetry
INVARIANTS TypeOK OneWriter PublishedOnce NeverStranded
