SPECIFICATION Spec
CONSTANTS
  Nodes = {n1, n2}
  MaxStarts = 1
  MaxCuts = 1
SYMMETRY NodeSymmetry
INVARIANT
  NoSplitBrain
CHECK_DEADLOCK FALSE
