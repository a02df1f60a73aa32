SPECIFICATION FairSpec
CONSTANTS
  Nodes = {n1, n2}
  MaxStarts = 1
  MaxCuts = 2
PROPERTY
  SomeoneTakesOver

CHECK_DEADLOCK FALSE
