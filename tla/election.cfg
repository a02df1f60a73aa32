SPECIFICATION FairSpec
CONSTANTS
  Nodes = {n1, n2, n3}
  MaxStarts = 2
  MaxCuts = 1
INVARIANTS
  TypeOK
  OneRecognisedLeader
PROPERTY
  LeadershipSettles
CHECK_DEADLOCK FALSE
