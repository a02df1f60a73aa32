SPECIFICATION PunctualSpec
CONSTANTS
  j1 = j1
  j2 = j2
  w1 = w1
  w2 = w2
  s1 = s1
  s2 = s2
  Jobs <- OneJob
  Priority <- LowHigh
  RequestedAttempts = {2}
  FirstDelays = {0}
  ClaimTimeout = 3
  QueuedTimeout = 2
  Skew = 1
  BackoffCap = 2
  MaxClaims = 3
  Schedulers = {s1, s2}
  Workers = {w1, w2}
  BatchSize = 2
  ExecTimeout = 1
  MaxFaults = 2
  NoRecord = NoRecord
SYMMETRY ProcessSymmetry
INVARIANTS
  ExclusiveExecution
  RunsWithinBudget
  DeadLetterTopicSound
PROPERTIES
  Final
  ContractSpec
