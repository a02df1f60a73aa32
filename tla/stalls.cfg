SPECIFICATION Spec
CONSTANTS
  j1 = j1
  j2 = j2
  w1 = w1
  w2 = w2
  s1 = s1
  s2 = s2
  Jobs <- OneJob
  Priority <- LowHigh
  RequestedAttempts = {2}
  FirstDelays = {1}
  ClaimTimeout = 2
  QueuedTimeout = 1
  Skew = 0
  BackoffCap = 2
  MaxClaims = 3
  Schedulers = {s1}
  Workers = {w1, w2}
  BatchSize = 2
  ExecTimeout = 1
  MaxFaults = 1
  NoRecord = NoRecord
SYMMETRY WorkerSymmetry
INVARIANTS
  TypeOK
  StartsWithinRecoveries
  VerdictsEarned
  FailuresCounted
