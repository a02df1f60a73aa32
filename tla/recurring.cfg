SPECIFICATION FairSpec
CONSTANTS
  Templates = {t1, t2}
  Schedulers = {s1, s2}
  BatchSize = 2
  Period = 3
  QueuedTimeout = 1
  SweepInterval = 2
  MaxFaults = 1
  MaxFired = 4
  NoTemplate = NoTemplate
INVARIANTS
  TypeOK
  DuplicatesAnswerFaults
  MissesAnswerFaults
PROPERTIES
  FiresAgain
  InvalidDeadLettered
