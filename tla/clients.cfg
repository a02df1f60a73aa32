SPECIFICATION FairSpec
CONSTANTS
  c1 = c1
  c2 = c2
  client = client
  seed = seed
  k1 = k1
  k2 = k2
  k3 = k3
  Callers = {c1, c2, client, seed}
  Senders = {c1, c2}
  Seeders = {seed}
  Watched = {c1}
  Offers <- TheOffers
  Tries <- TheTries
  MaxTries = 3
  MaxFaults = 1
  Concurrency = 1
  PollLimit = 1
  MaxRounds = 2
  Nobody = Nobody
INVARIANTS
  TypeOK
  AnswersTrue
  ReportTrue
PROPERTIES
  RetriesSettle
  DriverEnds
CHECK_DEADLOCK FALSE
