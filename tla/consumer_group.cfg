SPECIFICATION FairSpec
CONSTANTS
  p1 = p1
  p2 = p2
  Partitions = {p1, p2}
  Members = {m1, m2}
  Malformed <- FirstMalformed
  MaxOffset = 2
  MaxFaults = 1
INVARIANTS
  TypeOK
PROPERTIES
  DeliverySpec
  EventuallyHandled
CHECK_DEADLOCK FALSE
