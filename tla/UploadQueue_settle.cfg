SPECIFICATION Spec
CONSTANTS
  p1 = p1
  d1 = d1
  d2 = d2
  s1 = s1
  w1 = w1
  w2 = w2
  Photos = {p1}
  Dests = {d1, d2}
  Storing = {d1}
  InitialDests = {d1, d2}
  Jobs = {s1}
  Manual = Manual
  DestFilter <- AllDests
  Workers = {w1}
  Drainers = {}
  MaxAttempts = 2
  BreakerFailThreshold = 1
  NoRow = NoRow
  NoDest = NoDest
  NoPhoto = NoPhoto
  NoJob = NoJob
  MaxCrashes = 1
  MaxFaults = 0
  MaxRequeues = 0
  MaxOperator = 1
CHECK_DEADLOCK FALSE
PROPERTIES EveryRowSettles LocalCopyReleased
