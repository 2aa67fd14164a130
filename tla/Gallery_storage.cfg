SPECIFICATION Spec
CONSTANTS
  MaxShots = 3
  ByHand = {3}
  MaxCrashes = 1
  Favourites = {1}
  Dedup = TRUE
  SkipDiskFull = TRUE
  Requests = {r1}
  CheckEvery = 2
  Target = 1
  Trigger = 2
  High = 2
  Emergency = 3
  Critical = 3
CHECK_DEADLOCK FALSE
INVARIANTS RowsHaveFiles SweepStops
PROPERTIES UnuploadedKept SpaceReturns
