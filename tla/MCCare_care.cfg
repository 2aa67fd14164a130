SPECIFICATION LiveSpec
CONSTANTS
  Day = 11
  Week = 2
  Plans <- MCPlans
  Grace = 1
  Loop = Loop
  Cockpit = Cockpit
  Full = 20
  Low = 12
  Period = 5
  StartDelay = 1
  Runs = {r1, r2}
  NoRun = NoRun
  Checks = 2
  MaxFails = 1
  MaxRestarts = 1
  MaxEnds = 1
  Keep = 2
  PageSize = 2
  Verifiers = {v1}
  NoHash = NoHash
  MaxRows = 6
  MaxAlters = 1
  MaxLost = 1
  Threads = {Loop, worker}
  RetainDays = 2
  MaxWritten = 2
  MaxDays = 4
  MaxDamages = 2
  MaxCrashes = 2
  MaxCutOffs = 1
CHECK_DEADLOCK FALSE
INVARIANTS ChainLinked AnchorSaved VerdictTrue NoFalseAlarm OutageShows BadIsTold ShutsDownInTime SummaryTrue SnapshotsSurvive AWeekToNotice
PROPERTIES NewestKept ComesUp
