SPECIFICATION SafetySpec
CONSTANTS
  Poller = poller
  Shooter = shooter
  Watchdog = watchdog
  HasHub = TRUE
  MaxInitFailures = 2
  MaxCaptureFailures = 1
  FailThreshold = 2
  MaxResets = 1
  MaxTroubles = 2
  MaxCrashes = 1
CHECK_DEADLOCK FALSE
INVARIANTS WatchdogBounded
PROPERTIES GraceKept
