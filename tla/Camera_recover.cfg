SPECIFICATION Spec
CONSTANTS
  Poller = poller
  Shooter = shooter
  Watchdog = watchdog
  HasHub = FALSE
  MaxInitFailures = 1
  MaxCaptureFailures = 2
  FailThreshold = 1
  MaxResets = 1
  MaxTroubles = 1
  MaxCrashes = 0
CHECK_DEADLOCK FALSE
PROPERTIES FramesResume WedgeEscalates
