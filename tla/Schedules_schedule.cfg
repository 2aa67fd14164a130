SPECIFICATION Spec
CONSTANTS
  Ids = {s1, s2}
  Plans <- MCPlans
  Day = 3
  Days = 2
  MaxInterval = 2
  MaxEdits = 2
  MaxCrashes = 1
  MaxSlow = 1
  MaxTroubles = 1
INVARIANTS EnabledHasJob WindowsAgree QuietOnceDisabled
PROPERTIES RunsAreSpaced EnabledCaptures
