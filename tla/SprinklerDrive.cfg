SPECIFICATION Spec
CONSTANTS
  Callers = {c1, c2}
  Limits <- SomeLimits
  Overrides <- SomeOverrides
  CmdLag = 1
  TickLag = 1
  TickGap = 2
  MaxClock = 7
SYMMETRY CallerSymmetry
INVARIANTS
  RunIsLimited
  PinFollowsSwitch
PROPERTIES
  NotCutShort
