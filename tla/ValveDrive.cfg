SPECIFICATION Spec
CONSTANTS
  SettleMs = 3
  Commanders = {c1}
  Timings <- TwoTimings
  CmdLag = 1
  TickLag = 1
  TickGap = 1
  MaxMotor = 4
  MaxClock = 10
INVARIANTS
  DrainOffWhileMoving
  CoilOnTime
  SequenceBounded
  FailedSaveIsRetried
PROPERTIES
  PulseDelivered
  ImplementsAbstractValve
  ImplementsInterlock
