SPECIFICATION MeterSpec
CONSTANTS
  Half = 6
  MaxStep = 2
  MaxPulses = 3
  FlowPeriod = 2
  BatteryPeriod = 2
  BatteryFirst = 1
  BatteryWindow = 3
  MaxNow = 10
INVARIANTS
  TotalIsTrue
  FlowIsReal
  BatteryIsNewest
