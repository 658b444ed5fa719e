SPECIFICATION Spec
CONSTANTS
  Second = 2
  TickGaps = {2, 3}
  MaxGap = 3
  Durations = {1, 2}
  MaxDuration = 2
  MaxElapsed = 3
  HistoryCap = 2
  Clearers = {w1}
  MaxStreak = 12
  MaxFires = 3
INVARIANTS
  NotMissed
  HistoryIsNewest
PROPERTIES
  NotEarly
  LatchedCloses
