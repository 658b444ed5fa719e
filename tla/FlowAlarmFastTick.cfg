SPECIFICATION Spec
CONSTANTS
  Second = 2
  TickGaps = {1}
  MaxGap = 1
  Durations = {1, 2}
  MaxDuration = 2
  MaxElapsed = 3
  HistoryCap = 1
  Clearers = {w1}
  MaxStreak = 12
  MaxFires = 2
INVARIANTS
  NotMissed
