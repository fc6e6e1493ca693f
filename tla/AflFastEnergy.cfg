SPECIFICATION FastSpec
CONSTANTS
  FastBytes = {0, 1}
  FastPaths = {{0}, {1}, {0, 1}}
  BaseScores = {50}
  Schedule = "FAST"
  MaxFactor = 32
  MaxScore = 100
  ManyPaths = 2
  CalChances = 2
  MaxLevel = 2
  MaxCount = 3
  MaxPaths = 3
  MaxExecs = 1
INVARIANT EnergySpent
CHECK_DEADLOCK FALSE
