SPECIFICATION CriteriaSpec
CONSTANTS
  Times = {1, 2}
  NoiseLevels = {0, 40, 41}
  MinTime = 6
  MaxNoise = 2
  MinSamples = 4
  StdevSamples = 5
  TrackerSize = 3
  ConvergeAfter = 2
  CheckEvery = 2
  MaxSamples = 8
  MaxRuns = 2
  Log2 <- Log2Value
  WindowSize = 3
  MaxSlope = 1
  MinR2 = 36
  MaxEntropySamples = 6
INVARIANTS CriteriaTypeOK StoppedByOwnMeasurements BackOfNonEmptyTracker FrequenciesAreOwn
PROPERTY TrackersAreWindows
