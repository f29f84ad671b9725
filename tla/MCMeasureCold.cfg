SPECIFICATION FairSpec
CONSTANTS
  Criteria <- MCCriteria
  RunOnce <- MCBoth
  Throttling <- MCBoth
  Skipping <- MCBoth
  MinSamples = {2}
  Timeouts = {0, 2, 6}
  RecoveryDelays = {0, 1}
  MaxGrowth = 2
  LongestTrial = 2
  MaxTrials = 8
INVARIANTS TypeOK DiscardedNeverSampled OvershootBounded EndsForAReason
INVARIANTS SilentTimeoutOnBoundary NoPartialResults
PROPERTY MeasurementEnds
CHECK_DEADLOCK FALSE
