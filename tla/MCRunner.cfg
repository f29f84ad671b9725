SPECIFICATION FairSpec
CONSTANTS
  d0 = d0
  d1 = d1
  NoDevice = NoDevice
  Devices <- MCDevices
  FirstDevice = d0
  Programs <- MCPrograms
INVARIANTS TypeOK RunsOwnInstantiation RunsOnOwnDevice FinishedBenchmarkCovered
INVARIANT ProgressIsExact
PROPERTY RunEnds
CHECK_DEADLOCK FALSE
