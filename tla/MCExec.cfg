SPECIFICATION Spec
CONSTANTS
  Benchmarks <- BenchmarksValue
  Durations = {0, 4}
  CpuTimes = {0, 2}
  MaxSamples = 7
  MaxPasses = 2
  HasCupti = TRUE
  TagSets <- TagSetsValue
  Requests <- RequestsValue
  ColdSamples = {1, 3}
  MaxCalls = 3
INVARIANTS
  TypeOK
  SyncNeverBlocked
  HotMatchesCold
  ProfilerClosed
PROPERTIES
  ImplementsContract
  ExecEnds
CHECK_DEADLOCK FALSE
