SPECIFICATION RegistrySpec
CONSTANTS
  Names <- MCNames
  Types <- MCTypes
  Values = {0, 1, 2}
  Criteria <- MCCriteria
  Defaults <- MCDefaults
  Benchmarks <- MCBenchmarks
  MaxMeasurements = 3
INVARIANT UngivenParametersAreDefault
