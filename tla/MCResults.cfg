SPECIFICATION Spec
CONSTANTS
  Printers <- PrintersValue
  Benches <- BenchesValue
  Devices <- DevicesValue
  UsedDevices <- UsedValue
  Timed <- TimedValue
  Untimed <- UntimedValue
  Unset = {7}
  MaxMeasurements = 2
INVARIANTS
  TypeOK
  RowsAligned
  SampleFilesAreOwn
CHECK_DEADLOCK FALSE
