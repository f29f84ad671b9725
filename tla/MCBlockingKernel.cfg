SPECIFICATION FairKernelSpec
CONSTANTS
  BlockingTimeouts <- MCTimeouts
  Blocking = {TRUE, FALSE}
  Launchers <- MCAllLaunchers
  Launches = 2
  TrialBound = 2
  MaxElapsed = 2
INVARIANTS KernelTypeOK RecordedTrialWasGated TimeoutIsGenuine FlagsOutliveKernel
PROPERTIES ImplementsGate HostFinishes
