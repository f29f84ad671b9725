SPECIFICATION Spec
CONSTANTS
  WordSize = 6
  NumDevices = 2
  MaxOptions = 5
  Unopenable = {"closed"}
  Options <- MCLockOptions
  Registered <- MCRegistered
  ParamTypes <- MCParamTypes
INVARIANTS
  ModifiesMostRecentDevices
