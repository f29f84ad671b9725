SPECIFICATION Spec
CONSTANTS
  WordSize = 6
  NumDevices = 2
  MaxOptions = 4
  Unopenable = {"closed"}
  Options <- MCOptions
  Registered <- MCRegistered
  ParamTypes <- MCParamTypes
INVARIANTS
  TypeOK
  SettingsInForce
  DevicesInForce
  AxesInForce
  PrintersAsAsked
