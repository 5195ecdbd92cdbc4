SPECIFICATION Safety
CONSTANTS
  Readings <- MCReadings
  BusVoltages <- MCBusVoltages
  FrontStates <- MCFrontStates
  ValidCycles = 2
  PrechargeThreshold = 3
  AfeNumRetries = 2
  RetryModulus = 4
  SolarLimit = 42000
  OverLimit = 42000
  UnderLimit = 25000
  UnbalanceLimit = 5000
INVARIANT FaultOpensRelays
