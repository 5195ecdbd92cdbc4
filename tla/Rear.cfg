SPECIFICATION Spec
CONSTANTS
  Readings <- MCReadings
  BusVoltages <- MCTwoBusVoltages
  FrontStates <- MCTwoFrontStates
  ValidCycles = 2
  PrechargeThreshold = 3
  AfeNumRetries = 1
  RetryModulus = 2
  SolarLimit = 42000
  OverLimit = 42000
  UnderLimit = 25000
  UnbalanceLimit = 5000
INVARIANTS TypeOK MotorIsSafe
PROPERTIES FaultLatches FaultStopsMotor FaultIsBroadcast DriveIsReached InterlockSpec
