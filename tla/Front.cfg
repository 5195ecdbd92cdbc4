SPECIFICATION Spec
CONSTANTS
  AccelReadings = {60}
  BrakeReadings = {0, 80}
  MotorVelocities <- MCMotorVelocities
  BrakeDeadzone = 15
  StoppingThreshold = 10
  MaxVelocity = 12000
INVARIANTS TypeOK BrakeIsObeyed
PROPERTIES BrakeStopsTorque FaultIsFollowed DriveIsReached SelectorSpec
