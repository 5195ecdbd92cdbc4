SPECIFICATION Safety
CONSTANTS
  AccelReadings = {60}
  BrakeReadings = {0, 80}
  MotorVelocities <- MCMotorVelocities
  BrakeDeadzone = 15
  StoppingThreshold = 10
  MaxVelocity = 12000
PROPERTY CommandFollowsState
