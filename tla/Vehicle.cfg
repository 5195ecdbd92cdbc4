SPECIFICATION Spec
CONSTANTS
  Requests = {"N", "D"}
  Resettable = {"steering", "front", "rear"}
  MaxResets = 1
INVARIANTS TypeOK DrivingNeedsPrecharge MotorNeedsDriver
PROPERTIES FaultIsHeld FaultReachesFront MotorFollowsWheel
