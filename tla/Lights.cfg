SPECIFICATION Spec
CONSTANT TimerQueueLength = 10
INVARIANTS TypeOK TimerAlive
PROPERTIES LightsBlink
