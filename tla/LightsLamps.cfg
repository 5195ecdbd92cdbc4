SPECIFICATION Safety
CONSTANT TimerQueueLength = 10
INVARIANT LampsFollowState
