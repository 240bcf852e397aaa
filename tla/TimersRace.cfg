SPECIFICATION TimersSpec
CONSTANT MaxTimers = 3
CHECK_DEADLOCK FALSE
INVARIANT ListenerNeverCrashes
