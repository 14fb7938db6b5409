CONSTANTS
  MotionLen = 1
  TailLen = 2
  OneShotLen = 1
  MaxUnread = 2
  WaitCmd = 1
  CalibrSteps = 2
  MaxCommands = 2
  MaxEvents = 2
  MaxLost = 1
SPECIFICATION Spec
INVARIANTS HoldRunsOut ReflexesHold  StopAllStopsTheWheels
CHECK_DEADLOCK FALSE
CONSTANTS
  Guarded = TRUE
  Surroundings = {{}, {"power"}, {"left", "right"}}
