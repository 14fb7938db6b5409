CONSTANTS
  Frame = {"TWIST", "TWIST 0", "STOP", "ARM 1", "ARM 0"}
  MaxUnread = 2
  MotionLen = 1
  TailLen = 2
  OneShotLen = 1
  CmdTimeout = 1
  MaxEvents = 3
SPECIFICATION FairSpec
INVARIANTS SilenceStops SessionsDoNotMix EstopHolds TailSparesMotion MotionsAreClosed
PROPERTIES  LinkComesBack
CHECK_DEADLOCK FALSE
