CONSTANTS
  Socket = {s1, s2, s3}
  Device = {d, e}
  Exclusive = {d}
  Command = {c1}
  User = User
  None = None
SPECIFICATION SessionsSpec
INVARIANTS TrackingIsExact NoReportIsLost ActiveKeepsItsLocks LocksHaveUsers
CHECK_DEADLOCK FALSE
