CONSTANTS
  Device = {d1, d2}
  User = {u}
  Procedure = {p, q}
  Client = {u, p, q}
  UserCommand = {a}
  Command = {a}
  Priority = {0}
  SyncPriority = 0
  Registered = {"stop_all", "all_go_home"}
  Exclusive = {d1, d2}
  Beeper = {}
  None = None
SPECIFICATION ManagerSpec
ACTION_CONSTRAINT Single
SYMMETRY DeviceSymmetry
INVARIANTS LocksHaveHolders StopHolds
PROPERTIES HaltedNeverStart
