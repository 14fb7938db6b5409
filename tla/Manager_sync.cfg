CONSTANTS
  Device = {d1, d2}
  User = {u}
  Procedure = {p, q}
  Client = {u, p, q}
  UserCommand = {}
  Command = {b, c}
  Priority = {0}
  SyncPriority = 0
  Registered = {"stop_all", "sync_test"}
  Exclusive = {}
  Beeper = {d1, d2}
  None = None
SPECIFICATION ManagerSpec
VIEW SyncView
SYMMETRY DeviceSymmetry
INVARIANTS Lockstep WaiterIsExact 
