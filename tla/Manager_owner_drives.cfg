CONSTANTS
  Device = {d}
  User = {u, v}
  Procedure = {}
  Client = {u, v}
  UserCommand = {a}
  Command = {a}
  Priority = {0}
  SyncPriority = 0
  Registered = {}
  Exclusive = {d}
  Beeper = {}
  None = None
SPECIFICATION ManagerSpec
INVARIANTS OwnerDrives
