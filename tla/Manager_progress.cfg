CONSTANTS
  Device = {d}
  User = {u}
  first = first
  second = second
  Procedure = {p}
  Client = {u, p}
  UserCommand = {x}
  Command = {x, first, second}
  Priority = {0}
  SyncPriority = 0
  Registered = {"stop_all", "sync_test", "all_go_home"}
  Exclusive = {d}
  Beeper = {}
  None = None
SPECIFICATION FairManagerSpec
ACTION_CONSTRAINT InOrder
INVARIANTS FifoAmongEquals
PROPERTIES QueuedSettles ShutdownEnds ProceduresEnd
