CONSTANTS
  Device = {d1, d2}
  Client = {u, v}
  Command = {c1, c2}
  Priority = {0}
  None = None
SPECIFICATION Spec
SYMMETRY Symmetry
INVARIANTS TypeOK PendingIsExact Conservation WaitingIsTracked ReportsAgreeWithDriver
PROPERTIES CancelAllIsTotal CancelClientIsTotal ImplementsLifecycle
