CONSTANTS
  Device = {y, s}
  Transport = {y, s}
  Adapter = {y}
  Failing = {"teardown", "stop", "transports", "adapters"}
  MaxFailures = 2
SPECIFICATION FairSupervisorSpec
INVARIANTS SupervisorTypeOK
PROPERTIES NoProcessIsForgotten DeadIsReplaced QueueReopens
CHECK_DEADLOCK FALSE
