CONSTANTS
  Submit = {s1, s2}
  Run = {}
  Wide = {}
  Attempts = 1
  MaxSockets = 1
SPECIFICATION ClientSpec
INVARIANTS AckMatches
CHECK_DEADLOCK FALSE
