CONSTANTS
  Submit = {s1, s2}
  Run = {}
  Wide = {s1}
  Attempts = 2
  MaxSockets = 3
SPECIFICATION FairClientSpec
INVARIANTS AnswersAreExpected DoneMeansDone
PROPERTIES EveryCallReturns
CHECK_DEADLOCK FALSE
