SPECIFICATION CommandSpec
CONSTANTS
  Answers = {a1, a2}
  Commands = {1, 2}
  Given <- MCGiven
  Sessions = {"t1"}
  Requesters = {"hub", "roaming"}
  DirectOf <- MCDirectOf
  EvseRows <- MCEvseRows
  ConnectorRows <- MCConnectorRows
  Reported = {"Occupied"}
  MaxReports = 1
INVARIANTS LateResultsAreFailures DoneAsGiven
PROPERTIES Settles
CHECK_DEADLOCK FALSE
