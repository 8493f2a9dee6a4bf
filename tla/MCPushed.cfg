SPECIFICATION PushedSpec
CONSTANTS
  Handlers = {u1, u2, u3, u4}
  Formats = {old, new}
  Hub = TRUE
  MaxEvents = 3
  Gireve = TRUE
  EvseRows = {e1, e2}
  FirstRows = {{e1}, {e1, e2}}
  Peers = {"p", "q"}
  MaxEdits = 3
  Updates = {w1, w2}
  MaxKwh = 1
  MaxPrice = 1
  MaxRewrites = 1
  MaxDeaths = 1
INVARIANTS OneCdrPerTransaction MarkedWasAccepted NoStuckKey InFlightGuardsPushes RemovalTellsAll CdrIsTrue
PROPERTIES NoRepeatedPush
CHECK_DEADLOCK FALSE
