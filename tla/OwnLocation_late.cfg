SPECIFICATION OwnLocationSpec
CONSTANTS
  EvseRows = {e1, e2}
  FirstRows = {{e1}}
  Peers = {p}
  MaxEdits = 2
INVARIANTS RemovedHereToo
CHECK_DEADLOCK FALSE
