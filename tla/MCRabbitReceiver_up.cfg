SPECIFICATION UpSpec
CONSTANTS
  Subs = {s1, s2}
  MaxConns = 7
  MaxFaults = 3
  Booted = TRUE
INVARIANTS NeverDeaf OneConsumerPerChannel
PROPERTIES Recovers
CHECK_DEADLOCK FALSE
