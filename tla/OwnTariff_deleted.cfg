SPECIFICATION OwnTariffSpec
CONSTANTS
  Recipients = {"gireve", "p1"}
  Hub = "gireve"
  Pushers = {"h1"}
  MaxVersions = 2
INVARIANTS DeletedIsGone
CHECK_DEADLOCK FALSE
