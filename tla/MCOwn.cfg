SPECIFICATION OwnSpec
CONSTANTS
  Meter <- MCMeter
  Starts = {2}
  Reports <- MCReports
  MaxReadings = 3
  c1 = c1
  c2 = c2
  gireve = gireve
  p1 = p1
  Connectors = {c1, c2}
  Chargeable = {c1}
  Reported <- MCReported
  TariffsOf <- MCTariffsOf
  Partners = {gireve, p1}
  Gireve = gireve
  Handlers = {1, 2}
  MaxChanges = 3
  Recipients = {gireve, p1}
  Hub = gireve
  Pushers = {1, 2}
  MaxVersions = 3
  Tenants = {"FR", "NL"}
  PartnersOf <- MCPartnersOf
  PutOnly = {gireve}
  Senders = {1, 2}
  MaxWrites = 4
  Rows = {"r1", "r2", "r3", "r4"}
  Limits = {1, 2}
  MaxListed = 3
  MaxMoves = 2
  Pushable = {"w1", "w2", "w3"}
  Incomplete = {"w3"}
  NoIssuer = {"w3"}
  PushLimits = {2}
  MaxTouches = 2
INVARIANTS OwnIInv PeriodsAddUp PatchesBuildTheList ToldIsTrue PagesReachAll
PROPERTIES ChangesArePushed
CHECK_DEADLOCK FALSE
