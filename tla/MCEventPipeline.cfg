SPECIFICATION PartSpec
CONSTANTS
  s1 = s1
  s2 = s2
  Subs = {s1, s2}
  MaxConns = 5
  MaxFaults = 2
  Booted = TRUE
  About <- MCAbout
  MaxBreaks = 2
  MaxUndos = 2
INVARIANTS PipeIInv ChangesAreCaptured
PROPERTIES DroppedOnlyInRepair WhatIsWaitedForComes
CHECK_DEADLOCK FALSE
