SPECIFICATION FairSpec
CONSTANTS
  Resources = {cdr}
  Cdrs = {cdr}
  MaxVersion = 2
  MaxPushes = 2
  Runs = {w1}
  BatchSize = 1
  MaxAttempt = 1
  Forbid = TRUE
PROPERTIES RetriesDrain
