SPECIFICATION Spec
CONSTANTS
  Resources = {cdr, session}
  Cdrs = {cdr}
  MaxVersion = 2
  MaxPushes = 3
  Runs = {w1}
  BatchSize = 2
  MaxAttempt = 1
  Forbid = TRUE
CONSTRAINT FewPushes
INVARIANTS SentMeansAnswered CdrMarkedMeansAccepted
PROPERTIES SentReopensOnlyByLiveFailure ImplementsObligation
