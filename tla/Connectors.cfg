CONSTANTS
  Calls = {c1, c2, c3, c4, c5}
  NoCall = NoCall
  Connector = "anthropic"
  FAILURE_THRESHOLD = 3
  RESET_TIMEOUT = 3
SPECIFICATION FairSpec
INVARIANTS
  BreakerConsistent
PROPERTIES
  ImplementsGate
  TrippedIsRetried
  TrialResolvesOrIsLost
