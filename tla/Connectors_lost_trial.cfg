CONSTANTS
  Calls = {c1, c2, c3}
  NoCall = NoCall
  Connector = "vertex"
  FAILURE_THRESHOLD = 3
  RESET_TIMEOUT = 2
SPECIFICATION FairSpec
PROPERTY HalfOpenResolves
