SPECIFICATION FairSpec
CONSTANTS
  r1 = r1
  r2 = r2
  Requests = {r1, r2}
  Connections <- MCConnections
  ApiKeyConnection <- MCApiKeyConnection
  ShardOf <- MCShardOf
  MaxEntries = 1
  Skew = 1
  Lifetimes = {0, 2}
  Nobody = Nobody
  MaxTime = 1

INVARIANTS OneFetch RetryIsNew
PROPERTIES ServedFresh LockWaitEnds
CHECK_DEADLOCK FALSE
