SPECIFICATION FairSpec
CONSTANTS
  r1 = r1
  r2 = r2
  Requests = {r1, r2}
  Connections <- MCTwoConnections
  ApiKeyConnection <- MCApiKeyConnection
  ShardOf <- MCShardOf
  MaxEntries = 1
  Skew = 1
  Lifetimes = {2}
  Nobody = Nobody
  MaxTime = 0

PROPERTY AuthReturns
CHECK_DEADLOCK FALSE
