--------------------------- MODULE MCVertexTokens ---------------------------
EXTENDS VertexTokens

CONSTANTS r1, r2

\* Two projects of one account, and another account of the first project.
Connection(project, account) == [project |-> project, account |-> account]
MCConnections ==
  {Connection("p1", "ann"), Connection("p1", "bob"), Connection("p2", "ann")}
\* For the run that needs fewer.
MCTwoConnections == {Connection("p1", "ann"), Connection("p1", "bob")}
MCApiKeyConnection == Connection("p1", "key")

\* Two of the connections share a shard.
MCShardOf(key) == IF key.project = "p1" THEN 1 ELSE 2

=============================================================================
