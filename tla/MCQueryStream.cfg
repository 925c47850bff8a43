CONSTANTS
  l = l
  p1 = p1
  p2 = p2
  a1 = a1
  a2 = a2
  a3 = a3
  Addr = {a1, a2, a3}
  Id = {l, p1, p2}
  LocalId = l
  Peer <- MCPeer
  BootstrapNodes <- MCBootstrapNodes
  Rank <- MCRank
  parallelism = 2
  K_VALUE = 2
  None = None
SPECIFICATION FairSpec
INVARIANTS ContactedOnce WaitingMatches NobodyLeftOut TokenOfPeer
PROPERTIES ExpiredEnds AnsweredFinishes
CHECK_DEADLOCK FALSE
