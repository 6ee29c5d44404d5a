SPECIFICATION FairSpec
CONSTANTS
    f1 = f1  f2 = f2  r1 = r1  g1 = g1  g2 = g2  u = u
    m1 = m1  m2 = m2   p1 = p1  p2 = p2
    File <- MCFile  Mine <- MCMine  Row <- MCRow  Group <- MCGroup
    User = u  None = None
    Mutator <- MCMutator1  Poll <- MCPoll  Masters <- MCReadable  Edges <- MCEdges
    MaxOps = 2  MaxDrops = 1  MaxReplay = 1  MaxFanout = 1
PROPERTY CatchesUp
CHECK_DEADLOCK FALSE
