SPECIFICATION DataSpec
CONSTANTS
    f1 = f1  f2 = f2  r1 = r1  g1 = g1  g2 = g2  u = u
    m1 = m1  m2 = m2   p1 = p1  p2 = p2  k1 = k1
    File <- MCFile  Mine <- MCMine  Row <- MCRow  Group <- MCGroup
    User = u  None = None
    Mutator <- MCMutator  Poll <- MCPoll  Masters <- MCMasters  Edges <- MCEdges
    MaxOps = 2  MaxDrops = 1  MaxReplay = 2  MaxFanout = 1
    Client = {c1, c2}  Caching = {c1}  MaxWalHead = 2  Segment = {s1}  Manifest = Manifest
    Permits = 1  NotBuilt = NotBuilt  Dropped = Dropped  NoCopy = NoCopy
    Req = {q1, q2}  PolicySubject = {"alice", "bob"}  Superadmin = "superadmin"
    EditTuple <- MCTuples  EditGroup = {"superadmin"}  Dumps <- MCDumps
    MaxPolFaults = 1  MaxEdits = 3  Pieces <- MCPieces  Free = Free
    Peer = {d1, d2}  Worker = {w1, w2}  Capacity = 2  Refill = 1  IdleEvict = 2  MaxLag = 1
    MaxTracked = 1  SweepEvery = 2  CounterMod = 7  Untracked = Untracked  NoPeer = NoPeer
    Secret = {k1, k2, k3}  Weak = Weak  Spaces = Spaces  Blank = Blank  Unset = Unset
    FileId = {e1, e2}  TokenAct = {"read"}
    TokenTTL = 1  MaxNow = 4  MaxLoads = 4  MaxTokens = 1
INVARIANTS
    ReplicaComplete ClaimHasHolder
    CachesHonest
    EnforcerIsStore  ChangesAnnounced
    EvictionSound
    TokensHonoured
    DataTypesOK
PROPERTIES MarkerMonotone
SYMMETRY MCSymmetry
CHECK_DEADLOCK FALSE
