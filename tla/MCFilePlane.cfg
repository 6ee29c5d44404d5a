SPECIFICATION FilePlaneSpec
CONSTANTS
    t1 = t1  t2 = t2  x = x  y = y  h1 = h1  h2 = h2
    Absent = Absent  NoTag = NoTag  Sweeper = Sweeper
    Task = {t1, t2}  PartCounts = {2}  Tag = {x, y}
    Ops <- MCDeletes  TTL = 0  MaxTime = 0  MaxFails <- MCTwoFails
    FileTask = {t1, t2}  Owner = owner  Guest = guest  FileRow = {"r1"}
    FileCall <- MCCalls  GrantChoice <- MCGrants  Size = 3  RangeSpec <- MCRanges
    Kib = 2  MaxPartSize = 4  MaxSingle = 5  MaxParts = 3  Word = 14
    Handler = {h1, h2}  Chunk = {1, 2}  Undeclared = Undeclared  NoPlan = NoPlan
    FileTTL = 0  MaxFaClock = 1  BadNumber = BadNumber  Nil = Nil
INVARIANTS
    UploadKept CommittedIsReplayable IntakeExact
    ServedWasGranted AttachedHasBytes RangeExact
    FilePlaneTypesOK
SYMMETRY MCFileSymmetry
CHECK_DEADLOCK FALSE
