SPECIFICATION FairSpec
CONSTANTS
    Absent = Absent
    NoTag = NoTag
    Sweeper = Sweeper
    Task = {t1, t2}
    PartCounts = {1, 2}
    Tag = {x}
    Ops <- MCSweeps
    TTL = 0
    MaxTime = 1
    MaxFails <- MCFailsIfMultipart
INVARIANTS
    CommittedHasBytes
    NoStagedPartsLeak
PROPERTY
    ExpiredSessionReclaimed
