SPECIFICATION Spec
CONSTANTS
    Absent = Absent
    NoTag = NoTag
    Sweeper = Sweeper
    Task = {t1}
    PartCounts = {1}
    Tag = {x}
    Ops <- MCExpires
    TTL = 0
    MaxTime = 1
    MaxFails <- MCOneFail
INVARIANT
    CommittedHasBytes
