SPECIFICATION FairSpec
CONSTANTS
    j1 = j1  j2 = j2  k1 = k1  w1 = w1  w2 = w2
    Job <- MCJob  Key = {k1}  Worker = {w1, w2}
    Absent = Absent  Rank <- MCRank  Sites <- MCSites
    MaxAttempts = 2  BatchSize = 2  Delay = 1  MaxFaults = 1
INVARIANTS TypeOK JobsAccounted SoleHolder
PROPERTIES FinishedStays JobFinishes
