SPECIFICATION MergeSpec
CONSTANTS
    Absent = Absent
    MaxKey = 2
    Value = {v}
    MaxHead = 0
INVARIANT
    RebuildExact
