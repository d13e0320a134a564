SPECIFICATION Spec
CONSTANTS
    Keys = {k1, k2}
    Values = {v1, v2}
    Absent = Absent
    MaxLog = 3
    MaxRestarts = 1
INVARIANTS
    DataIsReplay
    SnapshotIsConsistent
CHECK_DEADLOCK FALSE
