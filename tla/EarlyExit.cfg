SPECIFICATION Spec
CONSTANTS
    StableFor = 2
    WedgedFor = 2
    Timeout = 6
    MaxGap = 2
    MaxRestarts = 1
    Views <- RecoveryViews
    Pods = {p1, p2}
INVARIANTS
    TypeOK
    SameUnlessEarly
    CondemnedUnlessRecovered
CHECK_DEADLOCK FALSE
