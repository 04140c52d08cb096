SPECIFICATION FairSpec
CONSTANTS
    StableFor = 1
    WedgedFor = 2
    Timeout = 4
    MaxGap = 2
    CallTimes = {0, 1}
    MaxRestarts = 0
    deployment = deployment
    job = job
    Targets = {deployment, job}
    Views <- FleetViews
    Pods = {p1}
INVARIANTS
    TypeOK
    AllJudged
PROPERTIES
    EachIsAWatch
    JudgedOnce
    FleetTerminates
CHECK_DEADLOCK FALSE
