SPECIFICATION FairSpec
CONSTANTS
    StableFor = 2
    WedgedFor = 2
    Timeout = 4
    MaxGap = 2
    CallTimes = {0, 4}
    MaxRestarts = 1
    Targets = {"stable", "wedging", "cronjob", "pod"}
    Views <- TargetViews
    Pods = {p1, p2}
INVARIANTS
    TypeOK
    WindowIsCurrent
    WedgeBracketed
    PatienceKept
    EarlyMirrorsDeadline
    ProgressIsLegitimate
    EndsInTime
PROPERTIES
    KeepsPromise
    Terminates
CHECK_DEADLOCK FALSE
