SPECIFICATION Spec
CONSTANTS
    StableFor = 1
    WedgedFor = 0
    Timeout = 4
    MaxGap = 1
    CallTimes = {0}
    MaxRestarts = 1
    Targets = {"restarted"}
    Views <- TargetViews
    Pods = {p1}
INVARIANTS
    RestartFailureIsEarned
CHECK_DEADLOCK FALSE
