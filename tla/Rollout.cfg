SPECIFICATION RolloutSpec
CONSTANTS
    Kinds = {"Deployment", "StatefulSet", "DaemonSet", "Operator", "Argo", "Legacy"}
    Templates <- Update
    StableFor = 2
    WedgedFor = 0
    Lag = 1
    MaxTime = 6
    Pods = {p1, p2, q}
    Sibling = q
    SiblingStates <- Siblings
SYMMETRY AnyPod
VIEW Told
INVARIANTS
    SettledIsTrue
    ConvergedSettles
CHECK_DEADLOCK FALSE
