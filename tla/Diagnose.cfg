SPECIFICATION Spec
CONSTANTS
    Cases <- AllCases
    Nodes = {"n1", "n2"}
    Pages = 2
    MaxMoves = 2
    Now = 5
    Grace = 1
    Slack = 2
INVARIANTS
    TypeOK
    RootCause
    SharedCauseIsShared
    RejectionsAreNamed
PROPERTIES
    LogIsOfLastCrash
CHECK_DEADLOCK FALSE
