SPECIFICATION Spec
CONSTANTS
    Cases <- RejectionCases
    Nodes = {"n1", "n2"}
    Pages = 2
    MaxMoves = 0
    Now = 5
    Grace = 1
    Slack = 2
INVARIANT CauseIsOwn
CHECK_DEADLOCK FALSE
