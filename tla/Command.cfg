SPECIFICATION FairSpec
CONSTANTS
    Contexts <- TwoContexts
    Workloads <- TheWorkloads
    DiagnosisLimit = 2
    Results <- TheResults
    Reports <- TheReports
INVARIANTS
    TypeOK
    UnverifiedNeverHides
    NothingLost
    InFleetOrder
    DiagnosesBounded
PROPERTIES
    CommandEnds
CHECK_DEADLOCK FALSE
