SPECIFICATION Spec
CONSTANTS
    Contexts <- TwoContexts
    Workloads <- TheWorkloads
    Errors = {"no_match", "permission", "other"}
    Conditions <- TheConditions
    Loops <- TheLoops
    CauseOf <- TheCauses
    EvidenceOf <- TheEvidence
INVARIANTS
    TypeOK
    DropsAreCounted
    TrimmedInTiers
PROPERTIES
    QuietIffStill
    TransitionsAreTrue
    ClearedIsHealthy
    BrokenCheckIsLoud
CHECK_DEADLOCK FALSE
