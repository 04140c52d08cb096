SPECIFICATION Spec
CONSTANTS
    Contexts <- TwoContexts
    Workloads <- TheWorkloads
    Errors = {"no_match", "permission", "other"}
    Conditions <- TheConditions
    Loops <- TheLoops
    CauseOf <- TheCauses
    EvidenceOf <- TheEvidence
PROPERTIES
    SettledWasChecked
CHECK_DEADLOCK FALSE
