SPECIFICATION Spec
CONSTANTS
    Contexts <- TwoContexts
    Workloads <- TheWorkloads
    Errors = {"no_match", "permission", "other"}
    Conditions <- TheConditions
    Loops <- TrimmedLoops
    CauseOf <- TheCauses
    EvidenceOf <- TheEvidence
PROPERTIES
    QuietUnderBudget
CHECK_DEADLOCK FALSE
