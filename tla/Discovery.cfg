SPECIFICATION DiscoverSpec
CONSTANTS
    Kinds <- ListedKinds
    Names = {n1, n2, n3, n4}
    Ceiling = 2
    Changes = 2
SYMMETRY AnyName
INVARIANTS
    SelectionBracketed
    CeilingIsExact
CHECK_DEADLOCK FALSE
