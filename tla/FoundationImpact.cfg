CONSTANTS
    None = None
    x1 = x1
    x2 = x2
    x3 = x3
    MaximumAssetBytes = 8
    MaximumPackageFiles = 8
    MaxEdits = 2
SPECIFICATION SuiteSpec
SYMMETRY Symmetry
CHECK_DEADLOCK FALSE
INVARIANTS
    RequestShapeImpactIsNamed
