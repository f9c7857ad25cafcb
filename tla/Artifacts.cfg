CONSTANTS
    b1 = b1
    d1 = d1
    d2 = d2
    Builds = {b1}
    Files = 2
    SameContent = TRUE
    Policies <- MCPolicies
    Downloads = {d1, d2}
SPECIFICATION Spec
CHECK_DEADLOCK FALSE
INVARIANTS AvailableHasFile ReleaseRecordsSurvive SingleUse
PROPERTIES KeptOutcomesStay
SYMMETRY Symmetry
