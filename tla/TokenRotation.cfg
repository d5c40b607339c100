\* Rotations of the token beside everything else that restarts a relay.
SPECIFICATION RotationSpec
CONSTANTS
    o1 = o1
    o2 = o2
    Operators <- MCOperators
    RegionList <- MCRegionList
    Unknown = "mars"
    Every = ""
    MaxRevisions = 2
SYMMETRY OperatorsAlike
INVARIANTS RefusedOnlyUnrotated
