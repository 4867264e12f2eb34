SPECIFICATION Spec
CONSTANTS
    Writers = {w1, w2, w3}
    Old = Old
    None = None
SYMMETRY Symmetry
INVARIANTS
    TargetIsWhole
    BundleStays
    OnlyUnfinishedFilesStay
CHECK_DEADLOCK FALSE
