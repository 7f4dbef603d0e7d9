\* Two sweeps, one edit of the disk, one failure or crash.
SPECIFICATION Spec
CONSTANTS
    p1 = p1
    p2 = p2
    p3 = p3
    p4 = p4
    raw = raw
    other = other
    torn = torn
    k1 = k1
    k2 = k2
    k3 = k3
    NoFile = NoFile
    NoContent = NoContent
    Paths <- ThreePaths
    Contents = {raw, torn}
    Unreadable = {torn}
    Keys <- MCKeys
    KeyOf <- MCKeyOf
    Workers = 2
    MaxSweeps = 2
    MaxEdits = 1
    MaxTrouble = 1
    ZoneAhead = FALSE
SYMMETRY PathSymmetry
INVARIANTS
    TypeOK
    IndexMatchesDisk
    OkRootCountsDisk
PROPERTIES
    MissingWasAwayOrSkipped
    OldRowsSurvive
CHECK_DEADLOCK FALSE
