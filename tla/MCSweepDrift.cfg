\* One sweep over any index and any disk, of four paths: renames, copies and outages.
SPECIFICATION EditedSpec
CONSTANTS
    p1 = p1
    p2 = p2
    p3 = p3
    p4 = p4
    raw = raw
    other = other
    torn = torn
    k1 = k1
    k2 = k2
    k3 = k3
    NoFile = NoFile
    NoContent = NoContent
    Paths <- FourPaths
    Contents = {raw, other}
    Unreadable = {}
    Keys <- MCKeys
    KeyOf <- MCKeyOf
    Workers = 1
    MaxSweeps = 1
    MaxEdits = 0
    MaxTrouble = 0
    ZoneAhead = FALSE
SYMMETRY PathSymmetry
INVARIANTS
    RenameKeepsRow
    NoMoveIsGuessed
PROPERTIES
    CountedOutageMarksNothing
CHECK_DEADLOCK FALSE
