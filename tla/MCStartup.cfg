SPECIFICATION Spec
CONSTANTS
    lan = lan
    local127 = local127
    p1 = p1
    p2 = p2
    Binds <- TwoBinds
    Ports <- TwoPorts
    Localhost = local127
    Files <- ThreeFiles
    Unset = unset
    MaxTrouble = 2
INVARIANTS
    DefaultsUnlessSpoilt
    ServesWhatIsStored
PROPERTIES
    AppliesAreActedOn
CHECK_DEADLOCK FALSE
