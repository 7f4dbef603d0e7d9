SPECIFICATION Spec
CONSTANTS
    f1 = f1
    f2 = f2
    ha = ha
    Threads = {t1, t2}
    Flats <- TwoFlats
    Info <- Pair
    Focals = {1, 2}
    Filters <- OneFilter
    Nights = {1, 2}
    Spans <- SomeSpans
    Validities <- SomeValidities
    Null = null
    Keep = keep
    MaxRigs = 2
    MaxSets = 2
    MaxRequests = 3
    MaxTroubled = 2
SYMMETRY Symmetric
INVARIANTS
    TypeOK
    FramesFitTheirRig
    FlatsStayClaimable
    PicksAreSticky
CHECK_DEADLOCK FALSE
