SPECIFICATION Spec
CONSTANTS
    Null = null
    Empty = empty
    Junk = junk
    Idle = idle
    HalfDay = 24
    Digits = {"2", "31", "42", "155", "224", "1976"}
    Letters = {"a"}
    Messier <- MCMessier
    Files <- Archive
    Tags <- MCTags
    Offsets <- MCOffsets
    HeaderMaps <- MCHeaderMaps
    Asks <- MCAsks
    Rules <- MCRules
    Columns <- MCColumns
    MaxFrames = 3
    PageSize = 1
    MatchLimit = 2
INVARIANTS
    NightsTurnAtNoon
    SearchFindsEverySpelling
    TwinsComeFirst
    StagedUnderOwnName
CHECK_DEADLOCK FALSE
