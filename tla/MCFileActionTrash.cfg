\* One handler, no sweep and no failure.
CONSTANTS
    d1 = d1
    d2 = d2
    d3 = d3
    Handlers = {h1}
    Home <- MCHome
    RootDirs = {d1, d2, d3}
    OtherDirs = {}
    WalkOrder <- MCWalkOrder
    TrashRoot = trash
    Layouts <- MCLayouts
    MaxJobs = 1
    MaxFrames = 3
    MaxSweeps = 0
    MaxFaults = 0
SPECIFICATION Spec
INVARIANT NothingDestroyed
CHECK_DEADLOCK FALSE
