\* Two handlers, two requests of two frames in all, two sweeps and one failure.
CONSTANTS
    d1 = d1
    d2 = d2
    d3 = d3
    Handlers = {h1, h2}
    Home <- MCHome
    RootDirs = {d1, d2, d3}
    OtherDirs = {}
    WalkOrder <- MCWalkOrder
    TrashRoot = trash
    Layouts <- MCLayouts
    MaxJobs = 2
    MaxFrames = 2
    MaxSweeps = 2
    MaxFaults = 1
SYMMETRY Sym
SPECIFICATION Spec
INVARIANTS
    TypeOK
    
    TrashedStaysFound
    LossNeedsNamesake
CHECK_DEADLOCK FALSE
