SPECIFICATION LoopSpec
CONSTANTS
    Case = {1, 2}
    Nil = 0
    MapSize = 2
    Times = {1}
    Sizes = {1, 2}
    VaryingPut = TRUE
    Seeds = 1
    Traces <- TwoTraces
    SkipCrashes = TRUE
    MayStop = TRUE
    HangRerun = TRUE
    FewPaths = 1
    CalCycles = 1
    CalCyclesLong = 2
    CalChances = 2
    TmoutLimit = 0
    KeepUniqueHang = 1
    KeepUniqueCrash = 1
    MaxRuns <- FewRuns
INVARIANTS LoopTypeOK FuzzesCalibrated StopsSoon KilledRunNotSaved DiscoveredQueued
PROPERTIES RefinesScore DetOnce
