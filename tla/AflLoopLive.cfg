SPECIFICATION FairLoopSpec
CONSTANTS
    Case = {1, 2}
    Nil = 0
    MapSize = 2
    Times = {1}
    Sizes = {1}
    VaryingPut = TRUE
    Seeds = 1
    Traces <- ThreeTraces
    SkipCrashes = FALSE
    MayStop = TRUE
    HangRerun = TRUE
    FewPaths = 1
    CalCycles = 1
    CalCyclesLong = 1
    CalChances = 2
    TmoutLimit = 0
    KeepUniqueHang = 1
    KeepUniqueCrash = 0
    MaxRuns <- OneRun
PROPERTIES StopEnds EveryEntryVisited
