SPECIFICATION Spec
CONSTANTS
    ForkSrv = TRUE
    Record = TRUE
    TimeLimit = TRUE
INVARIANTS
    NothingLeftBehind
    ReasonFitsEnding
    KillReachesPut
    ExitLeavesNoPut
PROPERTIES
    LimitedRunReturns
