SPECIFICATION Spec
CONSTANTS
    ForkSrv = FALSE
    Record = TRUE
    TimeLimit = TRUE
INVARIANTS
    TypeOK
PROPERTIES
    RefinesPutRun
    StaleKillWindow
    LimitedRunReturns
