SPECIFICATION Spec
CONSTANTS
    ForkSrv = TRUE
    Record = FALSE
    TimeLimit = TRUE
INVARIANTS
    TimeoutIsOfThisRun
