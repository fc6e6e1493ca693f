SPECIFICATION StopSpec
CONSTANTS
    ForkSrv = TRUE
    Record = FALSE
    TimeLimit = TRUE
INVARIANTS
    StopReachesPut
