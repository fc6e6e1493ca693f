SPECIFICATION ScoreSpec
CONSTANTS
    Case = {c1, c2}
    Nil = Nil
    MapSize = 3
    Times = {1}
    Sizes = {1, 2}
    VaryingPut = TRUE
SYMMETRY Symmetry
INVARIANTS
    RefsCountSlots
    PendingCounted
    FavoredCountSafe
    FavoredCoverMap
    LoopsAgree
CHECK_DEADLOCK FALSE
