SPECIFICATION ScoreSpec
CONSTANTS
    Case = {c1, c2, c3}
    Nil = Nil
    MapSize = 2
    Times = {1}
    Sizes = {1, 2}
    VaryingPut = FALSE
SYMMETRY Symmetry
INVARIANTS
    FavoredCounted
CHECK_DEADLOCK FALSE
